--------------------------------- MODULE McanTx ---------------------------------
(***************************************************************************)
(* The transmit path of the MCAN driver, drivers/can/mcan_hpmicro.c:        *)
(* hpm_mcan_send by several threads on several controllers, the transmit    *)
(* part of hpm_mcan_isr, and the calls that reset a controller.  All        *)
(* controllers share the flag has_sent_out, on which senders spin.          *)
(***************************************************************************)
EXTENDS Integers, FiniteSets, FiniteSetsExt

CONSTANTS Threads, Devices,
          DevOf,        \* the controller each thread sends on
          MayBlock,     \* threads that also send with callback = NULL
          MaxCalls,     \* bound: send calls made by each thread
          TxSlots,      \* HPM_MCAN_NUM_TX_BUF_ELEMENTS (32 in the code)
          Faults,       \* what may go wrong: subset of AllFaults
          NoReq, NoThread

AllFaults == {"busoff", "io", "timeout", "reset"}

Requests == UNION {{t} \X (1..MaxCalls[t]) : t \in Threads}

VARIABLES
  hasSentOut,                               \* the global flag
  pc, blocking, calls,                      \* threads
  txSem, mutex, finSem, slot, started,      \* struct hpm_mcan_data of each device
  buf, tc, ctl,                             \* TX buffer 0, its interrupt flag, control call
  gone, faulted, done, noCb, fired, returned    \* history

threadVars == <<pc, blocking, calls>>
dataVars   == <<txSem, mutex, finSem, slot, started>>
hwVars     == <<buf, tc>>
history    == <<gone, faulted, done, noCb, fired, returned>>
vars       == <<hasSentOut, threadVars, dataVars, hwVars, ctl, history>>

Labels == {"idle", "spin", "claim", "state", "sem", "lock", "cb", "xmit",
           "unlock", "unlockErr", "wait"}

TypeOK ==
    /\ hasSentOut \in BOOLEAN /\ pc \in [Threads -> Labels]
    /\ blocking \in [Threads -> BOOLEAN] /\ (\A t \in Threads : calls[t] \in 0..MaxCalls[t])
    /\ txSem \in [Devices -> 0..TxSlots] /\ finSem \in [Devices -> 0..1]
    /\ mutex \in [Devices -> Threads \cup {NoThread}]
    /\ slot \in [Devices -> Requests \cup {NoReq}] /\ started \in [Devices -> BOOLEAN]
    /\ buf \in [Devices -> Requests \cup {NoReq}] /\ tc \in [Devices -> BOOLEAN]
    /\ ctl \in [Devices -> {"idle", "start", "stop"}]
    /\ gone \in [Devices -> Nat] /\ fired \in [Requests -> Nat]
    /\ returned \subseteq Requests

Init ==         \* after hpm_mcan_init
    /\ hasSentOut = TRUE
    /\ pc = [t \in Threads |-> "idle"] /\ blocking = [t \in Threads |-> FALSE]
    /\ calls = [t \in Threads |-> 0]
    /\ txSem = [d \in Devices |-> TxSlots] /\ mutex = [d \in Devices |-> NoThread]
    /\ finSem = [d \in Devices |-> 1] /\ slot = [d \in Devices |-> NoReq]
    /\ started = [d \in Devices |-> FALSE]
    /\ buf = [d \in Devices |-> NoReq] /\ tc = [d \in Devices |-> FALSE]
    /\ ctl = [d \in Devices |-> "idle"]
    /\ gone = [d \in Devices |-> 0] /\ faulted = FALSE
    /\ done = {} /\ noCb = {} /\ fired = [r \in Requests |-> 0]
    /\ returned = {}

Req(t) == <<t, calls[t]>>
Step(t, from, to) == pc[t] = from /\ pc' = [pc EXCEPT ![t] = to]
-------------------------------------------------------------------------------
(* hpm_mcan_send                                                            *)

Call(t) ==      \* a call on a stopped controller is refused without a trace
    /\ started[DevOf[t]] /\ calls[t] < MaxCalls[t]
    /\ Step(t, "idle", "spin")
    /\ calls' = [calls EXCEPT ![t] = @ + 1]
    /\ \E b \in IF t \in MayBlock THEN BOOLEAN ELSE {FALSE} :
         blocking' = [blocking EXCEPT ![t] = b]
    /\ UNCHANGED <<hasSentOut, dataVars, hwVars, ctl, history>>

SpinEnds(t) ==  \* while (!has_sent_out) { }
    /\ hasSentOut
    /\ Step(t, "spin", "claim")
    /\ UNCHANGED <<hasSentOut, blocking, calls, dataVars, hwVars, ctl, history>>

Claim(t) ==
    /\ Step(t, "claim", "state")
    /\ hasSentOut' = FALSE
    /\ UNCHANGED <<blocking, calls, dataVars, hwVars, ctl, history>>

NotBusOff(t) ==
    /\ Step(t, "state", "sem")
    /\ UNCHANGED <<hasSentOut, blocking, calls, dataVars, hwVars, ctl, history>>

BusOff(t) ==    \* -ENETUNREACH, the flag stays down
    /\ "busoff" \in Faults /\ started[DevOf[t]]
    /\ Step(t, "state", "idle")
    /\ faulted' = TRUE
    /\ UNCHANGED <<hasSentOut, blocking, calls, dataVars, hwVars, ctl,
                   gone, done, noCb, fired, returned>>

TakeSem(t) ==
    /\ txSem[DevOf[t]] > 0
    /\ Step(t, "sem", "lock")
    /\ txSem' = [txSem EXCEPT ![DevOf[t]] = @ - 1]
    /\ UNCHANGED <<hasSentOut, blocking, calls, mutex, finSem, slot, started,
                   hwVars, ctl, history>>

BugSemTimeout(t) ==     \* the result of k_sem_take is ignored
    /\ txSem[DevOf[t]] = 0 /\ "timeout" \in Faults
    /\ Step(t, "sem", "lock")
    /\ UNCHANGED <<hasSentOut, blocking, calls, dataVars, hwVars, ctl, history>>
SemTimeout(t) ==
    /\ txSem[DevOf[t]] = 0 /\ "timeout" \in Faults
    /\ Step(t, "sem", "idle")
    /\ faulted' = TRUE
    /\ UNCHANGED <<hasSentOut, blocking, calls, dataVars, hwVars, ctl,
                   gone, done, noCb, fired, returned>>

Lock(t) ==      \* the result of k_mutex_lock is ignored: a timeout goes on without it
    /\ Step(t, "lock", "cb")
    /\ IF mutex[DevOf[t]] = NoThread
         THEN mutex' = [mutex EXCEPT ![DevOf[t]] = t]
         ELSE "timeout" \in Faults /\ UNCHANGED mutex
    /\ UNCHANGED <<hasSentOut, blocking, calls, txSem, finSem, slot, started,
                   hwVars, ctl, history>>

BugSetCallback(t) ==    \* a blocking send leaves the callback before it in the slot
    /\ Step(t, "cb", "xmit")
    /\ slot' = [slot EXCEPT ![DevOf[t]] = IF blocking[t] THEN @ ELSE Req(t)]
    /\ UNCHANGED <<hasSentOut, blocking, calls, txSem, mutex, finSem, started,
                   hwVars, ctl, history>>
SetCallback(t) ==
    /\ Step(t, "cb", "xmit")
    /\ slot' = [slot EXCEPT ![DevOf[t]] = IF blocking[t] THEN NoReq ELSE Req(t)]
    /\ UNCHANGED <<hasSentOut, blocking, calls, txSem, mutex, finSem, started,
                   hwVars, ctl, history>>

Transmit(t) ==  \* into TX buffer 0, over a request that is still there
    LET d == DevOf[t] IN
    /\ Step(t, "xmit", "unlock")
    /\ buf' = [buf EXCEPT ![d] = Req(t)]
    /\ gone' = IF buf[d] = NoReq THEN gone ELSE [gone EXCEPT ![d] = @ + 1]
    /\ noCb' = IF blocking[t] THEN noCb \cup {Req(t)} ELSE noCb
    /\ UNCHANGED <<hasSentOut, blocking, calls, dataVars, tc, ctl,
                   faulted, done, fired, returned>>

TransmitFails(t) ==     \* the token is not given back
    LET d == DevOf[t] IN
    /\ "io" \in Faults
    /\ Step(t, "xmit", "unlockErr")
    /\ gone' = [gone EXCEPT ![d] = @ + 1] /\ faulted' = TRUE
    /\ UNCHANGED <<hasSentOut, blocking, calls, dataVars, hwVars, ctl,
                   done, noCb, fired, returned>>

Release(t) ==   \* k_mutex_unlock by a thread that is not the owner does nothing
    mutex' = IF mutex[DevOf[t]] = t THEN [mutex EXCEPT ![DevOf[t]] = NoThread] ELSE mutex

Unlock(t) ==
    /\ Step(t, "unlock", IF blocking[t] THEN "wait" ELSE "idle")
    /\ Release(t)
    /\ UNCHANGED <<hasSentOut, blocking, calls, txSem, finSem, slot, started,
                   hwVars, ctl, history>>

UnlockFailed(t) ==      \* -EIO
    /\ Step(t, "unlockErr", "idle")
    /\ Release(t)
    /\ UNCHANGED <<hasSentOut, blocking, calls, txSem, finSem, slot, started,
                   hwVars, ctl, gone, faulted, done, noCb, fired, returned>>

AwaitFinish(t) ==       \* k_sem_take(&tx_fin_sem[0], K_FOREVER)
    LET d == DevOf[t] IN
    /\ finSem[d] > 0
    /\ Step(t, "wait", "idle")
    /\ finSem' = [finSem EXCEPT ![d] = @ - 1]
    /\ returned' = returned \cup {Req(t)}
    /\ UNCHANGED <<hasSentOut, blocking, calls, txSem, mutex, slot, started, hwVars, ctl,
                   gone, faulted, done, noCb, fired>>

Advance(t) ==
    \/ SpinEnds(t) \/ Claim(t) \/ NotBusOff(t) \/ TakeSem(t) \/ Lock(t) \/ SetCallback(t)
    \/ Transmit(t) \/ Unlock(t) \/ UnlockFailed(t) \/ AwaitFinish(t)

Send(t) == Call(t) \/ Advance(t) \/ BusOff(t) \/ SemTimeout(t) \/ TransmitFails(t)
-------------------------------------------------------------------------------
(* Controllers, interrupts and control calls                                *)

FrameSent(d) == \* a completion not yet served absorbs the next one
    /\ buf[d] # NoReq
    /\ done' = done \cup {buf[d]}
    /\ buf' = [buf EXCEPT ![d] = NoReq]
    /\ tc' = [tc EXCEPT ![d] = TRUE]
    /\ gone' = IF tc[d] THEN [gone EXCEPT ![d] = @ + 1] ELSE gone
    /\ UNCHANGED <<hasSentOut, threadVars, dataVars, ctl,
                   faulted, noCb, fired, returned>>

Notify(d) ==
    IF slot[d] = NoReq
      THEN finSem' = [finSem EXCEPT ![d] = 1] /\ UNCHANGED fired
      ELSE fired' = [fired EXCEPT ![slot[d]] = @ + 1] /\ UNCHANGED finSem

GiveToken(d) == txSem' = [txSem EXCEPT ![d] = IF @ < TxSlots THEN @ + 1 ELSE @]

Isr(d) ==               \* MCAN_EVENT_TRANSMIT: hpm_mcan_tc_event_handler, then clear
    /\ tc[d]
    /\ hasSentOut' = TRUE
    /\ GiveToken(d) /\ Notify(d)
    /\ tc' = [tc EXCEPT ![d] = FALSE]
    /\ UNCHANGED <<threadVars, mutex, slot, started, buf, ctl,
                   gone, faulted, done, noCb, returned>>

Lost(d, kept) == (IF buf[d] # NoReq THEN 1 ELSE 0) + (IF tc[d] /\ ~kept THEN 1 ELSE 0)

Reset(d) ==             \* mcan_init or mcan_deinit; TC may or may not survive
    \E kept \in {tc[d], FALSE} :
      /\ buf' = [buf EXCEPT ![d] = NoReq]
      /\ tc' = [tc EXCEPT ![d] = kept]
      /\ gone' = [gone EXCEPT ![d] = @ + Lost(d, kept)]
      /\ faulted' = (faulted \/ Lost(d, kept) > 0)

StartOrStop(d) ==       \* start when stopped, stop when started: first the controller...
    /\ ctl[d] = "idle"
    /\ started[d] => "reset" \in Faults
    /\ Reset(d)
    /\ ctl' = [ctl EXCEPT ![d] = IF started[d] THEN "stop" ELSE "start"]
    /\ UNCHANGED <<hasSentOut, threadVars, dataVars, done, noCb, fired, returned>>

Mark(d) ==              \* ... then the state
    /\ ctl[d] # "idle"
    /\ started' = [started EXCEPT ![d] = (ctl[d] = "start")]
    /\ ctl' = [ctl EXCEPT ![d] = "idle"]
    /\ UNCHANGED <<hasSentOut, threadVars, txSem, mutex, finSem, slot, hwVars, history>>

Reinit(d) ==            \* set_timing while stopped, a filter change at any time
    /\ ctl[d] = "idle" /\ "reset" \in Faults
    /\ Reset(d)
    /\ UNCHANGED <<hasSentOut, threadVars, dataVars, ctl, done, noCb, fired, returned>>
-------------------------------------------------------------------------------
Next ==
    \/ \E t \in Threads : Send(t)
    \/ \E d \in Devices : FrameSent(d) \/ Isr(d) \/ StartOrStop(d) \/ Mark(d) \/ Reinit(d)

Spec == Init /\ [][Next]_vars
-------------------------------------------------------------------------------
(* Properties                                                               *)

Holders(d) == {t \in Threads : DevOf[t] = d /\ pc[t] \in {"lock", "cb", "xmit"}}

(* Every token of tx_sem is with a sender, a pending request or a pending   *)
(* interrupt, or went with an overwritten, merged, dropped or refused       *)
(* request; the handler never gives one that nobody took.                   *)
TokensAccounted ==
    \A d \in Devices :
        txSem[d] + Cardinality(Holders(d)) + gone[d]
          + (IF buf[d] = NoReq THEN 0 ELSE 1) + (IF tc[d] THEN 1 ELSE 0) = TxSlots

(* While has_sent_out is down somebody is going to raise it, unless a call  *)
(* failed after taking it down or a reset dropped the request.              *)
FlagIsOwed ==
    \/ hasSentOut \/ faulted
    \/ \E t \in Threads : pc[t] \in {"state", "sem", "lock", "cb", "xmit"}
    \/ \E d \in Devices : buf[d] # NoReq \/ tc[d]

(* A sender that is alone in the system gets each callback once, after its  *)
(* frame, and the one it is owed unless a call failed or a reset came; its  *)
(* blocking calls run ahead of the bus by one frame only.                   *)
LoneSenderIsServed ==
    (\E t \in Threads : \A u \in Threads \ {t} : calls[u] = 0) =>
        /\ \A r \in Requests :
             /\ fired[r] <= 1
             /\ fired[r] = 1 => r \in done \ noCb
             /\ r \in done \ noCb => fired[r] = 1 \/ tc[DevOf[r[1]]] \/ faulted
        /\ Cardinality(returned \ done) <= 1
===============================================================================
