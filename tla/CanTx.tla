--------------------------------- MODULE CanTx ---------------------------------
(***************************************************************************)
(* The transmit path of the CAST CAN driver, drivers/can/can_hpmicro.c:     *)
(* hpm_can_send and hpm_can_send_batch run by several threads, the part of  *)
(* hpm_can_isr that handles the secondary transmit buffer (STB), and the    *)
(* control calls (start, stop, set_timing, filter changes) which reset the  *)
(* controller.  A thread may be preempted between any two steps; the ISR    *)
(* runs to completion, as it does on the single core the driver supports.   *)
(***************************************************************************)
EXTENDS Integers, FiniteSets

CONSTANTS Threads,      \* application threads that send
          MayBlock,     \* those that also send with callback = NULL
          MaxCalls,     \* bound: send calls made by one thread
          BatchMax,     \* frames the STB takes in a batch (4 in the code)
          CtlOps,       \* control calls made: subset of AllCtlOps
          NoReq,        \* a NULL callback; also "nothing on the controller"
          NoThread      \* tx_mutex is free

AllCtlOps == {"start", "stop", "timing", "filter"}

ASSUME ThreadsAssumption == MayBlock \subseteq Threads /\ NoThread \notin Threads
ASSUME BoundsAssumption == MaxCalls \in Nat /\ BatchMax \in Nat \ {0}
ASSUME CtlAssumption == CtlOps \subseteq AllCtlOps

Requests == Threads \X (1..MaxCalls)

ASSUME NoReqIsNoRequest == NoReq \notin Requests

VARIABLES
  (* the sending threads *)
  pc, call, calls,
  (* struct hpm_can_data *)
  txSem, txMutex, finSem, slot, started,
  (* the controller *)
  stb, tsif, live, bus,
  (* the control thread *)
  ctl,
  (* history: what became of each request *)
  wire, lost, done, noCb, fired, returned, failed

threadVars == <<pc, call, calls>>
dataVars   == <<txSem, txMutex, finSem, slot, started>>
hwVars     == <<stb, tsif, live, bus>>
history    == <<wire, lost, done, noCb, fired, returned, failed>>
vars       == <<threadVars, dataVars, hwVars, ctl, history>>

Labels == {"idle", "state", "sem", "lock", "load", "xmit", "clear",
           "unlock", "unlockErr", "give", "wait"}
Buses  == {"on", "odd", "off"}   \* odd: error flags set, neither warning nor passive
NoCall == [op |-> "none", cb |-> FALSE, frames |-> 0]

CallSet(t) ==   \* frame counts outside 1..BatchMax are refused before any effect
    LET cbs == IF t \in MayBlock THEN BOOLEAN ELSE {TRUE} IN
    [op : {"send"}, cb : cbs, frames : {1}]
      \cup [op : {"batch"}, cb : cbs, frames : 1..BatchMax]

CtlIdle == <<"idle", "none">>
CtlPcs == {CtlIdle} \cup ({"reset", "mark"} \X AllCtlOps)

TypeOK ==
    /\ pc \in [Threads -> Labels]
    /\ \A t \in Threads : call[t] \in CallSet(t) \cup {NoCall}
    /\ DOMAIN call = Threads
    /\ calls \in [Threads -> 0..MaxCalls]
    /\ txSem \in 0..1 /\ finSem \in 0..1
    /\ txMutex \in Threads \cup {NoThread}
    /\ slot \in Requests \cup {NoReq}
    /\ started \in BOOLEAN /\ live \in BOOLEAN /\ tsif \in BOOLEAN
    /\ stb \in 0..BatchMax
    /\ bus \in Buses
    /\ ctl \in CtlPcs
    /\ wire \in Requests \cup {NoReq}
    /\ lost \in BOOLEAN
    /\ done \subseteq Requests /\ noCb \subseteq Requests
    /\ returned \subseteq Requests /\ failed \subseteq Requests
    /\ fired \in [Requests -> Nat]

TxSlots == 1        \* HPM_CAN_NUM_TX_BUF_ELEMENTS

BugFinSemInit == 1
FinSemInit == 0

Init ==         \* after hpm_can_init
    /\ pc = [t \in Threads |-> "idle"] /\ call = [t \in Threads |-> NoCall]
    /\ calls = [t \in Threads |-> 0]
    /\ txSem = TxSlots /\ txMutex = NoThread /\ finSem = FinSemInit /\ slot = NoReq
    /\ started = FALSE
    /\ stb = 0 /\ tsif = FALSE /\ live = TRUE /\ bus = "on"
    /\ ctl = CtlIdle
    /\ wire = NoReq /\ lost = FALSE
    /\ done = {} /\ noCb = {} /\ fired = [r \in Requests |-> 0] /\ returned = {} /\ failed = {}

Req(t)    == <<t, calls[t]>>
At(t, l)  == pc[t] = l
Goto(t, l) == pc' = [pc EXCEPT ![t] = l]
Capped(n) == IF n < 1 THEN n + 1 ELSE 1     \* k_sem_give, both limits are 1
-------------------------------------------------------------------------------
(* hpm_can_send and hpm_can_send_batch                                      *)

Return(t) == Goto(t, "idle") /\ call' = [call EXCEPT ![t] = NoCall]

Fail(t) == Return(t) /\ failed' = failed \cup {Req(t)}  \* return an error code

(* The arguments pass validation (a call they fail changes nothing), then   *)
(* `started` is read.                                                       *)
Call(t) ==
    /\ At(t, "idle") /\ calls[t] < MaxCalls
    /\ calls' = [calls EXCEPT ![t] = @ + 1]
    /\ IF started
         THEN /\ \E c \in CallSet(t) : call' = [call EXCEPT ![t] = c]
              /\ Goto(t, "state")
              /\ UNCHANGED failed
         ELSE /\ failed' = failed \cup {<<t, calls[t] + 1>>}     \* -ENETDOWN
              /\ UNCHANGED <<pc, call>>
    /\ UNCHANGED <<dataVars, hwVars, ctl, wire, lost, done, noCb, fired, returned>>

SaysBusOff ==   \* what hpm_can_get_state may leave in *state: unset when bus is odd
    IF ~started THEN {FALSE}
    ELSE CASE bus = "off" -> {TRUE} [] bus = "odd" -> BOOLEAN [] OTHER -> {FALSE}

CheckState(t) ==
    /\ At(t, "state")
    /\ \E off \in SaysBusOff :
         IF off THEN Fail(t) ELSE Goto(t, "sem") /\ UNCHANGED <<call, failed>>
    /\ UNCHANGED <<calls, dataVars, hwVars, ctl, wire, lost, done, noCb, fired, returned>>

TakeSem(t) ==
    /\ At(t, "sem") /\ txSem > 0
    /\ txSem' = txSem - 1
    /\ Goto(t, "lock")
    /\ UNCHANGED <<call, calls, txMutex, finSem, slot, started, hwVars, ctl, history>>

SemTimeout(t) ==
    /\ At(t, "sem") /\ txSem = 0
    /\ Fail(t)
    /\ UNCHANGED <<calls, dataVars, hwVars, ctl, wire, lost, done, noCb, fired, returned>>

Lock(t) ==
    /\ At(t, "lock") /\ txMutex = NoThread
    /\ txMutex' = t
    /\ Goto(t, "load")
    /\ UNCHANGED <<call, calls, txSem, finSem, slot, started, hwVars, ctl, history>>

BugLockTimeout(t) ==    \* returns without giving tx_sem back
    /\ At(t, "lock") /\ txMutex # NoThread
    /\ Fail(t)
    /\ UNCHANGED <<calls, dataVars, hwVars, ctl, wire, lost, done, noCb, fired, returned>>
LockTimeout(t) ==
    /\ At(t, "lock") /\ txMutex # NoThread
    /\ Goto(t, "give")
    /\ UNCHANGED <<call, calls, dataVars, hwVars, ctl, history>>

BatchBlocked(t) == call[t].op = "batch" /\ stb # 0   \* the STB must be empty

BugCallbackOf(t) == IF call[t].cb THEN <<t, 1>> ELSE NoReq  \* an old argument
CallbackOf(t) == IF call[t].cb THEN Req(t) ELSE NoReq

SetCallback(t) ==
    /\ At(t, "load")
    /\ IF BatchBlocked(t)
         THEN Goto(t, "unlockErr") /\ UNCHANGED slot
         ELSE Goto(t, "xmit") /\ slot' = CallbackOf(t)
    /\ UNCHANGED <<call, calls, txSem, txMutex, finSem, started, hwVars, ctl, history>>

Transmit(t) ==  \* frames into the STB, TSONE or TSALL asserted
    /\ At(t, "xmit")
    /\ stb' = call[t].frames
    /\ wire' = Req(t)
    /\ noCb' = IF call[t].cb THEN noCb ELSE noCb \cup {Req(t)}
    /\ Goto(t, "unlock")
    /\ UNCHANGED <<call, calls, dataVars, tsif, live, bus, ctl,
                   lost, done, fired, returned, failed>>

TransmitFails(t) ==  \* can_send_message_nonblocking refuses the frame
    /\ At(t, "xmit") /\ call[t].op = "send"
    /\ Goto(t, "clear")
    /\ UNCHANGED <<call, calls, dataVars, hwVars, ctl, history>>

ClearCallback(t) ==
    /\ At(t, "clear")
    /\ slot' = NoReq
    /\ Goto(t, "unlockErr")
    /\ UNCHANGED <<call, calls, txSem, txMutex, finSem, started, hwVars, ctl, history>>

Unlock(t) ==    \* with a callback the call returns 0 here
    /\ At(t, "unlock")
    /\ txMutex' = NoThread
    /\ IF call[t].cb
         THEN Return(t)
         ELSE Goto(t, "wait") /\ UNCHANGED call
    /\ UNCHANGED <<calls, txSem, finSem, slot, started, hwVars, ctl, history>>

UnlockFailed(t) ==
    /\ At(t, "unlockErr")
    /\ txMutex' = NoThread
    /\ Goto(t, "give")
    /\ UNCHANGED <<call, calls, txSem, finSem, slot, started, hwVars, ctl, history>>

GiveBack(t) ==
    /\ At(t, "give")
    /\ txSem' = Capped(txSem)
    /\ Fail(t)
    /\ UNCHANGED <<calls, txMutex, finSem, slot, started, hwVars, ctl,
                   wire, lost, done, noCb, fired, returned>>

AwaitFinish(t) ==   \* k_sem_take(&tx_fin_sem[0], K_FOREVER), then return 0
    /\ At(t, "wait") /\ finSem > 0
    /\ finSem' = finSem - 1
    /\ Return(t)
    /\ returned' = returned \cup {Req(t)}
    /\ UNCHANGED <<calls, txSem, txMutex, slot, started, hwVars, ctl,
                   wire, lost, done, noCb, fired, failed>>

Advance(t) ==   \* every step of a call but its timeouts
    \/ CheckState(t) \/ TakeSem(t) \/ Lock(t) \/ SetCallback(t)
    \/ Transmit(t) \/ TransmitFails(t) \/ ClearCallback(t)
    \/ Unlock(t) \/ UnlockFailed(t) \/ GiveBack(t) \/ AwaitFinish(t)

Send(t) == Call(t) \/ Advance(t) \/ SemTimeout(t) \/ LockTimeout(t)
-------------------------------------------------------------------------------
(* The controller and its interrupt                                         *)

SendFrame ==    \* a frame leaves the STB; the last one of the request raises TSIF
    /\ live /\ bus # "off" /\ stb > 0
    /\ stb' = stb - 1
    /\ tsif' = (stb = 1)
    /\ done' = IF stb = 1 THEN done \cup {wire} ELSE done
    /\ UNCHANGED <<threadVars, dataVars, live, bus, ctl,
                   wire, lost, noCb, fired, returned, failed>>

Notify ==
    IF slot = NoReq THEN finSem' = Capped(finSem) /\ UNCHANGED fired
                    ELSE fired' = [fired EXCEPT ![slot] = @ + 1] /\ UNCHANGED finSem

Isr ==          \* CAN_EVENT_TX_SECONDARY_BUF: hpm_can_tc_event_handler, then clear it
    /\ tsif
    /\ slot' = NoReq
    /\ txSem' = Capped(txSem)
    /\ Notify
    /\ tsif' = FALSE
    /\ wire' = NoReq
    /\ UNCHANGED <<threadVars, txMutex, started, stb, live, bus, ctl,
                   lost, done, noCb, returned, failed>>

BusChange ==
    /\ \E b \in Buses \ {bus} : bus' = b
    /\ UNCHANGED <<threadVars, dataVars, stb, tsif, live, ctl, history>>
-------------------------------------------------------------------------------
(* Control calls.  Each tests `started`, resets the controller, and start   *)
(* and stop then record the new state.  A reset empties the STB; whether a  *)
(* raised TSIF survives it is left open.                                    *)

CtlAllowed(op) == CASE op = "stop" -> started
                    [] op = "filter" -> TRUE
                    [] OTHER -> ~started        \* else -EALREADY or -EBUSY

CtlCall(op) ==
    /\ ctl = CtlIdle /\ CtlAllowed(op)
    /\ ctl' = <<"reset", op>>
    /\ UNCHANGED <<threadVars, dataVars, hwVars, history>>

CtlReset(op) == \* can_init, or can_deinit in stop
    /\ ctl = <<"reset", op>>
    /\ ctl' = IF op \in {"start", "stop"} THEN <<"mark", op>> ELSE CtlIdle
    /\ live' = (op # "stop")
    /\ stb' = 0
    /\ \E kept \in {tsif, FALSE} :
         /\ tsif' = kept
         /\ wire' = IF kept THEN wire ELSE NoReq
         /\ lost' = (lost \/ (wire # NoReq /\ ~kept))
    /\ UNCHANGED <<threadVars, dataVars, bus, done, noCb, fired, returned, failed>>

CtlMark(op) ==
    /\ ctl = <<"mark", op>>
    /\ ctl' = CtlIdle
    /\ started' = (op = "start")
    /\ UNCHANGED <<threadVars, txSem, txMutex, finSem, slot, hwVars, history>>

Control == \E op \in CtlOps : CtlCall(op) \/ CtlReset(op) \/ CtlMark(op)
-------------------------------------------------------------------------------
Next == (\E t \in Threads : Send(t)) \/ SendFrame \/ Isr \/ BusChange \/ Control

Spec == Init /\ [][Next]_vars

(* Threads and the interrupt are scheduled; the bus, when it is not off     *)
(* infinitely often, acknowledges the frame at the head of the STB.         *)
Fairness ==
    /\ \A t \in Threads : WF_vars(Advance(t))
    /\ WF_vars(Isr) /\ SF_vars(SendFrame)
    /\ \A op \in CtlOps : WF_vars(CtlReset(op) \/ CtlMark(op))
    /\ SF_vars(bus = "off" /\ BusChange)

FairSpec == Spec /\ Fairness
-------------------------------------------------------------------------------
(* Properties                                                               *)

Holds(t) ==     \* t owns the one transmit token
    pc[t] \in {"lock", "load", "xmit", "clear", "unlockErr", "give"}

(* tx_sem admits one request at a time: the token is in the semaphore, with *)
(* one thread, with the controller, or gone with a dropped request.         *)
OneToken ==
    /\ txSem = 1 => wire = NoReq /\ ~lost
    /\ \A t \in Threads : Holds(t) => txSem = 0 /\ wire = NoReq /\ ~lost
    /\ \A t, u \in Threads : Holds(t) /\ Holds(u) => t = u
    /\ txSem = 0 => lost \/ wire # NoReq \/ \E t \in Threads : Holds(t)
    /\ wire # NoReq => ~lost

(* A completion finds the callback of the request it completes.             *)
SlotIsOnWire ==
    wire # NoReq => slot = IF wire \in noCb THEN NoReq ELSE wire

(* A callback is called once, for a request whose frames all went over the  *)
(* bus, and such a request is called back unless its interrupt is pending   *)
(* or a reset took it.                                                      *)
CallbackExactlyOnce ==
    \A r \in Requests :
        /\ fired[r] <= 1
        /\ fired[r] = 1 => r \in done \ noCb
        /\ r \in done \ noCb => fired[r] = 1 \/ wire = r \/ lost

(* A send reported as failed was never loaded and never will be.            *)
FailedIsHarmless == failed \cap (done \cup noCb \cup {wire}) = {}

(* A blocking send returns 0 only after its own frames were transmitted.    *)
BlockingSendWasSent == returned \subseteq done

Waiting(t) == pc[t] \in {"unlock", "wait"} /\ ~call[t].cb

(* A thread in the final wait is owed a completion or finds it given; only  *)
(* a reset can leave it waiting for nothing.                                *)
WaiterIsOwed ==
    \A t \in Threads : Waiting(t) => wire = Req(t) \/ finSem = 1 \/ lost

(* An empty STB is what the batch code finds: -EAGAIN there never happens.  *)
BatchFindsEmptyStb == \A t \in Threads : Holds(t) => stb = 0 /\ ~tsif

(* The strengthening that makes the above inductive.                        *)
Unsent(t)  == pc[t] \in Labels \ {"idle", "unlock", "wait"}
Known(r)   == r[2] <= calls[r[1]]       \* the call with this number was made

CallsInProgress ==
    \A t \in Threads :
        /\ pc[t] # "idle" => call[t] \in CallSet(t) /\ calls[t] > 0
        /\ pc[t] = "wait" => ~call[t].cb
        /\ pc[t] = "xmit" => slot = CallbackOf(t)
        /\ Unsent(t) => Req(t) \notin done \cup noCb \cup failed \cup {wire}

RequestHistory ==
    /\ \A r \in Requests : r \in done \cup noCb \cup failed \cup {wire} => Known(r)
    /\ \A r \in Requests : fired[r] # 0 => r \in done

ControllerState ==
    /\ wire = NoReq => stb = 0 /\ ~tsif
    /\ wire # NoReq => /\ tsif <=> stb = 0
                       /\ tsif <=> wire \in done
                       /\ fired[wire] = 0

IInv == /\ TypeOK /\ OneToken /\ CallsInProgress /\ RequestHistory /\ ControllerState
        /\ SlotIsOnWire /\ CallbackExactlyOnce /\ FailedIsHarmless

(* With a sole blocking sender tx_fin_sem is only ever given to it.         *)
SoleBlocker == \A t, u \in MayBlock : t = u

FinishSemaphore ==
    /\ finSem = 1 => \E t \in Threads : Waiting(t)
    /\ \A t \in Threads : Waiting(t) /\ finSem = 1 => Req(t) \in done /\ Req(t) # wire
    /\ wire \in noCb => \E t \in Threads : Waiting(t) /\ Req(t) = wire
    /\ \A t \in Threads : Waiting(t) => Req(t) \in noCb

ReturnedOnce ==
    /\ wire \notin returned
    /\ \A t \in Threads : Waiting(t) => Req(t) \notin returned

BlockInv == FinishSemaphore /\ ReturnedOnce /\ BlockingSendWasSent /\ WaiterIsOwed

(* The submitter of a request is told by its callback or by the return of   *)
(* its blocking call.                                                       *)
Abs == INSTANCE CanTxAbs WITH
    told <- returned \cup {q \in Requests : fired[q] > 0}

(* With one blocking sender the driver keeps what CanTxAbs promises: one    *)
(* request at a time, every submitter told at most once and never before    *)
(* its frames are on the bus (send, send_batch and the STB interrupt).      *)
ImplementsAbs == Abs!AbsSpec

(* "each TSONE request has exactly one TSIF completion": a request leaves   *)
(* the controller by being transmitted.                                     *)
RequestEndsByCompletion ==
    [][wire' # wire /\ wire # NoReq => wire \in done']_vars

(* The callback slot keeps still while its request is outstanding.          *)
SlotStable == [][wire # NoReq /\ wire' = wire => slot' = slot]_vars

(* Every send call returns.                                                 *)
SendReturns == \A t \in Threads : pc[t] # "idle" ~> pc[t] = "idle"
===============================================================================
