------------------------------- MODULE SdhcRequest -------------------------------
(***************************************************************************)
(* Requests to the SD host controllers, drivers/sdhc/sdhc_hpmicro.c:        *)
(* commands and data transfers of several threads on several controllers,   *)
(* which have a mutex each but share one bounce buffer; polling for         *)
(* completion, the interrupt that clears what is polled, card removal,      *)
(* timeouts, error recovery and retries.                                    *)
(***************************************************************************)
EXTENDS Integers

CONSTANTS Threads, Hosts, NoThread,
          Faulty,       \* hosts whose card comes, goes, fails or does not answer: subset of Hosts
          Asked         \* requests a caller may make: host, kind, retries

VARIABLES
  th,           \* per thread: pc, host, kind of request, retries left
  mutex,        \* access_mutex of each host: holder or NoThread
  present,      \* card in the slot of each host
  ctl,          \* per controller: the request it works on, INT_STAT, whose response it has
  bounce,       \* whose data is in dummy_buffer
  note          \* history: the first thing that went wrong, or that the properties excuse

sdhcVars == <<th, mutex, present, ctl, bounce, note>>

(* Requests by what hpm_sdhc_request and the response type make of them.  A *)
(* stray one is a data command it does not route to hpm_sdhc_transfer.      *)
Kinds   == {"cmd", "busy", "stray", "switch", "read", "write"}
Routed  == {"switch", "read", "write"}
Data    == {"read", "write"}
Waiting == {"busy", "switch", "read", "write"}      \* R1b or data: for XFER_COMPLETE
Flags  == {"cmd", "xfer", "err"}
Labels == {"idle", "lock", "prepare", "send", "poll", "pollXfer", "recover", "copy", "unlock"}
Idle   == [pc |-> "idle", host |-> CHOOSE h \in Hosts : TRUE, kind |-> "cmd", left |-> 0]
Free   == [who |-> NoThread, flags |-> {}, resp |-> NoThread]

TypeOK ==
    /\ th \in [Threads -> [pc : Labels, host : Hosts, kind : Kinds, left : Int]]
    /\ mutex \in [Hosts -> Threads \cup {NoThread}] /\ present \in [Hosts -> BOOLEAN]
    /\ ctl \in [Hosts -> [who : Threads \cup {NoThread}, flags : SUBSET Flags,
                          resp : Threads \cup {NoThread}]]
    /\ bounce \in Threads \cup {NoThread}
    /\ note \in {"clean", "excused", "unserved", "wrongData", "wrongResponse", "falseTimeout"}

Init ==
    /\ th = [t \in Threads |-> Idle] /\ mutex = [h \in Hosts |-> NoThread]
    /\ present = [h \in Hosts |-> TRUE] /\ ctl = [h \in Hosts |-> Free]
    /\ bounce = NoThread /\ note = "clean"

At(t, label)   == th[t].pc = label
H(t)           == th[t].host
Goto(t, label) == th' = [th EXCEPT ![t].pc = label]
Return(t)      == th' = [th EXCEPT ![t] = Idle]
On(t, flag)    == flag \in ctl[H(t)].flags
Clear(t, F)    == ctl' = [ctl EXCEPT ![H(t)].flags = @ \ F]
Note(cond, what) == note' = IF cond /\ note = "clean" THEN what ELSE note
-------------------------------------------------------------------------------
(* Bound: no request begins once note is set (those waiting go on).         *)
Request(t) ==
    /\ At(t, "idle") /\ note = "clean"
    /\ \E a \in Asked :
         th' = [th EXCEPT ![t] = [pc |-> "lock", host |-> a.host, kind |-> a.kind, left |-> a.left]]
    /\ UNCHANGED <<mutex, present, ctl, bounce, note>>

Lock(t) ==
    /\ At(t, "lock") /\ mutex[H(t)] = NoThread
    /\ mutex' = [mutex EXCEPT ![H(t)] = t]
    /\ Goto(t, IF th[t].kind \in Routed THEN "prepare" ELSE "send")
    /\ UNCHANGED <<present, ctl, bounce, note>>

LockTimeout(t) ==       \* -EBUSY
    /\ At(t, "lock") /\ mutex[H(t)] # NoThread
    /\ Return(t)
    /\ UNCHANGED <<mutex, present, ctl, bounce, note>>

UsesBounce(t) == th[t].kind \in Data /\ th[t].pc \notin {"idle", "lock", "prepare", "unlock"}

Prepare(t) ==           \* zero dummy_buffer, and copy what is to be written
    /\ At(t, "prepare")
    /\ bounce' = IF th[t].kind = "write" THEN t ELSE NoThread
    /\ Note(\E u \in Threads \ {t} : UsesBounce(u), "excused")
    /\ Goto(t, "send")
    /\ UNCHANGED <<mutex, present, ctl>>

NoCard(t) ==            \* status_fail is no reason to stop while retries are left
    /\ At(t, "send") /\ ~present[H(t)] /\ th[t].left = 0
    /\ Goto(t, "unlock")
    /\ UNCHANGED <<mutex, present, ctl, bounce, note>>

BusBusy(t) ==           \* hpm_sdhc_wait_bus_idle gives up
    /\ At(t, "send") /\ present[H(t)] /\ th[t].kind \notin Routed /\ ctl[H(t)].who # NoThread
    /\ Goto(t, "unlock")
    /\ UNCHANGED <<mutex, present, ctl, bounce, note>>

(* hpm_sdhc_send_command waits for the bus; hpm_sdhc_send_content does not, *)
(* and the refusal of a busy controller is overwritten by the status polled *)
(* next.                                                                    *)
Start(t) ==
    /\ At(t, "send") /\ present[H(t)]
    /\ th[t].kind \in Routed \/ ctl[H(t)].who = NoThread
    /\ ctl' = IF ctl[H(t)].who # NoThread THEN ctl
              ELSE [ctl EXCEPT ![H(t)].who = t, ![H(t)].resp = NoThread]
    /\ Goto(t, "poll")
    /\ UNCHANGED <<mutex, present, bounce, note>>

BugPoll(t) ==           \* CMD_COMPLETE is not cleared
    /\ At(t, "poll") /\ On(t, "cmd") /\ ~On(t, "err")
    /\ UNCHANGED ctl
    /\ Goto(t, IF th[t].kind \in Waiting THEN "pollXfer" ELSE "copy")
    /\ Note(ctl[H(t)].resp # t, "wrongResponse")
    /\ UNCHANGED <<mutex, present, bounce>>
Poll(t) ==              \* CMD_COMPLETE: the response is read, the flag cleared
    /\ At(t, "poll") /\ On(t, "cmd") /\ ~On(t, "err")
    /\ Clear(t, {"cmd"})
    /\ Goto(t, IF th[t].kind \in Waiting THEN "pollXfer" ELSE "copy")
    /\ Note(ctl[H(t)].resp # t, "wrongResponse")
    /\ UNCHANGED <<mutex, present, bounce>>

PollXfer(t) ==          \* XFER_COMPLETE: end of the data or of the card's busy signal
    /\ At(t, "pollXfer") /\ On(t, "xfer") /\ ~On(t, "err")
    /\ Clear(t, {"xfer"})
    /\ Goto(t, "copy")
    /\ UNCHANGED <<mutex, present, bounce, note>>

PollError(t) ==         \* sdxc_parse_interrupt_status
    /\ th[t].pc \in {"poll", "pollXfer"} /\ On(t, "err")
    /\ \E timeout \in BOOLEAN :     \* is_timeout_status: no recovery, no retry
         Goto(t, IF timeout THEN "unlock" ELSE "recover") /\ Note(timeout, "excused")
    /\ IF At(t, "pollXfer") THEN Clear(t, {"xfer"}) ELSE UNCHANGED ctl
    /\ UNCHANGED <<mutex, present, bounce>>

PollTimeout(t) ==       \* the loop has counted down
    /\ th[t].pc \in {"poll", "pollXfer"} /\ H(t) \in Faulty
    /\ ctl[H(t)].flags \cap {IF At(t, "poll") THEN "cmd" ELSE "xfer", "err"} = {}
    /\ Goto(t, "unlock")
    /\ Note(TRUE, IF At(t, "poll") /\ ctl[H(t)].resp = t THEN "falseTimeout" ELSE "excused")
    /\ UNCHANGED <<mutex, present, ctl, bounce>>

BugRecover(t) ==        \* the attempt is not counted
    /\ At(t, "recover")
    /\ ctl' = [ctl EXCEPT ![H(t)] = Free]
    /\ th' = [th EXCEPT ![t].pc = "send"]
    /\ UNCHANGED <<mutex, present, bounce, note>>
Recover(t) ==           \* hpm_sdhc_error_recovery, then the next round or the end
    /\ At(t, "recover")
    /\ ctl' = [ctl EXCEPT ![H(t)] = Free]
    /\ th' = [th EXCEPT ![t].left = IF @ < 0 THEN @ ELSE @ - 1,
                        ![t].pc = IF th[t].left = 1 THEN "unlock" ELSE "send"]
    /\ UNCHANGED <<mutex, present, bounce, note>>

RecoveryFails(t) ==
    /\ At(t, "recover")
    /\ mutex' = [mutex EXCEPT ![H(t)] = NoThread]
    /\ Return(t)
    /\ Note(TRUE, "excused")
    /\ UNCHANGED <<present, ctl, bounce>>

Copy(t) ==              \* success: out of dummy_buffer after a read
    /\ At(t, "copy")
    /\ Note(th[t].kind = "stray" \/ (th[t].kind = "read" /\ bounce # t),
            IF th[t].kind = "stray" THEN "unserved" ELSE "wrongData")
    /\ Goto(t, "unlock")
    /\ UNCHANGED <<mutex, present, ctl, bounce>>

Unlock(t) ==
    /\ At(t, "unlock")
    /\ mutex' = [mutex EXCEPT ![H(t)] = NoThread]
    /\ Return(t)
    /\ UNCHANGED <<present, ctl, bounce, note>>
-------------------------------------------------------------------------------
(* The controller, the card and the interrupt                               *)

CommandDone(h) ==
    LET t == ctl[h].who IN
    /\ t # NoThread /\ ctl[h].resp # t
    /\ ctl' = [ctl EXCEPT ![h] = [who |-> IF th[t].kind \in Waiting THEN t ELSE NoThread,
                                  flags |-> @.flags \cup {"cmd"}, resp |-> t]]
    /\ UNCHANGED <<th, mutex, present, bounce, note>>

(* The card is no longer busy, or its data has moved to or from             *)
(* dummy_buffer, whoever's it is by now.                                    *)
DataDone(h) ==
    LET t == ctl[h].who IN
    /\ t # NoThread /\ ctl[h].resp = t
    /\ ctl' = [ctl EXCEPT ![h].who = NoThread, ![h].flags = @ \cup {"xfer"}]
    /\ bounce' = IF th[t].kind = "read" THEN t ELSE bounce
    /\ Note(th[t].kind = "write" /\ bounce # t, "wrongData")
    /\ UNCHANGED <<th, mutex, present>>

Fails(h) ==             \* CRC, end bit, ... or a timeout the controller detects
    /\ h \in Faulty /\ ctl[h].who # NoThread /\ "err" \notin ctl[h].flags
    /\ ctl' = [ctl EXCEPT ![h].flags = @ \cup {"err"}]
    /\ UNCHANGED <<th, mutex, present, bounce, note>>

(* hpm_sdhc_isr acknowledges every flag it finds, polled ones included.     *)
CardEvent(h) ==
    /\ h \in Faulty
    /\ present' = [present EXCEPT ![h] = ~@]
    /\ ctl' = [ctl EXCEPT ![h].flags = {}]
    /\ Note(ctl[h].flags # {}, "excused")
    /\ UNCHANGED <<th, mutex, bounce>>
-------------------------------------------------------------------------------
Advance(t) ==
    \/ Lock(t) \/ LockTimeout(t) \/ Prepare(t) \/ NoCard(t) \/ BusBusy(t) \/ Start(t)
    \/ Poll(t) \/ PollXfer(t) \/ PollError(t) \/ PollTimeout(t) \/ Recover(t) \/ Copy(t)
    \/ Unlock(t)

Next ==
    \/ \E t \in Threads : Request(t) \/ Advance(t) \/ RecoveryFails(t)
    \/ \E h \in Hosts : CommandDone(h) \/ DataDone(h) \/ Fails(h) \/ CardEvent(h)

Spec == Init /\ [][Next]_sdhcVars
Answers(h) == CommandDone(h) \/ DataDone(h)
FairSpec == Spec /\ \A t \in Threads : WF_sdhcVars(Advance(t))
                 /\ \A h \in Hosts \ Faulty : WF_sdhcVars(Answers(h))
-------------------------------------------------------------------------------
(* What a request reads or writes is its own data, the response it returns  *)
(* its own, and a timeout it reports one of the card, unless transfers of   *)
(* two controllers overlapped in dummy_buffer, an earlier request was given *)
(* up while the controller went on, or the interrupt took a flag.  A data   *)
(* command that is not routed as one moves no data and returns 0 with the   *)
(* caller's buffer as it was: "unserved".                                   *)
ResultIsOwn == note \in {"clean", "excused", "unserved"}

(* access_mutex is held by a thread inside a request on that host only.     *)
MutexIsReturned ==
    \A h \in Hosts : mutex[h] # NoThread =>
        th[mutex[h]].pc \notin {"idle", "lock"} /\ th[mutex[h]].host = h

(* A request returns, unless the card is gone or it asked for no retries    *)
(* and its counter went below zero.                                         *)
Returns(t) == ~At(t, "idle") ~> (At(t, "idle") \/ ~present[H(t)] \/ th[t].left < 0)
===============================================================================
