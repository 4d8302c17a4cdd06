-------------------------------- MODULE I2cBus --------------------------------
(***************************************************************************)
(* drivers/i2c/i2c_hpmicro.c, one controller: transfers of its threads as    *)
(* master, a registered target, and the interrupt.  A message is as long as *)
(* its data in halves of the FIFO; messages within one FIFO counter each.   *)
(***************************************************************************)
EXTENDS Naturals, Sequences

CONSTANTS I2cThreads, NoI2c,          \* callers
          MaxMsgs, MaxLoad, I2cMsgs   \* messages of a call; halves of a message; those tried

VARIABLES
  i2cCall,    \* per thread: pc, messages asked for, moved, and whether a device did not answer
  i2cMutex,   \* data->mutex: owner and count
  target,     \* data->slave: the thread that registered it
  bus,        \* data->transfer, data->completion and the controller
  i2cOdd      \* history: what the properties excuse, and wrong results

i2cVars == <<i2cCall, i2cMutex, target, bus, i2cOdd>>

Depth == 2
Beyond == MaxLoad + 1     \* bound: an index past the end of every message
Out   == [pc |-> "idle", asked |-> 0, moved |-> 0, nack |-> FALSE]
Msg   == [dir : {"write"}, len : 0..MaxLoad, restart : BOOLEAN]
           \cup [dir : {"read"}, len : 1..MaxLoad, restart : {TRUE}]
Lesser(a, b) == IF a < b THEN a ELSE b

TypeOK ==
    /\ i2cCall \in [I2cThreads -> [pc : {"idle", "wait", "read"}, asked : 0..MaxMsgs,
                                   moved : 0..MaxMsgs, nack : BOOLEAN]]
    /\ i2cMutex \in [owner : I2cThreads \cup {NoI2c}, count : 0..2]
    /\ target \in I2cThreads \cup {NoI2c}
    /\ bus \in [who : I2cThreads \cup {NoI2c}, status : {"idle", "hit", "nohit", "begin", "next"},
               msgs : Seq(Msg), index : 0..Beyond, todo : 0..MaxLoad, fifo : 0..Depth,
               irqs : SUBSET {"hit", "empty", "full", "cmpl"}, ev : SUBSET {"hit", "cmpl"}, sem : 0..1,
               cmd : {"none", "start", "data", "stop", "remote"}, dir : {"read", "write"}]
    /\ Len(bus.msgs) <= MaxMsgs
    /\ i2cOdd \subseteq {"lateStop", "bothEvents", "restartNack", "dataNack", "asTarget", "wrong"}

Init ==
    /\ i2cCall = [t \in I2cThreads |-> Out] /\ i2cMutex = [owner |-> NoI2c, count |-> 0]
    /\ target = NoI2c /\ i2cOdd = {}
    /\ bus = [who |-> NoI2c, status |-> "idle", msgs |-> <<>>, index |-> 0, irqs |-> {}, ev |-> {},
              sem |-> 0, cmd |-> "none", dir |-> "write", todo |-> 0, fifo |-> 0]

InCall(t, pc) == i2cCall[t].pc = pc
NothingOdd == i2cOdd \subseteq {"asTarget"}    \* bound: no transfer begins after an excused event
MayLock(t) == i2cMutex.owner \in {t, NoI2c}
Locked(t)  == [owner |-> t, count |-> i2cMutex.count + 1]
Unlocked   == IF i2cMutex.count = 1 THEN [owner |-> NoI2c, count |-> 0]
              ELSE [i2cMutex EXCEPT !.count = @ - 1]

(* CMPL and the FIFO cleared, the head of msgs on the wire.                 *)
Issue(b) == LET m == Head(b.msgs) IN
    [b EXCEPT !.ev = @ \ {"cmpl"}, !.fifo = 0, !.index = 0, !.dir = m.dir, !.todo = m.len,
              !.cmd = IF m.restart THEN "start" ELSE "data",
              !.irqs = @ \cup (IF m.restart THEN {"hit", "cmpl"} ELSE {"empty", "cmpl"})]
-------------------------------------------------------------------------------
BugBegin(t, msgs) ==    \* the status of the transfer before is left
    [bus EXCEPT !.who = t, !.msgs = msgs, !.index = 0]
Begin(t, msgs) == [bus EXCEPT !.who = t, !.msgs = msgs, !.index = 0, !.status = "idle"]

(* A STOP still on the wire may complete in the new transfer.               *)
Transfer(t) ==
    /\ InCall(t, "idle") /\ MayLock(t) /\ i2cMutex.count < 2 /\ NothingOdd
    /\ i2cMutex' = Locked(t)
    /\ \E n \in 1..MaxMsgs : \E msgs \in [1..n -> I2cMsgs] :
         /\ msgs[1].restart /\ \A i \in 2..n : msgs[i].restart \/ msgs[i - 1].dir = "write"
         /\ i2cCall' = [i2cCall EXCEPT ![t] = [Out EXCEPT !.pc = "wait", !.asked = n]]
         /\ IF target # NoI2c
            THEN bus' = [Begin(t, msgs) EXCEPT !.irqs = @ \cup {"hit", "cmpl"}] /\ UNCHANGED i2cOdd
            ELSE \/ bus' = Issue(Begin(t, msgs)) /\ UNCHANGED i2cOdd
                 \/ /\ bus.cmd = "stop" /\ i2cOdd' = i2cOdd \cup {"lateStop"}
                    /\ bus' = [Issue(Begin(t, msgs)) EXCEPT !.ev = @ \cup {"cmpl"}]
    /\ UNCHANGED target

Return(t) ==            \* k_sem_take, k_mutex_unlock
    /\ InCall(t, "wait") /\ bus.sem = 1
    /\ bus' = [bus EXCEPT !.sem = 0] /\ i2cMutex' = Unlocked
    /\ i2cCall' = [i2cCall EXCEPT ![t].pc = "read"]
    /\ UNCHANGED <<target, i2cOdd>>

ReadStatus(t) ==        \* after the unlock: a transfer that began since has its own status there
    LET c == i2cCall[t]  failed == bus.status = "nohit"
        told == (failed => c.nack) /\ (~failed => c.moved >= c.asked) IN
    /\ InCall(t, "read")
    /\ i2cCall' = [i2cCall EXCEPT ![t] = Out]
    /\ i2cOdd' = i2cOdd \cup (IF bus.who = t /\ ~told THEN {"wrong"} ELSE {})
    /\ UNCHANGED <<i2cMutex, target, bus>>

Configure(t) ==         \* the controller is initialised, or the speed refused
    /\ InCall(t, "idle") /\ MayLock(t)
    /\ bus' = [bus EXCEPT !.ev = {}, !.irqs = {}, !.cmd = "none", !.fifo = 0]
    /\ UNCHANGED <<i2cCall, i2cMutex, target, i2cOdd>>

(* On success, and when the controller refuses, the mutex stays locked.     *)
Register(t) ==
    /\ InCall(t, "idle") /\ MayLock(t) /\ i2cMutex.count < 2
    /\ target = NoI2c
    /\ target' = t /\ i2cMutex' = Locked(t) /\ i2cOdd' = i2cOdd \cup {"asTarget"}
    /\ bus' = [bus EXCEPT !.ev = {}, !.irqs = {}, !.cmd = "none", !.fifo = 0]
    /\ UNCHANGED i2cCall

Unregister(t) ==
    /\ InCall(t, "idle") /\ target # NoI2c /\ MayLock(t)
    /\ target' = NoI2c
    /\ UNCHANGED <<i2cCall, i2cMutex, bus, i2cOdd>>
-------------------------------------------------------------------------------
(* hpmicro_i2c_isr, on a snapshot of the events (ev, full) and of the       *)
(* enabled interrupts; each stage maps the state before to the one after.   *)
Full(b)  == b.fifo = Depth
Give(b)  == [b EXCEPT !.sem = 1]

AddressHit(b) ==
    IF {"hit"} \subseteq b.ev \cap b.irqs
    THEN LET h == [b EXCEPT !.status = "hit", !.ev = @ \ {"hit"}] IN
         IF target = NoI2c
         THEN [h EXCEPT !.irqs = @ \cup IF b.msgs # <<>> /\ Head(b.msgs).dir = "write" THEN {"empty"} ELSE {"full"}]
         ELSE IF b.dir = "read" THEN [h EXCEPT !.irqs = (@ \cup {"full"}) \ {"hit"}]
         ELSE [h EXCEPT !.status = "begin", !.irqs = (@ \cup {"empty"}) \ {"hit"}]
    ELSE IF b.status # "hit"
    THEN Give([b EXCEPT !.status = "nohit", !.irqs = @ \ {"full", "empty"}, !.cmd = "stop"])
    ELSE b

(* While the FIFO has room and the message data; beyond it, once past it.   *)
Transmit(b, empty) ==
    IF ~empty THEN b
    ELSE IF target # NoI2c THEN [b EXCEPT !.status = IF @ = "begin" THEN "next" ELSE @]
    ELSE IF b.msgs = <<>> \/ b.status = "nohit" THEN b
    ELSE LET len == Head(b.msgs).len  room == Depth - b.fifo
             n == IF b.index < len THEN Lesser(room, len - b.index) ELSE room IN
         IF len = 0 THEN b
         ELSE [b EXCEPT !.fifo = b.fifo + n, !.index = Lesser(b.index + n, Beyond),
                        !.irqs = IF b.index + n = len THEN @ \ {"empty"} ELSE @]

Receive(b, full) ==     \* a message that ends with a full FIFO starts the next one here
    IF ~full THEN b
    ELSE LET r == [b EXCEPT !.fifo = 0, !.index = Lesser(b.index + b.fifo, Beyond)] IN
         IF target # NoI2c \/ b.msgs = <<>> \/ r.index # Head(b.msgs).len THEN [r EXCEPT !.index = IF target # NoI2c THEN 0 ELSE @]
         ELSE LET n == [r EXCEPT !.irqs = @ \ {"full"}, !.msgs = Tail(@), !.index = 0]
              IN IF n.msgs = <<>> THEN n ELSE Issue(n)

BugComplete(b, cmpl) ==     \* nothing is done when the last message was read out before
    LET c == [b EXCEPT !.irqs = @ \ {"cmpl", "full", "empty"}, !.ev = @ \ {"cmpl"}]
        n == [c EXCEPT !.msgs = Tail(@)]
    IN IF ~cmpl THEN b
       ELSE IF b.msgs = <<>> THEN b
       ELSE IF target # NoI2c THEN Give(c)
       ELSE IF n.msgs # <<>> /\ b.status = "hit" THEN Issue(n) ELSE Give(n)
Complete(b, cmpl) ==
    LET c == [b EXCEPT !.irqs = @ \ {"cmpl", "full", "empty"}, !.ev = @ \ {"cmpl"}]
        n == [c EXCEPT !.msgs = Tail(@)]
    IN IF ~cmpl THEN b
       ELSE IF target # NoI2c \/ b.msgs = <<>> THEN Give(c)
       ELSE IF n.msgs # <<>> /\ b.status = "hit" THEN Issue(n) ELSE Give(n)

Isr ==
    LET s == bus
        empty == s.fifo = 0 /\ "empty" \in s.irqs
        cmpl  == "cmpl" \in s.ev
    IN /\ (s.ev \cap s.irqs) # {} \/ empty \/ (Full(s) /\ "full" \in s.irqs)
       /\ bus' = Complete(Receive(Transmit(AddressHit(s), empty), Full(s)), cmpl)
       /\ i2cOdd' = i2cOdd \cup (IF cmpl /\ Full(s) THEN {"bothEvents"} ELSE {})
       /\ i2cCall' = IF bus'.msgs # s.msgs /\ s.cmd = "data"     \* read out before its end
                     THEN [i2cCall EXCEPT ![s.who].moved = @ + 1] ELSE i2cCall
       /\ UNCHANGED <<i2cMutex, target>>
-------------------------------------------------------------------------------
(* The bus.                                                                 *)
Ours(s) == [bus EXCEPT !.cmd = s]

AddressPhase ==
    /\ bus.cmd = "start"
    /\ \/ bus' = [Ours("data") EXCEPT !.ev = @ \cup {"hit"}] /\ UNCHANGED <<i2cCall, i2cOdd>>
       \/ /\ bus' = [Ours("none") EXCEPT !.ev = @ \cup {"cmpl"}]
          /\ i2cCall' = [i2cCall EXCEPT ![bus.who].nack = TRUE]
          /\ i2cOdd' = i2cOdd \cup (IF Len(bus.msgs) < i2cCall[bus.who].asked THEN {"restartNack"} ELSE {})
    /\ UNCHANGED <<i2cMutex, target>>

Data ==
    /\ bus.cmd = "data" /\ bus.todo > 0
    /\ bus.fifo # IF bus.dir = "read" THEN Depth ELSE 0
    /\ bus' = [bus EXCEPT !.todo = @ - 1, !.fifo = IF bus.dir = "read" THEN @ + 1 ELSE @ - 1]
    /\ UNCHANGED <<i2cCall, i2cMutex, target, i2cOdd>>

DataEnds ==             \* or the device stops a write
    /\ bus.cmd = "data" /\ (bus.todo = 0 \/ bus.fifo > 0)
    /\ bus.todo > 0 => bus.dir = "write"
    /\ bus' = [Ours("none") EXCEPT !.ev = @ \cup {"cmpl"}]
    /\ IF bus.todo > 0 THEN i2cOdd' = i2cOdd \cup {"dataNack"} /\ UNCHANGED i2cCall
       ELSE /\ i2cCall' = [i2cCall EXCEPT ![bus.who].moved = Lesser(@ + 1, MaxMsgs)]
            /\ UNCHANGED i2cOdd
    /\ UNCHANGED <<i2cMutex, target>>

StopEnds ==
    /\ bus.cmd = "stop"
    /\ bus' = [Ours("none") EXCEPT !.ev = @ \cup {"cmpl"}]
    /\ UNCHANGED <<i2cCall, i2cMutex, target, i2cOdd>>

RemoteBegins ==         \* another master addresses the target
    /\ target # NoI2c /\ bus.cmd = "none" /\ bus.ev = {}
    /\ \E dir \in {"read", "write"} :
         bus' = [Ours("remote") EXCEPT !.ev = @ \cup {"hit"}, !.dir = dir, !.fifo = 0, !.todo = 0]
    /\ UNCHANGED <<i2cCall, i2cMutex, target, i2cOdd>>

RemoteData ==
    /\ bus.cmd = "remote" /\ bus.dir = "read" /\ bus.fifo < Depth
    /\ bus' = [bus EXCEPT !.fifo = @ + 1]
    /\ UNCHANGED <<i2cCall, i2cMutex, target, i2cOdd>>

RemoteEnds ==
    /\ bus.cmd = "remote" /\ "hit" \notin bus.ev
    /\ bus' = [Ours("none") EXCEPT !.ev = @ \cup {"cmpl"}]
    /\ UNCHANGED <<i2cCall, i2cMutex, target, i2cOdd>>

Call(t) ==
    Transfer(t) \/ Return(t) \/ ReadStatus(t) \/ Configure(t) \/ Register(t) \/ Unregister(t)
Wire == AddressPhase \/ Data \/ DataEnds \/ StopEnds \/ RemoteEnds
Next == (\E t \in I2cThreads : Call(t)) \/ Isr \/ Wire \/ RemoteBegins \/ RemoteData

(* The interrupt is taken, the wire does not stop.                          *)
Spec == Init /\ [][Next]_i2cVars /\ WF_i2cVars(Isr) /\ WF_i2cVars(Wire)
             /\ \A t \in I2cThreads : WF_i2cVars(Return(t))
-------------------------------------------------------------------------------
(* A master's call that returns 0 had all its messages transferred, and one *)
(* that returns -ENXIO had a device that did not answer.  Excused are the   *)
(* one call that a transfer of another overtook between unlock and read,    *)
(* and every call once the interrupt came so late that the FIFO was full    *)
(* and the transaction complete, a device stopped answering after the first *)
(* message, a STOP was still on the wire when a transfer began, or a target *)
(* was registered: the mutex stays locked, master calls wait for masters.   *)
I2cResultIsOwn == "wrong" \in i2cOdd => i2cOdd # {"wrong"}

(* The mutex is held inside a call only, unless a target was registered.    *)
I2cMutexIsReturned == "asTarget" \notin i2cOdd =>
    \A t \in I2cThreads : i2cMutex.owner = t <=> InCall(t, "wait")

(* A master's call returns although it waits without a timeout, with the    *)
(* excuses of I2cResultIsOwn (a registered target among them).              *)
I2cReturns == \A t \in I2cThreads :
    InCall(t, "wait") ~> (~InCall(t, "wait") \/ i2cOdd # {})
===============================================================================
