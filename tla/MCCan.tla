-------------------------------- MODULE MCCan ---------------------------------
(* The frames of the CAST CAN driver, and the receive filters and the       *)
(* transmit path of the MCAN driver: each behaviour is one of them.         *)
EXTENDS Naturals, Sequences, FiniteSets, TLC

CONSTANTS FrameSet, Submissions,
          McanClients, NoMcan, McanIds, McanZero, McanMaxExt, McanMaxStd, McanAdds, McanFifo,
          SendThreads, SendDevices, SendDevOf, SendMayBlock, SendMax, TxSlots, Faults, NoReq, NoThread,
          t1, t2, t3, d1, d2

(* What the sizes, the frames and the values that stand for nothing are.    *)
Flags == {"IDE", "RTR", "FDF", "BRS", "ESI"}
ASSUME FrameAssumption ==
    /\ FrameSet \subseteq [flags : SUBSET Flags, dlc : Nat]
    /\ Submissions \subseteq Seq(FrameSet) /\ <<>> \in Submissions
ASSUME McanAssumption ==
    /\ NoMcan \notin McanClients /\ McanZero \in McanIds
    /\ McanMaxExt \in Nat \ {0} /\ McanMaxStd \in Nat \ {0} /\ McanAdds \in Nat /\ McanFifo \in Nat

VARIABLES driver,
  canfd, path, frames, step, i, result, stb, heard,
  filters, instMutex, mcall, rxFifo, newMsg, mcanIsr, request, registered, told, mcanOdd,
  hasSentOut, at, blocking, calls, txSem, txMutex, finSem, slot, started, buf, tc, ctl,
  gone, faulted, done, noCb, fired, returned

frameVars  == <<canfd, path, frames, step, i, result, stb, heard>>
mcanVars   == <<filters, instMutex, mcall, rxFifo, newMsg, mcanIsr, request, registered, told, mcanOdd>>
sendVars   == <<hasSentOut, at, blocking, calls, txSem, txMutex, finSem, slot, started, buf, tc, ctl,
                gone, faulted, done, noCb, fired, returned>>

B == INSTANCE CanFrame WITH Frames <- FrameSet
M == INSTANCE McanFilter
T == INSTANCE McanTx WITH pc <- at, mutex <- txMutex,
       Threads <- SendThreads, Devices <- SendDevices, DevOf <- SendDevOf,
       MayBlock <- SendMayBlock, MaxCalls <- SendMax

ASSUME SendAssumption ==
    /\ SendDevOf \in [SendThreads -> SendDevices] /\ SendMax \in [SendThreads -> Nat]
    /\ IsFiniteSet(SendThreads) /\ TxSlots \in Nat \ {0}
    /\ NoThread \notin SendThreads /\ NoReq \notin T!Requests

Init ==
    /\ driver \in {"frame", "mcan", "send"}
    /\ B!Init /\ M!Init /\ T!Init
    /\ driver # "frame" => canfd /\ path = "batch" /\ frames = <<>>

(* Bound: a thread calls twice only when nobody else ever calls.            *)
FewCalls == \A t \in SendThreads : calls'[t] > 1 => \A u \in SendThreads \ {t} : calls'[u] = 0

Next ==
    /\ UNCHANGED driver
    /\ \/ driver = "frame"  /\ B!Next /\ UNCHANGED <<mcanVars, sendVars>>
       \/ driver = "mcan"   /\ M!Next /\ UNCHANGED <<frameVars, sendVars>>
       \/ driver = "send"   /\ T!Next /\ FewCalls /\ UNCHANGED <<frameVars, mcanVars>>

Spec == Init /\ [][Next]_<<driver, frameVars, mcanVars, sendVars>>

(* The state of the three modules has its type.                             *)
TypeOK == B!TypeOK /\ M!TypeOK /\ T!TypeOK
(* CanFrame: a refused call sends nothing, an accepted one what it was given.*)
SentAsGiven == B!AllOrNothing /\ B!HeardAsSent
(* McanFilter: a callback hears the frames its filter asks for.             *)
McanDeliversToOwner == M!McanDeliversToOwner
(* McanFilter: a registration lasts until it is removed.                    *)
McanKeepsRegistrations == M!McanKeepsRegistrations
(* McanTx: where every transmit token is, and that has_sent_out is going to *)
(* be raised again.                                                         *)
McanTokensAccounted == T!TokensAccounted /\ T!FlagIsOwed
(* McanTx: what a sender that is alone can rely on.                         *)
LoneSenderIsServed == T!LoneSenderIsServed
-------------------------------------------------------------------------------
(* The instance.  Every flag combination and length one frame at a time,    *)
(* and batches of up to five frames drawn from a few kinds; two senders on  *)
(* one controller, a third on another.                                      *)
AnyFrame == [flags : SUBSET Flags, dlc : 0..16]
Kinds == [flags : {{}, {"FDF", "BRS"}, {"IDE", "ESI"}}, dlc : {3, 9}]
SomeCalls == [{1} -> AnyFrame] \cup UNION {[1..n -> Kinds] : n \in {0, 2, 3, 5}}
TwoOnOne == (t1 :> d1) @@ (t2 :> d1) @@ (t3 :> d2)
CallsEach == (t1 :> 2) @@ (t2 :> 1) @@ (t3 :> 1)
===============================================================================
