------------------------------- MODULE MCStorage -------------------------------
(* The storage drivers and the control endpoint of USB, which share         *)
(* nothing: each behaviour is one of them.                                  *)
EXTENDS Naturals

CONSTANTS h1, h2, Threads, NoThread, Hosts, Faulty, Asked, FMin, FMax, Clocks, PowerGpio, PadStates,
          Clients, NoClient, SectorUnits, Sectors, MaxSize, MaxXfers, MaxUpsets,
          SomeThread   \* the thread whose requests are followed, one standing for all

VARIABLES driver,
  th, mutex, present, ctl, bounce, note,
  hostIo, hw, lastRet, gaveUp,
  detectGpio, inserted, cb, cbData, en, edge, pending, isr, enabling, want, wrong,
  initted, configured, initing, waiting, mem, returned, halted,
  host, stage, setupOf, ctrlIn, ctrlOut, evts, usbd, stall, upsets, soiled, stale

requestVars == <<th, mutex, present, ctl, bounce, note>>
ioVars      == <<hostIo, hw, lastRet, gaveUp>>
eventVars   == <<detectGpio, inserted, cb, cbData, en, edge, pending, isr, enabling, want, wrong>>
flashVars   == <<initted, configured, initing, waiting, mem, returned, halted>>
ctrlVars    == <<host, stage, setupOf, ctrlIn, ctrlOut, evts, usbd, stall, upsets, soiled, stale>>

R == INSTANCE SdhcRequest
I == INSTANCE SdhcIo
E == INSTANCE SdhcEvents
F == INSTANCE FlashNor
C == INSTANCE UdcCtrl

(* No marker is a thread or a client; sizes are sizes; the card starts at    *)
(* clock 0 in host_io.                                                      *)
ASSUME RequestAssumption ==
    /\ NoThread \notin Threads /\ Hosts # {} /\ SomeThread \in Threads
    /\ Asked \subseteq [host : Hosts, kind : R!Kinds, left : Nat]
(* The requests asked for: each kind, retries on the faulty host, data on   *)
(* both.                                                                    *)
AskedOf == [host : {h1}, kind : {"read", "write"}, left : {1}]
             \cup [host : {h1}, kind : {"cmd"}, left : {0}]
             \cup [host : {h2}, kind : {"write", "switch", "stray", "busy"}, left : {0}]
ASSUME IoAssumption == 0 \in Clocks
ASSUME EventsAssumption == NoClient \notin Clients
ASSUME FlashAssumption == SectorUnits \in Nat \ {0} /\ Sectors \in Nat /\ MaxSize \in Nat
ASSUME CtrlAssumption == MaxXfers \in Nat /\ MaxUpsets \in Nat

Init ==
    /\ driver \in {"request", "io", "events", "flash", "ctrl"}
    /\ R!Init /\ I!Init /\ E!Init /\ F!Init /\ C!Init
    /\ detectGpio => driver = "events"
    /\ ~initted => driver = "flash"

Next ==
    /\ UNCHANGED driver
    /\ \/ driver = "request" /\ R!Next /\ UNCHANGED <<ioVars, eventVars, flashVars, ctrlVars>>
       \/ driver = "io"      /\ I!Next /\ UNCHANGED <<requestVars, eventVars, flashVars, ctrlVars>>
       \/ driver = "events"  /\ E!Next /\ UNCHANGED <<requestVars, ioVars, flashVars, ctrlVars>>
       \/ driver = "flash"   /\ F!Next /\ UNCHANGED <<requestVars, ioVars, eventVars, ctrlVars>>
       \/ driver = "ctrl"    /\ C!Next /\ UNCHANGED <<requestVars, ioVars, eventVars, flashVars>>

Spec == Init /\ [][Next]_<<driver, requestVars, ioVars, eventVars, flashVars, ctrlVars>>
             /\ \A t \in Threads : WF_requestVars(R!Advance(t))
             /\ \A h \in Hosts \ Faulty : WF_requestVars(R!Answers(h))
             /\ WF_ctrlVars(C!Stack) /\ WF_ctrlVars(C!Host)

(* The state of every driver has its type.                                  *)
TypeOK == R!TypeOK /\ I!TypeOK /\ E!TypeOK /\ F!TypeOK /\ C!TypeOK
(* SdhcRequest: data, responses and timeouts belong to the request, and     *)
(* access_mutex is held inside a request only.                              *)
ResultIsOwn == R!ResultIsOwn /\ R!MutexIsReturned
(* SdhcRequest: a request returns.                                          *)
RequestReturns == R!Returns(SomeThread)
(* SdhcIo: after set_io returned 0 the bus is as asked.                     *)
OkMeansApplied == I!OkMeansApplied
(* SdhcEvents: card events reach the client that wants them.                *)
EventsReachTheirClient == E!EventsReachTheirClient
(* FlashNor: an erase erases the sectors it is asked to, up to one.          *)
EraseIsExact == F!EraseIsExact
(* UdcCtrl: a stage is answered with the buffer of its own transfer.        *)
CtrlIsOwn == C!CtrlIsOwn
(* UdcCtrl: a control transfer comes to its end.                            *)
CtrlCompletes == C!CtrlCompletes
===============================================================================
