----------------------------- MODULE BusesProofs ------------------------------
(***************************************************************************)
(* Theorems about the drivers of MCBuses, SPI and I2C.                      *)
(***************************************************************************)
EXTENDS MCBuses, SequenceTheorems, TLAPS

vars == <<driver, spiVars, i2cVars>>

(* A behaviour of the union is a behaviour of SPI and of I2C.               *)
THEOREM UnionIsEach == Spec => S!Spec /\ I!Init /\ [][I!Next]_(I!i2cVars)
<1>1. Init => S!Init /\ I!Init
  BY DEF Init
<1>2. [Next]_vars => [S!Next]_(S!spiVars) /\ [I!Next]_(I!i2cVars)
  BY DEF Next, vars, spiVars, i2cVars, S!spiVars, I!i2cVars
<1> QED BY <1>1, <1>2, PTL DEF Spec, S!Spec, vars
-------------------------------------------------------------------------------
(* SpiXfer.  Who is inside holds the lock; while a chunk is loaded, waited  *)
(* for or drained the controller is in the format of its caller.            *)
Active == {"load", "wait", "drain"}
Clean  == spiOdd \cap {"gaveUp", "refused"} = {}

LockHeld == \A t \in SpiThreads : (ctxLock = t) <=> ~S!In(t, "idle")

Formatted ==
    /\ "wrongFormat" \notin spiOdd
    /\ \A t \in SpiThreads : spi[t].pc \in Active => format = t

JobKnown ==
    /\ job.wire # "idle" => job.who \in SpiThreads
    /\ job.tx = "run" => job.wire = "busy"
    /\ job.who = NoCaller => job = S!NoJob

(* With DMA: until a call gives up, the hardware works for the caller that  *)
(* waits or drains, and a side it was told of has ended.                    *)
DmaOrder == Clean /\ withDma =>
    /\ job.who # NoCaller => spi[job.who].pc \in {"wait", "drain"}
    /\ \A t \in SpiThreads : spi[t].pc \in {"wait", "drain"} =>
         /\ job.who = t
         /\ "err" \notin flags
         /\ "tx" \in flags => job.tx = "done"
         /\ "rx" \in flags => job.rx = "done"
         /\ S!In(t, "drain") => flags # {}

(* Without: the hardware works for the caller that waits, who is woken when *)
(* nothing is left and its device is deselected.                            *)
IrqOrder == Clean /\ ~withDma =>
    /\ job.who # NoCaller => sync = 0 /\ S!In(job.who, "wait")
    /\ \A t \in SpiThreads : spi[t].pc # "drain"
    /\ sync = 1 => cs = {} /\ \E t \in SpiThreads : S!In(t, "wait")

Selected == Clean => "incomplete" \notin spiOdd /\ \A t \in cs : spi[t].pc \in Active

SpiInv == S!TypeOK /\ LockHeld /\ Formatted /\ JobKnown /\ DmaOrder /\ IrqOrder /\ Selected

SpiThreadStep(t) ==
    \/ S!Transceive(t) \/ S!Configure(t) \/ S!Load(t) \/ S!LoadFails(t) \/ S!SetupFails(t) \/ S!Wait(t)
    \/ S!TimesOut(t) \/ S!Drain(t) \/ S!AllDone(t) \/ S!Release(t) \/ S!Unlock(t)
SpiHardStep ==
    S!DmaEnds("tx") \/ S!DmaEnds("rx") \/ S!WireEnds \/ S!FifoInterrupt \/ S!FifoFails \/ S!EndInterrupt

(* Each record of the callers' state.                                       *)
Callers == [pc : {"idle", "held", "configure", "load", "wait", "drain", "out"},
            tx : 0..MaxLen, rx : 0..MaxLen, hold : BOOLEAN, ok : BOOLEAN]

LEMMA SpiInit == S!Init => SpiInv
BY SpiAssumption DEF SpiAssumption, S!Init, SpiInv, S!TypeOK, LockHeld, Formatted, JobKnown, DmaOrder, IrqOrder,
   Selected, S!Rest, S!NoJob, S!In, S!Sides, Active, Clean

(* What is left after a chunk.                                              *)
LEMMA SpiUpdated ==
  ASSUME NEW r \in Callers
  PROVE  /\ S!Updated(r) = [pc |-> r.pc, tx |-> r.tx - S!Chunk(r.tx), rx |-> r.rx - S!Chunk(r.rx),
                            hold |-> r.hold, ok |-> r.ok]
         /\ S!Updated(r) \in Callers
<1> DEFINE tx == r.tx - S!Chunk(r.tx)
           rx == r.rx - S!Chunk(r.rx)
<1>0. S!Updated(r) = [r EXCEPT !.tx = tx, !.rx = rx]
  BY DEF S!Updated
<1> HIDE DEF tx, rx
<1>1. S!Updated(r) = [pc |-> r.pc, tx |-> tx, rx |-> rx, hold |-> r.hold, ok |-> r.ok]
  BY <1>0 DEF Callers
<1> USE DEF tx, rx
<1>2. /\ r.tx \in 0..MaxLen /\ r.rx \in 0..MaxLen /\ MaxLen \in Nat
  BY SpiAssumption DEF SpiAssumption, Callers
<1>3. r.tx - S!Chunk(r.tx) \in 0..MaxLen /\ r.rx - S!Chunk(r.rx) \in 0..MaxLen
  BY <1>2 DEF S!Chunk
<1> QED BY <1>1, <1>3 DEF Callers

(* A step of a caller gives it another record and leaves the others alone.  *)
LEMMA SpiDoes ==
  ASSUME SpiInv, NEW t \in SpiThreads, SpiThreadStep(t)
  PROVE  /\ withDma' = withDma
         /\ spi'[t] \in Callers
         /\ spi' = [spi EXCEPT ![t] = spi'[t]]
<1>1. spi \in [SpiThreads -> Callers] /\ spi[t] \in Callers /\ MaxLen \in Nat
  BY SpiAssumption DEF SpiAssumption, SpiInv, S!TypeOK, Callers
<1>2. CASE S!Transceive(t)
  BY <1>1, <1>2 DEF S!Transceive, Callers
<1>3. CASE S!Configure(t)
  BY <1>1, <1>3 DEF S!Configure, S!Step, S!Fail, Callers
<1>4. CASE S!Load(t)
  BY <1>1, <1>4 DEF S!Load, S!Step, S!Start, Callers
<1>5. CASE S!LoadFails(t)
  BY <1>1, <1>5 DEF S!LoadFails, S!Fail, Callers
<1>6. CASE S!SetupFails(t)
  BY <1>1, <1>6 DEF S!SetupFails, S!Step, Callers
<1>7. CASE S!Wait(t)
  BY <1>1, <1>7 DEF S!Wait, S!Step, S!Fail, Callers
<1>8. CASE S!TimesOut(t)
  BY <1>1, <1>8 DEF S!TimesOut, S!Fail, Callers
<1>9. CASE S!Drain(t)
  <2> DEFINE rec == [S!Updated(spi[t]) EXCEPT !.pc = "load"]
  <2>1. rec \in Callers
    BY <1>1, SpiUpdated DEF Callers
  <2>2. spi' = [spi EXCEPT ![t] = rec]
    BY <1>9 DEF S!Drain
  <2>3. withDma' = withDma
    BY <1>9 DEF S!Drain
  <2> HIDE DEF rec
  <2> QED BY <1>1, <2>1, <2>2, <2>3
<1>10. CASE S!AllDone(t)
  BY <1>1, <1>10 DEF S!AllDone, S!Step, Callers
<1>11. CASE S!Release(t)
  <2>0. withDma' = withDma /\ 0 \in 0..MaxLen
    BY <1>1, <1>11 DEF S!Release
  <2>1. CASE spi[t].hold
    <3>1. spi' = [spi EXCEPT ![t] = [S!Rest EXCEPT !.pc = "held"]]
      BY <1>11, <2>1 DEF S!Release
    <3>2. [S!Rest EXCEPT !.pc = "held"] \in Callers
      BY <2>0 DEF S!Rest, Callers
    <3> QED BY <1>1, <2>0, <3>1, <3>2
  <2>2. CASE ~spi[t].hold
    <3>1. spi' = [spi EXCEPT ![t] = [S!Rest EXCEPT !.pc = "idle"]]
      BY <1>11, <2>2 DEF S!Release
    <3>2. [S!Rest EXCEPT !.pc = "idle"] \in Callers
      BY <2>0 DEF S!Rest, Callers
    <3> QED BY <1>1, <2>0, <3>1, <3>2
  <2> QED BY <2>1, <2>2
<1>12. CASE S!Unlock(t)
  BY <1>1, <1>12 DEF S!Unlock, S!Step, Callers
<1> QED BY <1>2, <1>3, <1>4, <1>5, <1>6, <1>7, <1>8, <1>9, <1>10, <1>11, <1>12 DEF SpiThreadStep

LEMMA SpiOthers ==
  ASSUME SpiInv, NEW t \in SpiThreads, SpiThreadStep(t) PROVE \A u \in SpiThreads : u # t => spi'[u] = spi[u]
BY SpiDoes DEF SpiInv, S!TypeOK

LEMMA SpiThreadType == ASSUME SpiInv, NEW t \in SpiThreads, SpiThreadStep(t) PROVE S!TypeOK'
<1>1. S!TypeOK /\ withDma' = withDma /\ spi'[t] \in Callers /\ spi' = [spi EXCEPT ![t] = spi'[t]]
  BY SpiDoes DEF SpiInv
<1>2. spi' \in [SpiThreads -> Callers]
  BY <1>1 DEF S!TypeOK, Callers
<1>3. S!ChunkOf(t) \in [who : SpiThreads \cup {NoCaller}, tx : S!Sides, rx : S!Sides, wire : {"idle", "busy", "end"}]
  BY DEF S!ChunkOf, S!Sides
<1>4. /\ ctxLock' \in SpiThreads \cup {NoCaller} /\ format' \in SpiThreads \cup {NoCaller}
      /\ sync' \in 0..1 /\ flags' \subseteq {"tx", "rx", "err"} /\ cs' \subseteq SpiThreads
  BY <1>1 DEF SpiThreadStep, S!TypeOK, S!Transceive, S!Configure, S!Load, S!LoadFails, S!SetupFails,
     S!Wait, S!TimesOut, S!Drain, S!AllDone, S!Release, S!Unlock
<1>5. job' \in [who : SpiThreads \cup {NoCaller}, tx : S!Sides, rx : S!Sides, wire : {"idle", "busy", "end"}]
  BY <1>1, <1>3 DEF SpiThreadStep, S!TypeOK, S!Transceive, S!Configure, S!Load, S!LoadFails, S!SetupFails,
     S!Wait, S!TimesOut, S!Drain, S!AllDone, S!Release, S!Unlock, S!Start, S!NoJob, S!Sides
<1>6. spiOdd' \subseteq {"gaveUp", "lag", "refused", "incomplete", "wrongFormat"}
  BY <1>1 DEF SpiThreadStep, S!TypeOK, S!Transceive, S!Configure, S!Load, S!LoadFails, S!SetupFails,
     S!Wait, S!TimesOut, S!Drain, S!AllDone, S!Release, S!Unlock, S!Start
<1> QED BY <1>1, <1>2, <1>4, <1>5, <1>6 DEF S!TypeOK, Callers

LEMMA SpiTo ==
  ASSUME spi \in [SpiThreads -> Callers], NEW t \in SpiThreads, NEW p
  PROVE  /\ S!Step(t, p) => spi'[t].pc = p
         /\ S!Fail(t) => spi'[t].pc = "out"
BY DEF S!Step, S!Fail, Callers

(* Where a step takes its caller, and what it does to lock and chip selects.*)
LEMMA SpiMoves ==
  ASSUME SpiInv, NEW t \in SpiThreads
  PROVE  /\ S!Transceive(t) => spi[t].pc \in {"idle", "held"} /\ spi'[t].pc = "configure"
         /\ S!Configure(t) => spi[t].pc = "configure" /\ spi'[t].pc \in {"load", "out"}
                              /\ (spi'[t].pc = "load" => format' = t /\ cs' = cs \cup {t})
                              /\ (spi'[t].pc = "out" => format' = format /\ cs' = cs)
         /\ S!Load(t) => spi[t].pc = "load" /\ spi'[t].pc = "wait"
         /\ S!LoadFails(t) => spi[t].pc = "load" /\ spi'[t].pc = "out"
         /\ S!SetupFails(t) => spi[t].pc = "load" /\ spi'[t].pc \in {"out", "wait"}
         /\ S!Wait(t) => /\ spi[t].pc = "wait" /\ spi'[t].pc \in {"out", "drain", "wait"}
                         /\ withDma /\ spi'[t].pc = "out" => "err" \in flags
                         /\ ~withDma => spi'[t].pc = "out"
                         /\ spi'[t].pc = "drain" => flags # {}
         /\ S!TimesOut(t) => spi[t].pc = "wait" /\ spi'[t].pc = "out"
         /\ S!Drain(t) => spi[t].pc = "drain" /\ spi'[t].pc = "load"
         /\ S!AllDone(t) => /\ spi[t].pc = "load" /\ spi'[t].pc \in {"out", "wait"}
                            /\ IF withDma THEN spi'[t].pc = "out" /\ sync' = sync
                               ELSE spi'[t].pc = "wait" /\ sync' = 1
         /\ S!Release(t) => /\ spi[t].pc = "out" /\ spi'[t].pc \in {"held", "idle"}
                            /\ ctxLock' = IF spi'[t].pc = "held" THEN ctxLock ELSE NoCaller
         /\ S!Unlock(t) => spi[t].pc = "held" /\ spi'[t].pc = "idle"
<1>1. spi \in [SpiThreads -> Callers] /\ withDma \in BOOLEAN
  BY DEF SpiInv, S!TypeOK, Callers
<1>2. S!Transceive(t) => spi[t].pc \in {"idle", "held"} /\ spi'[t].pc = "configure"
  BY <1>1 DEF S!Transceive, S!In
<1>3. ASSUME S!Configure(t)
      PROVE  /\ spi[t].pc = "configure" /\ spi'[t].pc \in {"load", "out"}
             /\ (spi'[t].pc = "load" => format' = t /\ cs' = cs \cup {t})
             /\ (spi'[t].pc = "out" => format' = format /\ cs' = cs)
  <2>1. \/ S!Step(t, "load") /\ format' = t /\ cs' = cs \cup {t}
        \/ S!Fail(t) /\ format' = format /\ cs' = cs
    BY <1>3 DEF S!Configure
  <2>2. spi[t].pc = "configure"
    BY <1>3 DEF S!Configure, S!In
  <2> QED BY <1>1, <2>1, <2>2, SpiTo
<1>4. S!Load(t) => spi[t].pc = "load" /\ spi'[t].pc = "wait"
  BY <1>1, SpiTo DEF S!Load, S!In
<1>5. S!LoadFails(t) => spi[t].pc = "load" /\ spi'[t].pc = "out"
  BY <1>1, SpiTo DEF S!LoadFails, S!In
<1>6. ASSUME S!SetupFails(t) PROVE spi[t].pc = "load" /\ spi'[t].pc \in {"out", "wait"}
  <2>1. S!Step(t, "out") \/ S!Step(t, "wait")
    BY <1>6 DEF S!SetupFails
  <2> QED BY <1>1, <1>6, <2>1, SpiTo DEF S!SetupFails, S!In
<1>7. ASSUME S!Wait(t)
      PROVE  /\ spi[t].pc = "wait" /\ spi'[t].pc \in {"out", "drain", "wait"}
             /\ withDma /\ spi'[t].pc = "out" => "err" \in flags
             /\ ~withDma => spi'[t].pc = "out"
             /\ spi'[t].pc = "drain" => flags # {}
  <2>1. spi[t].pc = "wait"
    BY <1>7 DEF S!Wait, S!In
  <2>2. \/ ~withDma /\ S!Step(t, "out")
        \/ withDma /\ "err" \in flags /\ S!Fail(t)
        \/ withDma /\ flags # {} /\ S!Step(t, "drain")
        \/ withDma /\ spi' = spi
    BY <1>7 DEF S!Wait
  <2> QED BY <1>1, <2>1, <2>2, SpiTo
<1>8. S!TimesOut(t) => spi[t].pc = "wait" /\ spi'[t].pc = "out"
  BY <1>1, SpiTo DEF S!TimesOut, S!In
<1>9. ASSUME S!Drain(t) PROVE spi[t].pc = "drain" /\ spi'[t].pc = "load"
  <2> DEFINE rec == [S!Updated(spi[t]) EXCEPT !.pc = "load"]
  <2>1. rec.pc = "load"
    BY <1>1, SpiUpdated DEF Callers
  <2>2. spi[t].pc = "drain" /\ spi' = [spi EXCEPT ![t] = rec]
    BY <1>9 DEF S!Drain, S!In
  <2> HIDE DEF rec
  <2> QED BY <1>1, <2>1, <2>2
<1>10. ASSUME S!AllDone(t)
       PROVE  /\ spi[t].pc = "load" /\ spi'[t].pc \in {"out", "wait"}
              /\ IF withDma THEN spi'[t].pc = "out" /\ sync' = sync
                 ELSE spi'[t].pc = "wait" /\ sync' = 1
  <2>1. \/ withDma /\ S!Step(t, "out") /\ sync' = sync
        \/ ~withDma /\ S!Step(t, "wait") /\ sync' = 1
    BY <1>10 DEF S!AllDone
  <2> QED BY <1>1, <1>10, <2>1, SpiTo DEF S!AllDone, S!In
<1>11. ASSUME S!Release(t)
       PROVE  /\ spi[t].pc = "out" /\ spi'[t].pc \in {"held", "idle"}
              /\ ctxLock' = IF spi'[t].pc = "held" THEN ctxLock ELSE NoCaller
  <2>1. CASE spi[t].hold
    BY <1>1, <1>11, <2>1 DEF S!Release, S!Rest, S!In
  <2>2. CASE ~spi[t].hold
    BY <1>1, <1>11, <2>2 DEF S!Release, S!Rest, S!In
  <2> QED BY <2>1, <2>2
<1>12. S!Unlock(t) => spi[t].pc = "held" /\ spi'[t].pc = "idle"
  BY <1>1, SpiTo DEF S!Unlock, S!In
<1> QED BY <1>2, <1>3, <1>4, <1>5, <1>6, <1>7, <1>8, <1>9, <1>10, <1>11, <1>12

(* Only transceive enters, and only release and spi_release leave.          *)
LEMMA SpiThreadLock == ASSUME SpiInv, NEW t \in SpiThreads, SpiThreadStep(t) PROVE LockHeld'
<1>1. S!TypeOK /\ LockHeld /\ \A u \in SpiThreads : u # t => spi'[u] = spi[u]
  BY SpiDoes DEF SpiInv, S!TypeOK
<1>2. NoCaller \notin SpiThreads
  BY SpiAssumption DEF SpiAssumption
<1>3. CASE S!Transceive(t)
  <2>1. ctxLock' = t /\ spi'[t].pc = "configure" /\ (ctxLock = NoCaller \/ ctxLock = t)
    BY <1>1, <1>3, SpiMoves DEF S!Transceive, LockHeld, S!In
  <2> QED BY <1>1, <1>2, <2>1 DEF LockHeld, S!In
<1>4. CASE S!Release(t) \/ S!Unlock(t)
  <2>1. ctxLock = t
    BY <1>1, <1>4, SpiMoves DEF LockHeld, S!In
  <2>2. \/ ctxLock' = t /\ spi'[t].pc = "held"
        \/ ctxLock' = NoCaller /\ spi'[t].pc = "idle"
    BY <1>4, <2>1, SpiMoves DEF S!Unlock
  <2> QED BY <1>1, <1>2, <2>1, <2>2 DEF LockHeld, S!In
<1>5. CASE ~(S!Transceive(t) \/ S!Release(t) \/ S!Unlock(t))
  <2>1. spi[t].pc # "idle" /\ spi'[t].pc # "idle"
    BY <1>5, SpiMoves DEF SpiThreadStep
  <2>2. ctxLock' = ctxLock
    BY <1>5 DEF SpiThreadStep, S!Configure, S!Load, S!LoadFails, S!SetupFails,
       S!Wait, S!TimesOut, S!Drain, S!AllDone
  <2> QED BY <1>1, <2>1, <2>2 DEF LockHeld, S!In
<1> QED BY <1>3, <1>4, <1>5

(* The caller inside is the only one that is not idle.                      *)
LEMMA SpiAlone ==
  ASSUME LockHeld, NEW t \in SpiThreads, NEW u \in SpiThreads, spi[t].pc # "idle", spi[u].pc # "idle"
  PROVE  t = u
BY DEF LockHeld, S!In

LEMMA SpiThreadFormat == ASSUME SpiInv, NEW t \in SpiThreads, SpiThreadStep(t) PROVE Formatted'
<1>1. LockHeld /\ Formatted /\ \A u \in SpiThreads : u # t => spi'[u] = spi[u]
  BY SpiDoes DEF SpiInv, S!TypeOK
<1>2. CASE S!Configure(t)
  <2>1. spiOdd' = spiOdd
    BY <1>2 DEF S!Configure
  <2>2. \A u \in SpiThreads : u # t => spi[u].pc \notin Active
    BY <1>1, <1>2, SpiMoves, SpiAlone DEF Active
  <2> QED BY <1>1, <1>2, <2>1, <2>2, SpiMoves DEF Formatted, Active
<1>3. CASE ~S!Configure(t)
  <2>1. format' = format
    BY <1>3 DEF SpiThreadStep, S!Transceive, S!Load, S!LoadFails, S!SetupFails,
       S!Wait, S!TimesOut, S!Drain, S!AllDone, S!Release, S!Unlock
  <2>2. spi'[t].pc \in Active => spi[t].pc \in Active
    BY <1>3, SpiMoves DEF SpiThreadStep, Active
  <2>3. "wrongFormat" \notin spiOdd'
    <3>1. CASE S!Load(t)
      BY <1>1, <3>1, SpiMoves DEF Formatted, S!Load, S!Start, Active
    <3>2. CASE ~S!Load(t)
      BY <1>1, <1>3, <3>2 DEF Formatted, SpiThreadStep, S!Transceive, S!LoadFails, S!SetupFails,
         S!Wait, S!TimesOut, S!Drain, S!AllDone, S!Release, S!Unlock
    <3> QED BY <3>1, <3>2
  <2> QED BY <1>1, <2>1, <2>2, <2>3 DEF Formatted
<1> QED BY <1>2, <1>3

LEMMA SpiThreadJob == ASSUME SpiInv, NEW t \in SpiThreads, SpiThreadStep(t) PROVE JobKnown'
<1>1. JobKnown /\ NoCaller \notin SpiThreads
  BY SpiAssumption DEF SpiInv, SpiAssumption
<1>2. CASE S!Load(t)
  BY <1>1, <1>2 DEF S!Load, S!Start, S!ChunkOf, JobKnown
<1>3. CASE S!Drain(t)
  BY <1>1, <1>3 DEF S!Drain, S!NoJob, JobKnown
<1>4. CASE ~S!Load(t) /\ ~S!Drain(t)
  <2>1. job' = job
    BY <1>4 DEF SpiThreadStep, S!Transceive, S!Configure, S!LoadFails, S!SetupFails,
       S!Wait, S!TimesOut, S!AllDone, S!Release, S!Unlock
  <2> QED BY <1>1, <2>1 DEF JobKnown, S!NoJob
<1> QED BY <1>2, <1>3, <1>4

(* What a step of a caller does to flags, job and history with DMA.         *)
LEMMA SpiThreadOdd ==
  ASSUME SpiInv, NEW t \in SpiThreads, SpiThreadStep(t), Clean'
  PROVE  /\ Clean /\ ~S!LoadFails(t) /\ ~S!SetupFails(t) /\ ~S!TimesOut(t)
<1>1. spiOdd \subseteq spiOdd'
  BY DEF SpiThreadStep, S!Transceive, S!Configure, S!Load, S!LoadFails, S!SetupFails,
     S!Wait, S!TimesOut, S!Drain, S!AllDone, S!Release, S!Unlock, S!Start
<1>2. /\ S!LoadFails(t) \/ S!TimesOut(t) => "gaveUp" \in spiOdd'
      /\ S!SetupFails(t) => "refused" \in spiOdd'
  BY DEF S!LoadFails, S!SetupFails, S!TimesOut
<1> QED BY <1>1, <1>2 DEF Clean, S!LoadFails, S!SetupFails, S!TimesOut

LEMMA SpiThreadDma == ASSUME SpiInv, NEW t \in SpiThreads, SpiThreadStep(t) PROVE DmaOrder'
<1> SUFFICES ASSUME Clean', withDma' PROVE DmaOrder'
  BY DEF DmaOrder
<1>0. withDma
  BY SpiDoes
<1>1. /\ LockHeld /\ JobKnown /\ DmaOrder /\ Clean /\ withDma /\ NoCaller \notin SpiThreads /\ S!TypeOK
      /\ \A u \in SpiThreads : u # t => spi'[u] = spi[u]
  <2>1. \A u \in SpiThreads : u # t => spi'[u] = spi[u]
    BY SpiOthers
  <2> QED BY <1>0, <2>1, SpiAssumption, SpiThreadOdd DEF SpiInv, SpiAssumption
<1>2. \A u \in SpiThreads : u # t => spi[t].pc = "idle" \/ spi[u].pc = "idle"
  BY <1>1, SpiAlone
<1>3. CASE S!Transceive(t)
  <2>1. job' = job /\ flags' = flags
    BY <1>3 DEF S!Transceive
  <2>2. \A u \in SpiThreads : spi[u].pc \notin {"wait", "drain"}
    BY <1>1, <1>3, SpiMoves, SpiAlone DEF S!Transceive, LockHeld, S!In
  <2> QED BY <1>1, <1>3, <2>1, <2>2, SpiMoves DEF DmaOrder, S!In, S!TypeOK
<1>4. CASE S!Load(t)
  <2>1. job'.who = t /\ flags' = {}
    BY <1>1, <1>4 DEF S!Load, S!Start, S!ChunkOf
  <2> QED BY <1>1, <1>2, <1>4, <2>1, SpiMoves DEF DmaOrder, S!In
<1>5. CASE S!Wait(t)
  <2>1. job' = job /\ flags' = flags
    BY <1>5 DEF S!Wait
  <2>2. "err" \notin flags /\ job.who = t
    BY <1>1, <1>5, SpiMoves DEF DmaOrder
  <2>3. spi'[t].pc \in {"wait", "drain"}
    BY <1>1, <1>5, <2>2, SpiMoves
  <2> QED BY <1>1, <1>2, <1>5, <2>1, <2>2, <2>3, SpiMoves DEF DmaOrder, S!In
<1>6. CASE S!Drain(t)
  <2>1. job' = S!NoJob
    BY <1>6 DEF S!Drain
  <2> QED BY <1>1, <1>2, <1>6, <2>1, SpiMoves DEF DmaOrder, S!In, S!NoJob
<1>7. CASE S!Configure(t) \/ S!AllDone(t) \/ S!Release(t) \/ S!Unlock(t)
  <2>1. job' = job /\ flags' = flags
    BY <1>7 DEF S!Configure, S!AllDone, S!Release, S!Unlock
  <2>2. spi'[t].pc \notin {"wait", "drain"} /\ spi[t].pc \notin {"wait", "drain"} /\ spi[t].pc # "idle"
    BY <1>1, <1>7, SpiMoves
  <2>3. job.who = NoCaller
    BY <1>1, <1>2, <2>2 DEF DmaOrder, S!TypeOK
  <2> QED BY <1>1, <1>2, <2>1, <2>2, <2>3 DEF DmaOrder, S!In
<1> QED BY <1>3, <1>4, <1>5, <1>6, <1>7, SpiThreadOdd DEF SpiThreadStep

LEMMA SpiThreadIrq == ASSUME SpiInv, NEW t \in SpiThreads, SpiThreadStep(t) PROVE IrqOrder'
<1> SUFFICES ASSUME Clean', ~withDma' PROVE IrqOrder'
  BY DEF IrqOrder
<1>1. /\ LockHeld /\ JobKnown /\ IrqOrder /\ Clean /\ ~withDma /\ NoCaller \notin SpiThreads /\ S!TypeOK
      /\ \A u \in SpiThreads : u # t => spi'[u] = spi[u]
  BY SpiDoes, SpiAssumption, SpiThreadOdd DEF SpiInv, S!TypeOK, SpiAssumption
<1>2. \A u \in SpiThreads : u # t => spi[t].pc = "idle" \/ spi[u].pc = "idle"
  BY <1>1, SpiAlone
<1>0. ~S!Drain(t)
  BY <1>1, SpiMoves DEF IrqOrder
<1>3. CASE S!Transceive(t)
  <2>1. job' = job /\ sync' = sync /\ cs' = cs
    BY <1>3 DEF S!Transceive
  <2>2. \A u \in SpiThreads : spi[u].pc # "wait"
    BY <1>1, <1>3, SpiMoves, SpiAlone DEF S!Transceive, LockHeld, S!In
  <2> QED BY <1>1, <1>3, <2>1, <2>2, SpiMoves DEF IrqOrder, S!In, S!TypeOK
<1>4. CASE S!Load(t)
  <2>1. job'.who = t /\ sync' = sync
    BY <1>4 DEF S!Load, S!Start, S!ChunkOf
  <2>2. sync = 0
    BY <1>1, <1>2, <1>4, SpiMoves DEF IrqOrder, S!In, S!TypeOK
  <2> QED BY <1>1, <1>2, <1>4, <2>1, <2>2, SpiMoves DEF IrqOrder, S!In
<1>5. CASE S!Wait(t)
  <2>1. job' = job /\ sync = 1 /\ sync' = 0
    BY <1>5 DEF S!Wait
  <2>2. job.who = NoCaller /\ spi'[t].pc = "out"
    BY <1>1, <1>5, <2>1, SpiMoves DEF IrqOrder
  <2> QED BY <1>1, <1>2, <1>5, <2>1, <2>2 DEF IrqOrder, S!In
<1>6. CASE S!AllDone(t)
  <2>1. job' = job /\ cs' = cs \ {t} /\ sync' = 1 /\ spi[t].pc = "load" /\ spi'[t].pc = "wait"
    BY <1>1, <1>6, SpiMoves DEF S!AllDone
  <2>2. job.who = NoCaller
    BY <1>1, <1>2, <2>1 DEF IrqOrder, S!In, S!TypeOK
  <2>3. cs' = {}
    BY <1>1, <1>2, <2>1 DEF SpiInv, Selected, Active, S!TypeOK
  <2> QED BY <1>1, <1>2, <2>1, <2>2, <2>3 DEF IrqOrder, S!In
<1>7. CASE S!Configure(t) \/ S!Release(t) \/ S!Unlock(t)
  <2>1. job' = job /\ sync' = sync
    BY <1>7 DEF S!Configure, S!Release, S!Unlock
  <2>2. spi'[t].pc \notin {"wait", "drain"} /\ spi[t].pc \notin {"wait", "drain"} /\ spi[t].pc # "idle"
    BY <1>1, <1>7, SpiMoves
  <2>3. job.who = NoCaller /\ sync = 0
    BY <1>1, <1>2, <2>2 DEF IrqOrder, S!TypeOK, S!In
  <2> QED BY <1>1, <1>2, <2>1, <2>2, <2>3 DEF IrqOrder, S!In
<1> QED BY <1>0, <1>3, <1>4, <1>5, <1>6, <1>7, SpiThreadOdd DEF SpiThreadStep

LEMMA SpiThreadSelect == ASSUME SpiInv, NEW t \in SpiThreads, SpiThreadStep(t) PROVE Selected'
<1> SUFFICES ASSUME Clean' PROVE Selected'
  BY DEF Selected
<1>1. /\ LockHeld /\ JobKnown /\ DmaOrder /\ IrqOrder /\ Selected /\ Clean /\ S!TypeOK
      /\ \A u \in SpiThreads : u # t => spi'[u] = spi[u]
  BY SpiDoes, SpiThreadOdd DEF SpiInv, S!TypeOK
<1>2. \A u \in SpiThreads : u # t => spi[t].pc = "idle" \/ spi[u].pc = "idle"
  BY <1>1, SpiAlone
<1>3. "incomplete" \notin spiOdd'
  <2>1. CASE S!Drain(t)
    <3>1. withDma
      BY <1>1, <2>1, SpiMoves DEF IrqOrder, S!TypeOK
    <3>2. job.who = t /\ job.tx # "run" /\ flags # {} /\ "err" \notin flags
          /\ ("tx" \in flags => job.tx = "done") /\ ("rx" \in flags => job.rx = "done")
      BY <1>1, <2>1, <3>1, SpiMoves DEF DmaOrder, JobKnown, S!Drain, S!In
    <3>3. ~(job.tx = "none" /\ job.rx = "run")
      <4>1. "tx" \in flags \/ "rx" \in flags
        <5>1. flags \subseteq {"tx", "rx", "err"} /\ flags # {} /\ "err" \notin flags
          BY <1>1, <3>2 DEF S!TypeOK
        <5> QED BY <5>1
      <4> QED BY <3>2, <4>1
    <3> QED BY <1>1, <2>1, <3>2, <3>3 DEF S!Drain, Selected
  <2>2. CASE ~S!Drain(t)
    BY <1>1, <2>2 DEF Selected, SpiThreadStep, S!Transceive, S!Configure, S!Load, S!LoadFails, S!SetupFails,
       S!Wait, S!TimesOut, S!AllDone, S!Release, S!Unlock, S!Start
  <2> QED BY <2>1, <2>2
<1>4. ASSUME NEW u \in cs' PROVE spi'[u].pc \in Active
  <2>1. cs' = cs \/ (S!Configure(t) /\ cs' = cs \cup {t} /\ spi'[t].pc = "load") \/ (S!AllDone(t) /\ cs' = cs \ {t})
    BY SpiMoves DEF SpiThreadStep, S!Transceive, S!Configure, S!Load, S!LoadFails, S!SetupFails,
       S!Wait, S!TimesOut, S!Drain, S!AllDone, S!Release, S!Unlock
  <2>2. u \in SpiThreads /\ (u # t => u \in cs)
    BY <1>1, <2>1 DEF S!TypeOK
  <2>3. CASE u # t
    BY <1>1, <2>2, <2>3 DEF Selected
  <2>4. CASE u = t /\ S!Configure(t) /\ spi'[t].pc = "load"
    BY <2>4 DEF Active
  <2>5. CASE u = t /\ u \in cs /\ ~S!AllDone(t)
    <3>1. spi[t].pc \in Active
      BY <1>1, <2>5 DEF Selected
    <3>2. S!Load(t) \/ S!Drain(t) \/ S!Wait(t)
      BY <2>5, <3>1, SpiMoves, SpiThreadOdd DEF SpiThreadStep, Active
    <3>3. ~S!Wait(t) \/ spi'[t].pc # "out"
      <4>1. CASE withDma
        BY <1>1, <4>1, SpiMoves DEF DmaOrder
      <4>2. CASE ~withDma
        BY <1>1, <2>5, <4>2, SpiMoves DEF IrqOrder, S!Wait
      <4> QED BY <4>1, <4>2
    <3> QED BY <2>5, <3>2, <3>3, SpiMoves DEF Active
  <2>6. S!AllDone(t) => cs' = cs \ {t}
    BY DEF S!AllDone
  <2> QED BY <2>1, <2>2, <2>3, <2>4, <2>5, <2>6
<1> QED BY <1>3, <1>4 DEF Selected
-------------------------------------------------------------------------------
(* The hardware and the interrupt.                                          *)
LEMMA SpiHardOdd ==
  ASSUME SpiInv, SpiHardStep
  PROVE  /\ withDma' = withDma /\ ctxLock' = ctxLock /\ format' = format
         /\ spiOdd \subseteq spiOdd' /\ (Clean' => Clean)
<1>1. spiOdd \subseteq spiOdd'
  BY DEF SpiHardStep, S!DmaEnds, S!WireEnds, S!FifoInterrupt, S!FifoFails, S!EndInterrupt
<1>2. withDma' = withDma /\ ctxLock' = ctxLock /\ format' = format
  BY DEF SpiHardStep, S!DmaEnds, S!WireEnds, S!FifoInterrupt, S!FifoFails, S!EndInterrupt
<1> QED BY <1>1, <1>2 DEF Clean

(* The end interrupt leaves its caller where it is.                         *)
LEMMA SpiHardPc ==
  ASSUME SpiInv, SpiHardStep
  PROVE  spi' \in [SpiThreads -> Callers] /\ \A u \in SpiThreads : spi'[u].pc = spi[u].pc
<1>1. spi \in [SpiThreads -> Callers]
  BY DEF SpiInv, S!TypeOK, Callers
<1>2. CASE S!EndInterrupt
  <2> DEFINE rec == S!Updated(spi[job.who])
  <2>1. job.who \in SpiThreads
    BY <1>2 DEF SpiInv, JobKnown, S!EndInterrupt
  <2>2. rec \in Callers /\ rec.pc = spi[job.who].pc
    BY <1>1, <2>1, SpiUpdated
  <2>3. spi' = [spi EXCEPT ![job.who] = rec]
    BY <1>2 DEF S!EndInterrupt
  <2> HIDE DEF rec
  <2> QED BY <1>1, <2>1, <2>2, <2>3
<1>3. CASE ~S!EndInterrupt
  BY <1>1, <1>3 DEF SpiHardStep, S!DmaEnds, S!WireEnds, S!FifoInterrupt, S!FifoFails
<1> QED BY <1>2, <1>3

Jobs == [who : SpiThreads \cup {NoCaller}, tx : S!Sides, rx : S!Sides, wire : {"idle", "busy", "end"}]

LEMMA SpiJobWith ==
  ASSUME NEW c \in Jobs, NEW tx, NEW rx
  PROVE  [c EXCEPT !.tx = tx, !.rx = rx] = [who |-> c.who, wire |-> c.wire, tx |-> tx, rx |-> rx]
<1> DEFINE d == [c EXCEPT !.tx = tx]
           Half == [who : SpiThreads \cup {NoCaller}, tx : {tx}, rx : S!Sides, wire : {"idle", "busy", "end"}]
<1>1. d \in Half /\ d.who = c.who /\ d.wire = c.wire /\ d.tx = tx
  BY DEF Jobs
<1> HIDE DEF d
<1>2. [d EXCEPT !.rx = rx] = [who |-> d.who, wire |-> d.wire, tx |-> d.tx, rx |-> rx]
  BY <1>1
<1> QED BY <1>1, <1>2 DEF d

(* What is on the wire after a step of the hardware.                        *)
LEMMA SpiHardJob ==
  ASSUME SpiInv, SpiHardStep
  PROVE  /\ job' \in Jobs /\ JobKnown' /\ (job'.who = job.who \/ job' = S!NoJob) /\ job.who \in SpiThreads
<1>1. job \in Jobs /\ JobKnown /\ NoCaller \notin SpiThreads
  BY SpiAssumption DEF SpiInv, S!TypeOK, Jobs, SpiAssumption
<1>2. job.who \in SpiThreads
  <2>1. job # S!NoJob
    BY DEF SpiHardStep, S!DmaEnds, S!WireEnds, S!FifoInterrupt, S!FifoFails, S!EndInterrupt, S!NoJob
  <2> QED BY <1>1, <2>1 DEF JobKnown, Jobs
<1>3. S!NoJob \in Jobs
  BY DEF Jobs, S!NoJob, S!Sides
<1>4. CASE S!DmaEnds("tx")
  <2>1. job' = S!NoJob \/ job' = [job EXCEPT !.tx = "done"]
    BY <1>4 DEF S!DmaEnds
  <2> QED BY <1>1, <1>2, <1>3, <2>1 DEF Jobs, JobKnown, S!NoJob, S!Sides
<1>5. CASE S!DmaEnds("rx")
  <2>1. job' = S!NoJob \/ job' = [job EXCEPT !.rx = "done"]
    BY <1>5 DEF S!DmaEnds
  <2> QED BY <1>1, <1>2, <1>3, <2>1 DEF Jobs, JobKnown, S!NoJob, S!Sides
<1>6. CASE S!WireEnds
  <2>1. job.tx # "run" /\ (job' = [job EXCEPT !.wire = "idle"] \/ job' = [job EXCEPT !.wire = "end"])
    BY <1>6 DEF S!WireEnds
  <2> QED BY <1>1, <1>2, <2>1 DEF Jobs, JobKnown, S!NoJob, S!Sides
<1>7. CASE S!FifoInterrupt
  <2> DEFINE tx == IF job.tx = "run" THEN "done" ELSE job.tx
             rx == IF job.rx = "run" THEN "done" ELSE job.rx
  <2>1. job' = [job EXCEPT !.tx = tx, !.rx = rx]
    BY <1>7 DEF S!FifoInterrupt
  <2>2. tx \in S!Sides /\ rx \in S!Sides /\ tx # "run"
    BY <1>1 DEF Jobs, S!Sides
  <2> HIDE DEF tx, rx
  <2> QED BY <1>1, <1>2, <2>1, <2>2 DEF Jobs, JobKnown, S!NoJob
<1>8. CASE S!EndInterrupt
  <2> DEFINE r    == S!Updated(spi[job.who])
             tx   == IF r.tx > 0 THEN "run" ELSE "none"
             rx   == IF r.rx > 0 THEN "run" ELSE "none"
             next == [who |-> job.who, wire |-> "busy", tx |-> tx, rx |-> rx]
  <2>1. tx \in {"run", "none"} /\ rx \in {"run", "none"}
    OBVIOUS
  <2>2. [S!ChunkOf(job.who) EXCEPT !.tx = tx, !.rx = rx] = next
    <3> DEFINE a == IF spi[job.who].tx > 0 THEN "run" ELSE "none"
               b == IF spi[job.who].rx > 0 THEN "run" ELSE "none"
    <3>1. S!ChunkOf(job.who) = [who |-> job.who, wire |-> "busy", tx |-> a, rx |-> b]
      BY DEF S!ChunkOf
    <3> DEFINE c == S!ChunkOf(job.who)
    <3>2. c \in Jobs /\ c.who = job.who /\ c.wire = "busy"
      BY <1>2, <3>1 DEF Jobs, S!Sides
    <3> HIDE DEF c, tx, rx
    <3>3. [c EXCEPT !.tx = tx, !.rx = rx] = [who |-> c.who, wire |-> c.wire, tx |-> tx, rx |-> rx]
      BY <3>2, SpiJobWith
    <3> QED BY <3>2, <3>3 DEF c
  <2>3. job' = next \/ (next.tx = "none" /\ job' = [next EXCEPT !.wire = "idle"]) \/ job' = S!NoJob
    BY <1>8, <2>2 DEF S!EndInterrupt
  <2> HIDE DEF tx, rx
  <2> QED BY <1>1, <1>2, <1>3, <2>1, <2>3 DEF Jobs, JobKnown, S!NoJob, S!Sides
<1>9. CASE S!FifoFails
  BY <1>1, <1>2, <1>9 DEF S!FifoFails, JobKnown, S!NoJob
<1> QED BY <1>1, <1>2, <1>4, <1>5, <1>6, <1>7, <1>8, <1>9 DEF SpiHardStep

LEMMA SpiHardType == ASSUME SpiInv, SpiHardStep PROVE S!TypeOK'
<1>1. S!TypeOK
  BY DEF SpiInv
<1>2. spi' \in [SpiThreads -> Callers] /\ job' \in Jobs /\ withDma' = withDma /\ ctxLock' = ctxLock /\ format' = format
  BY SpiHardPc, SpiHardJob, SpiHardOdd
<1>3. sync' \in 0..1 /\ cs' \subseteq SpiThreads
  BY <1>1 DEF S!TypeOK, SpiHardStep, S!DmaEnds, S!WireEnds, S!FifoInterrupt, S!FifoFails, S!EndInterrupt
<1>4. flags' \subseteq {"tx", "rx", "err"}
  BY <1>1 DEF S!TypeOK, SpiHardStep, S!DmaEnds, S!WireEnds, S!FifoInterrupt, S!FifoFails, S!EndInterrupt
<1>5. spiOdd' \subseteq {"gaveUp", "lag", "refused", "incomplete", "wrongFormat"}
  BY <1>1 DEF S!TypeOK, SpiHardStep, S!DmaEnds, S!WireEnds, S!FifoInterrupt, S!FifoFails, S!EndInterrupt
<1> QED BY <1>1, <1>2, <1>3, <1>4, <1>5 DEF S!TypeOK, Callers, Jobs

LEMMA SpiHardFormat == ASSUME SpiInv, SpiHardStep PROVE Formatted' /\ LockHeld'
<1>1. "wrongFormat" \notin spiOdd'
  BY DEF SpiInv, Formatted, SpiHardStep, S!DmaEnds, S!WireEnds, S!FifoInterrupt, S!FifoFails, S!EndInterrupt
<1> QED BY <1>1, SpiHardPc, SpiHardOdd DEF SpiInv, Formatted, LockHeld, S!In

LEMMA SpiHardDma == ASSUME SpiInv, SpiHardStep PROVE DmaOrder'
<1> SUFFICES ASSUME Clean', withDma' PROVE DmaOrder'
  BY DEF DmaOrder
<1>0. withDma
  BY SpiHardOdd
<1>1. Clean /\ DmaOrder /\ S!TypeOK /\ JobKnown /\ NoCaller \notin SpiThreads /\ job \in Jobs
  BY SpiHardOdd, SpiAssumption DEF SpiInv, SpiAssumption, S!TypeOK, Jobs
<1>2. \A u \in SpiThreads : spi'[u].pc = spi[u].pc
  BY SpiHardPc
<1>3. (job'.who = job.who \/ job' = S!NoJob) /\ job.who \in SpiThreads
  BY SpiHardJob
<1>4. ASSUME NEW side \in {"tx", "rx"}, S!DmaEnds(side)
      PROVE  job' = [job EXCEPT ![side] = "done"] /\ flags' = flags \cup {side}
  <2>1. "gaveUp" \notin spiOdd'
    BY DEF Clean
  <2>2. PICK err \in BOOLEAN :
          /\ flags' = flags \cup {IF err THEN "err" ELSE side}
          /\ job' = IF err THEN S!NoJob ELSE [job EXCEPT ![side] = "done"]
          /\ spiOdd' = spiOdd \cup (IF err THEN {"gaveUp"} ELSE {})
    BY <1>4 DEF S!DmaEnds
  <2>3. ~err
    BY <2>1, <2>2
  <2> QED BY <2>2, <2>3
<1>5. CASE S!DmaEnds("tx") \/ S!DmaEnds("rx")
  <2>1. \/ job' = [job EXCEPT !.tx = "done"] /\ flags' = flags \cup {"tx"}
        \/ job' = [job EXCEPT !.rx = "done"] /\ flags' = flags \cup {"rx"}
    BY <1>4, <1>5
  <2> QED BY <1>0, <1>1, <1>2, <1>3, <2>1 DEF DmaOrder, S!In, Jobs
<1>6. CASE S!WireEnds
  <2>1. job' = [job EXCEPT !.wire = "idle"] /\ flags' = flags
    BY <1>0, <1>6 DEF S!WireEnds
  <2> QED BY <1>0, <1>1, <1>2, <1>3, <2>1 DEF DmaOrder, S!In, Jobs
<1>7. ~S!FifoInterrupt /\ ~S!FifoFails /\ ~S!EndInterrupt
  BY <1>0 DEF S!FifoInterrupt, S!FifoFails, S!EndInterrupt
<1> QED BY <1>5, <1>6, <1>7 DEF SpiHardStep

LEMMA SpiHardIrq == ASSUME SpiInv, SpiHardStep PROVE IrqOrder' /\ Selected'
<1> SUFFICES ASSUME Clean' PROVE IrqOrder' /\ Selected'
  BY DEF IrqOrder, Selected
<1>1. Clean /\ IrqOrder /\ Selected /\ S!TypeOK /\ JobKnown /\ NoCaller \notin SpiThreads /\ LockHeld
  BY SpiHardOdd, SpiAssumption DEF SpiInv, SpiAssumption
<1>2. \A u \in SpiThreads : spi'[u].pc = spi[u].pc
  BY SpiHardPc
<1>3. (job'.who = job.who \/ job' = S!NoJob) /\ job.who \in SpiThreads
  BY SpiHardJob
<1>4. CASE S!EndInterrupt
  <2>1. ~withDma /\ ~withDma' /\ sync = 0 /\ spi[job.who].pc = "wait"
    BY <1>1, <1>3, <1>4, SpiHardOdd DEF S!EndInterrupt, IrqOrder, S!In
  <2>2. \/ cs' = cs /\ sync' = sync
        \/ cs' = cs \ {job.who} /\ sync' = 1 /\ job' = S!NoJob
    BY <1>4 DEF S!EndInterrupt
  <2>3. "incomplete" \notin spiOdd'
    <3>1. job.tx # "run"
      BY <1>1, <1>4 DEF JobKnown, S!EndInterrupt
    <3> QED BY <1>1, <1>4, <2>1, <3>1 DEF Selected, S!EndInterrupt, S!In
  <2>4. \A u \in cs' : spi'[u].pc \in Active /\ u \in SpiThreads
    BY <1>1, <1>2, <2>2 DEF Selected, S!TypeOK
  <2>5. sync' = 1 => cs' = {}
    <3> SUFFICES ASSUME sync' = 1, NEW u \in cs' PROVE FALSE
      OBVIOUS
    <3>1. u = job.who
      BY <1>1, <1>2, <1>3, <2>1, <2>4, SpiAlone DEF Active
    <3> QED BY <2>1, <2>2, <3>1
  <2> QED BY <1>1, <1>2, <1>3, <2>1, <2>2, <2>3, <2>4, <2>5 DEF IrqOrder, Selected, S!In, S!NoJob
<1>5. CASE S!WireEnds \/ S!FifoInterrupt
  <2>1. cs' = cs /\ sync' = sync /\ spiOdd' = spiOdd
    BY <1>5 DEF S!WireEnds, S!FifoInterrupt
  <2>2. Selected'
    BY <1>1, <1>2, <2>1 DEF Selected, S!TypeOK
  <2>3. IrqOrder'
    <3> SUFFICES ASSUME ~withDma' PROVE IrqOrder'
      BY DEF IrqOrder
    <3>1. ~withDma
      BY SpiHardOdd
    <3> QED BY <1>1, <1>2, <1>3, <2>1, <3>1 DEF IrqOrder, S!In, S!NoJob
  <2> QED BY <2>2, <2>3
<1>6. CASE S!DmaEnds("tx") \/ S!DmaEnds("rx")
  <2>1. withDma /\ cs' = cs /\ "incomplete" \notin spiOdd'
    BY <1>1, <1>6 DEF S!DmaEnds, Selected
  <2>2. withDma'
    BY <2>1, SpiHardOdd
  <2> QED BY <1>1, <1>2, <2>1, <2>2 DEF IrqOrder, Selected, S!TypeOK
<1>7. ~S!FifoFails
  BY DEF S!FifoFails, Clean
<1> QED BY <1>4, <1>5, <1>6, <1>7 DEF SpiHardStep

LEMMA SpiStep == SpiInv /\ [S!Next]_(S!spiVars) => SpiInv'
<1> SUFFICES ASSUME SpiInv, [S!Next]_(S!spiVars) PROVE SpiInv'
  OBVIOUS
<1>1. CASE \E t \in SpiThreads : SpiThreadStep(t)
  BY <1>1, SpiThreadType, SpiThreadLock, SpiThreadFormat, SpiThreadJob, SpiThreadDma, SpiThreadIrq, SpiThreadSelect
  DEF SpiInv
<1>2. CASE SpiHardStep
  BY <1>2, SpiHardType, SpiHardFormat, SpiHardJob, SpiHardDma, SpiHardIrq DEF SpiInv
<1>3. CASE UNCHANGED S!spiVars
  <2>1. /\ withDma' = withDma /\ spi' = spi /\ ctxLock' = ctxLock /\ sync' = sync /\ flags' = flags
        /\ format' = format /\ cs' = cs /\ job' = job /\ spiOdd' = spiOdd
    BY <1>3 DEF S!spiVars
  <2> QED BY <2>1 DEF SpiInv, S!TypeOK, LockHeld, Formatted, JobKnown, DmaOrder, IrqOrder, Selected, Clean, S!In
<1> QED BY <1>1, <1>2, <1>3 DEF S!Next, SpiThreadStep, SpiHardStep

(* The SPI driver: the lock, the format, the chip select and the hardware   *)
(* belong to one caller, until one gives up.                                *)
THEOREM SpiIsSound == S!Spec => []SpiInv
  BY SpiInit, SpiStep, PTL DEF S!Spec

(* What a transfer counts as done was on the wire, in the format of its     *)
(* caller and with one device selected (spi_hpm_transceive), unless a call  *)
(* gave up before or the controller refused: for any number of callers.     *)
THEOREM SpiTransfersOwn == Spec => []SpiTransferIsOwn
<1>1. SpiInv => SpiTransferIsOwn
  <2> SUFFICES ASSUME SpiInv PROVE SpiTransferIsOwn
    OBVIOUS
  <2>1. S!CountedIsTransferred
    BY DEF SpiInv, Formatted, Selected, Clean, S!CountedIsTransferred
  <2>2. Clean => \A t, u \in cs : t = u
    BY SpiAlone DEF SpiInv, Selected, Active, S!TypeOK
  <2>3. \A t \in SpiThreads : (ctxLock = t) <=> ~S!In(t, "idle")
    BY DEF SpiInv, LockHeld
  <2>4. S!OneCallerOneDevice
    BY <2>2, <2>3 DEF S!OneCallerOneDevice, Clean
  <2> QED BY <2>1, <2>4 DEF SpiTransferIsOwn
<1> QED BY <1>1, SpiIsSound, UnionIsEach, PTL
-------------------------------------------------------------------------------
(* I2cBus.  The records of a call and of the transfer and the controller.   *)
Calls == [pc : {"idle", "wait", "read"}, asked : 0..MaxMsgs, moved : 0..MaxMsgs, nack : BOOLEAN]
Buses == [who : I2cThreads \cup {NoI2c}, status : {"idle", "hit", "nohit", "begin", "next"},
          msgs : Seq(I!Msg), index : 0..I!Beyond, todo : 0..MaxLoad, fifo : 0..I!Depth,
          irqs : SUBSET {"hit", "empty", "full", "cmpl"}, ev : SUBSET {"hit", "cmpl"}, sem : 0..1,
          cmd : {"none", "start", "data", "stop", "remote"}, dir : {"read", "write"}]

(* Who waits holds the mutex; until a target is registered nobody else does.*)
InMutex ==
    /\ (i2cMutex.count = 0) <=> (i2cMutex.owner = NoI2c)
    /\ \A t \in I2cThreads : I!InCall(t, "wait") => i2cMutex.owner = t
    /\ "asTarget" \notin i2cOdd =>
         /\ target = NoI2c /\ i2cMutex.count <= 1
         /\ \A t \in I2cThreads : i2cMutex.owner = t => I!InCall(t, "wait")

(* A message is counted once: it is in msgs or counted as moved, or both    *)
(* from the end of its transaction until the interrupt.                     *)
Moves == {"start", "data"}
Fits ==
    /\ bus.cmd \in Moves \/ bus.msgs # <<>> => bus.who \in I2cThreads
    /\ bus.who \in I2cThreads =>
         i2cCall[bus.who].moved + Len(bus.msgs) <= MaxMsgs + (IF bus.cmd \in Moves THEN 0 ELSE 1)

(* The phases of a transfer, from the controller b and its call c.          *)
Left(b, c)   == c.moved + Len(b.msgs) - c.asked
Silent(b)    == "hit" \notin b.ev /\ b.irqs \subseteq {"hit"} /\ b.cmd \in {"none", "stop"}
Told(b, c)   == (b.status = "nohit" /\ c.nack) \/ (b.status = "hit" /\ c.moved >= c.asked)
Addressed(b) == IF "hit" \in b.ev THEN "hit" \in b.irqs ELSE b.status = "hit"

Starting(b, c) ==
    /\ b.cmd = "start" /\ b.sem = 0 /\ b.ev = {} /\ b.irqs = {"hit", "cmpl"} /\ b.fifo = 0
    /\ ~c.nack /\ b.msgs # <<>> /\ b.dir = Head(b.msgs).dir /\ Left(b, c) >= 0
    /\ b.status = IF Len(b.msgs) = c.asked THEN "idle" ELSE "hit"

Moving(b, c) ==
    /\ b.cmd = "data" /\ b.sem = 0 /\ "cmpl" \notin b.ev /\ ~c.nack /\ Addressed(b) /\ Left(b, c) >= 0
    /\ b.dir = "read" => "empty" \notin b.irqs
    /\ b.msgs # <<>> => b.dir = Head(b.msgs).dir
    /\ "hit" \in b.ev => b.msgs # <<>>
    /\ b.dir = "write" => "full" \notin b.irqs /\ ("hit" \in b.ev => b.fifo = 0)

Ended(b, c) ==
    /\ b.cmd = "none" /\ b.sem = 0 /\ "cmpl" \in b.ev
    /\ \/ c.nack /\ "hit" \notin b.ev /\ b.status = "idle"
       \/ ~c.nack /\ Addressed(b) /\ Left(b, c) >= IF b.msgs = <<>> THEN 0 ELSE 1

Ready(b, c) == b.sem = 1 /\ Silent(b) /\ Told(b, c)

Phase(b, c) ==
    /\ Len(b.msgs) <= c.asked
    /\ Starting(b, c) \/ Moving(b, c) \/ Ended(b, c) \/ Ready(b, c)

(* Until something excused happens: the transfer of the caller that waits   *)
(* is in a phase, without one the controller is silent, and the status is   *)
(* that of the last transfer.                                               *)
InStep == i2cOdd = {} =>
    /\ \A t \in I2cThreads : I!InCall(t, "wait") => bus.who = t /\ Phase(bus, i2cCall[t])
    /\ (\A t \in I2cThreads : ~I!InCall(t, "wait")) => Silent(bus) /\ bus.sem = 0
    /\ \A t \in I2cThreads : I!InCall(t, "read") /\ bus.who = t => Told(bus, i2cCall[t])

I2cInv == I!TypeOK /\ InMutex /\ Fits /\ InStep /\ I!I2cResultIsOwn

LEMMA I2cTyped == I2cInv => i2cCall \in [I2cThreads -> Calls] /\ bus \in Buses /\ NoI2c \notin I2cThreads
                            /\ MaxMsgs \in Nat /\ MaxLoad \in Nat
BY I2cAssumption DEF I2cAssumption, I2cInv, I!TypeOK, Calls, Buses

LEMMA I2cSeq ==
  ASSUME NEW s \in Seq(I!Msg)
  PROVE  /\ Len(s) \in Nat /\ ((s = <<>>) <=> (Len(s) = 0))
         /\ s # <<>> => /\ Head(s) \in I!Msg /\ Tail(s) \in Seq(I!Msg)
                        /\ Len(Tail(s)) = Len(s) - 1 /\ Tail(s) # s
<1>1. Len(s) \in Nat /\ ((s = <<>>) <=> (Len(s) = 0))
  BY EmptySeq, LenProperties
<1>2. ASSUME s # <<>> PROVE Head(s) \in I!Msg /\ Tail(s) \in Seq(I!Msg) /\ Len(Tail(s)) = Len(s) - 1
  BY <1>2, HeadTailProperties
<1> QED BY <1>1, <1>2

LEMMA I2cMsg ==
  ASSUME NEW m \in I!Msg
  PROVE  m.dir \in {"read", "write"} /\ m.len \in 0..MaxLoad /\ (m.dir = "read" => m.restart)
<1>1. CASE m \in [dir : {"write"}, len : 0..MaxLoad, restart : BOOLEAN]
  BY <1>1
<1>2. CASE m \in [dir : {"read"}, len : 1..MaxLoad, restart : {TRUE}]
  <2>1. m.dir = "read" /\ m.len \in 1..MaxLoad
    BY <1>2
  <2>2. m.restart = TRUE
    BY <1>2
  <2>3. m.len \in 0..MaxLoad
    BY <2>1, I2cAssumption DEF I2cAssumption
  <2> QED BY <2>1, <2>2, <2>3
<1> QED BY <1>1, <1>2 DEF I!Msg

LEMMA I2cInit == I!Init => I2cInv
<1> SUFFICES ASSUME I!Init PROVE I2cInv
  OBVIOUS
<1>1. <<>> \in Seq(I!Msg) /\ Len(<<>>) = 0
  OBVIOUS
<1>2. 0 \in 0..I!Beyond /\ 0 \in 0..MaxLoad /\ 0 \in 0..I!Depth /\ 0 \in 0..MaxMsgs /\ MaxMsgs \in Nat
  BY I2cAssumption DEF I2cAssumption, I!Beyond, I!Depth
<1>3. I!TypeOK
  BY <1>1, <1>2 DEF I!Init, I!TypeOK, I!Out
<1>4. InMutex /\ Fits /\ InStep /\ I!I2cResultIsOwn
  BY <1>1, <1>2, I2cAssumption
  DEF I2cAssumption, I!Init, I!Out, InMutex, Fits, InStep, I!InCall, Silent, Moves, I!I2cResultIsOwn
<1> QED BY <1>3, <1>4 DEF I2cInv
-------------------------------------------------------------------------------
(* The stages of the interrupt, each from one state of the controller to    *)
(* the next.  Issue: the next message is on the wire.                       *)
Issued(b, r) ==
    /\ r \in Buses /\ r.who = b.who /\ r.status = b.status /\ r.msgs = b.msgs /\ r.sem = b.sem
    /\ r.fifo = 0 /\ r.ev = b.ev \ {"cmpl"} /\ r.dir = Head(b.msgs).dir
    /\ \/ r.cmd = "start" /\ r.irqs = b.irqs \cup {"hit", "cmpl"}
       \/ /\ r.cmd = "data" /\ r.dir = "write" /\ ~Head(b.msgs).restart
          /\ r.irqs = b.irqs \cup {"empty", "cmpl"}

LEMMA I2cIssue == ASSUME NEW b \in Buses, b.msgs # <<>> PROVE Issued(b, I!Issue(b))
<1> DEFINE m    == Head(b.msgs)
           cmd  == IF m.restart THEN "start" ELSE "data"
           irqs == b.irqs \cup (IF m.restart THEN {"hit", "cmpl"} ELSE {"empty", "cmpl"})
           ev   == b.ev \ {"cmpl"}
           r    == [b EXCEPT !.ev = ev, !.fifo = 0, !.index = 0, !.dir = m.dir, !.todo = m.len,
                             !.cmd = cmd, !.irqs = irqs]
<1>1. m \in I!Msg /\ b.msgs \in Seq(I!Msg)
  BY I2cSeq DEF Buses
<1>2. I!Issue(b) = r
  BY DEF I!Issue
<1>3. m.dir \in {"read", "write"} /\ m.len \in 0..MaxLoad /\ (m.dir = "read" => m.restart)
  BY <1>1, I2cMsg
<1>4. \/ cmd = "start" /\ irqs = b.irqs \cup {"hit", "cmpl"}
      \/ ~m.restart /\ cmd = "data" /\ m.dir = "write" /\ irqs = b.irqs \cup {"empty", "cmpl"}
  BY <1>3
<1>5. ev \in SUBSET {"hit", "cmpl"} /\ irqs \in SUBSET {"hit", "empty", "full", "cmpl"} /\ cmd \in {"start", "data"}
  BY <1>4 DEF Buses
<1>6. 0 \in 0..I!Beyond /\ 0 \in 0..I!Depth
  BY I2cAssumption DEF I2cAssumption, I!Beyond, I!Depth
<1> HIDE DEF m, cmd, irqs, ev
<1>7. r \in Buses
  BY <1>1, <1>3, <1>5, <1>6 DEF Buses
<1>8. /\ r.who = b.who /\ r.status = b.status /\ r.msgs = b.msgs /\ r.sem = b.sem /\ r.fifo = 0
      /\ r.ev = ev /\ r.dir = m.dir /\ r.cmd = cmd /\ r.irqs = irqs
  BY DEF Buses
<1> HIDE DEF r
<1> QED BY <1>2, <1>4, <1>7, <1>8 DEF Issued, m, ev

LEMMA I2cIssueTyped == ASSUME NEW b, NEW r, Issued(b, r) PROVE r \in Buses /\ r.cmd \in Moves
BY DEF Issued, Moves

(* Address hit.                                                             *)
LEMMA I2cHitStage ==
  ASSUME NEW b \in Buses
  PROVE  LET r == I!AddressHit(b) IN
         /\ r \in Buses /\ r.who = b.who /\ r.msgs = b.msgs /\ r.dir = b.dir
         /\ r.cmd \in {b.cmd, "stop"}
         /\ target = NoI2c /\ "hit" \in b.ev \cap b.irqs =>
              /\ r.status = "hit" /\ r.ev = b.ev \ {"hit"} /\ r.cmd = b.cmd /\ r.sem = b.sem /\ r.fifo = b.fifo
              /\ r.irqs = b.irqs \cup (IF b.msgs # <<>> /\ Head(b.msgs).dir = "write" THEN {"empty"} ELSE {"full"})
         /\ "hit" \notin b.ev \cap b.irqs /\ b.status = "hit" => r = b
         /\ "hit" \notin b.ev \cap b.irqs /\ b.status # "hit" =>
              /\ r.status = "nohit" /\ r.ev = b.ev /\ r.cmd = "stop" /\ r.sem = 1 /\ r.fifo = b.fifo
              /\ r.irqs = b.irqs \ {"full", "empty"}
<1> DEFINE r == I!AddressHit(b)
<1>1. CASE "hit" \in b.ev \cap b.irqs
  <2> DEFINE ev  == b.ev \ {"hit"}
             new == IF b.msgs # <<>> /\ Head(b.msgs).dir = "write" THEN {"empty"} ELSE {"full"}
             h   == [b EXCEPT !.status = "hit", !.ev = ev]
  <2>0. new \in SUBSET {"empty", "full"} /\ ev \in SUBSET {"hit", "cmpl"}
    BY DEF Buses
  <2>1. h \in Buses /\ h.who = b.who /\ h.msgs = b.msgs /\ h.dir = b.dir /\ h.cmd = b.cmd /\ h.sem = b.sem
        /\ h.fifo = b.fifo /\ h.irqs = b.irqs /\ h.status = "hit" /\ h.ev = ev
    BY <2>0 DEF Buses
  <2>2. r = IF target = NoI2c THEN [h EXCEPT !.irqs = h.irqs \cup new]
            ELSE IF b.dir = "read" THEN [h EXCEPT !.irqs = (h.irqs \cup {"full"}) \ {"hit"}]
            ELSE [h EXCEPT !.status = "begin", !.irqs = (h.irqs \cup {"empty"}) \ {"hit"}]
    BY <1>1 DEF I!AddressHit
  <2> HIDE DEF h, new, r
  <2>3. CASE target = NoI2c
    <3> DEFINE irqs == h.irqs \cup new
    <3>1. r = [h EXCEPT !.irqs = irqs] /\ irqs \in SUBSET {"hit", "empty", "full", "cmpl"}
      BY <2>0, <2>1, <2>2, <2>3 DEF Buses
    <3> HIDE DEF irqs
    <3>2. r \in Buses /\ r.who = b.who /\ r.msgs = b.msgs /\ r.dir = b.dir /\ r.cmd = b.cmd /\ r.sem = b.sem
          /\ r.fifo = b.fifo /\ r.irqs = irqs /\ r.status = "hit" /\ r.ev = ev
      BY <2>1, <3>1 DEF Buses
    <3> QED BY <1>1, <2>1, <3>2 DEF irqs, new, r
  <2>4. CASE target # NoI2c /\ b.dir = "read"
    <3> DEFINE irqs == (h.irqs \cup {"full"}) \ {"hit"}
    <3>1. r = [h EXCEPT !.irqs = irqs] /\ irqs \in SUBSET {"hit", "empty", "full", "cmpl"}
      BY <2>1, <2>2, <2>4 DEF Buses
    <3> HIDE DEF irqs
    <3>2. r \in Buses /\ r.who = b.who /\ r.msgs = b.msgs /\ r.dir = b.dir /\ r.cmd = b.cmd
      BY <2>1, <3>1 DEF Buses
    <3> QED BY <1>1, <2>4, <3>2 DEF r
  <2>5. CASE target # NoI2c /\ b.dir # "read"
    <3> DEFINE irqs == (h.irqs \cup {"empty"}) \ {"hit"}
    <3>1. r = [h EXCEPT !.status = "begin", !.irqs = irqs] /\ irqs \in SUBSET {"hit", "empty", "full", "cmpl"}
      BY <2>1, <2>2, <2>5 DEF Buses
    <3> HIDE DEF irqs
    <3>2. r \in Buses /\ r.who = b.who /\ r.msgs = b.msgs /\ r.dir = b.dir /\ r.cmd = b.cmd
      BY <2>1, <3>1 DEF Buses
    <3> QED BY <1>1, <2>5, <3>2 DEF r
  <2> QED BY <2>3, <2>4, <2>5
<1>2. CASE "hit" \notin b.ev \cap b.irqs /\ b.status # "hit"
  <2> DEFINE irqs == b.irqs \ {"full", "empty"}
             h    == [b EXCEPT !.status = "nohit", !.irqs = irqs, !.cmd = "stop"]
  <2>1. irqs \in SUBSET {"hit", "empty", "full", "cmpl"}
    BY DEF Buses
  <2>2. r = [h EXCEPT !.sem = 1]
    BY <1>2 DEF I!AddressHit, I!Give
  <2> HIDE DEF irqs
  <2>3. h \in Buses /\ h.who = b.who /\ h.msgs = b.msgs /\ h.dir = b.dir /\ h.cmd = "stop"
        /\ h.fifo = b.fifo /\ h.irqs = irqs /\ h.status = "nohit" /\ h.ev = b.ev
    BY <2>1 DEF Buses
  <2> HIDE DEF h, r
  <2>4. r \in Buses /\ r.who = b.who /\ r.msgs = b.msgs /\ r.dir = b.dir /\ r.cmd = "stop" /\ r.sem = 1
        /\ r.fifo = b.fifo /\ r.irqs = irqs /\ r.status = "nohit" /\ r.ev = b.ev
    BY <2>2, <2>3 DEF Buses
  <2> QED BY <1>2, <2>4 DEF irqs, r
<1>3. CASE "hit" \notin b.ev \cap b.irqs /\ b.status = "hit"
  <2>1. r = b
    BY <1>3 DEF I!AddressHit
  <2> QED BY <1>3, <2>1
<1> QED BY <1>1, <1>2, <1>3

(* Transmit.                                                                *)
LEMMA I2cTransmitStage ==
  ASSUME NEW b \in Buses, NEW empty \in BOOLEAN
  PROVE  LET r == I!Transmit(b, empty) IN
         /\ r \in Buses /\ r.who = b.who /\ r.msgs = b.msgs /\ r.dir = b.dir /\ r.cmd = b.cmd /\ r.sem = b.sem
         /\ r.ev = b.ev /\ r.irqs \subseteq b.irqs /\ (target = NoI2c => r.status = b.status)
<1> DEFINE r == I!Transmit(b, empty)
<1>1. CASE ~empty \/ (target = NoI2c /\ (b.msgs = <<>> \/ b.status = "nohit" \/ Head(b.msgs).len = 0))
  <2>1. r = b
    BY <1>1 DEF I!Transmit
  <2> QED BY <2>1
<1>2. CASE empty /\ target # NoI2c
  <2> DEFINE st == IF b.status = "begin" THEN "next" ELSE b.status
  <2>1. r = [b EXCEPT !.status = st] /\ st \in {"idle", "hit", "nohit", "begin", "next"}
    BY <1>2 DEF I!Transmit, Buses
  <2> HIDE DEF st, r
  <2>2. r \in Buses /\ r.who = b.who /\ r.msgs = b.msgs /\ r.dir = b.dir /\ r.cmd = b.cmd /\ r.sem = b.sem
        /\ r.ev = b.ev /\ r.irqs = b.irqs
    BY <2>1 DEF Buses
  <2> QED BY <1>2, <2>2 DEF r
<1>3. CASE empty /\ target = NoI2c /\ b.msgs # <<>> /\ b.status # "nohit" /\ Head(b.msgs).len # 0
  <2> DEFINE len  == Head(b.msgs).len
             room == I!Depth - b.fifo
             n    == IF b.index < len THEN I!Lesser(room, len - b.index) ELSE room
             idx  == I!Lesser(b.index + n, I!Beyond)
             fifo == b.fifo + n
             irqs == IF b.index + n = len THEN b.irqs \ {"empty"} ELSE b.irqs
  <2>1. r = [b EXCEPT !.fifo = fifo, !.index = idx, !.irqs = irqs]
    BY <1>3 DEF I!Transmit
  <2>2. len \in 0..MaxLoad
    BY <1>3, I2cSeq, I2cMsg DEF Buses
  <2>3. b.index \in 0..I!Beyond /\ b.fifo \in 0..2 /\ room \in 0..2 /\ I!Depth = 2 /\ I!Beyond \in Nat
    BY I2cAssumption DEF Buses, I!Depth, I!Beyond, I2cAssumption
  <2> HIDE DEF len, room
  <2>4. n \in 0..2 /\ n <= room
    BY <2>2, <2>3 DEF I!Lesser
  <2> HIDE DEF n
  <2>5. fifo \in 0..I!Depth
    BY <2>3, <2>4 DEF room
  <2>6. idx \in 0..I!Beyond
    BY <2>3, <2>4 DEF I!Lesser
  <2>7. irqs \in SUBSET {"hit", "empty", "full", "cmpl"} /\ irqs \subseteq b.irqs
    BY DEF Buses
  <2> HIDE DEF fifo, idx, irqs, r
  <2>8. r \in Buses /\ r.who = b.who /\ r.msgs = b.msgs /\ r.dir = b.dir /\ r.cmd = b.cmd /\ r.sem = b.sem
        /\ r.ev = b.ev /\ r.irqs = irqs /\ r.status = b.status
    BY <2>1, <2>5, <2>6, <2>7 DEF Buses
  <2> QED BY <2>7, <2>8 DEF r
<1> QED BY <1>1, <1>2, <1>3

(* Receive, when there is something: a message read, or less.               *)
Received(b, full, r) ==
    /\ r \in Buses /\ r.who = b.who /\ r.status = b.status /\ r.sem = b.sem
    /\ ~full => r = b
    /\ \/ r.msgs = b.msgs /\ r.dir = b.dir /\ r.cmd = b.cmd /\ r.ev = b.ev /\ r.irqs = b.irqs
       \/ /\ target = NoI2c /\ b.msgs # <<>> /\ r.msgs = Tail(b.msgs)
          /\ \/ /\ r.msgs = <<>> /\ r.dir = b.dir /\ r.cmd = b.cmd /\ r.ev = b.ev
                /\ r.irqs = b.irqs \ {"full"}
             \/ /\ r.msgs # <<>>
                /\ \E n \in Buses : Issued(n, r) /\ n.msgs = r.msgs /\ n.irqs = b.irqs \ {"full"} /\ n.ev = b.ev

LEMMA I2cReceiveStage ==
  ASSUME NEW b \in Buses, NEW full \in BOOLEAN PROVE Received(b, full, I!Receive(b, full))
<1> DEFINE r == I!Receive(b, full)
<1>1. CASE ~full
  <2>1. r = b
    BY <1>1 DEF I!Receive
  <2> QED BY <1>1, <2>1 DEF Received
<1>2. CASE full
  <2> DEFINE idx == I!Lesser(b.index + b.fifo, I!Beyond)
             d   == [b EXCEPT !.fifo = 0, !.index = idx]
  <2>1. idx \in 0..I!Beyond /\ 0 \in 0..I!Beyond /\ 0 \in 0..I!Depth
    BY I2cAssumption DEF I2cAssumption, I!Lesser, I!Beyond, I!Depth, Buses
  <2> HIDE DEF idx
  <2>2. /\ d \in Buses /\ d.who = b.who /\ d.msgs = b.msgs /\ d.dir = b.dir /\ d.cmd = b.cmd /\ d.sem = b.sem
        /\ d.ev = b.ev /\ d.irqs = b.irqs /\ d.status = b.status /\ d.index = idx
    BY <2>1 DEF Buses
  <2>3. CASE target # NoI2c \/ b.msgs = <<>> \/ d.index # Head(b.msgs).len
    <3> DEFINE i2 == IF target # NoI2c THEN 0 ELSE d.index
    <3>1. r = [d EXCEPT !.index = i2]
      BY <1>2, <2>3 DEF I!Receive, idx
    <3>2. i2 \in 0..I!Beyond
      BY <2>1, <2>2
    <3> HIDE DEF i2, d, r
    <3>3. r \in Buses /\ r.who = d.who /\ r.msgs = d.msgs /\ r.dir = d.dir /\ r.cmd = d.cmd /\ r.sem = d.sem
          /\ r.ev = d.ev /\ r.irqs = d.irqs /\ r.status = d.status
      BY <2>2, <3>1, <3>2 DEF Buses
    <3> QED BY <1>2, <2>2, <3>3 DEF r, Received
  <2>4. CASE ~(target # NoI2c \/ b.msgs = <<>> \/ d.index # Head(b.msgs).len)
    <3> DEFINE irqs == d.irqs \ {"full"}
               msgs == Tail(d.msgs)
               n    == [d EXCEPT !.irqs = irqs, !.msgs = msgs, !.index = 0]
    <3>1. r = IF n.msgs = <<>> THEN n ELSE I!Issue(n)
      BY <1>2, <2>4 DEF I!Receive, idx
    <3>2. irqs \in SUBSET {"hit", "empty", "full", "cmpl"} /\ msgs \in Seq(I!Msg)
      BY <2>2, <2>4, I2cSeq DEF Buses
    <3> HIDE DEF irqs, msgs, d, r
    <3>3. /\ n \in Buses /\ n.who = d.who /\ n.msgs = msgs /\ n.dir = d.dir /\ n.cmd = d.cmd /\ n.sem = d.sem
          /\ n.ev = d.ev /\ n.irqs = irqs /\ n.status = d.status
      BY <2>1, <2>2, <3>2 DEF Buses
    <3> HIDE DEF n
    <3>4. irqs = b.irqs \ {"full"} /\ msgs = Tail(b.msgs)
      BY <2>2 DEF irqs, msgs
    <3>5. CASE n.msgs = <<>>
      BY <1>2, <2>2, <2>4, <3>1, <3>3, <3>4, <3>5 DEF r, Received
    <3>6. CASE n.msgs # <<>>
      <4>1. Issued(n, r)
        BY <3>1, <3>3, <3>6, I2cIssue
      <4>2. r \in Buses /\ r.who = b.who /\ r.status = b.status /\ r.sem = b.sem /\ r.msgs = Tail(b.msgs)
        BY <2>2, <3>3, <3>4, <4>1 DEF Issued
      <4>3. n \in Buses /\ n.msgs = r.msgs /\ n.irqs = b.irqs \ {"full"} /\ n.ev = b.ev /\ r.msgs # <<>>
        BY <2>2, <3>3, <3>4, <3>6, <4>2
      <4> QED BY <1>2, <2>4, <4>1, <4>2, <4>3 DEF r, Received
    <3> QED BY <3>5, <3>6
  <2> QED BY <2>3, <2>4
<1> QED BY <1>1, <1>2

(* Complete: the end of a transaction.                                      *)
Completed(b, cmpl, r) ==
    /\ r \in Buses /\ r.who = b.who /\ r.status = b.status
    /\ ~cmpl => r = b
    /\ cmpl =>
         \/ /\ target # NoI2c \/ b.msgs = <<>>
            /\ r.msgs = b.msgs /\ r.cmd = b.cmd /\ r.sem = 1 /\ r.ev = b.ev \ {"cmpl"}
            /\ r.irqs = b.irqs \ {"cmpl", "full", "empty"}
         \/ /\ target = NoI2c /\ b.msgs # <<>> /\ r.msgs = Tail(b.msgs)
            /\ r.msgs = <<>> \/ b.status # "hit"
            /\ r.cmd = b.cmd /\ r.sem = 1 /\ r.ev = b.ev \ {"cmpl"}
            /\ r.irqs = b.irqs \ {"cmpl", "full", "empty"}
         \/ /\ target = NoI2c /\ b.msgs # <<>> /\ r.msgs = Tail(b.msgs) /\ r.msgs # <<>> /\ b.status = "hit"
            /\ r.sem = b.sem
            /\ \E n \in Buses : /\ Issued(n, r) /\ n.msgs = r.msgs /\ n.ev = b.ev \ {"cmpl"}
                                /\ n.irqs = b.irqs \ {"cmpl", "full", "empty"}

LEMMA I2cCompleteStage ==
  ASSUME NEW b \in Buses, NEW cmpl \in BOOLEAN PROVE Completed(b, cmpl, I!Complete(b, cmpl))
<1> DEFINE r == I!Complete(b, cmpl)
<1>1. CASE ~cmpl
  <2>1. r = b
    BY <1>1 DEF I!Complete
  <2> QED BY <1>1, <2>1 DEF Completed
<1>2. CASE cmpl
  <2> DEFINE irqs == b.irqs \ {"cmpl", "full", "empty"}
             ev   == b.ev \ {"cmpl"}
             c    == [b EXCEPT !.irqs = irqs, !.ev = ev]
  <2>1. irqs \in SUBSET {"hit", "empty", "full", "cmpl"} /\ ev \in SUBSET {"hit", "cmpl"} /\ 1 \in 0..1
    BY DEF Buses
  <2> HIDE DEF irqs, ev
  <2>2. /\ c \in Buses /\ c.who = b.who /\ c.msgs = b.msgs /\ c.dir = b.dir /\ c.cmd = b.cmd /\ c.sem = b.sem
        /\ c.ev = ev /\ c.irqs = irqs /\ c.status = b.status
    BY <2>1 DEF Buses
  <2>3. CASE target # NoI2c \/ b.msgs = <<>>
    <3>1. r = [c EXCEPT !.sem = 1]
      BY <1>2, <2>3 DEF I!Complete, I!Give, irqs, ev
    <3> HIDE DEF c, r
    <3>2. r \in Buses /\ r.who = c.who /\ r.msgs = c.msgs /\ r.cmd = c.cmd /\ r.sem = 1
          /\ r.ev = c.ev /\ r.irqs = c.irqs /\ r.status = c.status
      BY <2>1, <2>2, <3>1 DEF Buses
    <3> QED BY <1>2, <2>2, <2>3, <3>2 DEF r, irqs, ev, Completed
  <2>4. CASE target = NoI2c /\ b.msgs # <<>>
    <3> DEFINE msgs == Tail(c.msgs)
               n    == [c EXCEPT !.msgs = msgs]
    <3>1. r = IF n.msgs # <<>> /\ b.status = "hit" THEN I!Issue(n) ELSE [n EXCEPT !.sem = 1]
      BY <1>2, <2>4 DEF I!Complete, I!Give, irqs, ev
    <3>2. msgs \in Seq(I!Msg) /\ msgs = Tail(b.msgs)
      BY <2>2, <2>4, I2cSeq DEF Buses
    <3> HIDE DEF msgs, c, r
    <3>3. /\ n \in Buses /\ n.who = b.who /\ n.msgs = msgs /\ n.dir = b.dir /\ n.cmd = b.cmd /\ n.sem = b.sem
          /\ n.ev = ev /\ n.irqs = irqs /\ n.status = b.status
      BY <2>2, <3>2 DEF Buses
    <3> HIDE DEF n
    <3>4. CASE n.msgs # <<>> /\ b.status = "hit"
      <4>1. Issued(n, r)
        BY <3>1, <3>3, <3>4, I2cIssue
      <4>2. r \in Buses /\ r.who = b.who /\ r.status = b.status /\ r.sem = b.sem /\ r.msgs = Tail(b.msgs)
        BY <3>2, <3>3, <4>1 DEF Issued
      <4>3. n \in Buses /\ n.msgs = r.msgs /\ n.irqs = irqs /\ n.ev = ev /\ r.msgs # <<>>
        BY <3>2, <3>3, <3>4, <4>2
      <4> QED BY <1>2, <2>4, <3>4, <4>1, <4>2, <4>3 DEF r, irqs, ev, Completed
    <3>5. CASE ~(n.msgs # <<>> /\ b.status = "hit")
      <4>1. r = [n EXCEPT !.sem = 1]
        BY <3>1, <3>5
      <4>2. r \in Buses /\ r.who = b.who /\ r.msgs = msgs /\ r.cmd = b.cmd /\ r.sem = 1
            /\ r.ev = ev /\ r.irqs = irqs /\ r.status = b.status
        BY <2>1, <3>3, <4>1 DEF Buses
      <4> QED BY <1>2, <2>4, <3>2, <3>3, <3>5, <4>2 DEF r, irqs, ev, Completed
    <3> QED BY <3>4, <3>5
  <2> QED BY <2>3, <2>4
<1> QED BY <1>1, <1>2
-------------------------------------------------------------------------------
(* The steps of the callers.                                                *)
Oddities == {"lateStop", "bothEvents", "restartNack", "dataNack", "asTarget", "wrong"}
Owners   == [owner : I2cThreads \cup {NoI2c}, count : 0..2]

LEMMA I2cTypeOK ==
  ASSUME i2cCall' \in [I2cThreads -> Calls], i2cMutex' \in Owners, target' \in I2cThreads \cup {NoI2c},
         bus' \in Buses, Len(bus'.msgs) <= MaxMsgs, i2cOdd' \subseteq Oddities
  PROVE  I!TypeOK'
BY DEF I!TypeOK, Calls, Owners, Buses, Oddities

LEMMA I2cTypes ==
  I2cInv => /\ i2cCall \in [I2cThreads -> Calls] /\ i2cMutex \in Owners /\ target \in I2cThreads \cup {NoI2c}
            /\ bus \in Buses /\ Len(bus.msgs) \in 0..MaxMsgs /\ i2cOdd \subseteq Oddities
<1> SUFFICES ASSUME I2cInv PROVE /\ i2cCall \in [I2cThreads -> Calls] /\ i2cMutex \in Owners
                                 /\ target \in I2cThreads \cup {NoI2c} /\ i2cOdd \subseteq Oddities
                                 /\ bus \in Buses /\ Len(bus.msgs) \in 0..MaxMsgs
  OBVIOUS
<1>1. /\ i2cCall \in [I2cThreads -> Calls] /\ i2cMutex \in Owners /\ target \in I2cThreads \cup {NoI2c}
      /\ bus \in Buses /\ Len(bus.msgs) <= MaxMsgs /\ i2cOdd \subseteq Oddities
  BY DEF I2cInv, I!TypeOK, Calls, Owners, Buses, Oddities
<1>2. Len(bus.msgs) \in 0..MaxMsgs
  BY <1>1, I2cSeq, I2cAssumption DEF Buses, I2cAssumption
<1> QED BY <1>1, <1>2

(* What was excused stays excused.                                          *)
LEMMA I2cExcused ==
  ASSUME I!I2cResultIsOwn, i2cOdd \subseteq i2cOdd', "wrong" \in i2cOdd' => "wrong" \in i2cOdd
  PROVE  I!I2cResultIsOwn'
BY DEF I!I2cResultIsOwn

LEMMA I2cFree ==
  ASSUME I2cInv, NEW t \in I2cThreads, I!InCall(t, "idle"), I!MayLock(t)
  PROVE  \A u \in I2cThreads : ~I!InCall(u, "wait")
BY I2cTyped DEF I2cInv, InMutex, I!MayLock, I!InCall

LEMMA I2cLock ==
  ASSUME I2cInv, NEW t \in I2cThreads, I!MayLock(t), i2cMutex.count < 2
  PROVE  I!Locked(t) \in Owners /\ I!Locked(t).owner = t /\ I!Locked(t).count = i2cMutex.count + 1
         /\ i2cMutex.count \in 0..1
<1>1. i2cMutex.count \in 0..1
  BY I2cTypes DEF Owners
<1> QED BY <1>1 DEF I!Locked, Owners

LEMMA I2cUnlock ==
  ASSUME I2cInv, NEW t \in I2cThreads, i2cMutex.owner = t
  PROVE  /\ I!Unlocked \in Owners /\ i2cMutex.count \in 1..2
         /\ i2cMutex.count = 1 => I!Unlocked.owner = NoI2c /\ I!Unlocked.count = 0
         /\ i2cMutex.count = 2 => I!Unlocked.owner = t /\ I!Unlocked.count = 1
<1>1. i2cMutex \in Owners /\ i2cMutex.count \in 1..2
  BY I2cTypes, I2cTyped DEF I2cInv, InMutex, Owners
<1>2. CASE i2cMutex.count = 1
  BY <1>1, <1>2 DEF I!Unlocked, Owners
<1>3. CASE i2cMutex.count = 2
  <2> DEFINE n == i2cMutex.count - 1
  <2>1. I!Unlocked = [i2cMutex EXCEPT !.count = n] /\ n = 1
    BY <1>3 DEF I!Unlocked
  <2> HIDE DEF n
  <2> QED BY <1>1, <1>3, <2>1 DEF Owners
<1> QED BY <1>1, <1>2, <1>3

LEMMA I2cTransferCall ==
  ASSUME I2cInv, NEW t \in I2cThreads, I!Transfer(t)
  PROVE  \E n \in 1..MaxMsgs : \E c \in Calls :
            /\ c.pc = "wait" /\ c.asked = n /\ c.moved = 0 /\ c.nack = FALSE
            /\ i2cCall' = [i2cCall EXCEPT ![t] = c]
            /\ bus' \in Buses /\ bus'.who = t /\ Len(bus'.msgs) = n
            /\ i2cOdd' \in {i2cOdd, i2cOdd \cup {"lateStop"}}
            /\ target = NoI2c /\ i2cOdd' = {} => \E b \in Buses :
                 /\ Issued(b, bus') /\ b.ev = bus.ev /\ b.irqs = bus.irqs /\ b.sem = bus.sem
                 /\ b.msgs # <<>> /\ Head(b.msgs).restart /\ b.status = "idle"
<1>1. PICK n \in 1..MaxMsgs : \E msgs \in [1..n -> I2cMsgs] :
         /\ msgs[1].restart
         /\ i2cCall' = [i2cCall EXCEPT ![t] = [I!Out EXCEPT !.pc = "wait", !.asked = n]]
         /\ IF target # NoI2c
            THEN bus' = [I!Begin(t, msgs) EXCEPT !.irqs = @ \cup {"hit", "cmpl"}] /\ UNCHANGED i2cOdd
            ELSE \/ bus' = I!Issue(I!Begin(t, msgs)) /\ UNCHANGED i2cOdd
                 \/ /\ bus.cmd = "stop" /\ i2cOdd' = i2cOdd \cup {"lateStop"}
                    /\ bus' = [I!Issue(I!Begin(t, msgs)) EXCEPT !.ev = @ \cup {"cmpl"}]
  BY DEF I!Transfer
<1>2. PICK msgs \in [1..n -> I2cMsgs] :
         /\ msgs[1].restart
         /\ i2cCall' = [i2cCall EXCEPT ![t] = [I!Out EXCEPT !.pc = "wait", !.asked = n]]
         /\ IF target # NoI2c
            THEN bus' = [I!Begin(t, msgs) EXCEPT !.irqs = @ \cup {"hit", "cmpl"}] /\ UNCHANGED i2cOdd
            ELSE \/ bus' = I!Issue(I!Begin(t, msgs)) /\ UNCHANGED i2cOdd
                 \/ /\ bus.cmd = "stop" /\ i2cOdd' = i2cOdd \cup {"lateStop"}
                    /\ bus' = [I!Issue(I!Begin(t, msgs)) EXCEPT !.ev = @ \cup {"cmpl"}]
  BY <1>1
<1>3. msgs \in Seq(I!Msg) /\ Len(msgs) = n /\ msgs # <<>> /\ Head(msgs) = msgs[1] /\ n \in Nat
  <2>1. msgs \in [1..n -> I!Msg] /\ n \in Nat /\ n >= 1
    BY I2cAssumption DEF I2cAssumption
  <2>2. msgs \in Seq(I!Msg) /\ Len(msgs) = n
    BY <2>1, LenProperties, SeqDef
  <2> QED BY <2>1, <2>2, I2cSeq
<1> DEFINE out == I!Out
           c == [out EXCEPT !.pc = "wait", !.asked = n]
           b == [bus EXCEPT !.who = t, !.msgs = msgs, !.index = 0, !.status = "idle"]
<1>4. out \in Calls /\ out.moved = 0 /\ out.nack = FALSE /\ n \in 0..MaxMsgs
  BY <1>3, I2cAssumption DEF I!Out, Calls, I2cAssumption
<1> HIDE DEF out
<1>5. c \in Calls /\ c.pc = "wait" /\ c.asked = n /\ c.moved = 0 /\ c.nack = FALSE
  BY <1>4 DEF Calls
<1>6. i2cCall' = [i2cCall EXCEPT ![t] = c]
  BY <1>2 DEF out
<1>7. 0 \in 0..I!Beyond /\ bus \in Buses
  BY I2cTypes, I2cAssumption DEF I2cAssumption, I!Beyond
<1>8. /\ b \in Buses /\ b.who = t /\ b.msgs = msgs /\ b.status = "idle" /\ b.ev = bus.ev /\ b.irqs = bus.irqs
      /\ b.sem = bus.sem /\ I!Begin(t, msgs) = b
  BY <1>3, <1>7 DEF Buses, I!Begin
<1> HIDE DEF b, c
<1>9. Issued(b, I!Issue(b))
  BY <1>3, <1>8, I2cIssue
<1>10. /\ bus' \in Buses /\ bus'.who = t /\ bus'.msgs = msgs /\ i2cOdd' \in {i2cOdd, i2cOdd \cup {"lateStop"}}
       /\ target = NoI2c /\ i2cOdd' = {} => bus' = I!Issue(b)
  <2>1. CASE target # NoI2c
    <3> DEFINE irqs == b.irqs \cup {"hit", "cmpl"}
    <3>1. bus' = [b EXCEPT !.irqs = irqs] /\ irqs \in SUBSET {"hit", "empty", "full", "cmpl"} /\ i2cOdd' = i2cOdd
      BY <1>2, <1>8, <2>1 DEF Buses
    <3> HIDE DEF irqs
    <3> QED BY <1>8, <2>1, <3>1 DEF Buses
  <2>2. CASE target = NoI2c /\ bus' = I!Issue(b) /\ i2cOdd' = i2cOdd
    BY <1>8, <1>9, <2>2 DEF Issued
  <2>3. CASE target = NoI2c /\ i2cOdd' = i2cOdd \cup {"lateStop"}
             /\ bus' = [I!Issue(b) EXCEPT !.ev = @ \cup {"cmpl"}]
    <3> DEFINE r == I!Issue(b)
               ev == r.ev \cup {"cmpl"}
    <3>1. r \in Buses /\ r.who = t /\ r.msgs = msgs
      BY <1>8, <1>9 DEF Issued
    <3>2. bus' = [r EXCEPT !.ev = ev] /\ ev \in SUBSET {"hit", "cmpl"}
      BY <2>3, <3>1 DEF Buses
    <3> HIDE DEF r, ev
    <3>3. bus' \in Buses /\ bus'.who = t /\ bus'.msgs = msgs
      BY <3>1, <3>2 DEF Buses
    <3> QED BY <2>3, <3>3
  <2> QED BY <1>2, <1>8, <2>1, <2>2, <2>3
<1>11. ASSUME target = NoI2c, i2cOdd' = {}
       PROVE  /\ Issued(b, bus') /\ b.ev = bus.ev /\ b.irqs = bus.irqs /\ b.sem = bus.sem
              /\ b.msgs # <<>> /\ Head(b.msgs).restart /\ b.status = "idle"
  BY <1>2, <1>3, <1>8, <1>9, <1>10, <1>11
<1> QED BY <1>3, <1>5, <1>6, <1>8, <1>10, <1>11

LEMMA I2cTransfer == ASSUME I2cInv, NEW t \in I2cThreads, I!Transfer(t) PROVE I2cInv'
<1>1. PICK n \in 1..MaxMsgs : \E d \in Calls :
         /\ d.pc = "wait" /\ d.asked = n /\ d.moved = 0 /\ d.nack = FALSE
         /\ i2cCall' = [i2cCall EXCEPT ![t] = d]
         /\ bus' \in Buses /\ bus'.who = t /\ Len(bus'.msgs) = n
         /\ i2cOdd' \in {i2cOdd, i2cOdd \cup {"lateStop"}}
         /\ target = NoI2c /\ i2cOdd' = {} => \E b \in Buses :
              /\ Issued(b, bus') /\ b.ev = bus.ev /\ b.irqs = bus.irqs /\ b.sem = bus.sem
              /\ b.msgs # <<>> /\ Head(b.msgs).restart /\ b.status = "idle"
  BY I2cTransferCall
<1>2. PICK c \in Calls :
         /\ c.pc = "wait" /\ c.asked = n /\ c.moved = 0 /\ c.nack = FALSE
         /\ i2cCall' = [i2cCall EXCEPT ![t] = c]
         /\ bus' \in Buses /\ bus'.who = t /\ Len(bus'.msgs) = n
         /\ i2cOdd' \in {i2cOdd, i2cOdd \cup {"lateStop"}}
         /\ target = NoI2c /\ i2cOdd' = {} => \E b \in Buses :
              /\ Issued(b, bus') /\ b.ev = bus.ev /\ b.irqs = bus.irqs /\ b.sem = bus.sem
              /\ b.msgs # <<>> /\ Head(b.msgs).restart /\ b.status = "idle"
  BY <1>1
<1>3. /\ I!InCall(t, "idle") /\ I!MayLock(t) /\ i2cMutex.count < 2
      /\ i2cMutex' = I!Locked(t) /\ target' = target
  BY DEF I!Transfer
<1>4. /\ i2cCall' \in [I2cThreads -> Calls] /\ i2cCall'[t] = c
      /\ \A u \in I2cThreads : u # t => i2cCall'[u] = i2cCall[u]
  BY <1>2, I2cTypes
<1>5. I!TypeOK'
  BY <1>2, <1>3, <1>4, I2cTypes, I2cLock, I2cTypeOK DEF Oddities
<1>6. \A u \in I2cThreads : ~I!InCall(u, "wait")
  BY <1>3, I2cFree
<1>7. InMutex'
  <2>1. I!InCall(t, "wait")' /\ \A u \in I2cThreads : u # t => ~I!InCall(u, "wait")'
    BY <1>2, <1>4, <1>6 DEF I!InCall
  <2>2. i2cMutex'.owner = t /\ i2cMutex'.count = i2cMutex.count + 1 /\ i2cMutex.count \in 0..1 /\ t # NoI2c
    BY <1>3, I2cLock, I2cTyped
  <2>3. "asTarget" \notin i2cOdd' => "asTarget" \notin i2cOdd
    BY <1>2
  <2>4. "asTarget" \notin i2cOdd => target = NoI2c /\ i2cMutex.count = 0
    <3>1. i2cMutex.owner \in {t, NoI2c}
      BY <1>3 DEF I!MayLock
    <3> QED BY <1>6, <3>1 DEF I2cInv, InMutex
  <2> QED BY <1>3, <2>1, <2>2, <2>3, <2>4 DEF InMutex
<1>8. Fits'
  BY <1>2, <1>4, I2cAssumption DEF Fits, I2cAssumption
<1>9. ASSUME i2cOdd' = {} PROVE InStep'
  <2>1. i2cOdd = {} /\ target = NoI2c
    BY <1>2, <1>9 DEF I2cInv, InMutex
  <2>2. PICK b \in Buses :
              /\ Issued(b, bus') /\ b.ev = bus.ev /\ b.irqs = bus.irqs /\ b.sem = bus.sem
              /\ b.msgs # <<>> /\ Head(b.msgs).restart /\ b.status = "idle"
    BY <1>2, <1>9, <2>1
  <2>3. Silent(bus) /\ bus.sem = 0
    BY <1>6, <2>1 DEF I2cInv, InStep
  <2>4. Starting(bus', c)
    <3>1. bus'.ev = {} /\ bus'.irqs = {"hit", "cmpl"}
      BY <2>2, <2>3 DEF Issued, Silent, Buses
    <3>2. bus'.msgs # <<>> /\ bus'.dir = Head(bus'.msgs).dir /\ Left(bus', c) = 0
      BY <1>2, <2>2 DEF Issued, Left
    <3> QED BY <1>2, <2>2, <2>3, <3>1, <3>2 DEF Issued, Starting
  <2>5. Phase(bus', c)
    BY <1>2, <2>4 DEF Phase
  <2>6. \A u \in I2cThreads : I!InCall(u, "wait")' => u = t
    BY <1>4, <1>6 DEF I!InCall
  <2>7. \A u \in I2cThreads : ~(I!InCall(u, "read")' /\ bus'.who = u)
    BY <1>2, <1>4 DEF I!InCall
  <2>8. I!InCall(t, "wait")'
    BY <1>2, <1>4 DEF I!InCall
  <2> QED BY <1>2, <1>4, <2>5, <2>6, <2>7, <2>8 DEF InStep
<1>10. InStep'
  BY <1>9 DEF InStep
<1>11. I!I2cResultIsOwn'
  BY <1>2, I2cExcused DEF I2cInv
<1> QED BY <1>5, <1>7, <1>8, <1>10, <1>11 DEF I2cInv

LEMMA I2cReturn == ASSUME I2cInv, NEW t \in I2cThreads, I!Return(t) PROVE I2cInv'
<1> DEFINE c == [i2cCall[t] EXCEPT !.pc = "read"]
<1>1. /\ I!InCall(t, "wait") /\ bus.sem = 1 /\ bus' = [bus EXCEPT !.sem = 0] /\ i2cMutex' = I!Unlocked
      /\ i2cCall' = [i2cCall EXCEPT ![t] = c] /\ target' = target /\ i2cOdd' = i2cOdd
  BY DEF I!Return
<1>2. c \in Calls /\ c.pc = "read" /\ c.asked = i2cCall[t].asked /\ c.moved = i2cCall[t].moved
      /\ c.nack = i2cCall[t].nack
  BY I2cTypes DEF Calls
<1> HIDE DEF c
<1>3. /\ i2cCall' \in [I2cThreads -> Calls] /\ i2cCall'[t] = c
      /\ \A u \in I2cThreads : u # t => i2cCall'[u] = i2cCall[u]
  BY <1>1, <1>2, I2cTypes
<1>4. /\ bus' \in Buses /\ bus'.who = bus.who /\ bus'.msgs = bus.msgs /\ bus'.cmd = bus.cmd /\ bus'.ev = bus.ev
      /\ bus'.irqs = bus.irqs /\ bus'.status = bus.status /\ bus'.sem = 0
  BY <1>1, I2cTypes DEF Buses
<1>5. i2cMutex.owner = t /\ \A u \in I2cThreads : I!InCall(u, "wait") => u = t
  BY <1>1 DEF I2cInv, InMutex
<1>6. I!TypeOK'
  BY <1>1, <1>3, <1>4, <1>5, I2cTypes, I2cUnlock, I2cTypeOK
<1>7. InMutex'
  <2>1. \A u \in I2cThreads : ~I!InCall(u, "wait")'
    BY <1>2, <1>3, <1>5 DEF I!InCall
  <2>2. CASE i2cMutex.count = 1
    <3>1. i2cMutex'.owner = NoI2c /\ i2cMutex'.count = 0
      BY <1>1, <1>5, <2>2, I2cUnlock
    <3>2. NoI2c \notin I2cThreads
      BY I2cTyped
    <3>3. ("asTarget" \notin i2cOdd) => target = NoI2c
      BY DEF I2cInv, InMutex
    <3> QED BY <1>1, <2>1, <3>1, <3>2, <3>3 DEF InMutex
  <2>3. CASE i2cMutex.count = 2
    <3>1. i2cMutex'.owner = t /\ i2cMutex'.count = 1 /\ t # NoI2c
      BY <1>1, <1>5, <2>3, I2cUnlock, I2cTyped
    <3>2. "asTarget" \in i2cOdd
      BY <2>3 DEF I2cInv, InMutex
    <3> QED BY <1>1, <2>1, <3>1, <3>2 DEF InMutex
  <2>4. i2cMutex.count \in 1..2
    BY <1>5, I2cUnlock
  <2> QED BY <2>2, <2>3, <2>4
<1>8. Fits'
  <2>1. \A u \in I2cThreads : i2cCall'[u].moved = i2cCall[u].moved
    BY <1>2, <1>3
  <2> QED BY <1>4, <2>1 DEF I2cInv, Fits
<1>9. ASSUME i2cOdd = {} PROVE InStep'
  <2>1. bus.who = t /\ Phase(bus, i2cCall[t])
    BY <1>1, <1>9 DEF I2cInv, InStep
  <2>2. Ready(bus, i2cCall[t])
    BY <1>1, <2>1 DEF Phase, Starting, Moving, Ended
  <2>3. Silent(bus') /\ Told(bus', c)
    BY <1>2, <1>4, <2>2 DEF Ready, Silent, Told
  <2>4. \A u \in I2cThreads : ~I!InCall(u, "wait")'
    BY <1>2, <1>3, <1>5 DEF I!InCall
  <2> QED BY <1>3, <1>4, <2>1, <2>3, <2>4 DEF InStep
<1>10. InStep'
  BY <1>1, <1>9 DEF InStep
<1>11. I!I2cResultIsOwn'
  BY <1>1, I2cExcused DEF I2cInv
<1> QED BY <1>6, <1>7, <1>8, <1>10, <1>11 DEF I2cInv

LEMMA I2cReadStatus == ASSUME I2cInv, NEW t \in I2cThreads, I!ReadStatus(t) PROVE I2cInv'
<1> DEFINE c      == i2cCall[t]
           failed == bus.status = "nohit"
           told   == (failed => c.nack) /\ (~failed => c.moved >= c.asked)
           wrong  == IF bus.who = t /\ ~told THEN {"wrong"} ELSE {}
<1>1. /\ I!InCall(t, "read") /\ i2cCall' = [i2cCall EXCEPT ![t] = I!Out]
      /\ i2cOdd' = i2cOdd \cup wrong
      /\ i2cMutex' = i2cMutex /\ target' = target /\ bus' = bus
  BY DEF I!ReadStatus
<1>2. I!Out \in Calls /\ I!Out.pc = "idle" /\ I!Out.moved = 0
  BY I2cAssumption DEF I!Out, Calls, I2cAssumption
<1>3. /\ i2cCall' \in [I2cThreads -> Calls] /\ i2cCall'[t] = I!Out
      /\ \A u \in I2cThreads : u # t => i2cCall'[u] = i2cCall[u]
  BY <1>1, <1>2, I2cTypes
<1>4. wrong \in SUBSET {"wrong"}
  OBVIOUS
<1>5. ASSUME i2cOdd = {} PROVE wrong = {}
  <2>1. bus.who = t => Told(bus, c)
    BY <1>1, <1>5 DEF I2cInv, InStep
  <2>2. c.moved \in Nat /\ c.asked \in Nat
    BY I2cTypes, I2cAssumption DEF Calls, I2cAssumption
  <2> QED BY <2>1, <2>2 DEF Told
<1> HIDE DEF wrong, c, failed, told
<1>6. i2cOdd \subseteq i2cOdd' /\ i2cOdd' \subseteq i2cOdd \cup {"wrong"}
  BY <1>1, <1>4
<1>7. I!TypeOK'
  <2>1. i2cOdd' \subseteq Oddities
    BY <1>6, I2cTypes DEF Oddities
  <2> QED BY <1>1, <1>3, <2>1, I2cTypes, I2cTypeOK
<1>8. \A u \in I2cThreads : I!InCall(u, "wait")' <=> I!InCall(u, "wait")
  BY <1>1, <1>2, <1>3 DEF I!InCall
<1>9. InMutex'
  BY <1>1, <1>6, <1>8 DEF I2cInv, InMutex
<1>10. Fits'
  <2>1. \A u \in I2cThreads : i2cCall'[u].moved <= i2cCall[u].moved /\ i2cCall'[u].moved \in Nat
                              /\ i2cCall[u].moved \in Nat
    <3> SUFFICES ASSUME NEW u \in I2cThreads
                 PROVE  /\ i2cCall'[u].moved <= i2cCall[u].moved /\ i2cCall'[u].moved \in Nat
                        /\ i2cCall[u].moved \in Nat
      OBVIOUS
    <3>1. i2cCall[u].moved \in 0..MaxMsgs
      BY I2cTypes DEF Calls
    <3>2. i2cCall'[u].moved \in {0, i2cCall[u].moved}
      BY <1>2, <1>3
    <3> QED BY <3>1, <3>2, I2cAssumption DEF I2cAssumption
  <2>2. MaxMsgs \in Nat /\ Len(bus.msgs) \in Nat
    BY I2cTypes, I2cAssumption DEF I2cAssumption
  <2> HIDE DEF I2cInv
  <2> QED BY <1>1, <2>1, <2>2 DEF I2cInv, Fits
<1>11. InStep'
  <2>1. \A u \in I2cThreads : I!InCall(u, "wait") \/ (I!InCall(u, "read"))' => u # t
    BY <1>1, <1>2, <1>3 DEF I!InCall
  <2> QED BY <1>1, <1>3, <1>6, <1>8, <2>1 DEF I2cInv, InStep, I!InCall
<1>12. I!I2cResultIsOwn'
  <2>1. CASE i2cOdd = {}
    BY <1>1, <1>4, <1>5, <2>1 DEF I!I2cResultIsOwn
  <2>2. CASE i2cOdd # {} /\ i2cOdd # {"wrong"}
    BY <1>6, <2>2 DEF I!I2cResultIsOwn
  <2> QED BY <2>1, <2>2 DEF I2cInv, I!I2cResultIsOwn
<1> QED BY <1>7, <1>9, <1>10, <1>11, <1>12 DEF I2cInv

(* The controller is initialised: by Configure and by Register.             *)
LEMMA I2cReset ==
  ASSUME I2cInv, bus' = [bus EXCEPT !.ev = {}, !.irqs = {}, !.cmd = "none", !.fifo = 0]
  PROVE  /\ bus' \in Buses /\ bus'.who = bus.who /\ bus'.msgs = bus.msgs /\ bus'.cmd = "none" /\ bus'.ev = {}
         /\ bus'.irqs = {} /\ bus'.status = bus.status /\ bus'.sem = bus.sem
<1>1. bus \in Buses /\ 0 \in 0..I!Depth
  BY I2cTypes DEF I!Depth
<1> QED BY <1>1 DEF Buses

(* A step that keeps the calls and moves no message keeps Fits.             *)
LEMMA I2cKeepsFits ==
  ASSUME I2cInv, i2cCall' = i2cCall, bus'.who = bus.who, bus'.msgs = bus.msgs,
         bus'.cmd \in Moves => bus.cmd \in Moves
  PROVE  Fits'
<1>1. ASSUME bus.who \in I2cThreads
      PROVE  i2cCall[bus.who].moved + Len(bus.msgs) <= MaxMsgs + (IF bus'.cmd \in Moves THEN 0 ELSE 1)
  <2>1. i2cCall[bus.who].moved + Len(bus.msgs) <= MaxMsgs + (IF bus.cmd \in Moves THEN 0 ELSE 1)
    BY <1>1 DEF I2cInv, Fits
  <2>2. i2cCall[bus.who].moved \in 0..MaxMsgs /\ Len(bus.msgs) \in 0..MaxMsgs /\ MaxMsgs \in Nat
    BY <1>1, I2cTypes, I2cAssumption DEF Calls, I2cAssumption
  <2> QED BY <2>1, <2>2
<1> QED BY <1>1 DEF I2cInv, Fits

LEMMA I2cConfigure == ASSUME I2cInv, NEW t \in I2cThreads, I!Configure(t) PROVE I2cInv'
<1>1. /\ I!InCall(t, "idle") /\ I!MayLock(t)
      /\ bus' = [bus EXCEPT !.ev = {}, !.irqs = {}, !.cmd = "none", !.fifo = 0]
      /\ i2cCall' = i2cCall /\ i2cMutex' = i2cMutex /\ target' = target /\ i2cOdd' = i2cOdd
  BY DEF I!Configure
<1>2. /\ bus' \in Buses /\ bus'.who = bus.who /\ bus'.msgs = bus.msgs /\ bus'.cmd = "none" /\ bus'.ev = {}
      /\ bus'.irqs = {} /\ bus'.status = bus.status /\ bus'.sem = bus.sem
  BY <1>1, I2cReset
<1>3. I!TypeOK'
  BY <1>1, <1>2, I2cTypes, I2cTypeOK
<1>4. InMutex'
  BY <1>1 DEF I2cInv, InMutex, I!InCall
<1>5. Fits'
  BY <1>1, <1>2, I2cKeepsFits DEF Moves
<1>6. InStep'
  <2>1. \A u \in I2cThreads : ~I!InCall(u, "wait")
    BY <1>1, I2cFree
  <2> QED BY <1>1, <1>2, <2>1 DEF I2cInv, InStep, I!InCall, Silent, Told
<1>7. I!I2cResultIsOwn'
  BY <1>1, I2cExcused DEF I2cInv
<1> QED BY <1>3, <1>4, <1>5, <1>6, <1>7 DEF I2cInv

LEMMA I2cRegister == ASSUME I2cInv, NEW t \in I2cThreads, I!Register(t) PROVE I2cInv'
<1>1. /\ I!InCall(t, "idle") /\ I!MayLock(t) /\ i2cMutex.count < 2 /\ i2cMutex' = I!Locked(t)
      /\ bus' = [bus EXCEPT !.ev = {}, !.irqs = {}, !.cmd = "none", !.fifo = 0]
      /\ i2cCall' = i2cCall /\ target' = t /\ i2cOdd' = i2cOdd \cup {"asTarget"}
  BY DEF I!Register
<1>2. /\ bus' \in Buses /\ bus'.who = bus.who /\ bus'.msgs = bus.msgs /\ bus'.cmd = "none"
  BY <1>1, I2cReset
<1>3. I!TypeOK'
  BY <1>1, <1>2, I2cTypes, I2cLock, I2cTypeOK DEF Oddities
<1>4. InMutex'
  <2>1. \A u \in I2cThreads : ~I!InCall(u, "wait")'
    BY <1>1, I2cFree DEF I!InCall
  <2>2. i2cMutex'.owner = t /\ i2cMutex'.count # 0 /\ t # NoI2c
    BY <1>1, I2cLock, I2cTyped
  <2> QED BY <1>1, <2>1, <2>2 DEF InMutex
<1>5. Fits'
  BY <1>1, <1>2, I2cKeepsFits DEF Moves
<1>6. InStep'
  BY <1>1 DEF InStep
<1>7. I!I2cResultIsOwn'
  BY <1>1, I2cExcused DEF I2cInv
<1> QED BY <1>3, <1>4, <1>5, <1>6, <1>7 DEF I2cInv

LEMMA I2cUnregister == ASSUME I2cInv, NEW t \in I2cThreads, I!Unregister(t) PROVE I2cInv'
<1>1. /\ target # NoI2c /\ target' = NoI2c
      /\ i2cCall' = i2cCall /\ i2cMutex' = i2cMutex /\ bus' = bus /\ i2cOdd' = i2cOdd
  BY DEF I!Unregister
<1>2. I!TypeOK'
  BY <1>1, I2cTypes, I2cTypeOK
<1>3. InMutex'
  BY <1>1 DEF I2cInv, InMutex, I!InCall
<1>4. Fits'
  BY <1>1, I2cKeepsFits
<1>5. InStep'
  BY <1>1 DEF I2cInv, InStep, I!InCall
<1>6. I!I2cResultIsOwn'
  BY <1>1, I2cExcused DEF I2cInv
<1> QED BY <1>2, <1>3, <1>4, <1>5, <1>6 DEF I2cInv
-------------------------------------------------------------------------------
(* The steps of the wire.  Until something excused happens there is a       *)
(* caller that waits for what is on it.                                     *)
LEMMA I2cWaiter ==
  ASSUME I2cInv, i2cOdd = {}, ~Silent(bus)
  PROVE  \E t \in I2cThreads :
            /\ I!InCall(t, "wait") /\ bus.who = t /\ Phase(bus, i2cCall[t]) /\ target = NoI2c
            /\ \A u \in I2cThreads : I!InCall(u, "wait") => u = t
<1>1. PICK t \in I2cThreads : I!InCall(t, "wait")
  BY DEF I2cInv, InStep
<1>2. bus.who = t /\ Phase(bus, i2cCall[t]) /\ target = NoI2c
  BY <1>1 DEF I2cInv, InStep, InMutex
<1>3. \A u \in I2cThreads : I!InCall(u, "wait") => u = t
  BY <1>1 DEF I2cInv, InMutex
<1> QED BY <1>1, <1>2, <1>3

(* A step that keeps the call's pc and the transfer's caller, and ends in a *)
(* phase, keeps InStep.                                                     *)
LEMMA I2cPhased ==
  ASSUME I2cInv, NEW t \in I2cThreads, I!InCall(t, "wait"), bus'.who = bus.who, bus.who = t,
         \A u \in I2cThreads : I!InCall(u, "wait") => u = t,
         \A u \in I2cThreads : i2cCall'[u].pc = i2cCall[u].pc,
         Phase(bus', i2cCall'[t])
  PROVE  InStep'
<1>1. \A u \in I2cThreads : I!InCall(u, "wait")' => u = t
  BY DEF I!InCall
<1>2. I!InCall(t, "wait")' /\ ~I!InCall(t, "read")'
  BY DEF I!InCall
<1> QED BY <1>1, <1>2 DEF InStep

LEMMA I2cAddressPhase == ASSUME I2cInv, I!AddressPhase PROVE I2cInv'
<1> USE DEF Moves
<1>0. bus.cmd = "start" /\ i2cMutex' = i2cMutex /\ target' = target
  BY DEF I!AddressPhase
<1>w. bus.who \in I2cThreads
  BY <1>0 DEF I2cInv, Fits
<1>1. CASE bus' = [I!Ours("data") EXCEPT !.ev = @ \cup {"hit"}] /\ UNCHANGED <<i2cCall, i2cOdd>>
  <2> DEFINE ev == bus.ev \cup {"hit"}
  <2>1. bus' = [bus EXCEPT !.cmd = "data", !.ev = ev] /\ ev \in SUBSET {"hit", "cmpl"}
    BY <1>1, I2cTypes DEF I!Ours, Buses
  <2> HIDE DEF ev
  <2>2. /\ bus' \in Buses /\ bus'.who = bus.who /\ bus'.msgs = bus.msgs /\ bus'.cmd = "data" /\ bus'.ev = ev
        /\ bus'.irqs = bus.irqs /\ bus'.status = bus.status /\ bus'.sem = bus.sem /\ bus'.dir = bus.dir
        /\ bus'.fifo = bus.fifo
    BY <2>1, I2cTypes DEF Buses
  <2>3. I!TypeOK'
    BY <1>0, <1>1, <2>2, I2cTypes, I2cTypeOK
  <2>4. InMutex'
    BY <1>0, <1>1 DEF I2cInv, InMutex, I!InCall
  <2>5. Fits'
    BY <1>0, <1>1, <2>2, I2cKeepsFits
  <2>6. ASSUME i2cOdd = {} PROVE InStep'
    <3>1. ~Silent(bus)
      BY <1>0 DEF Silent
    <3>2. PICK t \in I2cThreads : /\ I!InCall(t, "wait") /\ bus.who = t /\ Phase(bus, i2cCall[t])
                                  /\ \A u \in I2cThreads : I!InCall(u, "wait") => u = t
      BY <2>6, <3>1, I2cWaiter
    <3>3. Starting(bus, i2cCall[t])
      BY <1>0, <3>2 DEF Phase, Moving, Ended, Ready, Silent
    <3>4. Moving(bus', i2cCall[t])
      BY <2>2, <3>3 DEF Starting, Moving, Addressed, Left, ev
    <3>5. Phase(bus', i2cCall'[t])
      BY <1>1, <2>2, <3>2, <3>4 DEF Phase
    <3> QED BY <1>1, <2>2, <3>2, <3>5, I2cPhased
  <2>7. InStep'
    BY <1>1, <2>6 DEF InStep
  <2>8. I!I2cResultIsOwn'
    BY <1>1, I2cExcused DEF I2cInv
  <2> QED BY <2>3, <2>4, <2>5, <2>7, <2>8 DEF I2cInv
<1>2. CASE /\ bus' = [I!Ours("none") EXCEPT !.ev = @ \cup {"cmpl"}]
           /\ i2cCall' = [i2cCall EXCEPT ![bus.who].nack = TRUE]
           /\ i2cOdd' = i2cOdd \cup (IF Len(bus.msgs) < i2cCall[bus.who].asked THEN {"restartNack"} ELSE {})
  <2> DEFINE ev  == bus.ev \cup {"cmpl"}
             odd == IF Len(bus.msgs) < i2cCall[bus.who].asked THEN {"restartNack"} ELSE {}
             c   == [i2cCall[bus.who] EXCEPT !.nack = TRUE]
  <2>1. bus' = [bus EXCEPT !.cmd = "none", !.ev = ev] /\ ev \in SUBSET {"hit", "cmpl"}
    BY <1>2, I2cTypes DEF I!Ours, Buses
  <2>2. i2cOdd' = i2cOdd \cup odd /\ odd \in SUBSET {"restartNack"}
    BY <1>2
  <2>3. /\ c \in Calls /\ c.pc = i2cCall[bus.who].pc /\ c.asked = i2cCall[bus.who].asked
        /\ c.moved = i2cCall[bus.who].moved /\ c.nack = TRUE
    BY <1>w, I2cTypes DEF Calls
  <2> HIDE DEF ev, c
  <2>4. /\ bus' \in Buses /\ bus'.who = bus.who /\ bus'.msgs = bus.msgs /\ bus'.cmd = "none" /\ bus'.ev = ev
        /\ bus'.irqs = bus.irqs /\ bus'.status = bus.status /\ bus'.sem = bus.sem /\ bus'.dir = bus.dir
    BY <2>1, I2cTypes DEF Buses
  <2>5. /\ i2cCall' \in [I2cThreads -> Calls] /\ i2cCall'[bus.who] = c
        /\ \A u \in I2cThreads : u # bus.who => i2cCall'[u] = i2cCall[u]
    BY <1>2, <1>w, <2>3, I2cTypes DEF c
  <2>6. \A u \in I2cThreads : i2cCall'[u].pc = i2cCall[u].pc /\ i2cCall'[u].moved = i2cCall[u].moved
    BY <2>3, <2>5
  <2>7. I!TypeOK'
    BY <1>0, <2>2, <2>4, <2>5, I2cTypes, I2cTypeOK DEF Oddities
  <2>8. InMutex'
    BY <1>0, <2>2, <2>6 DEF I2cInv, InMutex, I!InCall
  <2>9. Fits'
    <3>1. i2cCall'[bus.who].moved + Len(bus.msgs) <= MaxMsgs + 0
      BY <1>0, <1>w, <2>6 DEF I2cInv, Fits
    <3>2. i2cCall'[bus.who].moved \in 0..MaxMsgs /\ Len(bus.msgs) \in 0..MaxMsgs /\ MaxMsgs \in Nat
      BY <1>w, <2>5, I2cTypes, I2cAssumption DEF Calls, I2cAssumption
    <3>3. i2cCall'[bus.who].moved + Len(bus.msgs) <= MaxMsgs + 1
      BY <3>1, <3>2
    <3> QED BY <1>w, <2>4, <3>3 DEF Fits
  <2>10. ASSUME i2cOdd' = {} PROVE InStep'
    <3>1. ~Silent(bus) /\ i2cOdd = {} /\ odd = {}
      BY <1>0, <2>2, <2>10 DEF Silent
    <3>2. PICK t \in I2cThreads : /\ I!InCall(t, "wait") /\ bus.who = t /\ Phase(bus, i2cCall[t])
                                  /\ \A u \in I2cThreads : I!InCall(u, "wait") => u = t
      BY <3>1, I2cWaiter
    <3>3. Starting(bus, i2cCall[t])
      BY <1>0, <3>2 DEF Phase, Moving, Ended, Ready, Silent
    <3>4. bus.status = "idle"
      <4>1. ~(Len(bus.msgs) < i2cCall[t].asked)
        BY <3>1, <3>2
      <4>2. Len(bus.msgs) <= i2cCall[t].asked
        BY <3>2 DEF Phase
      <4>3. Len(bus.msgs) \in 0..MaxMsgs /\ i2cCall[t].asked \in 0..MaxMsgs /\ MaxMsgs \in Nat
        BY I2cTypes, I2cAssumption DEF Calls, I2cAssumption
      <4> QED BY <3>3, <4>1, <4>2, <4>3 DEF Starting
    <3>5. Ended(bus', c)
      BY <2>3, <2>4, <3>3, <3>4 DEF Starting, Ended, ev
    <3>6. Phase(bus', i2cCall'[t])
      BY <2>3, <2>4, <2>5, <3>2, <3>5 DEF Phase
    <3> QED BY <2>4, <2>6, <3>2, <3>6, I2cPhased
  <2>11. InStep'
    BY <2>10 DEF InStep
  <2>12. I!I2cResultIsOwn'
    BY <2>2, I2cExcused DEF I2cInv
  <2> QED BY <2>7, <2>8, <2>9, <2>11, <2>12 DEF I2cInv
<1> QED BY <1>1, <1>2 DEF I!AddressPhase

LEMMA I2cData == ASSUME I2cInv, I!Data PROVE I2cInv'
<1> DEFINE todo == bus.todo - 1
           fifo == IF bus.dir = "read" THEN bus.fifo + 1 ELSE bus.fifo - 1
<1>1. /\ bus.cmd = "data" /\ bus.todo > 0 /\ bus.fifo # (IF bus.dir = "read" THEN I!Depth ELSE 0)
      /\ bus' = [bus EXCEPT !.todo = todo, !.fifo = fifo]
      /\ i2cCall' = i2cCall /\ i2cMutex' = i2cMutex /\ target' = target /\ i2cOdd' = i2cOdd
  BY DEF I!Data
<1>2. todo \in 0..MaxLoad /\ fifo \in 0..I!Depth
  <2>1. bus.todo \in 0..MaxLoad /\ bus.fifo \in 0..2 /\ I!Depth = 2 /\ MaxLoad \in Nat
    BY I2cTypes, I2cAssumption DEF Buses, I!Depth, I2cAssumption
  <2> QED BY <1>1, <2>1
<1> HIDE DEF todo, fifo
<1>3. /\ bus' \in Buses /\ bus'.who = bus.who /\ bus'.msgs = bus.msgs /\ bus'.cmd = bus.cmd /\ bus'.ev = bus.ev
      /\ bus'.irqs = bus.irqs /\ bus'.status = bus.status /\ bus'.sem = bus.sem /\ bus'.dir = bus.dir
  BY <1>1, <1>2, I2cTypes DEF Buses
<1>4. I!TypeOK'
  BY <1>1, <1>3, I2cTypes, I2cTypeOK
<1>5. InMutex'
  BY <1>1 DEF I2cInv, InMutex, I!InCall
<1>6. Fits'
  BY <1>1, <1>3, I2cKeepsFits
<1>7. ASSUME i2cOdd = {} PROVE InStep'
  <2>1. ~Silent(bus)
    BY <1>1 DEF Silent
  <2>2. PICK t \in I2cThreads : /\ I!InCall(t, "wait") /\ bus.who = t /\ Phase(bus, i2cCall[t])
                                /\ \A u \in I2cThreads : I!InCall(u, "wait") => u = t
    BY <1>7, <2>1, I2cWaiter
  <2>3. Moving(bus, i2cCall[t])
    BY <1>1, <2>2 DEF Phase, Starting, Ended, Ready, Silent
  <2>4. bus.dir = "write" => bus.fifo # 0
    BY DEF I!Data
  <2>5. Moving(bus', i2cCall[t])
    BY <1>3, <2>3, <2>4 DEF Moving, Addressed, Left
  <2>6. Phase(bus', i2cCall'[t])
    BY <1>1, <1>3, <2>2, <2>5 DEF Phase
  <2> QED BY <1>1, <1>3, <2>2, <2>6, I2cPhased
<1>8. InStep'
  BY <1>1, <1>7 DEF InStep
<1>9. I!I2cResultIsOwn'
  BY <1>1, I2cExcused DEF I2cInv
<1> QED BY <1>4, <1>5, <1>6, <1>8, <1>9 DEF I2cInv

LEMMA I2cDataEnds == ASSUME I2cInv, I!DataEnds PROVE I2cInv'
<1> DEFINE ev == bus.ev \cup {"cmpl"}
           w  == bus.who
           m  == I!Lesser(i2cCall[w].moved + 1, MaxMsgs)
           c  == [i2cCall[w] EXCEPT !.moved = m]
<1>1. bus.cmd = "data" /\ bus' = [I!Ours("none") EXCEPT !.ev = @ \cup {"cmpl"}] /\ i2cMutex' = i2cMutex
      /\ target' = target
  BY DEF I!DataEnds
<1>2. \/ i2cOdd' = i2cOdd \cup {"dataNack"} /\ i2cCall' = i2cCall
      \/ i2cOdd' = i2cOdd /\ i2cCall' = [i2cCall EXCEPT ![w] = c]
  BY DEF I!DataEnds
<1>3. bus' = [bus EXCEPT !.cmd = "none", !.ev = ev] /\ ev \in SUBSET {"hit", "cmpl"}
  BY <1>1, I2cTypes DEF I!Ours, Buses
<1> HIDE DEF ev
<1>4. /\ bus' \in Buses /\ bus'.who = bus.who /\ bus'.msgs = bus.msgs /\ bus'.cmd = "none" /\ bus'.ev = ev
      /\ bus'.irqs = bus.irqs /\ bus'.status = bus.status /\ bus'.sem = bus.sem /\ bus'.dir = bus.dir
  BY <1>3, I2cTypes DEF Buses
<1>5. w \in I2cThreads /\ i2cCall[w].moved + Len(bus.msgs) <= MaxMsgs + 0
  BY <1>1 DEF I2cInv, Fits, Moves
<1>6. i2cCall[w] \in Calls /\ i2cCall[w].moved \in 0..MaxMsgs /\ Len(bus.msgs) \in 0..MaxMsgs /\ MaxMsgs \in Nat
  BY <1>5, I2cTypes, I2cAssumption DEF Calls, I2cAssumption
<1>7. m \in 0..MaxMsgs /\ (m = i2cCall[w].moved + 1 \/ (m = i2cCall[w].moved /\ m = MaxMsgs))
  BY <1>6 DEF I!Lesser
<1> HIDE DEF m, w
<1>8. c \in Calls /\ c.pc = i2cCall[w].pc /\ c.asked = i2cCall[w].asked /\ c.moved = m /\ c.nack = i2cCall[w].nack
  BY <1>6, <1>7 DEF Calls
<1> HIDE DEF c
<1>9. /\ i2cCall' \in [I2cThreads -> Calls] /\ i2cCall'[w] \in {c, i2cCall[w]}
      /\ i2cOdd' = {} => i2cCall'[w] = c
      /\ \A u \in I2cThreads : u # w => i2cCall'[u] = i2cCall[u]
  BY <1>2, <1>5, <1>8, I2cTypes
<1>10. \A u \in I2cThreads : i2cCall'[u].pc = i2cCall[u].pc
  BY <1>8, <1>9
<1>11. i2cOdd \subseteq i2cOdd' /\ i2cOdd' \subseteq i2cOdd \cup {"dataNack"}
  BY <1>2
<1>12. I!TypeOK'
  <2>1. i2cOdd' \subseteq Oddities
    BY <1>11, I2cTypes DEF Oddities
  <2> QED BY <1>1, <1>4, <1>9, <2>1, I2cTypes, I2cTypeOK
<1>13. InMutex'
  BY <1>1, <1>10, <1>11 DEF I2cInv, InMutex, I!InCall
<1>14. Fits'
  <2>1. i2cCall'[w].moved \in {m, i2cCall[w].moved}
    BY <1>8, <1>9
  <2>2. i2cCall'[w].moved + Len(bus.msgs) <= MaxMsgs + 1
    <3> DEFINE k == i2cCall[w].moved
               l == Len(bus.msgs)
    <3>1. k \in Nat /\ l \in Nat /\ MaxMsgs \in Nat /\ k + l <= MaxMsgs + 0 /\ (m = k + 1 \/ m = k)
      BY <1>5, <1>6, <1>7
    <3> HIDE DEF k, l
    <3>2. k + l <= MaxMsgs + 1 /\ m + l <= MaxMsgs + 1
      BY <3>1
    <3> QED BY <2>1, <3>2 DEF k, l
  <2> QED BY <1>4, <1>5, <2>2 DEF Fits, Moves, w
<1>15. ASSUME i2cOdd' = {} PROVE InStep'
  <2>1. ~Silent(bus) /\ i2cOdd = {}
    BY <1>1, <1>11, <1>15 DEF Silent
  <2>2. PICK t \in I2cThreads : /\ I!InCall(t, "wait") /\ bus.who = t /\ Phase(bus, i2cCall[t])
                                /\ \A u \in I2cThreads : I!InCall(u, "wait") => u = t
    BY <2>1, I2cWaiter
  <2>3. Moving(bus, i2cCall[t]) /\ w = t /\ i2cCall'[t] = c
    BY <1>1, <1>9, <1>15, <2>2 DEF Phase, Starting, Ended, Ready, Silent, w
  <2>4. Left(bus', c) >= IF bus'.msgs = <<>> THEN 0 ELSE 1
    <3>1. Left(bus, i2cCall[t]) >= 0 /\ i2cCall[t].asked \in 0..MaxMsgs
      BY <2>2, <2>3, I2cTypes DEF Moving, Calls
    <3>2. (bus.msgs = <<>>) <=> (Len(bus.msgs) = 0)
      BY I2cSeq, I2cTypes DEF Buses
    <3>3. Left(bus', c) = m + Len(bus.msgs) - i2cCall[t].asked
      BY <1>4, <1>8, <2>3 DEF Left
    <3>4. Left(bus, i2cCall[t]) = i2cCall[t].moved + Len(bus.msgs) - i2cCall[t].asked
      BY DEF Left
    <3>5. bus'.msgs = bus.msgs
      BY <1>4
    <3> QED BY <1>5, <1>6, <1>7, <2>3, <3>1, <3>2, <3>3, <3>4, <3>5
  <2>5. Ended(bus', c)
    BY <1>4, <1>8, <2>3, <2>4 DEF Moving, Ended, Addressed, ev
  <2>6. Phase(bus', i2cCall'[t])
    BY <1>4, <1>8, <2>2, <2>3, <2>5 DEF Phase
  <2> QED BY <1>4, <1>10, <2>2, <2>6, I2cPhased
<1>16. InStep'
  BY <1>15 DEF InStep
<1>17. I!I2cResultIsOwn'
  BY <1>11, I2cExcused DEF I2cInv
<1> QED BY <1>12, <1>13, <1>14, <1>16, <1>17 DEF I2cInv

(* The end of a STOP, and of a transaction of another master.               *)
LEMMA I2cStopEnds == ASSUME I2cInv, I!StopEnds \/ I!RemoteEnds PROVE I2cInv'
<1> DEFINE ev == bus.ev \cup {"cmpl"}
<1>1. /\ bus.cmd \in {"stop", "remote"} /\ bus' = [I!Ours("none") EXCEPT !.ev = @ \cup {"cmpl"}]
      /\ i2cCall' = i2cCall /\ i2cMutex' = i2cMutex /\ target' = target /\ i2cOdd' = i2cOdd
  BY DEF I!StopEnds, I!RemoteEnds
<1>2. bus' = [bus EXCEPT !.cmd = "none", !.ev = ev] /\ ev \in SUBSET {"hit", "cmpl"}
  BY <1>1, I2cTypes DEF I!Ours, Buses
<1> HIDE DEF ev
<1>3. /\ bus' \in Buses /\ bus'.who = bus.who /\ bus'.msgs = bus.msgs /\ bus'.cmd = "none" /\ bus'.ev = ev
      /\ bus'.irqs = bus.irqs /\ bus'.status = bus.status /\ bus'.sem = bus.sem
  BY <1>2, I2cTypes DEF Buses
<1>4. I!TypeOK'
  BY <1>1, <1>3, I2cTypes, I2cTypeOK
<1>5. InMutex'
  BY <1>1 DEF I2cInv, InMutex, I!InCall
<1>6. Fits'
  BY <1>1, <1>3, I2cKeepsFits DEF Moves
<1>7. ASSUME i2cOdd = {} PROVE InStep'
  <2>1. Silent(bus) => Silent(bus')
    BY <1>3 DEF Silent, ev
  <2>2. \A u \in I2cThreads : Phase(bus, i2cCall[u]) => Phase(bus', i2cCall[u])
    <3> SUFFICES ASSUME NEW u \in I2cThreads, Phase(bus, i2cCall[u]) PROVE Phase(bus', i2cCall[u])
      OBVIOUS
    <3>1. Ready(bus, i2cCall[u]) /\ Len(bus.msgs) <= i2cCall[u].asked
      BY <1>1 DEF Phase, Starting, Moving, Ended
    <3>2. Ready(bus', i2cCall[u])
      BY <1>3, <2>1, <3>1 DEF Ready, Told
    <3> QED BY <1>3, <3>1, <3>2 DEF Phase
  <2> QED BY <1>1, <1>3, <1>7, <2>1, <2>2 DEF I2cInv, InStep, I!InCall, Told
<1>8. InStep'
  BY <1>1, <1>7 DEF InStep
<1>9. I!I2cResultIsOwn'
  BY <1>1, I2cExcused DEF I2cInv
<1> QED BY <1>4, <1>5, <1>6, <1>8, <1>9 DEF I2cInv

(* Another master, which is there only once a target is registered.         *)
LEMMA I2cRemote == ASSUME I2cInv, I!RemoteBegins \/ I!RemoteData PROVE I2cInv'
<1>1. /\ bus' \in Buses /\ bus'.who = bus.who /\ bus'.msgs = bus.msgs /\ bus'.cmd = "remote" /\ bus.cmd # "start"
      /\ i2cCall' = i2cCall /\ i2cMutex' = i2cMutex /\ target' = target /\ i2cOdd' = i2cOdd
      /\ target # NoI2c \/ bus.cmd = "remote"
  <2>1. CASE I!RemoteBegins
    <3> DEFINE ev == bus.ev \cup {"hit"}
    <3>1. PICK dir \in {"read", "write"} :
             bus' = [I!Ours("remote") EXCEPT !.ev = @ \cup {"hit"}, !.dir = dir, !.fifo = 0, !.todo = 0]
      BY <2>1 DEF I!RemoteBegins
    <3>2. /\ bus' = [bus EXCEPT !.cmd = "remote", !.ev = ev, !.dir = dir, !.fifo = 0, !.todo = 0]
          /\ ev \in SUBSET {"hit", "cmpl"} /\ 0 \in 0..MaxLoad /\ 0 \in 0..I!Depth
      BY <3>1, I2cTypes, I2cAssumption DEF I!Ours, Buses, I!Depth, I2cAssumption
    <3> HIDE DEF ev
    <3>3. bus' \in Buses /\ bus'.who = bus.who /\ bus'.msgs = bus.msgs /\ bus'.cmd = "remote"
      BY <3>2, I2cTypes DEF Buses
    <3> QED BY <2>1, <3>3 DEF I!RemoteBegins
  <2>2. CASE I!RemoteData
    <3> DEFINE fifo == bus.fifo + 1
    <3>1. bus' = [bus EXCEPT !.fifo = fifo] /\ fifo \in 0..I!Depth /\ bus.cmd = "remote"
      BY <2>2, I2cTypes DEF I!RemoteData, I!Depth, Buses
    <3> HIDE DEF fifo
    <3>2. bus' \in Buses /\ bus'.who = bus.who /\ bus'.msgs = bus.msgs /\ bus'.cmd = "remote"
      BY <3>1, I2cTypes DEF Buses
    <3> QED BY <2>2, <3>2 DEF I!RemoteData
  <2> QED BY <2>1, <2>2
<1>2. I!TypeOK'
  BY <1>1, I2cTypes, I2cTypeOK
<1>3. InMutex'
  BY <1>1 DEF I2cInv, InMutex, I!InCall
<1>4. Fits'
  BY <1>1, I2cKeepsFits DEF Moves
<1>5. i2cOdd # {}
  <2>1. ASSUME i2cOdd = {} PROVE bus.cmd # "remote" /\ target = NoI2c
    <3>1. target = NoI2c
      BY <2>1 DEF I2cInv, InMutex
    <3>2. CASE Silent(bus)
      BY <3>1, <3>2 DEF Silent
    <3>3. CASE ~Silent(bus)
      <4>1. PICK t \in I2cThreads : Phase(bus, i2cCall[t])
        BY <2>1, <3>3, I2cWaiter
      <4> QED BY <3>1, <4>1 DEF Phase, Starting, Moving, Ended, Ready, Silent
    <3> QED BY <3>2, <3>3
  <2> QED BY <1>1, <2>1
<1>6. InStep' /\ I!I2cResultIsOwn'
  BY <1>1, <1>5, I2cExcused DEF I2cInv, InStep
<1> QED BY <1>2, <1>3, <1>4, <1>6 DEF I2cInv
-------------------------------------------------------------------------------
(* The interrupt: its stages h (address), x (transmit), v (receive) and the *)
(* state it ends in, r.  A message leaves msgs before the next is issued.   *)
LEMMA I2cShorter ==
  ASSUME NEW b \in Buses, NEW r \in Buses, r.msgs = b.msgs \/ (b.msgs # <<>> /\ r.msgs = Tail(b.msgs))
  PROVE  /\ Len(r.msgs) <= Len(b.msgs) /\ Len(b.msgs) \in Nat /\ Len(r.msgs) \in Nat
         /\ r.msgs # b.msgs => Len(r.msgs) < Len(b.msgs)
         /\ b.msgs # <<>> /\ r.msgs = Tail(b.msgs) => Len(r.msgs) = Len(b.msgs) - 1
BY I2cSeq DEF Buses

LEMMA I2cIsrStages ==
  ASSUME I2cInv, I!Isr
  PROVE  \E h, x, v \in Buses :
            /\ h = I!AddressHit(bus)
            /\ x = I!Transmit(h, bus.fifo = 0 /\ "empty" \in bus.irqs)
            /\ v = I!Receive(x, I!Full(bus))
            /\ bus' = I!Complete(v, "cmpl" \in bus.ev)
            /\ bus' \in Buses /\ bus'.who = bus.who
            /\ Len(bus'.msgs) \in 0..Len(bus.msgs)
            /\ bus'.msgs # bus.msgs => Len(bus'.msgs) < Len(bus.msgs)
            /\ bus'.cmd \in Moves => bus'.cmd = bus.cmd \/ bus'.msgs # bus.msgs
<1> DEFINE empty == bus.fifo = 0 /\ "empty" \in bus.irqs
           cmpl  == "cmpl" \in bus.ev
           full  == I!Full(bus)
           h == I!AddressHit(bus)
           x == I!Transmit(h, empty)
           v == I!Receive(x, full)
           r == I!Complete(v, cmpl)
<1>1. bus' = r
  BY DEF I!Isr
<1>2. bus \in Buses /\ empty \in BOOLEAN /\ cmpl \in BOOLEAN /\ full \in BOOLEAN
  BY I2cTypes DEF I!Full
<1> HIDE DEF empty, cmpl, full
<1>3. h \in Buses /\ h.who = bus.who /\ h.msgs = bus.msgs /\ h.cmd \in {bus.cmd, "stop"}
  BY <1>2, I2cHitStage
<1> HIDE DEF h
<1>4. x \in Buses /\ x.who = h.who /\ x.msgs = h.msgs /\ x.cmd = h.cmd
  BY <1>2, <1>3, I2cTransmitStage
<1> HIDE DEF x
<1>5. /\ v \in Buses /\ v.who = x.who
      /\ \/ v.msgs = x.msgs /\ v.cmd = x.cmd
         \/ x.msgs # <<>> /\ v.msgs = Tail(x.msgs)
  BY <1>2, <1>4, I2cReceiveStage DEF Received
<1> HIDE DEF v
<1>6. /\ r \in Buses /\ r.who = v.who
      /\ \/ r.msgs = v.msgs /\ r.cmd = v.cmd
         \/ v.msgs # <<>> /\ r.msgs = Tail(v.msgs)
  <2>1. r \in Buses /\ r.who = v.who /\ (~cmpl => r = v)
    BY <1>2, <1>5, I2cCompleteStage DEF Completed
  <2>2. CASE cmpl
    BY <1>2, <1>5, <2>1, <2>2, I2cCompleteStage DEF Completed
  <2> QED BY <2>1, <2>2
<1> HIDE DEF r
<1>7. /\ Len(v.msgs) <= Len(bus.msgs) /\ Len(bus.msgs) \in Nat /\ Len(v.msgs) \in Nat
      /\ v.msgs # bus.msgs => Len(v.msgs) < Len(bus.msgs)
  BY <1>3, <1>4, <1>5, I2cShorter
<1>8. /\ Len(r.msgs) <= Len(v.msgs) /\ Len(r.msgs) \in Nat
      /\ r.msgs # v.msgs => Len(r.msgs) < Len(v.msgs)
      /\ v.msgs # <<>> /\ r.msgs = Tail(v.msgs) => Len(r.msgs) < Len(v.msgs)
  BY <1>5, <1>6, I2cShorter
<1>9. Len(r.msgs) \in 0..Len(bus.msgs) /\ (r.msgs # bus.msgs => Len(r.msgs) < Len(bus.msgs))
  BY <1>7, <1>8
<1>10. x.msgs # <<>> /\ v.msgs = Tail(x.msgs) => v.msgs # x.msgs
  BY <1>4, I2cSeq DEF Buses
<1>11. r.msgs = bus.msgs => r.msgs = v.msgs /\ v.msgs = bus.msgs
  BY <1>7, <1>8
<1>12. v.msgs # <<>> /\ r.msgs = Tail(v.msgs) => r.msgs # v.msgs
  BY <1>5, I2cSeq DEF Buses
<1>13. r.cmd \in Moves => r.cmd = bus.cmd \/ r.msgs # bus.msgs
  BY <1>3, <1>4, <1>5, <1>6, <1>10, <1>11, <1>12 DEF Moves
<1> QED BY <1>1, <1>3, <1>4, <1>5, <1>6, <1>9, <1>13 DEF h, x, v, r, empty, cmpl, full

(* What the interrupt does to the call it works for.                        *)
LEMMA I2cIsrCall ==
  ASSUME I2cInv, I!Isr
  PROVE  /\ i2cCall' \in [I2cThreads -> Calls]
         /\ \A u \in I2cThreads : /\ i2cCall'[u].pc = i2cCall[u].pc /\ i2cCall'[u].asked = i2cCall[u].asked
                                  /\ i2cCall'[u].nack = i2cCall[u].nack
         /\ bus.who \in I2cThreads => i2cCall'[bus.who].moved =
              i2cCall[bus.who].moved + (IF bus'.msgs # bus.msgs /\ bus.cmd = "data" THEN 1 ELSE 0)
<1>1. CASE bus'.msgs # bus.msgs /\ bus.cmd = "data"
  <2> DEFINE w == bus.who
             m == i2cCall[w].moved + 1
             c == [i2cCall[w] EXCEPT !.moved = m]
  <2>1. i2cCall' = [i2cCall EXCEPT ![w] = c]
    BY <1>1 DEF I!Isr
  <2>2. w \in I2cThreads /\ i2cCall[w].moved + Len(bus.msgs) <= MaxMsgs + 0
    BY <1>1 DEF I2cInv, Fits, Moves
  <2>3. Len(bus.msgs) \in Nat /\ Len(bus.msgs) > 0
    <3>1. PICK r \in Buses : r = bus' /\ Len(bus'.msgs) \in 0..Len(bus.msgs) /\ Len(bus'.msgs) < Len(bus.msgs)
      BY <1>1, I2cIsrStages
    <3> QED BY <3>1, I2cTypes
  <2>4. i2cCall[w] \in Calls /\ i2cCall[w].moved \in 0..MaxMsgs /\ MaxMsgs \in Nat
    BY <2>2, I2cTypes, I2cAssumption DEF Calls, I2cAssumption
  <2>5. m \in 0..MaxMsgs
    BY <2>2, <2>3, <2>4
  <2> HIDE DEF m, w
  <2>6. c \in Calls /\ c.pc = i2cCall[w].pc /\ c.asked = i2cCall[w].asked /\ c.moved = m /\ c.nack = i2cCall[w].nack
    BY <2>4, <2>5 DEF Calls
  <2> HIDE DEF c
  <2>7. /\ i2cCall' \in [I2cThreads -> Calls] /\ i2cCall'[w] = c
        /\ \A u \in I2cThreads : u # w => i2cCall'[u] = i2cCall[u]
    BY <2>1, <2>2, <2>6, I2cTypes
  <2>8. \A u \in I2cThreads : /\ i2cCall'[u].pc = i2cCall[u].pc /\ i2cCall'[u].asked = i2cCall[u].asked
                              /\ i2cCall'[u].nack = i2cCall[u].nack
    BY <2>6, <2>7
  <2> QED BY <1>1, <2>6, <2>7, <2>8 DEF w, m
<1>2. CASE ~(bus'.msgs # bus.msgs /\ bus.cmd = "data")
  <2>1. i2cCall' = i2cCall
    BY <1>2 DEF I!Isr
  <2>2. bus.who \in I2cThreads => i2cCall[bus.who].moved \in Nat
    BY I2cTypes, I2cAssumption DEF Calls, I2cAssumption
  <2> QED BY <1>2, <2>1, <2>2, I2cTypes
<1> QED BY <1>1, <1>2

LEMMA I2cIsrFits == ASSUME I2cInv, I!Isr PROVE Fits'
<1>1. /\ bus'.who = bus.who /\ Len(bus'.msgs) \in 0..Len(bus.msgs)
      /\ bus'.msgs # bus.msgs => Len(bus'.msgs) < Len(bus.msgs)
      /\ bus'.cmd \in Moves => bus'.cmd = bus.cmd \/ bus'.msgs # bus.msgs
  BY I2cIsrStages
<1>2. Len(bus.msgs) \in 0..MaxMsgs /\ MaxMsgs \in Nat /\ bus \in Buses /\ bus' \in Buses
  BY I2cTypes, I2cAssumption, I2cIsrStages DEF I2cAssumption
<1>3. (bus.msgs = <<>>) <=> (Len(bus.msgs) = 0)
  BY <1>2, I2cSeq DEF Buses
<1>4. (bus'.msgs = <<>>) <=> (Len(bus'.msgs) = 0)
  BY <1>2, I2cSeq DEF Buses
<1>5. bus'.cmd \in Moves \/ bus'.msgs # <<>> => bus.who \in I2cThreads
  <2>1. bus'.cmd \in Moves \/ bus'.msgs # <<>> => bus.cmd \in Moves \/ bus.msgs # <<>>
    BY <1>1, <1>2, <1>3, <1>4
  <2> QED BY <2>1 DEF I2cInv, Fits
<1>6. ASSUME bus.who \in I2cThreads
      PROVE  i2cCall'[bus.who].moved + Len(bus'.msgs) <= MaxMsgs + (IF bus'.cmd \in Moves THEN 0 ELSE 1)
  <2> DEFINE k == i2cCall[bus.who].moved
             k2 == i2cCall'[bus.who].moved
             l == Len(bus.msgs)
             l2 == Len(bus'.msgs)
             top == IF bus.cmd \in Moves THEN 0 ELSE 1
             top2 == IF bus'.cmd \in Moves THEN 0 ELSE 1
  <2>1. k + l <= MaxMsgs + top
    BY <1>6 DEF I2cInv, Fits
  <2>2. k2 = k + (IF bus'.msgs # bus.msgs /\ bus.cmd = "data" THEN 1 ELSE 0)
    BY <1>6, I2cIsrCall
  <2>3. k \in Nat /\ l \in Nat /\ l2 \in Nat /\ l2 <= l
    BY <1>1, <1>2, <1>6, I2cTypes, I2cAssumption DEF Calls, I2cAssumption
  <2>4. CASE bus'.msgs = bus.msgs
    <3>1. k2 = k + 0 /\ l2 = l /\ top2 \in 0..1 /\ top2 >= top
      BY <1>1, <2>2, <2>4 DEF Moves
    <3> HIDE DEF k, k2, l, l2, top2, top
    <3>2. k2 + l2 <= MaxMsgs + top2
      BY <1>2, <2>1, <2>3, <3>1 DEF top
    <3> QED BY <3>2 DEF k2, l2, top2
  <2>5. CASE bus'.msgs # bus.msgs
    <3>1. k2 = k + (IF bus.cmd = "data" THEN 1 ELSE 0) /\ l2 < l /\ top2 \in 0..1 /\ top \in 0..1
          /\ (bus.cmd = "data" => top = 0)
      BY <1>1, <2>2, <2>5 DEF Moves
    <3> HIDE DEF k, k2, l, l2, top2, top
    <3>2. k2 + l2 <= MaxMsgs + top2
      <4>1. CASE bus.cmd = "data"
        BY <1>2, <2>1, <2>3, <3>1, <4>1
      <4>2. CASE bus.cmd # "data"
        BY <1>2, <2>1, <2>3, <3>1, <4>2
      <4> QED BY <4>1, <4>2
    <3> QED BY <3>2 DEF k2, l2, top2
  <2> QED BY <2>4, <2>5
<1> QED BY <1>1, <1>5, <1>6 DEF Fits

(* A transaction under way: the interrupt leaves it so, or a message read   *)
(* to its end has the next one issued.                                      *)
LEMMA I2cIsrMoving ==
  ASSUME I2cInv, I!Isr, target = NoI2c, NEW t \in I2cThreads, bus.who = t,
         Moving(bus, i2cCall[t]), Len(bus.msgs) <= i2cCall[t].asked
  PROVE  Phase(bus', i2cCall'[t])
<1> DEFINE c == i2cCall[t]
           d == i2cCall'[t]
           empty == bus.fifo = 0 /\ "empty" \in bus.irqs
           full  == I!Full(bus)
           cmpl  == "cmpl" \in bus.ev
<1>1. PICK h, x, v \in Buses :
            /\ h = I!AddressHit(bus) /\ x = I!Transmit(h, empty) /\ v = I!Receive(x, full)
            /\ bus' = I!Complete(v, cmpl)
  BY I2cIsrStages
<1>2. /\ bus \in Buses /\ bus.cmd = "data" /\ bus.sem = 0 /\ "cmpl" \notin bus.ev /\ ~c.nack /\ Addressed(bus)
      /\ Left(bus, c) >= 0 /\ bus.ev \in SUBSET {"hit", "cmpl"} /\ bus.dir \in {"read", "write"}
      /\ bus.dir = "read" => "empty" \notin bus.irqs
      /\ bus.msgs # <<>> => bus.dir = Head(bus.msgs).dir
      /\ bus.dir = "write" => "full" \notin bus.irqs
      /\ "hit" \in bus.ev => bus.msgs # <<>> /\ (bus.dir = "write" => bus.fifo = 0)
  BY I2cTypes DEF Moving, Buses
<1>f. I!Full(bus) => bus.dir = "read"
  <2>1. (bus.ev \cap bus.irqs) # {} \/ bus.fifo = 0 \/ (I!Full(bus) /\ "full" \in bus.irqs)
    BY DEF I!Isr
  <2>2. I!Full(bus) => bus.fifo # 0
    BY DEF I!Full, I!Depth
  <2> QED BY <1>2, <2>1, <2>2
<1>3. empty \in BOOLEAN /\ full \in BOOLEAN /\ cmpl \in BOOLEAN /\ (full => bus.dir = "read") /\ ~cmpl
  BY <1>2, <1>f DEF I!Full
<1> HIDE DEF empty, full, cmpl, c, d
<1>4. /\ h.status = "hit" /\ h.ev = {} /\ h.cmd = "data" /\ h.sem = 0 /\ h.dir = bus.dir /\ h.msgs = bus.msgs
      /\ h.dir = "read" => "empty" \notin h.irqs
      /\ h.dir = "write" => "full" \notin h.irqs
  <2>1. h.msgs = bus.msgs /\ h.dir = bus.dir
    BY <1>1, <1>2, I2cHitStage
  <2>2. CASE "hit" \in bus.ev
    <3>1. "hit" \in bus.ev \cap bus.irqs
      BY <1>2, <2>2 DEF Addressed
    <3>2. /\ h.status = "hit" /\ h.ev = bus.ev \ {"hit"} /\ h.cmd = bus.cmd /\ h.sem = bus.sem
          /\ h.irqs = bus.irqs \cup (IF bus.msgs # <<>> /\ Head(bus.msgs).dir = "write" THEN {"empty"} ELSE {"full"})
      BY <1>1, <1>2, <3>1, I2cHitStage
    <3>3. h.ev = {}
      BY <1>2, <3>2
    <3>4. (h.dir = "read" => "empty" \notin h.irqs) /\ (h.dir = "write" => "full" \notin h.irqs)
      BY <2>2, <1>2, <2>1, <3>2
    <3> QED BY <1>2, <2>1, <3>2, <3>3, <3>4
  <2>3. CASE "hit" \notin bus.ev
    <3>1. "hit" \notin bus.ev \cap bus.irqs /\ bus.status = "hit"
      BY <1>2, <2>3 DEF Addressed
    <3>2. h = bus
      BY <1>1, <1>2, <3>1, I2cHitStage
    <3> QED BY <1>2, <2>3, <3>1, <3>2
  <2> QED BY <2>2, <2>3
<1>5. /\ x.status = "hit" /\ x.ev = {} /\ x.cmd = "data" /\ x.sem = 0 /\ x.dir = bus.dir /\ x.msgs = bus.msgs
      /\ x.dir = "read" => "empty" \notin x.irqs
      /\ x.dir = "write" => "full" \notin x.irqs
  <2>1. /\ x.status = h.status /\ x.ev = h.ev /\ x.cmd = h.cmd /\ x.sem = h.sem /\ x.dir = h.dir
        /\ x.msgs = h.msgs /\ x.irqs \subseteq h.irqs
    BY <1>1, <1>3, I2cTransmitStage
  <2> QED BY <1>4, <2>1
<1>r. Received(x, full, v)
  BY <1>1, <1>3, I2cReceiveStage
<1>6. bus' = v
  BY <1>1, <1>3, I2cCompleteStage DEF Completed
<1>7. v.status = "hit" /\ v.sem = 0 /\ (full \/ v = x)
  BY <1>r, <1>5 DEF Received
<1>8. /\ d.nack = c.nack /\ d.asked = c.asked
      /\ d.moved = c.moved + (IF v.msgs # bus.msgs THEN 1 ELSE 0)
  BY <1>2, <1>6, I2cIsrCall DEF c, d
<1>9. c.moved \in Nat /\ c.asked \in Nat /\ Len(bus.msgs) \in Nat
  BY I2cTypes, I2cAssumption DEF Calls, I2cAssumption, c
<1>10. CASE v.msgs = x.msgs /\ v.dir = x.dir /\ v.cmd = x.cmd /\ v.ev = x.ev /\ v.irqs = x.irqs
  <2>1. v.msgs = bus.msgs /\ d.moved = c.moved
    BY <1>5, <1>8, <1>9, <1>10
  <2>2. Left(v, d) >= 0 /\ Len(v.msgs) <= d.asked
    BY <1>2, <1>8, <2>1 DEF Left, c
  <2>3. Moving(v, d)
    BY <1>2, <1>5, <1>7, <1>8, <1>10, <2>1, <2>2 DEF Moving, Addressed
  <2> QED BY <1>6, <2>2, <2>3 DEF Phase, d
<1>11. CASE /\ x.msgs # <<>> /\ v.msgs = Tail(x.msgs)
            /\ \/ /\ v.msgs = <<>> /\ v.dir = x.dir /\ v.cmd = x.cmd /\ v.ev = x.ev
                  /\ v.irqs = x.irqs \ {"full"}
               \/ /\ v.msgs # <<>>
                  /\ \E n \in Buses : Issued(n, v) /\ n.msgs = v.msgs /\ n.irqs = x.irqs \ {"full"} /\ n.ev = x.ev
  <2>1. v.msgs # bus.msgs /\ Len(v.msgs) = Len(bus.msgs) - 1
    <3>1. bus.msgs \in Seq(I!Msg) /\ bus.msgs # <<>> /\ v.msgs = Tail(bus.msgs)
      BY <1>2, <1>5, <1>11 DEF Buses
    <3> QED BY <3>1, I2cSeq
  <2>2. d.moved = c.moved + 1
    BY <1>8, <2>1
  <2>3. Left(v, d) >= 0 /\ Len(v.msgs) < d.asked
    <3>1. c.moved + Len(bus.msgs) - c.asked >= 0 /\ Len(bus.msgs) <= c.asked
      BY <1>2 DEF Left, c
    <3> QED BY <1>8, <1>9, <2>1, <2>2, <3>1 DEF Left
  <2>4. bus.dir = "read" /\ "empty" \notin x.irqs
    <3>1. full
      BY <1>5, <1>7, <2>1
    <3> QED BY <1>3, <1>5, <3>1
  <2>5. CASE v.msgs = <<>> /\ v.dir = x.dir /\ v.cmd = x.cmd /\ v.ev = x.ev /\ v.irqs = x.irqs \ {"full"}
    <3>1. Moving(v, d)
      BY <1>2, <1>5, <1>7, <1>8, <2>3, <2>4, <2>5 DEF Moving, Addressed
    <3> QED BY <1>6, <1>8, <2>3, <3>1, <1>9 DEF Phase, d, Moving
  <2>6. CASE /\ v.msgs # <<>>
             /\ \E n \in Buses : Issued(n, v) /\ n.msgs = v.msgs /\ n.irqs = x.irqs \ {"full"} /\ n.ev = x.ev
    <3>1. PICK n \in Buses : Issued(n, v) /\ n.msgs = v.msgs /\ n.irqs = x.irqs \ {"full"} /\ n.ev = x.ev
      BY <2>6
    <3>2. /\ v.ev = {} /\ v.dir = Head(v.msgs).dir /\ v.fifo = 0
          /\ \/ v.cmd = "start" /\ v.irqs = n.irqs \cup {"hit", "cmpl"}
             \/ v.cmd = "data" /\ v.dir = "write" /\ v.irqs = n.irqs \cup {"empty", "cmpl"}
      BY <1>5, <3>1 DEF Issued
    <3>n. ~d.nack
      BY <1>2, <1>8
    <3>3. ASSUME v.cmd = "start", v.irqs = n.irqs \cup {"hit", "cmpl"} PROVE Starting(v, d)
      <4>1. v.irqs = {"hit", "cmpl"}
        BY <2>4, <3>1, <3>3 DEF Buses
      <4>2. v.status = IF Len(v.msgs) = d.asked THEN "idle" ELSE "hit"
        BY <1>7, <1>8, <1>9, <2>1, <2>3
      <4> QED BY <1>7, <2>3, <2>6, <3>n, <3>2, <3>3, <4>1, <4>2 DEF Starting
    <3>4. ASSUME v.cmd = "data", v.dir = "write", v.irqs = n.irqs \cup {"empty", "cmpl"} PROVE Moving(v, d)
      <4>1. Addressed(v)
        BY <1>7, <3>2 DEF Addressed
      <4>2. "full" \notin v.irqs
        BY <3>1, <3>4
      <4> QED BY <1>7, <2>3, <3>n, <3>2, <3>4, <4>1, <4>2 DEF Moving
    <3>5. Starting(v, d) \/ Moving(v, d)
      BY <3>2, <3>3, <3>4
    <3>6. Len(v.msgs) <= d.asked
      BY <1>8, <1>9, <2>1, <2>3
    <3> QED BY <1>6, <3>5, <3>6 DEF Phase, d
  <2> QED BY <1>11, <2>5, <2>6
<1>12. \/ v.msgs = x.msgs /\ v.dir = x.dir /\ v.cmd = x.cmd /\ v.ev = x.ev /\ v.irqs = x.irqs
       \/ /\ x.msgs # <<>> /\ v.msgs = Tail(x.msgs)
          /\ \/ /\ v.msgs = <<>> /\ v.dir = x.dir /\ v.cmd = x.cmd /\ v.ev = x.ev
                /\ v.irqs = x.irqs \ {"full"}
             \/ /\ v.msgs # <<>>
                /\ \E n \in Buses : Issued(n, v) /\ n.msgs = v.msgs /\ n.irqs = x.irqs \ {"full"} /\ n.ev = x.ev
  BY <1>r DEF Received
<1> QED BY <1>10, <1>11, <1>12

(* A transaction at its end: the next message is issued, or the caller told.*)
LEMMA I2cIsrEnded ==
  ASSUME I2cInv, I!Isr, target = NoI2c, NEW t \in I2cThreads, bus.who = t,
         Ended(bus, i2cCall[t]), Len(bus.msgs) <= i2cCall[t].asked, ~I!Full(bus)
  PROVE  Phase(bus', i2cCall'[t])
<1> DEFINE c == i2cCall[t]
           d == i2cCall'[t]
           empty == bus.fifo = 0 /\ "empty" \in bus.irqs
           full  == I!Full(bus)
<1>1. PICK h, x, v \in Buses :
            /\ h = I!AddressHit(bus) /\ x = I!Transmit(h, empty) /\ v = I!Receive(x, full)
            /\ bus' = I!Complete(v, "cmpl" \in bus.ev)
  BY I2cIsrStages
<1>2. bus \in Buses /\ bus.cmd = "none" /\ bus.sem = 0 /\ "cmpl" \in bus.ev /\ bus.ev \in SUBSET {"hit", "cmpl"}
  BY I2cTypes DEF Ended, Buses
<1>3. empty \in BOOLEAN /\ full \in BOOLEAN /\ ~full
  BY DEF I!Full
<1>4. /\ d.nack = c.nack /\ d.asked = c.asked /\ d.moved = c.moved
  <2>1. c.moved \in Nat
    BY I2cTypes, I2cAssumption DEF Calls, I2cAssumption
  <2> QED BY <1>2, <2>1, I2cIsrCall
<1>5. c.moved \in Nat /\ c.asked \in Nat /\ Len(bus.msgs) \in Nat /\ Len(bus.msgs) <= c.asked
  BY I2cTypes, I2cAssumption DEF Calls, I2cAssumption
<1> HIDE DEF empty, full, c, d
<1>6. h.msgs = bus.msgs /\ x.msgs = bus.msgs /\ x.status = h.status /\ x.ev = h.ev /\ x.sem = h.sem /\ x.cmd = h.cmd
      /\ x.irqs \subseteq {"hit", "cmpl", "full", "empty"} /\ v = x
  <2>1. h.msgs = bus.msgs
    BY <1>1, <1>2, I2cHitStage
  <2>2. /\ x.msgs = h.msgs /\ x.status = h.status /\ x.ev = h.ev /\ x.sem = h.sem /\ x.cmd = h.cmd
    BY <1>1, <1>3, I2cTransmitStage
  <2>3. x.irqs \subseteq {"hit", "cmpl", "full", "empty"}
    BY <1>1 DEF Buses
  <2>4. v = x
    BY <1>1, <1>3, I2cReceiveStage DEF Received
  <2> QED BY <2>1, <2>2, <2>3, <2>4
<1> DEFINE cmpl == "cmpl" \in bus.ev
<1>c. cmpl = TRUE
  BY <1>2
<1> HIDE DEF cmpl
<1>d. Completed(v, TRUE, bus')
  BY <1>1, <1>c, I2cCompleteStage DEF cmpl
<1> DEFINE r == bus'
           off == v.irqs \ {"cmpl", "full", "empty"}
<1>7. /\ r \in Buses /\ r.status = v.status
      /\ \/ /\ v.msgs = <<>>
            /\ r.msgs = v.msgs /\ r.cmd = v.cmd /\ r.sem = 1 /\ r.ev = v.ev \ {"cmpl"} /\ r.irqs = off
         \/ /\ v.msgs # <<>> /\ r.msgs = Tail(v.msgs) /\ (r.msgs = <<>> \/ v.status # "hit")
            /\ r.cmd = v.cmd /\ r.sem = 1 /\ r.ev = v.ev \ {"cmpl"} /\ r.irqs = off
         \/ /\ v.msgs # <<>> /\ r.msgs = Tail(v.msgs) /\ r.msgs # <<>> /\ v.status = "hit"
            /\ r.sem = v.sem
            /\ \E n \in Buses : Issued(n, r) /\ n.msgs = r.msgs /\ n.ev = v.ev \ {"cmpl"} /\ n.irqs = off
  BY <1>d DEF Completed
<1>8. off \subseteq {"hit"}
  BY <1>6
<1>9. Len(r.msgs) <= c.asked /\ Len(r.msgs) \in Nat
      /\ (v.msgs # <<>> /\ r.msgs = Tail(v.msgs) => Len(r.msgs) = Len(bus.msgs) - 1)
  <2>1. r.msgs = v.msgs \/ (v.msgs # <<>> /\ r.msgs = Tail(v.msgs))
    BY <1>7
  <2>2. Len(r.msgs) <= Len(v.msgs) /\ Len(r.msgs) \in Nat
        /\ (v.msgs # <<>> /\ r.msgs = Tail(v.msgs) => Len(r.msgs) = Len(v.msgs) - 1)
    BY <1>7, <2>1, I2cShorter
  <2> QED BY <1>5, <1>6, <2>2
<1> HIDE DEF r, off
<1>10. CASE c.nack /\ "hit" \notin bus.ev /\ bus.status = "idle"
  <2>1. "hit" \notin bus.ev \cap bus.irqs /\ bus.status # "hit"
    BY <1>10
  <2>2. h.status = "nohit" /\ h.ev = bus.ev /\ h.cmd = "stop" /\ h.sem = 1
    BY <1>1, <1>2, <2>1, I2cHitStage
  <2>3. r.status = "nohit" /\ r.cmd = "stop" /\ r.sem = 1 /\ r.ev = bus.ev \ {"cmpl"} /\ r.irqs = off
    BY <1>6, <1>7, <2>2
  <2>4. Ready(r, d)
    BY <1>4, <1>8, <1>10, <2>3 DEF Ready, Silent, Told
  <2> QED BY <1>4, <1>9, <2>4 DEF Phase, r, d
<1>11. CASE ~c.nack /\ Addressed(bus) /\ Left(bus, c) >= IF bus.msgs = <<>> THEN 0 ELSE 1
  <2>1. h.status = "hit" /\ h.ev = {"cmpl"} /\ h.cmd = "none" /\ h.sem = 0
    <3>1. CASE "hit" \in bus.ev
      <4>1. "hit" \in bus.ev \cap bus.irqs
        BY <1>11, <3>1 DEF Addressed
      <4>2. h.status = "hit" /\ h.ev = bus.ev \ {"hit"} /\ h.cmd = bus.cmd /\ h.sem = bus.sem
        BY <1>1, <1>2, <4>1, I2cHitStage
      <4> QED BY <1>2, <4>2
    <3>2. CASE "hit" \notin bus.ev
      <4>1. "hit" \notin bus.ev \cap bus.irqs /\ bus.status = "hit"
        BY <1>11, <3>2 DEF Addressed
      <4>2. h = bus
        BY <1>1, <1>2, <4>1, I2cHitStage
      <4> QED BY <1>2, <3>2, <4>1, <4>2
    <3> QED BY <3>1, <3>2
  <2>2. c.moved + Len(bus.msgs) - c.asked >= IF bus.msgs = <<>> THEN 0 ELSE 1
    BY <1>11 DEF Left
  <2>3. (bus.msgs = <<>>) <=> (Len(bus.msgs) = 0)
    BY <1>2, I2cSeq DEF Buses
  <2>4. (r.msgs = <<>>) <=> (Len(r.msgs) = 0)
    BY <1>7, I2cSeq DEF Buses
  <2>5. ASSUME r.msgs = <<>>, r.cmd = v.cmd, r.sem = 1, r.ev = v.ev \ {"cmpl"}, r.irqs = off,
               r.msgs = v.msgs \/ (v.msgs # <<>> /\ r.msgs = Tail(v.msgs))
        PROVE  Ready(r, d)
    <3>1. c.moved >= c.asked
      <4>1. CASE bus.msgs = <<>>
        BY <1>5, <2>2, <2>3, <4>1
      <4>2. CASE bus.msgs # <<>>
        <5>1. Len(bus.msgs) = 1
          BY <1>5, <1>6, <1>9, <2>4, <2>5, <4>2
        <5> QED BY <1>5, <2>2, <4>2, <5>1
      <4> QED BY <4>1, <4>2
    <3>2. r.ev = {} /\ r.cmd = "none" /\ r.status = "hit" /\ r.irqs \subseteq {"hit"} /\ r.sem = 1
      BY <1>6, <1>7, <1>8, <2>1, <2>5
    <3> QED BY <1>4, <3>1, <3>2 DEF Ready, Silent, Told
  <2>6. ASSUME v.msgs # <<>>, r.msgs = Tail(v.msgs), r.msgs # <<>>, r.sem = v.sem,
               \E n \in Buses : Issued(n, r) /\ n.msgs = r.msgs /\ n.ev = v.ev \ {"cmpl"} /\ n.irqs = off
        PROVE  Starting(r, d) \/ Moving(r, d)
    <3>1. PICK n \in Buses : Issued(n, r) /\ n.msgs = r.msgs /\ n.ev = v.ev \ {"cmpl"} /\ n.irqs = off
      BY <2>6
    <3>2. r.ev = {} /\ r.dir = Head(r.msgs).dir /\ r.fifo = 0 /\ r.sem = 0 /\ r.status = "hit"
      BY <1>6, <1>7, <2>1, <2>6, <3>1 DEF Issued
    <3>3. Len(r.msgs) = Len(bus.msgs) - 1 /\ bus.msgs # <<>>
      BY <1>6, <1>9, <2>6
    <3>4. Left(r, d) >= 0 /\ Len(r.msgs) # d.asked
      BY <1>4, <1>5, <2>2, <3>3 DEF Left
    <3>5. CASE r.cmd = "start" /\ r.irqs = n.irqs \cup {"hit", "cmpl"}
      <4>1. r.irqs = {"hit", "cmpl"}
        BY <1>8, <3>1, <3>5
      <4> QED BY <1>4, <1>11, <2>6, <3>2, <3>4, <3>5, <4>1 DEF Starting
    <3>6. CASE r.cmd = "data" /\ r.dir = "write" /\ r.irqs = n.irqs \cup {"empty", "cmpl"}
      <4>1. "full" \notin r.irqs
        BY <1>8, <3>1, <3>6
      <4> QED BY <1>4, <1>11, <3>2, <3>4, <3>6, <4>1 DEF Moving, Addressed
    <3> QED BY <3>1, <3>5, <3>6 DEF Issued
  <2>7. Starting(r, d) \/ Moving(r, d) \/ Ready(r, d)
    BY <1>6, <1>7, <2>1, <2>5, <2>6
  <2> QED BY <1>4, <1>9, <2>7 DEF Phase, r, d
<1> QED BY <1>10, <1>11 DEF Ended, c

LEMMA I2cIsrStep == ASSUME I2cInv, I!Isr PROVE I2cInv'
<1>1. /\ bus' \in Buses /\ bus'.who = bus.who /\ Len(bus'.msgs) \in 0..Len(bus.msgs)
  BY I2cIsrStages
<1>2. /\ i2cCall' \in [I2cThreads -> Calls]
      /\ \A u \in I2cThreads : i2cCall'[u].pc = i2cCall[u].pc
  BY I2cIsrCall
<1>3. /\ i2cMutex' = i2cMutex /\ target' = target
      /\ i2cOdd' = i2cOdd \cup (IF "cmpl" \in bus.ev /\ I!Full(bus) THEN {"bothEvents"} ELSE {})
      /\ (bus.ev \cap bus.irqs) # {} \/ (bus.fifo = 0 /\ "empty" \in bus.irqs) \/ (I!Full(bus) /\ "full" \in bus.irqs)
  BY DEF I!Isr
<1>4. i2cOdd \subseteq i2cOdd' /\ i2cOdd' \subseteq i2cOdd \cup {"bothEvents"}
  BY <1>3
<1>5. I!TypeOK'
  <2>1. Len(bus'.msgs) <= MaxMsgs
    BY <1>1, I2cTypes, I2cAssumption DEF I2cAssumption
  <2>2. i2cOdd' \subseteq Oddities
    BY <1>4, I2cTypes DEF Oddities
  <2> QED BY <1>1, <1>2, <1>3, <2>1, <2>2, I2cTypes, I2cTypeOK
<1>6. InMutex'
  BY <1>2, <1>3, <1>4 DEF I2cInv, InMutex, I!InCall
<1>7. ASSUME i2cOdd' = {} PROVE InStep'
  <2>1. i2cOdd = {} /\ ~("cmpl" \in bus.ev /\ I!Full(bus))
    BY <1>3, <1>4, <1>7
  <2>2. ~Silent(bus)
    <3>1. ASSUME Silent(bus) PROVE (bus.ev \cap bus.irqs) = {} /\ "empty" \notin bus.irqs /\ "full" \notin bus.irqs
      BY <3>1 DEF Silent
    <3> QED BY <1>3, <3>1
  <2>3. PICK t \in I2cThreads :
            /\ I!InCall(t, "wait") /\ bus.who = t /\ Phase(bus, i2cCall[t]) /\ target = NoI2c
            /\ \A u \in I2cThreads : I!InCall(u, "wait") => u = t
    BY <2>1, <2>2, I2cWaiter
  <2>4. ~Starting(bus, i2cCall[t])
    <3>1. ASSUME Starting(bus, i2cCall[t])
          PROVE  (bus.ev \cap bus.irqs) = {} /\ "empty" \notin bus.irqs /\ "full" \notin bus.irqs
      BY <3>1 DEF Starting
    <3> QED BY <1>3, <3>1
  <2>5. Moving(bus, i2cCall[t]) \/ Ended(bus, i2cCall[t])
    BY <2>2, <2>3, <2>4 DEF Phase, Ready
  <2>6. Len(bus.msgs) <= i2cCall[t].asked
    BY <2>3 DEF Phase
  <2>7. Ended(bus, i2cCall[t]) => ~I!Full(bus)
    BY <2>1 DEF Ended
  <2>8. Phase(bus', i2cCall'[t])
    BY <2>3, <2>5, <2>6, <2>7, I2cIsrMoving, I2cIsrEnded
  <2> QED BY <1>1, <1>2, <2>3, <2>8, I2cPhased
<1>8. InStep'
  BY <1>7 DEF InStep
<1>9. I!I2cResultIsOwn'
  BY <1>4, I2cExcused DEF I2cInv
<1> QED BY <1>5, <1>6, <1>8, <1>9, I2cIsrFits DEF I2cInv

LEMMA I2cStep == I2cInv /\ [I!Next]_(I!i2cVars) => I2cInv'
<1> SUFFICES ASSUME I2cInv, [I!Next]_(I!i2cVars) PROVE I2cInv'
  OBVIOUS
<1>1. ASSUME NEW t \in I2cThreads, I!Call(t) PROVE I2cInv'
  BY <1>1, I2cTransfer, I2cReturn, I2cReadStatus, I2cConfigure, I2cRegister, I2cUnregister DEF I!Call
<1>2. CASE I!Isr
  BY <1>2, I2cIsrStep
<1>3. CASE I!Wire
  BY <1>3, I2cAddressPhase, I2cData, I2cDataEnds, I2cStopEnds DEF I!Wire
<1>4. CASE I!RemoteBegins \/ I!RemoteData
  BY <1>4, I2cRemote
<1>5. CASE UNCHANGED I!i2cVars
  <2>1. i2cCall' = i2cCall /\ i2cMutex' = i2cMutex /\ target' = target /\ bus' = bus /\ i2cOdd' = i2cOdd
    BY <1>5 DEF I!i2cVars
  <2>2. I!TypeOK'
    BY <2>1, I2cTypes, I2cTypeOK
  <2>3. InMutex' /\ I!I2cResultIsOwn'
    BY <2>1 DEF I2cInv, InMutex, I!InCall, I!I2cResultIsOwn
  <2>4. Fits'
    BY <2>1, I2cKeepsFits
  <2>5. InStep'
    BY <2>1 DEF I2cInv, InStep, I!InCall
  <2> QED BY <2>2, <2>3, <2>4, <2>5 DEF I2cInv
<1> QED BY <1>1, <1>2, <1>3, <1>4, <1>5 DEF I!Next

(* The I2C driver: the bus mutex, the phases of a transfer on the           *)
(* controller and the status left for its caller, until a target is         *)
(* registered or something else excused happens.                            *)
THEOREM I2cIsSound == I!Init /\ [][I!Next]_(I!i2cVars) => []I2cInv
  BY I2cInit, I2cStep, PTL

(* A transfer that returns 0 moved its own messages, and one that fails had *)
(* a device that did not answer (hpmicro_i2c_transfer), but for the one     *)
(* call that a transfer of another overtook between unlock and read, and    *)
(* for all that follow a late interrupt, a device that stopped answering, a *)
(* STOP still on the wire or a registered target; the bus mutex is held     *)
(* inside a transfer only unless a target was registered.  For any number   *)
(* of callers and messages of any length.                                   *)
THEOREM I2cResultsOwn == Spec => []I2cResultIsOwn
<1>1. I2cInv => I2cResultIsOwn
  <2> SUFFICES ASSUME I2cInv PROVE I2cResultIsOwn
    OBVIOUS
  <2>1. I!I2cResultIsOwn
    BY DEF I2cInv
  <2>2. I!I2cMutexIsReturned
    BY DEF I2cInv, InMutex, I!I2cMutexIsReturned
  <2> QED BY <2>1, <2>2 DEF I2cResultIsOwn
<1> QED BY <1>1, I2cIsSound, UnionIsEach, PTL

(* The state of both drivers has its type.                                  *)
THEOREM BusesAreTyped == Spec => []TypeOK
<1>1. SpiInv /\ I2cInv => TypeOK
  BY DEF SpiInv, I2cInv, TypeOK
<1> QED BY <1>1, SpiIsSound, I2cIsSound, UnionIsEach, PTL
===============================================================================
