------------------------------- MODULE SpiXfer -------------------------------
(***************************************************************************)
(* Synchronous transfers of drivers/spi/spi_hpmicro.c, one controller, in    *)
(* the build with DMA and in the one driven by interrupts.  Lengths are in  *)
(* chunks of SPI_SOC_TRANSFER_COUNT_MAX.                                     *)
(***************************************************************************)
EXTENDS Naturals

CONSTANTS SpiThreads,   \* callers; each addresses a device with its own chip select
          NoCaller, MaxLen

VARIABLES
  withDma,      \* CONFIG_SPI_HPM_SPI_DMA (never changes)
  spi,          \* per thread: pc, tx and rx left, whether it passed SPI_LOCK_ON, result
  ctxLock, sync, flags, format, cs,  \* ctx.lock's holder, ctx.sync, status_flags, ctx.config, chip selects on
  job,          \* the chunk the hardware has: whose, tx and rx side, and the wire
  spiOdd        \* history: what the properties excuse, and what went wrong

spiVars == <<withDma, spi, ctxLock, sync, flags, format, cs, job, spiOdd>>

Rest == [pc |-> "idle", tx |-> 0, rx |-> 0, hold |-> FALSE, ok |-> TRUE]
NoJob == [who |-> NoCaller, tx |-> "none", rx |-> "none", wire |-> "idle"]
Sides == {"none", "run", "done"}

TypeOK ==
    /\ withDma \in BOOLEAN
    /\ spi \in [SpiThreads -> [pc : {"idle", "held", "configure", "load", "wait", "drain", "out"},
                               tx : 0..MaxLen, rx : 0..MaxLen, hold : BOOLEAN, ok : BOOLEAN]]
    /\ ctxLock \in SpiThreads \cup {NoCaller} /\ format \in SpiThreads \cup {NoCaller}
    /\ sync \in 0..1 /\ flags \subseteq {"tx", "rx", "err"} /\ cs \subseteq SpiThreads
    /\ job \in [who : SpiThreads \cup {NoCaller}, tx : Sides, rx : Sides, wire : {"idle", "busy", "end"}]
    /\ spiOdd \subseteq {"gaveUp", "lag", "refused", "incomplete", "wrongFormat"}

Init ==
    /\ withDma \in BOOLEAN
    /\ spi = [t \in SpiThreads |-> Rest] /\ ctxLock = NoCaller /\ sync = 0 /\ flags = {}
    /\ format = NoCaller /\ cs = {} /\ job = NoJob /\ spiOdd = {}

In(t, pc)   == spi[t].pc = pc
Step(t, pc) == spi' = [spi EXCEPT ![t].pc = pc]
Fail(t)     == spi' = [spi EXCEPT ![t].pc = "out", ![t].ok = FALSE]
Chunk(n)    == IF n > 0 THEN 1 ELSE 0
(* The common length of a chunk: the shorter side, unless that is empty.    *)
BugUpdated(r) == [r EXCEPT !.tx = @ - 1, !.rx = @ - 1]     \* both sides, whatever is left
Updated(r)  == [r EXCEPT !.tx = @ - Chunk(@), !.rx = @ - Chunk(@)]
ChunkOf(t)  == [who |-> t, wire |-> "busy", tx |-> IF spi[t].tx > 0 THEN "run" ELSE "none",
                rx |-> IF spi[t].rx > 0 THEN "run" ELSE "none"]
-------------------------------------------------------------------------------
Transceive(t) ==        \* spi_context_lock; a caller that kept the lock passes
    /\ (In(t, "idle") /\ ctxLock = NoCaller) \/ In(t, "held")
    /\ ctxLock' = t
    /\ \E tx, rx \in 0..MaxLen, hold \in BOOLEAN :
         /\ tx + rx > 0 /\ (In(t, "held") => hold)
         /\ spi' = [spi EXCEPT ![t] = [pc |-> "configure", tx |-> tx, rx |-> rx, hold |-> hold, ok |-> TRUE]]
    /\ UNCHANGED <<withDma, sync, flags, format, cs, job, spiOdd>>

Configure(t) ==         \* skipped when the configuration is in use
    /\ In(t, "configure")
    /\ \/ Step(t, "load") /\ format' = t /\ cs' = cs \cup {t}
       \/ format # t /\ Fail(t) /\ UNCHANGED <<format, cs>>
    /\ UNCHANGED <<withDma, ctxLock, sync, flags, job, spiOdd>>

Start(t) == job' = ChunkOf(t) /\ spiOdd' = spiOdd \cup (IF format = t THEN {} ELSE {"wrongFormat"})

Load(t) ==              \* next chunk to the DMA channels or the controller
    /\ In(t, "load") /\ spi[t].tx + spi[t].rx > 0
    /\ Start(t) /\ Step(t, "wait")
    /\ flags' = IF withDma THEN {} ELSE flags
    /\ UNCHANGED <<withDma, ctxLock, sync, format, cs>>

(* dma_config or dma_start refuses: an error with the chip select left on.  *)
LoadFails(t) ==
    /\ In(t, "load") /\ spi[t].tx + spi[t].rx > 0 /\ withDma
    /\ Fail(t) /\ flags' = {}
    /\ spiOdd' = spiOdd \cup {"gaveUp"}
    /\ UNCHANGED <<withDma, ctxLock, sync, format, cs, job>>

(* The controller refuses: with DMA the call returns 0; without, nobody     *)
(* completes the context and the caller times out.                          *)
SetupFails(t) ==
    /\ In(t, "load") /\ spi[t].tx + spi[t].rx > 0
    /\ Step(t, IF withDma THEN "out" ELSE "wait")
    /\ flags' = IF withDma THEN {} ELSE flags
    /\ spiOdd' = spiOdd \cup {"refused"}
    /\ UNCHANGED <<withDma, ctxLock, sync, format, cs, job>>

BugWait(t) ==           \* what woke the caller is not looked at
    /\ In(t, "wait") /\ sync = 1
    /\ sync' = 0
    /\ IF ~withDma THEN Step(t, "out") ELSE IF "err" \in flags THEN Fail(t) ELSE Step(t, "drain")
    /\ UNCHANGED <<withDma, ctxLock, flags, format, cs, job, spiOdd>>
(* wait_dma_rx_tx_done: either side's flag ends the wait; a completion with *)
(* no flag, of the other side of the chunk before, does not.                *)
Wait(t) ==
    /\ In(t, "wait") /\ sync = 1
    /\ sync' = 0
    /\ IF ~withDma THEN Step(t, "out")
       ELSE IF "err" \in flags THEN Fail(t)
       ELSE IF flags # {} THEN Step(t, "drain") ELSE UNCHANGED spi
    /\ UNCHANGED <<withDma, ctxLock, flags, format, cs, job, spiOdd>>

TimesOut(t) ==          \* nothing is stopped, the chip select stays on
    /\ In(t, "wait") /\ sync = 0
    /\ Fail(t) /\ spiOdd' = spiOdd \cup {"gaveUp"}
    /\ UNCHANGED <<withDma, ctxLock, sync, flags, format, cs, job>>

(* SPIACTIVE is down; DMA requests off; a receive side still running is cut.*)
Drain(t) ==
    /\ In(t, "drain") /\ job.wire # "busy"
    /\ job' = NoJob
    /\ spi' = [spi EXCEPT ![t] = [Updated(@) EXCEPT !.pc = "load"]]
    /\ spiOdd' = spiOdd
         \cup (IF job.tx = "done" /\ job.rx = "run" THEN {"lag"} ELSE {})
         \cup (IF job.who # t \/ job.tx = "run" \/ (job.tx = "none" /\ job.rx = "run") THEN {"incomplete"} ELSE {})
    /\ UNCHANGED <<withDma, ctxLock, sync, flags, format, cs>>

AllDone(t) ==           \* nothing left: chip select off; without DMA, spi_context_complete
    /\ In(t, "load") /\ spi[t].tx + spi[t].rx = 0
    /\ cs' = cs \ {t}
    /\ IF withDma THEN Step(t, "out") /\ UNCHANGED sync ELSE Step(t, "wait") /\ sync' = 1
    /\ UNCHANGED <<withDma, ctxLock, flags, format, job, spiOdd>>

Release(t) ==           \* spi_context_release
    /\ In(t, "out")
    /\ ctxLock' = IF spi[t].hold THEN ctxLock ELSE NoCaller
    /\ spi' = [spi EXCEPT ![t] = [Rest EXCEPT !.pc = IF spi[t].hold THEN "held" ELSE "idle"]]
    /\ UNCHANGED <<withDma, sync, flags, format, cs, job, spiOdd>>

Unlock(t) ==            \* spi_release
    /\ In(t, "held")
    /\ ctxLock' = NoCaller /\ Step(t, "idle")
    /\ UNCHANGED <<withDma, sync, flags, format, cs, job, spiOdd>>
-------------------------------------------------------------------------------
(* The hardware; a receive side ends after the wire, a send side before.    *)

DmaEnds(side) ==        \* spi_hpm_dma_callback
    /\ withDma /\ job[side] = "run" /\ (side = "rx" => job.wire # "busy")
    /\ \E err \in BOOLEAN :
         /\ flags' = flags \cup {IF err THEN "err" ELSE side}
         /\ job' = IF err THEN NoJob ELSE [job EXCEPT ![side] = "done"]
         /\ spiOdd' = spiOdd \cup (IF err THEN {"gaveUp"} ELSE {})
    /\ sync' = 1
    /\ UNCHANGED <<withDma, spi, ctxLock, format, cs>>

WireEnds ==
    /\ job.wire = "busy" /\ job.tx # "run"
    /\ job' = [job EXCEPT !.wire = IF withDma THEN "idle" ELSE "end"]
    /\ UNCHANGED <<withDma, spi, ctxLock, sync, flags, format, cs, spiOdd>>

FifoInterrupt ==        \* spi_hpm_isr moves what the FIFOs ask for
    /\ ~withDma /\ job.wire = "busy" /\ (job.tx = "run" \/ job.rx = "run")
    /\ job' = [job EXCEPT !.tx = IF @ = "run" THEN "done" ELSE @, !.rx = IF @ = "run" THEN "done" ELSE @]
    /\ UNCHANGED <<withDma, spi, ctxLock, sync, flags, format, cs, spiOdd>>

FifoFails ==            \* nothing moved, the buffer pointer advanced, the flag left set
    /\ ~withDma /\ job.wire = "busy" /\ (job.tx = "run" \/ job.rx = "run")
    /\ spiOdd' = spiOdd \cup {"refused"}
    /\ UNCHANGED <<withDma, spi, ctxLock, sync, flags, format, cs, job>>

(* spi_hpm_isr at the end of a chunk: what is left in the receive FIFO is   *)
(* not read; the next chunk, unless the controller refuses it, is started   *)
(* before the end flag is cleared, so that its own end may be cleared too.  *)
EndInterrupt ==
    LET t == job.who  r == Updated(spi[t])  more == r.tx + r.rx > 0
        next == [ChunkOf(t) EXCEPT !.tx = IF r.tx > 0 THEN "run" ELSE "none",
                                   !.rx = IF r.rx > 0 THEN "run" ELSE "none"]
    IN /\ ~withDma /\ job.wire = "end"
       /\ spi' = [spi EXCEPT ![t] = r]
       /\ \/ more /\ job' = next
          \/ more /\ next.tx = "none" /\ job' = [next EXCEPT !.wire = "idle"]
          \/ job' = NoJob                              \* none left, or refused
       /\ IF more THEN UNCHANGED <<cs, sync>> ELSE cs' = cs \ {t} /\ sync' = 1
       /\ spiOdd' = spiOdd \cup (IF job.rx = "run" THEN {"lag"} ELSE {})
                           \cup (IF more /\ job' = NoJob THEN {"refused"} ELSE {})
                           \cup (IF In(t, "wait") /\ job.tx # "run" THEN {} ELSE {"incomplete"})
       /\ UNCHANGED <<withDma, ctxLock, flags, format>>

Next ==
    \/ \E t \in SpiThreads :
         \/ Transceive(t) \/ Configure(t) \/ Load(t) \/ LoadFails(t) \/ SetupFails(t) \/ Wait(t)
         \/ TimesOut(t) \/ Drain(t) \/ AllDone(t) \/ Release(t) \/ Unlock(t)
    \/ DmaEnds("tx") \/ DmaEnds("rx") \/ WireEnds \/ FifoInterrupt \/ FifoFails \/ EndInterrupt

Spec == Init /\ [][Next]_spiVars
-------------------------------------------------------------------------------
(* A chunk counts as transferred only when it was, and in the format of its *)
(* caller, unless an earlier call gave up and left the hardware running, or *)
(* the controller refused the chunk or a word of it; of a chunk that both   *)
(* sends and receives only the sending is waited for.                       *)
CountedIsTransferred ==
    spiOdd \cap {"incomplete", "wrongFormat"} # {} => spiOdd \cap {"gaveUp", "refused"} # {}

(* At most one chip select is on, and the lock is held by who is inside,    *)
(* unless a call failed with its chip select on.                            *)
OneCallerOneDevice ==
    /\ \A t \in SpiThreads : ctxLock = t <=> ~In(t, "idle")
    /\ (\A t, u \in cs : t = u) \/ spiOdd \cap {"gaveUp", "refused"} # {}
===============================================================================
