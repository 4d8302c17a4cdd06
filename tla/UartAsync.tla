-------------------------------- MODULE UartAsync --------------------------------
(***************************************************************************)
(* The asynchronous API of drivers/serial/uart_hpmicro.c on two channels of *)
(* DmaChannel.  Reception walks through buffers the application supplies;   *)
(* it is advanced by the DMA interrupt, flushed by the receive timeout      *)
(* interrupt and ended by the application or for want of a buffer.  The     *)
(* application answers every UART_RX_BUF_REQUEST at most once, enables      *)
(* reception only when it is off, and transmits one buffer at a time, the   *)
(* next one perhaps from the callback that reports the last.                *)
(***************************************************************************)
EXTENDS Integers, FiniteSets, DmaChannel

CONSTANTS Buffers,      \* receive buffers of the application
          BufLen,       \* length of each of them
          TxBufs,       \* buffers it transmits
          TxLen,        \* and their length
          Threaded,     \* are requests also answered from a thread?
          Errors        \* may DMA transfers fail?

VARIABLES
  rx,       \* struct dma_info of reception
  rxDma,    \* its DMA channel
  timeoutOn, lineOn, fresh, \* receive timeout: unmasked in the UART; at the core; due
  app,      \* the application: what it owns, was told and is asked for
  rsp,      \* a thread inside rx_buf_rsp, between its two stores
  tx, txDma, txPc, txDue    \* transmission, and the buffer the application waits for

rxVars == <<rx, rxDma, timeoutOn, lineOn, fresh, app, rsp>>
txVars == <<tx, txDma, txPc, txDue>>
vars   == <<rxVars, txVars>>

SizeMod == 256          \* size_t arithmetic, with 2^8 for 2^32
NoTx == [buf |-> NoBuf, len |-> 0]
RxOff == [cur |-> NoBuf, off |-> 0, size |-> 0, total |-> 0, next |-> NoBuf, nlen |-> 0]

TypeOK ==
    /\ rx.cur \in Buffers \cup {NoBuf} /\ rx.next \in Buffers \cup {NoBuf}
    /\ rx.off \in 0..BufLen /\ rx.size \in 0..BufLen
    /\ rx.total \in {0, BufLen} /\ rx.nlen \in {0, BufLen}
    /\ rxDma \in Channels(Buffers, BufLen) /\ txDma \in Channels(TxBufs, TxLen)
    /\ timeoutOn \in BOOLEAN /\ lineOn \in BOOLEAN /\ fresh \in BOOLEAN
    /\ app.owns \subseteq Buffers /\ app.dropped \subseteq Buffers
    /\ app.wrote \in [Buffers -> 0..BufLen] /\ app.told \in [Buffers -> 0..BufLen]
    /\ rsp \in Buffers \cup {NoBuf}
    /\ tx.buf \in TxBufs \cup {NoBuf} /\ tx.len \in {0, TxLen}
    /\ txPc \in {"idle", "load", "start"} /\ txDue \in TxBufs \cup {NoBuf}

Init ==
    /\ rx = RxOff /\ rxDma = Unused
    /\ timeoutOn = FALSE /\ lineOn = FALSE /\ fresh = FALSE
    /\ app = [owns |-> Buffers, dropped |-> {}, asked |-> FALSE, on |-> FALSE, bad |-> {},
              wrote |-> [b \in Buffers |-> 0], told |-> [b \in Buffers |-> 0]]
    /\ rsp = NoBuf
    /\ tx = NoTx /\ txDma = Unused /\ txPc = "idle" /\ txDue = NoBuf
-------------------------------------------------------------------------------
(* Pieces of the receive side, as functions of s = [rx, dma, app].          *)

State == [rx |-> rx, dma |-> rxDma, app |-> app]
Becomes(s) == rx' = s.rx /\ rxDma' = s.dma /\ app' = s.app

Note(s, cond, what) ==
    [s EXCEPT !.app.bad = IF cond THEN @ \cup {what} ELSE @]

BugNewBytes(s) == (s.rx.total - Pending(s.dma)) % SizeMod
NewBytes(s) == (s.rx.total - s.rx.off - Pending(s.dma)) % SizeMod

(* uart_hpm_async_rx_flush: UART_RX_RDY for the bytes since the last one    *)
Flush(s) ==
    LET n == NewBytes(s) IN
    IF n = 0 THEN [s EXCEPT !.rx.size = 0]
    ELSE Note([s EXCEPT !.rx.size = n, !.rx.off = @ + n,
                        !.app.told = [@ EXCEPT ![s.rx.cur] = s.rx.off + n]],
              s.app.told[s.rx.cur] # s.rx.off, "gap")

(* UART_RX_BUF_RELEASED: the application has the current buffer back        *)
Release(s) ==
    IF s.rx.cur = NoBuf THEN s
    ELSE Note([s EXCEPT !.app.owns = @ \cup {s.rx.cur},
                        !.app.wrote[s.rx.cur] = 0, !.app.told[s.rx.cur] = 0],
              s.app.told[s.rx.cur] < s.app.wrote[s.rx.cur], "short")

(* The application hands over b, which it owns                              *)
Hand(s, b) == [s EXCEPT !.app.owns = @ \ {b}, !.app.asked = FALSE]

(* UART_RX_BUF_REQUEST: answered in the callback, with rx_buf_rsp, or later *)
Requested(s) ==
    {[s EXCEPT !.app.asked = TRUE]}
      \cup {[Hand(s, b) EXCEPT !.rx.next = b, !.rx.nlen = BufLen] : b \in s.app.owns}

(* uart_hpm_rx_disable; the queued buffer is forgotten                      *)
Disabled(s) ==
    LET r == Release(Flush([s EXCEPT !.dma = Suspend(@)])) IN
    [r EXCEPT !.dma = Stop(@), !.rx = RxOff, !.app.asked = FALSE, !.app.on = FALSE,
              !.app.dropped = @ \cup ({s.rx.next} \ {NoBuf})]

BugLoadAndStart(s) ==   \* the buffer of rx_enable is loaded again
    [s EXCEPT !.dma = Start(Config(@, IF @.addr = NoBuf THEN s.rx.cur ELSE @.addr, s.rx.total))]
LoadAndStart(s) == [s EXCEPT !.dma = Start(Config(@, s.rx.cur, s.rx.total))]

(* uart_hpm_dma_replace_rx_buffer, with a buffer queued                     *)
Switched(s) ==
    {LoadAndStart(n) : n \in Requested(
        [s EXCEPT !.dma = Stop(@),
                  !.rx = [RxOff EXCEPT !.cur = s.rx.next, !.total = s.rx.nlen]])}

ReleaseIfNew(s) ==      \* a flush that finds nothing new releases nothing
    IF s.rx.size > 0 THEN Release(s)
    ELSE [s EXCEPT !.app.dropped = IF s.rx.next = NoBuf THEN @ ELSE @ \cup {s.rx.cur}]

(* uart_hpm_dma_callback for the receive channel                            *)
RxCompleted(s) ==
    IF ~Succeeded(s.dma) THEN {Note([s EXCEPT !.dma = Served(@)], TRUE, "error")}
    ELSE LET f == ReleaseIfNew(Flush([s EXCEPT !.dma = Served(@)])) IN
         IF f.rx.next # NoBuf THEN Switched(f) ELSE {Disabled(f)}
-------------------------------------------------------------------------------
(* Calls of the application                                                 *)

RxEnable ==             \* uart_hpm_rx_enable, with interrupts locked
    /\ ~app.on
    /\ \E b \in app.owns :
         LET s == [Hand(State, b) EXCEPT !.app.on = TRUE,
                                         !.rx = [RxOff EXCEPT !.cur = b, !.total = BufLen]]
         IN  \E n \in Requested(s) : Becomes(LoadAndStart(n))
    /\ timeoutOn' = TRUE /\ fresh' = FALSE
    /\ UNCHANGED <<lineOn, rsp, txVars>>

RxDisable ==
    /\ app.on
    /\ Becomes(Disabled(State))
    /\ timeoutOn' = FALSE
    /\ UNCHANGED <<lineOn, fresh, rsp, txVars>>

RspBuf ==               \* mcux_lpuart_rx_buf_rsp from a thread, first store
    /\ Threaded /\ app.asked /\ rsp = NoBuf
    /\ \E b \in app.owns :
         /\ Becomes([Hand(State, b) EXCEPT !.rx.next = b])
         /\ rsp' = b
    /\ UNCHANGED <<timeoutOn, lineOn, fresh, txVars>>

RspLen ==               \* second store
    /\ rsp # NoBuf
    /\ rx' = [rx EXCEPT !.nlen = BufLen]
    /\ rsp' = NoBuf
    /\ UNCHANGED <<rxDma, app, timeoutOn, lineOn, fresh, txVars>>

IrqRxEnable ==          \* uart_hpm_irq_rx_enable, once
    /\ ~lineOn
    /\ lineOn' = TRUE /\ timeoutOn' = TRUE
    /\ UNCHANGED <<rx, rxDma, app, fresh, rsp, txVars>>

TxCall ==               \* uart_hpm_tx, down to the buffer's note
    /\ txPc = "idle" /\ txDue = NoBuf
    /\ \E b \in TxBufs : tx' = [buf |-> b, len |-> TxLen] /\ txDue' = b
    /\ txPc' = "load"
    /\ UNCHANGED <<rxVars, txDma>>

TxLoad ==
    /\ txPc = "load"
    /\ txDma' = Config(txDma, tx.buf, tx.len)
    /\ txPc' = "start"
    /\ UNCHANGED <<rxVars, tx, txDue>>

TxStart ==
    /\ txPc = "start"
    /\ txDma' = Start(txDma)
    /\ txPc' = "idle"
    /\ UNCHANGED <<rxVars, tx, txDue>>
-------------------------------------------------------------------------------
(* Hardware and interrupts                                                  *)

ByteIn ==               \* a received byte goes to the buffer the channel is set to
    /\ CanBeat(rxDma)
    /\ rxDma' = Beat(rxDma)
    /\ app' = IF rxDma.addr \in app.owns THEN [app EXCEPT !.bad = @ \cup {"stray"}]
              ELSE [app EXCEPT !.wrote[rxDma.addr] = @ + 1]
    /\ fresh' = TRUE
    /\ UNCHANGED <<rx, timeoutOn, lineOn, rsp, txVars>>

ByteOut ==
    /\ CanBeat(txDma)
    /\ txDma' = Beat(txDma)
    /\ UNCHANGED <<rxVars, tx, txPc, txDue>>

EmptyEnds ==            \* a channel enabled with nothing to move ends either way
    /\ rxDma.en /\ rxDma.remain = 0
    /\ \E f \in Flags : rxDma' = End(rxDma, f)
    /\ UNCHANGED <<rx, app, timeoutOn, lineOn, fresh, rsp, txVars>>

TransferFails ==        \* DMA_CHANNEL_STATUS_ERROR in the middle of a transfer
    /\ Errors
    /\ \/ CanBeat(rxDma) /\ rxDma' = End(rxDma, "ERR") /\ UNCHANGED txDma
       \/ CanBeat(txDma) /\ txDma' = End(txDma, "ERR") /\ UNCHANGED rxDma
    /\ UNCHANGED <<rx, app, timeoutOn, lineOn, fresh, rsp, tx, txPc, txDue>>

BugTimeoutIsr ==        \* the channel is not started again
    /\ timeoutOn /\ lineOn /\ fresh
    /\ Becomes(Flush([State EXCEPT !.dma = Suspend(@)]))
    /\ fresh' = FALSE
    /\ UNCHANGED <<timeoutOn, lineOn, rsp, txVars>>
TimeoutIsr ==           \* uart_hpm_isr: suspend, flush, resume
    /\ timeoutOn /\ lineOn /\ fresh
    /\ LET s == Flush([State EXCEPT !.dma = Suspend(@)])
       IN  Becomes([s EXCEPT !.dma = Resume(@)])
    /\ fresh' = FALSE
    /\ UNCHANGED <<timeoutOn, lineOn, rsp, txVars>>

TxReported ==           \* UART_TX_DONE for what the record says
    app' = [app EXCEPT !.bad = IF tx.buf # txDue \/ tx.len # TxLen \/ txDma.remain # 0
                               THEN @ \cup {"tx"} ELSE @]

TxAgain(b) ==           \* the application calls uart_tx in the callback
    /\ txDma' = Start(Config(Served(txDma), b, TxLen))
    /\ txDue' = b

TxDone ==               \* async_evt_tx_done: the record is reset before the callback
    /\ TxReported
    /\ \/ tx' = NoTx /\ txDma' = Served(txDma) /\ txDue' = NoBuf
       \/ \E b \in TxBufs : TxAgain(b) /\ tx' = [buf |-> b, len |-> TxLen]

RxDmaIsr ==             \* dma_hpm_dma_irq_handler, for the receive channel
    /\ Finished(rxDma)
    /\ \E n \in RxCompleted(State) :
         Becomes(n) /\ timeoutOn' = (timeoutOn /\ (app.on => n.app.on))
    /\ UNCHANGED <<lineOn, fresh, rsp, txVars>>

TxDmaIsr ==             \* and for the transmit channel
    /\ Finished(txDma)
    /\ IF Succeeded(txDma) THEN TxDone
       ELSE txDma' = Served(txDma) /\ UNCHANGED <<tx, txDue, app>>
    /\ UNCHANGED <<rx, rxDma, timeoutOn, lineOn, fresh, rsp, txPc>>
-------------------------------------------------------------------------------
Next ==
    \/ RxEnable \/ RxDisable \/ RspBuf \/ RspLen \/ IrqRxEnable
    \/ TxCall \/ TxLoad \/ TxStart
    \/ ByteIn \/ ByteOut \/ EmptyEnds \/ TransferFails \/ TimeoutIsr \/ RxDmaIsr \/ TxDmaIsr

Spec == Init /\ [][Next]_vars

(* Bytes keep coming while the channel takes them, an empty transfer ends,  *)
(* a thread inside rx_buf_rsp goes on, and the interrupt of the receive     *)
(* channel is served: WF_vars(RxDmaIsr), said of the flags it clears.       *)
FairSpec ==
    /\ Spec
    /\ WF_vars(ByteIn) /\ WF_vars(EmptyEnds) /\ WF_vars(RspLen)
    /\ []<>~Finished(rxDma)
-------------------------------------------------------------------------------
(* Properties                                                               *)

(* The DMA never writes into a buffer the application has been given back;  *)
(* after a DMA error, which marks the channel idle, it may be left running. *)
NoStrayWrite ==
    "error" \in app.bad
      \/ /\ "stray" \notin app.bad
         /\ CanBeat(rxDma) => rxDma.addr \notin app.owns

(* UART_RX_RDY events cover each byte once, in order and only after it was  *)
(* written, and a buffer is released only when all its bytes were reported; *)
(* after a DMA error the driver no longer knows.                            *)
ReportsAreExact ==
    "error" \in app.bad
      \/ /\ app.bad \cap {"gap", "short"} = {}
         /\ \A b \in Buffers : app.told[b] <= app.wrote[b]

(* A buffer the application does not own is being filled, queued or on its  *)
(* way in rx_buf_rsp, unless reception ended while it was queued or the     *)
(* timeout had reported its last byte before the DMA interrupt came.        *)
BuffersAccounted ==
    \A b \in Buffers : b \in app.owns \cup app.dropped \/ b \in {rx.cur, rx.next, rsp}

(* UART_TX_DONE names the buffer that was passed to uart_tx, whole.         *)
TxDoneIsOwn == "tx" \notin app.bad

(* The assertions of rx_buf_rsp: nothing is queued when it is called.       *)
NothingQueued == app.asked /\ rsp = NoBuf => rx.next = NoBuf /\ rx.nlen = 0

(* A buffer being filled is left behind unless the DMA fails.               *)
LeftBehind(b) == rx.cur = b ~> (rx.cur # b \/ "error" \in app.bad)
BufferTurnsOver == \A b \in Buffers : LeftBehind(b)
===============================================================================
