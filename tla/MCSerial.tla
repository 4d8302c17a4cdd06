-------------------------------- MODULE MCSerial --------------------------------
(* The asynchronous UART and the USB endpoint, which share nothing: each    *)
(* behaviour is one of them.                                                *)
EXTENDS Naturals

CONSTANTS Buffers, BufLen, TxBufs, TxLen, Threaded, Errors, NoBuf, Bufs, Dirs, Trouble,
          SomeBuffer, SomeBuf   \* the receive buffer and the net_buf followed, one standing for all

VARIABLES driver,
  rx, rxDma, timeoutOn, lineOn, fresh, app, rsp, tx, txDma, txPc, txDue,
  dir, ep, call, peeked, stack, odd

uartVars == <<rx, rxDma, timeoutOn, lineOn, fresh, app, rsp, tx, txDma, txPc, txDue>>
udcVars  == <<dir, ep, call, peeked, stack, odd>>

U == INSTANCE UartAsync
E == INSTANCE UdcEp WITH pc <- call, app <- stack

(* Nothing is called NoBuf, and no length wraps around in size_t.           *)
ASSUME SerialAssumption ==
    /\ NoBuf \notin Buffers \cup TxBufs \cup Bufs
    /\ BufLen \in 0..(U!SizeMod - 1) /\ TxLen \in Nat

Init == /\ driver \in {"uart", "udc"} /\ U!Init /\ E!Init
        /\ driver # "udc" => dir = "in"

Next ==
    /\ UNCHANGED driver
    /\ \/ driver = "uart" /\ U!Next /\ UNCHANGED udcVars
       \/ driver = "udc"  /\ E!Next /\ UNCHANGED uartVars

(* The fairness of FairSpec of both modules.                                *)
Spec == Init /\ [][Next]_<<driver, uartVars, udcVars>>
          /\ WF_uartVars(U!ByteIn) /\ WF_uartVars(U!EmptyEnds) /\ WF_uartVars(U!RspLen)
          /\ []<>~U!Finished(rxDma)
          /\ WF_udcVars(E!Call) /\ WF_udcVars(E!TransferDone)

(* The state of both drivers has its type.                                  *)
TypeOK == U!TypeOK /\ E!TypeOK
(* UartAsync: the DMA never writes into a buffer the application has back,  *)
(* and a buffer it does not have is with the driver.                        *)
RxBuffersAreSafe == U!NoStrayWrite /\ U!BuffersAccounted
(* UartAsync: every byte is reported once, in order, after it was written,  *)
(* and a transmission is reported with its own buffer.                      *)
ReportsAreExact == U!ReportsAreExact /\ U!TxDoneIsOwn
(* UartAsync: a buffer being filled is left behind.                         *)
BufferTurnsOver == U!LeftBehind(SomeBuffer)
(* UdcEp: a buffer reported complete was transferred, and the controller    *)
(* does not work on a buffer the stack has back; an endpoint marked busy    *)
(* has a transfer that clears the mark.                                     *)
EndpointIsSound == E!ReportedIsTransferred /\ E!InFlightIsQueued /\ E!BusyIsOwed
(* UdcEp: a queued buffer comes back.                                       *)
EnqueuedReturns == E!ComesBack(SomeBuf)
(* UartAsync: the assertion of rx_buf_rsp, that nothing is queued when a    *)
(* request is answered; the run uart_torn shows that it can fail.           *)
NothingQueued == U!NothingQueued
===============================================================================
