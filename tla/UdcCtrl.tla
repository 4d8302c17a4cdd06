-------------------------------- MODULE UdcCtrl --------------------------------
(***************************************************************************)
(* The control endpoint of drivers/usb/udc/udc_hpmicro.c: the host's        *)
(* control transfers, the stages the interrupt handler goes through, and    *)
(* the thread of the USB stack that answers.  A buffer is the number of the *)
(* transfer it was allocated for.  Zero-length packets are those of UdcEp.  *)
(***************************************************************************)
EXTENDS Naturals, Sequences

CONSTANTS MaxXfers,     \* bound: control transfers the host begins
          MaxUpsets     \* bound: times something goes wrong

VARIABLES
  host,         \* the transfer the host is in: n, kind, and the stage it is at
  stage, setupOf,       \* udc_data.stage, and whose packet udc_data.setup is
  ctrlIn, ctrlOut,      \* per direction: fifo, busy, hw (what is primed, 0 for nothing)
  evts, usbd,           \* events for the stack; its thread: pc, the buffer it peeked
  stall,        \* the transfer whose request the stack refused, or 0
  upsets,       \* history: how often a transfer was overtaken, reset or refused memory,
  soiled,       \* the directions where that may have left something behind,
  stale         \* and the others where a stage was answered for another transfer

hist == <<upsets, soiled, stale>>
ctrlVars == <<host, stage, setupOf, ctrlIn, ctrlOut, evts, usbd, stall, hist>>

Numbers == 0..MaxXfers

TypeOK ==
    /\ host \in [n : Numbers, kind : {"in", "out", "none"}, at : {"idle", "data", "status"}]
    /\ stage \in {"setup", "nodata", "datain", "dataout", "statusin", "statusout", "error"}
    /\ setupOf \in Numbers
    /\ DOMAIN ctrlIn = {"fifo", "busy", "hw"} /\ ctrlIn.hw \in Numbers /\ ctrlIn.busy \in BOOLEAN
    /\ \A i \in DOMAIN ctrlIn.fifo : ctrlIn.fifo[i] \in Numbers
    /\ DOMAIN ctrlOut = {"fifo", "busy", "hw"} /\ ctrlOut.hw \in Numbers /\ ctrlOut.busy \in BOOLEAN
    /\ \A i \in DOMAIN ctrlOut.fifo : ctrlOut.fifo[i] \in [of : Numbers, freed : BOOLEAN]
    /\ \A i \in DOMAIN evts : evts[i] \in Numbers
    /\ usbd \in [pc : {"idle", "peek", "claim", "xfer", "unmark"}, buf : Numbers]
    /\ stall \in Numbers /\ upsets \in 0..MaxUpsets
    /\ soiled \subseteq {"in", "out"} /\ stale \subseteq {"in", "out"}

Init ==
    /\ host = [n |-> 0, kind |-> "none", at |-> "idle"]
    /\ stage = "setup" /\ setupOf = 0
    /\ ctrlIn = [fifo |-> <<>>, busy |-> FALSE, hw |-> 0] /\ ctrlOut = ctrlIn
    /\ evts = <<>> /\ usbd = [pc |-> "idle", buf |-> 0]
    /\ stall = 0 /\ upsets = 0 /\ soiled = {} /\ stale = {}

Upset(directions) ==
    /\ upsets' = upsets + (IF directions # {} THEN 1 ELSE 0) /\ upsets' <= MaxUpsets
    /\ soiled' = soiled \cup directions
    /\ UNCHANGED stale

InUse == IF ctrlOut.busy THEN {"in", "out"} ELSE {"in"}

Answered(d, S) ==       \* buffers of the transfers S answer the one the host is in
    /\ stale' = IF d \notin soiled /\ S # {host.n} THEN stale \cup {d} ELSE stale
    /\ UNCHANGED <<upsets, soiled>>
-------------------------------------------------------------------------------
(* udc_hpm_isr                                                              *)

Primed(e, b) == [e EXCEPT !.busy = TRUE, !.hw = b]

(* udc_hpm_ctrl_feed_dout: the buffer is queued and then fed, and freed but *)
(* left in the queue when the endpoint is busy.                             *)
FeedDout(e, n) ==
    LET queued(freed) == [e EXCEPT !.fifo = Append(@, [of |-> n, freed |-> freed])]
    IN  IF e.busy THEN queued(TRUE) ELSE Primed(queued(FALSE), n)

StageOf(kind) == CASE kind = "in" -> "datain" [] kind = "out" -> "dataout" [] OTHER -> "nodata"

(* A SETUP packet, in the middle of a transfer too; what was primed for the *)
(* transfer before it may stay primed.                                      *)
Setup ==                \* udc_hpm_handler_setup
    /\ host.n < MaxXfers
    /\ \E kind \in {"in", "out", "none"}, kept \in BOOLEAN :
         LET n      == host.n + 1
             out    == IF kept THEN ctrlOut ELSE [ctrlOut EXCEPT !.hw = 0]
         IN  /\ host' = [n |-> n, kind |-> kind, at |-> IF kind = "none" THEN "status" ELSE "data"]
             /\ stage' = StageOf(kind) /\ setupOf' = n
             /\ ctrlIn' = IF kept THEN ctrlIn ELSE [ctrlIn EXCEPT !.hw = 0]
             /\ ctrlOut' = IF kind = "out" THEN FeedDout(out, n) ELSE out
             /\ evts' = IF kind = "out" THEN evts ELSE Append(evts, n)
    /\ stall' = 0
    /\ Upset(IF host.at = "idle" THEN {} ELSE InUse)
    /\ UNCHANGED <<usbd>>

SetupIsLost ==          \* udc_ctrl_alloc returned NULL: the packet is dropped, the stage stays
    /\ host.n < MaxXfers
    /\ \E kind \in {"in", "out", "none"} :
         host' = [n |-> host.n + 1, kind |-> kind, at |-> IF kind = "none" THEN "status" ELSE "data"]
    /\ stall' = 0
    /\ Upset({"in", "out"})
    /\ UNCHANGED <<stage, setupOf, ctrlIn, ctrlOut, evts, usbd>>

(* The host read what was primed: the head of the queue goes back, and the  *)
(* status stage of a read is prepared.                                      *)
AfterIn == CASE stage = "datain" -> "statusout"
             [] stage \in {"statusin", "nodata"} -> "setup"
             [] OTHER -> "error"
HandlerIn ==            \* udc_hpm_handler_in with udc_hpm_handler_ctrl_in
    IF ctrlIn.fifo = <<>>   \* UDC_EVT_ERROR, and the endpoint stays busy
    THEN /\ ctrlIn' = [ctrlIn EXCEPT !.hw = 0] /\ Answered("in", {})
         /\ UNCHANGED <<stage, ctrlOut>>
    ELSE /\ Answered("in", {Head(ctrlIn.fifo), ctrlIn.hw})
         /\ stage' = AfterIn
         /\ ctrlIn' = [fifo |-> Tail(ctrlIn.fifo), busy |-> FALSE, hw |-> 0]
         /\ ctrlOut' = IF AfterIn = "statusout" THEN FeedDout(ctrlOut, setupOf) ELSE ctrlOut

InDone ==
    /\ ctrlIn.hw # 0 /\ stall = 0
    /\ host.at = IF host.kind = "in" THEN "data" ELSE "status"
    /\ host' = [host EXCEPT !.at = IF host.kind = "in" THEN "status" ELSE "idle"]
    /\ HandlerIn
    /\ UNCHANGED <<setupOf, evts, usbd, stall>>

(* The host wrote into what was primed.  Bound: what the handler does with  *)
(* a buffer that was freed in the queue is not followed.                    *)
AfterOut == CASE stage = "dataout" -> "statusin" [] stage = "statusout" -> "setup" [] OTHER -> "error"
HandlerOut ==           \* udc_hpm_handler_out with udc_hpm_handler_ctrl_out
    /\ ctrlOut.fifo = <<>> \/ ~Head(ctrlOut.fifo).freed
    /\ ctrlOut' = [ctrlOut EXCEPT !.busy = FALSE, !.hw = 0,
                                  !.fifo = IF @ = <<>> THEN @ ELSE Tail(@)]
    /\ IF ctrlOut.fifo = <<>> THEN UNCHANGED <<stage, evts>>
       ELSE /\ stage' = AfterOut
            /\ evts' = IF AfterOut = "statusin" THEN Append(evts, setupOf) ELSE evts
    /\ Answered("out", {ctrlOut.hw})

OutDone ==
    /\ ctrlOut.hw # 0 /\ stall = 0 /\ host.kind # "none"
    /\ host.at = IF host.kind = "in" THEN "status" ELSE "data"
    /\ host' = [host EXCEPT !.at = IF host.kind = "in" THEN "idle" ELSE "status"]
    /\ HandlerOut
    /\ UNCHANGED <<setupOf, ctrlIn, usbd, stall>>

(* The endpoints are disabled and enabled, which flushes them; queues, busy *)
(* and stage stay, and the stack is told (event 0).                         *)
BusReset ==
    /\ ctrlIn' = [ctrlIn EXCEPT !.hw = 0] /\ ctrlOut' = [ctrlOut EXCEPT !.hw = 0]
    /\ evts' = Append(evts, 0)
    /\ host' = [host EXCEPT !.at = "idle"] /\ stall' = 0
    /\ Upset(InUse)
    /\ UNCHANGED <<stage, setupOf, usbd>>
-------------------------------------------------------------------------------
(* The thread of the stack                                                  *)

BugRefuse ==            \* the control endpoint is not halted
    /\ usbd.pc = "idle" /\ evts # <<>> /\ Head(evts) # 0
    /\ evts' = Tail(evts)
    /\ UNCHANGED <<host, stage, setupOf, ctrlIn, ctrlOut, usbd, stall, hist>>
Refuse ==               \* the request is not supported: udc_hpm_ep_set_halt
    /\ usbd.pc = "idle" /\ evts # <<>> /\ Head(evts) # 0
    /\ evts' = Tail(evts)
    /\ stall' = Head(evts)
    /\ UNCHANGED <<host, stage, setupOf, ctrlIn, ctrlOut, usbd, hist>>

Answer ==               \* udc_hpm_ep_enqueue of the data or the status
    /\ usbd.pc = "idle" /\ evts # <<>> /\ Head(evts) # 0
    /\ evts' = Tail(evts)
    /\ ctrlIn' = [ctrlIn EXCEPT !.fifo = Append(@, Head(evts))]
    /\ usbd' = [usbd EXCEPT !.pc = "peek"]
    /\ UNCHANGED <<host, stage, setupOf, ctrlOut, stall, hist>>

Peek ==
    /\ usbd.pc = "peek"
    /\ usbd' = IF ctrlIn.fifo = <<>> THEN [pc |-> "idle", buf |-> 0]
               ELSE [pc |-> "claim", buf |-> Head(ctrlIn.fifo)]
    /\ UNCHANGED <<host, stage, setupOf, ctrlIn, ctrlOut, evts, stall, hist>>

Claim ==
    /\ usbd.pc = "claim"
    /\ usbd' = IF ctrlIn.busy THEN [pc |-> "idle", buf |-> 0] ELSE [usbd EXCEPT !.pc = "xfer"]
    /\ ctrlIn' = [ctrlIn EXCEPT !.busy = TRUE]
    /\ UNCHANGED <<host, stage, setupOf, ctrlOut, evts, stall, hist>>

Xfer ==
    /\ usbd.pc = "xfer"
    /\ ctrlIn' = Primed(ctrlIn, usbd.buf)
    /\ usbd' = [pc |-> "idle", buf |-> 0]
    /\ UNCHANGED <<host, stage, setupOf, ctrlOut, evts, stall, hist>>

BugDequeue ==           \* the buffers stay queued
    /\ usbd.pc = "idle" /\ evts # <<>> /\ Head(evts) = 0
    /\ evts' = Tail(evts)
    /\ usbd' = [usbd EXCEPT !.pc = "unmark"]
    /\ UNCHANGED <<host, stage, setupOf, ctrlIn, ctrlOut, stall, hist>>
Dequeue ==              \* a reset: udc_hpm_ep_dequeue of the IN endpoint only
    /\ usbd.pc = "idle" /\ evts # <<>> /\ Head(evts) = 0
    /\ evts' = Tail(evts)
    /\ ctrlIn' = [ctrlIn EXCEPT !.fifo = <<>>]
    /\ usbd' = [usbd EXCEPT !.pc = "unmark"]
    /\ UNCHANGED <<host, stage, setupOf, ctrlOut, stall, hist>>

Clean ==                \* nothing of a transfer before the present one is on its way
    /\ ctrlIn.hw = 0 /\ stall = 0
    /\ \/ host.at = "idle" /\ evts = <<>>
       \/ <<host.kind, host.at>> \in {<<"in", "data">>, <<"none", "status">>} /\ evts = <<host.n>>

Unmark ==
    /\ usbd.pc = "unmark"
    /\ ctrlIn' = [ctrlIn EXCEPT !.busy = FALSE]
    /\ usbd' = [usbd EXCEPT !.pc = "idle"]
    /\ soiled' = IF soiled = {"in"} /\ Clean THEN {} ELSE soiled
    /\ UNCHANGED <<host, stage, setupOf, ctrlOut, evts, stall, upsets, stale>>

HostGivesUp ==          \* stalled, for an earlier transfer perhaps or in the middle of a stage
    /\ stall # 0 /\ host.at # "idle"
    /\ host' = [host EXCEPT !.at = "idle"]
    /\ Upset(IF stall = host.n /\ ~ctrlOut.busy THEN {} ELSE InUse)
    /\ UNCHANGED <<stage, setupOf, ctrlIn, ctrlOut, evts, usbd, stall>>
-------------------------------------------------------------------------------
Stack == Refuse \/ Answer \/ Peek \/ Claim \/ Xfer \/ Dequeue \/ Unmark
Host  == InDone \/ OutDone \/ HostGivesUp
Next  == Setup \/ SetupIsLost \/ BusReset \/ Stack \/ Host

(* The stack's thread runs, and the host goes on with its transfer.         *)
Spec == Init /\ [][Next]_ctrlVars /\ WF_ctrlVars(Stack) /\ WF_ctrlVars(Host)
-------------------------------------------------------------------------------
(* Every stage is answered with the buffer of its own transfer, and the OUT *)
(* queue holds no freed buffer, unless a transfer was overtaken, lost or     *)
(* reset; and once the stack has dequeued after a bus reset, the IN         *)
(* direction is exact again.                                                *)
CtrlIsOwn ==
    /\ stale = {}
    /\ (\E i \in DOMAIN ctrlOut.fifo : ctrlOut.fifo[i].freed) => "out" \in soiled

(* A control transfer comes to its end unless something was left behind.    *)
CtrlCompletes == host.at # "idle" ~> (host.at = "idle" \/ soiled # {})
===============================================================================
