---------------------------------- MODULE UdcEp ----------------------------------
(***************************************************************************)
(* One data endpoint of the USB device controller driver,                   *)
(* drivers/usb/udc/udc_hpmicro.c: the calls of the USB stack (enqueue,      *)
(* dequeue, halt, disable), which the stack serialises with its lock, and   *)
(* udc_hpm_isr, which interrupts them between any two steps, completes the  *)
(* buffer at the head of the queue and feeds the next.                      *)
(***************************************************************************)
EXTENDS Integers, Sequences, SequencesExt

CONSTANTS Bufs,         \* net_bufs of the stack
          NoBuf,
          Dirs,         \* directions of the endpoint: subset of {"in", "out"}
          Trouble       \* what may happen: subset of AllTrouble

AllTrouble == {"xfer", "error", "reset", "dequeue", "halt"}

VARIABLES
  dir,                  \* direction, from the endpoint address
  ep,                   \* driver and controller: fifo, busy, hw (what is primed), stall
  pc, peeked,           \* the stack's call: where it is, feed_buf
  app,                  \* the stack: buffers it owns, parts of each still due
  odd                   \* history: what went wrong with the endpoint

vars == <<dir, ep, pc, peeked, app, odd>>

NoXfer == [buf |-> NoBuf, part |-> "none"]
Data(b) == [buf |-> b, part |-> "data"]
Zlp(b)  == [buf |-> b, part |-> "zlp"]

TypeOK ==
    /\ dir \in Dirs
    /\ IsInjective(ep.fifo) /\ ToSet(ep.fifo) \subseteq Bufs
    /\ ep.busy \in BOOLEAN /\ ep.stall \in BOOLEAN
    /\ ep.hw \in {NoXfer} \cup {Data(b) : b \in Bufs} \cup {Zlp(b) : b \in Bufs}
    /\ pc \in {"idle", "peek", "claim", "xfer", "undo", "unmark"}
    /\ peeked \in Bufs \cup {NoBuf}
    /\ app.owns \subseteq Bufs /\ app.zlp \subseteq Bufs /\ app.bad \subseteq {"other", "short"}
    /\ app.due \in [Bufs -> 0..2]
    /\ odd \subseteq {"stale", "live", "eio", "dead"}

Init ==
    /\ dir \in Dirs
    /\ ep = [fifo |-> <<>>, busy |-> FALSE, hw |-> NoXfer, stall |-> FALSE]
    /\ pc = "idle" /\ peeked = NoBuf
    /\ app = [owns |-> Bufs, zlp |-> {}, bad |-> {}, due |-> [b \in Bufs |-> 0]]
    /\ odd = {}

(* Buffers B are the stack's again, and nothing is due of them.             *)
Give(a, B) ==
    [a EXCEPT !.owns = @ \cup B, !.zlp = @ \ B,
              !.due = [b \in Bufs |-> IF b \in B THEN 0 ELSE @[b]]]

Return == pc' = "idle" /\ peeked' = NoBuf
-------------------------------------------------------------------------------
(* Calls of the stack                                                       *)

Enqueue ==              \* udc_buf_put; an IN buffer may ask for a zero-length packet
    /\ pc = "idle"
    /\ \E b \in app.owns, zlp \in IF dir = "in" THEN BOOLEAN ELSE {FALSE} :
         /\ ep' = [ep EXCEPT !.fifo = Append(@, b)]
         /\ app' = [app EXCEPT !.owns = @ \ {b}, !.due[b] = IF zlp THEN 2 ELSE 1,
                               !.zlp = IF zlp THEN @ \cup {b} ELSE @]
    /\ pc' = "peek"
    /\ UNCHANGED <<dir, peeked, odd>>

Peek ==                 \* udc_hpm_ep_try_feed
    /\ pc = "peek"
    /\ IF ep.fifo = <<>> THEN Return
       ELSE pc' = "claim" /\ peeked' = Head(ep.fifo)
    /\ UNCHANGED <<dir, ep, app, odd>>

Claim ==                \* udc_hpm_ep_feed, the test of busy under irq_lock
    /\ pc = "claim"
    /\ IF ep.busy THEN Return /\ UNCHANGED ep
       ELSE pc' = "xfer" /\ ep' = [ep EXCEPT !.busy = TRUE] /\ UNCHANGED peeked
    /\ UNCHANGED <<dir, app, odd>>

Xfer ==                 \* usb_device_edpt_xfer for what was peeked
    /\ pc = "xfer"
    /\ ep' = [ep EXCEPT !.hw = Data(peeked)]
    /\ odd' = IF ep.fifo # <<>> /\ Head(ep.fifo) = peeked THEN odd ELSE odd \cup {"stale"}
    /\ Return
    /\ UNCHANGED <<dir, app>>

XferFails ==            \* no transfer descriptors
    /\ pc = "xfer" /\ "xfer" \in Trouble
    /\ pc' = "undo"
    /\ UNCHANGED <<dir, ep, peeked, app, odd>>

BugUndo ==              \* busy is left set
    /\ pc = "undo"
    /\ odd' = odd \cup {"eio"}
    /\ Return
    /\ UNCHANGED <<dir, ep, app>>
Undo ==                 \* -EIO, and the buffer stays in the queue
    /\ pc = "undo"
    /\ ep' = [ep EXCEPT !.busy = FALSE]
    /\ odd' = odd \cup {"eio"}
    /\ Return
    /\ UNCHANGED <<dir, app>>

BugDequeue ==           \* only the head is taken out
    /\ pc = "idle" /\ "dequeue" \in Trouble /\ ep.fifo # <<>>
    /\ app' = Give(app, ToSet(ep.fifo))
    /\ ep' = [ep EXCEPT !.fifo = Tail(@)]
    /\ odd' = IF ep.hw = NoXfer THEN odd ELSE odd \cup {"live"}
    /\ pc' = "unmark"
    /\ UNCHANGED <<dir, peeked>>
Dequeue ==              \* every buffer goes back with -ECONNABORTED...
    /\ pc = "idle" /\ "dequeue" \in Trouble
    /\ app' = Give(app, ToSet(ep.fifo))
    /\ ep' = [ep EXCEPT !.fifo = <<>>]
    /\ odd' = IF ep.hw = NoXfer THEN odd ELSE odd \cup {"live"}
    /\ pc' = "unmark"
    /\ UNCHANGED <<dir, peeked>>

Unmark ==               \* ... and the endpoint is idle again
    /\ pc = "unmark"
    /\ ep' = [ep EXCEPT !.busy = FALSE]
    /\ odd' = odd \ {"dead"}
    /\ Return
    /\ UNCHANGED <<dir, app>>

SetHalt ==              \* usb_device_edpt_stall
    /\ pc = "idle" /\ "halt" \in Trouble /\ ~ep.stall
    /\ ep' = [ep EXCEPT !.stall = TRUE]
    /\ UNCHANGED <<dir, pc, peeked, app, odd>>

ClearHalt ==            \* usb_device_edpt_clear_stall, then udc_hpm_ep_try_feed
    /\ pc = "idle" /\ "halt" \in Trouble
    /\ ep' = [ep EXCEPT !.stall = FALSE]
    /\ pc' = "peek"
    /\ UNCHANGED <<dir, peeked, app, odd>>

Dead == IF ep.hw = NoXfer THEN odd ELSE odd \cup {"dead"}

Disable ==              \* usb_device_edpt_close, before the stack enables it again; busy stays
    /\ pc = "idle" /\ "dequeue" \in Trouble
    /\ ep' = [ep EXCEPT !.hw = NoXfer]
    /\ odd' = Dead
    /\ UNCHANGED <<dir, pc, peeked, app>>
-------------------------------------------------------------------------------
(* udc_hpm_isr.  What it leaves of s = [ep, app, odd], the transfer done    *)
(* being d; failures of usb_device_edpt_xfer in between are remembered.     *)

State == [ep |-> ep, app |-> app, odd |-> odd]
Becomes(s) == ep' = s.ep /\ app' = s.app /\ odd' = s.odd

Refused(s) == IF "xfer" \in Trouble THEN {[s EXCEPT !.odd = @ \cup {"eio"}]} ELSE {}

BugTryFeed(s) == {s}    \* the next buffer waits for the next call
TryFeed(s) ==
    IF s.ep.fifo = <<>> \/ s.ep.busy THEN {s}
    ELSE {[s EXCEPT !.ep.busy = TRUE, !.ep.hw = Data(Head(s.ep.fifo))]} \cup Refused(s)

(* The buffer at the head goes back to the stack as complete, and the next  *)
(* one is fed.                                                              *)
GiveBack(s, d) ==
    LET b   == Head(s.ep.fifo)
        bad == (IF b # d.buf THEN {"other"} ELSE {})
               \cup (IF s.app.due[b] # 0 THEN {"short"} ELSE {})
        a   == [s.app EXCEPT !.bad = @ \cup bad]
    IN  TryFeed([s EXCEPT !.ep.fifo = Tail(@), !.ep.busy = FALSE, !.app = Give(a, {b})])

HandlerZlt(s, b) ==     \* udc_hpm_handler_zlt: a zero-length packet follows the data
    IF b \in s.app.zlp THEN {[s EXCEPT !.app.zlp = @ \ {b}, !.ep.hw = Zlp(b)]} ELSE {}

HandlerIn(s, d) ==      \* udc_hpm_handler_in
    IF s.ep.fifo = <<>> THEN {s}    \* UDC_EVT_ERROR, busy stays
    ELSE LET b == Head(s.ep.fifo)
             z == HandlerZlt(s, b)
         IN  IF z = {} THEN GiveBack(s, d)
             ELSE z \cup UNION {GiveBack([r EXCEPT !.app.zlp = @ \ {b}], d) : r \in Refused(s)}

HandlerOut(s, d) ==     \* udc_hpm_handler_out
    IF s.ep.fifo = <<>> THEN {[s EXCEPT !.ep.busy = FALSE]} ELSE GiveBack(s, d)

TransferDone ==         \* the host took or sent the data
    /\ ep.hw # NoXfer /\ ~ep.stall
    /\ LET s == [State EXCEPT !.ep.hw = NoXfer, !.app.due[ep.hw.buf] = IF @ = 0 THEN 0 ELSE @ - 1]
       IN  \E n \in IF dir = "in" THEN HandlerIn(s, ep.hw) ELSE HandlerOut(s, ep.hw) :
             Becomes(n)
    /\ UNCHANGED <<dir, pc, peeked>>

TransferError ==        \* halted, xact_err or buffer_err: ep_cb_req = false
    /\ ep.hw # NoXfer /\ "error" \in Trouble
    /\ ep' = [ep EXCEPT !.hw = NoXfer]
    /\ odd' = Dead
    /\ UNCHANGED <<dir, pc, peeked, app>>

BusReset ==             \* usb_device_bus_reset flushes the endpoints
    /\ "reset" \in Trouble
    /\ ep' = [ep EXCEPT !.hw = NoXfer]
    /\ odd' = Dead
    /\ UNCHANGED <<dir, pc, peeked, app>>
-------------------------------------------------------------------------------
Call == Peek \/ Claim \/ Xfer \/ Undo \/ Unmark

Next ==
    \/ Enqueue \/ Call \/ XferFails \/ Dequeue \/ SetHalt \/ ClearHalt \/ Disable
    \/ TransferDone \/ TransferError \/ BusReset

Spec == Init /\ [][Next]_vars

(* A call goes on, and the host goes on polling the endpoint.               *)
FairSpec == Spec /\ WF_vars(Call) /\ WF_vars(TransferDone)
-------------------------------------------------------------------------------
(* Properties.  The exceptions in odd: "stale", two completions between the *)
(* look at the queue and the claim of the endpoint, so that a buffer the    *)
(* stack has back is transferred again; "live", a dequeue under a running   *)
(* transfer; "eio", the controller refused a transfer; "dead", a transfer   *)
(* was broken off and no dequeue has cleared busy since.                    *)

(* A buffer reported complete is the one the controller transferred, data   *)
(* first and then the zero-length packet if it asked for one.               *)
ReportedIsTransferred == app.bad = {} \/ odd \cap {"stale", "live", "eio"} # {}

(* The controller does not work on a buffer the stack has back.             *)
InFlightIsQueued ==
    \/ ep.hw = NoXfer \/ odd \cap {"stale", "live"} # {}
    \/ ep.hw.buf \in ToSet(ep.fifo) \ app.owns

(* An endpoint marked busy has a transfer that will clear the mark, and a   *)
(* disable or reset followed by a dequeue makes it usable again.            *)
BusyIsOwed ==
    ep.busy => ep.hw # NoXfer \/ pc \in {"xfer", "undo", "unmark"} \/ odd \cap {"dead", "stale"} # {}

(* A queued buffer comes back, unless something broke or the host is        *)
(* stalled.                                                                 *)
ComesBack(b) == b \in ToSet(ep.fifo) ~> (b \in app.owns \/ odd # {} \/ ep.stall)
EnqueuedReturns == \A b \in Bufs : ComesBack(b)
===============================================================================
