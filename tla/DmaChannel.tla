------------------------------- MODULE DmaChannel -------------------------------
(***************************************************************************)
(* One channel of the DMA driver, drivers/dma/dma_hpmicro.c (and            *)
(* dmav2_hpmicro.c, the same code for the second controller): the driver's  *)
(* record of the channel and the controller's, and what each driver call    *)
(* does to them.  The drivers that use DMA build their actions from these.  *)
(***************************************************************************)
EXTENDS Integers

CONSTANTS NoBuf         \* the channel has no address

Flags == {"TC", "ERR"}

Channels(bufs, max) ==
    [valid : BOOLEAN, busy : BOOLEAN, addr : bufs \cup {NoBuf},
     en : BOOLEAN, remain : 0..max, flags : SUBSET Flags]

Unused == [valid |-> FALSE, busy |-> FALSE, addr |-> NoBuf,
           en |-> FALSE, remain |-> 0, flags |-> {}]
-------------------------------------------------------------------------------
(* Driver calls.  Those the driver refuses leave the channel as it is.      *)

Config(c, a, n) ==      \* aborts a running transfer and sets up the next, disabled
    [valid |-> TRUE, busy |-> FALSE, addr |-> a, en |-> FALSE, remain |-> n, flags |-> {}]

Start(c) == IF c.valid THEN [c EXCEPT !.busy = TRUE, !.en = TRUE] ELSE c

Stop(c) ==
    IF c.busy THEN [c EXCEPT !.valid = FALSE, !.busy = FALSE, !.en = FALSE, !.flags = {}]
              ELSE [c EXCEPT !.valid = FALSE]

Suspend(c) == IF c.busy THEN [c EXCEPT !.en = FALSE] ELSE c
Resume(c)  == IF c.busy THEN [c EXCEPT !.en = TRUE] ELSE c

Pending(c) == IF c.busy THEN c.remain ELSE 0     \* pending_length of get_status

Finished(c)  == c.flags # {}                     \* the interrupt handler finds it...
Succeeded(c) == "TC" \in c.flags
Served(c) == [c EXCEPT !.flags = {}, !.busy = FALSE]    \* ...and calls back after this
-------------------------------------------------------------------------------
(* The controller                                                           *)

Beat(c) ==              \* one unit moved; the last one ends the transfer
    [c EXCEPT !.remain = @ - 1, !.en = (c.remain > 1),
              !.flags = IF c.remain = 1 THEN @ \cup {"TC"} ELSE @]

CanBeat(c) == c.en /\ c.remain > 0

(* A transfer of nothing, or a bus error, ends at once; enabling a channel  *)
(* with nothing left may count as either outcome.                           *)
End(c, flag) == [c EXCEPT !.en = FALSE, !.flags = @ \cup {flag}]
===============================================================================
