-------------------------------- MODULE GpioPort --------------------------------
(***************************************************************************)
(* drivers/gpio/gpio_hpmicro.c, one port: the writes of its users to their   *)
(* pins.                                                                     *)
(***************************************************************************)
CONSTANTS Users, Pins

VARIABLES
  out, oe,      \* DO and OE of the port
  writes,       \* per user: the masked write between its read and its write
  wanted,       \* pins their user wants high
  gpioOdd       \* history: what the property excuses

gpioVars == <<out, oe, writes, wanted, gpioOdd>>

NoWrite == [busy |-> FALSE, read |-> {}, mask |-> {}, high |-> {}]

TypeOK ==
    /\ out \subseteq Pins /\ oe \subseteq Pins /\ wanted \subseteq Pins
    /\ writes \in [Users -> [busy : BOOLEAN, read : SUBSET Pins, mask : SUBSET Pins, high : SUBSET Pins]]
    /\ gpioOdd \subseteq {"raced"}

Init ==
    /\ out = {} /\ oe = {} /\ wanted = {} /\ gpioOdd = {}
    /\ writes = [u \in Users |-> NoWrite]

Free(u) == ~writes[u].busy /\ gpioOdd = {}      \* bound: nothing begins after a race
(* Another user's write lands between a masked write's read and its write.  *)
Races(u, pins) == gpioOdd' = gpioOdd \cup
    (IF \E v \in Users \ {u} : writes[v].busy /\ pins \ writes[v].mask # {} THEN {"raced"} ELSE {})
-------------------------------------------------------------------------------
Configure(u, p) ==      \* input and output at once and other refused flags change nothing
    /\ Free(u) /\ UNCHANGED writes
    /\ \/ oe' = oe \ {p} /\ UNCHANGED <<out, wanted, gpioOdd>>
       \/ /\ oe' = oe \cup {p} /\ Races(u, {p})
          /\ \/ out' = out \cup {p} /\ wanted' = wanted \cup {p}
             \/ out' = out \ {p} /\ wanted' = wanted \ {p}
             \/ UNCHANGED out /\ wanted' = (wanted \ {p}) \cup (out \cap {p})   \* as the latch is

SetBits(u, pins) ==
    /\ Free(u) /\ out' = out \cup pins /\ wanted' = wanted \cup pins /\ Races(u, pins)
    /\ UNCHANGED <<oe, writes>>
ClearBits(u, pins) ==
    /\ Free(u) /\ out' = out \ pins /\ wanted' = wanted \ pins /\ Races(u, pins)
    /\ UNCHANGED <<oe, writes>>
ToggleBits(u, pins) ==
    /\ Free(u) /\ pins \subseteq oe /\ Races(u, pins)
    /\ out' = (out \ pins) \cup (pins \ out)
    /\ wanted' = (wanted \ pins) \cup (pins \ wanted)
    /\ UNCHANGED <<oe, writes>>

(* set_masked_raw reads the port, outputs as driven and inputs as they are, *)
(* and takes the pins that are not outputs from the mask.                   *)
MaskedRead(u) ==
    /\ Free(u)
    /\ \E mask \in SUBSET Pins, high \in SUBSET Pins, level \in SUBSET (Pins \ oe) :
         writes' = [writes EXCEPT ![u] = [busy |-> TRUE, read |-> (out \cap oe) \cup level,
                                          mask |-> mask \cap oe, high |-> high \cap mask \cap oe]]
    /\ UNCHANGED <<out, oe, wanted, gpioOdd>>

Merged(w)    == (w.read \ w.mask) \cup w.high

MaskedWrite(u) ==
    LET w == writes[u] IN
    /\ w.busy /\ writes' = [writes EXCEPT ![u] = NoWrite]
    /\ IF w.mask = {} THEN UNCHANGED <<out, wanted, gpioOdd>>
       ELSE out' = Merged(w) /\ wanted' = (wanted \ w.mask) \cup w.high /\ Races(u, Pins)
    /\ UNCHANGED oe

Next == \E u \in Users :
    \/ \E p \in Pins : Configure(u, p)
    \/ \E pins \in SUBSET Pins : SetBits(u, pins) \/ ClearBits(u, pins) \/ ToggleBits(u, pins)
    \/ MaskedRead(u) \/ MaskedWrite(u)

Spec == Init /\ [][Next]_gpioVars
-------------------------------------------------------------------------------
(* An output has the level its user wants, whatever others do to the other  *)
(* pins of the port, unless a masked write read the port before and wrote   *)
(* it after another user's write.                                           *)
GpioPinIsOwn == gpioOdd = {} => out \cap oe = wanted \cap oe
===============================================================================
