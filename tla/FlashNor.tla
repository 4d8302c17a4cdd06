------------------------------- MODULE FlashNor -------------------------------
(***************************************************************************)
(* The XPI NOR flash, drivers/flash/flash_hpmicro.c: initialisation on      *)
(* first use when it failed at boot, and reads, programs and erases, each   *)
(* under irq_lock.  Addresses and sizes are in units of 4 bytes; size 0     *)
(* stands for less than that.                                               *)
(***************************************************************************)
EXTENDS Naturals

CONSTANTS Threads, SectorUnits, Sectors, MaxSize

VARIABLES
  initted, configured,  \* the flag, and whether s_xpi_nor_config holds the flash's properties
  initing,              \* threads that set the flag and have not called rom_xpi_nor_auto_config yet
  waiting,              \* per thread: its call after that, <<>> when it makes none
  mem,                  \* per unit: "erased", "data" or "garbled"
  returned,             \* what a call returned in the last step: "none", "ok" or "error"
  halted                \* "no", "thread" (loops for ever), "system" (loops with interrupts locked)

flashVars == <<initted, configured, initing, waiting, mem, returned, halted>>

Units == 0..Sectors * SectorUnits - 1
Ops == {"read", "write", "erase"}
Calls == {c \in Ops \X Units \X (0..MaxSize) :          \* operation, offset, size
             /\ c[2] + c[3] <= Sectors * SectorUnits
             /\ c[1] = "read" => c[2] = 0 /\ c[3] = 1    \* where from is all the same,
             /\ c[1] = "write" => c[3] = SectorUnits}     \* and one size of writes will do

TypeOK ==
    /\ initted \in BOOLEAN /\ configured \in BOOLEAN /\ initing \subseteq Threads
    /\ waiting \in [Threads -> Calls \cup {<<>>}]
    /\ mem \in [Units -> {"erased", "data", "garbled"}]
    /\ returned \in {"none", "ok", "error"} /\ halted \in {"no", "thread", "system"}

Init ==                 \* flash_hpmicro_init at boot worked, or did not
    /\ initted \in BOOLEAN /\ configured = initted /\ initing = {}
    /\ waiting = [t \in Threads |-> <<>>]
    /\ mem = [u \in Units |-> "data"] /\ returned = "none" /\ halted = "no"
-------------------------------------------------------------------------------
(* The flag is set before the initialisation it stands for.                 *)
Call(t) ==
    /\ halted # "system" /\ waiting[t] = <<>>
    /\ \E c \in Calls : waiting' = [waiting EXCEPT ![t] = c]
    /\ initing' = IF initted THEN initing ELSE initing \cup {t}
    /\ initted' = TRUE
    /\ returned' = "none"
    /\ UNCHANGED <<configured, mem, halted>>

InitOnUse(t) ==         \* its result is not looked at
    /\ halted # "system" /\ t \in initing
    /\ initing' = initing \ {t}
    /\ configured' \in BOOLEAN
    /\ returned' = "none"
    /\ UNCHANGED <<initted, waiting, mem, halted>>

Ready(t, op) == halted # "system" /\ t \notin initing /\ waiting[t] # <<>> /\ waiting[t][1] = op
Done(t) == waiting' = [waiting EXCEPT ![t] = <<>>]

Read(t) ==
    /\ Ready(t, "read") /\ Done(t)
    /\ returned' \in IF configured THEN {"ok", "error"} ELSE {"error"}
    /\ UNCHANGED <<initted, configured, initing, mem, halted>>

(* Programming what is not erased spoils it; the ROM may give up after any  *)
(* part of it, and refuses with the properties of the flash unknown.        *)
Write(t) ==
    /\ Ready(t, "write") /\ Done(t)
    /\ \E n \in 0..waiting[t][3] :
         /\ configured \/ n = 0
         /\ mem' = [u \in Units |-> IF u \notin waiting[t][2] .. waiting[t][2] + n - 1 THEN mem[u]
                                   ELSE IF mem[u] = "erased" THEN "data" ELSE "garbled"]
         /\ returned' \in IF configured /\ n = waiting[t][3] THEN {"ok", "error"} ELSE {"error"}
    /\ UNCHANGED <<initted, configured, initing, halted>>

(* The sectors of offset + i, for i = 0, sector size, ... below size.       *)
BugSectorsErased(off, size) == {(off + i * SectorUnits) \div SectorUnits : i \in 0..(size \div SectorUnits)}
SectorsErased(off, size) ==
    {(off + i * SectorUnits) \div SectorUnits : i \in {j \in 0..size : j * SectorUnits < size}}

Erase(t) ==
    /\ Ready(t, "erase") /\ configured /\ waiting[t][3] > 0
    /\ Done(t)
    /\ mem' = [u \in Units |-> IF u \div SectorUnits \in SectorsErased(waiting[t][2], waiting[t][3])
                              THEN "erased" ELSE mem[u]]
    /\ returned' = "ok"
    /\ UNCHANGED <<initted, configured, initing, halted>>

(* The ROM fails at sector n, refusing it, half way or at the end: those    *)
(* before it are erased, and the loop stops there.                          *)
EraseFails(t) ==
    /\ Ready(t, "erase") /\ configured /\ waiting[t][3] > 0
    /\ Done(t)
    /\ \E n \in SectorsErased(waiting[t][2], waiting[t][3]), left \in {"as it was", "erased", "garbled"} :
         mem' = [u \in Units |->
                   IF u \div SectorUnits \in SectorsErased(waiting[t][2], waiting[t][3]) /\ u \div SectorUnits < n
                   THEN "erased"
                   ELSE IF u \div SectorUnits = n /\ left # "as it was" THEN left ELSE mem[u]]
    /\ returned' = "error"
    /\ UNCHANGED <<initted, configured, initing, halted>>

(* Sizes below 4 bytes are answered by while (1); with no sector size known *)
(* the ROM refuses, or the loop does not advance, interrupts locked.        *)
EraseStuck(t) ==
    /\ Ready(t, "erase") /\ (waiting[t][3] = 0 \/ ~configured)
    /\ IF waiting[t][3] = 0 THEN halted' = "thread" /\ waiting' = waiting /\ returned' = "none"
       ELSE \/ halted' = "system" /\ waiting' = waiting /\ returned' = "none"
            \/ halted' = halted /\ Done(t) /\ returned' = "error"
    /\ UNCHANGED <<initted, configured, initing, mem>>

Next == \E t \in Threads : \/ Call(t) \/ InitOnUse(t) \/ Read(t) \/ Write(t)
                          \/ Erase(t) \/ EraseFails(t) \/ EraseStuck(t)

Spec == Init /\ [][Next]_flashVars
-------------------------------------------------------------------------------
(* An erase goes through the sectors its range touches, in order, up to a   *)
(* sector n, whatever the offset and the size: those before n are erased    *)
(* and no other sector changes.  When it returned 0 it went through to the  *)
(* last; that one is erased too if the offset is the start of a sector      *)
(* (otherwise the end of the range may be left).  With the properties of    *)
(* the flash unknown it changes nothing.                                    *)
EraseIsExact ==
    [][\A t \in Threads :
         LET c == waiting[t]
             first == c[2] \div SectorUnits
             last == (c[2] + c[3] - 1) \div SectorUnits
         IN (c # <<>> /\ c[1] = "erase" /\ waiting'[t] = <<>>) =>
              /\ ~configured => mem' = mem
              /\ \E n \in first..last :
                   /\ \A u \in Units : u \div SectorUnits \in first..n - 1 => mem'[u] = "erased"
                   /\ \A u \in Units : u \div SectorUnits \notin first..n => mem'[u] = mem[u]
                   /\ returned' = "ok" =>
                        /\ n = last
                        /\ c[2] % SectorUnits = 0 =>
                             \A u \in Units : u \div SectorUnits = n => mem'[u] = "erased"]_flashVars
===============================================================================
