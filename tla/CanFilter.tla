------------------------------- MODULE CanFilter -------------------------------
(***************************************************************************)
(* Receive filters of the CAST CAN driver, drivers/can/can_hpmicro.c:       *)
(* hpm_can_add_rx_filter and hpm_can_remove_rx_filter run by client threads *)
(* under inst_mutex, and the receive part of hpm_can_isr, which interrupts  *)
(* them between any two steps, finds the filter of a frame in software and  *)
(* calls back.  A frame is reduced to its identifier and its RTR bit, a     *)
(* filter to the set of identifiers its mask lets through and its RTR flag. *)
(***************************************************************************)
EXTENDS Integers, Sequences, FiniteSets

CONSTANTS Clients,      \* threads that add and remove filters
          Ids,          \* frame identifiers
          ZeroId,       \* identifier 0, what an all-zero filter entry matches
          Rtrs,         \* RTR bits in use, a subset of BOOLEAN
          Patterns,     \* sets of identifiers a filter may let through
          MaxFilters,   \* HPM_CAN_FILTER_NUM_MAX
          MaxAdds,      \* bound: add calls made in a run
          FifoDepth,    \* frames the receive buffer holds
          MaxBurst,     \* bound: frames that arrive while one ISR runs
          MayRemove,    \* do clients remove filters?
          NoClient

ASSUME FilterBounds == /\ MaxFilters \in Nat \ {0} /\ MaxAdds \in Nat
                       /\ FifoDepth \in Nat \ {0} /\ MaxBurst \in Nat
ASSUME FilterSets == /\ ZeroId \in Ids /\ Rtrs \subseteq BOOLEAN /\ MayRemove \in BOOLEAN
                     /\ Patterns \subseteq SUBSET Ids
                     /\ NoClient \notin Clients

Frames   == [id : Ids, rtr : Rtrs]
Regs     == 1..MaxAdds          \* an add call; its callback and its user_data
None     == 0                   \* NULL callback or user_data
Slots    == 0..(MaxFilters - 1)
ZeroEntry == [index |-> 0, pat |-> {ZeroId}]

VARIABLES
  (* struct hpm_can_data *)
  count, list, rtr, rxCb, rxArg, mutex,
  (* client threads *)
  pc, reg, loc, mine,
  (* controller: programmed filters, receive buffer, RIF; and the ISR *)
  hwList, fifo, rif, isr, burst,
  (* history *)
  asked, adds, live, leaks, removed, last

dataVars   == <<count, list, rtr, rxCb, rxArg, mutex>>
clientVars == <<pc, reg, loc, mine>>
hwVars     == <<hwList, fifo, rif, isr, burst>>
history    == <<asked, adds, live, leaks, removed, last>>
vars       == <<dataVars, clientVars, hwVars, history>>

Steps == {"idle", "addLock", "reserve", "fill", "mask", "rtr", "rtrMask", "init", "storeCb", "storeArg",
          "unlock", "remLock", "scan", "shrink", "remUnlock"}
NoReport == [reg |-> None, arg |-> None, due |-> {}, owed |-> {}]

TypeOK ==
    /\ count \in 0..MaxFilters
    /\ list \in [Slots -> [index : Slots, pat : SUBSET Ids]]
    /\ rtr \in [Slots -> SUBSET BOOLEAN]
    /\ rxCb \in [Slots -> Regs \cup {None}] /\ rxArg \in [Slots -> Regs \cup {None}]
    /\ mutex \in [owner : Clients \cup {NoClient}, depth : 0..(MaxAdds + 1)]
    /\ pc \in [Clients -> Steps]
    /\ reg \in [Clients -> Regs \cup {None}]
    /\ loc \in [Clients -> [id : Slots, i : 0..MaxFilters, last : Slots]]
    /\ mine \in [Clients -> SUBSET (Slots \X Regs)]
    /\ hwList \subseteq Patterns /\ fifo \in Seq(Frames) /\ Len(fifo) <= FifoDepth
    /\ rif \in BOOLEAN /\ isr \in {"off", "drain", "clear"} /\ burst \in 0..MaxBurst
    /\ asked \in [Regs -> [pat : SUBSET Ids, rtr : BOOLEAN]] /\ removed \in BOOLEAN
    /\ adds \in 0..MaxAdds /\ leaks \in 0..MaxAdds /\ live \subseteq Regs

Init ==
    /\ count = 0 /\ list = [s \in Slots |-> ZeroEntry] /\ rtr = [s \in Slots |-> {FALSE}]
    /\ rxCb = [s \in Slots |-> None] /\ rxArg = [s \in Slots |-> None]
    /\ mutex = [owner |-> NoClient, depth |-> 0]
    /\ pc = [c \in Clients |-> "idle"] /\ reg = [c \in Clients |-> None]
    /\ loc = [c \in Clients |-> [id |-> 0, i |-> 0, last |-> 0]]
    /\ mine = [c \in Clients |-> {}]
    /\ hwList = {} /\ fifo = <<>> /\ rif = FALSE /\ isr = "off" /\ burst = 0
    /\ asked = [r \in Regs |-> [pat |-> Ids, rtr |-> FALSE]] /\ adds = 0 /\ live = {}
    /\ leaks = 0 /\ removed = FALSE /\ last = NoReport

Goto(c, l) == pc' = [pc EXCEPT ![c] = l]
Thread(c, l) == isr = "off" /\ pc[c] = l    \* the ISR runs above every thread

Lock(c) ==          \* k_mutex_lock(&inst_mutex, K_FOREVER); a mutex is recursive
    /\ mutex.owner \in {NoClient, c}
    /\ mutex' = [owner |-> c, depth |-> mutex.depth + 1]

Unlock(c) ==
    mutex' = IF mutex.depth = 1 THEN [owner |-> NoClient, depth |-> 0]
                                ELSE [mutex EXCEPT !.depth = @ - 1]

Reinit(n, entries) ==       \* can_init: program the first n entries, flush the buffer
    /\ hwList' = {entries[s].pat : s \in 0..(n - 1)}
    /\ fifo' = <<>> /\ rif' = FALSE
-------------------------------------------------------------------------------
(* hpm_can_add_rx_filter                                                    *)

AddCall(c) ==
    /\ Thread(c, "idle") /\ adds < MaxAdds
    /\ adds' = adds + 1
    /\ reg' = [reg EXCEPT ![c] = adds']
    /\ \E p \in Patterns, b \in Rtrs :
         asked' = [asked EXCEPT ![adds'] = [pat |-> p, rtr |-> b]]
    /\ Goto(c, "addLock")
    /\ UNCHANGED <<dataVars, loc, mine, hwVars, live, leaks, removed, last>>

AddLock(c) ==
    /\ Thread(c, "addLock")
    /\ Lock(c)
    /\ Goto(c, "reserve")
    /\ UNCHANGED <<count, list, rtr, rxCb, rxArg, reg, loc, mine, hwVars, history>>

HasRoom == count < MaxFilters

Reserve(c) ==       \* a full list returns -ENOSPC from here, inst_mutex still locked
    /\ Thread(c, "reserve")
    /\ IF HasRoom
         THEN /\ loc' = [loc EXCEPT ![c].id = count]
              /\ count' = count + 1
              /\ Goto(c, "fill")
              /\ UNCHANGED <<reg, leaks>>
         ELSE /\ Goto(c, "idle")
              /\ reg' = [reg EXCEPT ![c] = None]
              /\ leaks' = leaks + 1
              /\ UNCHANGED <<loc, count>>
    /\ UNCHANGED <<list, rtr, rxCb, rxArg, mutex, mine, hwVars, asked, adds, live, removed, last>>

(* The entry is already counted: until its mask is stored it may match any  *)
(* identifiers, until both RTR bits are, filter_rtr and filter_rtr_mask may *)
(* differ and no frame match.                                               *)
Store(c, pat) == list' = [list EXCEPT ![loc[c].id] = [index |-> loc[c].id, pat |-> pat]]

Fill(c) ==          \* index, id_mode and code
    /\ Thread(c, "fill")
    /\ \E torn \in SUBSET Ids : Store(c, torn)
    /\ Goto(c, "mask")
    /\ UNCHANGED <<count, rtr, rxCb, rxArg, mutex, reg, loc, mine, hwVars, history>>

FillMask(c) ==
    /\ Thread(c, "mask")
    /\ Store(c, asked[reg[c]].pat)
    /\ Goto(c, "rtr")
    /\ UNCHANGED <<count, rtr, rxCb, rxArg, mutex, reg, loc, mine, hwVars, history>>

FillRtr(c) ==
    /\ Thread(c, "rtr")
    /\ rtr' = [rtr EXCEPT ![loc[c].id] = @ \cup {asked[reg[c]].rtr}]
    /\ Goto(c, "rtrMask")
    /\ UNCHANGED <<count, list, rxCb, rxArg, mutex, reg, loc, mine, hwVars, history>>

FillRtrMask(c) ==
    /\ Thread(c, "rtrMask")
    /\ rtr' = [rtr EXCEPT ![loc[c].id] = {asked[reg[c]].rtr}]
    /\ Goto(c, "init")
    /\ UNCHANGED <<count, list, rxCb, rxArg, mutex, reg, loc, mine, hwVars, history>>

AddInit(c) ==
    /\ Thread(c, "init")
    /\ Reinit(count, list)
    /\ Goto(c, "storeCb")
    /\ UNCHANGED <<dataVars, reg, loc, mine, isr, burst, history>>

StoreCb(c) ==
    /\ Thread(c, "storeCb")
    /\ rxCb' = [rxCb EXCEPT ![loc[c].id] = reg[c]]
    /\ live' = live \cup {reg[c]}
    /\ Goto(c, "storeArg")
    /\ UNCHANGED <<count, list, rtr, rxArg, mutex, reg, loc, mine, hwVars, asked, adds, leaks, removed, last>>

BugStoreArg(c) ==   \* user_data of every filter kept in one place
    /\ Thread(c, "storeArg")
    /\ rxArg' = [s \in Slots |-> reg[c]]
    /\ Goto(c, "unlock")
    /\ UNCHANGED <<count, list, rtr, rxCb, mutex, reg, loc, mine, hwVars, history>>
StoreArg(c) ==
    /\ Thread(c, "storeArg")
    /\ rxArg' = [rxArg EXCEPT ![loc[c].id] = reg[c]]
    /\ Goto(c, "unlock")
    /\ UNCHANGED <<count, list, rtr, rxCb, mutex, reg, loc, mine, hwVars, history>>

AddReturn(c) ==     \* unlock and return filter_id
    /\ Thread(c, "unlock")
    /\ Unlock(c)
    /\ mine' = [mine EXCEPT ![c] = @ \cup {<<loc[c].id, reg[c]>>}]
    /\ reg' = [reg EXCEPT ![c] = None]
    /\ Goto(c, "idle")
    /\ UNCHANGED <<count, list, rtr, rxCb, rxArg, loc, hwVars, history>>
-------------------------------------------------------------------------------
(* hpm_can_remove_rx_filter, for an identifier the client was given         *)

RemoveCall(c) ==
    /\ Thread(c, "idle") /\ MayRemove
    /\ \E m \in mine[c] :
         /\ reg' = [reg EXCEPT ![c] = m[2]]
         /\ loc' = [loc EXCEPT ![c].id = m[1]]
         /\ mine' = [mine EXCEPT ![c] = @ \ {m}]
    /\ Goto(c, "remLock")
    /\ UNCHANGED <<dataVars, hwVars, history>>

RemoveLock(c) ==    \* nothing to do when the list is empty
    /\ Thread(c, "remLock")
    /\ Lock(c)
    /\ IF count > 0
         THEN /\ loc' = [loc EXCEPT ![c].i = 0, ![c].last = count - 1]
              /\ Goto(c, "scan")
         ELSE Goto(c, "remUnlock") /\ UNCHANGED loc
    /\ UNCHANGED <<count, list, rtr, rxCb, rxArg, reg, mine, hwVars, history>>

NextEntry(c) == loc' = [loc EXCEPT ![c].i = @ + 1]

(* The fields of the entry are copied in one step: who hears a frame after  *)
(* a removal is the business of LiveIsReachable, not of the other           *)
(* properties.                                                              *)
Scan(c) ==          \* an entry with this index is overwritten by the last one
    /\ Thread(c, "scan") /\ loc[c].i < count
    /\ IF list[loc[c].i].index = loc[c].id
         THEN /\ list' = IF loc[c].i = count - 1 THEN list
                         ELSE [list EXCEPT ![loc[c].i] = list[loc[c].last]]
              /\ removed' = TRUE
              /\ Goto(c, "shrink")
              /\ UNCHANGED loc
         ELSE NextEntry(c) /\ UNCHANGED <<list, pc, removed>>
    /\ UNCHANGED <<count, rtr, rxCb, rxArg, mutex, reg, mine, hwVars,
                   asked, adds, live, leaks, last>>

BugShrink(c) ==     \* the controller is programmed before the count drops
    /\ Thread(c, "shrink")
    /\ count' = count - 1
    /\ Reinit(count, list)
    /\ NextEntry(c)
    /\ Goto(c, "scan")
    /\ UNCHANGED <<list, rtr, rxCb, rxArg, mutex, reg, mine, isr, burst, history>>
Shrink(c) ==        \* and the loop goes on
    /\ Thread(c, "shrink")
    /\ count' = count - 1
    /\ Reinit(count', list)
    /\ NextEntry(c)
    /\ Goto(c, "scan")
    /\ UNCHANGED <<list, rtr, rxCb, rxArg, mutex, reg, mine, isr, burst, history>>

ScanEnds(c) ==
    /\ Thread(c, "scan") /\ loc[c].i >= count
    /\ Goto(c, "remUnlock")
    /\ UNCHANGED <<dataVars, reg, loc, mine, hwVars, history>>

RemoveReturn(c) ==
    /\ Thread(c, "remUnlock")
    /\ Unlock(c)
    /\ live' = live \ {reg[c]}
    /\ reg' = [reg EXCEPT ![c] = None]
    /\ Goto(c, "idle")
    /\ UNCHANGED <<count, list, rtr, rxCb, rxArg, loc, mine, hwVars, asked, adds, leaks, removed, last>>
-------------------------------------------------------------------------------
(* Reception.  The controller takes a frame some programmed filter lets     *)
(* through (any frame while none is programmed) and raises RIF.             *)

Arrive(f) ==
    /\ Len(fifo) < FifoDepth
    /\ isr # "off" => burst < MaxBurst
    /\ burst' = IF isr = "off" THEN 0 ELSE burst + 1
    /\ hwList = {} \/ \E p \in hwList : f.id \in p
    /\ fifo' = Append(fifo, f)
    /\ rif' = TRUE
    /\ UNCHANGED <<dataVars, clientVars, hwList, isr, history>>

IsrEnter ==         \* hpm_can_isr sees CAN_EVENT_RECEIVE
    /\ isr = "off" /\ rif
    /\ isr' = "drain"
    /\ burst' = 0
    /\ UNCHANGED <<dataVars, clientVars, hwList, fifo, rif, history>>

FirstMatch(f) ==    \* hpm_can_get_first_filter_index; {} when no entry matches
    LET hits == {s \in 0..(count - 1) : f.id \in list[s].pat}
    IN  {s \in hits : \A u \in hits : s <= u}

Alike(f)  == {r \in live : f.id \in asked[r].pat}
Wanted(f) == {r \in Alike(f) : f.rtr = asked[r].rtr}
Owed(f)   == IF Alike(f) = Wanted(f) THEN Wanted(f) ELSE {}

RtrMatches(s, f) == rtr[s] = {f.rtr}

Deliver(f) ==       \* the callback called for f, if any, and who should have it
    \/ \E n \in FirstMatch(f) :
         /\ RtrMatches(n, f) /\ rxCb[n] # None
         /\ last' = [reg |-> rxCb[n], arg |-> rxArg[n], due |-> Wanted(f), owed |-> Owed(f)]
    \/ /\ ~\E n \in FirstMatch(f) : RtrMatches(n, f) /\ rxCb[n] # None
       /\ last' = [NoReport EXCEPT !.due = Wanted(f), !.owed = Owed(f)]

BugGetMessage ==    \* one frame per interrupt
    /\ isr = "drain" /\ fifo # <<>>
    /\ fifo' = Tail(fifo)
    /\ Deliver(Head(fifo))
    /\ isr' = "clear"
    /\ UNCHANGED <<dataVars, clientVars, hwList, rif, burst, asked, adds, live, leaks, removed>>
GetMessage ==
    /\ isr = "drain" /\ fifo # <<>>
    /\ fifo' = Tail(fifo)
    /\ Deliver(Head(fifo))
    /\ UNCHANGED <<dataVars, clientVars, hwList, rif, isr, burst, asked, adds, live, leaks, removed>>

Drained ==          \* can_is_data_available_in_receive_buffer says no
    /\ isr = "drain" /\ fifo = <<>>
    /\ isr' = "clear"
    /\ last' = NoReport
    /\ UNCHANGED <<dataVars, clientVars, hwList, fifo, rif, burst,
                   asked, adds, live, leaks, removed>>

IsrClear ==         \* can_clear_tx_rx_flags(CAN_EVENT_RECEIVE), return
    /\ isr = "clear"
    /\ rif' = FALSE
    /\ isr' = "off"
    /\ UNCHANGED <<dataVars, clientVars, hwList, fifo, burst, history>>
-------------------------------------------------------------------------------
FillEntry(c) == Fill(c) \/ FillMask(c) \/ FillRtr(c) \/ FillRtrMask(c)
Add(c) == AddCall(c) \/ AddLock(c) \/ Reserve(c) \/ FillEntry(c) \/ AddInit(c)
             \/ StoreCb(c) \/ StoreArg(c) \/ AddReturn(c)
Remove(c) == RemoveCall(c) \/ RemoveLock(c) \/ Scan(c) \/ Shrink(c) \/ ScanEnds(c)
             \/ RemoveReturn(c)
Isr == IsrEnter \/ GetMessage \/ Drained \/ IsrClear

Next == (\E c \in Clients : Add(c) \/ Remove(c)) \/ (\E f \in Frames : Arrive(f)) \/ Isr

Spec == Init /\ [][Next]_vars

(* Threads run when the ISR is not running, and the bus keeps delivering.   *)
Fairness ==
    /\ \A c \in Clients : SF_vars((Add(c) \/ Remove(c)) /\ pc[c] # "idle")
    /\ WF_vars(Isr) /\ \A f \in Frames : SF_vars(Arrive(f))

FairSpec == Spec /\ Fairness
-------------------------------------------------------------------------------
(* Properties                                                               *)

(* Until a filter is removed, a frame goes to a callback whose registration *)
(* asked for it, and to none only when nobody did or another registration   *)
(* asked for the same identifier with the other RTR bit; and the callback   *)
(* is given its own user_data, or NULL between the two stores of            *)
(* add_rx_filter, never that of another registration.                       *)
DeliveredToOwner ==
    removed \/ IF last.reg = None THEN last.owed = {}
                ELSE last.reg \in last.due /\ last.arg \in {None, last.reg}

(* Outside a call, and between those that are waiting for the mutex, the    *)
(* programmed filters are the first `count` entries of the software list.   *)
HwInSync ==
    (\A c \in Clients : pc[c] \in {"idle", "addLock", "remLock"})
       => hwList = {list[s].pat : s \in 0..(count - 1)}

(* inst_mutex excludes, and every path through the two calls gives back the *)
(* lock it took, except an add that finds the list full.                    *)
Inside(c) == pc[c] \notin {"idle", "addLock", "remLock"}
MutexDiscipline ==
    /\ \A c \in Clients : Inside(c) => mutex.owner = c
    /\ mutex.depth = leaks + (IF \E c \in Clients : Inside(c) THEN 1 ELSE 0)

(* Types, list and lock together.                                           *)
ListIsSound == TypeOK /\ HwInSync /\ MutexDiscipline

(* Between calls every live registration has an entry of the list that      *)
(* leads to its callback and its user_data.                                 *)
Reachable(r) ==
    \E n \in 0..(count - 1) : /\ list[n].pat = asked[r].pat /\ rtr[n] = {asked[r].rtr}
                              /\ rxCb[n] = r /\ rxArg[n] = r

LiveIsReachable ==      \* "Move the last filter to current filter location"
    (\A c \in Clients : pc[c] = "idle") => \A r \in live : Reachable(r)

(* Every buffered frame is read, or flushed by a controller reset, as long  *)
(* as further frames arrive: the one that slips in between the last look at *)
(* the buffer and the clearing of RIF waits for the next.                   *)
FrameIsRead == []<>(fifo = <<>>)
===============================================================================
