---------------------------- MODULE CanFilterProofs ----------------------------
(***************************************************************************)
(* The receive filters of the CAST CAN driver, for any number of threads,   *)
(* filters, identifiers and frames.                                         *)
(***************************************************************************)
EXTENDS CanFilter, FiniteSetTheorems, SequenceTheorems, NaturalsInduction, WellFoundedInduction, TLAPS

(* The registrations of the add calls under way are numbers given out and   *)
(* not used twice, and an add that leaked a lock is one of those made.      *)
AddSteps == {"addLock", "reserve", "fill", "mask", "rtr", "rtrMask", "init", "storeCb", "storeArg", "unlock"}
Filling  == {"fill", "mask", "rtr", "rtrMask", "init", "storeCb", "storeArg", "unlock"}
Torn     == {"fill", "mask"}
Pending  == {"fill", "mask", "rtr", "rtrMask", "init", "storeCb"}
Unsynced == {"fill", "mask", "rtr", "rtrMask", "init", "shrink"}
Adders == {c \in Clients : pc[c] \in AddSteps}
Adding == {reg[c] : c \in Adders}
RegsOwn ==
    /\ \A c \in Adders : reg[c] \in 1..adds
    /\ \A c, d \in Adders : reg[c] = reg[d] => c = d
    /\ live \subseteq 1..adds /\ \A r \in 1..adds : asked[r].pat \in Patterns
LeaksFit == leaks + Cardinality(Adding) <= adds

(* How far the thread inside the two calls is with the list, and when the   *)
(* controller is programmed with it.                                        *)
Steady(s) == \A c \in Clients : ~(pc[c] \in Torn /\ loc[c].id = s)
ListFilled ==
    /\ \A s \in Slots : s < count /\ Steady(s) => list[s].pat \in Patterns
    /\ \A c \in Clients :
         /\ pc[c] \in Filling => count = loc[c].id + 1
         /\ pc[c] \in {"scan", "shrink"} => \A s \in 0..loc[c].last : list[s].pat \in Patterns
         /\ pc[c] = "shrink" => loc[c].i < count
Synced ==
    (\A c \in Clients : pc[c] \notin Unsynced)
       => hwList = {list[s].pat : s \in 0..(count - 1)}

(* Until a filter is removed: an entry leads to its registration, except    *)
(* the last while it is filled in, and every registration has one.          *)
Entry(s) ==
    /\ list[s].index = s /\ rxCb[s] \in live /\ rxArg[s] \in {None, rxCb[s]}
    /\ list[s].pat = asked[rxCb[s]].pat /\ rtr[s] = {asked[rxCb[s]].rtr}
Filled(s) == \E c \in Clients : pc[c] \in Pending /\ loc[c].id = s
Before(c) ==
    LET s == loc[c].id IN
    /\ pc[c] \in Pending \ Torn => list[s] = [index |-> s, pat |-> asked[reg[c]].pat]
    /\ pc[c] \in {"init", "storeCb"} => rtr[s] = {asked[reg[c]].rtr}
    /\ pc[c] \in Pending => rxCb[s] = None /\ rxArg[s] = None
    /\ pc[c] = "storeArg" => rxCb[s] = reg[c]
Looking(c) ==
    /\ pc[c] \in {"remLock", "scan"} => loc[c].id < count
    /\ pc[c] = "scan" => loc[c].i <= loc[c].id
    /\ pc[c] \notin {"shrink", "remUnlock"}
    /\ \A m \in mine[c] : m[1] < count
RestEmpty == \A s \in Slots : s >= count => rxCb[s] = None /\ rxArg[s] = None
EntryEach == \A s \in Slots : s < count => Entry(s) \/ Filled(s)
LiveEach  == \A r \in live : \E s \in Slots : s < count /\ rxCb[s] = r
EntriesLead == removed \/ (RestEmpty /\ EntryEach /\ LiveEach /\ \A c \in Clients : Before(c) /\ Looking(c))

IInv == TypeOK /\ MutexDiscipline /\ RegsOwn /\ LeaksFit /\ ListFilled /\ Synced /\ EntriesLead /\ DeliveredToOwner
-------------------------------------------------------------------------------
LEMMA OneInside ==
    ASSUME MutexDiscipline, NEW c \in Clients, NEW d \in Clients, Inside(c), Inside(d)
    PROVE  c = d
BY DEF MutexDiscipline

LEMMA NumbersAre ==
    /\ MaxFilters \in Nat /\ MaxFilters > 0 /\ MaxAdds \in Nat /\ FifoDepth \in Nat /\ MaxBurst \in Nat
    /\ ZeroId \in Ids /\ NoClient \notin Clients
BY FilterBounds, FilterSets DEF FilterBounds, FilterSets

LEMMA TypeInit == Init => TypeOK
<1> SUFFICES ASSUME Init PROVE TypeOK
  OBVIOUS
<1>1. fifo \in Seq(Frames) /\ Len(fifo) = 0
  BY EmptySeq DEF Init
<1>2. /\ asked \in [Regs -> [pat : SUBSET Ids, rtr : BOOLEAN]]
      /\ list \in [Slots -> [index : Slots, pat : SUBSET Ids]]
      /\ loc \in [Clients -> [id : Slots, i : 0..MaxFilters, last : Slots]]
  BY NumbersAre DEF Init, Slots, ZeroEntry, Regs
<1>3. /\ rtr \in [Slots -> SUBSET BOOLEAN] /\ rxCb \in [Slots -> Regs \cup {None}] /\ rxArg \in [Slots -> Regs \cup {None}]
      /\ pc \in [Clients -> Steps] /\ reg \in [Clients -> Regs \cup {None}]
      /\ mine \in [Clients -> SUBSET (Slots \X Regs)]
      /\ mutex \in [owner : Clients \cup {NoClient}, depth : 0..(MaxAdds + 1)]
  BY NumbersAre DEF Init, Steps
<1>4. rif \in BOOLEAN /\ isr \in {"off", "drain", "clear"} /\ removed \in BOOLEAN /\ hwList \subseteq Patterns /\ live \subseteq Regs
  BY DEF Init
<1> QED BY <1>1, <1>2, <1>3, <1>4, NumbersAre DEF Init, TypeOK


LEMMA TypeAddCall == ASSUME IInv, NEW c \in Clients, AddCall(c) PROVE TypeOK'
<1>1. PICK p \in Patterns, b \in Rtrs : asked' = [asked EXCEPT ![adds'] = [pat |-> p, rtr |-> b]]
  BY DEF AddCall
<1>2. adds' \in 1..MaxAdds /\ reg' = [reg EXCEPT ![c] = adds']
  BY NumbersAre DEF AddCall, IInv, TypeOK
<1>3. asked' \in [Regs -> [pat : SUBSET Ids, rtr : BOOLEAN]]
  BY <1>1, <1>2, FilterSets DEF FilterSets, IInv, TypeOK, Regs
<1>4. pc' \in [Clients -> Steps] /\ reg' \in [Clients -> Regs \cup {None}]
  BY <1>2 DEF AddCall, Goto, IInv, TypeOK, Steps, Regs
<1> QED BY <1>2, <1>3, <1>4 DEF AddCall, IInv, TypeOK, dataVars, hwVars

LEMMA LeaksBelow == ASSUME IInv PROVE leaks <= MaxAdds /\ leaks \in Nat
BY DEF IInv, TypeOK

LEMMA LockIs ==
    ASSUME IInv, NEW c \in Clients, Lock(c), ~Inside(c)
    PROVE  /\ \A d \in Clients : ~Inside(d)
           /\ mutex' \in [owner : Clients \cup {NoClient}, depth : 0..(MaxAdds + 1)]
           /\ mutex'.owner = c /\ mutex'.depth = leaks + 1
<1>1. \A d \in Clients : ~Inside(d)
  BY NumbersAre DEF IInv, MutexDiscipline, Lock
<1>2. mutex.depth = leaks /\ leaks \in 0..MaxAdds
  BY <1>1 DEF IInv, MutexDiscipline, TypeOK
<1> QED BY <1>1, <1>2, NumbersAre DEF Lock

LEMMA UnlockIs ==
    ASSUME IInv, NEW c \in Clients, Unlock(c), Inside(c)
    PROVE  /\ \A d \in Clients : d # c => ~Inside(d)
           /\ mutex' \in [owner : Clients \cup {NoClient}, depth : 0..(MaxAdds + 1)]
           /\ mutex'.depth = leaks
<1>1. \A d \in Clients : d # c => ~Inside(d)
  BY OneInside DEF IInv
<1>2. mutex.depth = leaks + 1 /\ leaks \in 0..MaxAdds
  BY DEF IInv, MutexDiscipline, TypeOK
<1>3. mutex \in [owner : Clients \cup {NoClient}, depth : 0..(MaxAdds + 1)]
  BY DEF IInv, TypeOK
<1> QED BY <1>1, <1>2, <1>3, NumbersAre DEF Unlock

LEMMA TypeAddLock == ASSUME IInv, NEW c \in Clients, AddLock(c) PROVE TypeOK'
<1>1. mutex' \in [owner : Clients \cup {NoClient}, depth : 0..(MaxAdds + 1)]
  BY LockIs DEF AddLock, Thread, Inside
<1> QED BY <1>1 DEF AddLock, Goto, IInv, TypeOK, hwVars, history, Steps

LEMMA TypeReserve == ASSUME IInv, NEW c \in Clients, Reserve(c) PROVE TypeOK'
<1>1. CASE HasRoom
  <2>1. count' \in 0..MaxFilters /\ count \in Slots
    <3>1. count' = count + 1 /\ count < MaxFilters
      BY <1>1 DEF Reserve, HasRoom
    <3>2. count \in 0..MaxFilters
      BY DEF IInv, TypeOK
    <3> QED BY <3>1, <3>2, NumbersAre DEF Slots
  <2>2. loc' \in [Clients -> [id : Slots, i : 0..MaxFilters, last : Slots]]
    <3> DEFINE rec == [loc[c] EXCEPT !.id = count]
    <3>1. rec \in [id : Slots, i : 0..MaxFilters, last : Slots]
      <4>1. loc[c] \in [id : Slots, i : 0..MaxFilters, last : Slots]
        BY DEF IInv, TypeOK
      <4> QED BY <2>1, <4>1
    <3>2. loc' = [loc EXCEPT ![c] = rec]
      BY <1>1 DEF Reserve
    <3> HIDE DEF rec
    <3> QED BY <3>1, <3>2 DEF IInv, TypeOK
  <2>3. pc' \in [Clients -> Steps]
    BY <1>1 DEF Reserve, Goto, IInv, TypeOK, Steps
  <2> QED BY <1>1, <2>1, <2>2, <2>3 DEF Reserve, IInv, TypeOK, hwVars
<1>2. CASE ~HasRoom
  <2>1. leaks' \in 0..MaxAdds
    <3>1. reg[c] \in Adding /\ Adding \subseteq 1..adds
      BY DEF Reserve, Thread, Adding, Adders, AddSteps, IInv, RegsOwn
    <3>2. IsFiniteSet(Adding)
      <4>1. IsFiniteSet(1..adds)
        BY FS_Interval DEF IInv, TypeOK
      <4> QED BY <3>1, <4>1, FS_Subset
    <3>3. Cardinality(Adding) \in Nat /\ Cardinality(Adding) # 0
      BY <3>1, <3>2, FS_CardinalityType, FS_EmptySet
    <3>4. leaks' = leaks + 1
      BY <1>2 DEF Reserve
    <3>5. leaks + Cardinality(Adding) <= adds /\ adds \in 0..MaxAdds /\ leaks \in 0..MaxAdds
      BY DEF IInv, LeaksFit, TypeOK
    <3> QED BY <3>3, <3>4, <3>5, NumbersAre
  <2>2. pc' \in [Clients -> Steps] /\ reg' \in [Clients -> Regs \cup {None}]
    BY <1>2 DEF Reserve, Goto, IInv, TypeOK, Steps
  <2> QED BY <1>2, <2>1, <2>2 DEF Reserve, IInv, TypeOK, hwVars
<1> QED BY <1>1, <1>2

LEMMA AskedIs ==
    ASSUME IInv, NEW c \in Adders
    PROVE  /\ reg[c] \in Regs /\ reg[c] \in 1..adds /\ asked[reg[c]].pat \in Patterns /\ asked[reg[c]].rtr \in BOOLEAN
           /\ reg[c] # None
<1>1. reg[c] \in 1..adds /\ adds \in 0..MaxAdds
  BY DEF IInv, RegsOwn, TypeOK
<1>2. reg[c] \in Regs
  BY <1>1, NumbersAre DEF Regs
<1> QED BY <1>1, <1>2 DEF IInv, RegsOwn, TypeOK, None

LEMMA TypeFill == ASSUME IInv, NEW c \in Clients, FillEntry(c) PROVE TypeOK'
<1>1. c \in Adders /\ loc[c].id \in Slots
  BY DEF FillEntry, Fill, FillMask, FillRtr, FillRtrMask, Thread, Adders, AddSteps, IInv, TypeOK
<1>2. ASSUME NEW pat \in SUBSET Ids, Store(c, pat) PROVE list' \in [Slots -> [index : Slots, pat : SUBSET Ids]]
  BY <1>1, <1>2 DEF Store, IInv, TypeOK
<1>3. asked[reg[c]].pat \in SUBSET Ids /\ asked[reg[c]].rtr \in BOOLEAN
  BY <1>1, AskedIs, FilterSets DEF FilterSets
<1>4. list' \in [Slots -> [index : Slots, pat : SUBSET Ids]]
  BY <1>2, <1>3 DEF FillEntry, Fill, FillMask, FillRtr, FillRtrMask, IInv, TypeOK
<1>5. rtr' \in [Slots -> SUBSET BOOLEAN]
  <2>1. \A b \in SUBSET BOOLEAN : [rtr EXCEPT ![loc[c].id] = b] \in [Slots -> SUBSET BOOLEAN]
    BY DEF IInv, TypeOK
  <2>2. rtr[loc[c].id] \cup {asked[reg[c]].rtr} \in SUBSET BOOLEAN /\ {asked[reg[c]].rtr} \in SUBSET BOOLEAN
    BY <1>1, <1>3 DEF IInv, TypeOK
  <2> QED BY <2>1, <2>2 DEF FillEntry, Fill, FillMask, FillRtr, FillRtrMask, IInv, TypeOK
<1>6. pc' \in [Clients -> Steps]
  BY DEF FillEntry, Fill, FillMask, FillRtr, FillRtrMask, Goto, IInv, TypeOK, Steps
<1> QED BY <1>4, <1>5, <1>6 DEF FillEntry, Fill, FillMask, FillRtr, FillRtrMask, IInv, TypeOK, hwVars, history

LEMMA ReinitIs ==
    ASSUME IInv, NEW n \in 0..MaxFilters, Reinit(n, list), \A s \in 0..(n - 1) : list[s].pat \in Patterns
    PROVE  hwList' \subseteq Patterns /\ fifo' \in Seq(Frames) /\ Len(fifo') <= FifoDepth /\ rif' \in BOOLEAN
<1>1. fifo' \in Seq(Frames) /\ Len(fifo') = 0
  BY EmptySeq DEF Reinit
<1>2. rif' \in BOOLEAN /\ hwList' \subseteq Patterns
  BY DEF Reinit
<1> QED BY <1>1, <1>2, NumbersAre

LEMMA TypeAddInit == ASSUME IInv, NEW c \in Clients, AddInit(c) PROVE TypeOK'
<1>1. count \in 0..MaxFilters
  BY DEF IInv, TypeOK
<1>2. \A s \in 0..(count - 1) : list[s].pat \in Patterns
  <2>1. \A d \in Clients : pc[d] \notin Torn
    <3> SUFFICES ASSUME NEW d \in Clients, pc[d] \in Torn PROVE FALSE
      OBVIOUS
    <3>1. Inside(c) /\ Inside(d) /\ pc[c] = "init" /\ pc[d] # "init"
      BY DEF Inside, AddInit, Thread, Torn
    <3> QED BY <3>1, OneInside DEF IInv
  <2>2. \A s \in 0..(count - 1) : s \in Slots /\ s < count
    BY <1>1, NumbersAre DEF Slots
  <2> QED BY <2>1, <2>2 DEF IInv, ListFilled, Steady, Torn
<1>3. hwList' \subseteq Patterns /\ fifo' \in Seq(Frames) /\ Len(fifo') <= FifoDepth /\ rif' \in BOOLEAN
  BY <1>1, <1>2, ReinitIs DEF AddInit
<1>4. pc' \in [Clients -> Steps]
  BY DEF AddInit, Goto, IInv, TypeOK, Steps
<1> QED BY <1>3, <1>4 DEF AddInit, IInv, TypeOK, dataVars, history

LEMMA TypeStores == ASSUME IInv, NEW c \in Clients, StoreCb(c) \/ StoreArg(c) PROVE TypeOK'
<1>1. c \in Adders
  BY DEF StoreCb, StoreArg, Thread, Adders, AddSteps
<1>2. loc[c].id \in Slots /\ reg[c] \in Regs
  BY <1>1, AskedIs DEF IInv, TypeOK
<1>3. rxCb' \in [Slots -> Regs \cup {None}] /\ rxArg' \in [Slots -> Regs \cup {None}]
  BY <1>2 DEF StoreCb, StoreArg, IInv, TypeOK
<1>4. pc' \in [Clients -> Steps] /\ live' \subseteq Regs
  BY <1>2 DEF StoreCb, StoreArg, history, Goto, IInv, TypeOK, Steps
<1> QED BY <1>3, <1>4 DEF StoreCb, StoreArg, IInv, TypeOK, hwVars, history

LEMMA TypeReturns == ASSUME IInv, NEW c \in Clients, AddReturn(c) \/ RemoveReturn(c) PROVE TypeOK'
<1>1. mutex' \in [owner : Clients \cup {NoClient}, depth : 0..(MaxAdds + 1)]
  BY UnlockIs DEF AddReturn, RemoveReturn, Thread, Inside
<1>2. pc' \in [Clients -> Steps] /\ reg' \in [Clients -> Regs \cup {None}]
  BY DEF AddReturn, RemoveReturn, Goto, IInv, TypeOK, Steps
<1>3. mine' \in [Clients -> SUBSET (Slots \X Regs)] /\ live' \subseteq Regs
  <2>1. CASE AddReturn(c)
    <3>1. c \in Adders
      BY <2>1 DEF AddReturn, Thread, Adders, AddSteps
    <3>2. loc[c].id \in Slots /\ reg[c] \in Regs
      BY <3>1, AskedIs DEF IInv, TypeOK
    <3> QED BY <2>1, <3>2 DEF AddReturn, IInv, TypeOK, history
  <2>2. CASE RemoveReturn(c)
    BY <2>2 DEF RemoveReturn, IInv, TypeOK
  <2> QED BY <2>1, <2>2
<1> QED BY <1>1, <1>2, <1>3 DEF AddReturn, RemoveReturn, IInv, TypeOK, hwVars, history

LEMMA LocIs ==
    ASSUME TypeOK, NEW c \in Clients
    PROVE  loc[c] \in [id : Slots, i : 0..MaxFilters, last : Slots] /\ count \in 0..MaxFilters
BY DEF TypeOK

LEMMA TypeRemoveCall == ASSUME IInv, NEW c \in Clients, RemoveCall(c) PROVE TypeOK'
<1>1. PICK m \in mine[c] :
         /\ reg' = [reg EXCEPT ![c] = m[2]] /\ loc' = [loc EXCEPT ![c].id = m[1]]
         /\ mine' = [mine EXCEPT ![c] = @ \ {m}]
  BY DEF RemoveCall
<1>2. m[1] \in Slots /\ m[2] \in Regs
  BY DEF IInv, TypeOK
<1> DEFINE rec == [loc[c] EXCEPT !.id = m[1]]
<1>3. rec \in [id : Slots, i : 0..MaxFilters, last : Slots]
  BY <1>2, LocIs DEF IInv
<1>4. loc' = [loc EXCEPT ![c] = rec]
  BY <1>1
<1> HIDE DEF rec
<1>5. loc' \in [Clients -> [id : Slots, i : 0..MaxFilters, last : Slots]]
  BY <1>3, <1>4 DEF IInv, TypeOK
<1>6. pc' \in [Clients -> Steps] /\ reg' \in [Clients -> Regs \cup {None}] /\ mine' \in [Clients -> SUBSET (Slots \X Regs)]
  BY <1>1, <1>2 DEF RemoveCall, Goto, IInv, TypeOK, Steps
<1> QED BY <1>5, <1>6 DEF RemoveCall, IInv, TypeOK, dataVars, hwVars, history

LEMMA TypeRemoveLock == ASSUME IInv, NEW c \in Clients, RemoveLock(c) PROVE TypeOK'
<1>1. mutex' \in [owner : Clients \cup {NoClient}, depth : 0..(MaxAdds + 1)]
  BY LockIs DEF RemoveLock, Thread, Inside
<1>2. loc' \in [Clients -> [id : Slots, i : 0..MaxFilters, last : Slots]]
  <2>1. CASE count > 0
    <3> DEFINE rec == [loc[c] EXCEPT !.i = 0, !.last = count - 1]
    <3>1. count - 1 \in Slots /\ 0 \in 0..MaxFilters
      BY <2>1, LocIs, NumbersAre DEF IInv, Slots
    <3>2. rec \in [id : Slots, i : 0..MaxFilters, last : Slots]
      BY <3>1, LocIs DEF IInv
    <3>3. loc' = [loc EXCEPT ![c] = rec]
      BY <2>1 DEF RemoveLock
    <3> HIDE DEF rec
    <3> QED BY <3>2, <3>3 DEF IInv, TypeOK
  <2>2. CASE ~(count > 0)
    BY <2>2 DEF RemoveLock, IInv, TypeOK
  <2> QED BY <2>1, <2>2
<1>3. pc' \in [Clients -> Steps]
  BY DEF RemoveLock, Goto, IInv, TypeOK, Steps
<1> QED BY <1>1, <1>2, <1>3 DEF RemoveLock, IInv, TypeOK, hwVars, history

LEMMA NextEntryIs ==
    ASSUME TypeOK, NEW c \in Clients, NextEntry(c), loc[c].i < count
    PROVE  loc' \in [Clients -> [id : Slots, i : 0..MaxFilters, last : Slots]]
<1> DEFINE rec == [loc[c] EXCEPT !.i = @ + 1]
<1>1. loc[c].i + 1 \in 0..MaxFilters
  BY LocIs, NumbersAre
<1>2. rec \in [id : Slots, i : 0..MaxFilters, last : Slots]
  BY <1>1, LocIs
<1>3. loc' = [loc EXCEPT ![c] = rec]
  BY DEF NextEntry
<1> HIDE DEF rec
<1> QED BY <1>2, <1>3 DEF TypeOK

LEMMA TypeScan == ASSUME IInv, NEW c \in Clients, Scan(c) PROVE TypeOK'
<1>1. pc' \in [Clients -> Steps] /\ removed' \in BOOLEAN
  BY DEF Scan, Goto, IInv, TypeOK, Steps
<1>2. loc' \in [Clients -> [id : Slots, i : 0..MaxFilters, last : Slots]]
  BY NextEntryIs DEF Scan, IInv, TypeOK
<1>3. list' \in [Slots -> [index : Slots, pat : SUBSET Ids]]
  <2>1. loc[c].last \in Slots
    BY LocIs DEF IInv
  <2>2. list[loc[c].last] \in [index : Slots, pat : SUBSET Ids]
    BY <2>1 DEF IInv, TypeOK
  <2> QED BY <2>2 DEF Scan, IInv, TypeOK
<1> QED BY <1>1, <1>2, <1>3 DEF Scan, IInv, TypeOK, hwVars

LEMMA ShrinkFits == ASSUME IInv, NEW c \in Clients, pc[c] = "shrink" PROVE count - 1 \in 0..MaxFilters /\ loc[c].i < count
<1>1. loc[c].i < count
  BY DEF IInv, ListFilled
<1> QED BY <1>1, LocIs, NumbersAre DEF IInv

LEMMA Alone ==
    ASSUME IInv, NEW c \in Clients, Inside(c), pc[c] \notin Torn
    PROVE  \A s \in Slots : s < count => list[s].pat \in Patterns
<1>1. \A d \in Clients : pc[d] \notin Torn
  <2> SUFFICES ASSUME NEW d \in Clients, pc[d] \in Torn PROVE FALSE
    OBVIOUS
  <2>1. Inside(d)
    BY DEF Inside, Torn
  <2> QED BY <2>1, OneInside DEF IInv
<1> QED BY <1>1 DEF IInv, ListFilled, Steady

LEMMA TypeShrink == ASSUME IInv, NEW c \in Clients, Shrink(c) PROVE TypeOK'
<1>1. pc[c] = "shrink" /\ count' = count - 1
  BY DEF Shrink, Thread
<1>2. count' \in 0..MaxFilters /\ loc[c].i < count
  BY <1>1, ShrinkFits
<1>3. \A s \in 0..(count' - 1) : list[s].pat \in Patterns
  <2>1. \A s \in 0..(count' - 1) : s \in Slots /\ s < count
    BY <1>1, <1>2, NumbersAre, LocIs DEF Slots, IInv
  <2>2. Inside(c) /\ pc[c] \notin Torn
    BY <1>1 DEF Inside, Torn
  <2> QED BY <2>1, <2>2, Alone
<1>4. hwList' \subseteq Patterns /\ fifo' \in Seq(Frames) /\ Len(fifo') <= FifoDepth /\ rif' \in BOOLEAN
  BY <1>2, <1>3, ReinitIs DEF Shrink
<1>5. pc' \in [Clients -> Steps]
  BY DEF Shrink, Goto, IInv, TypeOK, Steps
<1>6. loc' \in [Clients -> [id : Slots, i : 0..MaxFilters, last : Slots]]
  BY <1>2, NextEntryIs DEF Shrink, IInv
<1> QED BY <1>2, <1>4, <1>5, <1>6 DEF Shrink, IInv, TypeOK, history

LEMMA TypeScanEnds == ASSUME IInv, NEW c \in Clients, ScanEnds(c) PROVE TypeOK'
BY DEF ScanEnds, Goto, IInv, TypeOK, Steps, dataVars, hwVars, history

LEMMA TypeArrive == ASSUME IInv, NEW f \in Frames, Arrive(f) PROVE TypeOK'
<1>1. fifo' \in Seq(Frames) /\ Len(fifo') <= FifoDepth
  <2>1. fifo \in Seq(Frames) /\ Len(fifo) < FifoDepth /\ fifo' = Append(fifo, f)
    BY DEF Arrive, IInv, TypeOK
  <2>2. Len(fifo) \in Nat /\ fifo' \in Seq(Frames) /\ Len(fifo') = Len(fifo) + 1
    BY <2>1, AppendProperties, LenProperties
  <2> QED BY <2>1, <2>2, NumbersAre
<1>2. burst' \in 0..MaxBurst /\ rif' = TRUE
  BY NumbersAre DEF Arrive, IInv, TypeOK
<1> QED BY <1>1, <1>2 DEF Arrive, IInv, TypeOK, dataVars, clientVars, history

LEMMA TypeIsr == ASSUME IInv, IsrEnter \/ GetMessage \/ Drained \/ IsrClear PROVE TypeOK'
<1>1. fifo' \in Seq(Frames) /\ Len(fifo') <= FifoDepth
  <2>1. CASE GetMessage
    <3>1. fifo \in Seq(Frames) /\ fifo # <<>> /\ Len(fifo) <= FifoDepth /\ fifo' = Tail(fifo)
      BY <2>1 DEF GetMessage, IInv, TypeOK
    <3>2. Len(fifo) \in Nat /\ Len(fifo') = Len(fifo) - 1 /\ fifo' \in Seq(Frames)
      BY <3>1, HeadTailProperties, LenProperties
    <3> QED BY <3>1, <3>2, NumbersAre
  <2>2. CASE IsrEnter \/ Drained \/ IsrClear
    BY <2>2 DEF IsrEnter, Drained, IsrClear, IInv, TypeOK
  <2> QED BY <2>1, <2>2
<1>2. burst' \in 0..MaxBurst /\ rif' \in BOOLEAN /\ isr' \in {"off", "drain", "clear"}
  <2>1. burst \in 0..MaxBurst /\ rif \in BOOLEAN /\ isr \in {"off", "drain", "clear"} /\ 0 \in 0..MaxBurst
    BY NumbersAre DEF IInv, TypeOK
  <2>2. burst' \in {0, burst}
    BY DEF IsrEnter, GetMessage, Drained, IsrClear
  <2>3. rif' = rif \/ rif' = FALSE
    BY DEF IsrEnter, GetMessage, Drained, IsrClear
  <2>4. isr' \in {"off", "drain", "clear"}
    BY <2>1 DEF IsrEnter, GetMessage, Drained, IsrClear
  <2> QED BY <2>1, <2>2, <2>3, <2>4
<1>3. /\ UNCHANGED <<dataVars, clientVars, hwList>>
      /\ UNCHANGED <<asked, adds, live, leaks, removed>>
  BY DEF IsrEnter, GetMessage, Drained, IsrClear, history
<1> QED BY <1>1, <1>2, <1>3 DEF IInv, TypeOK, dataVars, clientVars

LEMMA TypeStep == IInv /\ [Next]_vars => TypeOK'
<1> SUFFICES ASSUME IInv, [Next]_vars PROVE TypeOK'
  OBVIOUS
<1>1. CASE UNCHANGED vars
  BY <1>1 DEF vars, dataVars, clientVars, hwVars, history, IInv, TypeOK
<1>2. ASSUME NEW c \in Clients, Add(c) PROVE TypeOK'
  BY <1>2, TypeAddCall, TypeAddLock, TypeReserve, TypeFill, TypeAddInit, TypeStores, TypeReturns DEF Add
<1>3. ASSUME NEW c \in Clients, Remove(c) PROVE TypeOK'
  BY <1>3, TypeRemoveCall, TypeRemoveLock, TypeScan, TypeShrink, TypeScanEnds, TypeReturns DEF Remove
<1> QED BY <1>1, <1>2, <1>3, TypeArrive, TypeIsr DEF Next, Isr

-------------------------------------------------------------------------------
(* Who is inside the calls, and how often inst_mutex is taken.              *)
Same(c) == \A d \in Clients : d # c => pc'[d] = pc[d] /\ reg'[d] = reg[d] /\ loc'[d] = loc[d] /\ mine'[d] = mine[d]

LEMMA OthersRest == ASSUME IInv, NEW c \in Clients, Add(c) \/ Remove(c) PROVE Same(c)
<1>1. /\ pc \in [Clients -> Steps] /\ reg \in [Clients -> Regs \cup {None}]
      /\ mine \in [Clients -> SUBSET (Slots \X Regs)]
      /\ loc \in [Clients -> [id : Slots, i : 0..MaxFilters, last : Slots]]
  BY DEF IInv, TypeOK
<1>2. CASE Add(c)
  BY <1>1, <1>2 DEF Same, Add, AddCall, AddLock, Reserve, FillEntry, Fill, FillMask, FillRtr, FillRtrMask, AddInit, StoreCb, StoreArg, AddReturn, Goto
<1>3. CASE Remove(c)
  BY <1>1, <1>3 DEF Same, Remove, RemoveCall, RemoveLock, Scan, Shrink, ScanEnds, RemoveReturn, Goto, NextEntry
<1> QED BY <1>2, <1>3

LEMMA MutexKept ==
    ASSUME MutexDiscipline, \A c \in Clients : Inside(c)' <=> Inside(c), UNCHANGED <<mutex, leaks>>
    PROVE  MutexDiscipline'
BY DEF MutexDiscipline

LEMMA MutexTaken == ASSUME IInv, NEW c \in Clients, AddLock(c) \/ RemoveLock(c) PROVE MutexDiscipline'
<1>1. Lock(c) /\ ~Inside(c) /\ leaks' = leaks
  BY DEF AddLock, RemoveLock, Thread, Inside, history
<1>2. \A d \in Clients : d # c => ~Inside(d)'
  BY <1>1, LockIs, OthersRest DEF Same, Inside, Add, Remove
<1>3. Inside(c)'
  BY DEF AddLock, RemoveLock, Goto, Inside, IInv, TypeOK
<1> QED BY <1>1, <1>2, <1>3, LockIs DEF MutexDiscipline

LEMMA MutexGiven == ASSUME IInv, NEW c \in Clients, AddReturn(c) \/ RemoveReturn(c) PROVE MutexDiscipline'
<1>1. Unlock(c) /\ Inside(c) /\ leaks' = leaks
  BY DEF AddReturn, RemoveReturn, Thread, Inside, history
<1>2. \A d \in Clients : d # c => ~Inside(d)'
  BY <1>1, UnlockIs, OthersRest DEF Same, Inside, Add, Remove
<1>3. ~Inside(c)'
  BY DEF AddReturn, RemoveReturn, Goto, Inside, IInv, TypeOK
<1>4. leaks \in Nat
  BY LeaksBelow
<1> QED BY <1>1, <1>2, <1>3, <1>4, UnlockIs DEF MutexDiscipline

LEMMA MutexLeaked == ASSUME IInv, NEW c \in Clients, Reserve(c) PROVE MutexDiscipline'
<1>1. CASE HasRoom
  <2>1. Inside(c) /\ Inside(c)'
    BY <1>1 DEF Reserve, Thread, Goto, Inside, IInv, TypeOK
  <2>2. \A d \in Clients : Inside(d)' <=> Inside(d)
    BY <2>1, OthersRest DEF Same, Inside, Add
  <2> QED BY <1>1, <2>2, MutexKept DEF Reserve, IInv
<1>2. CASE ~HasRoom
  <2>1. Inside(c) /\ ~Inside(c)' /\ leaks' = leaks + 1 /\ mutex' = mutex
    BY <1>2 DEF Reserve, Thread, Goto, Inside, IInv, TypeOK
  <2>2. \A d \in Clients : d # c => ~Inside(d)'
    <3>1. \A d \in Clients : d # c => ~Inside(d)
      BY <2>1, OneInside DEF IInv
    <3> QED BY <3>1, OthersRest DEF Same, Inside, Add
  <2>3. mutex.depth = leaks + 1 /\ leaks \in Nat
    BY <2>1, LeaksBelow DEF IInv, MutexDiscipline
  <2> QED BY <2>1, <2>2, <2>3 DEF MutexDiscipline
<1> QED BY <1>1, <1>2

LEMMA MutexStep == IInv /\ [Next]_vars => MutexDiscipline'
<1> SUFFICES ASSUME IInv, [Next]_vars PROVE MutexDiscipline'
  OBVIOUS
<1> USE DEF IInv
<1>1. CASE UNCHANGED vars
  BY <1>1 DEF vars, dataVars, clientVars, hwVars, history, MutexDiscipline, Inside
<1>2. ASSUME NEW c \in Clients, AddCall(c) \/ FillEntry(c) \/ AddInit(c) \/ StoreCb(c) \/ StoreArg(c) PROVE MutexDiscipline'
  <2>1. Inside(c)' <=> Inside(c)
    BY <1>2 DEF AddCall, FillEntry, Fill, FillMask, FillRtr, FillRtrMask, AddInit, StoreCb, StoreArg, Thread, Goto, Inside, TypeOK
  <2>2. \A d \in Clients : Inside(d)' <=> Inside(d)
    BY <1>2, <2>1, OthersRest DEF Same, Inside, Add
  <2>3. UNCHANGED <<mutex, leaks>>
    BY <1>2 DEF AddCall, FillEntry, Fill, FillMask, FillRtr, FillRtrMask, AddInit, StoreCb, StoreArg, dataVars, history
  <2> QED BY <2>2, <2>3, MutexKept
<1>3. ASSUME NEW c \in Clients, RemoveCall(c) \/ Scan(c) \/ Shrink(c) \/ ScanEnds(c) PROVE MutexDiscipline'
  <2>1. Inside(c)' <=> Inside(c)
    BY <1>3 DEF RemoveCall, Scan, Shrink, ScanEnds, Thread, Goto, Inside, TypeOK
  <2>2. \A d \in Clients : Inside(d)' <=> Inside(d)
    BY <1>3, <2>1, OthersRest DEF Same, Inside, Remove
  <2>3. UNCHANGED <<mutex, leaks>>
    BY <1>3 DEF RemoveCall, Scan, Shrink, ScanEnds, dataVars, history
  <2> QED BY <2>2, <2>3, MutexKept
<1>4. ASSUME (\E f \in Frames : Arrive(f)) \/ Isr PROVE MutexDiscipline'
  <2>1. UNCHANGED <<mutex, leaks, pc>>
    BY <1>4 DEF Arrive, Isr, IsrEnter, GetMessage, Drained, IsrClear, dataVars, clientVars, history
  <2> QED BY <2>1, MutexKept DEF Inside
<1> QED BY <1>1, <1>2, <1>3, <1>4, MutexTaken, MutexGiven, MutexLeaked DEF Next, Add, Remove

-------------------------------------------------------------------------------
(* Registration numbers.                                                    *)
AddMoves(c) == AddLock(c) \/ FillEntry(c) \/ AddInit(c) \/ StoreCb(c) \/ StoreArg(c)

LEMMA RegsAddCall == ASSUME IInv, NEW c \in Clients, AddCall(c) PROVE RegsOwn' /\ LeaksFit'
<1>1. PICK p \in Patterns, b \in Rtrs : asked' = [asked EXCEPT ![adds'] = [pat |-> p, rtr |-> b]]
  BY DEF AddCall
<1>2. adds' = adds + 1 /\ adds \in Nat /\ adds' \in Regs /\ live' = live /\ leaks' = leaks
  BY NumbersAre DEF AddCall, IInv, TypeOK, Regs
<1>3. c \notin Adders /\ Adders' = Adders \cup {c} /\ reg'[c] = adds' /\ \A d \in Adders : reg'[d] = reg[d]
  BY DEF AddCall, Thread, Goto, Adders, AddSteps, IInv, TypeOK
<1>4. RegsOwn'
  <2>1. \A r \in 1..adds : asked'[r] = asked[r]
    BY <1>1, <1>2, NumbersAre DEF IInv, TypeOK, Regs
  <2>2. asked'[adds'].pat = p
    BY <1>1, <1>2 DEF IInv, TypeOK
  <2>3. /\ \A d \in Adders : reg[d] \in 1..adds
        /\ \A d, e \in Adders : reg[d] = reg[e] => d = e
        /\ live \subseteq 1..adds /\ \A r \in 1..adds : asked[r].pat \in Patterns
    BY DEF IInv, RegsOwn
  <2>4. \A d \in Adders' : reg'[d] \in 1..adds'
    BY <1>2, <1>3, <2>3
  <2>5. \A d, e \in Adders' : reg'[d] = reg'[e] => d = e
    BY <1>2, <1>3, <2>3
  <2>6. live' \subseteq 1..adds' /\ \A r \in 1..adds' : asked'[r].pat \in Patterns
    BY <1>2, <2>1, <2>2, <2>3
  <2> QED BY <2>4, <2>5, <2>6 DEF RegsOwn
<1>5. LeaksFit'
  <2>1. Adding' = Adding \cup {adds'}
    BY <1>3 DEF Adding
  <2>2. Adding \subseteq 1..adds
    BY DEF IInv, RegsOwn, Adding
  <2>3. IsFiniteSet(Adding) /\ adds' \notin Adding
    <3>1. IsFiniteSet(1..adds)
      BY <1>2, FS_Interval
    <3>2. IsFiniteSet(Adding)
      BY <2>2, <3>1, FS_Subset
    <3> QED BY <1>2, <2>2, <3>2
  <2>4. Cardinality(Adding') = Cardinality(Adding) + 1 /\ Cardinality(Adding) \in Nat
    BY <2>1, <2>3, FS_AddElement, FS_CardinalityType
  <2> QED BY <1>2, <2>4, LeaksBelow DEF IInv, LeaksFit
<1> QED BY <1>4, <1>5

LEMMA RegsKept ==
    ASSUME IInv, Adders' \subseteq Adders, \A d \in Adders' : reg'[d] = reg[d],
           adds' = adds, asked' = asked, live' \subseteq live \cup {reg[d] : d \in Adders}
    PROVE  RegsOwn'
BY DEF IInv, RegsOwn

LEMMA RegsFree ==
    ASSUME IInv, NEW c \in Adders, Adders' = Adders \ {c}, \A d \in Adders' : reg'[d] = reg[d]
    PROVE  Cardinality(Adding') = Cardinality(Adding) - 1 /\ Cardinality(Adding) \in Nat
<1>1. Adding' = Adding \ {reg[c]} /\ reg[c] \in Adding
  BY DEF IInv, RegsOwn, Adding
<1>2. IsFiniteSet(Adding)
  <2>1. Adding \subseteq 1..adds
    BY DEF IInv, RegsOwn, Adding
  <2>2. IsFiniteSet(1..adds)
    BY FS_Interval DEF IInv, TypeOK
  <2> QED BY <2>1, <2>2, FS_Subset
<1> QED BY <1>1, <1>2, FS_RemoveElement, FS_CardinalityType

LEMMA RegsSame ==
    ASSUME IInv, Adders' = Adders, \A d \in Adders : reg'[d] = reg[d],
           adds' = adds, asked' = asked, live' \subseteq live \cup {reg[d] : d \in Adders}, leaks' = leaks
    PROVE  RegsOwn' /\ LeaksFit'
<1>1. Adding' = Adding
  BY DEF Adding
<1> QED BY <1>1, RegsKept DEF IInv, LeaksFit

LEMMA RegsEnd ==
    ASSUME IInv, NEW c \in Clients, AddReturn(c) \/ (Reserve(c) /\ ~HasRoom)
    PROVE  RegsOwn' /\ LeaksFit'
<1>1. c \in Adders /\ Adders' = Adders \ {c}
  BY DEF AddReturn, Reserve, Thread, Goto, Adders, AddSteps, IInv, TypeOK
<1>2. (\A d \in Adders' : reg'[d] = reg[d]) /\ adds' = adds /\ asked' = asked /\ live' = live
  BY <1>1 DEF AddReturn, Reserve, history, IInv, TypeOK, Adders
<1>3. RegsOwn'
  BY <1>1, <1>2, RegsKept
<1>4. leaks' \in {leaks, leaks + 1} /\ leaks \in Nat /\ adds \in Nat
  BY DEF AddReturn, Reserve, history, IInv, TypeOK
<1>5. Cardinality(Adding') = Cardinality(Adding) - 1 /\ Cardinality(Adding) \in Nat
  BY <1>1, <1>2, RegsFree
<1>6. LeaksFit'
  BY <1>2, <1>4, <1>5 DEF IInv, LeaksFit
<1> QED BY <1>3, <1>6

LEMMA RegsStep == IInv /\ [Next]_vars => RegsOwn' /\ LeaksFit'
<1> SUFFICES ASSUME IInv, [Next]_vars PROVE RegsOwn' /\ LeaksFit'
  OBVIOUS
<1>1. CASE UNCHANGED vars
  BY <1>1, RegsSame DEF vars, dataVars, clientVars, hwVars, history, Adders
<1>2. ASSUME NEW c \in Clients, AddMoves(c) \/ (Reserve(c) /\ HasRoom) PROVE RegsOwn' /\ LeaksFit'
  <2>1. c \in Adders /\ Adders' = Adders
    BY <1>2 DEF AddMoves, AddLock, FillEntry, Fill, FillMask, FillRtr, FillRtrMask, AddInit, StoreCb, StoreArg, Reserve, Thread, Goto, Adders, AddSteps, IInv, TypeOK
  <2>2. reg' = reg /\ adds' = adds /\ asked' = asked /\ live' \subseteq live \cup {reg[c]} /\ leaks' = leaks
    BY <1>2 DEF AddMoves, AddLock, FillEntry, Fill, FillMask, FillRtr, FillRtrMask, AddInit, StoreCb, StoreArg, Reserve, history
  <2> QED BY <2>1, <2>2, RegsSame
<1>3. ASSUME NEW c \in Clients, Remove(c) PROVE RegsOwn' /\ LeaksFit'
  <2>1. c \notin Adders /\ Adders' = Adders
    BY <1>3 DEF Remove, RemoveCall, RemoveLock, Scan, Shrink, ScanEnds, RemoveReturn, Thread, Goto, Adders, AddSteps, IInv, TypeOK
  <2>2. adds' = adds /\ asked' = asked /\ live' \subseteq live /\ leaks' = leaks
    BY <1>3 DEF Remove, RemoveCall, RemoveLock, Scan, Shrink, ScanEnds, RemoveReturn, history
  <2>3. \A d \in Adders : reg'[d] = reg[d]
    BY <1>3, <2>1, OthersRest DEF Same, Adders
  <2> QED BY <2>1, <2>2, <2>3, RegsSame
<1>4. ASSUME (\E f \in Frames : Arrive(f)) \/ Isr PROVE RegsOwn' /\ LeaksFit'
  <2>1. UNCHANGED <<pc, reg, adds, asked, live, leaks>>
    BY <1>4 DEF Arrive, Isr, IsrEnter, GetMessage, Drained, IsrClear, dataVars, clientVars, history
  <2> QED BY <2>1, RegsSame DEF Adders
<1> QED BY <1>1, <1>2, <1>3, <1>4, RegsAddCall, RegsEnd DEF Next, Add, AddMoves

-------------------------------------------------------------------------------
(* The list and the programmed filters.                                     *)
Calm(c) == AddCall(c) \/ AddLock(c) \/ (Reserve(c) /\ ~HasRoom) \/ AddInit(c) \/ StoreCb(c) \/ StoreArg(c)
             \/ AddReturn(c) \/ RemoveCall(c) \/ (RemoveLock(c) /\ ~(count > 0)) \/ ScanEnds(c) \/ RemoveReturn(c)

LEMMA ListKept ==
    ASSUME IInv, list' = list, count' = count,
           \A d \in Clients : /\ pc'[d] \in Filling => pc[d] \in Filling /\ loc'[d].id = loc[d].id
                              /\ pc'[d] \in {"scan", "shrink"} => pc'[d] = pc[d] /\ loc'[d] = loc[d]
                              /\ pc[d] \in Torn => pc'[d] \in Torn
    PROVE  ListFilled'
<1>1. \A s : Steady(s)' => Steady(s)
  BY DEF Steady, Filling, Torn
<1> QED BY <1>1 DEF IInv, ListFilled

LEMMA ListCalm == ASSUME IInv, NEW c \in Clients, Calm(c) PROVE ListFilled'
<1>1. list' = list /\ count' = count
  BY DEF Calm, AddCall, AddLock, Reserve, AddInit, StoreCb, StoreArg, AddReturn, RemoveCall, RemoveLock, ScanEnds,
         RemoveReturn, dataVars
<1>2. /\ pc'[c] \in Filling => pc[c] \in Filling /\ loc'[c].id = loc[c].id
      /\ pc'[c] \notin {"scan", "shrink"} /\ pc[c] \notin Torn
  BY DEF Calm, AddCall, AddLock, Reserve, AddInit, StoreCb, StoreArg, AddReturn, RemoveCall, RemoveLock, ScanEnds,
         RemoveReturn, Filling, Torn, Thread, Goto, IInv, TypeOK
<1>3. Same(c)
  BY OthersRest DEF Calm, Add, Remove
<1>4. \A d \in Clients : d # c => pc'[d] = pc[d] /\ loc'[d] = loc[d]
  BY <1>3 DEF Same
<1> QED BY <1>1, <1>2, <1>4, ListKept

LEMMA ListReserve == ASSUME IInv, NEW c \in Clients, Reserve(c), HasRoom PROVE ListFilled'
<1>1. /\ pc[c] = "reserve" /\ pc'[c] = "fill" /\ loc'[c].id = count /\ count' = count + 1 /\ list' = list
      /\ count \in 0..MaxFilters /\ Same(c)
  <2>1. pc[c] = "reserve" /\ pc'[c] = "fill" /\ count' = count + 1 /\ list' = list
    BY DEF Reserve, Thread, Goto, IInv, TypeOK
  <2>2. loc' = [loc EXCEPT ![c].id = count] /\ c \in DOMAIN loc /\ "id" \in DOMAIN loc[c]
    BY DEF Reserve, IInv, TypeOK
  <2>3. loc'[c].id = count
    BY <2>2
  <2> QED BY <2>1, <2>3, OthersRest, LocIs DEF IInv, Add
<1>2. \A d \in Clients : d # c => ~Inside(d)
  BY <1>1, OneInside DEF Inside, IInv
<1>3. \A d \in Clients : d # c => pc'[d] \notin Filling \cup {"scan", "shrink"}
  BY <1>1, <1>2 DEF Same, Inside, Filling
<1>4. \A s \in Slots : s < count' /\ Steady(s)' => list'[s].pat \in Patterns
  <2> SUFFICES ASSUME NEW s \in Slots, s < count + 1, Steady(s)' PROVE list[s].pat \in Patterns
    BY <1>1
  <2>1. s # count
    BY <1>1 DEF Steady, Torn
  <2>2. s < count
    BY <1>1, <2>1, NumbersAre DEF Slots
  <2>3. Inside(c) /\ pc[c] \notin Torn
    BY <1>1 DEF Inside, Torn
  <2> QED BY <2>2, <2>3, Alone
<1>5. \A d \in Clients : /\ pc'[d] \in Filling => count' = loc'[d].id + 1
                         /\ pc'[d] \notin {"scan", "shrink"}
  BY <1>1, <1>3 DEF Filling
<1> QED BY <1>4, <1>5 DEF ListFilled

LEMMA FillStep ==
    ASSUME IInv, NEW c \in Clients, FillEntry(c)
    PROVE  /\ pc[c] \in Pending \ {"init", "storeCb"} /\ loc[c].id \in Slots
           /\ UNCHANGED <<count, rxCb, rxArg, live, asked, reg, loc, mine, hwList>>
           /\ \A d \in Clients : d # c => ~Inside(d) /\ pc'[d] = pc[d]
           /\ \A s \in Slots : s # loc[c].id => list'[s] = list[s] /\ rtr'[s] = rtr[s]
           /\ \/ pc'[c] = "mask"
              \/ pc[c] = "mask" /\ pc'[c] = "rtr" /\ list'[loc[c].id] = [index |-> loc[c].id, pat |-> asked[reg[c]].pat]
              \/ pc[c] = "rtr" /\ pc'[c] = "rtrMask" /\ list' = list
              \/ /\ pc[c] = "rtrMask" /\ pc'[c] = "init" /\ list' = list
                 /\ rtr'[loc[c].id] = {asked[reg[c]].rtr}
<1> USE DEF FillEntry, Fill, FillMask, FillRtr, FillRtrMask
<1>1. /\ pc[c] \in Pending \ {"init", "storeCb"} /\ loc[c].id \in Slots
      /\ UNCHANGED <<count, rxCb, rxArg, live, asked, reg, loc, mine, hwList>>
  BY LocIs DEF Thread, Pending, IInv, history, hwVars
<1>2. \A d \in Clients : d # c => ~Inside(d) /\ pc'[d] = pc[d]
  <2>1. Inside(c)
    BY <1>1 DEF Inside, Pending
  <2> QED BY <2>1, OneInside, OthersRest DEF IInv, Add, Same
<1>3. list \in [Slots -> [index : Slots, pat : SUBSET Ids]] /\ rtr \in [Slots -> SUBSET BOOLEAN] /\ pc \in [Clients -> Steps]
  BY DEF IInv, TypeOK
<1>4. \A s \in Slots : s # loc[c].id => list'[s] = list[s] /\ rtr'[s] = rtr[s]
  BY <1>1, <1>3 DEF Store
<1>5. CASE Fill(c)
  BY <1>1, <1>2, <1>3, <1>4, <1>5 DEF Goto
<1>6. CASE FillMask(c)
  BY <1>1, <1>2, <1>3, <1>4, <1>6 DEF Goto, Store, Thread
<1>7. CASE FillRtr(c)
  BY <1>1, <1>2, <1>3, <1>4, <1>7 DEF Goto, Thread
<1>8. CASE FillRtrMask(c)
  BY <1>1, <1>2, <1>3, <1>4, <1>8 DEF Goto, Thread
<1> QED BY <1>5, <1>6, <1>7, <1>8

LEMMA ListFill == ASSUME IInv, NEW c \in Clients, FillEntry(c) PROVE ListFilled'
<1> DEFINE n == loc[c].id
<1>1. /\ pc[c] \in Filling /\ pc'[c] \in Filling /\ loc' = loc /\ count' = count /\ n \in Slots
      /\ \A d \in Clients : d # c => ~Inside(d) /\ pc'[d] = pc[d]
      /\ \A s \in Slots : s # n => list'[s] = list[s]
  BY FillStep DEF Filling, Pending
<1>2. pc'[c] \notin Torn => list'[n].pat \in Patterns
  <2>1. asked[reg[c]].pat \in Patterns
    BY <1>1, AskedIs DEF Filling, Adders, AddSteps
  <2>2. pc[c] \notin Torn /\ n < count => list[n].pat \in Patterns
    BY <1>1, Alone DEF Filling, Torn, Inside
  <2>3. n < count
    BY <1>1, NumbersAre DEF IInv, ListFilled, Slots
  <2>4. \/ pc'[c] = "mask"
        \/ list'[n] = [index |-> n, pat |-> asked[reg[c]].pat]
        \/ pc[c] \in {"rtr", "rtrMask"} /\ list' = list
    BY FillStep
  <2> QED BY <2>1, <2>2, <2>3, <2>4 DEF Torn
<1>3. \A s \in Slots : s < count' /\ Steady(s)' => list'[s].pat \in Patterns
  <2> SUFFICES ASSUME NEW s \in Slots, s < count, Steady(s)' PROVE list'[s].pat \in Patterns
    BY <1>1
  <2>1. CASE s = n
    BY <1>1, <1>2, <2>1 DEF Steady
  <2>2. CASE s # n
    <3>1. Steady(s)
      BY <1>1, <2>2 DEF Steady, Inside, Torn
    <3> QED BY <1>1, <2>2, <3>1 DEF IInv, ListFilled
  <2> QED BY <2>1, <2>2
<1>4. \A d \in Clients : /\ pc'[d] \in Filling => count' = loc'[d].id + 1
                         /\ pc'[d] \notin {"scan", "shrink"}
  BY <1>1 DEF Filling, Inside, IInv, ListFilled
<1> QED BY <1>3, <1>4 DEF ListFilled

LEMMA ListRemoveLock == ASSUME IInv, NEW c \in Clients, RemoveLock(c), count > 0 PROVE ListFilled'
<1>1. /\ pc[c] = "remLock" /\ pc'[c] = "scan" /\ list' = list /\ count' = count /\ Same(c) /\ loc'[c].last = count - 1
  <2>1. pc[c] = "remLock" /\ pc'[c] = "scan" /\ list' = list /\ count' = count
    BY DEF RemoveLock, Thread, Goto, IInv, TypeOK
  <2>2. loc' = [loc EXCEPT ![c].i = 0, ![c].last = count - 1] /\ loc \in [Clients -> [id : Slots, i : 0..MaxFilters, last : Slots]]
    BY DEF RemoveLock, IInv, TypeOK
  <2>3. loc'[c].last = count - 1
    BY <2>2
  <2> QED BY <2>1, <2>3, OthersRest DEF Remove
<1>2. \A d \in Clients : ~Inside(d)
  BY <1>1, LockIs DEF RemoveLock, Inside
<1>3. \A s \in Slots : s < count => list[s].pat \in Patterns
  BY <1>2 DEF Inside, IInv, ListFilled, Steady, Torn
<1>4. count \in 0..MaxFilters
  BY LocIs DEF IInv
<1>5. \A s \in 0..(count - 1) : list[s].pat \in Patterns
  BY <1>3, <1>4, NumbersAre DEF Slots
<1>6. \A d \in Clients : d # c => pc'[d] \notin Filling \cup {"scan", "shrink"}
  BY <1>1, <1>2 DEF Same, Inside, Filling
<1> QED BY <1>1, <1>3, <1>5, <1>6 DEF ListFilled, Filling

LEMMA ListScan == ASSUME IInv, NEW c \in Clients, Scan(c) PROVE ListFilled'
<1> DEFINE i == loc[c].i
<1>1. pc[c] = "scan" /\ i < count /\ count' = count /\ Same(c) /\ loc[c].last \in Slots /\ i \in Nat /\ count \in 0..MaxFilters
  <2>1. loc[c].last \in Slots /\ i \in Nat /\ count \in 0..MaxFilters
    BY LocIs, NumbersAre DEF IInv
  <2> QED BY <2>1, OthersRest DEF Scan, Thread, Remove
<1>2. \A d \in Clients : d # c => pc'[d] \notin Filling \cup {"scan", "shrink"}
  <2>1. \A d \in Clients : d # c => ~Inside(d)
    BY <1>1, OneInside DEF Inside, IInv
  <2> QED BY <1>1, <2>1 DEF Same, Inside, Filling
<1>3. \A s \in 0..loc[c].last : list[s].pat \in Patterns
  BY <1>1 DEF IInv, ListFilled
<1>4. \A s \in Slots : s < count => list[s].pat \in Patterns
  BY <1>1, Alone DEF Inside, Torn
<1>5. \A s \in Slots : list'[s] = list[s] \/ list'[s] = list[loc[c].last]
  BY DEF Scan, IInv, TypeOK
<1>6. list[loc[c].last].pat \in Patterns
  BY <1>1, <1>3 DEF Slots
<1>7. \A s \in 0..loc[c].last : s \in Slots
  BY <1>1, NumbersAre DEF Slots
<1>8. /\ loc'[c].last = loc[c].last /\ pc'[c] \in {"scan", "shrink"}
      /\ pc'[c] = "shrink" => loc'[c].i = i
  BY <1>1 DEF Scan, NextEntry, Goto, IInv, TypeOK
<1> QED BY <1>1, <1>2, <1>3, <1>4, <1>5, <1>6, <1>7, <1>8 DEF ListFilled, Filling

LEMMA ListShrink == ASSUME IInv, NEW c \in Clients, Shrink(c) PROVE ListFilled'
<1>1. /\ pc[c] = "shrink" /\ pc'[c] = "scan" /\ count' = count - 1 /\ list' = list /\ Same(c)
      /\ loc'[c].last = loc[c].last /\ count \in 0..MaxFilters
  BY OthersRest, LocIs DEF Shrink, Thread, Goto, NextEntry, IInv, TypeOK, Remove
<1>2. \A d \in Clients : d # c => pc'[d] \notin Filling \cup {"scan", "shrink"}
  <2>1. \A d \in Clients : d # c => ~Inside(d)
    BY <1>1, OneInside DEF Inside, IInv
  <2> QED BY <1>1, <2>1 DEF Same, Inside, Filling
<1>3. \A s \in 0..loc[c].last : list[s].pat \in Patterns
  BY <1>1 DEF IInv, ListFilled
<1>4. \A s \in Slots : s < count => list[s].pat \in Patterns
  BY <1>1, Alone DEF Inside, Torn
<1>5. \A s \in Slots : s < count' => s < count
  BY <1>1, NumbersAre DEF Slots
<1> QED BY <1>1, <1>2, <1>3, <1>4, <1>5 DEF ListFilled, Filling

LEMMA ListStep == IInv /\ [Next]_vars => ListFilled'
<1> SUFFICES ASSUME IInv, [Next]_vars PROVE ListFilled'
  OBVIOUS
<1>1. CASE UNCHANGED <<list, count, pc, loc>>
  BY <1>1, ListKept DEF Filling
<1>2. UNCHANGED vars \/ (\E f \in Frames : Arrive(f)) \/ Isr => UNCHANGED <<list, count, pc, loc>>
  BY DEF vars, Arrive, Isr, IsrEnter, GetMessage, Drained, IsrClear, dataVars, clientVars
<1> QED BY <1>1, <1>2, ListCalm, ListReserve, ListFill, ListRemoveLock, ListScan, ListShrink DEF Next, Add, Remove, Calm

LEMMA SyncedStep == IInv /\ [Next]_vars => Synced'
<1> SUFFICES ASSUME IInv, [Next]_vars PROVE Synced'
  OBVIOUS
<1>1. ASSUME UNCHANGED <<list, count, hwList>>,
             \A d \in Clients : pc[d] \in Unsynced => pc'[d] \in Unsynced
      PROVE  Synced'
  BY <1>1 DEF IInv, Synced
<1>2. ASSUME NEW c \in Clients, AddCall(c) \/ AddLock(c) \/ (Reserve(c) /\ ~HasRoom) \/ StoreCb(c) \/ StoreArg(c)
               \/ AddReturn(c) \/ RemoveCall(c) \/ RemoveLock(c) \/ ScanEnds(c) \/ RemoveReturn(c)
      PROVE  Synced'
  <2>1. UNCHANGED <<list, count, hwList>> /\ pc[c] \notin Unsynced
    BY <1>2 DEF Unsynced, AddCall, AddLock, Reserve, StoreCb, StoreArg, AddReturn, RemoveCall, RemoveLock, ScanEnds,
                RemoveReturn, dataVars, hwVars, Thread
  <2>2. Same(c)
    BY <1>2, OthersRest DEF Add, Remove
  <2> QED BY <1>1, <2>1, <2>2 DEF Same
<1>3. ASSUME NEW c \in Clients, (Reserve(c) /\ HasRoom) \/ FillEntry(c) PROVE Synced'
  <2>1. pc'[c] \in Unsynced
    BY <1>3 DEF Unsynced, Reserve, FillEntry, Fill, FillMask, FillRtr, FillRtrMask, Goto, IInv, TypeOK
  <2> QED BY <2>1 DEF Synced
<1>4. ASSUME NEW c \in Clients, AddInit(c) \/ Shrink(c) PROVE Synced'
  <2>1. Reinit(count', list) /\ list' = list
    BY <1>4 DEF AddInit, Shrink, dataVars
  <2> QED BY <2>1 DEF Synced, Reinit
<1>5. ASSUME NEW c \in Clients, Scan(c) PROVE Synced'
  <2>1. CASE list[loc[c].i].index = loc[c].id
    <3>1. pc'[c] = "shrink"
      BY <1>5, <2>1 DEF Scan, Goto, IInv, TypeOK
    <3> QED BY <3>1 DEF Synced, Unsynced
  <2>2. CASE list[loc[c].i].index # loc[c].id
    <3>1. UNCHANGED <<list, count, hwList, pc>>
      BY <1>5, <2>2 DEF Scan, hwVars
    <3> QED BY <1>1, <3>1
  <2> QED BY <2>1, <2>2
<1>6. CASE UNCHANGED vars \/ (\E f \in Frames : Arrive(f)) \/ Isr
  <2>1. UNCHANGED <<list, count, hwList, pc>>
    BY <1>6 DEF vars, Arrive, Isr, IsrEnter, GetMessage, Drained, IsrClear, dataVars, clientVars, hwVars
  <2> QED BY <1>1, <2>1
<1> QED BY <1>2, <1>3, <1>4, <1>5, <1>6 DEF Next, Add, Remove

-------------------------------------------------------------------------------
(* Entries and registrations while nothing was removed.                     *)
LEMMA EntriesKept ==
    ASSUME IInv, ~removed,
           UNCHANGED <<list, count, rtr, rxCb, rxArg, live>>, \A r \in 1..adds : asked'[r] = asked[r],
           \A s : Filled(s) => Filled(s)', \A c \in Clients : EntriesLead => Before(c)' /\ Looking(c)'
    PROVE  EntriesLead'
<1>1. EntriesLead /\ RestEmpty /\ EntryEach /\ LiveEach /\ live \subseteq 1..adds
  BY DEF IInv, EntriesLead, RegsOwn
<1>2. RestEmpty' /\ LiveEach'
  BY <1>1 DEF RestEmpty, LiveEach
<1>3. \A s \in Slots : Entry(s) => Entry(s)'
  BY <1>1 DEF Entry
<1>4. EntryEach'
  BY <1>1, <1>3 DEF EntryEach
<1> QED BY <1>1, <1>2, <1>4 DEF EntriesLead

LEMMA EntriesAddCall == ASSUME IInv, NEW c \in Clients, AddCall(c), ~removed PROVE EntriesLead'
<1>1. /\ UNCHANGED <<list, count, rtr, rxCb, rxArg, live, loc, mine>> /\ pc[c] = "idle" /\ pc'[c] = "addLock"
      /\ adds' = adds + 1 /\ adds \in Nat
  BY DEF AddCall, Thread, Goto, dataVars, IInv, TypeOK
<1>2. \A d \in Clients : d # c => pc'[d] = pc[d] /\ reg'[d] = reg[d]
  BY OthersRest DEF Add, Same
<1>3. \A r \in 1..adds : asked'[r] = asked[r]
  BY <1>1, NumbersAre DEF AddCall, IInv, TypeOK, Regs
<1>4. \A s : Filled(s) => Filled(s)'
  BY <1>1, <1>2 DEF Filled, Pending, Torn
<1>5. \A d \in Clients : EntriesLead => Before(d)' /\ Looking(d)'
  <2> SUFFICES ASSUME NEW d \in Clients, EntriesLead PROVE Before(d)' /\ Looking(d)'
    OBVIOUS
  <2>1. Before(d) /\ Looking(d)
    BY DEF EntriesLead
  <2>2. CASE d = c
    BY <1>1, <2>1, <2>2 DEF Before, Looking, Pending, Torn
  <2>3. CASE d # c
    <3>1. pc[d] \in Pending => reg[d] \in 1..adds
      BY DEF Pending, IInv, RegsOwn, Adders, AddSteps
    <3> QED BY <1>1, <1>2, <1>3, <2>1, <2>3, <3>1 DEF Before, Looking, Pending, Torn
  <2> QED BY <2>2, <2>3
<1> QED BY <1>1, <1>3, <1>4, <1>5, EntriesKept

(* The steps that leave the list, the callbacks and the registrations alone.*)
Passes(c) == AddLock(c) \/ (Reserve(c) /\ ~HasRoom) \/ AddInit(c) \/ AddReturn(c) \/ RemoveCall(c)
               \/ (RemoveLock(c) /\ count > 0)

LEMMA EntriesPass == ASSUME IInv, NEW c \in Clients, Passes(c), ~removed PROVE EntriesLead'
<1>1. UNCHANGED <<list, count, rtr, rxCb, rxArg, live, asked>>
  BY DEF Passes, AddLock, Reserve, AddInit, AddReturn, RemoveCall, RemoveLock, dataVars, history
<1>2. Same(c)
  BY OthersRest DEF Passes, Add, Remove
<1>3. \A s : Filled(s) => Filled(s)'
  <2>1. pc[c] \in Pending => pc'[c] \in Pending /\ loc'[c].id = loc[c].id
    BY DEF Pending, Passes, AddLock, Reserve, AddInit, AddReturn, RemoveCall, RemoveLock, Thread, Goto, IInv, TypeOK
  <2> QED BY <1>2, <2>1 DEF Filled, Same, Pending, Torn
<1>4. ASSUME EntriesLead PROVE Before(c)' /\ Looking(c)'
  <2>1. Before(c) /\ Looking(c)
    BY <1>4 DEF EntriesLead
  <2>2. CASE AddLock(c) \/ (Reserve(c) /\ ~HasRoom)
    <3>1. pc'[c] \in {"reserve", "idle"} /\ mine' = mine
      BY <2>2 DEF AddLock, Reserve, Goto, IInv, TypeOK
    <3> QED BY <1>1, <2>1, <3>1 DEF Before, Looking, Pending, Torn
  <2>3. CASE AddInit(c)
    <3>1. pc[c] = "init" /\ pc'[c] = "storeCb" /\ UNCHANGED <<mine, loc, reg>>
      BY <2>3 DEF AddInit, Thread, Goto, IInv, TypeOK
    <3> QED BY <1>1, <2>1, <3>1 DEF Before, Looking, Pending, Torn
  <2>4. CASE AddReturn(c)
    <3>1. /\ pc[c] = "unlock" /\ pc'[c] = "idle"
          /\ mine' = [mine EXCEPT ![c] = @ \cup {<<loc[c].id, reg[c]>>}]
      BY <2>4 DEF AddReturn, Thread, Goto, IInv, TypeOK
    <3>2. loc[c].id < count
      BY <3>1, LocIs, NumbersAre DEF IInv, ListFilled, Filling, Slots
    <3>3. \A m \in mine'[c] : m[1] < count
      BY <2>1, <3>1, <3>2 DEF Looking, IInv, TypeOK
    <3> QED BY <1>1, <3>1, <3>3 DEF Before, Looking, Pending, Torn
  <2>5. CASE RemoveCall(c)
    <3>1. pc'[c] = "remLock" /\ loc \in [Clients -> [id : Slots, i : 0..MaxFilters, last : Slots]]
      BY <2>5 DEF RemoveCall, Goto, IInv, TypeOK
    <3>2. PICK m \in mine[c] : loc' = [loc EXCEPT ![c].id = m[1]] /\ mine' = [mine EXCEPT ![c] = @ \ {m}]
      BY <2>5 DEF RemoveCall
    <3>3. loc'[c].id < count
      BY <2>1, <3>1, <3>2 DEF Looking
    <3>4. \A q \in mine'[c] : q[1] < count
      BY <2>1, <3>2 DEF Looking, IInv, TypeOK
    <3> QED BY <1>1, <3>1, <3>3, <3>4 DEF Before, Looking, Pending, Torn
  <2>6. CASE RemoveLock(c) /\ count > 0
    <3>1. /\ pc[c] = "remLock" /\ pc'[c] = "scan" /\ loc' = [loc EXCEPT ![c].i = 0, ![c].last = count - 1] /\ mine' = mine
          /\ loc \in [Clients -> [id : Slots, i : 0..MaxFilters, last : Slots]]
      BY <2>6 DEF RemoveLock, Thread, Goto, IInv, TypeOK
    <3>2. loc'[c].i = 0 /\ loc'[c].id = loc[c].id /\ loc[c].id >= 0
      BY <3>1 DEF Slots
    <3> QED BY <1>1, <2>1, <3>1, <3>2 DEF Before, Looking, Pending, Torn
  <2> QED BY <2>2, <2>3, <2>4, <2>5, <2>6 DEF Passes
<1>5. \A d \in Clients : EntriesLead => Before(d)' /\ Looking(d)'
  BY <1>1, <1>2, <1>4 DEF EntriesLead, Before, Looking, Same, Pending, Torn
<1> QED BY <1>1, <1>3, <1>5, EntriesKept

LEMMA EntriesReserve == ASSUME IInv, NEW c \in Clients, Reserve(c), HasRoom, ~removed PROVE EntriesLead'
<1>1. /\ pc[c] = "reserve" /\ pc'[c] = "fill" /\ count' = count + 1 /\ count \in Slots /\ count \in Nat
      /\ UNCHANGED <<list, rtr, rxCb, rxArg, live, asked, reg, mine>>
  BY NumbersAre DEF Reserve, HasRoom, Thread, Goto, IInv, TypeOK, history, Slots
<1>2. loc'[c].id = count
  <2>1. loc' = [loc EXCEPT ![c].id = count] /\ loc \in [Clients -> [id : Slots, i : 0..MaxFilters, last : Slots]]
    BY DEF Reserve, IInv, TypeOK
  <2> QED BY <2>1
<1>3. Same(c)
  BY OthersRest DEF Add
<1>4. RestEmpty /\ EntryEach /\ LiveEach /\ \A d \in Clients : Before(d) /\ Looking(d)
  BY DEF IInv, EntriesLead
<1>5. \A s \in Slots : s \in Int /\ (s < count' <=> s < count \/ s = count)
  BY <1>1 DEF Slots
<1>6. RestEmpty' /\ LiveEach'
  BY <1>1, <1>4, <1>5 DEF RestEmpty, LiveEach
<1>7. EntryEach'
  <2>1. \A s : Filled(s) => Filled(s)'
    BY <1>1, <1>3 DEF Filled, Same, Pending, Torn
  <2>2. PICK n \in Slots : n = count
    BY <1>1
  <2>3. Filled(n)'
    BY <1>1, <1>2, <2>2 DEF Filled, Pending, Torn
  <2>4. \A s \in Slots : Entry(s) => Entry(s)'
    BY <1>1 DEF Entry
  <2> QED BY <1>4, <1>5, <2>1, <2>2, <2>3, <2>4 DEF EntryEach
<1>8. Before(c)' /\ Looking(c)'
  <2>1. rxCb[count] = None /\ rxArg[count] = None
    BY <1>1, <1>4 DEF RestEmpty
  <2>2. \A m \in mine[c] : m[1] < count'
    <3>1. \A m \in mine[c] : m[1] < count /\ m[1] \in Slots
      BY <1>4 DEF Looking, IInv, TypeOK
    <3> QED BY <1>5, <3>1
  <2> QED BY <1>1, <1>2, <2>1, <2>2 DEF Before, Looking, Pending, Torn
<1>9. ASSUME NEW d \in Clients, d # c PROVE Before(d)' /\ Looking(d)'
  <2>1. pc'[d] = pc[d] /\ reg'[d] = reg[d] /\ loc'[d] = loc[d] /\ mine'[d] = mine[d] /\ Before(d) /\ Looking(d)
    BY <1>3, <1>4, <1>9 DEF Same
  <2>2. loc[d].id \in Slots /\ \A m \in mine[d] : m[1] \in Slots
    BY DEF IInv, TypeOK
  <2> QED BY <1>1, <1>5, <2>1, <2>2 DEF Before, Looking, Pending, Torn
<1> QED BY <1>6, <1>7, <1>8, <1>9 DEF EntriesLead

LEMMA EntriesFill == ASSUME IInv, NEW c \in Clients, FillEntry(c), ~removed PROVE EntriesLead'
<1> DEFINE n == loc[c].id
<1>1. /\ pc[c] \in Pending /\ pc'[c] \in Pending
      /\ UNCHANGED <<count, rxCb, rxArg, live, asked, reg, loc, mine>>
      /\ \A s \in Slots : s # n => list'[s] = list[s] /\ rtr'[s] = rtr[s]
      /\ \A d \in Clients : d # c => ~Inside(d) /\ pc'[d] = pc[d]
  BY FillStep DEF Pending
<1>2. RestEmpty /\ EntryEach /\ LiveEach /\ \A d \in Clients : Before(d) /\ Looking(d)
  BY DEF IInv, EntriesLead
<1>3. RestEmpty' /\ LiveEach'
  BY <1>1, <1>2 DEF RestEmpty, LiveEach
<1>4. EntryEach'
  <2> SUFFICES ASSUME NEW s \in Slots, s < count PROVE Entry(s)' \/ Filled(s)'
    BY <1>1 DEF EntryEach
  <2>1. CASE s = n
    BY <1>1, <2>1 DEF Filled, Pending, Torn
  <2>2. CASE s # n
    <3>1. ~Filled(s)
      BY <1>1, <2>2 DEF Filled, Inside, Pending
    <3>2. Entry(s)
      BY <1>2, <3>1 DEF EntryEach
    <3> QED BY <1>1, <2>2, <3>2 DEF Entry
  <2> QED BY <2>1, <2>2
<1>5. Before(c)' /\ Looking(c)'
  <2>1. Before(c) /\ Looking(c)
    BY <1>2
  <2>2. pc'[c] \in Pending \ Torn => list'[n] = [index |-> n, pat |-> asked[reg[c]].pat]
    BY <2>1, FillStep DEF Before, Torn, Pending
  <2>3. pc'[c] \in {"init", "storeCb"} => rtr'[n] = {asked[reg[c]].rtr}
    BY FillStep
  <2> QED BY <1>1, <2>1, <2>2, <2>3 DEF Before, Looking, Pending
<1>6. ASSUME NEW d \in Clients, d # c PROVE Before(d)' /\ Looking(d)'
  <2>1. pc'[d] = pc[d] /\ ~Inside(d) /\ Looking(d)
    BY <1>1, <1>2, <1>6
  <2> QED BY <1>1, <2>1 DEF Before, Looking, Inside, Pending
<1> QED BY <1>3, <1>4, <1>5, <1>6 DEF EntriesLead

LEMMA EntriesStoreCb == ASSUME IInv, NEW c \in Clients, StoreCb(c), ~removed PROVE EntriesLead'
<1> DEFINE n == loc[c].id
<1>1. /\ pc[c] = "storeCb" /\ pc'[c] = "storeArg" /\ UNCHANGED <<count, list, rtr, rxArg, asked, reg, loc, mine>>
      /\ live' = live \cup {reg[c]}
  BY DEF StoreCb, Thread, Goto, IInv, TypeOK
<1>2. /\ n \in Slots /\ \A s \in Slots : s # n => rxCb'[s] = rxCb[s]
      /\ rxCb'[n] = reg[c]
  BY LocIs DEF StoreCb, IInv, TypeOK
<1>3. RestEmpty /\ EntryEach /\ LiveEach /\ \A d \in Clients : Before(d) /\ Looking(d)
  BY DEF IInv, EntriesLead
<1>4. \A d \in Clients : d # c => ~Inside(d) /\ pc'[d] = pc[d]
  BY <1>1, OneInside, OthersRest DEF IInv, Inside, Add, Same
<1>5. count = n + 1 /\ n \in Nat /\ \A s \in Slots : s \in Nat
  BY <1>1, <1>2 DEF IInv, ListFilled, Filling, Slots
<1>6. RestEmpty'
  BY <1>1, <1>2, <1>3, <1>5 DEF RestEmpty
<1>7. rxCb[n] = None /\ rxArg[n] = None /\ list[n] = [index |-> n, pat |-> asked[reg[c]].pat] /\ rtr[n] = {asked[reg[c]].rtr}
  BY <1>1, <1>3 DEF Before, Pending, Torn
<1>8. LiveEach'
  <2> SUFFICES ASSUME NEW r \in live' PROVE \E s \in Slots : s < count /\ rxCb'[s] = r
    BY <1>1 DEF LiveEach
  <2>1. CASE r = reg[c]
    BY <1>2, <1>5, <2>1
  <2>2. CASE r \in live
    <3>1. PICK s \in Slots : s < count /\ rxCb[s] = r
      BY <1>3, <2>2 DEF LiveEach
    <3>2. r # None
      BY <2>2 DEF IInv, RegsOwn, None
    <3> QED BY <1>2, <1>7, <3>1, <3>2
  <2> QED BY <1>1, <2>1, <2>2
<1>9. EntryEach'
  <2> SUFFICES ASSUME NEW s \in Slots, s < count PROVE Entry(s)'
    BY <1>1 DEF EntryEach
  <2>1. CASE s = n
    BY <1>1, <1>2, <1>7, <2>1 DEF Entry
  <2>2. CASE s # n
    <3>1. ~Filled(s)
      BY <1>4, <2>2 DEF Filled, Inside, Pending, Torn
    <3>2. Entry(s)
      BY <1>3, <3>1 DEF EntryEach
    <3> QED BY <1>1, <1>2, <2>2, <3>2 DEF Entry
  <2> QED BY <2>1, <2>2
<1>10. Before(c)' /\ Looking(c)'
  BY <1>1, <1>2, <1>3 DEF Before, Looking, Pending, Torn
<1>11. ASSUME NEW d \in Clients, d # c PROVE Before(d)' /\ Looking(d)'
  <2>1. pc'[d] = pc[d] /\ ~Inside(d) /\ Looking(d)
    BY <1>3, <1>4, <1>11
  <2> QED BY <1>1, <2>1 DEF Before, Looking, Inside, Pending, Torn
<1> QED BY <1>6, <1>8, <1>9, <1>10, <1>11 DEF EntriesLead

LEMMA EntriesStoreArg == ASSUME IInv, NEW c \in Clients, StoreArg(c), ~removed PROVE EntriesLead'
<1> DEFINE n == loc[c].id
<1>1. /\ pc[c] = "storeArg" /\ pc'[c] = "unlock"
      /\ UNCHANGED <<count, list, rtr, rxCb, live, asked, reg, loc, mine>>
  BY DEF StoreArg, Thread, Goto, IInv, TypeOK, history
<1>2. /\ n \in Slots /\ \A s \in Slots : s # n => rxArg'[s] = rxArg[s]
      /\ rxArg'[n] = reg[c]
  BY LocIs DEF StoreArg, IInv, TypeOK
<1>3. RestEmpty /\ EntryEach /\ LiveEach /\ \A d \in Clients : Before(d) /\ Looking(d)
  BY DEF IInv, EntriesLead
<1>4. \A d \in Clients : d # c => ~Inside(d) /\ pc'[d] = pc[d]
  BY <1>1, OneInside, OthersRest DEF IInv, Inside, Add, Same
<1>5. count = n + 1 /\ n \in Nat /\ \A s \in Slots : s \in Nat
  BY <1>1, <1>2 DEF IInv, ListFilled, Filling, Slots
<1>6. rxCb[n] = reg[c]
  BY <1>1, <1>3 DEF Before, Pending, Torn
<1>7. RestEmpty' /\ LiveEach'
  BY <1>1, <1>2, <1>3, <1>5 DEF RestEmpty, LiveEach
<1>8. EntryEach'
  <2> SUFFICES ASSUME NEW s \in Slots, s < count PROVE Entry(s)'
    BY <1>1 DEF EntryEach
  <2>1. ~Filled(s)
    BY <1>1, <1>4 DEF Filled, Inside, Pending, Torn
  <2>2. Entry(s)
    BY <1>3, <2>1 DEF EntryEach
  <2> QED BY <1>1, <1>2, <1>6, <2>2 DEF Entry
<1>9. \A d \in Clients : Before(d)' /\ Looking(d)'
  <2> SUFFICES ASSUME NEW d \in Clients PROVE Before(d)' /\ Looking(d)'
    OBVIOUS
  <2>1. CASE d = c
    BY <1>1, <1>3, <2>1 DEF Before, Looking, Pending, Torn
  <2>2. CASE d # c
    <3>1. pc'[d] = pc[d] /\ ~Inside(d) /\ Looking(d)
      BY <1>3, <1>4, <2>2
    <3> QED BY <1>1, <3>1 DEF Before, Looking, Inside, Pending, Torn
  <2> QED BY <2>1, <2>2
<1> QED BY <1>7, <1>8, <1>9 DEF EntriesLead

(* A removal finds the entry it looks for.                                  *)
LEMMA EntriesScan == ASSUME IInv, NEW c \in Clients, Scan(c), ~removed PROVE EntriesLead'
<1>1. CASE list[loc[c].i].index = loc[c].id
  BY <1>1 DEF Scan, EntriesLead
<1>2. CASE list[loc[c].i].index # loc[c].id
  <2>1. /\ UNCHANGED <<count, list, rtr, rxCb, rxArg, live, asked, adds, reg, mine, pc>> /\ pc[c] = "scan"
        /\ loc' = [loc EXCEPT ![c].i = @ + 1] /\ loc[c].i < count
    BY <1>2 DEF Scan, NextEntry, Thread
  <2>2. RestEmpty /\ EntryEach /\ LiveEach /\ \A d \in Clients : Before(d) /\ Looking(d)
    BY DEF IInv, EntriesLead
  <2>3. \A d \in Clients : d # c => ~Inside(d)
    BY <2>1, OneInside DEF IInv, Inside
  <2>4. \A s : ~Filled(s) /\ ~Filled(s)'
    BY <2>1, <2>3 DEF Filled, Inside, Pending, Torn
  <2>5. loc[c].i <= loc[c].id /\ loc[c].id < count /\ loc[c].i \in Nat /\ loc[c].id \in Slots /\ loc[c].id \in Nat
    BY <2>1, <2>2, LocIs, NumbersAre DEF Looking, IInv, Slots
  <2>6. loc[c].i # loc[c].id
    BY <1>2, <2>2, <2>4, <2>5 DEF EntryEach, Entry
  <2>7. loc'[c].i = loc[c].i + 1 /\ loc'[c].id = loc[c].id
    BY <2>1 DEF IInv, TypeOK
  <2>8. \A d \in Clients : Before(d)' /\ Looking(d)'
    <3> SUFFICES ASSUME NEW d \in Clients PROVE Before(d)' /\ Looking(d)'
      OBVIOUS
    <3>1. CASE d = c
      BY <2>1, <2>2, <2>5, <2>6, <2>7, <3>1 DEF Before, Looking, Pending, Torn
    <3>2. CASE d # c
      <4>1. loc'[d] = loc[d] /\ Before(d) /\ Looking(d)
        BY <2>1, <2>2, <3>2 DEF IInv, TypeOK
      <4> QED BY <2>1, <4>1 DEF Before, Looking, Pending, Torn
    <3> QED BY <3>1, <3>2
  <2> QED BY <2>1, <2>4, <2>8, EntriesKept
<1> QED BY <1>1, <1>2

LEMMA EntriesStep == IInv /\ [Next]_vars => EntriesLead'
<1> SUFFICES ASSUME IInv, [Next]_vars PROVE EntriesLead'
  OBVIOUS
<1>1. CASE removed
  <2>1. removed'
    BY <1>1 DEF vars, history, Next, Add, Remove, AddCall, AddLock, Reserve, FillEntry, Fill, FillMask, FillRtr, FillRtrMask, AddInit, StoreCb, StoreArg, AddReturn,
                RemoveCall, RemoveLock, Scan, Shrink, ScanEnds, RemoveReturn, Arrive, Isr, IsrEnter, GetMessage, Drained, IsrClear
  <2> QED BY <2>1 DEF EntriesLead
<1>2. CASE ~removed
  <2>1. CASE UNCHANGED vars \/ (\E f \in Frames : Arrive(f)) \/ Isr
    <3>1. UNCHANGED <<list, count, rtr, rxCb, rxArg, live, asked, pc, loc, reg, mine>>
      BY <2>1 DEF vars, Arrive, Isr, IsrEnter, GetMessage, Drained, IsrClear, dataVars, clientVars, history
    <3>2. \A s : Filled(s) => Filled(s)'
      BY <3>1 DEF Filled, Pending, Torn
    <3>3. \A d \in Clients : EntriesLead => Before(d)' /\ Looking(d)'
      BY <1>2, <3>1 DEF EntriesLead, Before, Looking, Pending, Torn
    <3> QED BY <1>2, <3>1, <3>2, <3>3, EntriesKept
  <2>2. ASSUME NEW c \in Clients,
               (RemoveLock(c) /\ ~(count > 0)) \/ Shrink(c) \/ ScanEnds(c) \/ RemoveReturn(c)
        PROVE  FALSE
    <3>1. Looking(c)
      BY <1>2 DEF IInv, EntriesLead
    <3>2. loc[c].id \in Nat /\ loc[c].i \in Nat /\ count \in Nat
      BY LocIs, NumbersAre DEF IInv, Slots
    <3> QED BY <2>2, <3>1, <3>2 DEF Looking, RemoveLock, Shrink, ScanEnds, RemoveReturn, Thread
  <2> QED BY <1>2, <2>1, <2>2, EntriesAddCall, EntriesPass, EntriesReserve, EntriesFill, EntriesStoreCb, EntriesStoreArg,
             EntriesScan DEF Next, Add, Remove, Passes
<1> QED BY <1>1, <1>2

-------------------------------------------------------------------------------
(* The first entry that lets a frame through.                               *)
LEMMA NatHasLeast ==
    ASSUME NEW T, T \subseteq Nat, T # {}
    PROVE  \E i \in T : \A j \in T : i <= j
<1>1. PICK i \in T : \A j \in T : ~ (<<j, i>> \in OpToRel(<, Nat))
  BY WFMin, NatLessThanWellFounded
<1>2. \A j \in T : ~ (j < i)
  BY <1>1 DEF OpToRel
<1> QED BY <1>2

LEMMA FirstMatchIs ==
    ASSUME TypeOK, NEW f
    PROVE  /\ \A n \in FirstMatch(f) : n \in Slots /\ n < count /\ f.id \in list[n].pat
           /\ \A s \in Slots : s < count /\ f.id \in list[s].pat => \E n \in FirstMatch(f) : n <= s
<1> DEFINE hits == {s \in 0..(count - 1) : f.id \in list[s].pat}
<1>1. count \in Nat /\ \A s \in 0..(count - 1) : s \in Slots /\ s \in Nat /\ s < count
  BY NumbersAre DEF TypeOK, Slots
<1>2. FirstMatch(f) = {s \in hits : \A u \in hits : s <= u}
  BY DEF FirstMatch
<1>3. ASSUME hits # {} PROVE \E n \in hits : \A u \in hits : n <= u
  <2>1. hits \in SUBSET Nat
    BY <1>1
  <2> HIDE DEF hits
  <2> QED BY <1>3, <2>1, NatHasLeast
<1>4. ASSUME NEW s \in Slots, s < count, f.id \in list[s].pat PROVE \E n \in FirstMatch(f) : n <= s
  <2>1. s \in hits
    BY <1>1, <1>4, NumbersAre DEF Slots
  <2>2. PICK n \in hits : \A u \in hits : n <= u
    BY <1>3, <2>1
  <2> QED BY <1>2, <2>1, <2>2
<1> QED BY <1>1, <1>2, <1>4

LEMMA Delivers == ASSUME IInv, ~removed, removed' = removed, NEW f \in Frames, Deliver(f) PROVE DeliveredToOwner'
<1>1. RestEmpty /\ EntryEach /\ LiveEach /\ \A d \in Clients : Before(d) /\ Looking(d)
  BY DEF IInv, EntriesLead
<1>2. None \notin live
  BY DEF IInv, RegsOwn, None
<1>3. ASSUME NEW n \in FirstMatch(f), rxCb[n] # None
      PROVE  /\ rxCb[n] \in Alike(f) /\ rtr[n] = {asked[rxCb[n]].rtr} /\ rxArg[n] \in {None, rxCb[n]}
  <2>1. n \in Slots /\ n < count /\ f.id \in list[n].pat
    BY FirstMatchIs DEF IInv
  <2>2. ~Filled(n)
    BY <1>1, <1>3 DEF Filled, Before, Pending, Torn
  <2>3. Entry(n)
    BY <1>1, <2>1, <2>2 DEF EntryEach
  <2> QED BY <2>1, <2>3 DEF Entry, Alike
<1>4. CASE \E n \in FirstMatch(f) :
             /\ RtrMatches(n, f) /\ rxCb[n] # None
             /\ last' = [reg |-> rxCb[n], arg |-> rxArg[n], due |-> Wanted(f), owed |-> Owed(f)]
  <2>1. PICK n \in FirstMatch(f) :
             /\ RtrMatches(n, f) /\ rxCb[n] # None
             /\ last' = [reg |-> rxCb[n], arg |-> rxArg[n], due |-> Wanted(f), owed |-> Owed(f)]
    BY <1>4
  <2>2. rxCb[n] \in Wanted(f) /\ rxArg[n] \in {None, rxCb[n]}
    BY <1>3, <2>1 DEF Wanted, RtrMatches
  <2> QED BY <2>1, <2>2 DEF DeliveredToOwner
<1>5. CASE /\ ~\E n \in FirstMatch(f) : RtrMatches(n, f) /\ rxCb[n] # None
           /\ last' = [NoReport EXCEPT !.due = Wanted(f), !.owed = Owed(f)]
  <2>1. last'.reg = None /\ last'.owed = Owed(f)
    BY <1>5 DEF NoReport
  <2>2. ASSUME NEW r \in Wanted(f), Alike(f) = Wanted(f) PROVE FALSE
    <3>1. r \in live /\ f.id \in asked[r].pat
      BY DEF Wanted, Alike
    <3>2. PICK s \in Slots : s < count /\ rxCb[s] = r
      BY <1>1, <3>1 DEF LiveEach
    <3>3. rxCb[s] # None /\ Entry(s)
      <4>1. rxCb[s] # None
        BY <1>2, <3>1, <3>2
      <4>2. ~Filled(s)
        BY <1>1, <4>1 DEF Filled, Before, Pending, Torn
      <4> QED BY <1>1, <3>2, <4>1, <4>2 DEF EntryEach
    <3>4. PICK n \in FirstMatch(f) : n <= s
      BY <3>1, <3>2, <3>3, FirstMatchIs DEF Entry, IInv
    <3>5. n \in Slots /\ n < count /\ count \in Nat /\ \A u \in Slots : u \in Nat
      <4>1. n \in Slots /\ n < count
        BY FirstMatchIs DEF IInv
      <4>2. count \in Nat
        BY NumbersAre DEF IInv, TypeOK
      <4>3. \A u \in Slots : u \in Nat
        BY DEF Slots
      <4> QED BY <4>1, <4>2, <4>3
    <3>6. rxCb[n] # None
      <4>1. CASE Filled(n)
        <5>1. PICK c \in Clients : pc[c] \in Pending /\ loc[c].id = n
          BY <4>1 DEF Filled, Pending, Torn
        <5>2. count = n + 1
          BY <5>1 DEF IInv, ListFilled, Filling, Pending
        <5>3. s = n
          BY <3>2, <3>4, <3>5, <5>2
        <5> QED BY <3>3, <5>3
      <4>2. CASE ~Filled(n)
        BY <1>1, <1>2, <3>5, <4>2 DEF EntryEach, Entry
      <4> QED BY <4>1, <4>2
    <3>7. rxCb[n] \in Wanted(f) /\ rtr[n] = {asked[rxCb[n]].rtr}
      BY <1>3, <2>2, <3>6
    <3> QED BY <1>5, <3>6, <3>7 DEF RtrMatches, Wanted
  <2>3. Owed(f) = {}
    BY <2>2 DEF Owed
  <2> QED BY <2>1, <2>3 DEF DeliveredToOwner
<1> QED BY <1>4, <1>5 DEF Deliver

LEMMA DeliverStep == IInv /\ [Next]_vars => DeliveredToOwner'
<1> SUFFICES ASSUME IInv, [Next]_vars PROVE DeliveredToOwner'
  OBVIOUS
<1>1. CASE GetMessage
  <2>1. fifo \in Seq(Frames) /\ fifo # <<>> /\ Deliver(Head(fifo)) /\ removed' = removed
    BY <1>1 DEF GetMessage, IInv, TypeOK
  <2>2. Head(fifo) \in Frames
    BY <2>1, HeadTailProperties
  <2> QED BY <2>1, <2>2, Delivers DEF DeliveredToOwner
<1>2. CASE Drained
  BY <1>2 DEF Drained, NoReport, DeliveredToOwner
<1>3. CASE ~GetMessage /\ ~Drained
  <2>1. last' = last /\ (removed => removed')
    <3>1. CASE UNCHANGED vars \/ \E f \in Frames : Arrive(f)
      BY <3>1 DEF vars, history, Arrive
    <3>2. CASE IsrEnter \/ IsrClear
      BY <3>2 DEF history, IsrEnter, IsrClear
    <3>3. ASSUME NEW c \in Clients, Add(c) PROVE last' = last /\ (removed => removed')
      BY <3>3 DEF history, Add, AddCall, AddLock, Reserve, FillEntry, Fill, FillMask, FillRtr, FillRtrMask, AddInit, StoreCb, StoreArg, AddReturn
    <3>4. ASSUME NEW c \in Clients, Remove(c) PROVE last' = last /\ (removed => removed')
      BY <3>4 DEF history, Remove, RemoveCall, RemoveLock, Scan, Shrink, ScanEnds, RemoveReturn
    <3> QED BY <1>3, <3>1, <3>2, <3>3, <3>4 DEF Next, Isr
  <2> QED BY <2>1 DEF IInv, DeliveredToOwner
<1> QED BY <1>1, <1>2, <1>3

LEMMA InvInit == Init => IInv
<1> SUFFICES ASSUME Init PROVE IInv
  OBVIOUS
<1>1. \A c \in Clients : pc[c] = "idle" /\ mine[c] = {}
  BY DEF Init
<1>2. MutexDiscipline
  BY <1>1 DEF Init, MutexDiscipline, Inside
<1>3. Adders = {} /\ Adding = {}
  BY <1>1 DEF Adders, AddSteps, Adding
<1>4. RegsOwn /\ LeaksFit
  BY <1>3, FS_EmptySet DEF Init, RegsOwn, LeaksFit
<1>5. ListFilled /\ Synced
  BY <1>1, NumbersAre DEF Init, ListFilled, Synced, Filling, Slots
<1>6. EntriesLead
  BY <1>1, NumbersAre DEF Init, EntriesLead, RestEmpty, EntryEach, LiveEach, Before, Looking, Slots, Pending, Torn
<1>7. DeliveredToOwner
  BY DEF Init, NoReport, DeliveredToOwner
<1> QED BY <1>2, <1>4, <1>5, <1>6, <1>7, TypeInit DEF IInv

LEMMA InvStep == IInv /\ [Next]_vars => IInv'
BY TypeStep, MutexStep, RegsStep, ListStep, SyncedStep, EntriesStep, DeliverStep DEF IInv

(* can_hpmicro.c: inst_mutex, the list and the controller's filters keep    *)
(* step with each other through adds and removals in any order.             *)
THEOREM FiltersAreSound == Spec => []IInv
BY InvInit, InvStep, PTL DEF Spec

(* Types, the list the controller is programmed with, and a mutex that only *)
(* a full list leaks: for any number of threads and filters.                *)
THEOREM ListStaysSound == Spec => []ListIsSound
<1>1. IInv => ListIsSound
  BY DEF IInv, Synced, Unsynced, ListIsSound, HwInSync
<1> QED BY <1>1, FiltersAreSound, PTL

(* Until a filter is removed, a received frame reaches a callback that      *)
(* asked for it, with its own user_data or NULL, and is dropped only when   *)
(* nobody asked for it or somebody asked for its identifier with the other  *)
(* RTR bit.                                                                 *)
THEOREM FramesReachTheirOwner == Spec => []DeliveredToOwner
<1>1. IInv => DeliveredToOwner
  BY DEF IInv
<1> QED BY <1>1, FiltersAreSound, PTL
===============================================================================
