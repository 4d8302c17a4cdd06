------------------------------- MODULE McanFilter -------------------------------
(***************************************************************************)
(* Receive filters of the MCAN driver, drivers/can/mcan_hpmicro.c: client   *)
(* threads add and remove filters of two lists, standard and extended       *)
(* identifiers, under inst_mutex; hpm_mcan_isr interrupts them, takes one   *)
(* message out of RX FIFO 0 and calls back.  A filter identifier is a       *)
(* position of its list, so both lists hand out the same identifiers.       *)
(***************************************************************************)
EXTENDS Naturals, Sequences, FiniteSets

CONSTANTS McanClients, NoMcan,
          McanIds, McanZero,    \* identifiers, and identifier 0
          McanMaxExt, McanMaxStd,   \* HPM_CAN_EXT_FILTER_NUM_MAX, HPM_CAN_STD_FILTER_NUM_MAX
          McanAdds,             \* bound: add calls made in a run
          McanFifo              \* messages RX FIFO 0 holds

VARIABLES filters,      \* by kind, is it the extended list?
          instMutex, mcall,
          rxFifo, newMsg, mcanIsr,      \* RX FIFO 0, RXFIFO0_NEW_MSG, is the ISR running?
          request, registered, told, mcanOdd

mcanVars == <<filters, instMutex, mcall, rxFifo, newMsg, mcanIsr, request, registered, told, mcanOdd>>

Calls  == 1..McanAdds           \* an add call; its callback and its user_data
Null   == 0
Room(ext) == IF ext THEN McanMaxExt ELSE McanMaxStd
Places == {p \in 0..(McanMaxExt + McanMaxStd) : p < Room(TRUE) \/ p < Room(FALSE)}
Frames == [ext : BOOLEAN, id : McanIds, rtr : BOOLEAN]
Elems  == {{i} : i \in McanIds} \cup {McanIds}      \* what a filter lets through
Lists  == [count : 0..(McanMaxExt + McanMaxStd), index : [Places -> Places], elem : [Places -> Elems],
           cb : [Places -> Calls \cup {Null}], arg : [Places -> Calls \cup {Null}]]
Idle   == [pc |-> "idle", reg |-> Null, ext |-> FALSE, id |-> 0]
Silent == [cb |-> Null, arg |-> Null, ext |-> FALSE, id |-> McanZero, rtr |-> FALSE]

(* What excuses the driver: a filter was removed; a removal moved the last  *)
(* entry of a list, or hit the filter of the same identifier of the other.  *)
Oddities == {"removed", "moved", "otherList"}

TypeOK ==
    /\ filters \in [BOOLEAN -> Lists] /\ (\A e \in BOOLEAN : filters[e].count <= Room(e))
    /\ instMutex.owner \in McanClients \cup {NoMcan}
    /\ rxFifo \in Seq(Frames) /\ Len(rxFifo) <= McanFifo
    /\ newMsg \in BOOLEAN /\ (newMsg /\ ~mcanIsr => rxFifo # <<>>)
    /\ registered \subseteq [reg : Calls, by : McanClients, id : Places]
    /\ mcanOdd \subseteq Oddities
    /\ \A c \in McanClients : mcall[c].pc \notin {"idle", "lock", "remLock"} => instMutex.owner = c

Init ==
    /\ filters = [e \in BOOLEAN |-> [count |-> 0, index |-> [p \in Places |-> 0],
           elem |-> [p \in Places |-> {McanZero}],
           cb |-> [p \in Places |-> Null], arg |-> [p \in Places |-> Null]]]
    /\ instMutex = [owner |-> NoMcan, depth |-> 0] /\ mcall = [c \in McanClients |-> Idle]
    /\ rxFifo = <<>> /\ newMsg = FALSE /\ mcanIsr = FALSE
    /\ request = <<>> /\ registered = {} /\ told = Silent /\ mcanOdd = {}

Thread(c, l) == ~mcanIsr /\ mcall[c].pc = l
Goto(c, l) == mcall' = [mcall EXCEPT ![c].pc = l]
Lock(c) == /\ instMutex.owner \in {NoMcan, c}
           /\ instMutex' = [owner |-> c, depth |-> instMutex.depth + 1]
Unlock == instMutex' = IF instMutex.depth > 1 THEN [instMutex EXCEPT !.depth = @ - 1]
                                              ELSE [owner |-> NoMcan, depth |-> 0]
McanInit == rxFifo' = <<>> /\ newMsg' = FALSE       \* mcan_init resets the controller

Kept == UNCHANGED <<mcanIsr, told>>
Same == UNCHANGED <<rxFifo, newMsg>>
-------------------------------------------------------------------------------
(* hpm_mcan_add_rx_filter; CAN_FILTER_IDE is the only flag it accepts, so   *)
(* no bit of filter_rtr and filter_rtr_mask is ever set.                    *)
AddCall(c) ==
    /\ Thread(c, "idle") /\ Len(request) < McanAdds
    /\ \E e \in BOOLEAN, m \in Elems :
         /\ request' = Append(request, [ext |-> e, elem |-> m])
         /\ mcall' = [mcall EXCEPT ![c] = [Idle EXCEPT !.pc = "lock", !.reg = Len(request'), !.ext = e]]
    /\ Kept /\ Same /\ UNCHANGED <<filters, instMutex, registered, mcanOdd>>

AddLock(c) ==
    /\ Thread(c, "lock") /\ Lock(c) /\ Goto(c, "reserve")
    /\ Kept /\ Same /\ UNCHANGED <<filters, request, registered, mcanOdd>>

BugReserve(c) ==        \* no test for a full list
    LET e == mcall[c].ext IN
    /\ Thread(c, "reserve")
    /\ mcall' = [mcall EXCEPT ![c].pc = "fill", ![c].id = filters[e].count]
    /\ filters' = [filters EXCEPT ![e].count = @ + 1]
    /\ Kept /\ Same /\ UNCHANGED <<instMutex, request, registered, mcanOdd>>
Reserve(c) ==           \* a full list returns -ENOSPC with inst_mutex still locked
    LET e == mcall[c].ext IN
    /\ Thread(c, "reserve")
    /\ IF filters[e].count < Room(e)
         THEN /\ mcall' = [mcall EXCEPT ![c].pc = "fill", ![c].id = filters[e].count]
              /\ filters' = [filters EXCEPT ![e].count = @ + 1]
         ELSE mcall' = [mcall EXCEPT ![c] = Idle] /\ UNCHANGED filters
    /\ Kept /\ Same /\ UNCHANGED <<instMutex, request, registered, mcanOdd>>

BugFill(c) ==           \* without the index
    LET t == mcall[c] IN
    /\ Thread(c, "fill") /\ Goto(c, "program")
    /\ filters' = [filters EXCEPT ![t.ext].elem[t.id] = request[t.reg].elem]
    /\ Kept /\ Same /\ UNCHANGED <<instMutex, request, registered, mcanOdd>>
Fill(c) ==
    LET t == mcall[c] IN
    /\ Thread(c, "fill") /\ Goto(c, "program")
    /\ filters' = [filters EXCEPT ![t.ext].index[t.id] = t.id,
                                  ![t.ext].elem[t.id] = request[t.reg].elem]
    /\ Kept /\ Same /\ UNCHANGED <<instMutex, request, registered, mcanOdd>>

Program(c) ==
    /\ Thread(c, "program") /\ Goto(c, "storeCb") /\ McanInit
    /\ Kept /\ UNCHANGED <<filters, instMutex, request, registered, mcanOdd>>

BugStoreCb(c) ==        \* the callback goes into the standard list
    LET t == mcall[c] IN
    /\ Thread(c, "storeCb") /\ Goto(c, "storeArg")
    /\ filters' = [filters EXCEPT ![FALSE].cb[t.id] = t.reg]
    /\ Kept /\ Same /\ UNCHANGED <<instMutex, request, registered, mcanOdd>>
StoreCb(c) ==
    LET t == mcall[c] IN
    /\ Thread(c, "storeCb") /\ Goto(c, "storeArg")
    /\ filters' = [filters EXCEPT ![t.ext].cb[t.id] = t.reg]
    /\ Kept /\ Same /\ UNCHANGED <<instMutex, request, registered, mcanOdd>>

StoreArg(c) ==
    LET t == mcall[c] IN
    /\ Thread(c, "storeArg") /\ Goto(c, "unlock")
    /\ filters' = [filters EXCEPT ![t.ext].arg[t.id] = t.reg]
    /\ Kept /\ Same /\ UNCHANGED <<instMutex, request, registered, mcanOdd>>

AddReturn(c) ==         \* unlock and return the filter identifier
    /\ Thread(c, "unlock") /\ Unlock
    /\ registered' = registered \cup {[reg |-> mcall[c].reg, by |-> c, id |-> mcall[c].id]}
    /\ mcall' = [mcall EXCEPT ![c] = Idle]
    /\ Kept /\ Same /\ UNCHANGED <<filters, request, mcanOdd>>
-------------------------------------------------------------------------------
(* hpm_mcan_remove_rx_filter looks for the identifier in the extended list, *)
(* and then in the standard list too.                                       *)
RemoveCall(c) ==
    /\ Thread(c, "idle")
    /\ \E r \in registered :
         /\ r.by = c /\ registered' = registered \ {r}
         /\ mcall' = [mcall EXCEPT ![c] = [Idle EXCEPT !.pc = "remLock", !.reg = r.reg, !.id = r.id]]
    /\ Kept /\ Same /\ UNCHANGED <<filters, instMutex, request, mcanOdd>>

RemoveLock(c) ==
    /\ Thread(c, "remLock") /\ Lock(c) /\ Goto(c, "find ext")
    /\ Kept /\ Same /\ UNCHANGED <<filters, request, registered, mcanOdd>>

FindOf(ext)   == IF ext THEN "find ext" ELSE "find std"
ShrinkOf(ext) == IF ext THEN "shrink ext" ELSE "shrink std"
NextOf(ext)   == IF ext THEN "find std" ELSE "remUnlock"

Find(c, ext) ==         \* the first entry with the identifier becomes a copy of the last
    LET l    == filters[ext]
        last == l.count - 1
        hits == {p \in Places : p < l.count /\ l.index[p] = mcall[c].id}
        at   == {p \in hits : \A q \in hits : p <= q}
    IN  /\ Thread(c, FindOf(ext))
        /\ Goto(c, IF at = {} THEN NextOf(ext) ELSE ShrinkOf(ext))
        /\ filters' = [filters EXCEPT
             ![ext].index = [p \in Places |-> IF p \in at THEN @[last] ELSE @[p]],
             ![ext].elem  = [p \in Places |-> IF p \in at THEN @[last] ELSE @[p]]]
        /\ mcanOdd' = mcanOdd \cup {o \in Oddities : at # {} /\
                        \/ o = "removed"
                        \/ o = "moved" /\ at # {last}
                        \/ o = "otherList" /\ request[mcall[c].reg].ext # ext}
        /\ Kept /\ Same /\ UNCHANGED <<instMutex, request, registered>>

Shrink(c, ext) ==
    /\ Thread(c, ShrinkOf(ext)) /\ Goto(c, NextOf(ext)) /\ McanInit
    /\ filters' = [filters EXCEPT ![ext].count = @ - 1]
    /\ Kept /\ UNCHANGED <<instMutex, request, registered, mcanOdd>>

RemoveReturn(c) ==
    /\ Thread(c, "remUnlock") /\ Unlock /\ mcall' = [mcall EXCEPT ![c] = Idle]
    /\ Kept /\ Same /\ UNCHANGED <<filters, request, registered, mcanOdd>>
-------------------------------------------------------------------------------
(* Reception; the controller also stores frames that match no filter.       *)
Arrives(f) ==
    /\ Len(rxFifo) < McanFifo /\ rxFifo' = Append(rxFifo, f) /\ newMsg' = TRUE
    /\ UNCHANGED <<filters, instMutex, mcall, mcanIsr, request, registered, told, mcanOdd>>

FilterIndex(f) ==       \* hpm_mcan_get_first_filter_index; {} is -EINVAL
    LET hits == {p \in Places : p < filters[f.ext].count /\ f.id \in filters[f.ext].elem[p]}
    IN  {p \in hits : \A q \in hits : p <= q}

Message(f) ==           \* the callback for f; a remote frame never has the filter's RTR bit
    LET l    == filters[f.ext]
        hits == {p \in FilterIndex(f) : ~f.rtr /\ l.cb[p] # Null}
    IN  IF hits = {} THEN Silent
        ELSE LET p == CHOOSE q \in hits : TRUE
             IN  [cb |-> l.cb[p], arg |-> l.arg[p], ext |-> f.ext, id |-> f.id, rtr |-> f.rtr]

IsrReads ==             \* one message, however many there are
    /\ ~mcanIsr /\ newMsg
    /\ mcanIsr' = TRUE /\ rxFifo' = Tail(rxFifo) /\ told' = Message(Head(rxFifo))
    /\ UNCHANGED <<filters, instMutex, mcall, newMsg, request, registered, mcanOdd>>

IsrClears ==            \* also the flag of a message that came in between
    /\ mcanIsr /\ mcanIsr' = FALSE /\ newMsg' = FALSE /\ told' = Silent
    /\ UNCHANGED <<filters, instMutex, mcall, rxFifo, request, registered, mcanOdd>>
-------------------------------------------------------------------------------
Add(c) == AddCall(c) \/ AddLock(c) \/ Reserve(c) \/ Fill(c) \/ Program(c)
            \/ StoreCb(c) \/ StoreArg(c) \/ AddReturn(c)
Remove(c) == RemoveCall(c) \/ RemoveLock(c) \/ RemoveReturn(c)
               \/ \E ext \in BOOLEAN : Find(c, ext) \/ Shrink(c, ext)

Next == (\E c \in McanClients : Add(c) \/ Remove(c)) \/ (\E f \in Frames : Arrives(f))
          \/ IsrReads \/ IsrClears

Spec == Init /\ [][Next]_mcanVars
-------------------------------------------------------------------------------
(* A callback is called for data frames of the kind of its own filter, and, *)
(* until a filter is removed, with an identifier the filter lets through    *)
(* and with its own user_data, or NULL between the two stores.              *)
McanDeliversToOwner ==
    told.cb = Null \/ LET r == request[told.cb] IN
      /\ ~told.rtr /\ r.ext = told.ext
      /\ "removed" \in mcanOdd \/ (told.id \in r.elem /\ told.arg \in {Null, told.cb})

(* Between calls a registration that was not removed has an entry of its    *)
(* list that leads to its callback and user_data, unless a removal moved an *)
(* entry or took the filter of the same identifier out of the other list.   *)
McanKeepsRegistrations ==
    \/ mcanOdd \cap {"moved", "otherList"} # {}
    \/ \E c \in McanClients : mcall[c].pc # "idle"
    \/ \A r \in registered : LET q == request[r.reg]
                                 l == filters[q.ext]
         IN  \E p \in Places : /\ p < l.count /\ l.elem[p] = q.elem /\ l.index[p] = r.id
                               /\ l.cb[p] = r.reg /\ l.arg[p] = r.reg
===============================================================================
