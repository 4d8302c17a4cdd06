------------------------------- MODULE CanProofs -------------------------------
(***************************************************************************)
(* Theorems about the CAN parts of MCCan.  A behaviour of MCCan is a        *)
(* behaviour of each of its modules (UnionIsEach), so what is proved of a   *)
(* module holds of it.                                                      *)
(***************************************************************************)
EXTENDS MCCan, FiniteSetTheorems, SequenceTheorems, WellFoundedInduction, TLAPS

vars == <<driver, frameVars, mcanVars, sendVars>>

LEMMA StepIsEach ==
    ASSUME [Next]_vars
    PROVE  [B!Next]_(B!vars) /\ [M!Next]_(M!mcanVars) /\ [T!Next]_(T!vars)
<1> USE DEF vars, frameVars, mcanVars, sendVars, B!vars, M!mcanVars, T!vars, T!threadVars,
            T!dataVars, T!hwVars, T!history
<1>1. CASE UNCHANGED vars
  BY <1>1
<1>2. CASE Next
  BY <1>2 DEF Next
<1> QED BY <1>1, <1>2

(* A behaviour of the union is a behaviour of the CAST frames, of the MCAN  *)
(* filters and of the MCAN transmit path.                                   *)
THEOREM UnionIsEach == Spec => B!Spec /\ M!Spec /\ T!Spec
<1>1. Init => B!Init /\ M!Init /\ T!Init
  BY DEF Init
<1>2. [Next]_vars => [B!Next]_(B!vars) /\ [M!Next]_(M!mcanVars) /\ [T!Next]_(T!vars)
  BY StepIsEach
<1> QED BY <1>1, <1>2, PTL DEF Spec, B!Spec, M!Spec, T!Spec, vars
-------------------------------------------------------------------------------
(* McanTx.  The state has its type, and a thread inside the driver has made *)
(* a call.                                                                  *)
SendType ==
    /\ T!TypeOK
    /\ calls \in [SendThreads -> Nat] /\ faulted \in BOOLEAN
    /\ done \subseteq T!Requests /\ noCb \subseteq T!Requests
    /\ \A t \in SendThreads : at[t] # "idle" => calls[t] # 0

LEMMA RequestIs ==
    ASSUME NEW t \in SendThreads, NEW n \in 1..SendMax[t]
    PROVE  <<t, n>> \in T!Requests /\ <<t, n>> # NoReq
<1>1. <<t, n>> \in {t} \X (1..SendMax[t])
  OBVIOUS
<1>2. <<t, n>> \in T!Requests
  BY <1>1 DEF T!Requests
<1> QED BY <1>2, SendAssumption DEF SendAssumption

LEMMA RequestHas ==
    ASSUME NEW q \in T!Requests
    PROVE  /\ q # NoReq /\ q[1] \in SendThreads /\ q[2] \in 1..SendMax[q[1]] /\ q = <<q[1], q[2]>>
<1>1. PICK t \in SendThreads : q \in {t} \X (1..SendMax[t])
  BY DEF T!Requests
<1> QED BY <1>1, SendAssumption DEF SendAssumption

LEMMA SendTypeInit == T!Init => SendType
<1> SUFFICES ASSUME T!Init PROVE SendType
  OBVIOUS
<1> USE SendAssumption DEF SendAssumption, T!Init
<1>1. T!TypeOK
  <2>1. /\ hasSentOut \in BOOLEAN /\ blocking \in [SendThreads -> BOOLEAN]
        /\ started \in [SendDevices -> BOOLEAN] /\ tc \in [SendDevices -> BOOLEAN]
    BY Zenon
  <2>2. at \in [SendThreads -> T!Labels]
    BY DEF T!Labels
  <2> QED BY <2>1, <2>2 DEF T!TypeOK
<1> QED BY <1>1 DEF SendType

(* The label, the call counter and the request of a thread inside a call.   *)
LEMMA RequestOf ==
    ASSUME SendType, NEW t \in SendThreads, at[t] # "idle"
    PROVE  T!Req(t) \in T!Requests /\ T!Req(t) # NoReq
<1>1. calls[t] \in 1..SendMax[t]
  BY SendAssumption DEF SendType, T!TypeOK, SendAssumption
<1> QED BY <1>1, RequestIs DEF T!Req

LEMMA SendTypeThread ==
    ASSUME SendType, NEW t \in SendThreads, T!Send(t)
    PROVE  SendType'
<1> DEFINE d == SendDevOf[t]
<1>0. d \in SendDevices
  BY SendAssumption DEF SendAssumption
<1> USE DEF SendType, T!TypeOK, T!Step, T!Labels, T!vars, T!threadVars, T!dataVars, T!hwVars, T!history
<1>a. TxSlots \in Nat \ {0} /\ SendMax \in [SendThreads -> Nat]
  BY SendAssumption DEF SendAssumption
<1>1. CASE T!Call(t)
  <2>1. blocking' \in [SendThreads -> BOOLEAN]
    BY <1>1, Zenon DEF T!Call
  <2>2. calls' \in [SendThreads -> Nat] /\ \A u \in SendThreads : calls'[u] \in 0..SendMax[u]
    <3>1. calls' = [calls EXCEPT ![t] = @ + 1] /\ calls[t] < SendMax[t]
      BY <1>1 DEF T!Call
    <3>2. calls[t] \in Nat /\ SendMax[t] \in Nat
      BY <1>a
    <3>3. \A u \in SendThreads : calls'[u] = IF u = t THEN calls[t] + 1 ELSE calls[u]
      BY <3>1
    <3> QED BY <3>1, <3>2, <3>3
  <2>3. \A u \in SendThreads : at'[u] # "idle" => calls'[u] # 0
    BY <1>1, <1>a DEF T!Call
  <2> QED BY <1>1, <2>1, <2>2, <2>3 DEF T!Call
<1>2. CASE T!SpinEnds(t)
  BY <1>2 DEF T!SpinEnds
<1>3. CASE T!Claim(t)
  BY <1>3 DEF T!Claim
<1>4. CASE T!NotBusOff(t)
  BY <1>4 DEF T!NotBusOff
<1>5. CASE T!TakeSem(t)
  BY <1>0, <1>5, <1>a DEF T!TakeSem
<1>6. CASE T!Lock(t)
  BY <1>0, <1>6 DEF T!Lock
<1>7. CASE T!SetCallback(t)
  BY <1>0, <1>7, RequestOf DEF T!SetCallback
<1>8. CASE T!Transmit(t)
  BY <1>0, <1>8, RequestOf DEF T!Transmit
<1>9. CASE T!Unlock(t)
  BY <1>0, <1>9 DEF T!Unlock, T!Release
<1>10. CASE T!UnlockFailed(t)
  BY <1>0, <1>10 DEF T!UnlockFailed, T!Release
<1>11. CASE T!AwaitFinish(t)
  BY <1>0, <1>11, RequestOf DEF T!AwaitFinish
<1>12. CASE T!BusOff(t)
  BY <1>12 DEF T!BusOff
<1>13. CASE T!SemTimeout(t)
  BY <1>13 DEF T!SemTimeout
<1>14. CASE T!TransmitFails(t)
  BY <1>0, <1>14 DEF T!TransmitFails
<1> QED BY <1>1, <1>2, <1>3, <1>4, <1>5, <1>6, <1>7, <1>8, <1>9, <1>10, <1>11, <1>12, <1>13, <1>14
        DEF T!Send, T!Advance

LEMMA SendTypeDevice ==
    ASSUME SendType, NEW d \in SendDevices,
           T!FrameSent(d) \/ T!Isr(d) \/ T!StartOrStop(d) \/ T!Mark(d) \/ T!Reinit(d)
    PROVE  SendType'
<1> USE DEF SendType, T!TypeOK, T!vars, T!threadVars, T!dataVars, T!hwVars, T!history
<1>a. TxSlots \in Nat \ {0}
  BY SendAssumption DEF SendAssumption
<1>r. T!Reset(d) => /\ buf' \in [SendDevices -> T!Requests \cup {NoReq}]
                    /\ tc' \in [SendDevices -> BOOLEAN] /\ gone' \in [SendDevices -> Nat]
                    /\ faulted' \in BOOLEAN
  <2> SUFFICES ASSUME T!Reset(d)
               PROVE  /\ buf' \in [SendDevices -> T!Requests \cup {NoReq}]
                      /\ tc' \in [SendDevices -> BOOLEAN] /\ gone' \in [SendDevices -> Nat]
                      /\ faulted' \in BOOLEAN
    OBVIOUS
  <2>1. PICK kept \in {tc[d], FALSE} :
          /\ buf' = [buf EXCEPT ![d] = NoReq] /\ tc' = [tc EXCEPT ![d] = kept]
          /\ gone' = [gone EXCEPT ![d] = @ + T!Lost(d, kept)]
          /\ faulted' = (faulted \/ T!Lost(d, kept) > 0)
    BY DEF T!Reset
  <2>2. T!Lost(d, kept) \in Nat
    BY DEF T!Lost
  <2>3. gone' \in [SendDevices -> Nat]
    BY <2>1, <2>2
  <2>4. buf' \in [SendDevices -> T!Requests \cup {NoReq}]
    BY <2>1
  <2>5. tc' \in [SendDevices -> BOOLEAN]
    BY <2>1, Zenon
  <2>6. faulted' \in BOOLEAN
    BY <2>1
  <2> QED BY <2>3, <2>4, <2>5, <2>6
<1>1. CASE T!FrameSent(d)
  <2>1. tc' \in [SendDevices -> BOOLEAN]
    BY <1>1, Zenon DEF T!FrameSent
  <2>2. gone' \in [SendDevices -> Nat]
    BY <1>1 DEF T!FrameSent
  <2> QED BY <1>1, <2>1, <2>2 DEF T!FrameSent
<1>2. CASE T!Isr(d)
  <2>1. tc' \in [SendDevices -> BOOLEAN]
    BY <1>2, Zenon DEF T!Isr
  <2>2. txSem' \in [SendDevices -> 0..TxSlots]
    BY <1>2, <1>a DEF T!Isr, T!GiveToken
  <2>3. fired' \in [T!Requests -> Nat] /\ finSem' \in [SendDevices -> 0..1]
    BY <1>2 DEF T!Isr, T!Notify
  <2> QED BY <1>2, <2>1, <2>2, <2>3 DEF T!Isr
<1>3. CASE T!StartOrStop(d)
  <2>1. ctl' \in [SendDevices -> {"idle", "start", "stop"}]
    BY <1>3 DEF T!StartOrStop
  <2> QED BY <1>3, <1>r, <2>1 DEF T!StartOrStop
<1>4. CASE T!Mark(d)
  <2>1. started' \in [SendDevices -> BOOLEAN]
    BY <1>4, Zenon DEF T!Mark
  <2>2. ctl' \in [SendDevices -> {"idle", "start", "stop"}]
    BY <1>4 DEF T!Mark
  <2> QED BY <1>4, <2>1, <2>2 DEF T!Mark
<1>5. CASE T!Reinit(d)
  BY <1>5, <1>r DEF T!Reinit
<1> QED BY <1>1, <1>2, <1>3, <1>4, <1>5

LEMMA SendTypeStep ==
    ASSUME SendType, [T!Next]_(T!vars)
    PROVE  SendType'
<1>1. CASE UNCHANGED T!vars
  BY <1>1 DEF SendType, T!TypeOK, T!vars, T!threadVars, T!dataVars, T!hwVars, T!history
<1>2. CASE T!Next
  BY <1>2, SendTypeThread, SendTypeDevice DEF T!Next
<1> QED BY <1>1, <1>2

(* McanTx: the type of the state, whatever the threads, the interrupt and   *)
(* the controllers do.                                                      *)
THEOREM SendIsTyped == T!Spec => []SendType
<1> QED BY SendTypeInit, SendTypeStep, PTL DEF T!Spec
-------------------------------------------------------------------------------
(* Where the tokens are: how the number of threads that hold one changes.   *)
Holding == {"lock", "cb", "xmit"}

(* The instance counts with an operator of its own, which is the same.      *)
LEMMA CountIs ==
    ASSUME NEW S
    PROVE  T!Cardinality(S) = Cardinality(S)
<1> QED BY DEF T!Cardinality, Cardinality

LEMMA HoldersFinite ==
    ASSUME NEW d \in SendDevices
    PROVE  IsFiniteSet(T!Holders(d)) /\ Cardinality(T!Holders(d)) \in Nat
<1>1. T!Holders(d) \subseteq SendThreads /\ IsFiniteSet(SendThreads)
  BY SendAssumption DEF T!Holders, SendAssumption
<1>2. IsFiniteSet(T!Holders(d))
  BY <1>1, FS_Subset
<1> QED BY <1>2, FS_CardinalityType

LEMMA HoldersChange ==
    ASSUME SendType, NEW t \in SendThreads, NEW to \in T!Labels, NEW d \in SendDevices,
           at' = [at EXCEPT ![t] = to]
    PROVE  LET in  == d = SendDevOf[t] /\ at[t] \notin Holding /\ to \in Holding
               out == d = SendDevOf[t] /\ at[t] \in Holding /\ to \notin Holding
           IN  Cardinality(T!Holders(d)') = IF in THEN Cardinality(T!Holders(d)) + 1
                                            ELSE IF out THEN Cardinality(T!Holders(d)) - 1
                                            ELSE Cardinality(T!Holders(d))
<1> DEFINE in  == d = SendDevOf[t] /\ at[t] \notin Holding /\ to \in Holding
           out == d = SendDevOf[t] /\ at[t] \in Holding /\ to \notin Holding
<1>1. at \in [SendThreads -> T!Labels]
  BY DEF SendType, T!TypeOK
<1>2. \A u \in SendThreads : at'[u] = IF u = t THEN to ELSE at[u]
  BY <1>1
<1>3. CASE in
  <2>1. T!Holders(d)' = T!Holders(d) \cup {t} /\ t \notin T!Holders(d)
    BY <1>2, <1>3 DEF T!Holders, Holding
  <2>2. Cardinality(T!Holders(d) \cup {t}) = Cardinality(T!Holders(d)) + 1
    BY <2>1, HoldersFinite, FS_AddElement
  <2> QED BY <1>3, <2>1, <2>2
<1>4. CASE out
  <2>1. T!Holders(d)' = T!Holders(d) \ {t} /\ t \in T!Holders(d)
    BY <1>2, <1>4 DEF T!Holders, Holding
  <2>2. Cardinality(T!Holders(d) \ {t}) = Cardinality(T!Holders(d)) - 1
    BY <2>1, HoldersFinite, FS_RemoveElement
  <2> QED BY <1>4, <2>1, <2>2
<1>5. CASE ~in /\ ~out
  <2>1. T!Holders(d)' = T!Holders(d)
    BY <1>2, <1>5 DEF T!Holders, Holding
  <2> QED BY <1>5, <2>1
<1> QED BY <1>3, <1>4, <1>5

(* A step that moves no thread leaves the holders alone.                    *)
LEMMA HoldersStay ==
    ASSUME at' = at, NEW d \in SendDevices
    PROVE  Cardinality(T!Holders(d)') = Cardinality(T!Holders(d))
<1>1. T!Holders(d)' = T!Holders(d)
  BY DEF T!Holders
<1> QED BY <1>1

LEMMA TokensInit == T!Init => T!TokensAccounted
<1> SUFFICES ASSUME T!Init, NEW d \in SendDevices
             PROVE  txSem[d] + Cardinality(T!Holders(d)) + gone[d]
                      + (IF buf[d] = NoReq THEN 0 ELSE 1) + (IF tc[d] THEN 1 ELSE 0) = TxSlots
  BY CountIs DEF T!TokensAccounted
<1>1. T!Holders(d) = {}
  BY DEF T!Init, T!Holders
<1>2. Cardinality(T!Holders(d)) = 0
  BY <1>1, FS_EmptySet
<1> QED BY <1>2, SendAssumption DEF T!Init, SendAssumption

LEMMA TokensThread ==
    ASSUME SendType, T!TokensAccounted, NEW t \in SendThreads, T!Send(t)
    PROVE  T!TokensAccounted'
<1> SUFFICES ASSUME NEW e \in SendDevices
             PROVE  (txSem[e] + Cardinality(T!Holders(e)) + gone[e]
                      + (IF buf[e] = NoReq THEN 0 ELSE 1) + (IF tc[e] THEN 1 ELSE 0) = TxSlots)'
  BY CountIs DEF T!TokensAccounted
<1> DEFINE d == SendDevOf[t]
           card == Cardinality(T!Holders(e))
<1>0. d \in SendDevices /\ TxSlots \in Nat \ {0}
  BY SendAssumption DEF SendAssumption
<1>1. /\ txSem[e] + card + gone[e] + (IF buf[e] = NoReq THEN 0 ELSE 1) + (IF tc[e] THEN 1 ELSE 0) = TxSlots
      /\ card \in Nat
  BY HoldersFinite, CountIs DEF T!TokensAccounted
<1>2. /\ txSem \in [SendDevices -> 0..TxSlots] /\ gone \in [SendDevices -> Nat]
      /\ buf \in [SendDevices -> T!Requests \cup {NoReq}] /\ tc \in [SendDevices -> BOOLEAN]
      /\ at \in [SendThreads -> T!Labels] /\ at[t] \in T!Labels
  BY DEF SendType, T!TypeOK
<1>3. ASSUME NEW to \in T!Labels, at' = [at EXCEPT ![t] = to]
      PROVE  card' = IF e = d /\ at[t] \notin Holding /\ to \in Holding THEN card + 1
                     ELSE IF e = d /\ at[t] \in Holding /\ to \notin Holding THEN card - 1
                     ELSE card
  BY <1>3, HoldersChange
<1> HIDE DEF card
<1>4. ASSUME NEW to \in T!Labels, at' = [at EXCEPT ![t] = to], at[t] \in Holding <=> to \in Holding,
             UNCHANGED <<txSem, gone, buf, tc>>
      PROVE  (txSem[e] + card + gone[e] + (IF buf[e] = NoReq THEN 0 ELSE 1) + (IF tc[e] THEN 1 ELSE 0) = TxSlots)'
  BY <1>1, <1>3, <1>4
<1> USE DEF T!Step, T!Labels, Holding, T!vars, T!threadVars, T!dataVars, T!hwVars, T!history
<1>5. CASE T!Call(t)
  BY <1>4, <1>5 DEF T!Call, card
<1>6. CASE T!SpinEnds(t)
  BY <1>4, <1>6 DEF T!SpinEnds, card
<1>7. CASE T!Claim(t)
  BY <1>4, <1>7 DEF T!Claim, card
<1>8. CASE T!NotBusOff(t)
  BY <1>4, <1>8 DEF T!NotBusOff, card
<1>9. CASE T!TakeSem(t)
  <2>1. at' = [at EXCEPT ![t] = "lock"] /\ at[t] = "sem" /\ txSem[d] > 0
        /\ txSem' = [txSem EXCEPT ![d] = @ - 1] /\ gone' = gone /\ buf' = buf /\ tc' = tc
    BY <1>9 DEF T!TakeSem
  <2>2. card' = IF e = d THEN card + 1 ELSE card
    BY <1>3, <2>1
  <2>3. txSem'[e] = IF e = d THEN txSem[e] - 1 ELSE txSem[e]
    BY <1>0, <1>2, <2>1
  <2> QED BY <1>1, <1>2, <2>1, <2>2, <2>3 DEF card
<1>10. CASE T!Lock(t)
  BY <1>4, <1>10 DEF T!Lock, card
<1>11. CASE T!SetCallback(t)
  BY <1>4, <1>11 DEF T!SetCallback, card
<1>12. CASE T!Transmit(t)
  <2>1. at' = [at EXCEPT ![t] = "unlock"] /\ at[t] = "xmit"
        /\ buf' = [buf EXCEPT ![d] = T!Req(t)] /\ txSem' = txSem /\ tc' = tc
        /\ gone' = IF buf[d] = NoReq THEN gone ELSE [gone EXCEPT ![d] = @ + 1]
    BY <1>12 DEF T!Transmit
  <2>2. card' = IF e = d THEN card - 1 ELSE card
    BY <1>3, <2>1
  <2>3. T!Req(t) # NoReq
    BY <2>1, RequestOf
  <2>4. gone'[e] = (IF e = d /\ buf[d] # NoReq THEN gone[e] + 1 ELSE gone[e])
    BY <1>0, <1>2, <2>1
  <2>5. buf'[e] = IF e = d THEN T!Req(t) ELSE buf[e]
    BY <1>0, <1>2, <2>1
  <2> QED BY <1>1, <1>2, <2>1, <2>2, <2>3, <2>4, <2>5 DEF card
<1>13. CASE T!Unlock(t)
  BY <1>4, <1>13 DEF T!Unlock, card
<1>14. CASE T!UnlockFailed(t)
  BY <1>4, <1>14 DEF T!UnlockFailed, card
<1>15. CASE T!AwaitFinish(t)
  BY <1>4, <1>15 DEF T!AwaitFinish, card
<1>16. CASE T!BusOff(t)
  BY <1>4, <1>16 DEF T!BusOff, card
<1>17. CASE T!SemTimeout(t)
  BY <1>4, <1>17 DEF T!SemTimeout, card
<1>18. CASE T!TransmitFails(t)
  <2>1. at' = [at EXCEPT ![t] = "unlockErr"] /\ at[t] = "xmit"
        /\ buf' = buf /\ txSem' = txSem /\ tc' = tc /\ gone' = [gone EXCEPT ![d] = @ + 1]
    BY <1>18 DEF T!TransmitFails
  <2>2. card' = IF e = d THEN card - 1 ELSE card
    BY <1>3, <2>1
  <2>3. gone'[e] = IF e = d THEN gone[e] + 1 ELSE gone[e]
    BY <1>0, <1>2, <2>1
  <2> QED BY <1>1, <1>2, <2>1, <2>2, <2>3 DEF card
<1> QED BY <1>5, <1>6, <1>7, <1>8, <1>9, <1>10, <1>11, <1>12, <1>13, <1>14, <1>15, <1>16, <1>17, <1>18
        DEF T!Send, T!Advance

(* What a reset does to the request in the buffer and to the interrupt.     *)
LEMMA ResetIs ==
    ASSUME SendType, NEW d \in SendDevices, T!Reset(d)
    PROVE  \E kept \in BOOLEAN :
             /\ kept => tc[d]
             /\ buf' = [buf EXCEPT ![d] = NoReq] /\ tc' = [tc EXCEPT ![d] = kept]
             /\ gone' = [gone EXCEPT ![d] = @ + ((IF buf[d] # NoReq THEN 1 ELSE 0)
                                               + (IF tc[d] /\ ~kept THEN 1 ELSE 0))]
             /\ faulted' = (faulted \/ buf[d] # NoReq \/ (tc[d] /\ ~kept))
<1>1. PICK kept \in {tc[d], FALSE} :
        /\ buf' = [buf EXCEPT ![d] = NoReq] /\ tc' = [tc EXCEPT ![d] = kept]
        /\ gone' = [gone EXCEPT ![d] = @ + T!Lost(d, kept)]
        /\ faulted' = (faulted \/ T!Lost(d, kept) > 0)
  BY DEF T!Reset
<1>2. kept \in BOOLEAN /\ (kept => tc[d]) /\ tc \in [SendDevices -> BOOLEAN]
  BY <1>1 DEF SendType, T!TypeOK
<1>3. T!Lost(d, kept) = (IF buf[d] # NoReq THEN 1 ELSE 0) + (IF tc[d] /\ ~kept THEN 1 ELSE 0)
  BY DEF T!Lost
<1>4. T!Lost(d, kept) > 0 <=> buf[d] # NoReq \/ (tc[d] /\ ~kept)
  BY <1>3
<1>5. gone' = [gone EXCEPT ![d] = @ + ((IF buf[d] # NoReq THEN 1 ELSE 0)
                                     + (IF tc[d] /\ ~kept THEN 1 ELSE 0))]
  BY <1>1, <1>3, Zenon
<1> QED BY <1>1, <1>2, <1>4, <1>5

LEMMA TokensDevice ==
    ASSUME SendType, T!TokensAccounted, NEW d \in SendDevices,
           T!FrameSent(d) \/ T!Isr(d) \/ T!StartOrStop(d) \/ T!Mark(d) \/ T!Reinit(d)
    PROVE  T!TokensAccounted'
<1> SUFFICES ASSUME NEW e \in SendDevices
             PROVE  (txSem[e] + Cardinality(T!Holders(e)) + gone[e]
                      + (IF buf[e] = NoReq THEN 0 ELSE 1) + (IF tc[e] THEN 1 ELSE 0) = TxSlots)'
  BY CountIs DEF T!TokensAccounted
<1> DEFINE card == Cardinality(T!Holders(e))
<1>0. TxSlots \in Nat \ {0}
  BY SendAssumption DEF SendAssumption
<1>1. /\ txSem[e] + card + gone[e] + (IF buf[e] = NoReq THEN 0 ELSE 1) + (IF tc[e] THEN 1 ELSE 0) = TxSlots
      /\ card \in Nat
  BY HoldersFinite, CountIs DEF T!TokensAccounted
<1>2. /\ txSem \in [SendDevices -> 0..TxSlots] /\ gone \in [SendDevices -> Nat]
      /\ buf \in [SendDevices -> T!Requests \cup {NoReq}] /\ tc \in [SendDevices -> BOOLEAN]
  BY DEF SendType, T!TypeOK
<1>3. card' = card
  BY HoldersStay DEF T!FrameSent, T!Isr, T!StartOrStop, T!Mark, T!Reinit, T!threadVars
<1> HIDE DEF card
<1>4. CASE T!FrameSent(d)
  <2>1. /\ buf[d] # NoReq /\ buf' = [buf EXCEPT ![d] = NoReq] /\ tc' = [tc EXCEPT ![d] = TRUE]
        /\ gone' = IF tc[d] THEN [gone EXCEPT ![d] = @ + 1] ELSE gone
        /\ txSem' = txSem
    BY <1>4 DEF T!FrameSent, T!dataVars
  <2>2. buf'[e] = (IF e = d THEN NoReq ELSE buf[e]) /\ tc'[e] = (IF e = d THEN TRUE ELSE tc[e])
        /\ gone'[e] = (IF e = d /\ tc[d] THEN gone[e] + 1 ELSE gone[e])
    BY <1>2, <2>1
  <2> QED BY <1>1, <1>2, <1>3, <2>1, <2>2 DEF card
<1>5. CASE T!Isr(d)
  <2>1. /\ tc[d] /\ buf' = buf /\ gone' = gone /\ tc' = [tc EXCEPT ![d] = FALSE]
        /\ txSem' = [txSem EXCEPT ![d] = IF @ < TxSlots THEN @ + 1 ELSE @]
    BY <1>5 DEF T!Isr, T!GiveToken
  <2>2. tc'[e] = (IF e = d THEN FALSE ELSE tc[e])
        /\ txSem'[e] = (IF e = d /\ txSem[e] < TxSlots THEN txSem[e] + 1 ELSE txSem[e])
    BY <1>2, <2>1
  <2>3. txSem[e] \in Nat /\ gone[e] \in Nat
    BY <1>2, <1>0
  <2>4. e = d => txSem[e] < TxSlots
    BY <1>0, <1>1, <2>1, <2>3
  <2>5. buf'[e] = buf[e] /\ gone'[e] = gone[e] /\ tc[d]
    BY <2>1
  <2>6. txSem'[e] + card + gone'[e] + (IF buf'[e] = NoReq THEN 0 ELSE 1) + (IF tc'[e] THEN 1 ELSE 0) = TxSlots
    <3>1. CASE e = d
      BY <1>1, <2>2, <2>3, <2>4, <2>5, <3>1
    <3>2. CASE e # d
      BY <1>1, <2>2, <2>5, <3>2
    <3> QED BY <3>1, <3>2
  <2> QED BY <1>3, <2>6 DEF card
<1>6. ASSUME T!Reset(d), txSem' = txSem
      PROVE  (txSem[e] + card + gone[e] + (IF buf[e] = NoReq THEN 0 ELSE 1) + (IF tc[e] THEN 1 ELSE 0) = TxSlots)'
  <2>1. PICK kept \in BOOLEAN :
          /\ kept => tc[d]
          /\ buf' = [buf EXCEPT ![d] = NoReq] /\ tc' = [tc EXCEPT ![d] = kept]
          /\ gone' = [gone EXCEPT ![d] = @ + ((IF buf[d] # NoReq THEN 1 ELSE 0)
                                            + (IF tc[d] /\ ~kept THEN 1 ELSE 0))]
    BY <1>6, ResetIs
  <2>2. buf'[e] = (IF e = d THEN NoReq ELSE buf[e]) /\ tc'[e] = (IF e = d THEN kept ELSE tc[e])
    BY <1>2, <2>1
  <2>3. gone'[e] = IF e = d THEN gone[e] + (IF buf[d] # NoReq THEN 1 ELSE 0)
                                         + (IF tc[d] /\ ~kept THEN 1 ELSE 0) ELSE gone[e]
    BY <1>2, <2>1
  <2> QED BY <1>1, <1>2, <1>3, <1>6, <2>1, <2>2, <2>3
<1>7. CASE T!StartOrStop(d)
  BY <1>6, <1>7 DEF T!StartOrStop, T!dataVars, card
<1>8. CASE T!Mark(d)
  BY <1>1, <1>3, <1>8 DEF T!Mark, T!hwVars, T!history, card
<1>9. CASE T!Reinit(d)
  BY <1>6, <1>9 DEF T!Reinit, T!dataVars, card
<1> QED BY <1>4, <1>5, <1>7, <1>8, <1>9

LEMMA FlagThread ==
    ASSUME SendType, T!FlagIsOwed, NEW t \in SendThreads, T!Send(t)
    PROVE  T!FlagIsOwed'
<1> DEFINE owing == {"state", "sem", "lock", "cb", "xmit"}
           d == SendDevOf[t]
<1>0. d \in SendDevices
  BY SendAssumption DEF SendAssumption
<1>1. at \in [SendThreads -> T!Labels] /\ buf \in [SendDevices -> T!Requests \cup {NoReq}]
  BY DEF SendType, T!TypeOK
(* A step of t that leaves the flag, the buffers and the interrupts alone   *)
(* and does not take t out of the part where it owes the flag.              *)
<1>2. ASSUME NEW to, at' = [at EXCEPT ![t] = to], at[t] \in owing => to \in owing,
             hasSentOut' = hasSentOut, faulted' = faulted, UNCHANGED <<buf, tc>>
      PROVE  T!FlagIsOwed'
  <2>1. \A u \in SendThreads : at[u] \in owing => at'[u] \in owing
    BY <1>1, <1>2
  <2> QED BY <1>2, <2>1 DEF T!FlagIsOwed
<1>3. faulted' => T!FlagIsOwed'
  BY DEF T!FlagIsOwed
<1> USE DEF T!Step, T!threadVars, T!dataVars, T!hwVars, T!history
<1>5. CASE T!Call(t)
  BY <1>2, <1>5 DEF T!Call
<1>6. CASE T!SpinEnds(t)
  BY <1>2, <1>6 DEF T!SpinEnds
<1>7. CASE T!Claim(t)
  <2>1. at'[t] = "state"
    BY <1>1, <1>7 DEF T!Claim
  <2> QED BY <2>1 DEF T!FlagIsOwed
<1>8. CASE T!NotBusOff(t)
  BY <1>2, <1>8 DEF T!NotBusOff
<1>9. CASE T!TakeSem(t)
  BY <1>2, <1>9 DEF T!TakeSem
<1>10. CASE T!Lock(t)
  BY <1>2, <1>10 DEF T!Lock
<1>11. CASE T!SetCallback(t)
  BY <1>2, <1>11 DEF T!SetCallback
<1>12. CASE T!Transmit(t)
  <2>1. buf' = [buf EXCEPT ![d] = T!Req(t)] /\ T!Req(t) # NoReq
    BY <1>12, RequestOf DEF T!Transmit
  <2>2. buf'[d] # NoReq
    BY <1>0, <1>1, <2>1
  <2> QED BY <1>0, <2>2 DEF T!FlagIsOwed
<1>13. CASE T!Unlock(t)
  BY <1>2, <1>13 DEF T!Unlock
<1>14. CASE T!UnlockFailed(t)
  BY <1>2, <1>14 DEF T!UnlockFailed
<1>15. CASE T!AwaitFinish(t)
  BY <1>2, <1>15 DEF T!AwaitFinish
<1>16. CASE T!BusOff(t)
  BY <1>3, <1>16 DEF T!BusOff
<1>17. CASE T!SemTimeout(t)
  BY <1>3, <1>17 DEF T!SemTimeout
<1>18. CASE T!TransmitFails(t)
  BY <1>3, <1>18 DEF T!TransmitFails
<1> QED BY <1>5, <1>6, <1>7, <1>8, <1>9, <1>10, <1>11, <1>12, <1>13, <1>14, <1>15, <1>16, <1>17, <1>18
        DEF T!Send, T!Advance

LEMMA FlagDevice ==
    ASSUME SendType, T!FlagIsOwed, NEW d \in SendDevices,
           T!FrameSent(d) \/ T!Isr(d) \/ T!StartOrStop(d) \/ T!Mark(d) \/ T!Reinit(d)
    PROVE  T!FlagIsOwed'
<1>1. buf \in [SendDevices -> T!Requests \cup {NoReq}] /\ tc \in [SendDevices -> BOOLEAN]
  BY DEF SendType, T!TypeOK
<1> USE DEF T!FlagIsOwed
<1>2. CASE T!FrameSent(d)
  <2>1. tc'[d]
    BY <1>1, <1>2 DEF T!FrameSent
  <2> QED BY <2>1, Zenon
<1>3. CASE T!Isr(d)
  BY <1>3 DEF T!Isr
<1>4. ASSUME T!Reset(d), at' = at, hasSentOut' = hasSentOut
      PROVE  T!FlagIsOwed'
  <2>1. PICK kept \in BOOLEAN :
          /\ kept => tc[d]
          /\ buf' = [buf EXCEPT ![d] = NoReq] /\ tc' = [tc EXCEPT ![d] = kept]
          /\ faulted' = (faulted \/ buf[d] # NoReq \/ (tc[d] /\ ~kept))
    BY <1>4, ResetIs
  <2>2. CASE faulted'
    BY <2>2
  <2>3. CASE ~faulted'
    <3>1. buf[d] = NoReq /\ ~faulted /\ (tc[d] => kept)
      BY <2>1, <2>3
    <3>2. \A e \in SendDevices : (buf[e] # NoReq => buf'[e] # NoReq) /\ (tc[e] => tc'[e])
      BY <1>1, <2>1, <3>1
    <3> QED BY <1>4, <3>1, <3>2
  <2> QED BY <2>2, <2>3
<1>5. CASE T!StartOrStop(d)
  BY <1>4, <1>5 DEF T!StartOrStop, T!threadVars
<1>6. CASE T!Mark(d)
  BY <1>6 DEF T!Mark, T!threadVars, T!hwVars, T!history
<1>7. CASE T!Reinit(d)
  BY <1>4, <1>7 DEF T!Reinit, T!threadVars
<1> QED BY <1>2, <1>3, <1>5, <1>6, <1>7

LEMMA TokensStep ==
    ASSUME SendType, T!TokensAccounted, T!FlagIsOwed, [T!Next]_(T!vars)
    PROVE  T!TokensAccounted' /\ T!FlagIsOwed'
<1>1. CASE UNCHANGED T!vars
  BY <1>1 DEF T!TokensAccounted, T!FlagIsOwed, T!Holders, T!vars, T!threadVars, T!dataVars,
              T!hwVars, T!history
<1>2. CASE T!Next
  BY <1>2, TokensThread, TokensDevice, FlagThread, FlagDevice DEF T!Next
<1> QED BY <1>1, <1>2

(* For any threads, controllers and number of transmit slots, every token   *)
(* of tx_sem is accounted for, and while has_sent_out is down somebody is   *)
(* going to raise it unless a call failed or a reset dropped its request.   *)
THEOREM TokensAreAccounted == Spec => []McanTokensAccounted
<1>1. T!Init => T!TokensAccounted /\ T!FlagIsOwed
  BY TokensInit DEF T!Init, T!FlagIsOwed
<1>2. T!TokensAccounted /\ T!FlagIsOwed => McanTokensAccounted
  BY DEF McanTokensAccounted
<1>3. T!Spec => [](T!TokensAccounted /\ T!FlagIsOwed)
  BY <1>1, TokensStep, SendIsTyped, PTL DEF T!Spec
<1> QED BY <1>2, <1>3, UnionIsEach, PTL
-------------------------------------------------------------------------------
(* McanTx.  What holds of thread t while nobody else ever called: d is its  *)
(* controller and r its current request.                                    *)
Alone(t) == \A u \in SendThreads \ {t} : calls[u] = 0
Before == {"spin", "claim", "state", "sem", "lock", "cb", "xmit"}
Past   == Before \ {"spin"}
OfTask(t) == {t} \X (1..calls[t])

(* Nothing is under way on another controller, and all history is t's own.  *)
OnlyItself(t) ==
    /\ \A e \in SendDevices \ {SendDevOf[t]} : buf[e] = NoReq /\ ~tc[e]
    /\ done \subseteq OfTask(t) /\ noCb \subseteq OfTask(t) /\ returned \subseteq OfTask(t)

(* The flag: while it is up nothing is under way, and nothing is once t is  *)
(* past the spin; the slot and the request r up to its transmission.        *)
Preparing(t) ==
    LET d == SendDevOf[t] r == <<t, calls[t]>> IN
    /\ hasSentOut => buf[d] = NoReq /\ ~tc[d] /\ at[t] \notin Past \ {"claim"}
    /\ at[t] = "claim" => hasSentOut
    /\ at[t] \in Past => buf[d] = NoReq /\ ~tc[d]
    /\ at[t] \in Before => r \notin done \cup noCb \cup returned /\ buf[d] # r
    /\ at[t] = "xmit" => slot[d] = IF blocking[t] THEN NoReq ELSE r

(* The request in the buffer is of t, has its callback in the slot, and is  *)
(* the only one that a returned call may have left behind.                  *)
InBuffer(t) ==
    LET d == SendDevOf[t] IN
    buf[d] # NoReq =>
      /\ ~tc[d] /\ buf[d] \notin done /\ buf[d] \in OfTask(t)
      /\ slot[d] = IF buf[d] \in noCb THEN NoReq ELSE buf[d]
      /\ at[t] \in {"unlock", "wait"} => buf[d] = <<t, calls[t]>>
      /\ returned \ done \subseteq {buf[d]}

(* The interrupt is for a request that is done and was not called back, and *)
(* every callback is called once.                                           *)
CalledBack(t) ==
    LET d == SendDevOf[t] IN
    /\ tc[d] => slot[d] = NoReq \/ (slot[d] \in done \ noCb /\ fired[slot[d]] = 0)
    /\ \A q \in T!Requests :
         /\ fired[q] <= 1 /\ (fired[q] # 0 => q \in done \ noCb)
         /\ q \in done \ noCb => fired[q] = 1 \/ (tc[d] /\ slot[d] = q) \/ faulted

(* Which calls have returned ahead of the bus.                              *)
Ahead(t) ==
    LET d == SendDevOf[t] IN
    /\ at[t] \in {"unlock", "wait"} /\ (tc[d] \/ hasSentOut) => <<t, calls[t]>> \in done
    /\ at[t] \in Past \cup {"unlock", "wait", "unlockErr"} \/ tc[d] \/ hasSentOut => returned \subseteq done
    /\ \E x : returned \ done \subseteq {x}

AloneInv(t) == OnlyItself(t) /\ Preparing(t) /\ InBuffer(t) /\ CalledBack(t) /\ Ahead(t)

LEMMA AloneInit ==
    ASSUME T!Init, NEW t \in SendThreads
    PROVE  AloneInv(t)
<1> SendDevOf[t] \in SendDevices
  BY SendAssumption DEF SendAssumption
<1> USE DEF T!Init
<1>1. OnlyItself(t)
  BY DEF OnlyItself
<1>2. Preparing(t)
  BY DEF Preparing, Before, Past
<1>3. InBuffer(t)
  BY DEF InBuffer
<1>4. CalledBack(t)
  BY DEF CalledBack
<1>5. Ahead(t)
  BY DEF Ahead, Past, Before
<1> QED BY <1>1, <1>2, <1>3, <1>4, <1>5 DEF AloneInv

LEMMA AloneThread ==
    ASSUME SendType, NEW t \in SendThreads, AloneInv(t), T!Send(t)
    PROVE  AloneInv(t)'
<1> DEFINE d == SendDevOf[t]
           r == <<t, calls[t]>>
<1>0. d \in SendDevices
  BY SendAssumption DEF SendAssumption
<1>1. /\ at \in [SendThreads -> T!Labels] /\ calls \in [SendThreads -> Nat]
      /\ buf \in [SendDevices -> T!Requests \cup {NoReq}] /\ slot \in [SendDevices -> T!Requests \cup {NoReq}]
      /\ calls[t] \in Nat
  BY DEF SendType, T!TypeOK
<1>2. (r \in T!Requests /\ r # NoReq) \/ at[t] = "idle"
  BY RequestOf DEF T!Req
<1> HIDE DEF d
<1>3. d = SendDevOf[t]
  BY DEF d
<1> USE DEF T!Step, T!Req, AloneInv, OfTask
(* A step that only moves t.                                                *)
<1>4. ASSUME NEW to, at' = [at EXCEPT ![t] = to], UNCHANGED <<calls, buf, tc, done, noCb, returned, fired>>,
             slot' = slot, faulted => faulted', blocking' = blocking
      PROVE  /\ OnlyItself(t)' /\ CalledBack(t)' /\ at'[t] = to
             /\ (to \in {"unlock", "wait"} => at[t] \in {"unlock", "wait"}) => InBuffer(t)'
  <2>1. at'[t] = to
    BY <1>1, <1>4
  <2>2. OnlyItself(t)'
    BY <1>4 DEF OnlyItself
  <2>3. CalledBack(t)'
    BY <1>4 DEF CalledBack
  <2>4. (to \in {"unlock", "wait"} => at[t] \in {"unlock", "wait"}) => InBuffer(t)'
    BY <1>4, <2>1 DEF InBuffer
  <2> QED BY <2>1, <2>2, <2>3, <2>4
<1> USE DEF T!threadVars, T!dataVars, T!hwVars, T!history
<1>6. CASE T!SpinEnds(t)
  <2>1. at[t] = "spin" /\ at' = [at EXCEPT ![t] = "claim"] /\ hasSentOut
        /\ UNCHANGED <<hasSentOut, calls, blocking, slot, buf, tc, done, noCb, returned, fired, faulted>>
    BY <1>6 DEF T!SpinEnds
  <2>2. OnlyItself(t)' /\ CalledBack(t)' /\ at'[t] = "claim" /\ InBuffer(t)'
    BY <1>4, <2>1
  <2>3. Preparing(t)'
    BY <2>1, <2>2 DEF Preparing, Past, Before
  <2>4. Ahead(t)'
    BY <2>1, <2>2 DEF Ahead, Past, Before
  <2> QED BY <2>2, <2>3, <2>4
<1>7. CASE T!Claim(t)
  <2>1. at[t] = "claim" /\ at' = [at EXCEPT ![t] = "state"] /\ ~hasSentOut'
        /\ UNCHANGED <<calls, blocking, slot, buf, tc, done, noCb, returned, fired, faulted>>
    BY <1>7 DEF T!Claim
  <2>2. OnlyItself(t)' /\ CalledBack(t)' /\ at'[t] = "state" /\ InBuffer(t)'
    BY <1>4, <2>1
  <2>3. Preparing(t)'
    BY <2>1, <2>2 DEF Preparing, Past, Before
  <2>4. Ahead(t)'
    BY <2>1, <2>2 DEF Ahead, Past, Before
  <2> QED BY <2>2, <2>3, <2>4
(* A step of t from one place before the transmission to the next.          *)
<1>8. ASSUME NEW to \in {"sem", "lock", "cb"}, at' = [at EXCEPT ![t] = to], at[t] \in {"state", "sem", "lock"},
             UNCHANGED <<hasSentOut, calls, blocking, slot, buf, tc, done, noCb, returned, fired, faulted>>
      PROVE  AloneInv(t)'
  <2>2. OnlyItself(t)' /\ CalledBack(t)' /\ at'[t] = to /\ InBuffer(t)'
    BY <1>4, <1>8
  <2>3. Preparing(t)'
    BY <1>8, <2>2 DEF Preparing, Past, Before
  <2>4. Ahead(t)'
    BY <1>8, <2>2 DEF Ahead, Past, Before
  <2> QED BY <2>2, <2>3, <2>4
<1>9. CASE T!NotBusOff(t)
  BY <1>8, <1>9 DEF T!NotBusOff
<1>10. CASE T!TakeSem(t)
  BY <1>8, <1>10 DEF T!TakeSem
<1>11. CASE T!Lock(t)
  BY <1>8, <1>11 DEF T!Lock
(* A step of t that leaves the call, or the part that sends, after an error *)
<1>12. ASSUME NEW to \in {"idle", "unlockErr"}, at' = [at EXCEPT ![t] = to],
             at[t] \in {"state", "sem", "xmit", "unlock", "unlockErr"}, to = "unlockErr" => at[t] = "xmit",
             UNCHANGED <<hasSentOut, calls, blocking, slot, buf, tc, done, noCb, returned, fired>>,
             faulted => faulted'
      PROVE  AloneInv(t)'
  <2>2. OnlyItself(t)' /\ CalledBack(t)' /\ at'[t] = to /\ InBuffer(t)'
    BY <1>4, <1>12
  <2>3. Preparing(t)'
    BY <1>12, <2>2 DEF Preparing, Past, Before
  <2>4. Ahead(t)'
    BY <1>12, <2>2 DEF Ahead, Past, Before
  <2> QED BY <2>2, <2>3, <2>4
<1>13. CASE T!BusOff(t)
  BY <1>12, <1>13 DEF T!BusOff
<1>14. CASE T!SemTimeout(t)
  BY <1>12, <1>14 DEF T!SemTimeout
<1>15. CASE T!TransmitFails(t)
  BY <1>12, <1>15 DEF T!TransmitFails
<1>16. CASE T!UnlockFailed(t)
  BY <1>12, <1>16 DEF T!UnlockFailed
<1>17. CASE T!Unlock(t)
  <2>1. at[t] = "unlock" /\ UNCHANGED <<hasSentOut, calls, blocking, slot, buf, tc, done, noCb, returned, fired, faulted>>
        /\ at' = [at EXCEPT ![t] = IF blocking[t] THEN "wait" ELSE "idle"]
    BY <1>17 DEF T!Unlock
  <2>2. OnlyItself(t)' /\ CalledBack(t)' /\ at'[t] \in {"wait", "idle"} /\ InBuffer(t)'
    BY <1>4, <2>1
  <2>3. Preparing(t)'
    BY <2>1, <2>2 DEF Preparing, Past, Before
  <2>4. Ahead(t)'
    BY <2>1, <2>2 DEF Ahead, Past, Before
  <2> QED BY <2>2, <2>3, <2>4
<1>18. CASE T!Call(t)
  <2>1. /\ at[t] = "idle" /\ at'[t] = "spin" /\ calls'[t] = calls[t] + 1 /\ calls[t] < SendMax[t]
        /\ UNCHANGED <<hasSentOut, slot, buf, tc, done, noCb, returned, fired, faulted>>
    BY <1>1, <1>18 DEF T!Call
  <2>2. OfTask(t) \subseteq OfTask(t)' /\ <<t, calls'[t]>> \notin OfTask(t)
    BY <1>1, <2>1
  <2>3. <<t, calls'[t]>> # NoReq
    <3>1. calls'[t] \in 1..SendMax[t]
      BY <1>1, <2>1, SendAssumption DEF SendAssumption
    <3> QED BY <3>1, RequestIs
  <2> USE DEF Before, Past
  <2> HIDE DEF OfTask
  <2>4. OnlyItself(t)'
    BY <2>1, <2>2 DEF OnlyItself
  <2>5. Preparing(t)'
    BY <2>1, <2>2, <2>3 DEF Preparing, OnlyItself, InBuffer
  <2>6. InBuffer(t)'
    BY <2>1, <2>2 DEF InBuffer
  <2>7. CalledBack(t)'
    BY <2>1 DEF CalledBack
  <2>8. Ahead(t)'
    BY <2>1 DEF Ahead
  <2> QED BY <2>4, <2>5, <2>6, <2>7, <2>8
<1>19. CASE T!SetCallback(t)
  <2>1. /\ at[t] = "cb" /\ at'[t] = "xmit" /\ slot'[d] = IF blocking[t] THEN NoReq ELSE r
        /\ UNCHANGED <<hasSentOut, calls, blocking, buf, tc, done, noCb, returned, fired, faulted>>
    BY <1>0, <1>1, <1>3, <1>19 DEF T!SetCallback
  <2>2. buf[d] = NoReq /\ ~tc[d] /\ ~hasSentOut
    BY <1>3, <2>1 DEF Preparing, Past, Before
  <2> USE DEF Before, Past
  <2>4. OnlyItself(t)'
    BY <2>1 DEF OnlyItself
  <2>5. Preparing(t)'
    BY <1>3, <2>1, <2>2 DEF Preparing
  <2>6. InBuffer(t)'
    BY <1>3, <2>1, <2>2 DEF InBuffer
  <2>7. CalledBack(t)'
    BY <1>3, <2>1, <2>2 DEF CalledBack
  <2>8. Ahead(t)'
    BY <1>3, <2>1, <2>2 DEF Ahead
  <2> QED BY <2>4, <2>5, <2>6, <2>7, <2>8
<1>20. CASE T!Transmit(t)
  <2>1. /\ at[t] = "xmit" /\ at'[t] = "unlock"
        /\ buf' = [buf EXCEPT ![d] = r]
        /\ noCb' = IF blocking[t] THEN noCb \cup {r} ELSE noCb
        /\ UNCHANGED <<hasSentOut, calls, blocking, slot, tc, done, returned, fired, faulted>>
    BY <1>0, <1>1, <1>3, <1>20 DEF T!Transmit
  <2>2. /\ buf[d] = NoReq /\ ~tc[d] /\ ~hasSentOut /\ r \notin done \cup noCb
        /\ slot[d] = IF blocking[t] THEN NoReq ELSE r
    BY <1>3, <2>1 DEF Preparing, Past, Before
  <2>3. buf'[d] = r /\ (\A e \in SendDevices \ {d} : buf'[e] = buf[e]) /\ returned \subseteq done
    BY <1>0, <1>1, <1>3, <2>1 DEF Ahead, Past, Before
  <2>4. r \in OfTask(t)
    BY <1>1, <2>1 DEF SendType
  <2> USE DEF Before, Past
  <2> HIDE DEF OfTask
  <2>9. OfTask(t)' = OfTask(t)
    BY <2>1 DEF OfTask
  <2>5. OnlyItself(t)'
    BY <1>3, <2>1, <2>3, <2>4, <2>9 DEF OnlyItself
  <2>6. Preparing(t)'
    BY <1>3, <2>1, <2>2 DEF Preparing
  <2>7. InBuffer(t)'
    BY <1>3, <2>1, <2>2, <2>3, <2>4, <2>9 DEF InBuffer
  <2>8. CalledBack(t)'
    BY <1>3, <2>1, <2>2 DEF CalledBack
  <2>10. Ahead(t)'
    BY <1>3, <2>1, <2>2, <2>3 DEF Ahead
  <2> QED BY <2>5, <2>6, <2>7, <2>8, <2>10
<1>21. CASE T!AwaitFinish(t)
  <2>1. /\ at[t] = "wait" /\ at'[t] = "idle" /\ returned' = returned \cup {r}
        /\ UNCHANGED <<hasSentOut, calls, blocking, slot, buf, tc, done, noCb, fired, faulted>>
    BY <1>1, <1>21 DEF T!AwaitFinish
  <2>2. returned \subseteq done /\ (tc[d] \/ hasSentOut => r \in done)
    BY <1>3, <2>1 DEF Ahead
  <2>3. r \in OfTask(t)
    BY <1>1, <2>1 DEF SendType
  <2> USE DEF Before, Past
  <2> HIDE DEF OfTask
  <2>9. OfTask(t)' = OfTask(t)
    BY <2>1 DEF OfTask
  <2>4. OnlyItself(t)'
    BY <2>1, <2>3, <2>9 DEF OnlyItself
  <2>5. Preparing(t)'
    BY <2>1 DEF Preparing
  <2>6. InBuffer(t)'
    BY <1>3, <2>1, <2>2, <2>9 DEF InBuffer
  <2>7. CalledBack(t)'
    BY <2>1 DEF CalledBack
  <2>8. Ahead(t)'
    BY <1>3, <2>1, <2>2 DEF Ahead
  <2> QED BY <2>4, <2>5, <2>6, <2>7, <2>8
<1> QED BY <1>6, <1>7, <1>9, <1>10, <1>11, <1>13, <1>14, <1>15, <1>16, <1>17, <1>18, <1>19, <1>20, <1>21
        DEF T!Send, T!Advance

LEMMA AloneDevice ==
    ASSUME SendType, NEW t \in SendThreads, AloneInv(t), NEW e \in SendDevices,
           T!FrameSent(e) \/ T!Isr(e) \/ T!StartOrStop(e) \/ T!Mark(e) \/ T!Reinit(e)
    PROVE  AloneInv(t)'
<1> DEFINE d == SendDevOf[t]
<1>0. d \in SendDevices
  BY SendAssumption DEF SendAssumption
<1>1. /\ buf \in [SendDevices -> T!Requests \cup {NoReq}] /\ slot \in [SendDevices -> T!Requests \cup {NoReq}]
      /\ tc \in [SendDevices -> BOOLEAN] /\ fired \in [T!Requests -> Nat]
  BY DEF SendType, T!TypeOK
<1> HIDE DEF d
<1>3. d = SendDevOf[t]
  BY DEF d
<1>4. NoReq \notin T!Requests
  BY SendAssumption DEF SendAssumption
<1> USE DEF AloneInv, Before, Past
<1>5. CASE T!FrameSent(e)
  <2>0. e = d
    BY <1>3, <1>5 DEF OnlyItself, T!FrameSent
  <2>1. /\ buf[d] # NoReq /\ done' = done \cup {buf[d]} /\ buf' = [buf EXCEPT ![d] = NoReq]
        /\ tc' = [tc EXCEPT ![d] = TRUE]
        /\ UNCHANGED <<at, hasSentOut, calls, blocking, slot, noCb, returned, fired, faulted>>
    BY <1>5, <2>0 DEF T!FrameSent, T!threadVars, T!dataVars
  <2>2. /\ buf'[d] = NoReq /\ \A x \in SendDevices \ {d} : buf'[x] = buf[x] /\ tc'[x] = tc[x]
    BY <1>0, <1>1, <2>1
  <2>3. tc'[d]
    BY <1>0, <1>1, <2>1
  <2>4. /\ ~tc[d] /\ buf[d] \notin done /\ buf[d] \in OfTask(t) /\ buf[d] \in T!Requests
        /\ slot[d] = IF buf[d] \in noCb THEN NoReq ELSE buf[d]
        /\ at[t] \in {"unlock", "wait"} => buf[d] = <<t, calls[t]>>
        /\ returned \ done \subseteq {buf[d]}
    BY <1>0, <1>1, <1>3, <2>1 DEF InBuffer
  <2>5. ~hasSentOut /\ at[t] \notin Past
    BY <1>3, <2>1 DEF Preparing
  <2>6. OfTask(t)' = OfTask(t)
    BY <2>1 DEF OfTask
  <2>7. OnlyItself(t)'
    BY <1>3, <2>1, <2>2, <2>4, <2>6 DEF OnlyItself
  <2>8. Preparing(t)'
    <3>1. at[t] \in Before => <<t, calls[t]>> # NoReq /\ <<t, calls[t]>> \notin done'
      BY <1>3, <2>1, RequestOf DEF Preparing, T!Req
    <3> QED BY <1>3, <2>1, <2>2, <2>5, <3>1 DEF Preparing
  <2>9. InBuffer(t)'
    BY <1>3, <2>1, <2>2 DEF InBuffer
  <2>10. CalledBack(t)'
    <3>1. fired[buf[d]] = 0
      BY <1>1, <2>4 DEF CalledBack
    <3>2. slot'[d] = NoReq \/ (slot'[d] \in done' \ noCb' /\ fired'[slot'[d]] = 0)
      BY <2>1, <2>4, <3>1
    <3>3. ASSUME NEW q \in T!Requests
          PROVE  /\ fired'[q] <= 1 /\ (fired'[q] # 0 => q \in done' \ noCb')
                 /\ q \in done' \ noCb' => fired'[q] = 1 \/ (tc'[d] /\ slot'[d] = q) \/ faulted'
      <4>1. /\ fired[q] <= 1 /\ (fired[q] # 0 => q \in done \ noCb)
            /\ q \in done \ noCb => fired[q] = 1 \/ (tc[d] /\ slot[d] = q) \/ faulted
        BY <1>3 DEF CalledBack
      <4> QED BY <2>1, <2>3, <2>4, <4>1
    <3> QED BY <1>3, <3>2, <3>3 DEF CalledBack
  <2>11. Ahead(t)'
    <3>1. returned' \subseteq done' /\ (at'[t] \in {"unlock", "wait"} => <<t, calls'[t]>> \in done')
      BY <2>1, <2>4
    <3> QED BY <3>1 DEF Ahead
  <2> QED BY <2>7, <2>8, <2>9, <2>10, <2>11
<1>6. CASE T!Isr(e)
  <2>0. e = d
    BY <1>3, <1>6 DEF OnlyItself, T!Isr
  <2>1. /\ tc[d] /\ hasSentOut' /\ tc' = [tc EXCEPT ![d] = FALSE] /\ T!Notify(d)
        /\ UNCHANGED <<at, calls, blocking, slot, buf, noCb, done, returned, faulted>>
    BY <1>6, <2>0 DEF T!Isr, T!threadVars
  <2>2. ~tc'[d] /\ \A x \in SendDevices \ {d} : tc'[x] = tc[x]
    BY <1>0, <1>1, <2>1
  <2>3. /\ buf[d] = NoReq /\ at[t] \notin Past
        /\ slot[d] = NoReq \/ (slot[d] \in done \ noCb /\ fired[slot[d]] = 0)
        /\ at[t] \in {"unlock", "wait"} => <<t, calls[t]>> \in done
        /\ returned \subseteq done
    <3>1. buf[d] = NoReq
      BY <1>3, <2>1 DEF InBuffer
    <3>2. at[t] \notin Past
      BY <1>3, <2>1 DEF Preparing
    <3>3. slot[d] = NoReq \/ (slot[d] \in done \ noCb /\ fired[slot[d]] = 0)
      BY <1>3, <2>1 DEF CalledBack
    <3>4. at[t] \in {"unlock", "wait"} => <<t, calls[t]>> \in done
      BY <1>3, <2>1 DEF Ahead
    <3>5. returned \subseteq done
      BY <1>3, <2>1 DEF Ahead
    <3> QED BY <3>1, <3>2, <3>3, <3>4, <3>5
  <2>6. OfTask(t)' = OfTask(t)
    BY <2>1 DEF OfTask
  <2>7. OnlyItself(t)'
    BY <1>3, <2>1, <2>2, <2>6 DEF OnlyItself
  <2>8. Preparing(t)'
    BY <1>3, <2>1, <2>2, <2>3 DEF Preparing
  <2>9. InBuffer(t)'
    BY <1>3, <2>1, <2>3 DEF InBuffer
  <2>10. CalledBack(t)'
    <3>1. ASSUME NEW q \in T!Requests
          PROVE  /\ fired'[q] <= 1 /\ (fired'[q] # 0 => q \in done \ noCb)
                 /\ q \in done \ noCb => fired'[q] = 1 \/ faulted
      <4>1. /\ fired[q] <= 1 /\ (fired[q] # 0 => q \in done \ noCb)
            /\ q \in done \ noCb => fired[q] = 1 \/ slot[d] = q \/ faulted
        BY <1>3, <2>1 DEF CalledBack
      <4>2. CASE slot[d] = NoReq
        <5>1. fired' = fired /\ slot[d] # q
          BY <1>4, <2>1, <4>2 DEF T!Notify
        <5> QED BY <4>1, <5>1
      <4>3. CASE slot[d] # NoReq
        <5>1. fired' = [fired EXCEPT ![slot[d]] = @ + 1]
          BY <2>1, <4>3 DEF T!Notify
        <5>2. slot[d] \in T!Requests
          BY <1>0, <1>1, <4>3
        <5>3. fired'[q] = IF q = slot[d] THEN 1 ELSE fired[q]
          BY <1>1, <2>3, <4>3, <5>1, <5>2
        <5> QED BY <2>3, <4>1, <4>3, <5>3
      <4> QED BY <4>2, <4>3
    <3> QED BY <1>3, <2>1, <2>2, <3>1 DEF CalledBack
  <2>11. Ahead(t)'
    BY <1>3, <2>1, <2>3 DEF Ahead
  <2> QED BY <2>7, <2>8, <2>9, <2>10, <2>11
(* A reset drops what is under way on e.                                    *)
<1>7. ASSUME T!Reset(e), UNCHANGED <<at, hasSentOut, calls, blocking, slot, noCb, done, returned, fired>>
      PROVE  AloneInv(t)'
  <2>1. PICK kept \in BOOLEAN :
          /\ kept => tc[e]
          /\ buf' = [buf EXCEPT ![e] = NoReq] /\ tc' = [tc EXCEPT ![e] = kept]
          /\ faulted' = (faulted \/ buf[e] # NoReq \/ (tc[e] /\ ~kept))
    BY <1>7, ResetIs
  <2>2. \A x \in SendDevices : buf'[x] \in {buf[x], NoReq} /\ (tc'[x] => tc[x])
    BY <1>1, <2>1
  <2>3. faulted => faulted'
    BY <2>1
  <2>4. tc[d] => tc'[d] \/ faulted'
    BY <1>0, <1>1, <2>1
  <2>6. OfTask(t)' = OfTask(t)
    BY <1>7 DEF OfTask
  <2>7. OnlyItself(t)'
    BY <1>0, <1>3, <1>7, <2>2, <2>6 DEF OnlyItself
  <2>8. Preparing(t)'
    <3>1. buf'[d] \in {buf[d], NoReq} /\ (tc'[d] => tc[d])
      BY <1>0, <2>2
    <3>2. at[t] \in Before => buf'[d] # <<t, calls[t]>>
      BY <1>3, <3>1, RequestOf DEF Preparing, T!Req
    <3> QED BY <1>3, <1>7, <3>1, <3>2 DEF Preparing
  <2>9. InBuffer(t)'
    BY <1>0, <1>3, <1>7, <2>2, <2>6 DEF InBuffer
  <2>10. CalledBack(t)'
    BY <1>0, <1>3, <1>7, <2>2, <2>3, <2>4 DEF CalledBack
  <2>11. Ahead(t)'
    BY <1>0, <1>3, <1>7, <2>2 DEF Ahead
  <2> QED BY <2>7, <2>8, <2>9, <2>10, <2>11
<1>8. CASE T!StartOrStop(e)
  BY <1>7, <1>8 DEF T!StartOrStop, T!threadVars, T!dataVars
<1>9. CASE T!Mark(e)
  BY <1>9 DEF T!Mark, T!threadVars, T!hwVars, T!history, OnlyItself, Preparing, InBuffer, CalledBack,
              Ahead, OfTask
<1>10. CASE T!Reinit(e)
  BY <1>7, <1>10 DEF T!Reinit, T!threadVars, T!dataVars
<1> QED BY <1>5, <1>6, <1>8, <1>9, <1>10

LoneInv == \A t \in SendThreads : Alone(t) => AloneInv(t)

LEMMA LoneStep ==
    ASSUME SendType, LoneInv, [T!Next]_(T!vars)
    PROVE  LoneInv'
<1> SUFFICES ASSUME NEW t \in SendThreads, Alone(t)'
             PROVE  AloneInv(t)'
  BY DEF LoneInv
<1>1. calls \in [SendThreads -> Nat] /\ \A u \in SendThreads : calls[u] = 0 => at[u] = "idle"
  BY DEF SendType
<1>2. CASE UNCHANGED T!vars
  <2>1. AloneInv(t)
    BY <1>2 DEF LoneInv, Alone, T!vars, T!threadVars
  <2> QED BY <1>2, <2>1 DEF AloneInv, OnlyItself, Preparing, InBuffer, CalledBack,
              Ahead, OfTask, T!vars, T!threadVars, T!dataVars, T!hwVars, T!history
<1>3. ASSUME NEW u \in SendThreads, T!Send(u)
      PROVE  AloneInv(t)'
  <2>1. calls' = calls \/ T!Call(u)
    BY <1>3 DEF T!Send, T!Advance, T!SpinEnds, T!Claim, T!NotBusOff, T!TakeSem, T!Lock, T!SetCallback,
          T!Transmit, T!Unlock, T!UnlockFailed, T!AwaitFinish, T!BusOff, T!SemTimeout, T!TransmitFails
  <2>2. \A x \in SendThreads : calls'[x] = 0 => calls[x] = 0
    <3>1. CASE calls' = calls
      BY <3>1
    <3>2. CASE T!Call(u)
      BY <1>1, <3>2 DEF T!Call
    <3> QED BY <2>1, <3>1, <3>2
  <2>3. Alone(t)
    BY <2>2 DEF Alone
  <2>4. u = t
    <3> SUFFICES ASSUME u # t PROVE FALSE
      OBVIOUS
    <3>1. calls[u] = 0 /\ calls'[u] = 0 /\ at[u] = "idle"
      BY <1>1, <2>3 DEF Alone
    <3>2. ~T!Call(u)
      <4>1. T!Call(u) => calls' = [calls EXCEPT ![u] = @ + 1]
        BY DEF T!Call
      <4>2. calls' = [calls EXCEPT ![u] = @ + 1] => calls'[u] = 1
        BY <1>1, <3>1
      <4> QED BY <3>1, <4>1, <4>2
    <3>3. at[u] # "idle"
      BY <1>3, <3>2 DEF T!Send, T!Advance, T!SpinEnds, T!Claim, T!NotBusOff, T!TakeSem, T!Lock, T!SetCallback,
          T!Transmit, T!Unlock, T!UnlockFailed, T!AwaitFinish, T!BusOff, T!SemTimeout, T!TransmitFails, T!Step
    <3> QED BY <3>1, <3>3
  <2> QED BY <1>3, <2>3, <2>4, AloneThread DEF LoneInv
<1>4. ASSUME NEW e \in SendDevices,
             T!FrameSent(e) \/ T!Isr(e) \/ T!StartOrStop(e) \/ T!Mark(e) \/ T!Reinit(e)
      PROVE  AloneInv(t)'
  <2>1. Alone(t)
    BY <1>4 DEF Alone, T!FrameSent, T!Isr, T!StartOrStop, T!Mark, T!Reinit, T!threadVars
  <2> QED BY <1>4, <2>1, AloneDevice DEF LoneInv
<1>5. CASE T!Next
  BY <1>3, <1>4, <1>5 DEF T!Next
<1> QED BY <1>2, <1>5

LEMMA LoneIsEnough ==
    ASSUME SendType, LoneInv
    PROVE  LoneSenderIsServed
<1> SUFFICES ASSUME NEW t \in SendThreads, Alone(t)
             PROVE  /\ \A r \in T!Requests :
                         /\ fired[r] <= 1
                         /\ fired[r] = 1 => r \in done \ noCb
                         /\ r \in done \ noCb => fired[r] = 1 \/ tc[SendDevOf[r[1]]] \/ faulted
                    /\ Cardinality(returned \ done) <= 1
  BY CountIs DEF LoneSenderIsServed, T!LoneSenderIsServed, Alone
<1>1. AloneInv(t)
  BY DEF LoneInv
<1>2. ASSUME NEW r \in T!Requests
      PROVE  /\ fired[r] <= 1
             /\ fired[r] = 1 => r \in done \ noCb
             /\ r \in done \ noCb => fired[r] = 1 \/ tc[SendDevOf[r[1]]] \/ faulted
  <2>1. r \in done => r[1] = t
    BY <1>1 DEF AloneInv, OnlyItself, OfTask
  <2> QED BY <1>1, <2>1 DEF AloneInv, CalledBack
<1>3. Cardinality(returned \ done) <= 1
  <2>1. PICK x : returned \ done \subseteq {x}
    BY <1>1 DEF AloneInv, Ahead
  <2>2. IsFiniteSet({x}) /\ Cardinality({x}) = 1
    BY FS_Singleton
  <2>3. Cardinality(returned \ done) <= Cardinality({x})
    BY <2>1, <2>2, FS_Subset
  <2> QED BY <2>2, <2>3
<1> QED BY <1>2, <1>3

(* For any threads, controllers and number of calls, a sender that is alone *)
(* gets each callback once, after its frame, and the one it is owed unless  *)
(* a call failed or a reset came; one blocking call at most has returned    *)
(* ahead of the bus.                                                        *)
THEOREM LoneSenderIsSound == Spec => []LoneSenderIsServed
<1>1. T!Init => LoneInv
  BY AloneInit DEF LoneInv
<1>2. SendType /\ LoneInv => LoneSenderIsServed
  BY LoneIsEnough
<1>3. T!Spec => [](SendType /\ LoneInv)
  BY <1>1, LoneStep, SendIsTyped, PTL DEF T!Spec
<1> QED BY <1>2, <1>3, UnionIsEach, PTL
-------------------------------------------------------------------------------
(* CanFrame.  What is in the transmit buffer for f, and what the receiver   *)
(* builds from it.                                                          *)
Loaded(f) == [flags |-> f.flags \ {"ESI"}, dlc |-> f.dlc, words |-> B!CopyWords(B!Convert(f))]
HeardOf(f) == B!GetMessage(B!Wire(Loaded(f)))

LEMMA PayloadFits ==
    ASSUME NEW f \in FrameSet, f.dlc <= 15
    PROVE  /\ HeardOf(f).flags = f.flags \ B!NotCarried(f) /\ HeardOf(f).dlc = f.dlc
           /\ B!Encodable(f) =>
                HeardOf(f).bytes = IF "RTR" \in f.flags THEN 0 ELSE B!DlcBytes(f.dlc)
<1>1. f.flags \subseteq Flags /\ f.dlc \in 0..15
  BY FrameAssumption DEF FrameAssumption
<1>2. HeardOf(f).flags = f.flags \ B!NotCarried(f) /\ HeardOf(f).dlc = f.dlc
  <2>1. HeardOf(f).dlc = f.dlc
    BY DEF HeardOf, Loaded, B!GetMessage, B!Wire
  <2>2. CASE "FDF" \in f.flags
    <3>1. HeardOf(f).flags = {"FDF", "RTR", "IDE", "BRS"} \cap (f.flags \ {"ESI"})
      BY <2>2 DEF HeardOf, Loaded, B!GetMessage, B!Wire
    <3>2. {"FDF", "RTR", "IDE", "BRS"} \cap (f.flags \ {"ESI"}) = f.flags \ {"ESI"}
      BY <1>1 DEF Flags
    <3> QED BY <2>1, <2>2, <3>1, <3>2 DEF B!NotCarried
  <2>3. CASE "FDF" \notin f.flags
    <3>1. HeardOf(f).flags = {"FDF", "RTR", "IDE", "BRS"} \cap ((f.flags \ {"ESI"}) \ {"BRS"})
      BY <2>3 DEF HeardOf, Loaded, B!GetMessage, B!Wire
    <3>2. {"FDF", "RTR", "IDE", "BRS"} \cap ((f.flags \ {"ESI"}) \ {"BRS"}) = f.flags \ {"ESI", "BRS"}
      BY <1>1 DEF Flags
    <3> QED BY <2>1, <2>3, <3>1, <3>2 DEF B!NotCarried
  <2> QED BY <2>2, <2>3
<1> DEFINE bytes == B!DlcBytes(f.dlc)
           words == (bytes + 3) \div 4
<1>3. bytes \in Nat /\ (f.dlc <= 8 => bytes = f.dlc)
  BY <1>1 DEF B!DlcBytes
<1>4. Loaded(f).flags = f.flags \ {"ESI"} /\ Loaded(f).dlc = f.dlc /\ Loaded(f).words = words
  BY DEF Loaded, B!CopyWords, B!Convert
<1>5. words \in Nat /\ bytes <= 4 * words
  <2> HIDE DEF bytes
  <2> QED BY <1>3
<1>6. ASSUME B!Encodable(f)
      PROVE  B!OnBus(Loaded(f)) = IF "RTR" \in f.flags THEN 0 ELSE bytes
  <2> DEFINE carried == IF "RTR" \in f.flags THEN 0 ELSE IF "FDF" \in f.flags THEN bytes
                        ELSE B!DlcBytes(IF f.dlc < 8 THEN f.dlc ELSE 8)
  <2>1. B!OnBus(Loaded(f)) = IF carried < 4 * words THEN carried ELSE 4 * words
    <3>1. "RTR" \in Loaded(f).flags <=> "RTR" \in f.flags
      BY <1>4
    <3>2. "FDF" \in Loaded(f).flags <=> "FDF" \in f.flags
      BY <1>4
    <3> HIDE DEF words
    <3> QED BY <1>4, <3>1, <3>2 DEF B!OnBus
  <2>2. carried = IF "RTR" \in f.flags THEN 0 ELSE bytes
    <3>1. "RTR" \notin f.flags /\ "FDF" \notin f.flags => (IF f.dlc < 8 THEN f.dlc ELSE 8) = f.dlc
      BY <1>1, <1>6 DEF B!Encodable, B!CAN_MAX_DLC
    <3>2. CASE "RTR" \in f.flags
      BY <3>2
    <3>3. CASE "RTR" \notin f.flags /\ "FDF" \in f.flags
      BY <3>3
    <3>4. CASE "RTR" \notin f.flags /\ "FDF" \notin f.flags
      <4>1. carried = B!DlcBytes(IF f.dlc < 8 THEN f.dlc ELSE 8)
        BY <3>4
      <4> HIDE DEF carried
      <4> QED BY <3>1, <3>4, <4>1
    <3> QED BY <3>2, <3>3, <3>4
  <2> HIDE DEF carried, words, bytes
  <2> QED BY <1>3, <1>5, <2>1, <2>2
<1>7. HeardOf(f).bytes = B!OnBus(Loaded(f))
  BY DEF HeardOf, B!GetMessage, B!Wire
<1> QED BY <1>2, <1>6, <1>7

(* The call, the frames loaded so far and those heard, in order; a refused  *)
(* call loads nothing, and what is loaded has passed the checks.            *)
FrameInv ==
    /\ canfd \in BOOLEAN /\ path \in B!Paths /\ frames \in Seq(FrameSet) /\ i \in 1..(Len(frames) + 1)
    /\ step \in {"check", "load", "sent", "returned"} /\ result \in {"ok", "ENOTSUP", "EINVAL"}
    /\ stb \in Seq({Loaded(f) : f \in FrameSet}) /\ heard \in Seq({HeardOf(f) : f \in FrameSet})
    /\ path = "send" => Len(frames) = 1
    /\ result # "ok" => step = "returned"
    /\ step \in {"check", "returned"} => stb = <<>> /\ heard = <<>>
    /\ step = "check" /\ path = "batch" => \A n \in 1..(i - 1) : frames[n].dlc <= 15
    /\ step = "check" /\ path = "send" => i = 1
    /\ step \in {"load", "sent"} =>
         Len(frames) <= B!BatchLimit /\ \A n \in 1..Len(frames) : frames[n].dlc <= 15
    /\ step = "load" => heard = <<>> /\ Len(stb) = i - 1
    /\ step = "sent" => Len(stb) + Len(heard) = Len(frames)
    /\ \A n \in 1..Len(stb) : stb[n] = Loaded(frames[Len(heard) + n])
    /\ \A n \in 1..Len(heard) : heard[n] = HeardOf(frames[n])

LEMMA FrameInit == B!Init => FrameInv
<1> SUFFICES ASSUME B!Init PROVE FrameInv
  OBVIOUS
<1>1. frames \in Seq(FrameSet) /\ Len(frames) \in Nat
  BY FrameAssumption DEF FrameAssumption, B!Init
<1> QED BY <1>1 DEF B!Init, FrameInv

LEMMA ChecksBound ==
    ASSUME NEW f \in FrameSet, B!SendCheck(f) = "ok" \/ B!BatchCheck(f) = "ok"
    PROVE  f.dlc <= 15
<1>1. f.dlc \in Nat
  BY FrameAssumption DEF FrameAssumption
<1>2. B!ClassicCheck(f) = "ok" => f.dlc <= 15
  BY <1>1 DEF B!ClassicCheck, B!CAN_MAX_DLC
<1>3. \A x : B!FdCheck(f, x) = "ok" => f.dlc <= 15
  BY <1>1 DEF B!FdCheck, B!CANFD_MAX_DLC
<1> QED BY <1>2, <1>3 DEF B!SendCheck, B!BatchCheck

LEMMA CheckIs ==
    ASSUME NEW f
    PROVE  /\ B!SendCheck(f) \in {"ok", "ENOTSUP", "EINVAL"}
           /\ B!BatchCheck(f) \in {"ok", "ENOTSUP", "EINVAL"}
<1>1. B!ClassicCheck(f) \in {"ok", "ENOTSUP", "EINVAL"}
  BY DEF B!ClassicCheck
<1>2. \A x : B!FdCheck(f, x) \in {"ok", "ENOTSUP", "EINVAL"}
  BY DEF B!FdCheck
<1> QED BY <1>1, <1>2 DEF B!SendCheck, B!BatchCheck

LEMMA FrameStep ==
    ASSUME FrameInv, [B!Next]_(B!vars)
    PROVE  FrameInv'
<1> USE DEF FrameInv
<1>0. Len(frames) \in Nat /\ \A n \in 1..Len(frames) : frames[n] \in FrameSet
  OBVIOUS
<1>1. CASE B!CheckSend
  <2>1. i = 1 /\ Len(frames) = 1 /\ stb = <<>> /\ heard = <<>> /\ frames[1] \in FrameSet
    BY <1>0, <1>1 DEF B!CheckSend
  <2>2. CASE B!SendCheck(frames[1]) = "ok"
    <3>1. frames[1].dlc <= 15
      BY <2>1, <2>2, ChecksBound
    <3> QED BY <1>1, <2>1, <2>2, <3>1 DEF B!CheckSend, B!BatchLimit
  <2>3. CASE B!SendCheck(frames[1]) # "ok"
    <3>1. step' = "returned" /\ result' \in {"ok", "ENOTSUP", "EINVAL"}
      BY <1>1, <2>3, CheckIs DEF B!CheckSend, B!Return
    <3> QED BY <1>1, <2>1, <3>1 DEF B!CheckSend
  <2> QED BY <2>2, <2>3
<1>2. CASE B!CheckCount
  BY <1>2 DEF B!CheckCount, B!Return
<1>3. CASE B!CheckBatch
  <2>1. CASE i > Len(frames) /\ step' = "load" /\ i' = 1 /\ UNCHANGED result
    <3>1. \A n \in 1..Len(frames) : frames[n].dlc <= 15
      BY <1>3, <2>1 DEF B!CheckBatch
    <3> QED BY <1>0, <1>3, <2>1, <3>1 DEF B!CheckBatch, B!CountOk
  <2>2. CASE i <= Len(frames) /\ B!BatchCheck(frames[i]) # "ok" /\ B!Return(B!BatchCheck(frames[i])) /\ UNCHANGED i
    BY <1>3, <2>2, CheckIs DEF B!CheckBatch, B!Return
  <2>3. CASE i <= Len(frames) /\ B!BatchCheck(frames[i]) = "ok" /\ i' = i + 1 /\ UNCHANGED <<step, result>>
    <3>1. frames[i].dlc <= 15
      BY <1>0, <2>3, ChecksBound
    <3> QED BY <1>0, <1>3, <2>3, <3>1 DEF B!CheckBatch
  <2> QED BY <1>3, <2>1, <2>2, <2>3 DEF B!CheckBatch
<1>4. CASE B!Load
  <2>1. frames[i] \in FrameSet /\ heard = <<>> /\ Len(stb) = i - 1 /\ stb' = Append(stb, Loaded(frames[i]))
    BY <1>0, <1>4 DEF B!Load, Loaded, B!Convert
  <2>2. /\ stb' \in Seq({Loaded(f) : f \in FrameSet}) /\ Len(stb') = i
        /\ \A n \in 1..i : stb'[n] = IF n < i THEN stb[n] ELSE Loaded(frames[i])
    BY <2>1, AppendProperties
  <2>3. heard' = <<>> /\ Len(heard') = 0
    BY <1>4, <2>1, EmptySeq DEF B!Load
  <2>4. \A n \in 1..Len(stb') : stb'[n] = Loaded(frames'[Len(heard') + n])
    BY <1>0, <1>4, <2>1, <2>2, <2>3 DEF B!Load
  <2> QED BY <1>0, <1>4, <2>2, <2>3, <2>4 DEF B!Load
<1>5. CASE B!Start
  BY <1>0, <1>5 DEF B!Start
<1>6. CASE B!Hear
  <2>1. /\ Len(stb) # 0 /\ stb[1] = Loaded(frames[Len(heard) + 1]) /\ Len(heard) + 1 \in 1..Len(frames)
        /\ Len(stb) \in Nat /\ Len(heard) \in Nat
    BY <1>0, <1>6, EmptySeq DEF B!Hear
  <2>2. heard' = Append(heard, HeardOf(frames[Len(heard) + 1]))
    BY <1>6, <2>1 DEF B!Hear, HeardOf, Loaded
  <2>3. /\ heard' \in Seq({HeardOf(f) : f \in FrameSet}) /\ Len(heard') = Len(heard) + 1
        /\ \A n \in 1..Len(heard') : heard'[n] = HeardOf(frames[n])
    BY <1>0, <2>1, <2>2, AppendProperties
  <2>4. /\ stb' \in Seq({Loaded(f) : f \in FrameSet}) /\ Len(stb') = Len(stb) - 1
        /\ \A n \in 1..Len(stb') : stb'[n] = stb[n + 1]
    BY <1>6, <2>1, HeadTailProperties DEF B!Hear
  <2>5. \A n \in 1..Len(stb') : stb'[n] = Loaded(frames[Len(heard') + n])
    BY <2>1, <2>3, <2>4
  <2> QED BY <1>0, <1>6, <2>1, <2>3, <2>4, <2>5 DEF B!Hear
<1>7. CASE B!Done \/ UNCHANGED B!vars
  BY <1>7 DEF B!Done, B!vars
<1> QED BY <1>1, <1>2, <1>3, <1>4, <1>5, <1>6, <1>7 DEF B!Next

(* CanFrame: how far a call has come, what the transmit buffer holds and    *)
(* what the bus has heard belong together.                                  *)
THEOREM FrameIsSound == B!Spec => []FrameInv
<1> QED BY FrameInit, FrameStep, PTL DEF B!Spec

(* For any frames and calls, a refused call sends nothing, and the receiver *)
(* hears the frames of an accepted one in order, each with the flags and    *)
(* the whole payload its format can carry: without ESI, and without BRS     *)
(* when it is a classic frame.                                              *)
THEOREM FramesAreSentAsGiven == Spec => []SentAsGiven
<1>1. FrameInv => SentAsGiven
  <2> SUFFICES ASSUME FrameInv PROVE SentAsGiven
    OBVIOUS
  <2> USE DEF FrameInv
  <2>1. B!AllOrNothing
    BY EmptySeq DEF B!AllOrNothing
  <2>2. ASSUME NEW n \in DOMAIN heard
        PROVE  /\ heard[n].flags = frames[n].flags \ B!NotCarried(frames[n]) /\ heard[n].dlc = frames[n].dlc
               /\ B!Encodable(frames[n]) =>
                    heard[n].bytes = IF "RTR" \in frames[n].flags THEN 0 ELSE B!DlcBytes(frames[n].dlc)
    <3>1. n \in 1..Len(heard) /\ heard # <<>>
      BY <2>2
    <3>2. step = "sent" /\ n \in 1..Len(frames)
      BY <3>1
    <3>3. frames[n] \in FrameSet /\ frames[n].dlc <= 15 /\ heard[n] = HeardOf(frames[n])
      BY <3>1, <3>2
    <3> QED BY <3>3, PayloadFits
  <2> QED BY <2>1, <2>2 DEF SentAsGiven, B!HeardAsSent
<1> QED BY <1>1, FrameIsSound, UnionIsEach, PTL
-------------------------------------------------------------------------------
(* McanFilter.  The state has its type, a client inside the driver holds    *)
(* inst_mutex, and every call it works for has been made, in its list.      *)
McanLabels == {"idle", "lock", "reserve", "fill", "program", "storeCb", "storeArg", "unlock",
               "remLock", "find ext", "shrink ext", "find std", "shrink std", "remUnlock"}
Adding   == {"fill", "program", "storeCb", "storeArg", "unlock"}
Removing == {"remLock", "find ext", "shrink ext", "find std", "shrink std", "remUnlock"}
Inside   == McanLabels \ {"idle", "lock", "remLock"}
Answers  == [cb : M!Calls \cup {M!Null}, arg : M!Calls \cup {M!Null}, ext : BOOLEAN, id : McanIds, rtr : BOOLEAN]
CallRecs == [pc : McanLabels, reg : M!Calls \cup {M!Null}, ext : BOOLEAN, id : M!Places]

McanType ==
    /\ filters \in [BOOLEAN -> M!Lists] /\ (\A e \in BOOLEAN : filters[e].count <= M!Room(e))
    /\ instMutex \in [owner : McanClients \cup {NoMcan}, depth : Nat]
    /\ mcall \in [McanClients -> CallRecs]
    /\ rxFifo \in Seq(M!Frames) /\ Len(rxFifo) <= McanFifo
    /\ newMsg \in BOOLEAN /\ mcanIsr \in BOOLEAN /\ (newMsg /\ ~mcanIsr => rxFifo # <<>>)
    /\ request \in Seq([ext : BOOLEAN, elem : M!Elems]) /\ Len(request) <= McanAdds
    /\ registered \subseteq [reg : M!Calls, by : McanClients, id : M!Places]
    /\ told \in Answers /\ mcanOdd \subseteq M!Oddities
    /\ \A c \in McanClients : mcall[c].pc \in Inside => instMutex.owner = c
    /\ \A c \in McanClients : \A e \in BOOLEAN : mcall[c].pc = M!ShrinkOf(e) => filters[e].count > 0

(* Every call at work and every registration has its request; the driver    *)
(* knows each request from one place only, and a callback is in the list of *)
(* its request.                                                             *)
McanCalls ==
    /\ \A c \in McanClients : LET t == mcall[c] IN
         /\ IF t.pc = "idle" THEN t.reg = M!Null ELSE t.reg \in 1..Len(request)
         /\ t.pc \in {"lock", "reserve"} \cup Adding => request[t.reg].ext = t.ext
         /\ t.pc \in Adding => t.id + 1 = filters[t.ext].count
    /\ \A r \in registered : r.reg \in 1..Len(request)
    /\ \A r, s \in registered : r.reg = s.reg => r = s
    /\ \A c \in McanClients : \A r \in registered : mcall[c].reg # r.reg
    /\ \A c, o \in McanClients : c # o /\ mcall[c].reg = mcall[o].reg => mcall[c].reg = M!Null
    /\ \A e \in BOOLEAN : \A p \in M!Places :
         filters[e].cb[p] # M!Null => filters[e].cb[p] \in 1..Len(request) /\ request[filters[e].cb[p]].ext = e

(* Until a filter is removed, what is at a place belongs together, and so   *)
(* does what a client is writing at its place.                              *)
PlaceSound(e, p) ==
    LET l == filters[e] IN
    /\ p >= l.count => l.cb[p] = M!Null
    /\ l.cb[p] = M!Null => l.arg[p] = M!Null
    /\ l.cb[p] # M!Null => l.elem[p] = request[l.cb[p]].elem /\ l.arg[p] \in {M!Null, l.cb[p]}
ClientSound(c) ==
    LET t == mcall[c] l == filters[t.ext] IN
    /\ t.pc \in {"fill", "program", "storeCb"} => l.cb[t.id] = M!Null
    /\ t.pc \in {"program", "storeCb"} => l.elem[t.id] = request[t.reg].elem
    /\ t.pc = "storeArg" => l.cb[t.id] = t.reg
    /\ \A e \in BOOLEAN : t.pc # M!ShrinkOf(e)
McanPlaces ==
    "removed" \notin mcanOdd =>
      /\ \A e \in BOOLEAN : \A p \in M!Places : PlaceSound(e, p)
      /\ \A c \in McanClients : ClientSound(c)

McanTold == M!McanDeliversToOwner /\ (~mcanIsr => told = M!Silent)

(* The entry of a registration, and when a call to remove it has still to   *)
(* take the entry out.                                                      *)
HasEntry(reg, id) ==
    LET q == request[reg] l == filters[q.ext] IN
    id < l.count /\ l.index[id] = id /\ l.elem[id] = q.elem /\ l.cb[id] = reg /\ l.arg[id] = reg
ToRemove(c) ==
    mcall[c].pc \in Removing /\ LET e == request[mcall[c].reg].ext IN
    mcall[c].pc \in {"remLock", "find ext", M!FindOf(e), M!ShrinkOf(e)}

(* A new entry is not one of theirs, and has what was written of it so far. *)
NewEntry(c) ==
    LET t == mcall[c] l == filters[t.ext] IN
    t.pc \in Adding =>
      /\ \A r \in registered : request[r.reg].ext = t.ext => r.id # t.id
      /\ \A o \in McanClients : ToRemove(o) /\ request[mcall[o].reg].ext = t.ext => mcall[o].id # t.id
      /\ t.pc # "fill" => l.index[t.id] = t.id /\ l.elem[t.id] = request[t.reg].elem
      /\ t.pc \in {"storeArg", "unlock"} => l.cb[t.id] = t.reg
      /\ t.pc = "unlock" => l.arg[t.id] = t.reg
IndexSound(e, p) ==
    p < filters[e].count /\ filters[e].index[p] # p =>
      \E c \in McanClients : mcall[c].pc = "fill" /\ mcall[c].ext = e /\ mcall[c].id = p
LastGoes(c) ==
    \A e \in BOOLEAN :
      mcall[c].pc = M!ShrinkOf(e) => request[mcall[c].reg].ext = e /\ mcall[c].id + 1 = filters[e].count

(* As long as nothing was moved and nothing was taken out of the other      *)
(* list, every registration, and every one that is going to be removed, has *)
(* its entry.                                                               *)
Kept ==
    /\ \A r \in registered : HasEntry(r.reg, r.id)
    /\ \A c \in McanClients : ToRemove(c) => HasEntry(mcall[c].reg, mcall[c].id)
    /\ \A c \in McanClients : NewEntry(c) /\ LastGoes(c)
    /\ \A e \in BOOLEAN : \A p \in M!Places : IndexSound(e, p)
McanKept == mcanOdd \cap {"moved", "otherList"} = {} => Kept

McanInv == McanType /\ McanCalls /\ McanPlaces /\ McanTold /\ McanKept

LEMMA PlaceIs ==
    ASSUME NEW p \in M!Places
    PROVE  p \in Nat
<1>1. p \in 0..(McanMaxExt + McanMaxStd)
  BY DEF M!Places
<1> QED BY <1>1, McanAssumption DEF McanAssumption

LEMMA ClientIs ==
    ASSUME McanType, NEW c \in McanClients
    PROVE  /\ mcall[c] \in CallRecs /\ mcall[c].pc \in McanLabels /\ mcall[c].reg \in M!Calls \cup {M!Null}
           /\ mcall[c].ext \in BOOLEAN /\ mcall[c].id \in M!Places /\ mcall[c].id \in Nat
<1>1. mcall[c] \in CallRecs
  BY DEF McanType
<1>2. /\ mcall[c].pc \in McanLabels /\ mcall[c].reg \in M!Calls \cup {M!Null} /\ mcall[c].id \in M!Places
  BY <1>1 DEF CallRecs
<1>3. mcall[c].ext \in BOOLEAN
  BY <1>1 DEF CallRecs
<1>4. mcall[c].id \in Nat
  BY <1>2, PlaceIs
<1> QED BY <1>1, <1>2, <1>3, <1>4

LEMMA ListIs ==
    ASSUME McanType, NEW e \in BOOLEAN
    PROVE  /\ filters[e] \in M!Lists
           /\ filters[e].count \in 0..(McanMaxExt + McanMaxStd) /\ filters[e].count \in Nat
           /\ filters[e].count <= M!Room(e)
           /\ filters[e].index \in [M!Places -> M!Places] /\ filters[e].elem \in [M!Places -> M!Elems]
           /\ filters[e].cb \in [M!Places -> M!Calls \cup {M!Null}]
           /\ filters[e].arg \in [M!Places -> M!Calls \cup {M!Null}]
<1>1. filters[e] \in M!Lists /\ filters[e].count <= M!Room(e)
  BY DEF McanType
<1>2. filters[e].count \in 0..(McanMaxExt + McanMaxStd)
  BY <1>1 DEF M!Lists
<1>3. filters[e].count \in Nat
  BY <1>2, McanAssumption DEF McanAssumption
<1> QED BY <1>1, <1>2, <1>3 DEF M!Lists

LEMMA AskedIs ==
    ASSUME McanType, NEW n \in 1..Len(request)
    PROVE  request[n].ext \in BOOLEAN /\ request[n].elem \in M!Elems
<1>1. request \in Seq([ext : BOOLEAN, elem : M!Elems])
  BY DEF McanType
<1>2. request[n] \in [ext : BOOLEAN, elem : M!Elems]
  BY <1>1, ElementOfSeq
<1>3. request[n].ext \in BOOLEAN
  BY <1>2
<1> QED BY <1>2, <1>3

(* A client that goes to another place of the driver.                       *)
LEMMA ClientMoves ==
    ASSUME McanType, NEW c \in McanClients, NEW l \in McanLabels, M!Goto(c, l)
    PROVE  /\ mcall' \in [McanClients -> CallRecs]
           /\ mcall'[c].pc = l /\ mcall'[c].reg = mcall[c].reg /\ mcall'[c].ext = mcall[c].ext
           /\ mcall'[c].id = mcall[c].id
           /\ \A o \in McanClients : o # c => mcall'[o] = mcall[o]
<1> DEFINE rec == [mcall[c] EXCEPT !.pc = l]
<1>1. /\ rec \in CallRecs /\ rec.pc = l /\ rec.reg = mcall[c].reg /\ rec.ext = mcall[c].ext
      /\ rec.id = mcall[c].id
  BY ClientIs DEF CallRecs
<1>2. mcall' = [mcall EXCEPT ![c] = rec] /\ mcall \in [McanClients -> CallRecs]
  BY DEF M!Goto, McanType
<1> HIDE DEF rec
<1> QED BY <1>1, <1>2

LEMMA ClientSet ==
    ASSUME McanType, NEW c \in McanClients, NEW rec \in CallRecs, mcall' = [mcall EXCEPT ![c] = rec]
    PROVE  /\ mcall' \in [McanClients -> CallRecs] /\ mcall'[c] = rec
           /\ \A o \in McanClients : o # c => mcall'[o] = mcall[o]
<1>1. mcall \in [McanClients -> CallRecs]
  BY DEF McanType
<1> QED BY <1>1

LEMMA ListSet ==
    ASSUME McanType, NEW e \in BOOLEAN, NEW rec \in M!Lists, rec.count <= M!Room(e),
           filters' = [filters EXCEPT ![e] = rec]
    PROVE  /\ filters' \in [BOOLEAN -> M!Lists] /\ filters'[e] = rec
           /\ \A x \in BOOLEAN : x # e => filters'[x] = filters[x]
           /\ \A x \in BOOLEAN : filters'[x].count <= M!Room(x)
<1>1. filters \in [BOOLEAN -> M!Lists]
  BY DEF McanType
<1>2. filters' \in [BOOLEAN -> M!Lists] /\ filters'[e] = rec
      /\ \A x \in BOOLEAN : x # e => filters'[x] = filters[x]
  BY <1>1
<1>3. \A x \in BOOLEAN : filters'[x].count <= M!Room(x)
  <2> SUFFICES ASSUME NEW x \in BOOLEAN PROVE filters'[x].count <= M!Room(x)
    OBVIOUS
  <2>1. CASE x = e
    BY <1>2, <2>1
  <2>2. CASE x # e
    BY <1>2, <2>2, ListIs
  <2> QED BY <2>1, <2>2
<1> QED BY <1>2, <1>3

(* What the writes to a list do.                                            *)
LEMMA ReserveDoes ==
    ASSUME McanType, NEW c \in McanClients, M!Reserve(c), filters[mcall[c].ext].count < M!Room(mcall[c].ext)
    PROVE  LET e == mcall[c].ext IN
           /\ filters' \in [BOOLEAN -> M!Lists] /\ \A x \in BOOLEAN : filters'[x].count <= M!Room(x)
           /\ filters'[e].count = filters[e].count + 1
           /\ filters'[e].index = filters[e].index /\ filters'[e].elem = filters[e].elem
           /\ filters'[e].cb = filters[e].cb /\ filters'[e].arg = filters[e].arg
           /\ \A x \in BOOLEAN : x # e => filters'[x] = filters[x]
           /\ mcall' \in [McanClients -> CallRecs] /\ mcall'[c].pc = "fill" /\ mcall'[c].id = filters[e].count
           /\ mcall'[c].reg = mcall[c].reg /\ mcall'[c].ext = e
           /\ \A o \in McanClients : o # c => mcall'[o] = mcall[o]
<1> DEFINE e == mcall[c].ext
           rec == [filters[e] EXCEPT !.count = @ + 1]
           crec == [mcall[c] EXCEPT !.pc = "fill", !.id = filters[e].count]
<1>0. e \in BOOLEAN
  BY ClientIs
<1>1. filters' = [filters EXCEPT ![e] = rec]
  BY DEF M!Reserve
<1>2. mcall' = [mcall EXCEPT ![c] = crec]
  BY DEF M!Reserve
<1>3. filters[e].count < M!Room(e)
  OBVIOUS
<1>4. filters[e] \in M!Lists /\ filters[e].count \in Nat
  BY <1>0, ListIs
<1>5. filters[e].count + 1 \in 0..(McanMaxExt + McanMaxStd) /\ filters[e].count + 1 <= M!Room(e)
      /\ filters[e].count \in M!Places
  BY <1>0, <1>3, <1>4, McanAssumption DEF M!Room, M!Places, McanAssumption
<1>6. /\ rec \in M!Lists /\ rec.count = filters[e].count + 1 /\ rec.index = filters[e].index
      /\ rec.elem = filters[e].elem /\ rec.cb = filters[e].cb /\ rec.arg = filters[e].arg
  BY <1>4, <1>5 DEF M!Lists
<1>7. /\ crec \in CallRecs /\ crec.pc = "fill" /\ crec.id = filters[e].count /\ crec.reg = mcall[c].reg
      /\ crec.ext = e
  BY <1>5, ClientIs DEF CallRecs, McanLabels
<1> HIDE DEF rec, crec, e
<1>8. /\ filters' \in [BOOLEAN -> M!Lists] /\ \A x \in BOOLEAN : filters'[x].count <= M!Room(x)
      /\ filters'[e] = rec /\ \A x \in BOOLEAN : x # e => filters'[x] = filters[x]
  BY <1>0, <1>1, <1>5, <1>6, ListSet
<1>9. /\ mcall' \in [McanClients -> CallRecs] /\ mcall'[c] = crec
      /\ \A o \in McanClients : o # c => mcall'[o] = mcall[o]
  BY <1>2, <1>7, ClientSet
<1> QED BY <1>6, <1>7, <1>8, <1>9 DEF e

(* A list keeps its length.                                                 *)
Rewrites(e) ==
    /\ filters' \in [BOOLEAN -> M!Lists] /\ \A x \in BOOLEAN : filters'[x].count <= M!Room(x)
    /\ filters'[e].count = filters[e].count
    /\ \A x \in BOOLEAN : x # e => filters'[x] = filters[x]

LEMMA RewriteIs ==
    ASSUME McanType, NEW e \in BOOLEAN, NEW rec \in M!Lists, rec.count = filters[e].count,
           filters' = [filters EXCEPT ![e] = rec]
    PROVE  Rewrites(e) /\ filters'[e] = rec
<1>1. rec.count <= M!Room(e)
  BY ListIs
<1> QED BY <1>1, ListSet DEF Rewrites

LEMMA FillDoes ==
    ASSUME McanType, NEW c \in McanClients, M!Fill(c), mcall[c].reg \in 1..Len(request)
    PROVE  LET e == mcall[c].ext i0 == mcall[c].id IN
           /\ Rewrites(e) /\ filters'[e].cb = filters[e].cb /\ filters'[e].arg = filters[e].arg
           /\ filters'[e].index[i0] = i0 /\ filters'[e].elem[i0] = request[mcall[c].reg].elem
           /\ \A p \in M!Places : p # i0 => filters'[e].index[p] = filters[e].index[p]
                                           /\ filters'[e].elem[p] = filters[e].elem[p]
<1> DEFINE e == mcall[c].ext
           i0 == mcall[c].id
           ix == [filters[e].index EXCEPT ![i0] = i0]
           el == [filters[e].elem EXCEPT ![i0] = request[mcall[c].reg].elem]
           rec == [filters[e] EXCEPT !.index = ix, !.elem = el]
<1>0. e \in BOOLEAN /\ i0 \in M!Places
  BY ClientIs
<1>1. filters' = [filters EXCEPT ![e] = rec]
  BY DEF M!Fill
<1>2. request[mcall[c].reg].elem \in M!Elems
  BY AskedIs
<1>3. /\ ix \in [M!Places -> M!Places] /\ ix[i0] = i0 /\ el \in [M!Places -> M!Elems]
      /\ el[i0] = request[mcall[c].reg].elem
      /\ \A p \in M!Places : p # i0 => ix[p] = filters[e].index[p] /\ el[p] = filters[e].elem[p]
  BY <1>0, <1>2, ListIs
<1> HIDE DEF ix, el
<1>4. rec \in M!Lists /\ rec.count = filters[e].count /\ rec.index = ix /\ rec.elem = el
      /\ rec.cb = filters[e].cb /\ rec.arg = filters[e].arg
  BY <1>0, <1>3, ListIs DEF M!Lists
<1> HIDE DEF rec, e, i0
<1>5. Rewrites(e) /\ filters'[e] = rec
  BY <1>0, <1>1, <1>4, RewriteIs
<1> QED BY <1>3, <1>4, <1>5 DEF e, i0

LEMMA StoreCbDoes ==
    ASSUME McanType, NEW c \in McanClients, M!StoreCb(c)
    PROVE  LET e == mcall[c].ext i0 == mcall[c].id IN
           /\ Rewrites(e) /\ filters'[e].index = filters[e].index /\ filters'[e].elem = filters[e].elem
           /\ filters'[e].arg = filters[e].arg /\ filters'[e].cb[i0] = mcall[c].reg
           /\ \A p \in M!Places : p # i0 => filters'[e].cb[p] = filters[e].cb[p]
<1> DEFINE e == mcall[c].ext
           i0 == mcall[c].id
           cb == [filters[e].cb EXCEPT ![i0] = mcall[c].reg]
           rec == [filters[e] EXCEPT !.cb = cb]
<1>0. e \in BOOLEAN /\ i0 \in M!Places /\ mcall[c].reg \in M!Calls \cup {M!Null}
  BY ClientIs
<1>1. filters' = [filters EXCEPT ![e] = rec]
  BY DEF M!StoreCb
<1>3. /\ cb \in [M!Places -> M!Calls \cup {M!Null}] /\ cb[i0] = mcall[c].reg
      /\ \A p \in M!Places : p # i0 => cb[p] = filters[e].cb[p]
  BY <1>0, ListIs
<1> HIDE DEF cb
<1>4. rec \in M!Lists /\ rec.count = filters[e].count /\ rec.index = filters[e].index
      /\ rec.elem = filters[e].elem /\ rec.cb = cb /\ rec.arg = filters[e].arg
  BY <1>0, <1>3, ListIs DEF M!Lists
<1> HIDE DEF rec, e, i0
<1>5. Rewrites(e) /\ filters'[e] = rec
  BY <1>0, <1>1, <1>4, RewriteIs
<1> QED BY <1>3, <1>4, <1>5 DEF e, i0

LEMMA StoreArgDoes ==
    ASSUME McanType, NEW c \in McanClients, M!StoreArg(c)
    PROVE  LET e == mcall[c].ext i0 == mcall[c].id IN
           /\ Rewrites(e) /\ filters'[e].index = filters[e].index /\ filters'[e].elem = filters[e].elem
           /\ filters'[e].cb = filters[e].cb /\ filters'[e].arg[i0] = mcall[c].reg
           /\ \A p \in M!Places : p # i0 => filters'[e].arg[p] = filters[e].arg[p]
<1> DEFINE e == mcall[c].ext
           i0 == mcall[c].id
           arg == [filters[e].arg EXCEPT ![i0] = mcall[c].reg]
           rec == [filters[e] EXCEPT !.arg = arg]
<1>0. e \in BOOLEAN /\ i0 \in M!Places /\ mcall[c].reg \in M!Calls \cup {M!Null}
  BY ClientIs
<1>1. filters' = [filters EXCEPT ![e] = rec]
  BY DEF M!StoreArg
<1>3. /\ arg \in [M!Places -> M!Calls \cup {M!Null}] /\ arg[i0] = mcall[c].reg
      /\ \A p \in M!Places : p # i0 => arg[p] = filters[e].arg[p]
  BY <1>0, ListIs
<1> HIDE DEF arg
<1>4. rec \in M!Lists /\ rec.count = filters[e].count /\ rec.index = filters[e].index
      /\ rec.elem = filters[e].elem /\ rec.cb = filters[e].cb /\ rec.arg = arg
  BY <1>0, <1>3, ListIs DEF M!Lists
<1> HIDE DEF rec, e, i0
<1>5. Rewrites(e) /\ filters'[e] = rec
  BY <1>0, <1>1, <1>4, RewriteIs
<1> QED BY <1>3, <1>4, <1>5 DEF e, i0

(* Where Find looks, and what it finds.                                     *)
Hits(c, e)  == {p \in M!Places : p < filters[e].count /\ filters[e].index[p] = mcall[c].id}
Found(c, e) == {p \in Hits(c, e) : \A q \in Hits(c, e) : p <= q}

LEMMA FindDoes ==
    ASSUME McanType, NEW c \in McanClients, NEW e \in BOOLEAN, M!Find(c, e)
    PROVE  LET at0 == Found(c, e) last == filters[e].count - 1 IN
           /\ Rewrites(e) /\ filters'[e].cb = filters[e].cb /\ filters'[e].arg = filters[e].arg
           /\ \A p \in M!Places :
                /\ filters'[e].index[p] = IF p \in at0 THEN filters[e].index[last] ELSE filters[e].index[p]
                /\ filters'[e].elem[p] = IF p \in at0 THEN filters[e].elem[last] ELSE filters[e].elem[p]
           /\ at0 # {} => filters[e].count > 0 /\ last \in M!Places
           /\ M!Goto(c, IF at0 = {} THEN M!NextOf(e) ELSE M!ShrinkOf(e))
           /\ mcanOdd \subseteq mcanOdd' /\ mcanOdd' \subseteq M!Oddities
           /\ at0 # {} => /\ "removed" \in mcanOdd' /\ (at0 # {last} => "moved" \in mcanOdd')
                          /\ (request[mcall[c].reg].ext # e => "otherList" \in mcanOdd')
<1> DEFINE at0 == Found(c, e)
           last == filters[e].count - 1
           ix == [p \in M!Places |-> IF p \in at0 THEN filters[e].index[last] ELSE filters[e].index[p]]
           el == [p \in M!Places |-> IF p \in at0 THEN filters[e].elem[last] ELSE filters[e].elem[p]]
           rec == [filters[e] EXCEPT !.index = ix, !.elem = el]
<1>0. filters[e].count \in Nat /\ filters[e].count <= M!Room(e)
  BY ListIs
<1>1. filters' = [filters EXCEPT ![e] = rec]
  BY DEF M!Find, Found, Hits
<1>2. at0 # {} => filters[e].count > 0 /\ last \in M!Places
  <2> SUFFICES ASSUME NEW p \in at0 PROVE filters[e].count > 0 /\ last \in M!Places
    OBVIOUS
  <2>1. p \in Nat /\ p < filters[e].count
    BY PlaceIs DEF Found, Hits
  <2>2. last \in 0..(McanMaxExt + McanMaxStd) /\ last < M!Room(e)
    BY <1>0, <2>1, ListIs, McanAssumption DEF M!Room, McanAssumption
  <2> QED BY <1>0, <2>1, <2>2 DEF M!Places, M!Room
<1>3. /\ ix \in [M!Places -> M!Places] /\ el \in [M!Places -> M!Elems]
  BY <1>2, ListIs
<1>4. M!Goto(c, IF at0 = {} THEN M!NextOf(e) ELSE M!ShrinkOf(e))
  BY DEF M!Find, Found, Hits
<1>5. mcanOdd' = mcanOdd \cup {o \in M!Oddities : at0 # {} /\
                        \/ o = "removed"
                        \/ o = "moved" /\ at0 # {last}
                        \/ o = "otherList" /\ request[mcall[c].reg].ext # e}
  BY DEF M!Find, Found, Hits
<1>6. /\ mcanOdd \subseteq mcanOdd' /\ mcanOdd' \subseteq M!Oddities
      /\ at0 # {} => /\ "removed" \in mcanOdd' /\ (at0 # {last} => "moved" \in mcanOdd')
                     /\ (request[mcall[c].reg].ext # e => "otherList" \in mcanOdd')
  <2> HIDE DEF at0, last
  <2>1. mcanOdd \subseteq M!Oddities
    BY DEF McanType
  <2> QED BY <1>5, <2>1 DEF M!Oddities
<1>7. \A p \in M!Places :
        /\ ix[p] = IF p \in at0 THEN filters[e].index[last] ELSE filters[e].index[p]
        /\ el[p] = IF p \in at0 THEN filters[e].elem[last] ELSE filters[e].elem[p]
  OBVIOUS
<1> HIDE DEF ix, el
<1>8. rec \in M!Lists /\ rec.count = filters[e].count /\ rec.index = ix
      /\ rec.elem = el /\ rec.cb = filters[e].cb /\ rec.arg = filters[e].arg
  BY <1>3, ListIs DEF M!Lists
<1> HIDE DEF rec
<1>9. Rewrites(e) /\ filters'[e] = rec
  BY <1>1, <1>8, RewriteIs
<1> QED BY <1>2, <1>4, <1>6, <1>7, <1>8, <1>9

LEMMA ShrinkDoes ==
    ASSUME McanType, NEW c \in McanClients, NEW e \in BOOLEAN, M!Shrink(c, e)
    PROVE  /\ filters' \in [BOOLEAN -> M!Lists] /\ \A x \in BOOLEAN : filters'[x].count <= M!Room(x)
           /\ filters[e].count > 0 /\ filters'[e].count = filters[e].count - 1
           /\ filters'[e].index = filters[e].index /\ filters'[e].elem = filters[e].elem
           /\ filters'[e].cb = filters[e].cb /\ filters'[e].arg = filters[e].arg
           /\ \A x \in BOOLEAN : x # e => filters'[x] = filters[x]
           /\ M!Goto(c, M!NextOf(e))
<1> DEFINE rec == [filters[e] EXCEPT !.count = @ - 1]
<1>1. filters' = [filters EXCEPT ![e] = rec] /\ M!Goto(c, M!NextOf(e)) /\ mcall[c].pc = M!ShrinkOf(e)
  BY DEF M!Shrink, M!Thread
<1>2. filters[e].count > 0
  BY <1>1 DEF McanType
<1>3. filters[e].count - 1 \in 0..(McanMaxExt + McanMaxStd) /\ filters[e].count - 1 <= M!Room(e)
  BY <1>2, ListIs, McanAssumption DEF M!Room, McanAssumption
<1>4. /\ rec \in M!Lists /\ rec.count = filters[e].count - 1 /\ rec.index = filters[e].index
      /\ rec.elem = filters[e].elem /\ rec.cb = filters[e].cb /\ rec.arg = filters[e].arg
  BY <1>3, ListIs DEF M!Lists
<1> HIDE DEF rec
<1>5. /\ filters' \in [BOOLEAN -> M!Lists] /\ \A x \in BOOLEAN : filters'[x].count <= M!Room(x)
      /\ filters'[e] = rec /\ \A x \in BOOLEAN : x # e => filters'[x] = filters[x]
  BY <1>1, <1>3, <1>4, ListSet
<1> QED BY <1>1, <1>2, <1>4, <1>5

LEMMA OneInside ==
    ASSUME McanType, NEW c \in McanClients, mcall[c].pc \in Inside
    PROVE  instMutex.owner = c /\ \A o \in McanClients : o # c => mcall[o].pc \notin Inside
<1> QED BY DEF McanType

LEMMA ShrinkIsInside ==
    ASSUME NEW e \in BOOLEAN
    PROVE  M!ShrinkOf(e) \in Inside \cap Removing /\ M!FindOf(e) \in Inside \cap Removing
           /\ M!NextOf(e) \in Inside \cap Removing /\ \A x \in BOOLEAN : M!NextOf(e) # M!ShrinkOf(x)
<1> QED BY DEF M!ShrinkOf, M!FindOf, M!NextOf, Inside, Removing, McanLabels

(* The type, for a step of one client.                                      *)
LEMMA TypeOfStep ==
    ASSUME McanType, NEW c \in McanClients, ~mcanIsr,
           filters' \in [BOOLEAN -> M!Lists], \A e \in BOOLEAN : filters'[e].count <= M!Room(e),
           instMutex' \in [owner : McanClients \cup {NoMcan}, depth : Nat],
           mcall' \in [McanClients -> CallRecs], \A o \in McanClients : o # c => mcall'[o] = mcall[o],
           told' = told, mcanIsr' = mcanIsr,
           (rxFifo' = rxFifo /\ newMsg' = newMsg) \/ (rxFifo' = <<>> /\ newMsg' = FALSE),
           request' \in Seq([ext : BOOLEAN, elem : M!Elems]), Len(request') <= McanAdds,
           registered' \subseteq [reg : M!Calls, by : McanClients, id : M!Places],
           mcanOdd' \subseteq M!Oddities,
           mcall'[c].pc \in Inside => instMutex'.owner = c,
           \A o \in McanClients : o # c /\ mcall[o].pc \in Inside =>
             instMutex'.owner = instMutex.owner /\ filters' = filters,
           \A e \in BOOLEAN : mcall'[c].pc = M!ShrinkOf(e) => filters'[e].count > 0
    PROVE  McanType'
<1>1. rxFifo' \in Seq(M!Frames) /\ Len(rxFifo') <= McanFifo /\ newMsg' \in BOOLEAN
  <2>1. CASE rxFifo' = rxFifo /\ newMsg' = newMsg
    BY <2>1 DEF McanType
  <2>2. CASE rxFifo' = <<>> /\ newMsg' = FALSE
    <3>1. <<>> \in Seq(M!Frames) /\ Len(<<>>) = 0 /\ McanFifo \in Nat
      BY McanAssumption DEF McanAssumption
    <3>2. rxFifo' \in Seq(M!Frames) /\ Len(rxFifo') <= McanFifo
      BY <2>2, <3>1
    <3>3. newMsg' \in BOOLEAN
      BY <2>2, Zenon
    <3> QED BY <3>2, <3>3
  <2> QED BY <2>1, <2>2
<1>2. mcanIsr' \in BOOLEAN /\ told' \in Answers
  BY DEF McanType
<1>3. newMsg' /\ ~mcanIsr' => rxFifo' # <<>>
  BY DEF McanType
<1>4. ASSUME NEW o \in McanClients
      PROVE  /\ mcall'[o].pc \in Inside => instMutex'.owner = o
             /\ \A e \in BOOLEAN : mcall'[o].pc = M!ShrinkOf(e) => filters'[e].count > 0
  <2>1. CASE o = c
    BY <2>1
  <2>2. CASE o # c
    <3>1. mcall'[o] = mcall[o] /\ (mcall[o].pc \in Inside => instMutex.owner = o)
          /\ \A e \in BOOLEAN : mcall[o].pc = M!ShrinkOf(e) => filters[e].count > 0
      BY <2>2 DEF McanType
    <3>2. \A e \in BOOLEAN : mcall[o].pc = M!ShrinkOf(e) => mcall[o].pc \in Inside
      BY ShrinkIsInside
    <3> QED BY <2>2, <3>1, <3>2
  <2> QED BY <2>1, <2>2
<1> QED BY <1>1, <1>2, <1>3, <1>4 DEF McanType

LEMMA McanTypeClient ==
    ASSUME McanType, McanCalls, NEW c \in McanClients, M!Add(c) \/ M!Remove(c)
    PROVE  McanType'
<1>a. /\ filters \in [BOOLEAN -> M!Lists] /\ (\A e \in BOOLEAN : filters[e].count <= M!Room(e))
      /\ instMutex \in [owner : McanClients \cup {NoMcan}, depth : Nat]
      /\ mcall \in [McanClients -> CallRecs]
      /\ request \in Seq([ext : BOOLEAN, elem : M!Elems]) /\ Len(request) <= McanAdds
      /\ registered \subseteq [reg : M!Calls, by : McanClients, id : M!Places]
      /\ mcanOdd \subseteq M!Oddities /\ NoMcan \notin McanClients
      /\ \A e \in BOOLEAN : mcall[c].pc = M!ShrinkOf(e) => filters[e].count > 0
  BY McanAssumption DEF McanType, McanAssumption
<1>b. M!Idle \in CallRecs /\ 0 \in M!Places
  BY McanAssumption DEF M!Idle, CallRecs, McanLabels, M!Null, M!Places, M!Room, McanAssumption
<1>c. \A e \in BOOLEAN : M!ShrinkOf(e) \notin {"idle", "lock", "reserve", "fill", "program", "storeCb",
         "storeArg", "unlock", "remLock", "remUnlock", "find ext", "find std"}
  BY DEF M!ShrinkOf
<1>o. mcall[c].pc \in Inside => instMutex.owner = c /\ \A o \in McanClients : o # c => mcall[o].pc \notin Inside
  BY OneInside
<1> USE DEF M!Kept, M!Same, M!McanInit, M!Thread
(* A step of c at l that leaves the mutex alone.                            *)
<1>1. ASSUME NEW l \in McanLabels, ~mcanIsr, mcall[c].pc \in Inside, M!Goto(c, l), l \in Inside,
             filters' \in [BOOLEAN -> M!Lists], \A e \in BOOLEAN : filters'[e].count <= M!Room(e),
             \A e \in BOOLEAN : l = M!ShrinkOf(e) => filters'[e].count > 0,
             mcanOdd' \subseteq M!Oddities, M!Kept, M!Same \/ M!McanInit,
             UNCHANGED <<instMutex, request, registered>>
      PROVE  McanType'
  <2>1. /\ mcall' \in [McanClients -> CallRecs] /\ mcall'[c].pc = l
        /\ \A o \in McanClients : o # c => mcall'[o] = mcall[o]
    BY <1>1, ClientMoves
  <2>2. /\ instMutex' = instMutex /\ instMutex.owner = c /\ told' = told /\ mcanIsr' = mcanIsr
        /\ request' = request /\ registered' = registered
    BY <1>1, <1>o
  <2>3. (rxFifo' = rxFifo /\ newMsg' = newMsg) \/ (rxFifo' = <<>> /\ newMsg' = FALSE)
    BY <1>1
  <2> QED BY <1>a, <1>o, <1>1, <2>1, <2>2, <2>3, TypeOfStep
(* A step of c that leaves the driver, with or without unlocking.           *)
<1>2. ASSUME ~mcanIsr, mcall[c].pc \in Inside, mcall' = [mcall EXCEPT ![c] = M!Idle],
             M!Unlock \/ UNCHANGED instMutex, M!Kept, M!Same, UNCHANGED <<filters, request, mcanOdd>>,
             registered' \subseteq [reg : M!Calls, by : McanClients, id : M!Places]
      PROVE  McanType'
  <2>1. /\ mcall' \in [McanClients -> CallRecs] /\ mcall'[c] = M!Idle
        /\ \A o \in McanClients : o # c => mcall'[o] = mcall[o]
    BY <1>2, <1>b, ClientSet
  <2>2. mcall'[c].pc = "idle"
    BY <2>1 DEF M!Idle
  <2>3. instMutex' \in [owner : McanClients \cup {NoMcan}, depth : Nat]
    <3>1. CASE M!Unlock
      BY <1>a, <3>1 DEF M!Unlock
    <3> QED BY <1>2, <1>a, <3>1
  <2>4. told' = told /\ mcanIsr' = mcanIsr /\ rxFifo' = rxFifo /\ newMsg' = newMsg
        /\ filters' = filters /\ request' = request /\ mcanOdd' = mcanOdd
    BY <1>2
  <2>5. mcall'[c].pc \notin Inside
    BY <2>2 DEF Inside
  <2> QED BY <1>a, <1>c, <1>o, <1>2, <2>1, <2>2, <2>3, <2>4, <2>5, TypeOfStep
(* A step of c that takes the mutex.                                        *)
<1>3. ASSUME NEW l \in McanLabels, ~mcanIsr, M!Goto(c, l), M!Lock(c), \A e \in BOOLEAN : l # M!ShrinkOf(e),
             M!Kept, M!Same, UNCHANGED <<filters, request, registered, mcanOdd>>
      PROVE  McanType'
  <2>1. /\ mcall' \in [McanClients -> CallRecs] /\ mcall'[c].pc = l
        /\ \A o \in McanClients : o # c => mcall'[o] = mcall[o]
    BY <1>3, ClientMoves
  <2>2. instMutex' \in [owner : McanClients \cup {NoMcan}, depth : Nat] /\ instMutex'.owner = c
    BY <1>3, <1>a DEF M!Lock
  <2>3. \A o \in McanClients : o # c => mcall[o].pc \notin Inside
    BY <1>3, <1>a DEF M!Lock, McanType
  <2>4. told' = told /\ mcanIsr' = mcanIsr /\ rxFifo' = rxFifo /\ newMsg' = newMsg
        /\ filters' = filters /\ request' = request /\ mcanOdd' = mcanOdd /\ registered' = registered
    BY <1>3
  <2> QED BY <1>a, <1>3, <2>1, <2>2, <2>3, <2>4, TypeOfStep
(* A step of c that starts a call.                                          *)
<1>4. ASSUME NEW rec \in CallRecs, rec.pc \in {"lock", "remLock"}, mcall' = [mcall EXCEPT ![c] = rec],
             ~mcanIsr, M!Kept, M!Same, UNCHANGED <<filters, instMutex, mcanOdd>>,
             request' \in Seq([ext : BOOLEAN, elem : M!Elems]), Len(request') <= McanAdds,
             registered' \subseteq registered
      PROVE  McanType'
  <2>1. /\ mcall' \in [McanClients -> CallRecs] /\ mcall'[c] = rec
        /\ \A o \in McanClients : o # c => mcall'[o] = mcall[o]
    BY <1>4, ClientSet
  <2>2. mcall'[c].pc \notin Inside /\ \A e \in BOOLEAN : mcall'[c].pc # M!ShrinkOf(e)
    BY <1>4, <1>c, <2>1 DEF Inside
  <2>3. told' = told /\ mcanIsr' = mcanIsr /\ rxFifo' = rxFifo /\ newMsg' = newMsg
        /\ filters' = filters /\ instMutex' = instMutex /\ mcanOdd' = mcanOdd
    BY <1>4
  <2> QED BY <1>a, <1>4, <2>1, <2>2, <2>3, TypeOfStep
<1> USE DEF McanLabels, Inside
<1>5. CASE M!AddCall(c)
  <2>1. PICK e \in BOOLEAN, m \in M!Elems :
          /\ request' = Append(request, [ext |-> e, elem |-> m])
          /\ mcall' = [mcall EXCEPT ![c] = [M!Idle EXCEPT !.pc = "lock", !.reg = Len(request'), !.ext = e]]
    BY <1>5 DEF M!AddCall
  <2>2. request' \in Seq([ext : BOOLEAN, elem : M!Elems]) /\ Len(request') = Len(request) + 1
    BY <1>a, <2>1, AppendProperties
  <2>3. Len(request) < McanAdds /\ Len(request) \in Nat
    BY <1>5, <1>a, LenProperties DEF M!AddCall
  <2>4. Len(request') \in M!Calls /\ Len(request') <= McanAdds
    BY <2>2, <2>3, McanAssumption DEF M!Calls, McanAssumption
  <2> DEFINE rec == [M!Idle EXCEPT !.pc = "lock", !.reg = Len(request'), !.ext = e]
  <2>5. rec \in CallRecs /\ rec.pc = "lock"
    BY <1>b, <2>4 DEF CallRecs, M!Idle
  <2> HIDE DEF rec
  <2>6. mcall' = [mcall EXCEPT ![c] = rec]
    BY <2>1 DEF rec
  <2> QED BY <1>4, <1>5, <2>2, <2>4, <2>5, <2>6 DEF M!AddCall
<1>6. CASE M!AddLock(c)
  BY <1>3, <1>6, <1>c DEF M!AddLock
<1>7. CASE M!Reserve(c)
  <2>1. CASE filters[mcall[c].ext].count < M!Room(mcall[c].ext)
    <3>1. /\ filters' \in [BOOLEAN -> M!Lists] /\ \A x \in BOOLEAN : filters'[x].count <= M!Room(x)
          /\ mcall' \in [McanClients -> CallRecs] /\ mcall'[c].pc = "fill"
          /\ \A o \in McanClients : o # c => mcall'[o] = mcall[o]
      BY <1>7, <2>1, ReserveDoes
    <3>2. /\ told' = told /\ mcanIsr' = mcanIsr /\ rxFifo' = rxFifo /\ newMsg' = newMsg /\ ~mcanIsr
          /\ instMutex' = instMutex /\ request' = request /\ mcanOdd' = mcanOdd /\ registered' = registered
          /\ mcall[c].pc \in Inside
      BY <1>7 DEF M!Reserve
    <3> QED BY <1>a, <1>c, <1>o, <3>1, <3>2, TypeOfStep
  <2>2. CASE ~(filters[mcall[c].ext].count < M!Room(mcall[c].ext))
    BY <1>2, <1>7, <1>a, <2>2 DEF M!Reserve
  <2> QED BY <2>1, <2>2
<1>8. CASE M!Fill(c)
  <2>1. mcall[c].reg \in 1..Len(request)
    BY <1>8 DEF M!Fill, McanCalls, Adding
  <2>2. Rewrites(mcall[c].ext)
    BY <1>8, <2>1, FillDoes
  <2> QED BY <1>1, <1>8, <1>a, <1>c, <2>2 DEF M!Fill, Rewrites
<1>9. CASE M!Program(c)
  BY <1>1, <1>9, <1>a, <1>c DEF M!Program
<1>10. CASE M!StoreCb(c)
  <2>1. Rewrites(mcall[c].ext)
    BY <1>10, StoreCbDoes
  <2> QED BY <1>1, <1>10, <1>a, <1>c, <2>1 DEF M!StoreCb, Rewrites
<1>11. CASE M!StoreArg(c)
  <2>1. Rewrites(mcall[c].ext)
    BY <1>11, StoreArgDoes
  <2> QED BY <1>1, <1>11, <1>a, <1>c, <2>1 DEF M!StoreArg, Rewrites
<1>12. CASE M!AddReturn(c)
  <2>1. mcall[c].reg \in 1..Len(request)
    BY <1>12 DEF M!AddReturn, McanCalls
  <2>2. mcall[c].reg \in M!Calls /\ mcall[c].id \in M!Places
    <3>1. mcall[c].reg \in M!Calls \cup {M!Null} /\ mcall[c].id \in M!Places
      BY ClientIs
    <3>2. mcall[c].reg # M!Null
      BY <2>1 DEF M!Null
    <3> QED BY <3>1, <3>2
  <2>3. registered' \subseteq [reg : M!Calls, by : McanClients, id : M!Places]
    BY <1>12, <1>a, <2>2 DEF M!AddReturn
  <2> QED BY <1>2, <1>12, <2>3 DEF M!AddReturn
<1>13. CASE M!RemoveCall(c)
  <2>1. PICK r \in registered :
          /\ registered' = registered \ {r}
          /\ mcall' = [mcall EXCEPT ![c] = [M!Idle EXCEPT !.pc = "remLock", !.reg = r.reg, !.id = r.id]]
    BY <1>13 DEF M!RemoveCall
  <2>2. r.reg \in M!Calls /\ r.id \in M!Places
    BY <1>a, <2>1
  <2> DEFINE rec == [M!Idle EXCEPT !.pc = "remLock", !.reg = r.reg, !.id = r.id]
  <2>5. rec \in CallRecs /\ rec.pc = "remLock"
    BY <1>b, <2>2 DEF CallRecs, M!Idle
  <2> HIDE DEF rec
  <2>6. mcall' = [mcall EXCEPT ![c] = rec]
    BY <2>1 DEF rec
  <2> QED BY <1>4, <1>13, <1>a, <2>1, <2>5, <2>6 DEF M!RemoveCall
<1>14. CASE M!RemoveLock(c)
  BY <1>3, <1>14, <1>c DEF M!RemoveLock
<1>15. CASE M!RemoveReturn(c)
  BY <1>2, <1>15, <1>a DEF M!RemoveReturn
<1>16. ASSUME NEW e \in BOOLEAN, M!Find(c, e)
       PROVE  McanType'
  <2> DEFINE l == IF Found(c, e) = {} THEN M!NextOf(e) ELSE M!ShrinkOf(e)
  <2>1. /\ Rewrites(e) /\ (Found(c, e) # {} => filters[e].count > 0)
        /\ M!Goto(c, l) /\ mcanOdd' \subseteq M!Oddities
    BY <1>16, FindDoes
  <2>2. l \in McanLabels /\ l \in Inside /\ mcall[c].pc \in Inside
    BY <1>16, ShrinkIsInside DEF M!Find
  <2>3. \A x \in BOOLEAN : l = M!ShrinkOf(x) => filters'[x].count > 0
    <3> SUFFICES ASSUME NEW x \in BOOLEAN, l = M!ShrinkOf(x) PROVE filters'[x].count > 0
      OBVIOUS
    <3>1. Found(c, e) # {} /\ x = e
      BY ShrinkIsInside DEF M!ShrinkOf
    <3> QED BY <2>1, <3>1 DEF Rewrites
  <2> HIDE DEF l
  <2> QED BY <1>1, <1>16, <2>1, <2>2, <2>3 DEF M!Find, Rewrites
<1>17. ASSUME NEW e \in BOOLEAN, M!Shrink(c, e)
       PROVE  McanType'
  <2>1. /\ filters' \in [BOOLEAN -> M!Lists] /\ \A x \in BOOLEAN : filters'[x].count <= M!Room(x)
        /\ M!Goto(c, M!NextOf(e))
    BY <1>17, ShrinkDoes
  <2>2. M!NextOf(e) \in Inside /\ mcall[c].pc \in Inside /\ M!NextOf(e) \in McanLabels
        /\ \A x \in BOOLEAN : M!NextOf(e) # M!ShrinkOf(x)
    BY <1>17, ShrinkIsInside DEF M!Shrink
  <2> QED BY <1>1, <1>17, <1>a, <2>1, <2>2 DEF M!Shrink
<1> QED BY <1>5, <1>6, <1>7, <1>8, <1>9, <1>10, <1>11, <1>12, <1>13, <1>14, <1>15, <1>16, <1>17
        DEF M!Add, M!Remove

LEMMA MessageIs ==
    ASSUME McanType, NEW f \in M!Frames
    PROVE  /\ M!Message(f) \in Answers
           /\ M!Message(f).cb # M!Null =>
                /\ ~M!Message(f).rtr /\ M!Message(f).ext = f.ext /\ M!Message(f).id = f.id
                /\ \E p \in M!Places :
                     /\ p < filters[f.ext].count /\ f.id \in filters[f.ext].elem[p]
                     /\ M!Message(f).cb = filters[f.ext].cb[p] /\ M!Message(f).arg = filters[f.ext].arg[p]
<1> DEFINE l == filters[f.ext]
           hits == {p \in M!FilterIndex(f) : ~f.rtr /\ l.cb[p] # M!Null}
<1>0. f.ext \in BOOLEAN /\ f.id \in McanIds /\ f.rtr \in BOOLEAN
  <2>1. f.id \in McanIds
    BY DEF M!Frames
  <2>2. f.ext \in BOOLEAN /\ f.rtr \in BOOLEAN
    BY DEF M!Frames
  <2> QED BY <2>1, <2>2
<1>1. \A p \in hits : p \in M!Places /\ p < l.count /\ f.id \in l.elem[p] /\ ~f.rtr /\ l.cb[p] # M!Null
  BY DEF M!FilterIndex
<1> HIDE DEF hits
<1>2. CASE hits = {}
  <2>1. M!Message(f) = M!Silent
    BY <1>2 DEF M!Message, hits
  <2>2. M!Silent \in Answers /\ M!Silent.cb = M!Null
    BY McanAssumption DEF M!Silent, Answers, McanAssumption
  <2> QED BY <2>1, <2>2
<1>3. CASE hits # {}
  <2> DEFINE p == CHOOSE q \in hits : TRUE
             m == [cb |-> l.cb[p], arg |-> l.arg[p], ext |-> f.ext, id |-> f.id, rtr |-> f.rtr]
  <2>1. p \in hits
    BY <1>3
  <2>2. M!Message(f) = m
    BY <1>3 DEF M!Message, hits
  <2> HIDE DEF p
  <2>3. l.cb[p] \in M!Calls \cup {M!Null} /\ l.arg[p] \in M!Calls \cup {M!Null}
    BY <1>0, <1>1, <2>1, ListIs
  <2> HIDE DEF l
  <2>4. m \in Answers
    BY <1>0, <2>3 DEF Answers
  <2>5. m.cb = l.cb[p] /\ m.arg = l.arg[p] /\ m.ext = f.ext /\ m.id = f.id /\ (m.rtr <=> f.rtr)
    BY <1>0
  <2> HIDE DEF m
  <2> QED BY <1>1, <2>1, <2>2, <2>4, <2>5 DEF l
<1> QED BY <1>2, <1>3

LEMMA McanTypeIsr ==
    ASSUME McanType, (\E f \in M!Frames : M!Arrives(f)) \/ M!IsrReads \/ M!IsrClears
    PROVE  McanType'
<1>1. /\ rxFifo \in Seq(M!Frames) /\ Len(rxFifo) <= McanFifo /\ Len(rxFifo) \in Nat
  BY DEF McanType
<1>2. CASE \E f \in M!Frames : M!Arrives(f)
  <2>1. PICK f \in M!Frames : M!Arrives(f)
    BY <1>2
  <2>2. rxFifo' \in Seq(M!Frames) /\ Len(rxFifo') = Len(rxFifo) + 1 /\ rxFifo' # <<>>
    BY <1>1, <2>1, AppendProperties DEF M!Arrives
  <2>3. Len(rxFifo') <= McanFifo
    BY <1>1, <2>1, <2>2, McanAssumption DEF M!Arrives, McanAssumption
  <2> QED BY <2>1, <2>2, <2>3 DEF M!Arrives, McanType
<1>3. CASE M!IsrReads
  <2>1. rxFifo # <<>>
    BY <1>3 DEF M!IsrReads, McanType
  <2>2. rxFifo' \in Seq(M!Frames) /\ Len(rxFifo') = Len(rxFifo) - 1 /\ Head(rxFifo) \in M!Frames
    BY <1>1, <1>3, <2>1, HeadTailProperties DEF M!IsrReads
  <2>3. told' \in Answers
    BY <1>3, <2>2, MessageIs DEF M!IsrReads
  <2>4. Len(rxFifo') <= McanFifo
    BY <1>1, <2>2, McanAssumption DEF McanAssumption
  <2> QED BY <1>3, <2>2, <2>3, <2>4 DEF M!IsrReads, McanType
<1>4. CASE M!IsrClears
  <2>1. M!Silent \in Answers
    BY McanAssumption DEF M!Silent, Answers, McanAssumption
  <2> QED BY <1>4, <2>1 DEF M!IsrClears, McanType
<1> QED BY <1>2, <1>3, <1>4

(* A step of one client that writes no callback and registers nothing.      *)
LEMMA CallsOfStep ==
    ASSUME McanType, McanCalls, NEW c \in McanClients,
           \A o \in McanClients : o # c => mcall'[o] = mcall[o],
           \A o \in McanClients : o # c /\ mcall[o].pc \in Inside => filters' = filters,
           request' = request, registered' = registered,
           mcall'[c].reg \in {mcall[c].reg, M!Null},
           IF mcall'[c].pc = "idle" THEN mcall'[c].reg = M!Null ELSE mcall'[c].reg = mcall[c].reg,
           mcall'[c].pc # "idle" => mcall[c].pc # "idle" /\ mcall'[c].ext = mcall[c].ext,
           mcall'[c].pc \in {"lock", "reserve"} \cup Adding => mcall[c].pc \in {"lock", "reserve"} \cup Adding,
           mcall'[c].pc \in Adding => mcall'[c].id + 1 = filters'[mcall'[c].ext].count,
           \A e \in BOOLEAN : \A p \in M!Places : filters'[e].cb[p] \in {filters[e].cb[p], M!Null}
    PROVE  McanCalls'
<1>0. Adding \subseteq Inside
  BY DEF Adding, Inside, McanLabels
<1>1. ASSUME NEW o \in McanClients
      PROVE  /\ IF mcall'[o].pc = "idle" THEN mcall'[o].reg = M!Null ELSE mcall'[o].reg \in 1..Len(request')
             /\ mcall'[o].pc \in {"lock", "reserve"} \cup Adding => request'[mcall'[o].reg].ext = mcall'[o].ext
             /\ mcall'[o].pc \in Adding => mcall'[o].id + 1 = filters'[mcall'[o].ext].count
  <2>1. /\ IF mcall[o].pc = "idle" THEN mcall[o].reg = M!Null ELSE mcall[o].reg \in 1..Len(request)
        /\ mcall[o].pc \in {"lock", "reserve"} \cup Adding => request[mcall[o].reg].ext = mcall[o].ext
        /\ mcall[o].pc \in Adding => mcall[o].id + 1 = filters[mcall[o].ext].count
    BY DEF McanCalls
  <2>2. CASE o = c
    <3>1. mcall'[c].pc \in {"lock", "reserve"} \cup Adding => mcall'[c].pc # "idle"
      BY DEF Adding
    <3> QED BY <2>1, <2>2, <3>1
  <2>3. CASE o # c
    BY <1>0, <2>1, <2>3
  <2> QED BY <2>2, <2>3
<1>2. \A o, q \in McanClients : o # q /\ mcall'[o].reg = mcall'[q].reg => mcall'[o].reg = M!Null
  <2>1. \A o \in McanClients : mcall'[o].reg \in {mcall[o].reg, M!Null}
    OBVIOUS
  <2>2. \A o, q \in McanClients : o # q /\ mcall[o].reg = mcall[q].reg => mcall[o].reg = M!Null
    BY DEF McanCalls
  <2> QED BY <2>1, <2>2
<1>3. \A o \in McanClients : \A r \in registered' : mcall'[o].reg # r.reg
  <2>1. \A r \in registered : r.reg # M!Null
    BY DEF McanType, M!Calls, M!Null
  <2>2. \A o \in McanClients : mcall'[o].reg \in {mcall[o].reg, M!Null}
    OBVIOUS
  <2> QED BY <2>1, <2>2 DEF McanCalls
<1>4. \A e \in BOOLEAN : \A p \in M!Places : filters'[e].cb[p] # M!Null =>
         filters'[e].cb[p] \in 1..Len(request') /\ request'[filters'[e].cb[p]].ext = e
  <2>1. \A e \in BOOLEAN : \A p \in M!Places : filters[e].cb[p] # M!Null =>
         filters[e].cb[p] \in 1..Len(request) /\ request[filters[e].cb[p]].ext = e
    BY DEF McanCalls
  <2> SUFFICES ASSUME NEW e \in BOOLEAN, NEW p \in M!Places, filters'[e].cb[p] # M!Null
               PROVE  filters'[e].cb[p] \in 1..Len(request) /\ request[filters'[e].cb[p]].ext = e
    OBVIOUS
  <2>2. filters'[e].cb[p] = filters[e].cb[p]
    OBVIOUS
  <2> QED BY <2>1, <2>2
<1>5. (\A r \in registered' : r.reg \in 1..Len(request')) /\ \A r, s \in registered' : r.reg = s.reg => r = s
  BY DEF McanCalls
<1> QED BY <1>1, <1>2, <1>3, <1>4, <1>5 DEF McanCalls

(* The step that stores the callback of c in its list.                      *)
LEMMA CallsOfStore ==
    ASSUME McanType, McanCalls, NEW c \in McanClients, M!StoreCb(c)
    PROVE  McanCalls'
<1> DEFINE e == mcall[c].ext
           i0 == mcall[c].id
<1>1. /\ Rewrites(e) /\ filters'[e].cb[i0] = mcall[c].reg
      /\ \A p \in M!Places : p # i0 => filters'[e].cb[p] = filters[e].cb[p]
  BY StoreCbDoes
<1>2. /\ mcall'[c].pc = "storeArg" /\ mcall'[c].reg = mcall[c].reg /\ mcall'[c].ext = e /\ mcall'[c].id = i0
      /\ \A o \in McanClients : o # c => mcall'[o] = mcall[o]
  BY ClientMoves DEF M!StoreCb, McanLabels
<1>3. /\ mcall[c].pc = "storeCb" /\ request' = request /\ registered' = registered
      /\ e \in BOOLEAN /\ i0 \in M!Places
  BY ClientIs DEF M!StoreCb, M!Thread
<1>4. /\ mcall[c].reg \in 1..Len(request) /\ request[mcall[c].reg].ext = e /\ i0 + 1 = filters[e].count
  BY <1>3 DEF McanCalls, Adding
<1>5. \A o \in McanClients : mcall'[o].reg = mcall[o].reg /\ mcall'[o].ext = mcall[o].ext /\ mcall'[o].id = mcall[o].id
  BY <1>2
<1>6. \A o \in McanClients : o # c => mcall[o].pc \notin Adding
  BY <1>3, OneInside DEF Inside, McanLabels, Adding
<1> HIDE DEF e, i0
<1>7. ASSUME NEW o \in McanClients
      PROVE  /\ IF mcall'[o].pc = "idle" THEN mcall'[o].reg = M!Null ELSE mcall'[o].reg \in 1..Len(request')
             /\ mcall'[o].pc \in {"lock", "reserve"} \cup Adding => request'[mcall'[o].reg].ext = mcall'[o].ext
             /\ mcall'[o].pc \in Adding => mcall'[o].id + 1 = filters'[mcall'[o].ext].count
  <2>1. CASE o = c
    BY <1>1, <1>2, <1>3, <1>4, <2>1 DEF Rewrites
  <2>2. CASE o # c
    BY <1>2, <1>3, <1>6, <2>2 DEF McanCalls
  <2> QED BY <2>1, <2>2
<1>8. \A x \in BOOLEAN : \A p \in M!Places : filters'[x].cb[p] # M!Null =>
         filters'[x].cb[p] \in 1..Len(request') /\ request'[filters'[x].cb[p]].ext = x
  <2> SUFFICES ASSUME NEW x \in BOOLEAN, NEW p \in M!Places, filters'[x].cb[p] # M!Null
               PROVE  filters'[x].cb[p] \in 1..Len(request) /\ request[filters'[x].cb[p]].ext = x
    BY <1>3
  <2>1. CASE x = e /\ p = i0
    BY <1>1, <1>4, <2>1
  <2>2. CASE ~(x = e /\ p = i0)
    <3>1. filters'[x].cb[p] = filters[x].cb[p]
      BY <1>1, <1>3, <2>2 DEF Rewrites
    <3> QED BY <3>1 DEF McanCalls
  <2> QED BY <2>1, <2>2
<1>9. \A o, q \in McanClients : o # q /\ mcall'[o].reg = mcall'[q].reg => mcall'[o].reg = M!Null
  BY <1>5 DEF McanCalls
<1>10. \A o \in McanClients : \A r \in registered' : mcall'[o].reg # r.reg
  BY <1>3, <1>5 DEF McanCalls
<1>11. (\A r \in registered' : r.reg \in 1..Len(request')) /\ \A r, s \in registered' : r.reg = s.reg => r = s
  BY <1>3 DEF McanCalls
<1> QED BY <1>7, <1>8, <1>9, <1>10, <1>11 DEF McanCalls

(* The step that makes a new request.                                       *)
LEMMA CallsOfAdd ==
    ASSUME McanType, McanCalls, NEW c \in McanClients, M!AddCall(c)
    PROVE  /\ McanCalls' /\ Len(request') = Len(request) + 1
           /\ \A n \in 1..Len(request) : request'[n] = request[n]
           /\ mcall'[c].pc = "lock" /\ \A o \in McanClients : o # c => mcall'[o] = mcall[o]
<1>1. PICK e \in BOOLEAN, m \in M!Elems :
        /\ request' = Append(request, [ext |-> e, elem |-> m])
        /\ mcall' = [mcall EXCEPT ![c] = [M!Idle EXCEPT !.pc = "lock", !.reg = Len(request'), !.ext = e]]
  BY DEF M!AddCall
<1>2. request \in Seq([ext : BOOLEAN, elem : M!Elems]) /\ Len(request) \in Nat
  BY DEF McanType
<1>3. /\ Len(request') = Len(request) + 1 /\ request'[Len(request')] = [ext |-> e, elem |-> m]
      /\ \A n \in 1..Len(request) : request'[n] = request[n]
  BY <1>1, <1>2, AppendProperties
<1> DEFINE rec == [M!Idle EXCEPT !.pc = "lock", !.reg = Len(request'), !.ext = e]
<1>4. rec.pc = "lock" /\ rec.reg = Len(request') /\ rec.ext = e
  BY DEF M!Idle
<1> HIDE DEF rec
<1>5. mcall' = [mcall EXCEPT ![c] = rec] /\ mcall \in [McanClients -> CallRecs]
  BY <1>1 DEF rec, McanType
<1>6. mcall'[c] = rec /\ \A o \in McanClients : o # c => mcall'[o] = mcall[o]
  BY <1>5
<1>7. filters' = filters /\ registered' = registered
  BY DEF M!AddCall
<1>8. \A o \in McanClients : mcall[o].reg = M!Null \/ mcall[o].reg \in 1..Len(request)
  BY DEF McanCalls
<1>9. request'[Len(request')].ext = e
  BY <1>3
<1>10. ASSUME NEW o \in McanClients
      PROVE  /\ IF mcall'[o].pc = "idle" THEN mcall'[o].reg = M!Null ELSE mcall'[o].reg \in 1..Len(request')
             /\ mcall'[o].pc \in {"lock", "reserve"} \cup Adding => request'[mcall'[o].reg].ext = mcall'[o].ext
             /\ mcall'[o].pc \in Adding => mcall'[o].id + 1 = filters'[mcall'[o].ext].count
  <2>1. CASE o = c
    BY <1>2, <1>3, <1>4, <1>6, <1>9, <2>1 DEF Adding
  <2>2. CASE o # c
    <3>1. /\ IF mcall[o].pc = "idle" THEN mcall[o].reg = M!Null ELSE mcall[o].reg \in 1..Len(request)
          /\ mcall[o].pc \in {"lock", "reserve"} \cup Adding => request[mcall[o].reg].ext = mcall[o].ext
          /\ mcall[o].pc \in Adding => mcall[o].id + 1 = filters[mcall[o].ext].count
      BY DEF McanCalls
    <3>2. mcall'[o] = mcall[o]
      BY <1>6, <2>2
    <3>3. mcall[o].pc \in {"lock", "reserve"} \cup Adding => mcall[o].pc # "idle"
      BY DEF Adding
    <3> QED BY <1>2, <1>3, <1>7, <3>1, <3>2, <3>3
  <2> QED BY <2>1, <2>2
<1>11. \A o, q \in McanClients : o # q /\ mcall'[o].reg = mcall'[q].reg => mcall'[o].reg = M!Null
  <2>1. \A o \in McanClients : mcall[o].reg # Len(request')
    BY <1>2, <1>3, <1>8 DEF M!Null
  <2>2. \A o, q \in McanClients : o # q /\ mcall[o].reg = mcall[q].reg => mcall[o].reg = M!Null
    BY DEF McanCalls
  <2> QED BY <1>4, <1>6, <2>1, <2>2
<1>12. \A r \in registered : r.reg \in 1..Len(request)
  BY DEF McanCalls
<1>13. \A o \in McanClients : \A r \in registered' : mcall'[o].reg # r.reg
  <2>1. \A r \in registered : r.reg # Len(request')
    BY <1>2, <1>3, <1>12
  <2>2. \A o \in McanClients : \A r \in registered : mcall[o].reg # r.reg
    BY DEF McanCalls
  <2> QED BY <1>4, <1>6, <1>7, <2>1, <2>2
<1>14. \A x \in BOOLEAN : \A p \in M!Places : filters'[x].cb[p] # M!Null =>
         filters'[x].cb[p] \in 1..Len(request') /\ request'[filters'[x].cb[p]].ext = x
  <2>1. \A x \in BOOLEAN : \A p \in M!Places : filters[x].cb[p] # M!Null =>
         filters[x].cb[p] \in 1..Len(request) /\ request[filters[x].cb[p]].ext = x
    BY DEF McanCalls
  <2> QED BY <1>2, <1>3, <1>7, <2>1
<1>15. (\A r \in registered' : r.reg \in 1..Len(request')) /\ \A r, s \in registered' : r.reg = s.reg => r = s
  <2>1. \A r, s \in registered : r.reg = s.reg => r = s
    BY DEF McanCalls
  <2> QED BY <1>2, <1>3, <1>7, <1>12, <2>1
<1> QED BY <1>3, <1>4, <1>6, <1>10, <1>11, <1>13, <1>14, <1>15 DEF McanCalls

LEMMA CallsOfReturn ==
    ASSUME McanType, McanCalls, NEW c \in McanClients, M!AddReturn(c)
    PROVE  /\ McanCalls' /\ mcall'[c] = M!Idle /\ \A o \in McanClients : o # c => mcall'[o] = mcall[o]
<1> DEFINE new == [reg |-> mcall[c].reg, by |-> c, id |-> mcall[c].id]
<1>1. /\ registered' = registered \cup {new} /\ mcall' = [mcall EXCEPT ![c] = M!Idle]
      /\ filters' = filters /\ request' = request /\ mcall[c].pc = "unlock"
  BY DEF M!AddReturn, M!Thread
<1>2. mcall'[c] = M!Idle /\ \A o \in McanClients : o # c => mcall'[o] = mcall[o]
  BY <1>1 DEF McanType
<1>3. M!Idle.pc = "idle" /\ M!Idle.reg = M!Null
  BY DEF M!Idle
<1>4. new.reg = mcall[c].reg /\ mcall[c].reg \in 1..Len(request) /\ mcall[c].reg # M!Null
  BY <1>1 DEF McanCalls, M!Null
<1> HIDE DEF new
<1>5. ASSUME NEW o \in McanClients
      PROVE  /\ IF mcall'[o].pc = "idle" THEN mcall'[o].reg = M!Null ELSE mcall'[o].reg \in 1..Len(request')
             /\ mcall'[o].pc \in {"lock", "reserve"} \cup Adding => request'[mcall'[o].reg].ext = mcall'[o].ext
             /\ mcall'[o].pc \in Adding => mcall'[o].id + 1 = filters'[mcall'[o].ext].count
  <2>1. CASE o = c
    BY <1>2, <1>3, <2>1 DEF Adding
  <2>2. CASE o # c
    BY <1>1, <1>2, <2>2 DEF McanCalls
  <2> QED BY <2>1, <2>2
<1>6. \A o, q \in McanClients : o # q /\ mcall[o].reg = mcall[q].reg => mcall[o].reg = M!Null
  BY DEF McanCalls
<1>7. \A o, q \in McanClients : o # q /\ mcall'[o].reg = mcall'[q].reg => mcall'[o].reg = M!Null
  BY <1>2, <1>3, <1>6
<1>8. \A o \in McanClients : \A r \in registered : mcall[o].reg # r.reg /\ r.reg # M!Null
  BY DEF McanCalls, McanType, M!Null, M!Calls
<1>9. \A o \in McanClients : \A r \in registered' : mcall'[o].reg # r.reg
  <2> SUFFICES ASSUME NEW o \in McanClients, NEW r \in registered' PROVE mcall'[o].reg # r.reg
    OBVIOUS
  <2>1. CASE o = c
    BY <1>1, <1>2, <1>3, <1>4, <1>8, <2>1
  <2>2. CASE o # c
    BY <1>1, <1>2, <1>4, <1>6, <1>8, <2>2
  <2> QED BY <2>1, <2>2
<1>10. \A x \in BOOLEAN : \A p \in M!Places : filters'[x].cb[p] # M!Null =>
         filters'[x].cb[p] \in 1..Len(request') /\ request'[filters'[x].cb[p]].ext = x
  BY <1>1 DEF McanCalls
<1>11. \A r \in registered' : r.reg \in 1..Len(request')
  <2>1. \A r \in registered : r.reg \in 1..Len(request)
    BY DEF McanCalls
  <2> QED BY <1>1, <1>4, <2>1
<1>12. \A r, s \in registered' : r.reg = s.reg => r = s
  <2>1. \A r, s \in registered : r.reg = s.reg => r = s
    BY DEF McanCalls
  <2>2. \A r \in registered : r.reg # new.reg
    BY <1>4, <1>8
  <2> QED BY <1>1, <2>1, <2>2
<1> QED BY <1>2, <1>5, <1>7, <1>9, <1>10, <1>11, <1>12 DEF McanCalls

LEMMA CallsOfRemove ==
    ASSUME McanType, McanCalls, NEW c \in McanClients, M!RemoveCall(c)
    PROVE  /\ McanCalls' /\ mcall'[c].pc = "remLock" /\ \A o \in McanClients : o # c => mcall'[o] = mcall[o]
           /\ \E r \in registered : /\ registered' = registered \ {r}
                                    /\ mcall'[c].reg = r.reg /\ mcall'[c].id = r.id
<1>1. PICK r0 \in registered :
        /\ registered' = registered \ {r0}
        /\ mcall' = [mcall EXCEPT ![c] = [M!Idle EXCEPT !.pc = "remLock", !.reg = r0.reg, !.id = r0.id]]
  BY DEF M!RemoveCall
<1> DEFINE rec == [M!Idle EXCEPT !.pc = "remLock", !.reg = r0.reg, !.id = r0.id]
<1>2. rec.pc = "remLock" /\ rec.reg = r0.reg /\ rec.id = r0.id
  BY DEF M!Idle
<1> HIDE DEF rec
<1>3. mcall' = [mcall EXCEPT ![c] = rec] /\ mcall \in [McanClients -> CallRecs]
  BY <1>1 DEF rec, McanType
<1>4. mcall'[c] = rec /\ \A o \in McanClients : o # c => mcall'[o] = mcall[o]
  BY <1>3
<1>5. filters' = filters /\ request' = request
  BY DEF M!RemoveCall
<1>6. r0.reg \in 1..Len(request) /\ \A r, s \in registered : r.reg = s.reg => r = s
  BY DEF McanCalls
<1>7. ASSUME NEW o \in McanClients
      PROVE  /\ IF mcall'[o].pc = "idle" THEN mcall'[o].reg = M!Null ELSE mcall'[o].reg \in 1..Len(request')
             /\ mcall'[o].pc \in {"lock", "reserve"} \cup Adding => request'[mcall'[o].reg].ext = mcall'[o].ext
             /\ mcall'[o].pc \in Adding => mcall'[o].id + 1 = filters'[mcall'[o].ext].count
  <2>1. CASE o = c
    BY <1>2, <1>4, <1>5, <1>6, <2>1 DEF Adding
  <2>2. CASE o # c
    BY <1>4, <1>5, <2>2 DEF McanCalls
  <2> QED BY <2>1, <2>2
<1>8. \A o, q \in McanClients : o # q /\ mcall[o].reg = mcall[q].reg => mcall[o].reg = M!Null
  BY DEF McanCalls
<1>9. \A o \in McanClients : \A r \in registered : mcall[o].reg # r.reg
  BY DEF McanCalls
<1>10. \A o, q \in McanClients : o # q /\ mcall'[o].reg = mcall'[q].reg => mcall'[o].reg = M!Null
  BY <1>2, <1>4, <1>8, <1>9
<1>11. \A o \in McanClients : \A r \in registered' : mcall'[o].reg # r.reg
  BY <1>1, <1>2, <1>4, <1>6, <1>9
<1>12. \A x \in BOOLEAN : \A p \in M!Places : filters'[x].cb[p] # M!Null =>
         filters'[x].cb[p] \in 1..Len(request') /\ request'[filters'[x].cb[p]].ext = x
  BY <1>5 DEF McanCalls
<1>13. (\A r \in registered' : r.reg \in 1..Len(request')) /\ \A r, s \in registered' : r.reg = s.reg => r = s
  BY <1>1, <1>5, <1>6 DEF McanCalls
<1> QED BY <1>1, <1>2, <1>4, <1>7, <1>10, <1>11, <1>12, <1>13 DEF McanCalls

LEMMA McanCallsClient ==
    ASSUME McanType, McanCalls, NEW c \in McanClients, M!Add(c) \/ M!Remove(c)
    PROVE  McanCalls'
<1>o. mcall[c].pc \in Inside => \A o \in McanClients : o # c => mcall[o].pc \notin Inside
  BY OneInside
<1>t. /\ mcall[c].pc \in {"lock", "reserve"} \cup Adding => request[mcall[c].reg].ext = mcall[c].ext
      /\ mcall[c].pc \in Adding => mcall[c].id + 1 = filters[mcall[c].ext].count
      /\ mcall[c].ext \in BOOLEAN /\ mcall \in [McanClients -> CallRecs]
  BY ClientIs DEF McanCalls, McanType
<1>i. M!Idle.pc = "idle" /\ M!Idle.reg = M!Null /\ "idle" \notin Adding
  BY DEF M!Idle, Adding
<1> USE DEF M!Thread
(* A step of c at l that keeps the callbacks and the registrations.         *)
<1>1. ASSUME NEW l \in McanLabels, M!Goto(c, l), l # "idle", mcall[c].pc # "idle",
             l \in {"lock", "reserve"} \cup Adding => mcall[c].pc \in {"lock", "reserve"} \cup Adding,
             l \in Adding => filters'[mcall[c].ext].count = mcall[c].id + 1,
             filters' = filters \/ mcall[c].pc \in Inside,
             \A e \in BOOLEAN : filters'[e].cb = filters[e].cb,
             request' = request, registered' = registered
      PROVE  McanCalls'
  <2>1. /\ mcall'[c].pc = l /\ mcall'[c].reg = mcall[c].reg /\ mcall'[c].ext = mcall[c].ext
        /\ mcall'[c].id = mcall[c].id /\ \A o \in McanClients : o # c => mcall'[o] = mcall[o]
    BY <1>1, ClientMoves
  <2>2. \A o \in McanClients : o # c /\ mcall[o].pc \in Inside => filters' = filters
    BY <1>1, <1>o
  <2>3. \A e \in BOOLEAN : \A p \in M!Places : filters'[e].cb[p] \in {filters[e].cb[p], M!Null}
    BY <1>1
  <2> QED BY <1>1, <2>1, <2>2, <2>3, CallsOfStep
(* A step of c that leaves the driver and registers nothing.                *)
<1>2. ASSUME mcall' = [mcall EXCEPT ![c] = M!Idle], filters' = filters, request' = request,
             registered' = registered
      PROVE  McanCalls'
  <2>1. mcall'[c] = M!Idle /\ \A o \in McanClients : o # c => mcall'[o] = mcall[o]
    BY <1>2, <1>t
  <2>2. \A e \in BOOLEAN : \A p \in M!Places : filters'[e].cb[p] \in {filters[e].cb[p], M!Null}
    BY <1>2
  <2>3. mcall'[c].pc \notin {"lock", "reserve"} \cup Adding
    BY <1>i, <2>1
  <2> QED BY <1>2, <1>i, <2>1, <2>2, <2>3, CallsOfStep
<1>5. CASE M!AddCall(c)
  BY <1>5, CallsOfAdd
<1>6. CASE M!AddLock(c)
  BY <1>1, <1>6 DEF M!AddLock, McanLabels, Adding
<1>7. CASE M!Reserve(c)
  <2>1. CASE filters[mcall[c].ext].count < M!Room(mcall[c].ext)
    <3>1. LET e == mcall[c].ext IN
          /\ filters'[e].count = filters[e].count + 1 /\ filters'[e].cb = filters[e].cb
          /\ \A x \in BOOLEAN : x # e => filters'[x] = filters[x]
          /\ mcall'[c].pc = "fill" /\ mcall'[c].id = filters[e].count
          /\ mcall'[c].reg = mcall[c].reg /\ mcall'[c].ext = e
          /\ \A o \in McanClients : o # c => mcall'[o] = mcall[o]
      BY <1>7, <2>1, ReserveDoes
    <3>2. mcall[c].pc = "reserve" /\ request' = request /\ registered' = registered /\ mcall[c].pc \in Inside
      BY <1>7 DEF M!Reserve, Inside, McanLabels
    <3>3. \A e \in BOOLEAN : \A p \in M!Places : filters'[e].cb[p] \in {filters[e].cb[p], M!Null}
      BY <3>1
    <3> QED BY <1>o, <3>1, <3>2, <3>3, CallsOfStep
  <2>2. CASE ~(filters[mcall[c].ext].count < M!Room(mcall[c].ext))
    BY <1>2, <1>7, <2>2 DEF M!Reserve
  <2> QED BY <2>1, <2>2
<1>8. CASE M!Fill(c)
  <2>1. mcall[c].reg \in 1..Len(request) /\ mcall[c].pc = "fill"
    BY <1>8 DEF M!Fill, McanCalls
  <2>2. Rewrites(mcall[c].ext) /\ filters'[mcall[c].ext].cb = filters[mcall[c].ext].cb
    BY <1>8, <2>1, FillDoes
  <2>3. \A e \in BOOLEAN : filters'[e].cb = filters[e].cb
    BY <2>2 DEF Rewrites
  <2> QED BY <1>1, <1>8, <1>t, <2>1, <2>2, <2>3 DEF M!Fill, Rewrites, Adding, McanLabels, Inside
<1>9. CASE M!Program(c)
  BY <1>1, <1>9, <1>t DEF M!Program, Adding, McanLabels, Inside
<1>10. CASE M!StoreCb(c)
  BY <1>10, CallsOfStore
<1>11. CASE M!StoreArg(c)
  <2>1. Rewrites(mcall[c].ext) /\ filters'[mcall[c].ext].cb = filters[mcall[c].ext].cb
    BY <1>11, StoreArgDoes
  <2>2. \A e \in BOOLEAN : filters'[e].cb = filters[e].cb
    BY <2>1 DEF Rewrites
  <2> QED BY <1>1, <1>11, <1>t, <2>1, <2>2 DEF M!StoreArg, Rewrites, Adding, McanLabels, Inside
<1>12. CASE M!AddReturn(c)
  BY <1>12, CallsOfReturn
<1>13. CASE M!RemoveCall(c)
  BY <1>13, CallsOfRemove
<1>14. CASE M!RemoveLock(c)
  BY <1>1, <1>14 DEF M!RemoveLock, McanLabels, Adding
<1>15. CASE M!RemoveReturn(c)
  BY <1>2, <1>15 DEF M!RemoveReturn
<1>16. ASSUME NEW e \in BOOLEAN, M!Find(c, e)
       PROVE  McanCalls'
  <2> DEFINE l == IF Found(c, e) = {} THEN M!NextOf(e) ELSE M!ShrinkOf(e)
  <2>1. /\ Rewrites(e) /\ filters'[e].cb = filters[e].cb /\ M!Goto(c, l)
        /\ request' = request /\ registered' = registered /\ mcall[c].pc = M!FindOf(e)
    BY <1>16, FindDoes DEF M!Find
  <2>2. l \in McanLabels /\ l \notin {"idle", "lock", "reserve"} \cup Adding /\ mcall[c].pc \in Inside
        /\ mcall[c].pc # "idle"
    BY <2>1 DEF M!FindOf, M!ShrinkOf, M!NextOf, McanLabels, Adding, Inside
  <2>3. \A x \in BOOLEAN : filters'[x].cb = filters[x].cb
    BY <2>1 DEF Rewrites
  <2> HIDE DEF l
  <2> QED BY <1>1, <2>1, <2>2, <2>3
<1>17. ASSUME NEW e \in BOOLEAN, M!Shrink(c, e)
       PROVE  McanCalls'
  <2>1. /\ filters'[e].cb = filters[e].cb /\ M!Goto(c, M!NextOf(e))
        /\ \A x \in BOOLEAN : x # e => filters'[x] = filters[x]
        /\ request' = request /\ registered' = registered /\ mcall[c].pc = M!ShrinkOf(e)
    BY <1>17, ShrinkDoes DEF M!Shrink
  <2>2. M!NextOf(e) \in McanLabels /\ M!NextOf(e) \notin {"idle", "lock", "reserve"} \cup Adding
        /\ mcall[c].pc \in Inside /\ mcall[c].pc # "idle"
    BY <2>1 DEF M!ShrinkOf, M!NextOf, McanLabels, Adding, Inside
  <2>3. \A x \in BOOLEAN : filters'[x].cb = filters[x].cb
    BY <2>1
  <2> QED BY <1>1, <2>1, <2>2, <2>3
<1> QED BY <1>5, <1>6, <1>7, <1>8, <1>9, <1>10, <1>11, <1>12, <1>13, <1>14, <1>15, <1>16, <1>17
        DEF M!Add, M!Remove

LEMMA McanCallsIsr ==
    ASSUME McanCalls, (\E f \in M!Frames : M!Arrives(f)) \/ M!IsrReads \/ M!IsrClears
    PROVE  McanCalls'
<1>1. filters' = filters /\ mcall' = mcall /\ request' = request /\ registered' = registered
  BY DEF M!Arrives, M!IsrReads, M!IsrClears
<1> QED BY <1>1 DEF McanCalls
-------------------------------------------------------------------------------
LEMMA McanPlacesClient ==
    ASSUME McanType, McanCalls, McanPlaces, NEW c \in McanClients, M!Add(c) \/ M!Remove(c)
    PROVE  McanPlaces'
<1> SUFFICES ASSUME "removed" \notin mcanOdd'
             PROVE  /\ \A e \in BOOLEAN : \A p \in M!Places : PlaceSound(e, p)'
                    /\ \A o \in McanClients : ClientSound(o)'
  BY DEF McanPlaces
<1>a. mcanOdd \subseteq mcanOdd'
  BY FindDoes DEF M!Add, M!Remove, M!AddCall, M!AddLock, M!Reserve, M!Fill, M!Program, M!StoreCb, M!StoreArg,
     M!AddReturn, M!RemoveCall, M!RemoveLock, M!RemoveReturn, M!Shrink
<1>b. /\ \A e \in BOOLEAN : \A p \in M!Places : PlaceSound(e, p)
      /\ \A o \in McanClients : ClientSound(o)
  BY <1>a DEF McanPlaces
<1>c. \A e \in BOOLEAN : \A p \in M!Places : filters[e].cb[p] # M!Null => filters[e].cb[p] \in 1..Len(request)
  BY DEF McanCalls
<1>d. \A o \in McanClients : mcall[o].pc # "idle" => mcall[o].reg \in 1..Len(request)
  BY DEF McanCalls
<1>e. mcall[c].ext \in BOOLEAN /\ mcall[c].id \in M!Places /\ mcall[c].id \in Nat
  BY ClientIs
<1>o. mcall[c].pc \in Inside => \A o \in McanClients : o # c => mcall[o].pc \notin Inside
  BY OneInside
<1>s. \A o \in McanClients : (\A e \in BOOLEAN : mcall[o].pc # M!ShrinkOf(e))
  BY <1>b DEF ClientSound
(* Another client is not disturbed.                                         *)
<1>1. ASSUME NEW o \in McanClients, o # c, mcall'[o] = mcall[o], filters' = filters \/ mcall[c].pc \in Inside,
             \A n \in 1..Len(request) : request'[n] = request[n]
      PROVE  ClientSound(o)'
  <2>1. CASE filters' = filters
    <3>1. mcall[o].pc \in {"program", "storeCb"} => request'[mcall[o].reg] = request[mcall[o].reg]
      BY <1>1, <1>d
    <3> QED BY <1>1, <1>b, <2>1, <3>1 DEF ClientSound
  <2>2. CASE mcall[c].pc \in Inside
    <3>1. mcall[o].pc \notin {"fill", "program", "storeCb", "storeArg"}
      BY <1>1, <1>o, <2>2 DEF Inside, McanLabels
    <3> QED BY <1>1, <1>s, <3>1 DEF ClientSound
  <2> QED BY <1>1, <2>1, <2>2
(* The places are not disturbed.                                            *)
<1>2. ASSUME NEW e \in BOOLEAN, NEW p \in M!Places, filters'[e] = filters[e],
             \A n \in 1..Len(request) : request'[n] = request[n]
      PROVE  PlaceSound(e, p)'
  <2>1. filters[e].cb[p] # M!Null => request'[filters[e].cb[p]] = request[filters[e].cb[p]]
    BY <1>2, <1>c
  <2> QED BY <1>2, <1>b, <2>1 DEF PlaceSound
<1> USE DEF M!Thread
(* A step of c to l that writes nothing.                                    *)
<1>3. ASSUME filters' = filters, \A n \in 1..Len(request) : request'[n] = request[n],
             \A o \in McanClients : o # c => mcall'[o] = mcall[o], ClientSound(c)'
      PROVE  /\ \A e \in BOOLEAN : \A p \in M!Places : PlaceSound(e, p)'
             /\ \A o \in McanClients : ClientSound(o)'
  BY <1>1, <1>2, <1>3
<1>4. ASSUME mcall'[c].pc \in {"idle", "lock", "reserve", "unlock", "remLock", "remUnlock", "find ext", "find std"}
      PROVE  ClientSound(c)'
  BY <1>4 DEF ClientSound, M!ShrinkOf
<1>5. CASE M!AddCall(c)
  <2>1. filters' = filters
    BY <1>5 DEF M!AddCall
  <2>2. /\ \A n \in 1..Len(request) : request'[n] = request[n]
        /\ mcall'[c].pc = "lock" /\ \A o \in McanClients : o # c => mcall'[o] = mcall[o]
    BY <1>5, CallsOfAdd
  <2> QED BY <1>3, <1>4, <2>1, <2>2
<1>6. CASE M!AddLock(c)
  <2>1. mcall'[c].pc = "reserve" /\ \A o \in McanClients : o # c => mcall'[o] = mcall[o]
    BY <1>6, ClientMoves DEF M!AddLock, McanLabels
  <2> QED BY <1>3, <1>4, <1>6, <2>1 DEF M!AddLock
<1>7. CASE M!Reserve(c)
  <2>0. mcall[c].pc \in Inside /\ request' = request
    BY <1>7 DEF M!Reserve, Inside, McanLabels
  <2>1. CASE filters[mcall[c].ext].count < M!Room(mcall[c].ext)
    <3> DEFINE e == mcall[c].ext
    <3>1. /\ filters'[e].count = filters[e].count + 1 /\ filters'[e].cb = filters[e].cb
          /\ filters'[e].arg = filters[e].arg /\ filters'[e].elem = filters[e].elem
          /\ \A x \in BOOLEAN : x # e => filters'[x] = filters[x]
          /\ mcall'[c].pc = "fill" /\ mcall'[c].id = filters[e].count
          /\ mcall'[c].reg = mcall[c].reg /\ mcall'[c].ext = e
          /\ mcall' \in [McanClients -> CallRecs]
          /\ \A o \in McanClients : o # c => mcall'[o] = mcall[o]
      BY <1>7, <2>1, ReserveDoes
    <3>2. e \in BOOLEAN /\ filters[e].count \in Nat /\ \A p \in M!Places : p \in Nat
      BY <1>e, ListIs, PlaceIs
    <3>3. mcall'[c].id \in M!Places
      <4>1. mcall'[c] \in CallRecs
        BY <3>1
      <4> QED BY <4>1 DEF CallRecs
    <3> HIDE DEF e
    <3>4. ASSUME NEW x \in BOOLEAN, NEW p \in M!Places
          PROVE  PlaceSound(x, p)'
      <4>1. CASE x = e
        BY <1>b, <2>0, <3>1, <3>2, <4>1 DEF PlaceSound
      <4>2. CASE x # e
        BY <1>2, <2>0, <3>1, <4>2
      <4> QED BY <4>1, <4>2
    <3>5. ClientSound(c)'
      <4>1. filters[e].cb[filters[e].count] = M!Null
        BY <1>b, <3>1, <3>2, <3>3 DEF PlaceSound
      <4> QED BY <3>1, <4>1 DEF ClientSound, M!ShrinkOf
    <3> QED BY <1>1, <2>0, <3>1, <3>4, <3>5
  <2>2. CASE ~(filters[mcall[c].ext].count < M!Room(mcall[c].ext))
    <3>1. mcall'[c] = M!Idle /\ filters' = filters /\ \A o \in McanClients : o # c => mcall'[o] = mcall[o]
      BY <1>7, <2>2 DEF M!Reserve, McanType
    <3>2. mcall'[c].pc = "idle"
      BY <3>1 DEF M!Idle
    <3> QED BY <1>3, <1>4, <2>0, <3>1, <3>2
  <2> QED BY <2>1, <2>2
<1>8. CASE M!Fill(c)
  <2> DEFINE e == mcall[c].ext
             i0 == mcall[c].id
  <2>1. mcall[c].reg \in 1..Len(request) /\ mcall[c].pc = "fill" /\ mcall[c].pc \in Inside /\ request' = request
    BY <1>8, <1>d DEF M!Fill, Inside, McanLabels
  <2>2. /\ filters'[e].count = filters[e].count /\ \A x \in BOOLEAN : x # e => filters'[x] = filters[x]
        /\ filters'[e].cb = filters[e].cb /\ filters'[e].arg = filters[e].arg
        /\ filters'[e].elem[i0] = request[mcall[c].reg].elem
        /\ \A p \in M!Places : p # i0 => filters'[e].elem[p] = filters[e].elem[p]
    BY <1>8, <2>1, FillDoes DEF Rewrites
  <2>3. /\ mcall'[c].pc = "program" /\ mcall'[c].reg = mcall[c].reg /\ mcall'[c].ext = e /\ mcall'[c].id = i0
        /\ \A o \in McanClients : o # c => mcall'[o] = mcall[o]
    BY <1>8, ClientMoves DEF M!Fill, McanLabels
  <2>4. filters[e].cb[i0] = M!Null
    BY <1>b, <2>1 DEF ClientSound
  <2> HIDE DEF e, i0
  <2>5. ASSUME NEW x \in BOOLEAN, NEW p \in M!Places
        PROVE  PlaceSound(x, p)'
    <3>1. CASE x = e
      BY <1>b, <2>1, <2>2, <2>4, <3>1 DEF PlaceSound
    <3>2. CASE x # e
      BY <1>2, <2>1, <2>2, <3>2
    <3> QED BY <3>1, <3>2
  <2>6. ClientSound(c)'
    BY <2>1, <2>2, <2>3, <2>4 DEF ClientSound, M!ShrinkOf
  <2> QED BY <1>1, <2>1, <2>3, <2>5, <2>6
<1>9. CASE M!Program(c)
  <2>1. /\ mcall'[c].pc = "storeCb" /\ mcall'[c].reg = mcall[c].reg /\ mcall'[c].ext = mcall[c].ext
        /\ mcall'[c].id = mcall[c].id /\ \A o \in McanClients : o # c => mcall'[o] = mcall[o]
    BY <1>9, ClientMoves DEF M!Program, McanLabels
  <2>2. filters' = filters /\ request' = request /\ mcall[c].pc = "program"
    BY <1>9 DEF M!Program
  <2>3. ClientSound(c)'
    BY <1>b, <2>1, <2>2 DEF ClientSound, M!ShrinkOf
  <2> QED BY <1>3, <2>1, <2>2, <2>3
<1>10. CASE M!StoreCb(c)
  <2> DEFINE e == mcall[c].ext
             i0 == mcall[c].id
  <2>1. mcall[c].reg \in 1..Len(request) /\ mcall[c].pc = "storeCb" /\ mcall[c].pc \in Inside /\ request' = request
    BY <1>10, <1>d DEF M!StoreCb, Inside, McanLabels
  <2>2. /\ filters'[e].count = filters[e].count /\ \A x \in BOOLEAN : x # e => filters'[x] = filters[x]
        /\ filters'[e].elem = filters[e].elem /\ filters'[e].arg = filters[e].arg
        /\ filters'[e].cb[i0] = mcall[c].reg
        /\ \A p \in M!Places : p # i0 => filters'[e].cb[p] = filters[e].cb[p]
    BY <1>10, StoreCbDoes DEF Rewrites
  <2>3. /\ mcall'[c].pc = "storeArg" /\ mcall'[c].reg = mcall[c].reg /\ mcall'[c].ext = e /\ mcall'[c].id = i0
        /\ \A o \in McanClients : o # c => mcall'[o] = mcall[o]
    BY <1>10, ClientMoves DEF M!StoreCb, McanLabels
  <2>4. filters[e].cb[i0] = M!Null /\ filters[e].elem[i0] = request[mcall[c].reg].elem
        /\ filters[e].arg[i0] = M!Null /\ i0 + 1 = filters[e].count /\ mcall[c].reg # M!Null
    BY <1>b, <1>e, <2>1 DEF ClientSound, PlaceSound, McanCalls, Adding, M!Null
  <2>5. i0 \in Nat
    BY <1>e
  <2> HIDE DEF e, i0
  <2>6. ASSUME NEW x \in BOOLEAN, NEW p \in M!Places
        PROVE  PlaceSound(x, p)'
    <3>1. CASE x = e /\ p = i0
      BY <2>1, <2>2, <2>4, <2>5, <3>1 DEF PlaceSound
    <3>2. CASE x = e /\ p # i0
      BY <1>b, <2>1, <2>2, <3>2 DEF PlaceSound
    <3>3. CASE x # e
      BY <1>2, <2>1, <2>2, <3>3
    <3> QED BY <3>1, <3>2, <3>3
  <2>7. ClientSound(c)'
    BY <2>2, <2>3 DEF ClientSound, M!ShrinkOf
  <2> QED BY <1>1, <2>1, <2>3, <2>6, <2>7
<1>11. CASE M!StoreArg(c)
  <2> DEFINE e == mcall[c].ext
             i0 == mcall[c].id
  <2>1. mcall[c].reg \in 1..Len(request) /\ mcall[c].pc = "storeArg" /\ mcall[c].pc \in Inside /\ request' = request
    BY <1>11, <1>d DEF M!StoreArg, Inside, McanLabels
  <2>2. /\ filters'[e].count = filters[e].count /\ \A x \in BOOLEAN : x # e => filters'[x] = filters[x]
        /\ filters'[e].elem = filters[e].elem /\ filters'[e].cb = filters[e].cb
        /\ filters'[e].arg[i0] = mcall[c].reg
        /\ \A p \in M!Places : p # i0 => filters'[e].arg[p] = filters[e].arg[p]
    BY <1>11, StoreArgDoes DEF Rewrites
  <2>3. /\ mcall'[c].pc = "unlock" /\ \A o \in McanClients : o # c => mcall'[o] = mcall[o]
    BY <1>11, ClientMoves DEF M!StoreArg, McanLabels
  <2>4. filters[e].cb[i0] = mcall[c].reg /\ mcall[c].reg # M!Null
    BY <1>b, <2>1 DEF ClientSound, M!Null
  <2> HIDE DEF e, i0
  <2>6. ASSUME NEW x \in BOOLEAN, NEW p \in M!Places
        PROVE  PlaceSound(x, p)'
    <3>1. CASE x = e /\ p = i0
      BY <1>b, <2>1, <2>2, <2>4, <3>1 DEF PlaceSound
    <3>2. CASE x = e /\ p # i0
      BY <1>b, <2>1, <2>2, <3>2 DEF PlaceSound
    <3>3. CASE x # e
      BY <1>2, <2>1, <2>2, <3>3
    <3> QED BY <3>1, <3>2, <3>3
  <2> QED BY <1>1, <1>4, <2>1, <2>3, <2>6
<1>12. CASE M!AddReturn(c)
  <2>1. mcall'[c] = M!Idle /\ \A o \in McanClients : o # c => mcall'[o] = mcall[o]
    BY <1>12, CallsOfReturn
  <2>2. mcall'[c].pc = "idle"
    BY <2>1 DEF M!Idle
  <2> QED BY <1>3, <1>4, <1>12, <2>1, <2>2 DEF M!AddReturn
<1>13. CASE M!RemoveCall(c)
  <2>1. mcall'[c].pc = "remLock" /\ \A o \in McanClients : o # c => mcall'[o] = mcall[o]
    BY <1>13, CallsOfRemove
  <2> QED BY <1>3, <1>4, <1>13, <2>1 DEF M!RemoveCall
<1>14. CASE M!RemoveLock(c)
  <2>1. mcall'[c].pc = "find ext" /\ \A o \in McanClients : o # c => mcall'[o] = mcall[o]
    BY <1>14, ClientMoves DEF M!RemoveLock, McanLabels
  <2> QED BY <1>3, <1>4, <1>14, <2>1 DEF M!RemoveLock
<1>15. CASE M!RemoveReturn(c)
  <2>1. mcall'[c] = M!Idle /\ \A o \in McanClients : o # c => mcall'[o] = mcall[o]
    BY <1>15 DEF M!RemoveReturn, McanType
  <2>2. mcall'[c].pc = "idle"
    BY <2>1 DEF M!Idle
  <2> QED BY <1>3, <1>4, <1>15, <2>1, <2>2 DEF M!RemoveReturn
<1>16. ASSUME NEW e \in BOOLEAN, M!Find(c, e)
       PROVE  /\ \A x \in BOOLEAN : \A p \in M!Places : PlaceSound(x, p)'
              /\ \A o \in McanClients : ClientSound(o)'
  <2>1. Found(c, e) = {}
    BY <1>16, FindDoes
  <2>2. /\ Rewrites(e) /\ filters'[e].cb = filters[e].cb /\ filters'[e].arg = filters[e].arg
        /\ (\A p \in M!Places : filters'[e].elem[p] = filters[e].elem[p]) /\ M!Goto(c, M!NextOf(e))
    BY <1>16, <2>1, FindDoes
  <2>3. M!NextOf(e) \in {"find std", "remUnlock"} /\ M!FindOf(e) \in Inside
    BY ShrinkIsInside DEF M!NextOf
  <2>4. mcall'[c].pc = M!NextOf(e) /\ \A o \in McanClients : o # c => mcall'[o] = mcall[o]
    BY <2>2, <2>3, ClientMoves DEF McanLabels
  <2>5. request' = request /\ mcall[c].pc \in Inside
    BY <1>16, <2>3 DEF M!Find
  <2>6. ASSUME NEW x \in BOOLEAN, NEW p \in M!Places
        PROVE  PlaceSound(x, p)'
    <3>1. CASE x = e
      BY <1>b, <2>2, <2>5, <3>1 DEF PlaceSound, Rewrites
    <3>2. CASE x # e
      BY <1>2, <2>2, <2>5, <3>2 DEF Rewrites
    <3> QED BY <3>1, <3>2
  <2> QED BY <1>1, <1>4, <2>3, <2>4, <2>5, <2>6
<1>17. \A e \in BOOLEAN : ~M!Shrink(c, e)
  BY <1>s DEF M!Shrink
<1> QED BY <1>5, <1>6, <1>7, <1>8, <1>9, <1>10, <1>11, <1>12, <1>13, <1>14, <1>15, <1>16, <1>17
        DEF M!Add, M!Remove

LEMMA McanPlacesIsr ==
    ASSUME McanPlaces, (\E f \in M!Frames : M!Arrives(f)) \/ M!IsrReads \/ M!IsrClears
    PROVE  McanPlaces'
<1>1. filters' = filters /\ mcall' = mcall /\ request' = request /\ mcanOdd' = mcanOdd
  BY DEF M!Arrives, M!IsrReads, M!IsrClears
<1> QED BY <1>1 DEF McanPlaces, PlaceSound, ClientSound

LEMMA McanToldClient ==
    ASSUME McanTold, NEW c \in McanClients, M!Add(c) \/ M!Remove(c)
    PROVE  McanTold'
<1>1. ~mcanIsr /\ told' = told /\ mcanIsr' = mcanIsr
  BY DEF M!Add, M!Remove, M!AddCall, M!AddLock, M!Reserve, M!Fill, M!Program, M!StoreCb, M!StoreArg,
     M!AddReturn, M!RemoveCall, M!RemoveLock, M!RemoveReturn, M!Find, M!Shrink, M!Thread, M!Kept
<1>2. told' = M!Silent /\ M!Silent.cb = M!Null
  BY <1>1 DEF McanTold, M!Silent
<1> QED BY <1>1, <1>2 DEF McanTold, M!McanDeliversToOwner

LEMMA McanToldIsr ==
    ASSUME McanType, McanCalls, McanPlaces, McanTold,
           (\E f \in M!Frames : M!Arrives(f)) \/ M!IsrReads \/ M!IsrClears
    PROVE  McanTold'
<1>1. CASE \E f \in M!Frames : M!Arrives(f)
  BY <1>1 DEF M!Arrives, McanTold, M!McanDeliversToOwner
<1>2. CASE M!IsrReads
  <2> DEFINE f == Head(rxFifo)
  <2>1. told' = M!Message(f) /\ request' = request /\ mcanOdd' = mcanOdd /\ mcanIsr'
    BY <1>2 DEF M!IsrReads
  <2>2. f \in M!Frames
    BY <1>2, HeadTailProperties DEF M!IsrReads, McanType
  <2> HIDE DEF f
  <2>3. f.ext \in BOOLEAN
    BY <2>2 DEF M!Frames
  <2>4. CASE M!Message(f).cb = M!Null
    BY <2>1, <2>4 DEF McanTold, M!McanDeliversToOwner
  <2>5. CASE M!Message(f).cb # M!Null
    <3>1. ~told'.rtr /\ told'.ext = f.ext /\ told'.id = f.id /\ told'.cb # M!Null
      BY <2>1, <2>2, <2>5, MessageIs
    <3>2. PICK p \in M!Places :
            /\ p < filters[f.ext].count /\ f.id \in filters[f.ext].elem[p]
            /\ told'.cb = filters[f.ext].cb[p] /\ told'.arg = filters[f.ext].arg[p]
      BY <2>1, <2>2, <2>5, MessageIs
    <3>3. request[told'.cb].ext = f.ext
      BY <2>3, <3>1, <3>2 DEF McanCalls
    <3>4. "removed" \notin mcanOdd => told'.id \in request[told'.cb].elem /\ told'.arg \in {M!Null, told'.cb}
      BY <2>3, <3>1, <3>2 DEF McanPlaces, PlaceSound
    <3> QED BY <2>1, <3>1, <3>3, <3>4 DEF McanTold, M!McanDeliversToOwner
  <2> QED BY <2>4, <2>5
<1>3. CASE M!IsrClears
  <2>1. told' = M!Silent /\ M!Silent.cb = M!Null
    BY <1>3 DEF M!IsrClears, M!Silent
  <2> QED BY <2>1 DEF McanTold, M!McanDeliversToOwner
<1> QED BY <1>1, <1>2, <1>3
-------------------------------------------------------------------------------
LEMMA EntryStays ==
    ASSUME NEW reg, NEW id, HasEntry(reg, id), request'[reg] = request[reg],
           LET e == request[reg].ext IN
             /\ id < filters'[e].count /\ filters'[e].index[id] = filters[e].index[id]
             /\ filters'[e].elem[id] = filters[e].elem[id]
             /\ filters'[e].cb[id] = filters[e].cb[id] /\ filters'[e].arg[id] = filters[e].arg[id]
    PROVE  HasEntry(reg, id)'
<1> QED BY DEF HasEntry

(* Who has an entry is a request of a list, at a place of it.               *)
LEMMA EntryOf ==
    ASSUME McanType, McanCalls
    PROVE  /\ \A r \in registered : r.reg \in 1..Len(request) /\ r.id \in M!Places
                                      /\ request[r.reg].ext \in BOOLEAN
           /\ \A o \in McanClients : mcall[o].pc # "idle" =>
                /\ mcall[o].reg \in 1..Len(request) /\ mcall[o].id \in M!Places
                /\ request[mcall[o].reg].ext \in BOOLEAN
<1>1. \A r \in registered : r.reg \in 1..Len(request) /\ r.id \in M!Places
  BY DEF McanCalls, McanType
<1>2. \A o \in McanClients : mcall[o].pc # "idle" => mcall[o].reg \in 1..Len(request)
  BY DEF McanCalls
<1>3. \A o \in McanClients : mcall[o].id \in M!Places
  BY ClientIs
<1>4. \A n \in 1..Len(request) : request[n].ext \in BOOLEAN
  BY AskedIs
<1> QED BY <1>1, <1>2, <1>3, <1>4

(* A step of c that writes nothing to the lists.                            *)
LEMMA KeptQuiet ==
    ASSUME McanType, McanCalls, Kept, NEW c \in McanClients, filters' = filters,
           \A n \in 1..Len(request) : request'[n] = request[n],
           \A o \in McanClients : o # c => mcall'[o] = mcall[o], registered' = registered,
           ToRemove(c)' => ToRemove(c) /\ mcall'[c].reg = mcall[c].reg /\ mcall'[c].id = mcall[c].id,
           mcall'[c].pc \notin Adding \/ (mcall[c].pc = "program" /\ mcall'[c].pc = "storeCb"
             /\ mcall'[c].reg = mcall[c].reg /\ mcall'[c].ext = mcall[c].ext /\ mcall'[c].id = mcall[c].id),
           mcall[c].pc # "fill", \A e \in BOOLEAN : mcall'[c].pc # M!ShrinkOf(e)
    PROVE  Kept'
<1>1. /\ \A r \in registered : request'[r.reg] = request[r.reg]
      /\ \A o \in McanClients : mcall[o].pc # "idle" => request'[mcall[o].reg] = request[mcall[o].reg]
  BY EntryOf
<1>2. \A reg, id : HasEntry(reg, id) /\ request'[reg] = request[reg] => HasEntry(reg, id)'
  BY DEF HasEntry
<1>3. \A o \in McanClients : ToRemove(o)' =>
        /\ ToRemove(o) /\ mcall'[o].reg = mcall[o].reg /\ mcall'[o].id = mcall[o].id
        /\ request'[mcall'[o].reg] = request[mcall[o].reg]
  <2> SUFFICES ASSUME NEW o \in McanClients, ToRemove(o)'
               PROVE  /\ ToRemove(o) /\ mcall'[o].reg = mcall[o].reg /\ mcall'[o].id = mcall[o].id
                      /\ request'[mcall'[o].reg] = request[mcall[o].reg]
    OBVIOUS
  <2>1. CASE o = c
    BY <1>1, <2>1 DEF ToRemove, Removing
  <2>2. CASE o # c
    BY <1>1, <2>2 DEF ToRemove, Removing
  <2> QED BY <2>1, <2>2
<1>4. \A r \in registered' : HasEntry(r.reg, r.id)'
  BY <1>1, <1>2 DEF Kept
<1>5. ASSUME NEW o \in McanClients, ToRemove(o)'
      PROVE  HasEntry(mcall[o].reg, mcall[o].id)'
  <2>1. PICK reg, id : reg = mcall[o].reg /\ id = mcall[o].id
    OBVIOUS
  <2>2. HasEntry(reg, id) /\ request'[reg] = request[reg]
    BY <1>3, <1>5, <2>1 DEF Kept
  <2>3. HasEntry(reg, id)' /\ mcall'[o].reg = reg /\ mcall'[o].id = id
    BY <1>2, <1>3, <1>5, <2>1, <2>2
  <2> QED BY <2>3 DEF HasEntry
<1>6. ASSUME NEW o \in McanClients
      PROVE  NewEntry(o)'
  <2> SUFFICES ASSUME mcall'[o].pc \in Adding
               PROVE  NewEntry(o)'
    BY DEF NewEntry
  <2>1. /\ mcall[o].pc \in Adding /\ mcall'[o].ext = mcall[o].ext /\ mcall'[o].id = mcall[o].id
        /\ mcall'[o].reg = mcall[o].reg /\ (mcall'[o].pc # "fill" => mcall[o].pc # "fill")
        /\ (mcall'[o].pc \in {"storeArg", "unlock"} => mcall'[o].pc = mcall[o].pc)
    BY DEF Adding
  <2>2. NewEntry(o) /\ mcall[o].pc # "idle"
    BY <2>1 DEF Kept, Adding
  <2>3. \A r \in registered' : request'[r.reg].ext = mcall'[o].ext => r.id # mcall'[o].id
    BY <1>1, <2>1, <2>2 DEF NewEntry
  <2>4. \A q \in McanClients : ToRemove(q)' /\ request'[mcall'[q].reg].ext = mcall'[o].ext => mcall'[q].id # mcall'[o].id
    BY <1>3, <2>1, <2>2 DEF NewEntry
  <2>5. request'[mcall'[o].reg] = request[mcall[o].reg]
    BY <1>1, <2>1, <2>2
  <2> QED BY <2>1, <2>2, <2>3, <2>4, <2>5 DEF NewEntry
<1>7. ASSUME NEW o \in McanClients
      PROVE  LastGoes(o)'
  <2>1. CASE o = c
    BY <2>1 DEF LastGoes
  <2>2. CASE o # c
    <3>1. LastGoes(o) /\ mcall'[o] = mcall[o] /\ (mcall[o].pc # "idle" => request'[mcall[o].reg] = request[mcall[o].reg])
      BY <1>1, <2>2 DEF Kept
    <3>2. \A e \in BOOLEAN : M!ShrinkOf(e) # "idle"
      BY DEF M!ShrinkOf
    <3> QED BY <3>1, <3>2 DEF LastGoes
  <2> QED BY <2>1, <2>2
<1>8. ASSUME NEW e \in BOOLEAN, NEW p \in M!Places
      PROVE  IndexSound(e, p)'
  <2> SUFFICES ASSUME p < filters[e].count, filters[e].index[p] # p
               PROVE  \E o \in McanClients : mcall'[o].pc = "fill" /\ mcall'[o].ext = e /\ mcall'[o].id = p
    BY DEF IndexSound
  <2>1. PICK o \in McanClients : mcall[o].pc = "fill" /\ mcall[o].ext = e /\ mcall[o].id = p
    BY DEF IndexSound, Kept
  <2>2. mcall'[o] = mcall[o]
    BY <2>1
  <2> QED BY <2>1, <2>2
<1> QED BY <1>4, <1>5, <1>6, <1>7, <1>8 DEF Kept

(* A step of c that writes the place of its new entry.                      *)
LEMMA KeptWrites ==
    ASSUME McanType, McanCalls, Kept, NEW c \in McanClients, Rewrites(mcall[c].ext),
           \A p \in M!Places : p # mcall[c].id =>
             /\ filters'[mcall[c].ext].index[p] = filters[mcall[c].ext].index[p]
             /\ filters'[mcall[c].ext].elem[p] = filters[mcall[c].ext].elem[p]
             /\ filters'[mcall[c].ext].cb[p] = filters[mcall[c].ext].cb[p]
             /\ filters'[mcall[c].ext].arg[p] = filters[mcall[c].ext].arg[p],
           request' = request, registered' = registered,
           \A o \in McanClients : o # c => mcall'[o] = mcall[o],
           mcall[c].pc \in Adding, mcall'[c].pc \in Adding \ {"fill"},
           mcall'[c].reg = mcall[c].reg, mcall'[c].ext = mcall[c].ext, mcall'[c].id = mcall[c].id,
           filters'[mcall[c].ext].index[mcall[c].id] = mcall[c].id,
           filters'[mcall[c].ext].elem[mcall[c].id] = request[mcall[c].reg].elem,
           mcall'[c].pc \in {"storeArg", "unlock"} => filters'[mcall[c].ext].cb[mcall[c].id] = mcall[c].reg,
           mcall'[c].pc = "unlock" => filters'[mcall[c].ext].arg[mcall[c].id] = mcall[c].reg
    PROVE  Kept'
<1> DEFINE e0 == mcall[c].ext
           i0 == mcall[c].id
<1>0. /\ NewEntry(c) /\ mcall[c].pc \in Inside /\ e0 \in BOOLEAN /\ i0 \in M!Places
      /\ \A o \in McanClients : o # c => mcall[o].pc \notin Inside
  BY OneInside, ClientIs DEF Kept, Adding, Inside, McanLabels
<1>1. ASSUME NEW reg \in 1..Len(request), NEW id \in M!Places, HasEntry(reg, id),
             request[reg].ext = e0 => id # i0, request[reg].ext \in BOOLEAN
      PROVE  HasEntry(reg, id)'
  <2>1. CASE request[reg].ext = e0
    BY <1>1, <2>1 DEF HasEntry, Rewrites
  <2>2. CASE request[reg].ext # e0
    BY <1>1, <2>2 DEF HasEntry, Rewrites
  <2> QED BY <2>1, <2>2
<1>2. \A o \in McanClients : ToRemove(o)' => ToRemove(o) /\ o # c /\ mcall'[o] = mcall[o]
  BY DEF ToRemove, Adding, Removing
<1>3. \A r \in registered' : HasEntry(r.reg, r.id)'
  <2> SUFFICES ASSUME NEW r \in registered PROVE HasEntry(r.reg, r.id)'
    OBVIOUS
  <2>1. HasEntry(r.reg, r.id) /\ (request[r.reg].ext = e0 => r.id # i0)
    BY <1>0 DEF Kept, NewEntry
  <2>2. r.reg \in 1..Len(request) /\ r.id \in M!Places /\ request[r.reg].ext \in BOOLEAN
    BY EntryOf
  <2> QED BY <1>1, <2>1, <2>2
<1>4. ASSUME NEW o \in McanClients, ToRemove(o)'
      PROVE  HasEntry(mcall[o].reg, mcall[o].id)'
  <2>1. PICK reg, id : reg = mcall[o].reg /\ id = mcall[o].id
    OBVIOUS
  <2>2. HasEntry(reg, id) /\ (request[reg].ext = e0 => id # i0) /\ mcall[o].pc # "idle"
    BY <1>0, <1>2, <1>4, <2>1 DEF Kept, NewEntry, ToRemove, Removing
  <2>3. reg \in 1..Len(request) /\ id \in M!Places /\ request[reg].ext \in BOOLEAN
    BY <2>1, <2>2, EntryOf
  <2>4. HasEntry(reg, id)' /\ mcall'[o].reg = reg /\ mcall'[o].id = id
    BY <1>1, <1>2, <1>4, <2>1, <2>2, <2>3
  <2> QED BY <2>4 DEF HasEntry
<1>5. ASSUME NEW o \in McanClients
      PROVE  NewEntry(o)' /\ LastGoes(o)'
  <2>1. CASE o = c
    <3>1. \A r \in registered' : request'[r.reg].ext = mcall'[c].ext => r.id # mcall'[c].id
      BY <1>0 DEF NewEntry
    <3>2. \A q \in McanClients : ToRemove(q)' /\ request'[mcall'[q].reg].ext = mcall'[c].ext => mcall'[q].id # mcall'[c].id
      BY <1>0, <1>2 DEF NewEntry
    <3>3. NewEntry(c)'
      BY <3>1, <3>2 DEF NewEntry
    <3>4. LastGoes(c)'
      BY DEF LastGoes, Adding, M!ShrinkOf
    <3> QED BY <2>1, <3>3, <3>4
  <2>2. CASE o # c
    <3>1. mcall'[o].pc \notin Inside
      BY <1>0, <2>2
    <3>2. NewEntry(o)'
      BY <3>1 DEF NewEntry, Adding, Inside, McanLabels
    <3>3. LastGoes(o)'
      BY <3>1, ShrinkIsInside DEF LastGoes
    <3> QED BY <3>2, <3>3
  <2> QED BY <2>1, <2>2
<1>6. ASSUME NEW e \in BOOLEAN, NEW p \in M!Places
      PROVE  IndexSound(e, p)'
  <2> SUFFICES ASSUME p < filters[e].count, filters'[e].index[p] # p
               PROVE  FALSE
    BY DEF IndexSound, Rewrites
  <2>1. ~(e = e0 /\ p = i0) /\ filters[e].index[p] # p
    BY <1>0 DEF Rewrites
  <2>2. PICK o \in McanClients : mcall[o].pc = "fill" /\ mcall[o].ext = e /\ mcall[o].id = p
    BY <2>1 DEF IndexSound, Kept
  <2>3. o = c
    BY <1>0, <2>2 DEF Inside, McanLabels
  <2> QED BY <2>1, <2>2, <2>3
<1> QED BY <1>3, <1>4, <1>5, <1>6 DEF Kept

(* A step of c alone inside the driver that leaves what the lists hold.     *)
LEMMA KeptAlone ==
    ASSUME McanType, McanCalls, Kept, NEW c \in McanClients, mcall[c].pc \in Inside \ {"fill"},
           request' = request, \A o \in McanClients : o # c => mcall'[o] = mcall[o],
           \A e \in BOOLEAN : \A p \in M!Places :
             /\ filters'[e].index[p] = filters[e].index[p] /\ filters'[e].elem[p] = filters[e].elem[p]
             /\ filters'[e].cb[p] = filters[e].cb[p] /\ filters'[e].arg[p] = filters[e].arg[p],
           \A e \in BOOLEAN : filters'[e].count \in 0..filters[e].count,
           \A r \in registered' : HasEntry(r.reg, r.id) /\ r.reg \in 1..Len(request) /\ r.id \in M!Places,
           \A r \in registered' : r.id < filters'[request[r.reg].ext].count,
           \A o \in McanClients : ToRemove(o)' =>
             /\ ToRemove(o) /\ mcall'[o].reg = mcall[o].reg /\ mcall'[o].id = mcall[o].id
             /\ mcall[o].id < filters'[request[mcall[o].reg].ext].count,
           mcall'[c].pc \notin Adding, LastGoes(c)'
    PROVE  Kept'
<1>1. ASSUME NEW reg \in 1..Len(request), NEW id \in M!Places, HasEntry(reg, id),
             id < filters'[request[reg].ext].count
      PROVE  HasEntry(reg, id)'
  BY <1>1, AskedIs DEF HasEntry
<1>2. \A r \in registered' : HasEntry(r.reg, r.id)'
  BY <1>1
<1>3. ASSUME NEW o \in McanClients, ToRemove(o)'
      PROVE  HasEntry(mcall[o].reg, mcall[o].id)'
  <2>1. PICK reg, id : reg = mcall[o].reg /\ id = mcall[o].id
    OBVIOUS
  <2>2. HasEntry(reg, id) /\ mcall[o].pc # "idle" /\ id < filters'[request[reg].ext].count
    BY <1>3, <2>1 DEF Kept, ToRemove, Removing
  <2>3. reg \in 1..Len(request) /\ id \in M!Places
    BY <2>1, <2>2, EntryOf
  <2>4. HasEntry(reg, id)' /\ mcall'[o].reg = reg /\ mcall'[o].id = id
    BY <1>1, <1>3, <2>1, <2>2, <2>3
  <2> QED BY <2>4 DEF HasEntry
<1>4. \A o \in McanClients : o # c => mcall[o].pc \notin Inside /\ mcall'[o].pc \notin Inside
  BY OneInside
<1>5. ASSUME NEW o \in McanClients
      PROVE  NewEntry(o)' /\ LastGoes(o)'
  <2>1. mcall'[o].pc \notin Adding
    BY <1>4 DEF Adding, Inside, McanLabels
  <2>2. NewEntry(o)'
    BY <2>1 DEF NewEntry
  <2>3. LastGoes(o)'
    BY <1>4, ShrinkIsInside DEF LastGoes
  <2> QED BY <2>2, <2>3
<1>6. ASSUME NEW e \in BOOLEAN, NEW p \in M!Places
      PROVE  IndexSound(e, p)'
  <2> SUFFICES ASSUME p < filters[e].count, filters[e].index[p] # p
               PROVE  FALSE
    BY PlaceIs, ListIs DEF IndexSound
  <2>1. PICK o \in McanClients : mcall[o].pc = "fill"
    BY DEF IndexSound, Kept
  <2> QED BY <1>4, <2>1 DEF Inside, McanLabels
<1> QED BY <1>2, <1>3, <1>5, <1>6 DEF Kept

LEMMA KeptReserve ==
    ASSUME McanType, McanCalls, Kept, NEW c \in McanClients, M!Reserve(c),
           filters[mcall[c].ext].count < M!Room(mcall[c].ext)
    PROVE  Kept'
<1> DEFINE e0 == mcall[c].ext
           n == filters[e0].count
<1>0. /\ mcall[c].pc = "reserve" /\ request' = request /\ registered' = registered
      /\ e0 \in BOOLEAN /\ n \in Nat /\ \A o \in McanClients : o # c => mcall[o].pc \notin Inside
  BY OneInside, ClientIs, ListIs DEF M!Reserve, M!Thread, Inside, McanLabels
<1>1. /\ filters'[e0].count = n + 1
      /\ filters'[e0].index = filters[e0].index /\ filters'[e0].elem = filters[e0].elem
      /\ filters'[e0].cb = filters[e0].cb /\ filters'[e0].arg = filters[e0].arg
      /\ \A x \in BOOLEAN : x # e0 => filters'[x] = filters[x]
      /\ mcall'[c].pc = "fill" /\ mcall'[c].id = n /\ mcall'[c].ext = e0
      /\ \A o \in McanClients : o # c => mcall'[o] = mcall[o]
  BY ReserveDoes
<1>2. ASSUME NEW reg \in 1..Len(request), NEW id \in M!Places, HasEntry(reg, id)
      PROVE  HasEntry(reg, id)' /\ (request[reg].ext = e0 => id # n)
  <2>1. request[reg].ext \in BOOLEAN /\ id \in Nat
    BY AskedIs, PlaceIs
  <2>2. CASE request[reg].ext = e0
    BY <1>0, <1>1, <1>2, <2>1, <2>2 DEF HasEntry
  <2>3. CASE request[reg].ext # e0
    BY <1>0, <1>1, <1>2, <2>1, <2>3 DEF HasEntry
  <2> QED BY <2>2, <2>3
<1>3. \A o \in McanClients : ToRemove(o)' => ToRemove(o) /\ o # c /\ mcall'[o] = mcall[o] /\ mcall[o].pc # "idle"
  BY <1>0, <1>1 DEF ToRemove, Removing
<1>4. \A r \in registered' : HasEntry(r.reg, r.id)' /\ (request[r.reg].ext = e0 => r.id # n)
  BY <1>0, <1>2, EntryOf DEF Kept
<1>5. ASSUME NEW o \in McanClients, ToRemove(o)'
      PROVE  HasEntry(mcall[o].reg, mcall[o].id)' /\ (request[mcall[o].reg].ext = e0 => mcall[o].id # n)
  <2>1. PICK reg, id : reg = mcall[o].reg /\ id = mcall[o].id
    OBVIOUS
  <2>2. HasEntry(reg, id)
    BY <1>3, <1>5, <2>1 DEF Kept
  <2>3. reg \in 1..Len(request) /\ id \in M!Places
    BY <1>3, <1>5, <2>1, EntryOf
  <2>4. HasEntry(reg, id)' /\ (request[reg].ext = e0 => id # n) /\ mcall'[o].reg = reg /\ mcall'[o].id = id
    BY <1>2, <1>3, <1>5, <2>1, <2>2, <2>3
  <2> QED BY <2>1, <2>4 DEF HasEntry
<1>6. ASSUME NEW o \in McanClients
      PROVE  NewEntry(o)' /\ LastGoes(o)'
  <2>1. CASE o = c
    <3>1. \A q \in McanClients : ToRemove(q)' /\ request'[mcall'[q].reg].ext = mcall'[c].ext => mcall'[q].id # mcall'[c].id
      BY <1>0, <1>1, <1>3, <1>5
    <3>2. NewEntry(c)'
      BY <1>0, <1>1, <1>4, <3>1 DEF NewEntry
    <3>3. LastGoes(c)'
      BY <1>1 DEF LastGoes, M!ShrinkOf
    <3> QED BY <2>1, <3>2, <3>3
  <2>2. CASE o # c
    <3>1. mcall'[o].pc \notin Inside
      BY <1>0, <1>1, <2>2
    <3>2. NewEntry(o)'
      BY <3>1 DEF NewEntry, Adding, Inside, McanLabels
    <3>3. LastGoes(o)'
      BY <3>1, ShrinkIsInside DEF LastGoes
    <3> QED BY <3>2, <3>3
  <2> QED BY <2>1, <2>2
<1>7. ASSUME NEW e \in BOOLEAN, NEW p \in M!Places
      PROVE  IndexSound(e, p)'
  <2>1. p < filters[e].count => filters[e].index[p] = p
    BY <1>0 DEF Kept, IndexSound, Inside, McanLabels
  <2>2. CASE e = e0
    <3>1. p \in Nat
      BY PlaceIs
    <3> QED BY <1>0, <1>1, <2>1, <2>2, <3>1 DEF IndexSound
  <2>3. CASE e # e0
    BY <1>1, <2>1, <2>3 DEF IndexSound
  <2> QED BY <2>2, <2>3
<1> QED BY <1>4, <1>5, <1>6, <1>7 DEF Kept

LEMMA KeptReturn ==
    ASSUME McanType, McanCalls, Kept, NEW c \in McanClients, M!AddReturn(c)
    PROVE  Kept'
<1> DEFINE new == [reg |-> mcall[c].reg, by |-> c, id |-> mcall[c].id]
<1>1. /\ registered' = registered \cup {new} /\ filters' = filters /\ request' = request
      /\ mcall[c].pc = "unlock" /\ mcall'[c] = M!Idle /\ \A o \in McanClients : o # c => mcall'[o] = mcall[o]
  BY CallsOfReturn DEF M!AddReturn, M!Thread
<1>2. new.reg = mcall[c].reg /\ new.id = mcall[c].id
  OBVIOUS
<1> HIDE DEF new
<1>3. mcall[c].pc \in Inside \ {"fill"} /\ mcall'[c].pc = "idle" /\ mcall[c].pc \in Adding
  BY <1>1 DEF Inside, McanLabels, M!Idle, Adding
<1>4. HasEntry(new.reg, new.id) /\ new.reg \in 1..Len(request) /\ new.id \in M!Places
  <2>1. /\ request[mcall[c].reg].ext = mcall[c].ext /\ mcall[c].id + 1 = filters[mcall[c].ext].count
        /\ mcall[c].reg \in 1..Len(request)
    BY <1>1, <1>3 DEF McanCalls
  <2>2. mcall[c].id \in Nat /\ mcall[c].id \in M!Places
    BY ClientIs
  <2>3. NewEntry(c)
    BY DEF Kept
  <2> QED BY <1>1, <1>2, <1>3, <2>1, <2>2, <2>3 DEF NewEntry, HasEntry
<1>5. \A r \in registered' : HasEntry(r.reg, r.id) /\ r.reg \in 1..Len(request) /\ r.id \in M!Places
  BY <1>1, <1>4, EntryOf DEF Kept
<1>6. \A r \in registered' : r.id < filters'[request[r.reg].ext].count
  BY <1>1, <1>5 DEF HasEntry
<1>7. ASSUME NEW o \in McanClients, ToRemove(o)'
      PROVE  /\ ToRemove(o) /\ mcall'[o].reg = mcall[o].reg /\ mcall'[o].id = mcall[o].id
             /\ mcall[o].id < filters'[request[mcall[o].reg].ext].count
  <2>1. ToRemove(o) /\ mcall'[o] = mcall[o]
    BY <1>1, <1>3, <1>7 DEF ToRemove, Removing
  <2>2. HasEntry(mcall[o].reg, mcall[o].id)
    BY <2>1 DEF Kept
  <2> QED BY <1>1, <2>1, <2>2 DEF HasEntry
<1>8. mcall'[c].pc \notin Adding /\ LastGoes(c)'
  BY <1>3 DEF Adding, LastGoes, M!ShrinkOf
<1>9. \A e \in BOOLEAN : filters'[e].count \in 0..filters[e].count
  BY <1>1, ListIs
<1> QED BY <1>1, <1>3, <1>5, <1>6, <1>7, <1>8, <1>9, KeptAlone

LEMMA KeptRemoves ==
    ASSUME McanType, McanCalls, Kept, NEW c \in McanClients, M!RemoveCall(c)
    PROVE  Kept'
<1>1. PICK r0 \in registered : /\ registered' = registered \ {r0}
                               /\ mcall'[c].reg = r0.reg /\ mcall'[c].id = r0.id
  BY CallsOfRemove
<1>2. /\ mcall'[c].pc = "remLock" /\ filters' = filters /\ request' = request /\ mcall[c].pc = "idle"
      /\ \A o \in McanClients : o # c => mcall'[o] = mcall[o]
  BY CallsOfRemove DEF M!RemoveCall, M!Thread
<1>3. HasEntry(r0.reg, r0.id)
  BY DEF Kept
<1>4. \A r \in registered' : HasEntry(r.reg, r.id)'
  BY <1>1, <1>2 DEF Kept, HasEntry
<1>5. ASSUME NEW o \in McanClients, ToRemove(o)'
      PROVE  HasEntry(mcall[o].reg, mcall[o].id)'
  <2>1. PICK reg, id : reg = mcall'[o].reg /\ id = mcall'[o].id
    OBVIOUS
  <2>2. HasEntry(reg, id)
    <3>1. CASE o = c
      BY <1>1, <1>3, <2>1, <3>1
    <3>2. CASE o # c
      BY <1>2, <1>5, <2>1, <3>2 DEF Kept, ToRemove
    <3> QED BY <3>1, <3>2
  <2> QED BY <1>2, <2>1, <2>2 DEF HasEntry
<1>6. ASSUME NEW o \in McanClients
      PROVE  NewEntry(o)' /\ LastGoes(o)'
  <2>1. CASE o = c
    BY <1>2, <2>1 DEF NewEntry, LastGoes, Adding, M!ShrinkOf
  <2>2. CASE o # c
    <3>1. NewEntry(o) /\ LastGoes(o) /\ mcall'[o] = mcall[o]
      BY <1>2, <2>2 DEF Kept
    <3>2. \A q \in McanClients : ToRemove(q)' => (q = c \/ (ToRemove(q) /\ mcall'[q] = mcall[q]))
      BY <1>2 DEF ToRemove
    <3>3. NewEntry(o)'
      <4> SUFFICES ASSUME mcall[o].pc \in Adding
                   PROVE  NewEntry(o)'
        BY <3>1 DEF NewEntry
      <4>1. \A q \in McanClients : ToRemove(q)' /\ request[mcall'[q].reg].ext = mcall[o].ext => mcall'[q].id # mcall[o].id
        BY <1>1, <3>1, <3>2 DEF NewEntry
      <4>2. \A r \in registered' : request[r.reg].ext = mcall[o].ext => r.id # mcall[o].id
        BY <1>1, <3>1 DEF NewEntry
      <4> QED BY <1>2, <3>1, <4>1, <4>2 DEF NewEntry
    <3>4. LastGoes(o)'
      BY <1>2, <3>1 DEF LastGoes
    <3> QED BY <3>3, <3>4
  <2> QED BY <2>1, <2>2
<1>7. ASSUME NEW e \in BOOLEAN, NEW p \in M!Places
      PROVE  IndexSound(e, p)'
  <2> SUFFICES ASSUME p < filters[e].count, filters[e].index[p] # p
               PROVE  \E o \in McanClients : mcall'[o].pc = "fill" /\ mcall'[o].ext = e /\ mcall'[o].id = p
    BY <1>2 DEF IndexSound
  <2>1. PICK o \in McanClients : mcall[o].pc = "fill" /\ mcall[o].ext = e /\ mcall[o].id = p
    BY DEF IndexSound, Kept
  <2>2. mcall'[o] = mcall[o]
    BY <1>2, <2>1
  <2> QED BY <2>1, <2>2
<1> QED BY <1>4, <1>5, <1>6, <1>7 DEF Kept

(* What is found is the last entry, and it is the caller's.                 *)
LEMMA KeptFinds ==
    ASSUME McanType, McanCalls, Kept, NEW c \in McanClients, NEW e \in BOOLEAN, M!Find(c, e),
           mcanOdd' \cap {"moved", "otherList"} = {}
    PROVE  Kept'
<1> DEFINE at0 == Found(c, e)
           last == filters[e].count - 1
           own == request[mcall[c].reg].ext
<1>1. /\ mcall[c].pc = M!FindOf(e) /\ request' = request /\ registered' = registered
      /\ mcall[c].pc \in Inside \ {"fill"}
  BY DEF M!Find, M!Thread, M!FindOf, Inside, McanLabels
<1>2. /\ Rewrites(e) /\ filters'[e].cb = filters[e].cb /\ filters'[e].arg = filters[e].arg
      /\ \A p \in M!Places :
           /\ filters'[e].index[p] = IF p \in at0 THEN filters[e].index[last] ELSE filters[e].index[p]
           /\ filters'[e].elem[p] = IF p \in at0 THEN filters[e].elem[last] ELSE filters[e].elem[p]
      /\ at0 # {} => filters[e].count > 0 /\ last \in M!Places /\ at0 = {last} /\ own = e
      /\ M!Goto(c, IF at0 = {} THEN M!NextOf(e) ELSE M!ShrinkOf(e))
  BY FindDoes
<1>3. own \in BOOLEAN
  BY <1>1, EntryOf DEF Inside, McanLabels
<1>4. /\ mcall'[c].pc = IF at0 = {} THEN M!NextOf(e) ELSE M!ShrinkOf(e)
      /\ mcall'[c].reg = mcall[c].reg /\ mcall'[c].id = mcall[c].id
      /\ \A o \in McanClients : o # c => mcall'[o] = mcall[o]
  <2>1. M!NextOf(e) \in McanLabels /\ M!ShrinkOf(e) \in McanLabels
    BY DEF M!NextOf, M!ShrinkOf, McanLabels
  <2>2. (IF at0 = {} THEN M!NextOf(e) ELSE M!ShrinkOf(e)) \in McanLabels
    BY <2>1
  <2> QED BY <1>2, <2>2, ClientMoves
<1>5. at0 # {} => mcall[c].id = last
  <2> SUFFICES ASSUME at0 # {} PROVE mcall[c].id = last
    OBVIOUS
  <2>1. last \in M!Places /\ last < filters[e].count /\ filters[e].index[last] = mcall[c].id
    BY <1>2 DEF Found, Hits
  <2>2. IndexSound(e, last)
    BY <2>1 DEF Kept
  <2>3. \A o \in McanClients : mcall[o].pc # "fill"
    BY <1>1, OneInside DEF Inside, McanLabels
  <2> QED BY <2>1, <2>2, <2>3 DEF IndexSound
<1>6. \A p \in M!Places : filters'[e].index[p] = filters[e].index[p] /\ filters'[e].elem[p] = filters[e].elem[p]
  BY <1>2
<1> HIDE DEF at0, last, own
<1>7. \A x \in BOOLEAN : \A p \in M!Places :
        /\ filters'[x].index[p] = filters[x].index[p] /\ filters'[x].elem[p] = filters[x].elem[p]
        /\ filters'[x].cb[p] = filters[x].cb[p] /\ filters'[x].arg[p] = filters[x].arg[p]
  BY <1>2, <1>6 DEF Rewrites
<1>8. \A x \in BOOLEAN : filters'[x].count = filters[x].count /\ filters[x].count \in Nat
  BY <1>2, ListIs DEF Rewrites
<1>9. ToRemove(c)' => ToRemove(c)
  <2>1. CASE at0 = {}
    <3>1. own \in BOOLEAN => (M!NextOf(e) \in {"remLock", "find ext", M!FindOf(own), M!ShrinkOf(own)} =>
             e = TRUE)
      BY DEF M!NextOf, M!FindOf, M!ShrinkOf
    <3>2. e = TRUE => mcall[c].pc = "find ext"
      BY <1>1 DEF M!FindOf
    <3> QED BY <1>1, <1>3, <1>4, <2>1, <3>1, <3>2 DEF ToRemove, Removing, own
  <2>2. CASE at0 # {}
    BY <1>1, <1>2, <2>2, ShrinkIsInside DEF ToRemove, own
  <2> QED BY <2>1, <2>2
<1>10. \A o \in McanClients : ToRemove(o)' => ToRemove(o) /\ mcall'[o].reg = mcall[o].reg /\ mcall'[o].id = mcall[o].id
  <2> SUFFICES ASSUME NEW o \in McanClients, ToRemove(o)'
               PROVE  ToRemove(o) /\ mcall'[o].reg = mcall[o].reg /\ mcall'[o].id = mcall[o].id
    OBVIOUS
  <2>1. CASE o = c
    BY <1>4, <1>9, <2>1
  <2>2. CASE o # c
    BY <1>1, <1>4, <2>2 DEF ToRemove
  <2> QED BY <2>1, <2>2
<1>11. ASSUME NEW o \in McanClients, ToRemove(o)'
       PROVE  mcall[o].id < filters'[request[mcall[o].reg].ext].count
  <2>1. HasEntry(mcall[o].reg, mcall[o].id) /\ mcall[o].pc # "idle"
    BY <1>10, <1>11 DEF Kept, ToRemove, Removing
  <2>2. request[mcall[o].reg].ext \in BOOLEAN
    BY <2>1, EntryOf
  <2> QED BY <1>8, <2>1, <2>2 DEF HasEntry
<1>12. \A r \in registered' : HasEntry(r.reg, r.id) /\ r.reg \in 1..Len(request) /\ r.id \in M!Places
  BY <1>1, EntryOf DEF Kept
<1>13. \A r \in registered' : r.id < filters'[request[r.reg].ext].count
  BY <1>8, <1>12, AskedIs DEF HasEntry
<1>14. mcall'[c].pc \notin Adding
  BY <1>4 DEF M!NextOf, M!ShrinkOf, Adding
<1>15. LastGoes(c)'
  <2> SUFFICES ASSUME NEW x \in BOOLEAN, mcall'[c].pc = M!ShrinkOf(x)
               PROVE  own = x /\ mcall[c].id + 1 = filters'[x].count
    BY <1>1, <1>4 DEF LastGoes, own
  <2>1. at0 # {} /\ x = e
    BY <1>4, ShrinkIsInside DEF M!ShrinkOf
  <2> QED BY <1>2, <1>5, <1>8, <2>1 DEF last
<1>16. \A x \in BOOLEAN : filters'[x].count \in 0..filters[x].count
  BY <1>8
<1> QED BY <1>1, <1>4, <1>7, <1>10, <1>11, <1>12, <1>13, <1>14, <1>15, <1>16, KeptAlone

(* The list becomes shorter by the entry of the caller.                     *)
LEMMA KeptShrinks ==
    ASSUME McanType, McanCalls, Kept, NEW c \in McanClients, NEW e \in BOOLEAN, M!Shrink(c, e)
    PROVE  Kept'
<1> DEFINE n == filters[e].count
<1>1. /\ mcall[c].pc = M!ShrinkOf(e) /\ request' = request /\ registered' = registered
      /\ mcall[c].pc \in Inside \ {"fill"} /\ mcall[c].pc \in Removing /\ mcall[c].pc # "idle"
  BY DEF M!Shrink, M!Thread, M!ShrinkOf, Inside, McanLabels, Removing
<1>2. /\ n > 0 /\ n \in Nat /\ filters'[e].count = n - 1
      /\ filters'[e].index = filters[e].index /\ filters'[e].elem = filters[e].elem
      /\ filters'[e].cb = filters[e].cb /\ filters'[e].arg = filters[e].arg
      /\ \A x \in BOOLEAN : x # e => filters'[x] = filters[x]
      /\ M!Goto(c, M!NextOf(e))
  BY ShrinkDoes, ListIs
<1>3. /\ mcall'[c].pc = M!NextOf(e) /\ mcall'[c].reg = mcall[c].reg
      /\ \A o \in McanClients : o # c => mcall'[o] = mcall[o]
  <2>1. M!NextOf(e) \in McanLabels
    BY DEF M!NextOf, McanLabels
  <2> QED BY <1>2, <2>1, ClientMoves
<1>4. request[mcall[c].reg].ext = e /\ mcall[c].id + 1 = n /\ mcall[c].id \in Nat
  BY <1>1, ClientIs DEF Kept, LastGoes
<1>5. mcall[c].reg \in 1..Len(request) /\ mcall[c].reg # M!Null
  BY <1>1, EntryOf DEF M!Null
<1>6. HasEntry(mcall[c].reg, mcall[c].id)
  BY <1>1, <1>4 DEF Kept, ToRemove
<1>7. ASSUME NEW reg \in 1..Len(request), NEW id \in M!Places, HasEntry(reg, id), reg # mcall[c].reg
      PROVE  id < filters'[request[reg].ext].count
  <2>1. id \in Nat /\ request[reg].ext \in BOOLEAN
    BY AskedIs, PlaceIs
  <2>2. CASE request[reg].ext = e
    <3>1. id # mcall[c].id /\ id < n
      BY <1>4, <1>6, <1>7, <2>2 DEF HasEntry
    <3> QED BY <1>2, <1>4, <2>1, <2>2, <3>1
  <2>3. CASE request[reg].ext # e
    BY <1>2, <1>7, <2>1, <2>3 DEF HasEntry
  <2> QED BY <2>2, <2>3
<1>8. ~ToRemove(c)'
  <2>1. M!NextOf(e) \notin {"remLock", "find ext", M!FindOf(e), M!ShrinkOf(e)}
    BY DEF M!NextOf, M!FindOf, M!ShrinkOf
  <2> QED BY <1>1, <1>3, <1>4, <2>1 DEF ToRemove
<1>9. ASSUME NEW o \in McanClients, ToRemove(o)'
      PROVE  /\ ToRemove(o) /\ mcall'[o].reg = mcall[o].reg /\ mcall'[o].id = mcall[o].id
             /\ mcall[o].id < filters'[request[mcall[o].reg].ext].count
  <2>1. o # c /\ mcall'[o] = mcall[o] /\ ToRemove(o) /\ mcall[o].pc # "idle"
    BY <1>1, <1>3, <1>8, <1>9 DEF ToRemove, Removing
  <2>2. PICK reg, id : reg = mcall[o].reg /\ id = mcall[o].id
    OBVIOUS
  <2>3. HasEntry(reg, id) /\ reg \in 1..Len(request) /\ id \in M!Places
    BY <2>1, <2>2, EntryOf DEF Kept
  <2>4. reg # mcall[c].reg
    BY <1>5, <2>1, <2>2 DEF McanCalls
  <2> QED BY <1>7, <2>1, <2>2, <2>3, <2>4
<1>10. \A r \in registered' : HasEntry(r.reg, r.id) /\ r.reg \in 1..Len(request) /\ r.id \in M!Places
  BY <1>1, EntryOf DEF Kept
<1>11. \A r \in registered' : r.id < filters'[request[r.reg].ext].count
  BY <1>1, <1>7, <1>10 DEF McanCalls
<1>12. \A x \in BOOLEAN : \A p \in M!Places :
        /\ filters'[x].index[p] = filters[x].index[p] /\ filters'[x].elem[p] = filters[x].elem[p]
        /\ filters'[x].cb[p] = filters[x].cb[p] /\ filters'[x].arg[p] = filters[x].arg[p]
  BY <1>2
<1>13. \A x \in BOOLEAN : filters'[x].count \in 0..filters[x].count
  <2> SUFFICES ASSUME NEW x \in BOOLEAN PROVE filters'[x].count \in 0..filters[x].count
    OBVIOUS
  <2>1. CASE x = e
    BY <1>2, <2>1
  <2>2. CASE x # e
    BY <1>2, <2>2, ListIs
  <2> QED BY <2>1, <2>2
<1>14. mcall'[c].pc \notin Adding
  BY <1>3 DEF M!NextOf, Adding
<1>15. LastGoes(c)'
  BY <1>3, ShrinkIsInside DEF LastGoes
<1> QED BY <1>1, <1>3, <1>9, <1>10, <1>11, <1>12, <1>13, <1>14, <1>15, KeptAlone

LEMMA McanKeptClient ==
    ASSUME McanType, McanCalls, McanKept, NEW c \in McanClients, M!Add(c) \/ M!Remove(c)
    PROVE  McanKept'
<1> SUFFICES ASSUME mcanOdd' \cap {"moved", "otherList"} = {}
             PROVE  Kept'
  BY DEF McanKept
<1>a. mcanOdd \subseteq mcanOdd'
  BY FindDoes DEF M!Add, M!Remove, M!AddCall, M!AddLock, M!Reserve, M!Fill, M!Program, M!StoreCb, M!StoreArg,
     M!AddReturn, M!RemoveCall, M!RemoveLock, M!RemoveReturn, M!Shrink
<1>b. Kept
  BY <1>a DEF McanKept
<1>i. M!Idle.pc = "idle" /\ \A e \in BOOLEAN : M!ShrinkOf(e) \notin {"idle", "lock", "reserve", "storeCb", "find ext"}
  BY DEF M!Idle, M!ShrinkOf
<1>t. mcall[c].pc \in Adding =>
        /\ NewEntry(c) /\ mcall[c].reg \in 1..Len(request) /\ mcall[c].ext \in BOOLEAN /\ mcall[c].id \in M!Places
  BY <1>b, EntryOf, ClientIs DEF Kept, Adding
<1> USE DEF M!Thread
<1>1. ASSUME filters' = filters, request' = request, registered' = registered,
             mcall' = [mcall EXCEPT ![c] = M!Idle], mcall[c].pc # "fill"
      PROVE  Kept'
  <2>1. mcall'[c] = M!Idle /\ \A o \in McanClients : o # c => mcall'[o] = mcall[o]
    BY <1>1 DEF McanType
  <2>2. ~ToRemove(c)' /\ mcall'[c].pc \notin Adding
    BY <1>i, <2>1 DEF ToRemove, Removing, Adding
  <2> QED BY <1>1, <1>b, <1>i, <2>1, <2>2, KeptQuiet
<1>5. CASE M!AddCall(c)
  <2>1. /\ \A n \in 1..Len(request) : request'[n] = request[n]
        /\ mcall'[c].pc = "lock" /\ \A o \in McanClients : o # c => mcall'[o] = mcall[o]
    BY <1>5, CallsOfAdd
  <2>2. ~ToRemove(c)' /\ mcall'[c].pc \notin Adding /\ mcall[c].pc # "fill"
    BY <1>5, <2>1 DEF ToRemove, Removing, Adding, M!AddCall
  <2> QED BY <1>5, <1>b, <1>i, <2>1, <2>2, KeptQuiet DEF M!AddCall
<1>6. CASE M!AddLock(c)
  <2>1. mcall'[c].pc = "reserve" /\ \A o \in McanClients : o # c => mcall'[o] = mcall[o]
    BY <1>6, ClientMoves DEF M!AddLock, McanLabels
  <2>2. ~ToRemove(c)' /\ mcall'[c].pc \notin Adding /\ mcall[c].pc # "fill"
    BY <1>6, <2>1 DEF ToRemove, Removing, Adding, M!AddLock
  <2> QED BY <1>6, <1>b, <1>i, <2>1, <2>2, KeptQuiet DEF M!AddLock
<1>7. CASE M!Reserve(c)
  <2>1. CASE filters[mcall[c].ext].count < M!Room(mcall[c].ext)
    BY <1>7, <1>b, <2>1, KeptReserve
  <2>2. CASE ~(filters[mcall[c].ext].count < M!Room(mcall[c].ext))
    BY <1>1, <1>7, <2>2 DEF M!Reserve
  <2> QED BY <2>1, <2>2
<1>8. CASE M!Fill(c)
  <2>1. mcall[c].pc = "fill" /\ mcall[c].pc \in Adding /\ M!Goto(c, "program") /\ request' = request /\ registered' = registered
    BY <1>8 DEF M!Fill, Adding
  <2>2. LET e == mcall[c].ext i0 == mcall[c].id IN
        /\ Rewrites(e) /\ filters'[e].cb = filters[e].cb /\ filters'[e].arg = filters[e].arg
        /\ filters'[e].index[i0] = i0 /\ filters'[e].elem[i0] = request[mcall[c].reg].elem
        /\ \A p \in M!Places : p # i0 => filters'[e].index[p] = filters[e].index[p]
                                         /\ filters'[e].elem[p] = filters[e].elem[p]
    BY <1>8, <1>t, <2>1, FillDoes
  <2>3. /\ mcall'[c].pc = "program" /\ mcall'[c].reg = mcall[c].reg /\ mcall'[c].ext = mcall[c].ext
        /\ mcall'[c].id = mcall[c].id /\ \A o \in McanClients : o # c => mcall'[o] = mcall[o]
    BY <2>1, ClientMoves DEF McanLabels
  <2>4. mcall'[c].pc \in Adding \ {"fill"} /\ mcall'[c].pc \notin {"storeArg", "unlock"}
    BY <2>3 DEF Adding
  <2> QED BY <1>b, <2>1, <2>2, <2>3, <2>4, KeptWrites
<1>9. CASE M!Program(c)
  <2>1. /\ mcall'[c].pc = "storeCb" /\ mcall'[c].reg = mcall[c].reg /\ mcall'[c].ext = mcall[c].ext
        /\ mcall'[c].id = mcall[c].id /\ \A o \in McanClients : o # c => mcall'[o] = mcall[o]
    BY <1>9, ClientMoves DEF M!Program, McanLabels
  <2>2. ~ToRemove(c)' /\ mcall[c].pc = "program"
    BY <1>9, <2>1 DEF ToRemove, Removing, M!Program
  <2> QED BY <1>9, <1>b, <1>i, <2>1, <2>2, KeptQuiet DEF M!Program
<1>10. CASE M!StoreCb(c)
  <2>1. mcall[c].pc = "storeCb" /\ mcall[c].pc \in Adding /\ M!Goto(c, "storeArg") /\ request' = request /\ registered' = registered
    BY <1>10 DEF M!StoreCb, Adding
  <2>2. LET e == mcall[c].ext i0 == mcall[c].id IN
        /\ Rewrites(e) /\ filters'[e].cb[i0] = mcall[c].reg
        /\ filters'[e].index = filters[e].index /\ filters'[e].elem = filters[e].elem
        /\ filters'[e].arg = filters[e].arg
        /\ \A p \in M!Places : p # i0 => filters'[e].cb[p] = filters[e].cb[p]
    BY <1>10, StoreCbDoes
  <2>3. /\ mcall'[c].pc = "storeArg" /\ mcall'[c].reg = mcall[c].reg /\ mcall'[c].ext = mcall[c].ext
        /\ mcall'[c].id = mcall[c].id /\ \A o \in McanClients : o # c => mcall'[o] = mcall[o]
    BY <2>1, ClientMoves DEF McanLabels
  <2>4. mcall'[c].pc \in Adding \ {"fill"} /\ mcall'[c].pc # "unlock"
    BY <2>3 DEF Adding
  <2>5. /\ filters[mcall[c].ext].index[mcall[c].id] = mcall[c].id
        /\ filters[mcall[c].ext].elem[mcall[c].id] = request[mcall[c].reg].elem
    BY <1>t, <2>1 DEF NewEntry
  <2> QED BY <1>b, <2>1, <2>2, <2>3, <2>4, <2>5, KeptWrites
<1>11. CASE M!StoreArg(c)
  <2>1. mcall[c].pc = "storeArg" /\ mcall[c].pc \in Adding /\ M!Goto(c, "unlock") /\ request' = request /\ registered' = registered
    BY <1>11 DEF M!StoreArg, Adding
  <2>2. LET e == mcall[c].ext i0 == mcall[c].id IN
        /\ Rewrites(e) /\ filters'[e].arg[i0] = mcall[c].reg
        /\ filters'[e].index = filters[e].index /\ filters'[e].elem = filters[e].elem
        /\ filters'[e].cb = filters[e].cb
        /\ \A p \in M!Places : p # i0 => filters'[e].arg[p] = filters[e].arg[p]
    BY <1>11, StoreArgDoes
  <2>3. /\ mcall'[c].pc = "unlock" /\ mcall'[c].reg = mcall[c].reg /\ mcall'[c].ext = mcall[c].ext
        /\ mcall'[c].id = mcall[c].id /\ \A o \in McanClients : o # c => mcall'[o] = mcall[o]
    BY <2>1, ClientMoves DEF McanLabels
  <2>4. mcall'[c].pc \in Adding \ {"fill"}
    BY <2>3 DEF Adding
  <2>5. /\ filters[mcall[c].ext].index[mcall[c].id] = mcall[c].id
        /\ filters[mcall[c].ext].elem[mcall[c].id] = request[mcall[c].reg].elem
        /\ filters[mcall[c].ext].cb[mcall[c].id] = mcall[c].reg
    BY <1>t, <2>1 DEF NewEntry
  <2> QED BY <1>b, <2>1, <2>2, <2>3, <2>4, <2>5, KeptWrites
<1>12. CASE M!AddReturn(c)
  BY <1>12, <1>b, KeptReturn
<1>13. CASE M!RemoveCall(c)
  BY <1>13, <1>b, KeptRemoves
<1>14. CASE M!RemoveLock(c)
  <2>1. /\ mcall'[c].pc = "find ext" /\ mcall'[c].reg = mcall[c].reg /\ mcall'[c].id = mcall[c].id
        /\ mcall[c].pc = "remLock" /\ \A o \in McanClients : o # c => mcall'[o] = mcall[o]
    BY <1>14, ClientMoves DEF M!RemoveLock, McanLabels
  <2>2. ToRemove(c) /\ mcall'[c].pc \notin Adding
    BY <2>1 DEF ToRemove, Removing, Adding
  <2> QED BY <1>14, <1>b, <1>i, <2>1, <2>2, KeptQuiet DEF M!RemoveLock
<1>15. CASE M!RemoveReturn(c)
  BY <1>1, <1>15 DEF M!RemoveReturn
<1>16. ASSUME NEW e \in BOOLEAN, M!Find(c, e)
       PROVE  Kept'
  BY <1>16, <1>b, KeptFinds
<1>17. ASSUME NEW e \in BOOLEAN, M!Shrink(c, e)
       PROVE  Kept'
  BY <1>17, <1>b, KeptShrinks
<1> QED BY <1>5, <1>6, <1>7, <1>8, <1>9, <1>10, <1>11, <1>12, <1>13, <1>14, <1>15, <1>16, <1>17
        DEF M!Add, M!Remove

LEMMA KeptSame ==
    ASSUME McanKept, UNCHANGED <<filters, mcall, request, registered, mcanOdd>>
    PROVE  McanKept'
<1> SUFFICES ASSUME Kept PROVE Kept'
  BY DEF McanKept
<1>1. \A r \in registered' : HasEntry(r.reg, r.id)'
  BY DEF Kept, HasEntry
<1>2. \A c \in McanClients : ToRemove(c)' => HasEntry(mcall[c].reg, mcall[c].id)'
  BY DEF Kept, HasEntry, ToRemove
<1>3. \A c \in McanClients : NewEntry(c)'
  BY DEF Kept, NewEntry, ToRemove
<1>4. \A c \in McanClients : LastGoes(c)'
  BY DEF Kept, LastGoes
<1>5. \A e \in BOOLEAN : \A p \in M!Places : IndexSound(e, p)'
  BY DEF Kept, IndexSound
<1> QED BY <1>1, <1>2, <1>3, <1>4, <1>5 DEF Kept

LEMMA McanKeptIsr ==
    ASSUME McanKept, (\E f \in M!Frames : M!Arrives(f)) \/ M!IsrReads \/ M!IsrClears
    PROVE  McanKept'
<1> QED BY KeptSame DEF M!Arrives, M!IsrReads, M!IsrClears
-------------------------------------------------------------------------------
LEMMA McanInit == M!Init => McanInv
<1> SUFFICES ASSUME M!Init PROVE McanInv
  OBVIOUS
<1>1. /\ mcall = [c \in McanClients |-> M!Idle] /\ request = <<>> /\ registered = {} /\ told = M!Silent
      /\ mcanOdd = {} /\ rxFifo = <<>> /\ newMsg = FALSE /\ mcanIsr = FALSE
      /\ instMutex = [owner |-> NoMcan, depth |-> 0]
  BY DEF M!Init
<1>2. ASSUME NEW e \in BOOLEAN
      PROVE  /\ filters[e] \in M!Lists /\ filters[e].count = 0
             /\ \A p \in M!Places : filters[e].cb[p] = M!Null /\ filters[e].arg[p] = M!Null
  <2>1. filters[e] = [count |-> 0, index |-> [p \in M!Places |-> 0], elem |-> [p \in M!Places |-> {McanZero}],
                      cb |-> [p \in M!Places |-> M!Null], arg |-> [p \in M!Places |-> M!Null]]
    BY DEF M!Init
  <2>2. 0 \in M!Places /\ 0 \in 0..(McanMaxExt + McanMaxStd) /\ {McanZero} \in M!Elems
    BY McanAssumption DEF McanAssumption, M!Places, M!Room, M!Elems
  <2> QED BY <2>1, <2>2 DEF M!Lists
<1>3. \A e \in BOOLEAN : filters[e].count <= M!Room(e)
  BY <1>2, McanAssumption DEF McanAssumption, M!Room
<1>4. filters \in [BOOLEAN -> M!Lists]
  <2>1. filters = [e \in BOOLEAN |-> filters[e]]
    BY DEF M!Init
  <2> QED BY <1>2, <2>1
<1>5. 0 \in M!Places /\ M!Idle \in CallRecs /\ M!Idle.pc = "idle" /\ M!Idle.reg = M!Null
  <2>1. 0 \in M!Places
    BY McanAssumption DEF McanAssumption, M!Places, M!Room
  <2> QED BY <2>1 DEF M!Idle, CallRecs, McanLabels, M!Null
<1>6. "idle" \notin Inside \cup Adding \cup Removing \cup {"lock", "reserve"}
      /\ \A e \in BOOLEAN : M!ShrinkOf(e) # "idle"
  BY DEF Inside, Adding, Removing, M!ShrinkOf
<1>7. \A c \in McanClients : mcall[c].pc = "idle" /\ mcall[c].reg = M!Null
  BY <1>1, <1>5
<1>8. M!Silent \in Answers /\ M!Silent.cb = M!Null
  BY McanAssumption DEF M!Silent, Answers, McanAssumption
<1>9. McanType
  <2>1. request \in Seq([ext : BOOLEAN, elem : M!Elems]) /\ Len(request) <= McanAdds
    BY <1>1, McanAssumption DEF McanAssumption
  <2>2. rxFifo \in Seq(M!Frames) /\ Len(rxFifo) <= McanFifo
    BY <1>1, McanAssumption DEF McanAssumption
  <2>3. newMsg \in BOOLEAN /\ mcanIsr \in BOOLEAN /\ (newMsg /\ ~mcanIsr => rxFifo # <<>>)
    BY <1>1, Zenon
  <2>4. instMutex \in [owner : McanClients \cup {NoMcan}, depth : Nat] /\ mcall \in [McanClients -> CallRecs]
    BY <1>1, <1>5
  <2>5. registered \subseteq [reg : M!Calls, by : McanClients, id : M!Places] /\ told \in Answers /\ mcanOdd \subseteq M!Oddities
    BY <1>1, <1>8
  <2>6. \A c \in McanClients : mcall[c].pc \notin Inside /\ \A e \in BOOLEAN : mcall[c].pc # M!ShrinkOf(e)
    BY <1>6, <1>7
  <2> QED BY <1>3, <1>4, <2>1, <2>2, <2>3, <2>4, <2>5, <2>6 DEF McanType
<1>10. McanCalls
  <2>1. \A c \in McanClients : mcall[c].pc \notin {"lock", "reserve"} \cup Adding
    BY <1>6, <1>7
  <2> QED BY <1>1, <1>2, <1>7, <2>1 DEF McanCalls
<1>11. McanPlaces
  BY <1>2, <1>6, <1>7 DEF McanPlaces, PlaceSound, ClientSound
<1>12. McanTold
  BY <1>1, <1>8 DEF McanTold, M!McanDeliversToOwner
<1>13. Kept
  <2>1. \A e \in BOOLEAN : \A p \in M!Places : IndexSound(e, p)
    BY <1>2, PlaceIs DEF IndexSound
  <2>2. \A c \in McanClients : NewEntry(c) /\ LastGoes(c) /\ ~ToRemove(c)
    BY <1>6, <1>7 DEF NewEntry, LastGoes, ToRemove
  <2> QED BY <1>1, <2>1, <2>2 DEF Kept
<1> QED BY <1>9, <1>10, <1>11, <1>12, <1>13 DEF McanInv, McanKept

LEMMA McanStep == McanInv /\ [M!Next]_(M!mcanVars) => McanInv'
<1> SUFFICES ASSUME McanInv, [M!Next]_(M!mcanVars)
             PROVE  McanInv'
  OBVIOUS
<1>1. McanType /\ McanCalls /\ McanPlaces /\ McanTold /\ McanKept
  BY DEF McanInv
<1>2. ASSUME NEW c \in McanClients, M!Add(c) \/ M!Remove(c)
      PROVE  McanInv'
  BY <1>1, <1>2, McanTypeClient, McanCallsClient, McanPlacesClient, McanToldClient, McanKeptClient DEF McanInv
<1>3. CASE (\E f \in M!Frames : M!Arrives(f)) \/ M!IsrReads \/ M!IsrClears
  BY <1>1, <1>3, McanTypeIsr, McanCallsIsr, McanPlacesIsr, McanToldIsr, McanKeptIsr DEF McanInv
<1>4. CASE UNCHANGED M!mcanVars
  <2>1. McanType' /\ McanCalls'
    BY <1>1, <1>4 DEF M!mcanVars, McanType, McanCalls
  <2>2. McanPlaces'
    BY <1>1, <1>4 DEF M!mcanVars, McanPlaces, PlaceSound, ClientSound
  <2>3. McanTold'
    BY <1>1, <1>4 DEF M!mcanVars, McanTold, M!McanDeliversToOwner
  <2>4. McanKept'
    BY <1>1, <1>4, KeptSame DEF M!mcanVars
  <2> QED BY <2>1, <2>2, <2>3, <2>4 DEF McanInv
<1> QED BY <1>2, <1>3, <1>4 DEF M!Next

(* McanFilter: the type, the calls, what a place holds, what a callback     *)
(* hears and what registrations have, together, are inductive.              *)
THEOREM McanIsSound == M!Spec => []McanInv
<1> QED BY McanInit, McanStep, PTL DEF M!Spec

(* hpm_mcan_isr: a callback hears data frames of its own kind, and until a  *)
(* filter is removed those its filter lets through, with its user_data.     *)
THEOREM McanReachesOwner == Spec => []McanDeliversToOwner
<1>1. McanInv => McanDeliversToOwner
  BY DEF McanInv, McanTold, McanDeliversToOwner
<1> QED BY <1>1, McanIsSound, UnionIsEach, PTL

(* hpm_mcan_add_rx_filter and remove: between calls a registration has its  *)
(* entry, until a removal moves one or hits the other list.                 *)
THEOREM McanKeeps == Spec => []McanKeepsRegistrations
<1>1. McanInv => McanKeepsRegistrations
  <2> SUFFICES ASSUME McanInv, mcanOdd \cap {"moved", "otherList"} = {}, NEW r \in registered
               PROVE  LET q == request[r.reg] l == filters[q.ext] IN
                      \E p \in M!Places : /\ p < l.count /\ l.elem[p] = q.elem /\ l.index[p] = r.id
                                          /\ l.cb[p] = r.reg /\ l.arg[p] = r.reg
    BY DEF McanKeepsRegistrations, M!McanKeepsRegistrations
  <2>1. HasEntry(r.reg, r.id)
    BY DEF McanInv, McanKept, Kept
  <2>2. r.id \in M!Places
    BY DEF McanInv, McanType
  <2> QED BY <2>1, <2>2 DEF HasEntry
<1> QED BY <1>1, McanIsSound, UnionIsEach, PTL
-------------------------------------------------------------------------------
(* The three modules of the union keep their types.                         *)
THEOREM CanIsTyped == Spec => []TypeOK
<1>1. FrameInv => B!TypeOK
  <2> SUFFICES ASSUME FrameInv PROVE B!TypeOK
    OBVIOUS
  <2>1. Len(stb) + Len(heard) <= B!BatchLimit
    <3>1. CASE step \in {"check", "returned"}
      BY <3>1 DEF FrameInv, B!BatchLimit
    <3>2. CASE step = "load"
      BY <3>2 DEF FrameInv, B!BatchLimit
    <3>3. CASE step = "sent"
      BY <3>3 DEF FrameInv, B!BatchLimit
    <3> QED BY <3>1, <3>2, <3>3 DEF FrameInv
  <2>2. canfd \in BOOLEAN /\ path \in B!Paths
    BY DEF FrameInv
  <2> QED BY <2>1, <2>2 DEF FrameInv, B!TypeOK
<1>2. McanInv => M!TypeOK
  <2> SUFFICES ASSUME McanInv PROVE M!TypeOK
    OBVIOUS
  <2>1. \A c \in McanClients : mcall[c].pc \notin {"idle", "lock", "remLock"} => instMutex.owner = c
    BY ClientIs DEF McanInv, McanType, Inside
  <2> QED BY <2>1 DEF McanInv, McanType, M!TypeOK
<1>3. SendType => T!TypeOK
  BY DEF SendType
<1> QED BY <1>1, <1>2, <1>3, FrameIsSound, McanIsSound, SendIsTyped, UnionIsEach, PTL DEF TypeOK
===============================================================================
