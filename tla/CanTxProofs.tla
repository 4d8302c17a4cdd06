------------------------------ MODULE CanTxProofs ------------------------------
(***************************************************************************)
(* Theorems about CanTx for any number of threads, calls and frames.        *)
(***************************************************************************)
EXTENDS CanTx, TLAPS

USE DEF Req, At, Goto, Return, Fail, Holds, Unsent, Waiting, Known, CallbackOf,
        threadVars, dataVars, hwVars, history, Requests, Labels, Buses, Capped,
        CtlIdle, CtlPcs, AllCtlOps, TxSlots, FinSemInit, Notify

(* Every call record has a Boolean callback flag and fits the STB.          *)
LEMMA CallShape ==
    ASSUME NEW t \in Threads, NEW c \in CallSet(t)
    PROVE  c.cb \in BOOLEAN /\ c.frames \in 1..BatchMax
<1> DEFINE cbs == IF t \in MayBlock THEN BOOLEAN ELSE {TRUE}
<1>1. cbs \subseteq BOOLEAN
  OBVIOUS
<1>2. c \in [op : {"send"}, cb : cbs, frames : {1}]
            \cup [op : {"batch"}, cb : cbs, frames : 1..BatchMax]
  BY DEF CallSet
<1> HIDE DEF cbs
<1> QED BY <1>1, <1>2, BoundsAssumption

LEMMA InitIInv == Init => IInv
<1> SUFFICES ASSUME Init PROVE IInv
  OBVIOUS
<1> USE ThreadsAssumption, BoundsAssumption, NoReqIsNoRequest DEF Init
<1>1. TypeOK
  <2>1. fired \in [Requests -> Nat] /\ calls \in [Threads -> 0..MaxCalls]
    OBVIOUS
  <2>2. pc \in [Threads -> Labels] /\ DOMAIN call = Threads
    OBVIOUS
  <2>3. \A t \in Threads : call[t] = NoCall
    OBVIOUS
  <2>4. ctl \in CtlPcs
    OBVIOUS
  <2>5. /\ txSem \in 0..1 /\ finSem \in 0..1 /\ txMutex \in Threads \cup {NoThread}
        /\ slot \in Requests \cup {NoReq} /\ wire \in Requests \cup {NoReq}
    OBVIOUS
  <2>6. /\ started \in BOOLEAN /\ live \in BOOLEAN /\ tsif \in BOOLEAN
     /\ lost \in BOOLEAN
    BY Zenon
  <2>8. stb \in 0..BatchMax /\ bus \in Buses
    OBVIOUS
  <2>7. /\ done \subseteq Requests /\ noCb \subseteq Requests
        /\ returned \subseteq Requests /\ failed \subseteq Requests
    OBVIOUS
  <2> QED BY <2>1, <2>2, <2>3, <2>4, <2>5, <2>6, <2>7, <2>8 DEF TypeOK
<1>2. OneToken /\ CallsInProgress BY DEF OneToken, CallsInProgress
<1>3. RequestHistory /\ ControllerState BY DEF RequestHistory, ControllerState
<1>4. SlotIsOnWire /\ CallbackExactlyOnce /\ FailedIsHarmless
  BY DEF SlotIsOnWire, CallbackExactlyOnce, FailedIsHarmless
<1> QED BY <1>1, <1>2, <1>3, <1>4 DEF IInv

LEMMA CallStep ==
    ASSUME IInv, NEW t \in Threads, Call(t)
    PROVE  IInv'
<1> USE ThreadsAssumption, BoundsAssumption, NoReqIsNoRequest, CallShape, CtlAssumption
    DEF IInv, Call
<1>1. TypeOK' BY DEF TypeOK, CallsInProgress
<1>2. OneToken' BY DEF TypeOK, OneToken, CallsInProgress, ControllerState
<1>3. CallsInProgress'
  BY DEF TypeOK, CallsInProgress, RequestHistory, OneToken, ControllerState
<1>4. RequestHistory' BY DEF TypeOK, RequestHistory, CallsInProgress, ControllerState
<1>5. FailedIsHarmless' BY DEF TypeOK, FailedIsHarmless, CallsInProgress, RequestHistory
<1>6. (ControllerState /\ SlotIsOnWire /\ CallbackExactlyOnce)'
  BY DEF CallbackExactlyOnce, ControllerState, SlotIsOnWire
<1> QED BY <1>1, <1>2, <1>3, <1>4, <1>5, <1>6

LEMMA CheckStateStep ==
    ASSUME IInv, NEW t \in Threads, CheckState(t)
    PROVE  IInv'
<1> USE ThreadsAssumption, BoundsAssumption, NoReqIsNoRequest, CallShape, CtlAssumption
    DEF IInv, CheckState
<1>1. TypeOK' BY DEF TypeOK, CallsInProgress
<1>2. OneToken' BY DEF TypeOK, OneToken, CallsInProgress, ControllerState
<1>3. CallsInProgress'
  BY DEF TypeOK, CallsInProgress, RequestHistory, OneToken, ControllerState
<1>4. RequestHistory' BY DEF TypeOK, RequestHistory, CallsInProgress, ControllerState
<1>5. FailedIsHarmless' BY DEF TypeOK, FailedIsHarmless, CallsInProgress, RequestHistory
<1>6. (ControllerState /\ SlotIsOnWire /\ CallbackExactlyOnce)'
  BY DEF CallbackExactlyOnce, ControllerState, SlotIsOnWire
<1> QED BY <1>1, <1>2, <1>3, <1>4, <1>5, <1>6

LEMMA TakeSemStep ==
    ASSUME IInv, NEW t \in Threads, TakeSem(t)
    PROVE  IInv'
<1> USE ThreadsAssumption, BoundsAssumption, NoReqIsNoRequest, CallShape, CtlAssumption
    DEF IInv, TakeSem
<1>1. TypeOK' BY DEF TypeOK, CallsInProgress
<1>2. OneToken' BY DEF TypeOK, OneToken, CallsInProgress, ControllerState
<1>3. CallsInProgress'
  BY DEF TypeOK, CallsInProgress, RequestHistory, OneToken, ControllerState
<1>4. (RequestHistory /\ ControllerState /\ SlotIsOnWire /\ CallbackExactlyOnce
     /\ FailedIsHarmless)'
  BY DEF CallbackExactlyOnce, ControllerState, FailedIsHarmless, RequestHistory,
     SlotIsOnWire
<1> QED BY <1>1, <1>2, <1>3, <1>4

LEMMA SemTimeoutStep ==
    ASSUME IInv, NEW t \in Threads, SemTimeout(t)
    PROVE  IInv'
<1> USE ThreadsAssumption, BoundsAssumption, NoReqIsNoRequest, CallShape, CtlAssumption
    DEF IInv, SemTimeout
<1>1. TypeOK' BY DEF TypeOK, CallsInProgress
<1>2. OneToken' BY DEF TypeOK, OneToken, CallsInProgress, ControllerState
<1>3. CallsInProgress'
  BY DEF TypeOK, CallsInProgress, RequestHistory, OneToken, ControllerState
<1>4. RequestHistory' BY DEF TypeOK, RequestHistory, CallsInProgress, ControllerState
<1>5. FailedIsHarmless' BY DEF TypeOK, FailedIsHarmless, CallsInProgress, RequestHistory
<1>6. (ControllerState /\ SlotIsOnWire /\ CallbackExactlyOnce)'
  BY DEF CallbackExactlyOnce, ControllerState, SlotIsOnWire
<1> QED BY <1>1, <1>2, <1>3, <1>4, <1>5, <1>6

LEMMA LockStep ==
    ASSUME IInv, NEW t \in Threads, Lock(t)
    PROVE  IInv'
<1> USE ThreadsAssumption, BoundsAssumption, NoReqIsNoRequest, CallShape, CtlAssumption
    DEF IInv, Lock
<1>1. TypeOK' BY DEF TypeOK, CallsInProgress
<1>2. OneToken' BY DEF TypeOK, OneToken, CallsInProgress, ControllerState
<1>3. CallsInProgress'
  BY DEF TypeOK, CallsInProgress, RequestHistory, OneToken, ControllerState
<1>4. (RequestHistory /\ ControllerState /\ SlotIsOnWire /\ CallbackExactlyOnce
     /\ FailedIsHarmless)'
  BY DEF CallbackExactlyOnce, ControllerState, FailedIsHarmless, RequestHistory,
     SlotIsOnWire
<1> QED BY <1>1, <1>2, <1>3, <1>4

LEMMA LockTimeoutStep ==
    ASSUME IInv, NEW t \in Threads, LockTimeout(t)
    PROVE  IInv'
<1> USE ThreadsAssumption, BoundsAssumption, NoReqIsNoRequest, CallShape, CtlAssumption
    DEF IInv, LockTimeout
<1>1. TypeOK' BY DEF TypeOK, CallsInProgress
<1>2. OneToken' BY DEF TypeOK, OneToken, CallsInProgress, ControllerState
<1>3. CallsInProgress'
  BY DEF TypeOK, CallsInProgress, RequestHistory, OneToken, ControllerState
<1>4. (RequestHistory /\ ControllerState /\ SlotIsOnWire /\ CallbackExactlyOnce
     /\ FailedIsHarmless)'
  BY DEF CallbackExactlyOnce, ControllerState, FailedIsHarmless, RequestHistory,
     SlotIsOnWire
<1> QED BY <1>1, <1>2, <1>3, <1>4

LEMMA SetCallbackStep ==
    ASSUME IInv, NEW t \in Threads, SetCallback(t)
    PROVE  IInv'
<1> USE ThreadsAssumption, BoundsAssumption, NoReqIsNoRequest, CallShape, CtlAssumption
    DEF IInv, SetCallback
<1>1. TypeOK' BY DEF TypeOK, CallsInProgress
<1>2. OneToken' BY DEF TypeOK, OneToken, CallsInProgress, ControllerState
<1>3. CallsInProgress'
  BY DEF TypeOK, CallsInProgress, RequestHistory, OneToken, ControllerState
<1>4. SlotIsOnWire' BY DEF TypeOK, SlotIsOnWire, CallsInProgress, OneToken
<1>5. (RequestHistory /\ ControllerState /\ CallbackExactlyOnce /\ FailedIsHarmless)'
  BY DEF CallbackExactlyOnce, ControllerState, FailedIsHarmless, RequestHistory
<1> QED BY <1>1, <1>2, <1>3, <1>4, <1>5

LEMMA TransmitStep ==
    ASSUME IInv, NEW t \in Threads, Transmit(t)
    PROVE  IInv'
<1> USE ThreadsAssumption, BoundsAssumption, NoReqIsNoRequest, CallShape, CtlAssumption
    DEF IInv, Transmit
<1>1. TypeOK' BY DEF TypeOK, CallsInProgress
<1>2. OneToken' BY DEF TypeOK, OneToken, CallsInProgress, ControllerState
<1>3. CallsInProgress'
  BY DEF TypeOK, CallsInProgress, RequestHistory, OneToken, ControllerState
<1>4. RequestHistory' BY DEF TypeOK, RequestHistory, CallsInProgress, ControllerState
<1>5. ControllerState'
  BY DEF TypeOK, ControllerState, OneToken, CallsInProgress, RequestHistory
<1>6. SlotIsOnWire' BY DEF TypeOK, SlotIsOnWire, CallsInProgress, OneToken
<1>7. CallbackExactlyOnce'
  BY DEF TypeOK, CallbackExactlyOnce, ControllerState, RequestHistory,
     CallsInProgress, SlotIsOnWire
<1>8. FailedIsHarmless' BY DEF TypeOK, FailedIsHarmless, CallsInProgress, RequestHistory
<1> QED BY <1>1, <1>2, <1>3, <1>4, <1>5, <1>6, <1>7, <1>8

LEMMA TransmitFailsStep ==
    ASSUME IInv, NEW t \in Threads, TransmitFails(t)
    PROVE  IInv'
<1> USE ThreadsAssumption, BoundsAssumption, NoReqIsNoRequest, CallShape, CtlAssumption
    DEF IInv, TransmitFails
<1>1. TypeOK' BY DEF TypeOK, CallsInProgress
<1>2. OneToken' BY DEF TypeOK, OneToken, CallsInProgress, ControllerState
<1>3. CallsInProgress'
  BY DEF TypeOK, CallsInProgress, RequestHistory, OneToken, ControllerState
<1>4. (RequestHistory /\ ControllerState /\ SlotIsOnWire /\ CallbackExactlyOnce
     /\ FailedIsHarmless)'
  BY DEF CallbackExactlyOnce, ControllerState, FailedIsHarmless, RequestHistory,
     SlotIsOnWire
<1> QED BY <1>1, <1>2, <1>3, <1>4

LEMMA ClearCallbackStep ==
    ASSUME IInv, NEW t \in Threads, ClearCallback(t)
    PROVE  IInv'
<1> USE ThreadsAssumption, BoundsAssumption, NoReqIsNoRequest, CallShape, CtlAssumption
    DEF IInv, ClearCallback
<1>1. TypeOK' BY DEF TypeOK, CallsInProgress
<1>2. OneToken' BY DEF TypeOK, OneToken, CallsInProgress, ControllerState
<1>3. CallsInProgress'
  BY DEF TypeOK, CallsInProgress, RequestHistory, OneToken, ControllerState
<1>4. SlotIsOnWire' BY DEF TypeOK, SlotIsOnWire, CallsInProgress, OneToken
<1>5. (RequestHistory /\ ControllerState /\ CallbackExactlyOnce /\ FailedIsHarmless)'
  BY DEF CallbackExactlyOnce, ControllerState, FailedIsHarmless, RequestHistory
<1> QED BY <1>1, <1>2, <1>3, <1>4, <1>5

LEMMA UnlockStep ==
    ASSUME IInv, NEW t \in Threads, Unlock(t)
    PROVE  IInv'
<1> USE ThreadsAssumption, BoundsAssumption, NoReqIsNoRequest, CallShape, CtlAssumption
    DEF IInv, Unlock
<1>1. TypeOK' BY DEF TypeOK, CallsInProgress
<1>2. OneToken' BY DEF TypeOK, OneToken, CallsInProgress, ControllerState
<1>3. CallsInProgress'
  BY DEF TypeOK, CallsInProgress, RequestHistory, OneToken, ControllerState
<1>4. (RequestHistory /\ ControllerState /\ SlotIsOnWire /\ CallbackExactlyOnce
     /\ FailedIsHarmless)'
  BY DEF CallbackExactlyOnce, ControllerState, FailedIsHarmless, RequestHistory,
     SlotIsOnWire
<1> QED BY <1>1, <1>2, <1>3, <1>4

LEMMA UnlockFailedStep ==
    ASSUME IInv, NEW t \in Threads, UnlockFailed(t)
    PROVE  IInv'
<1> USE ThreadsAssumption, BoundsAssumption, NoReqIsNoRequest, CallShape, CtlAssumption
    DEF IInv, UnlockFailed
<1>1. TypeOK' BY DEF TypeOK, CallsInProgress
<1>2. OneToken' BY DEF TypeOK, OneToken, CallsInProgress, ControllerState
<1>3. CallsInProgress'
  BY DEF TypeOK, CallsInProgress, RequestHistory, OneToken, ControllerState
<1>4. (RequestHistory /\ ControllerState /\ SlotIsOnWire /\ CallbackExactlyOnce
     /\ FailedIsHarmless)'
  BY DEF CallbackExactlyOnce, ControllerState, FailedIsHarmless, RequestHistory,
     SlotIsOnWire
<1> QED BY <1>1, <1>2, <1>3, <1>4

LEMMA GiveBackStep ==
    ASSUME IInv, NEW t \in Threads, GiveBack(t)
    PROVE  IInv'
<1> USE ThreadsAssumption, BoundsAssumption, NoReqIsNoRequest, CallShape, CtlAssumption
    DEF IInv, GiveBack
<1>1. TypeOK' BY DEF TypeOK, CallsInProgress
<1>2. OneToken' BY DEF TypeOK, OneToken, CallsInProgress, ControllerState
<1>3. CallsInProgress'
  BY DEF TypeOK, CallsInProgress, RequestHistory, OneToken, ControllerState
<1>4. RequestHistory' BY DEF TypeOK, RequestHistory, CallsInProgress, ControllerState
<1>5. FailedIsHarmless'
  <2>1. Req(t) \notin done \cup noCb \cup {wire}
    BY DEF CallsInProgress
  <2>2. failed' = failed \cup {Req(t)} /\ UNCHANGED <<done, noCb, wire>>
    OBVIOUS
  <2> QED BY <2>1, <2>2, Zenon DEF FailedIsHarmless
<1>6. (ControllerState /\ SlotIsOnWire /\ CallbackExactlyOnce)'
  BY DEF CallbackExactlyOnce, ControllerState, SlotIsOnWire
<1> QED BY <1>1, <1>2, <1>3, <1>4, <1>5, <1>6

LEMMA AwaitFinishStep ==
    ASSUME IInv, NEW t \in Threads, AwaitFinish(t)
    PROVE  IInv'
<1> USE ThreadsAssumption, BoundsAssumption, NoReqIsNoRequest, CallShape, CtlAssumption
    DEF IInv, AwaitFinish
<1>1. TypeOK' BY DEF TypeOK, CallsInProgress
<1>2. OneToken' BY DEF TypeOK, OneToken, CallsInProgress, ControllerState
<1>3. CallsInProgress'
  BY DEF TypeOK, CallsInProgress, RequestHistory, OneToken, ControllerState
<1>4. (RequestHistory /\ ControllerState /\ SlotIsOnWire /\ CallbackExactlyOnce
     /\ FailedIsHarmless)'
  BY DEF CallbackExactlyOnce, ControllerState, FailedIsHarmless, RequestHistory,
     SlotIsOnWire
<1> QED BY <1>1, <1>2, <1>3, <1>4

LEMMA SendFrameStep ==
    ASSUME IInv, SendFrame
    PROVE  IInv'
<1> USE ThreadsAssumption, BoundsAssumption, NoReqIsNoRequest, CallShape, CtlAssumption
    DEF IInv, SendFrame
<1>1. TypeOK'
  <2>1. tsif' \in BOOLEAN
    BY Zenon
  <2>2. wire # NoReq => wire \in Requests
    BY Zenon DEF TypeOK
  <2>3. stb' \in 0..BatchMax /\ wire # NoReq
    BY DEF TypeOK, ControllerState
  <2>4. done' \subseteq Requests
    BY <2>2, <2>3 DEF TypeOK
  <2> QED BY <2>1, <2>3, <2>4 DEF TypeOK
<1>2. OneToken' BY DEF TypeOK, OneToken, CallsInProgress, ControllerState
<1>3. CallsInProgress'
  BY DEF TypeOK, CallsInProgress, RequestHistory, OneToken, ControllerState
<1>4. RequestHistory' BY DEF TypeOK, RequestHistory, CallsInProgress, ControllerState
<1>5. ControllerState'
  <2>1. wire # NoReq /\ UNCHANGED <<wire, fired>> /\ stb \in Nat /\ stb > 0
    BY DEF ControllerState, TypeOK
  <2>2. ~tsif /\ wire \notin done /\ fired[wire] = 0
    BY <2>1 DEF ControllerState
  <2>3. tsif' <=> stb = 1
    BY Zenon
  <2>4. stb' = 0 <=> stb = 1
    BY <2>1
  <2>5. wire \in done' <=> stb = 1
    BY <2>2
  <2> QED BY <2>1, <2>2, <2>3, <2>4, <2>5, Zenon DEF ControllerState
<1>6. CallbackExactlyOnce'
  BY DEF TypeOK, CallbackExactlyOnce, ControllerState, RequestHistory,
     CallsInProgress, SlotIsOnWire
<1>7. FailedIsHarmless' BY DEF TypeOK, FailedIsHarmless, CallsInProgress, RequestHistory
<1>8. (SlotIsOnWire)'
  BY DEF SlotIsOnWire
<1> QED BY <1>1, <1>2, <1>3, <1>4, <1>5, <1>6, <1>7, <1>8

LEMMA IsrStep ==
    ASSUME IInv, Isr
    PROVE  IInv'
<1> USE ThreadsAssumption, BoundsAssumption, NoReqIsNoRequest, CallShape, CtlAssumption
    DEF IInv, Isr
<1>1. TypeOK'
  <2>1. tsif' \in BOOLEAN
    BY Zenon
  <2>2. txSem' \in 0..1 /\ finSem' \in 0..1
    BY DEF TypeOK
  <2>3. fired' \in [Requests -> Nat]
    BY DEF TypeOK
  <2> QED BY <2>1, <2>2, <2>3 DEF TypeOK
<1>2. OneToken' BY DEF TypeOK, OneToken, CallsInProgress, ControllerState
<1>3. CallsInProgress'
  BY DEF TypeOK, CallsInProgress, RequestHistory, OneToken, ControllerState
<1>4. RequestHistory'
  <2>1. wire # NoReq /\ wire \in done
    BY Zenon DEF ControllerState
  <2>2. slot \in {NoReq, wire}
    BY <2>1, Zenon DEF SlotIsOnWire
  <2>3. \A r \in Requests : fired'[r] # 0 => r \in done
    BY <2>1, <2>2 DEF TypeOK, RequestHistory
  <2>4. wire' = NoReq /\ UNCHANGED <<done, noCb, failed, calls>>
    OBVIOUS
  <2> QED BY <2>3, <2>4 DEF RequestHistory
<1>5. ControllerState'
  BY DEF TypeOK, ControllerState, OneToken, CallsInProgress, RequestHistory
<1>6. SlotIsOnWire' BY DEF TypeOK, SlotIsOnWire, CallsInProgress, OneToken
<1>7. CallbackExactlyOnce'
  BY DEF TypeOK, CallbackExactlyOnce, ControllerState, RequestHistory,
     CallsInProgress, SlotIsOnWire
<1>8. FailedIsHarmless' BY DEF TypeOK, FailedIsHarmless, CallsInProgress, RequestHistory
<1> QED BY <1>1, <1>2, <1>3, <1>4, <1>5, <1>6, <1>7, <1>8

LEMMA BusChangeStep ==
    ASSUME IInv, BusChange
    PROVE  IInv'
<1> USE ThreadsAssumption, BoundsAssumption, NoReqIsNoRequest, CallShape, CtlAssumption
    DEF IInv, BusChange
<1>1. TypeOK' BY DEF TypeOK, CallsInProgress
<1>2. (OneToken /\ CallsInProgress /\ RequestHistory /\ ControllerState
     /\ SlotIsOnWire /\ CallbackExactlyOnce /\ FailedIsHarmless)'
  BY DEF CallbackExactlyOnce, CallsInProgress, ControllerState, FailedIsHarmless,
     OneToken, RequestHistory, SlotIsOnWire
<1> QED BY <1>1, <1>2

LEMMA CtlCallStep ==
    ASSUME IInv, NEW op \in CtlOps, CtlCall(op)
    PROVE  IInv'
<1> USE ThreadsAssumption, BoundsAssumption, NoReqIsNoRequest, CallShape, CtlAssumption
    DEF IInv, CtlCall
<1>1. TypeOK' BY DEF TypeOK, CallsInProgress
<1>2. (OneToken /\ CallsInProgress /\ RequestHistory /\ ControllerState
     /\ SlotIsOnWire /\ CallbackExactlyOnce /\ FailedIsHarmless)'
  BY DEF CallbackExactlyOnce, CallsInProgress, ControllerState, FailedIsHarmless,
     OneToken, RequestHistory, SlotIsOnWire
<1> QED BY <1>1, <1>2

LEMMA CtlResetStep ==
    ASSUME IInv, NEW op \in CtlOps, CtlReset(op)
    PROVE  IInv'
<1> USE ThreadsAssumption, BoundsAssumption, NoReqIsNoRequest, CallShape, CtlAssumption
    DEF IInv, CtlReset
<1>1. TypeOK'
  <2>1. live' \in BOOLEAN /\ tsif' \in BOOLEAN /\ lost' \in BOOLEAN
    BY Zenon DEF TypeOK
  <2>2. stb' \in 0..BatchMax /\ wire' \in Requests \cup {NoReq}
    BY DEF TypeOK
  <2>3. ctl' \in CtlPcs
    OBVIOUS
  <2> QED BY <2>1, <2>2, <2>3 DEF TypeOK
<1>2. OneToken' BY DEF TypeOK, OneToken, CallsInProgress, ControllerState
<1>3. CallsInProgress'
  BY DEF TypeOK, CallsInProgress, RequestHistory, OneToken, ControllerState
<1>4. RequestHistory' BY DEF TypeOK, RequestHistory, CallsInProgress, ControllerState
<1>5. ControllerState'
  <2>1. PICK kept \in {tsif, FALSE} : /\ tsif' = kept
                                     /\ wire' = IF kept THEN wire ELSE NoReq
    OBVIOUS
  <2>2. stb' = 0 /\ UNCHANGED <<done, fired>>
    OBVIOUS
  <2>3. CASE kept
    BY <2>1, <2>2, <2>3, Zenon DEF ControllerState
  <2>4. CASE ~kept
    BY <2>1, <2>2, <2>4, Zenon DEF ControllerState, TypeOK
  <2> QED BY <2>1, <2>3, <2>4
<1>6. SlotIsOnWire' BY DEF TypeOK, SlotIsOnWire, CallsInProgress, OneToken
<1>7. CallbackExactlyOnce'
  BY DEF TypeOK, CallbackExactlyOnce, ControllerState, RequestHistory,
     CallsInProgress, SlotIsOnWire
<1>8. FailedIsHarmless' BY DEF TypeOK, FailedIsHarmless, CallsInProgress, RequestHistory
<1> QED BY <1>1, <1>2, <1>3, <1>4, <1>5, <1>6, <1>7, <1>8

LEMMA CtlMarkStep ==
    ASSUME IInv, NEW op \in CtlOps, CtlMark(op)
    PROVE  IInv'
<1> USE ThreadsAssumption, BoundsAssumption, NoReqIsNoRequest, CallShape, CtlAssumption
    DEF IInv, CtlMark
<1>1. TypeOK' BY DEF TypeOK, CallsInProgress
<1>2. (OneToken /\ CallsInProgress /\ RequestHistory /\ ControllerState
     /\ SlotIsOnWire /\ CallbackExactlyOnce /\ FailedIsHarmless)'
  BY DEF CallbackExactlyOnce, CallsInProgress, ControllerState, FailedIsHarmless,
     OneToken, RequestHistory, SlotIsOnWire
<1> QED BY <1>1, <1>2

LEMMA NextIInv == IInv /\ [Next]_vars => IInv'
<1> SUFFICES ASSUME IInv, [Next]_vars PROVE IInv'
  OBVIOUS
<1>1. ASSUME NEW t \in Threads, Send(t) PROVE IInv'
  BY <1>1, CallStep, CheckStateStep, TakeSemStep, SemTimeoutStep, LockStep,
     LockTimeoutStep, SetCallbackStep, TransmitStep, TransmitFailsStep,
     ClearCallbackStep, UnlockStep, UnlockFailedStep, GiveBackStep, AwaitFinishStep
  DEF Send, Advance
<1>2. ASSUME NEW op \in CtlOps, CtlCall(op) \/ CtlReset(op) \/ CtlMark(op) PROVE IInv'
  BY <1>2, CtlCallStep, CtlResetStep, CtlMarkStep
<1>3. CASE UNCHANGED vars
  <2> USE <1>3 DEF vars
  <2>1. (TypeOK /\ OneToken)'
    BY DEF IInv, TypeOK, OneToken
  <2>2. (CallsInProgress /\ RequestHistory /\ ControllerState)'
    BY DEF IInv, CallsInProgress, RequestHistory, ControllerState
  <2>3. (SlotIsOnWire /\ CallbackExactlyOnce /\ FailedIsHarmless)'
    BY DEF IInv, SlotIsOnWire, CallbackExactlyOnce, FailedIsHarmless
  <2> QED BY <2>1, <2>2, <2>3 DEF IInv
<1> QED
  BY <1>1, <1>2, <1>3, SendFrameStep, IsrStep, BusChangeStep DEF Next, Control

(* All of the invariant holds in every state, for any number of threads,    *)
(* whatever control calls reset the controller.                             *)
THEOREM Invariant == Spec => []IInv
<1>1. Init => IInv
  BY InitIInv
<1>2. IInv /\ [Next]_vars => IInv'
  BY NextIInv
<1> QED BY <1>1, <1>2, PTL DEF Spec

(* Each variable keeps its type.                                            *)
THEOREM TypeCorrect == Spec => []TypeOK
<1>1. IInv => TypeOK
  BY DEF IInv
<1> QED BY <1>1, Invariant, PTL

(* tx_sem never admits a second request while one is being prepared or is   *)
(* on the controller.                                                       *)
THEOREM TokenSafety == Spec => []OneToken
<1>1. IInv => OneToken
  BY DEF IInv
<1> QED BY <1>1, Invariant, PTL

(* Callbacks go to the request they belong to, each exactly once.           *)
THEOREM CallbackSafety == Spec => [](SlotIsOnWire /\ CallbackExactlyOnce)
<1>1. IInv => SlotIsOnWire /\ CallbackExactlyOnce
  BY DEF IInv
<1> QED BY <1>1, Invariant, PTL

(* No send that reported an error was put on the bus.                       *)
THEOREM FailureSafety == Spec => []FailedIsHarmless
<1>1. IInv => FailedIsHarmless
  BY DEF IInv
<1> QED BY <1>1, Invariant, PTL

(* A sender that owns the token finds the secondary buffer empty, so the    *)
(* -EAGAIN of the batch code is never taken.                                *)
THEOREM BatchSafety == Spec => []BatchFindsEmptyStb
<1>1. IInv => BatchFindsEmptyStb
  BY DEF IInv, OneToken, ControllerState, BatchFindsEmptyStb
<1> QED BY <1>1, Invariant, PTL
(* The callback slot is never written while its request is outstanding.     *)
THEOREM SlotStability == Spec => SlotStable
<1>1. ASSUME IInv, [Next]_vars, wire # NoReq, wire' = wire
      PROVE  slot' = slot
  <2>1. ASSUME NEW t \in Threads, Send(t) PROVE slot' = slot
    <3>1. ~Holds(t)
      BY <1>1, Zenon DEF IInv, OneToken
    <3>2. ~SetCallback(t) /\ ~ClearCallback(t)
      BY <3>1 DEF SetCallback, ClearCallback
    <3> QED
      BY <2>1, <3>2 DEF Send, Advance, Call, CheckState, TakeSem, SemTimeout, Lock,
         LockTimeout, Transmit, TransmitFails, Unlock, UnlockFailed, GiveBack, AwaitFinish
  <2>2. ~Isr
    BY <1>1 DEF Isr
  <2>3. CASE SendFrame \/ BusChange \/ Control \/ UNCHANGED vars
    BY <2>3 DEF SendFrame, BusChange, Control, CtlCall, CtlReset, CtlMark, vars
  <2> QED BY <1>1, <2>1, <2>2, <2>3 DEF Next
<1>2. IInv /\ [Next]_vars => [wire # NoReq /\ wire' = wire => slot' = slot]_vars
  BY <1>1
<1> QED BY <1>2, Invariant, PTL DEF Spec, SlotStable

-------------------------------------------------------------------------------
(* One blocking sender                                                      *)

LEMMA InitBlockInv == Init => BlockInv
BY DEF Init, BlockInv, FinishSemaphore, ReturnedOnce, BlockingSendWasSent,
     WaiterIsOwed, NoCall

LEMMA WaitersMayBlock ==
    ASSUME IInv, NEW t \in Threads, pc[t] # "idle", ~call[t].cb
    PROVE  t \in MayBlock
BY DEF IInv, CallsInProgress, CallSet

(* A step that leaves the waiting threads, their requests, the finish       *)
(* semaphore and the request on the wire alone preserves BlockInv.          *)
Untouched ==
    /\ UNCHANGED <<finSem, wire, lost, done, noCb, returned>>
    /\ \A t \in Threads : /\ Waiting(t)' <=> Waiting(t)
                          /\ Waiting(t) => Req(t)' = Req(t)

LEMMA UntouchedBlockInv == BlockInv /\ Untouched => BlockInv'
<1> SUFFICES ASSUME BlockInv, Untouched PROVE BlockInv'
  OBVIOUS
<1>1. FinishSemaphore'
  BY DEF BlockInv, Untouched, FinishSemaphore
<1>2. ReturnedOnce' /\ BlockingSendWasSent' /\ WaiterIsOwed'
  BY DEF BlockInv, Untouched, ReturnedOnce, BlockingSendWasSent, WaiterIsOwed
<1> QED BY <1>1, <1>2 DEF BlockInv

(* The steps of a sender that neither load a request nor wait for one.      *)
LEMMA PreparingSteps ==
    ASSUME IInv, NEW t \in Threads,
           \/ Call(t) \/ CheckState(t) \/ TakeSem(t) \/ SemTimeout(t)
           \/ Lock(t) \/ LockTimeout(t) \/ SetCallback(t) \/ TransmitFails(t)
           \/ ClearCallback(t) \/ UnlockFailed(t) \/ GiveBack(t)
    PROVE  Untouched
<1> DEFINE Aside(f) == /\ f[t] \notin {"unlock", "wait"}
                       /\ \A u \in Threads \ {t} : f[u] = pc[u]
           Kept == /\ \A u \in Threads \ {t} : call'[u] = call[u] /\ calls'[u] = calls[u]
                   /\ UNCHANGED <<finSem, wire, lost, done, noCb, returned>>
<1>1. SUFFICES Aside(pc) /\ Aside(pc') /\ Kept
  BY DEF Untouched, Waiting, Req
<1>2. pc \in [Threads -> Labels] /\ DOMAIN call = Threads /\ calls \in [Threads -> 0..MaxCalls]
  BY DEF IInv, TypeOK
<1>3. CASE Call(t)
  BY <1>3, <1>2 DEF Call,
     At, Goto, Return, Fail, dataVars, hwVars, history
<1>4. CASE CheckState(t) \/ SemTimeout(t)
  BY <1>4, <1>2 DEF CheckState, SemTimeout,
     At, Goto, Return, Fail, dataVars, hwVars, history
<1>5. CASE TakeSem(t) \/ Lock(t) \/ LockTimeout(t)
  BY <1>5, <1>2 DEF TakeSem, Lock, LockTimeout,
     At, Goto, Return, Fail, dataVars, hwVars, history
<1>6. CASE SetCallback(t) \/ TransmitFails(t) \/ ClearCallback(t)
  BY <1>6, <1>2 DEF SetCallback, TransmitFails, ClearCallback,
     At, Goto, Return, Fail, dataVars, hwVars, history
<1>7. CASE UnlockFailed(t) \/ GiveBack(t)
  BY <1>7, <1>2 DEF UnlockFailed, GiveBack,
     At, Goto, Return, Fail, dataVars, hwVars, history
<1> QED BY <1>3, <1>4, <1>5, <1>6, <1>7

LEMMA NextBlockInv ==
    ASSUME SoleBlocker, IInv, BlockInv, [Next]_vars
    PROVE  BlockInv'
<1> USE ThreadsAssumption, NoReqIsNoRequest
    DEF FinishSemaphore, ReturnedOnce, BlockingSendWasSent, WaiterIsOwed
<1>1. ASSUME NEW t \in Threads,
             \/ Call(t) \/ CheckState(t) \/ TakeSem(t) \/ SemTimeout(t)
             \/ Lock(t) \/ LockTimeout(t) \/ SetCallback(t) \/ TransmitFails(t)
             \/ ClearCallback(t) \/ UnlockFailed(t) \/ GiveBack(t)
      PROVE  BlockInv'
  BY <1>1, PreparingSteps, UntouchedBlockInv
<1>2. ASSUME NEW t \in Threads, Transmit(t) PROVE BlockInv'
  <2>1. wire = NoReq /\ ~lost /\ Req(t) \notin done \cup noCb \cup returned
    BY <1>2 DEF Transmit, IInv, OneToken, CallsInProgress, BlockInv
  <2>2. /\ pc' = [pc EXCEPT ![t] = "unlock"] /\ wire' = Req(t)
        /\ noCb' = IF call[t].cb THEN noCb ELSE noCb \cup {Req(t)}
        /\ UNCHANGED <<call, calls, finSem, lost, done, returned>>
    BY <1>2 DEF Transmit
  <2>3. \A u \in Threads : Waiting(u) => u \in MayBlock /\ u # t /\ finSem = 1
    <3>1. \A u \in Threads : Waiting(u) => u \in MayBlock
      BY WaitersMayBlock
    <3>2. \A u \in Threads : Waiting(u) => Req(u) # NoReq
      BY DEF BlockInv, IInv, TypeOK
    <3> QED BY <1>2, <2>1, <3>1, <3>2 DEF Transmit, BlockInv
  <2>4. ~call[t].cb => t \in MayBlock
    BY <1>2, WaitersMayBlock DEF Transmit
  <2>5. CASE call[t].cb
    BY <2>1, <2>2, <2>3, <2>5 DEF BlockInv, IInv, TypeOK
  <2>6. CASE ~call[t].cb
    <3>1. finSem # 1 /\ \A u \in Threads : ~Waiting(u)
      BY <2>3, <2>4, <2>6 DEF SoleBlocker, BlockInv
    <3>2. \A u \in Threads : Waiting(u)' <=> u = t
      BY <2>2, <2>6, <3>1 DEF IInv, TypeOK
    <3> QED BY <2>1, <2>2, <2>6, <3>1, <3>2 DEF BlockInv, IInv, TypeOK
  <2> QED BY <2>5, <2>6
<1>3. ASSUME NEW t \in Threads, Unlock(t) PROVE BlockInv'
  BY <1>3 DEF Unlock, BlockInv, IInv, TypeOK, NoCall
<1>4. ASSUME NEW t \in Threads, AwaitFinish(t) PROVE BlockInv'
  <2>1. Waiting(t) /\ finSem = 1
    <3>1. pc[t] = "wait" /\ finSem = 1
      BY <1>4 DEF AwaitFinish, IInv, TypeOK
    <3> QED BY <3>1, Zenon DEF IInv, CallsInProgress
  <2>2. Req(t) \in done /\ Req(t) # wire
    BY <2>1 DEF BlockInv
  <2>3. \A u \in Threads : Waiting(u) => u = t
    BY <2>1, WaitersMayBlock DEF SoleBlocker
  <2>4. /\ pc' = [pc EXCEPT ![t] = "idle"] /\ call' = [call EXCEPT ![t] = NoCall]
        /\ finSem' = 0 /\ returned' = returned \cup {Req(t)}
        /\ UNCHANGED <<calls, wire, lost, done, noCb>>
    BY <1>4, <2>1 DEF AwaitFinish
  <2>5. \A u \in Threads : ~Waiting(u)'
    BY <2>3, <2>4 DEF IInv, TypeOK
  <2>6. wire \notin noCb
    BY <2>2, <2>3 DEF BlockInv
  <2> QED BY <2>2, <2>4, <2>5, <2>6 DEF BlockInv
<1>5. ASSUME SendFrame PROVE BlockInv'
  BY <1>5 DEF SendFrame, BlockInv, IInv, TypeOK
<1>6. ASSUME Isr PROVE BlockInv'
  <2>1. /\ wire # NoReq /\ wire \in done
        /\ slot = IF wire \in noCb THEN NoReq ELSE wire
    BY <1>6, Zenon DEF Isr, IInv, ControllerState, SlotIsOnWire
  <2>2. /\ UNCHANGED <<pc, call, calls, lost, done, noCb, returned>> /\ wire' = NoReq
        /\ finSem' = IF slot = NoReq THEN Capped(finSem) ELSE finSem
    BY <1>6 DEF Isr
  <2>3. CASE wire \in noCb
    <3>1. PICK t \in Threads : Waiting(t) /\ Req(t) = wire
      BY <2>3 DEF BlockInv
    <3>2. \A u \in Threads : Waiting(u) => u = t
      BY <3>1, WaitersMayBlock DEF SoleBlocker
    <3>3. finSem' = 1
      BY <2>1, <2>2, <2>3 DEF IInv, TypeOK
    <3>4. NoReq \notin noCb \cup returned /\ Req(t) # NoReq
      BY <2>1, <3>1 DEF IInv, TypeOK
    <3> QED BY <2>1, <2>2, <3>1, <3>2, <3>3, <3>4 DEF BlockInv
  <2>4. CASE wire \notin noCb
    <3>1. finSem' = finSem
      BY <2>1, <2>2, <2>4
    <3>2. \A u \in Threads : Waiting(u) => Req(u) # wire
      BY <2>4 DEF BlockInv
    <3>3. NoReq \notin noCb \cup returned
      BY DEF IInv, TypeOK
    <3> QED BY <2>2, <3>1, <3>2, <3>3 DEF BlockInv
  <2> QED BY <2>3, <2>4
<1>7. ASSUME NEW op \in CtlOps, CtlCall(op) \/ CtlReset(op) \/ CtlMark(op) PROVE BlockInv'
  <2>1. CASE CtlCall(op) \/ CtlMark(op)
    BY <2>1 DEF CtlCall, CtlMark, BlockInv
  <2>2. CASE CtlReset(op)
    <3>1. /\ UNCHANGED <<pc, call, calls, finSem, done, noCb, returned>>
          /\ \/ wire' = wire /\ lost' = lost
             \/ wire' = NoReq /\ lost' = (lost \/ wire # NoReq)
      <4>1. PICK kept \in {tsif, FALSE} :
                /\ wire' = IF kept THEN wire ELSE NoReq
                /\ lost' = (lost \/ (wire # NoReq /\ ~kept))
        BY <2>2 DEF CtlReset
      <4>2. lost \in BOOLEAN /\ kept \in BOOLEAN
        BY Zenon DEF IInv, TypeOK
      <4>3. UNCHANGED <<pc, call, calls, finSem, done, noCb, returned>>
        BY <2>2 DEF CtlReset
      <4>4. \/ wire' = wire /\ lost' = lost
            \/ wire' = NoReq /\ lost' = (lost \/ wire # NoReq)
        BY <4>1, <4>2, Zenon
      <4> QED BY <4>3, <4>4
    <3>2. NoReq \notin noCb \cup returned
     /\ \A t \in Threads : Waiting(t) => Req(t) # NoReq
      BY DEF IInv, TypeOK, BlockInv
    <3>3. (FinishSemaphore /\ ReturnedOnce /\ BlockingSendWasSent)'
      BY <3>1, <3>2 DEF BlockInv
    <3>4. (lost => lost') /\ (wire # NoReq => lost' \/ wire' = wire)
      <4>1. CASE wire' = wire /\ lost' = lost
        BY <4>1
      <4>2. CASE wire' = NoReq /\ lost' = (lost \/ wire # NoReq)
        BY <4>2, Zenon
      <4> QED BY <3>1, <4>1, <4>2
    <3>5. \A t \in Threads : Waiting(t) => wire' = Req(t) \/ finSem = 1 \/ lost'
      <4> SUFFICES ASSUME NEW t \in Threads, Waiting(t)
                   PROVE  wire' = Req(t) \/ finSem = 1 \/ lost'
        OBVIOUS
      <4>1. CASE wire = Req(t)
        BY <3>2, <3>4, <4>1
      <4>2. CASE lost
        BY <3>4, <4>2, Zenon
      <4>3. finSem = 1 \/ wire = Req(t) \/ lost
        BY DEF BlockInv
      <4> QED BY <4>1, <4>2, <4>3
    <3>6. WaiterIsOwed'
      BY <3>1, <3>5
    <3> QED BY <3>3, <3>6 DEF BlockInv
  <2> QED BY <1>7, <2>1, <2>2
<1>8. CASE BusChange \/ UNCHANGED vars
  BY <1>8 DEF BusChange, vars, BlockInv
<1> QED
  BY <1>1, <1>2, <1>3, <1>4, <1>5, <1>6, <1>7, <1>8
  DEF Next, Send, Advance, Control

(* Where one thread at most sends with a NULL callback, its call returns 0  *)
(* only after its own frames were transmitted, and only a reset can leave   *)
(* it waiting for a completion that is not coming.                          *)
THEOREM BlockingSafety == SoleBlocker => (Spec => [](BlockingSendWasSent
     /\ WaiterIsOwed))
<1> SUFFICES ASSUME SoleBlocker PROVE Spec => [](BlockingSendWasSent /\ WaiterIsOwed)
  OBVIOUS
<1>1. Init => BlockInv
  BY InitBlockInv
<1>2. IInv /\ BlockInv /\ [Next]_vars => BlockInv'
  BY NextBlockInv
<1>3. BlockInv => BlockingSendWasSent /\ WaiterIsOwed
  BY DEF BlockInv
<1> QED BY <1>1, <1>2, <1>3, Invariant, PTL DEF Spec
-------------------------------------------------------------------------------
(* Refinement: every step of the driver is a step of CanTxAbs or stutters.  *)

LEMMA AbsStep ==
    ASSUME SoleBlocker, IInv, BlockInv, [Next]_vars
    PROVE  [Abs!AbsNext]_(Abs!absVars)
<1> USE NoReqIsNoRequest DEF Abs!absVars
<1>1. ASSUME NEW t \in Threads, Transmit(t) PROVE Abs!Load(Req(t))
     /\ Req(t) \in Requests
  BY <1>1 DEF Transmit, IInv, TypeOK, OneToken, CallsInProgress, Abs!Load
<1>2. ASSUME NEW t \in Threads, AwaitFinish(t) PROVE \E r \in Requests : Abs!Tell(r)
  <2>1. pc[t] = "wait" /\ finSem = 1 /\ Req(t) \in Requests
    BY <1>2 DEF AwaitFinish, IInv, TypeOK, CallsInProgress
  <2>2. Waiting(t)
    BY <2>1, Zenon DEF IInv, CallsInProgress
  <2>3. Req(t) \in done /\ Req(t) \in noCb /\ Req(t) \notin returned
    BY <2>1, <2>2 DEF BlockInv, FinishSemaphore, ReturnedOnce
  <2>4. ~(fired[Req(t)] > 0)
    BY <2>1, <2>3 DEF IInv, TypeOK, CallbackExactlyOnce
  <2> QED BY <1>2, <2>1, <2>3, <2>4 DEF AwaitFinish, Abs!Tell
<1>3. ASSUME SendFrame
      PROVE  (Abs!Complete(wire) /\ wire \in Requests) \/ UNCHANGED Abs!absVars
  <2>1. wire \in Requests /\ wire \notin done
    BY <1>3 DEF SendFrame, IInv, TypeOK, ControllerState
  <2> QED BY <1>3, <2>1 DEF SendFrame, Abs!Complete
<1>4. ASSUME Isr PROVE \E r \in Requests : Abs!Release(r)
  <2>1. /\ wire \in Requests /\ wire \in done /\ fired[wire] = 0
        /\ slot = NoReq \/ slot = wire
    <3>1. wire # NoReq /\ wire \in done /\ fired[wire] = 0
      BY <1>4, Zenon DEF Isr, IInv, ControllerState
    <3> QED BY <3>1, Zenon DEF IInv, TypeOK, SlotIsOnWire
  <2>2. wire \notin returned
    BY DEF BlockInv, ReturnedOnce
  <2>3. CASE slot = NoReq
    BY <1>4, <2>1, <2>2, <2>3 DEF Isr, Abs!Release
  <2>4. CASE slot = wire
    <3>1. fired' = [fired EXCEPT ![wire] = 1] /\ wire # NoReq
      BY <1>4, <2>1, <2>4 DEF Isr
    <3>2. {r \in Requests : fired'[r] > 0} = {r \in Requests : fired[r] > 0} \cup {wire}
      BY <2>1, <3>1 DEF IInv, TypeOK
    <3> QED BY <1>4, <2>1, <2>2, <3>2 DEF Isr, Abs!Release
  <2> QED BY <2>1, <2>3, <2>4
<1>5. ASSUME NEW op \in CtlOps, CtlReset(op)
      PROVE  (Abs!Drop(wire) /\ wire \in Requests) \/ UNCHANGED Abs!absVars
  <2>1. (wire' = wire \/ wire' = NoReq) /\ UNCHANGED <<done, fired, returned>>
    BY <1>5 DEF CtlReset
  <2> QED BY <2>1 DEF IInv, TypeOK, Abs!Drop
<1>6. ASSUME NEW t \in Threads, Send(t), ~Transmit(t), ~AwaitFinish(t)
      PROVE  UNCHANGED <<wire, done, fired, returned>>
  BY <1>6 DEF Send, Advance, Call, CheckState, TakeSem, SemTimeout, Lock, LockTimeout,
     SetCallback, TransmitFails, ClearCallback, Unlock, UnlockFailed, GiveBack
<1>7. ASSUME BusChange \/ UNCHANGED vars \/ \E op \in CtlOps : CtlCall(op) \/ CtlMark(op)
      PROVE  UNCHANGED <<wire, done, fired, returned>>
  BY <1>7 DEF BusChange, vars, CtlCall, CtlMark
<1> QED
  <2>1. UNCHANGED <<wire, done, fired, returned>> => UNCHANGED Abs!absVars
    OBVIOUS
  <2>0. \A r \in Requests :
            Abs!Load(r) \/ Abs!Complete(r) \/ Abs!Release(r) \/ Abs!Tell(r) \/ Abs!Drop(r)
              => Abs!AbsNext
    BY Zenon DEF Abs!AbsNext
  <2> HIDE DEF Abs!absVars, Requests, Req
  <2>2. ASSUME NEW t \in Threads, Send(t) PROVE [Abs!AbsNext]_(Abs!absVars)
    <3>1. CASE Transmit(t)
      BY <1>1, <2>0, <3>1
    <3>2. CASE AwaitFinish(t)
      BY <1>2, <2>0, <3>2
    <3>3. CASE ~Transmit(t) /\ ~AwaitFinish(t)
      BY <1>6, <2>1, <2>2, <3>3
    <3> QED BY <3>1, <3>2, <3>3
  <2>3. ASSUME SendFrame \/ Isr \/ BusChange \/ UNCHANGED vars
        PROVE  [Abs!AbsNext]_(Abs!absVars)
    <3>1. CASE SendFrame
      BY <1>3, <2>0, <3>1
    <3>2. CASE Isr
      BY <1>4, <2>0, <3>2
    <3>3. CASE BusChange \/ UNCHANGED vars
      BY <1>7, <2>1, <3>3
    <3> QED BY <2>3, <3>1, <3>2, <3>3
  <2>4. ASSUME Control PROVE [Abs!AbsNext]_(Abs!absVars)
    BY <1>5, <1>7, <2>0, <2>1, <2>4, Zenon DEF Control
  <2> QED BY <2>2, <2>3, <2>4 DEF Next

(* Where one thread at most sends with a NULL callback, the driver          *)
(* implements CanTxAbs: no submitter is told twice or too early, and no     *)
(* request is loaded over another.                                          *)
THEOREM Refinement == SoleBlocker => (Spec => ImplementsAbs)
<1> SUFFICES ASSUME SoleBlocker PROVE Spec => ImplementsAbs
  OBVIOUS
<1>1. Init => BlockInv /\ Abs!AbsInit
  BY InitBlockInv DEF Init, Abs!AbsInit
<1>2. IInv /\ BlockInv /\ [Next]_vars => BlockInv'
  BY NextBlockInv
<1>3. IInv /\ BlockInv /\ [Next]_vars => [Abs!AbsNext]_(Abs!absVars)
  BY AbsStep
<1> QED BY <1>1, <1>2, <1>3, Invariant, PTL DEF Spec, ImplementsAbs, Abs!AbsSpec
===============================================================================
