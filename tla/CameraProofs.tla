----------------------------- MODULE CameraProofs -----------------------------
EXTENDS DevicesProofs, SequenceTheorems

(* CameraQueue.  A turned queue has the same buffers, each once.            *)
LEMMA TurnedIs ==
    ASSUME NEW S, NEW q \in Seq(S), NEW n \in 0..Len(q)
    PROVE  /\ Cam!Turned(q, n) \in Seq(S) /\ Len(Cam!Turned(q, n)) = Len(q)
           /\ \A i \in 1..Len(q) : Cam!Turned(q, n)[i] = IF i <= Len(q) - n THEN q[i + n] ELSE q[i + n - Len(q)]
<1> DEFINE a == SubSeq(q, n + 1, Len(q))
           b == SubSeq(q, 1, n)
<1>1. Len(q) \in Nat /\ \A i \in 1..Len(q) : q[i] \in S
  BY LenProperties, ElementOfSeq
<1>2. /\ a \in Seq(S) /\ Len(a) = Len(q) - n
      /\ \A i \in 1..(Len(q) - n) : a[i] = q[n + i]
  <2>1. \A i \in (n + 1)..Len(q) : q[i] \in S
    BY <1>1
  <2> QED BY <1>1, <2>1, SubSeqProperties
<1>3. b \in Seq(S) /\ Len(b) = n /\ \A i \in 1..n : b[i] = q[i]
  <2>1. \A i \in 1..n : q[i] \in S
    BY <1>1
  <2> QED BY <1>1, <2>1, SubSeqProperties
<1> HIDE DEF a, b
<1>4. /\ a \o b \in Seq(S) /\ Len(a \o b) = Len(a) + Len(b)
      /\ \A i \in 1..(Len(a) + Len(b)) : (a \o b)[i] = IF i <= Len(a) THEN a[i] ELSE b[i - Len(a)]
  BY <1>2, <1>3, ConcatProperties
<1>5. Cam!Turned(q, n) = a \o b
  BY DEF Cam!Turned, a, b
<1> DEFINE t == Cam!Turned(q, n)
<1>6. t \in Seq(S) /\ Len(t) = Len(q)
  BY <1>1, <1>2, <1>3, <1>4, <1>5
<1>7. ASSUME NEW i \in 1..Len(q) PROVE t[i] = IF i <= Len(q) - n THEN q[i + n] ELSE q[i + n - Len(q)]
  <2>1. t[i] = IF i <= Len(a) THEN a[i] ELSE b[i - Len(a)]
    BY <1>1, <1>2, <1>3, <1>4, <1>5
  <2>2. CASE i <= Len(q) - n
    <3> HIDE DEF t
    <3> QED BY <2>1, <2>2, <1>1, <1>2
  <2>3. CASE ~(i <= Len(q) - n)
    <3>1. i - Len(a) \in 1..n /\ i - Len(a) = i + n - Len(q)
      BY <2>3, <1>1, <1>2
    <3> HIDE DEF t
    <3>2. t[i] = b[i - Len(a)]
      BY <2>1, <2>3, <1>1, <1>2
    <3> QED BY <2>3, <3>1, <3>2, <1>3
  <2> QED BY <2>2, <2>3
<1> QED BY <1>6, <1>7

(* The elements of a sequence, and when they are all different.             *)
LEMMA Elements ==
    ASSUME NEW S, NEW q \in Seq(S)
    PROVE  /\ Cam!ToSet(q) = {q[i] : i \in 1..Len(q)} /\ Cam!ToSet(q) \subseteq S
           /\ Cam!IsInjective(q) <=> \A i, j \in 1..Len(q) : q[i] = q[j] => i = j
<1>1. DOMAIN q = 1..Len(q) /\ \A i \in 1..Len(q) : q[i] \in S
  BY LenProperties, ElementOfSeq
<1> QED BY <1>1 DEF Cam!ToSet, Cam!IsInjective

LEMMA RotationKeeps ==
    ASSUME NEW S, NEW q \in Seq(S), NEW r \in Seq(S), NEW n \in 0..Len(q), Len(r) = Len(q),
           \A i \in 1..Len(q) : r[i] = IF i <= Len(q) - n THEN q[i + n] ELSE q[i + n - Len(q)]
    PROVE  Cam!ToSet(r) = Cam!ToSet(q) /\ (Cam!IsInjective(q) => Cam!IsInjective(r))
<1>1. Len(q) \in Nat
  BY LenProperties
<1> DEFINE to(i) == IF i <= Len(q) - n THEN i + n ELSE i + n - Len(q)
           from(i) == IF i > n THEN i - n ELSE i - n + Len(q)
<1>2. \A i \in 1..Len(q) : to(i) \in 1..Len(q) /\ r[i] = q[to(i)]
  BY <1>1
<1>3. \A i \in 1..Len(q) : from(i) \in 1..Len(q) /\ to(from(i)) = i
  BY <1>1
<1>4. \A i, j \in 1..Len(q) : to(i) = to(j) => i = j
  BY <1>1
<1> HIDE DEF to, from
<1>5. \A i \in 1..Len(q) : r[from(i)] = q[i]
  BY <1>2, <1>3
<1>6. {r[i] : i \in 1..Len(q)} = {q[i] : i \in 1..Len(q)}
  <2>1. \A i \in 1..Len(q) : r[i] \in {q[j] : j \in 1..Len(q)}
    BY <1>2
  <2>2. \A i \in 1..Len(q) : q[i] \in {r[j] : j \in 1..Len(q)}
    BY <1>3, <1>5
  <2> QED BY <2>1, <2>2
<1>7. (\A i, j \in 1..Len(q) : q[i] = q[j] => i = j) => \A i, j \in 1..Len(q) : r[i] = r[j] => i = j
  <2> SUFFICES ASSUME \A i, j \in 1..Len(q) : q[i] = q[j] => i = j,
                      NEW i \in 1..Len(q), NEW j \in 1..Len(q), r[i] = r[j]
               PROVE  i = j
    OBVIOUS
  <2>1. q[to(i)] = q[to(j)] /\ to(i) \in 1..Len(q) /\ to(j) \in 1..Len(q)
    BY <1>2
  <2>2. to(i) = to(j)
    BY <2>1
  <2> QED BY <2>2, <1>4
<1> QED BY <1>6, <1>7, Elements

LEMMA TurnedKeeps ==
    ASSUME NEW S, NEW q \in Seq(S), NEW n \in 0..Len(q)
    PROVE  /\ Cam!Turned(q, n) \in Seq(S) /\ Len(Cam!Turned(q, n)) = Len(q)
           /\ Cam!ToSet(Cam!Turned(q, n)) = Cam!ToSet(q)
           /\ Cam!IsInjective(q) => Cam!IsInjective(Cam!Turned(q, n))
           /\ n < Len(q) => Cam!Turned(q, n)[1] = q[n + 1]
<1> DEFINE t == Cam!Turned(q, n)
<1>1. /\ t \in Seq(S) /\ Len(t) = Len(q) /\ Len(q) \in Nat
      /\ \A i \in 1..Len(q) : t[i] = IF i <= Len(q) - n THEN q[i + n] ELSE q[i + n - Len(q)]
  BY TurnedIs, LenProperties
<1> HIDE DEF t
<1>2. Cam!ToSet(t) = Cam!ToSet(q) /\ (Cam!IsInjective(q) => Cam!IsInjective(t))
  BY <1>1, RotationKeeps
<1>3. n < Len(q) => t[1] = q[n + 1]
  BY <1>1
<1> QED BY <1>1, <1>2, <1>3 DEF t

LEMMA TurnKeeps ==
    ASSUME NEW S, NEW q \in Seq(S)
    PROVE  /\ Cam!Turn(q) \in Seq(S) /\ Cam!ToSet(Cam!Turn(q)) = Cam!ToSet(q)
           /\ Cam!IsInjective(q) => Cam!IsInjective(Cam!Turn(q))
<1>1. CASE q = <<>>
  BY <1>1 DEF Cam!Turn
<1>2. CASE q # <<>>
  <2> DEFINE t == Tail(q)
             r == Append(t, Head(q))
  <2>1. /\ Head(q) \in S /\ t \in Seq(S) /\ Len(q) \in Nat /\ Len(t) = Len(q) - 1 /\ Len(q) # 0
        /\ \A i \in 1..Len(t) : t[i] = q[i + 1]
    BY <1>2, HeadTailProperties, LenProperties, EmptySeq
  <2>2. Head(q) = q[1]
    BY <1>2
  <2> HIDE DEF t
  <2>3. /\ r \in Seq(S) /\ Len(r) = Len(t) + 1 /\ r[Len(t) + 1] = Head(q)
        /\ \A i \in 1..Len(t) : r[i] = t[i]
    BY <2>1, AppendProperties
  <2>4. Cam!Turn(q) = r
    BY <1>2 DEF Cam!Turn, t
  <2> HIDE DEF r
  <2>5. /\ Len(r) = Len(q) /\ 1 \in 0..Len(q)
        /\ \A i \in 1..Len(q) : r[i] = IF i <= Len(q) - 1 THEN q[i + 1] ELSE q[i + 1 - Len(q)]
    BY <2>1, <2>2, <2>3
  <2> QED BY <2>3, <2>4, <2>5, RotationKeeps
<1> QED BY <1>1, <1>2

LEMMA TailDropsHead ==
    ASSUME NEW S, NEW q \in Seq(S), q # <<>>, Cam!IsInjective(q)
    PROVE  /\ Tail(q) \in Seq(S) /\ Cam!IsInjective(Tail(q)) /\ Head(q) = q[1] /\ Head(q) \in Cam!ToSet(q)
           /\ Cam!ToSet(Tail(q)) = Cam!ToSet(q) \ {Head(q)}
<1> DEFINE t == Tail(q)
<1>1. /\ Head(q) \in S /\ t \in Seq(S) /\ Len(q) \in Nat /\ Len(t) = Len(q) - 1 /\ Len(q) # 0
      /\ \A i \in 1..Len(t) : t[i] = q[i + 1]
  BY HeadTailProperties, LenProperties, EmptySeq
<1>2. Head(q) = q[1]
  OBVIOUS
<1> HIDE DEF t
<1>3. \A i, j \in 1..Len(q) : q[i] = q[j] => i = j
  BY Elements
<1>4. \A i, j \in 1..Len(t) : t[i] = t[j] => i = j
  BY <1>1, <1>3
<1>5. \A i \in 1..Len(t) : t[i] \in {q[j] : j \in 1..Len(q)} \ {q[1]}
  BY <1>1, <1>3
<1>6. \A j \in 1..Len(q) : q[j] # q[1] => q[j] \in {t[i] : i \in 1..Len(t)}
  <2> SUFFICES ASSUME NEW j \in 1..Len(q), q[j] # q[1] PROVE q[j] \in {t[i] : i \in 1..Len(t)}
    OBVIOUS
  <2>1. j - 1 \in 1..Len(t) /\ t[j - 1] = q[j]
    BY <1>1
  <2> QED BY <2>1
<1>7. q[1] \in {q[j] : j \in 1..Len(q)}
  BY <1>1
<1>8. Cam!IsInjective(t) /\ Head(q) \in Cam!ToSet(q)
  BY <1>1, <1>2, <1>4, <1>7, Elements
<1>9. Cam!ToSet(t) = Cam!ToSet(q) \ {Head(q)}
  <2>1. Cam!ToSet(q) = {q[j] : j \in 1..Len(q)} /\ Cam!ToSet(t) = {t[j] : j \in 1..Len(t)}
    BY <1>1, Elements
  <2> QED BY <1>2, <1>5, <1>6, <2>1
<1> QED BY <1>1, <1>2, <1>8, <1>9 DEF t

LEMMA AppendAdds ==
    ASSUME NEW S, NEW q \in Seq(S), NEW b \in S
    PROVE  /\ Append(q, b) \in Seq(S) /\ Cam!ToSet(Append(q, b)) = Cam!ToSet(q) \cup {b}
           /\ Cam!IsInjective(q) /\ b \notin Cam!ToSet(q) => Cam!IsInjective(Append(q, b))
<1> DEFINE r == Append(q, b)
<1>1. /\ r \in Seq(S) /\ Len(q) \in Nat /\ Len(r) = Len(q) + 1 /\ r[Len(q) + 1] = b
      /\ \A i \in 1..Len(q) : r[i] = q[i]
  BY AppendProperties, LenProperties
<1> HIDE DEF r
<1>2. {r[i] : i \in 1..Len(r)} = {q[i] : i \in 1..Len(q)} \cup {b}
  <2>1. \A i \in 1..Len(r) : r[i] \in {q[j] : j \in 1..Len(q)} \cup {b}
    BY <1>1
  <2>2. \A j \in 1..Len(q) : q[j] \in {r[i] : i \in 1..Len(r)}
    BY <1>1
  <2>3. b \in {r[i] : i \in 1..Len(r)}
    BY <1>1
  <2> QED BY <2>1, <2>2, <2>3
<1>3. (\A i, j \in 1..Len(q) : q[i] = q[j] => i = j) /\ b \notin {q[i] : i \in 1..Len(q)}
        => \A i, j \in 1..Len(r) : r[i] = r[j] => i = j
  BY <1>1
<1>4. /\ Cam!ToSet(q) = {q[i] : i \in 1..Len(q)}
      /\ Cam!ToSet(r) = {r[i] : i \in 1..Len(r)}
      /\ Cam!IsInjective(q) <=> \A i, j \in 1..Len(q) : q[i] = q[j] => i = j
      /\ Cam!IsInjective(r) <=> \A i, j \in 1..Len(r) : r[i] = r[j] => i = j
  BY <1>1, Elements
<1>5. /\ Cam!ToSet(r) = Cam!ToSet(q) \cup {b}
      /\ Cam!IsInjective(q) /\ b \notin Cam!ToSet(q) => Cam!IsInjective(r)
  BY <1>2, <1>3, <1>4
<1> QED BY <1>1, <1>5 DEF r

LEMMA FirstIs ==
    ASSUME NEW n \in Nat, NEW P \in SUBSET (1..n), P # {}
    PROVE  Cam!First(P) \in P
<1>1. P \in SUBSET Nat
  OBVIOUS
<1>2. \E i \in P : \A j \in P : i <= j
  BY <1>1, NatHasLeast
<1> QED BY <1>2 DEF Cam!First

(* The interrupt's search takes its buffer out of the queue and no other.   *)
LEMMA TakenIs ==
    ASSUME NEW S, NEW q \in Seq(S), NEW b, Cam!IsInjective(q)
    PROVE  /\ Cam!Taken(q, b)[1] \in Seq(S) /\ Cam!IsInjective(Cam!Taken(q, b)[1])
           /\ Cam!ToSet(Cam!Taken(q, b)[1]) = Cam!ToSet(q) \ {b}
           /\ Cam!Taken(q, b)[2] = IF b \in Cam!ToSet(q) THEN <<b>> ELSE <<>>
<1> DEFINE at == {i \in DOMAIN q : q[i] = b}
<1>1. DOMAIN q = 1..Len(q) /\ Len(q) \in Nat
  BY LenProperties
<1>2. at = {} <=> b \notin Cam!ToSet(q)
  BY <1>1, Elements
<1>3. CASE at = {}
  <2>1. Cam!Taken(q, b)[1] = Cam!Turn(q) /\ Cam!Taken(q, b)[2] = <<>>
    BY <1>3 DEF Cam!Taken
  <2> QED BY <2>1, <1>2, <1>3, TurnKeeps
<1>4. CASE at # {}
  <2> DEFINE n == Cam!First(at)
             t == Cam!Turned(q, n - 1)
  <2>1. Cam!Taken(q, b)[1] = Tail(t) /\ Cam!Taken(q, b)[2] = <<b>>
    BY <1>4 DEF Cam!Taken
  <2>2. n \in 1..Len(q) /\ q[n] = b
    <3>1. at \in SUBSET (1..Len(q))
      BY <1>1
    <3>2. n \in at
      BY <1>1, <1>4, <3>1, FirstIs
    <3> QED BY <1>1, <3>2
  <2> HIDE DEF n, at
  <2>3. n - 1 \in 0..Len(q) /\ n - 1 < Len(q) /\ (n - 1) + 1 = n
    BY <1>1, <2>2
  <2>4. /\ t \in Seq(S) /\ Len(t) = Len(q) /\ Cam!ToSet(t) = Cam!ToSet(q)
        /\ Cam!IsInjective(t) /\ t[1] = b
    BY <2>2, <2>3, TurnedKeeps
  <2> HIDE DEF t
  <2>5. t # <<>>
    BY <1>1, <2>2, <2>4, EmptySeq
  <2>6. Head(t) = b /\ Cam!ToSet(Tail(t)) = Cam!ToSet(t) \ {b} /\ Tail(t) \in Seq(S) /\ Cam!IsInjective(Tail(t))
    BY <2>4, <2>5, TailDropsHead
  <2> QED BY <2>1, <2>4, <2>6, <1>2, <1>4
<1> QED BY <1>3, <1>4

-------------------------------------------------------------------------------
CamFine == camOdd \cap {"late", "starved", "cancelled", "format", "refused"} = {}
CamFed == fb1 \in Cam!Queued \/ (fb1 = OwnBuf /\ camBuffer)
CamOwnFirst == CamFine /\ camBuffer => fb1 \in {OwnBuf, "none"}
CamNotYet == fb1 = "none" => ~video.cam /\ ~frame /\ camIrq = {}
CamFramesFed ==
    CamFine =>
      /\ "unfilled" \notin camOdd /\ "notQueued" \notin camOdd
      /\ frame /\ "sof" \notin camIrq => CamFed
      /\ frame /\ "done" \in camIrq => "sof" \in camIrq
      /\ "done" \in camIrq => fb1 = OwnBuf \/ (fb1 \in Cam!Queued /\ fb1 \in filled)
CamInv ==
    /\ Cam!TypeOK /\ Cam!CamBufferHasOnePlace /\ Cam!CamOkMeansBoth
    /\ CamOwnFirst /\ CamNotYet /\ CamFramesFed

LEMMA CamInit == Cam!Init => CamInv
<1> SUFFICES ASSUME Cam!Init PROVE CamInv
  OBVIOUS
<1>1. Cam!ToSet(<<>>) = {} /\ Cam!IsInjective(<<>>)
  BY DEF Cam!ToSet, Cam!IsInjective
<1>2. Cam!TypeOK
  <2>1. camIn \in Seq(VideoBufs) /\ camOut \in Seq(VideoBufs)
    BY EmptySeq DEF Cam!Init
  <2> QED BY <2>1 DEF Cam!Init, Cam!TypeOK
<1>3. Cam!CamBufferHasOnePlace
  BY <1>1 DEF Cam!Init, Cam!CamBufferHasOnePlace, Cam!Queued
<1> QED BY <1>2, <1>3 DEF Cam!Init, CamInv, Cam!CamOkMeansBoth, CamOwnFirst, CamNotYet, CamFramesFed

(* After a start of frame the queue has the same buffers, and the frame     *)
(* buffer is the one it was or one of them.                                 *)
LEMMA StartIs ==
    ASSUME CamInv
    PROVE  /\ Cam!AfterStart[1] \in Seq(VideoBufs) /\ Cam!IsInjective(Cam!AfterStart[1])
           /\ Cam!ToSet(Cam!AfterStart[1]) = Cam!Queued
           /\ Cam!AfterStart[2] = fb1 \/ Cam!AfterStart[2] \in Cam!Queued
           /\ "sof" \notin camIrq \/ camBuffer => Cam!AfterStart[2] = fb1
           /\ "sof" \in camIrq /\ ~camBuffer /\ Cam!Others # {} => Cam!AfterStart[2] \in Cam!Queued
<1>1. camIn \in Seq(VideoBufs) /\ Cam!IsInjective(camIn) /\ Cam!ToSet(camIn) = Cam!Queued
  BY DEF CamInv, Cam!TypeOK, Cam!CamBufferHasOnePlace, Cam!Queued
<1>2. CASE "sof" \notin camIrq \/ camBuffer
  <2>1. Cam!AfterStart = <<camIn, fb1>>
    BY <1>2 DEF Cam!AfterStart
  <2> QED BY <1>1, <1>2, <2>1
<1>3. CASE "sof" \in camIrq /\ ~camBuffer /\ Cam!Others = {}
  <2>1. Cam!AfterStart = <<Cam!Turn(camIn), fb1>>
    BY <1>3 DEF Cam!AfterStart
  <2> QED BY <1>1, <1>3, <2>1, TurnKeeps
<1>4. CASE "sof" \in camIrq /\ ~camBuffer /\ Cam!Others # {}
  <2> DEFINE n == Cam!First(Cam!Others)
  <2>1. Cam!AfterStart = <<Cam!Turned(camIn, n), camIn[n]>>
    BY <1>4 DEF Cam!AfterStart
  <2>2. n \in 1..Len(camIn) /\ Len(camIn) \in Nat
    <3>1. DOMAIN camIn = 1..Len(camIn) /\ Len(camIn) \in Nat
      BY <1>1, LenProperties
    <3>2. Cam!Others \in SUBSET (1..Len(camIn))
      BY <3>1 DEF Cam!Others
    <3> QED BY <1>4, <3>1, <3>2, FirstIs
  <2> HIDE DEF n
  <2>3. camIn[n] \in Cam!Queued
    BY <1>1, <2>2, Elements
  <2>4. n \in 0..Len(camIn)
    BY <2>2
  <2> QED BY <1>1, <1>4, <2>1, <2>3, <2>4, TurnedKeeps
<1> QED BY <1>2, <1>3, <1>4

(* The queue that gave a buffer back gives it back at its end.              *)
LEMMA GivenBack ==
    ASSUME NEW S, NEW q \in Seq(S), NEW b \in S, Cam!IsInjective(q), b \notin Cam!ToSet(q)
    PROVE  /\ q \o <<b>> \in Seq(S) /\ Cam!IsInjective(q \o <<b>>) /\ Cam!ToSet(q \o <<b>>) = Cam!ToSet(q) \cup {b}
           /\ Cam!ToSet(<<b>>) = {b}
<1>1. q \o <<b>> = Append(q, b)
  BY AppendIsConcat
<1>2. Cam!ToSet(<<b>>) = {b}
  <2> DEFINE one == <<b>>
  <2>1. DOMAIN one = {1} /\ one[1] = b
    OBVIOUS
  <2> HIDE DEF one
  <2>2. Cam!ToSet(one) = {b}
    BY <2>1 DEF Cam!ToSet
  <2> QED BY <2>2 DEF one
<1>3. /\ Append(q, b) \in Seq(S) /\ Cam!IsInjective(Append(q, b))
      /\ Cam!ToSet(Append(q, b)) = Cam!ToSet(q) \cup {b}
  BY AppendAdds
<1> QED BY <1>1, <1>2, <1>3, Zenon

LEMMA CamEnqueue == ASSUME CamInv, NEW b \in VideoBufs, Cam!Enqueue(b) PROVE CamInv'
<1>1. /\ camIn' \in Seq(VideoBufs) /\ Cam!Queued' = Cam!Queued \cup {b} /\ Cam!IsInjective(camIn)'
  <2>1. camIn \in Seq(VideoBufs) /\ Cam!IsInjective(camIn) /\ b \notin Cam!ToSet(camIn) /\ camIn' = Append(camIn, b)
    BY DEF CamInv, Cam!TypeOK, Cam!CamBufferHasOnePlace, Cam!Queued, Cam!Enqueue
  <2> QED BY <2>1, AppendAdds DEF Cam!Queued
<1>2. Cam!TypeOK'
  BY <1>1 DEF CamInv, Cam!TypeOK, Cam!Enqueue, Cam!camera
<1>3. Cam!CamBufferHasOnePlace'
  BY <1>1 DEF CamInv, Cam!TypeOK, Cam!CamBufferHasOnePlace, Cam!Enqueue
<1>4. Cam!CamOkMeansBoth' /\ CamOwnFirst' /\ CamNotYet'
  BY DEF CamInv, Cam!CamOkMeansBoth, CamOwnFirst, CamNotYet, CamFine, Cam!Enqueue, Cam!camera
<1>5. CamFramesFed'
  <2>1. b \notin Cam!Queued
    BY DEF CamInv, Cam!CamBufferHasOnePlace, Cam!Enqueue
  <2> QED BY <1>1, <2>1 DEF CamInv, CamFramesFed, CamFine, CamFed, Cam!Enqueue, Cam!camera
<1> QED BY <1>2, <1>3, <1>4, <1>5 DEF CamInv

LEMMA CamDequeue == ASSUME CamInv, Cam!Dequeue PROVE CamInv'
<1>1. /\ camOut' \in Seq(VideoBufs) /\ Cam!IsInjective(camOut)' /\ Head(camOut) \in Cam!ToSet(camOut)
      /\ Cam!ToSet(camOut)' = Cam!ToSet(camOut) \ {Head(camOut)} /\ Head(camOut) \in VideoBufs
  <2>1. camOut \in Seq(VideoBufs) /\ Cam!IsInjective(camOut) /\ camOut # <<>> /\ camOut' = Tail(camOut)
    BY DEF CamInv, Cam!TypeOK, Cam!CamBufferHasOnePlace, Cam!Dequeue
  <2> QED BY <2>1, TailDropsHead, Elements
<1>2. Cam!TypeOK'
  BY <1>1 DEF CamInv, Cam!TypeOK, Cam!Dequeue, Cam!camera
<1>3. Cam!CamBufferHasOnePlace'
  BY <1>1 DEF CamInv, Cam!TypeOK, Cam!CamBufferHasOnePlace, Cam!Dequeue, Cam!Queued
<1> QED BY <1>2, <1>3
        DEF CamInv, Cam!CamOkMeansBoth, CamOwnFirst, CamNotYet, CamFramesFed, CamFine, CamFed, Cam!Dequeue, Cam!camera, Cam!Queued

LEMMA CamFlushTakes == ASSUME CamInv, Cam!FlushTakes PROVE CamInv'
<1>1. /\ camIn' \in Seq(VideoBufs) /\ Cam!IsInjective(camIn)' /\ Head(camIn) \in Cam!Queued
      /\ Cam!Queued' = Cam!Queued \ {Head(camIn)} /\ Head(camIn) \in VideoBufs
  <2>1. camIn \in Seq(VideoBufs) /\ Cam!IsInjective(camIn) /\ camIn # <<>> /\ camIn' = Tail(camIn)
    BY DEF CamInv, Cam!TypeOK, Cam!CamBufferHasOnePlace, Cam!FlushTakes
  <2> QED BY <2>1, TailDropsHead, Elements DEF Cam!Queued
<1>2. Cam!TypeOK'
  BY <1>1 DEF CamInv, Cam!TypeOK, Cam!FlushTakes, Cam!camera
<1>3. Cam!CamBufferHasOnePlace'
  BY <1>1 DEF CamInv, Cam!TypeOK, Cam!CamBufferHasOnePlace, Cam!FlushTakes
<1>4. CamFramesFed'
  BY DEF CamFramesFed, CamFine, Cam!FlushTakes
<1> QED BY <1>2, <1>3, <1>4 DEF CamInv, Cam!CamOkMeansBoth, CamOwnFirst, CamNotYet, CamFine, Cam!FlushTakes, Cam!camera

LEMMA CamFlushPuts == ASSUME CamInv, NEW b \in VideoBufs, Cam!FlushPuts(b) PROVE CamInv'
<1>1. /\ camOut' \in Seq(VideoBufs) /\ Cam!ToSet(camOut)' = Cam!ToSet(camOut) \cup {b} /\ Cam!IsInjective(camOut)'
  <2>1. camOut \in Seq(VideoBufs) /\ Cam!IsInjective(camOut) /\ b \notin Cam!ToSet(camOut) /\ camOut' = Append(camOut, b)
    BY DEF CamInv, Cam!TypeOK, Cam!CamBufferHasOnePlace, Cam!FlushPuts
  <2> QED BY <2>1, AppendAdds
<1>2. Cam!TypeOK'
  BY <1>1 DEF CamInv, Cam!TypeOK, Cam!FlushPuts, Cam!camera
<1>3. Cam!CamBufferHasOnePlace'
  BY <1>1 DEF CamInv, Cam!TypeOK, Cam!CamBufferHasOnePlace, Cam!FlushPuts, Cam!Queued
<1> QED BY <1>2, <1>3
        DEF CamInv, Cam!CamOkMeansBoth, CamOwnFirst, CamNotYet, CamFramesFed, CamFine, CamFed, Cam!FlushPuts, Cam!camera, Cam!Queued

LEMMA CamSetFormat == ASSUME CamInv, Cam!SetFormat PROVE CamInv'
<1>1. PICK ok \in BOOLEAN :
        video' = [video EXCEPT !.same = ok, !.last = IF ok THEN "format" ELSE "none"]
  BY DEF Cam!SetFormat
<1>2. Cam!TypeOK' /\ Cam!CamOkMeansBoth'
  BY <1>1 DEF CamInv, Cam!TypeOK, Cam!CamOkMeansBoth, Cam!SetFormat, Cam!queues
<1>3. Cam!CamBufferHasOnePlace'
  BY DEF CamInv, Cam!CamBufferHasOnePlace, Cam!SetFormat, Cam!queues, Cam!Queued
<1>4. CamOwnFirst' /\ CamNotYet' /\ CamFramesFed'
  BY CamAssumption DEF CamAssumption, CamInv, CamOwnFirst, CamNotYet, CamFramesFed, CamFine, CamFed,
                       Cam!SetFormat, Cam!queues, Cam!Queued
<1> QED BY <1>2, <1>3, <1>4 DEF CamInv

LEMMA CamFormatRefused == ASSUME CamInv, Cam!FormatRefused PROVE CamInv'
<1>1. PICK allocated \in BOOLEAN, same \in BOOLEAN :
        /\ camBuffer' = (camBuffer \/ allocated)
        /\ video' = [video EXCEPT !.same = same, !.last = "none"]
  BY DEF Cam!FormatRefused
<1>2. Cam!TypeOK' /\ Cam!CamOkMeansBoth' /\ CamNotYet'
  BY <1>1 DEF CamInv, Cam!TypeOK, Cam!CamOkMeansBoth, CamNotYet, Cam!FormatRefused, Cam!queues
<1>3. Cam!CamBufferHasOnePlace'
  BY DEF CamInv, Cam!CamBufferHasOnePlace, Cam!FormatRefused, Cam!queues, Cam!Queued
<1>4. CamOwnFirst' /\ CamFramesFed'
  <2> SUFFICES ASSUME CamFine'
               PROVE  (camBuffer' => fb1' \in {OwnBuf, "none"}) /\ CamFramesFed'
    BY DEF CamOwnFirst, CamFramesFed
  <2>1. CamFine /\ camOdd' \subseteq camOdd /\ ~(camBuffer' /\ fb1 \in VideoBufs)
    BY DEF CamFine, Cam!FormatRefused
  <2>2. camBuffer' => fb1' \in {OwnBuf, "none"}
    BY <2>1 DEF CamInv, Cam!TypeOK, Cam!FormatRefused
  <2>3. CamFed => CamFed'
    BY <1>1 DEF CamFed, Cam!FormatRefused, Cam!queues, Cam!Queued
  <2>4. CamFramesFed'
    BY <2>1, <2>3 DEF CamInv, CamFramesFed, CamFed, Cam!FormatRefused, Cam!queues, Cam!Queued
  <2> QED BY <2>2, <2>4
<1> QED BY <1>2, <1>3, <1>4 DEF CamInv

LEMMA CamStreams == ASSUME CamInv, Cam!StreamStart \/ Cam!StreamStop PROVE CamInv'
<1>1. Cam!TypeOK' /\ Cam!CamOkMeansBoth' /\ CamNotYet'
  <2>1. CASE Cam!StreamStart
    BY <2>1 DEF CamInv, Cam!TypeOK, Cam!CamOkMeansBoth, CamNotYet, Cam!StreamStart, Cam!queues, Cam!camera
  <2>2. CASE Cam!StreamStop
    BY <2>2 DEF CamInv, Cam!TypeOK, Cam!CamOkMeansBoth, CamNotYet, Cam!StreamStop, Cam!queues, Cam!camera
  <2> QED BY <2>1, <2>2
<1>2. UNCHANGED <<camIn, camOut, camUser, camHeld, camBuffer, fb1, camIrq, frame, filled, camOdd>>
  BY DEF Cam!StreamStart, Cam!StreamStop, Cam!queues, Cam!camera
<1> QED BY <1>1, <1>2
        DEF CamInv, Cam!CamBufferHasOnePlace, CamOwnFirst, CamNotYet, CamFramesFed, CamFine, CamFed, Cam!Queued

LEMMA CamFrameStarts == ASSUME CamInv, Cam!FrameStarts PROVE CamInv'
<1>1. Cam!TypeOK'
  BY DEF CamInv, Cam!TypeOK, Cam!FrameStarts, Cam!queues, Cam!camera
<1>2. Cam!CamBufferHasOnePlace' /\ Cam!CamOkMeansBoth'
  BY DEF CamInv, Cam!CamBufferHasOnePlace, Cam!CamOkMeansBoth, Cam!FrameStarts, Cam!queues, Cam!Queued
<1>3. CamOwnFirst' /\ CamNotYet' /\ CamFramesFed'
  BY DEF CamInv, CamOwnFirst, CamNotYet, CamFramesFed, CamFine, CamFed, Cam!FrameStarts, Cam!queues, Cam!camera, Cam!Queued
<1> QED BY <1>1, <1>2, <1>3 DEF CamInv

LEMMA CamFrameEnds == ASSUME CamInv, Cam!FrameEnds PROVE CamInv'
<1>1. Cam!TypeOK'
  BY DEF CamInv, Cam!TypeOK, Cam!FrameEnds, Cam!queues, Cam!camera
<1>2. Cam!CamBufferHasOnePlace' /\ Cam!CamOkMeansBoth'
  BY DEF CamInv, Cam!CamBufferHasOnePlace, Cam!CamOkMeansBoth, Cam!FrameEnds, Cam!queues, Cam!Queued
<1>3. CamOwnFirst' /\ CamNotYet'
  BY DEF CamInv, CamOwnFirst, CamNotYet, CamFine, Cam!FrameEnds, Cam!camera
<1>4. CamFramesFed'
  <2> SUFFICES ASSUME CamFine'
               PROVE  /\ "unfilled" \notin camOdd' /\ "notQueued" \notin camOdd'
                      /\ fb1 = OwnBuf \/ (fb1 \in Cam!Queued /\ fb1 \in filled')
    BY DEF CamFramesFed, Cam!FrameEnds, Cam!queues, Cam!camera, Cam!Queued
  <2>1. CamFine /\ "sof" \notin camIrq /\ frame
    BY DEF CamFine, Cam!FrameEnds
  <2>2. CamFed /\ "unfilled" \notin camOdd /\ "notQueued" \notin camOdd
    BY <2>1 DEF CamInv, CamFramesFed
  <2>3. camOdd' = camOdd
    BY <2>1, <2>2 DEF Cam!FrameEnds, CamFed
  <2>4. Cam!Queued \subseteq VideoBufs
    BY Elements DEF CamInv, Cam!TypeOK, Cam!Queued
  <2> QED BY <2>2, <2>3, <2>4 DEF CamFed, Cam!FrameEnds
<1> QED BY <1>1, <1>2, <1>3, <1>4 DEF CamInv

(* The interrupt: with the driver's own frame it frees the driver's buffer, *)
(* else it takes the frame buffer out of the queue and gives it back.       *)
LEMMA CamIsr == ASSUME CamInv, Cam!Isr PROVE CamInv'
<1> DEFINE start == Cam!AfterStart
           b     == IF "done" \in camIrq THEN start[2] ELSE "none"
           found == Cam!Taken(start[1], b)
           own   == "done" \in camIrq /\ camBuffer /\ start[2] = OwnBuf
           late  == IF camIrq = {"sof", "done"} THEN {"late"} ELSE {}
           starved == IF "sof" \in camIrq /\ ~camBuffer /\ Cam!Others = {} /\ fb1 \notin Cam!Queued
                      THEN {"starved"} ELSE {}
           unfilled == IF ~own /\ ~(Cam!ToSet(found[2]) \subseteq filled) THEN {"unfilled"} ELSE {}
<1>1. /\ camIrq # {} /\ camIrq' = {} /\ fb1' = start[2]
      /\ own => camBuffer' = FALSE /\ camIn' = start[1] /\ camOut' = camOut
      /\ ~own => camIn' = found[1] /\ camOut' = camOut \o found[2] /\ camBuffer' = camBuffer
      /\ camOdd' = camOdd \cup late \cup starved \cup unfilled
      /\ camUser' = camUser /\ camHeld' = camHeld /\ frame' = frame /\ filled' = filled /\ video' = video
  BY DEF Cam!Isr
<1>2. /\ start[1] \in Seq(VideoBufs) /\ Cam!IsInjective(start[1]) /\ Cam!ToSet(start[1]) = Cam!Queued
      /\ start[2] = fb1 \/ start[2] \in Cam!Queued
      /\ "sof" \notin camIrq \/ camBuffer => start[2] = fb1
      /\ "sof" \in camIrq /\ ~camBuffer /\ Cam!Others # {} => start[2] \in Cam!Queued
  BY StartIs
<1>3. /\ Cam!Queued \subseteq VideoBufs /\ OwnBuf \notin VideoBufs /\ "none" \notin VideoBufs /\ OwnBuf # "none"
      /\ camOut \in Seq(VideoBufs) /\ Cam!IsInjective(camOut)
  BY Elements, CamAssumption DEF CamAssumption, CamInv, Cam!TypeOK, Cam!CamBufferHasOnePlace, Cam!Queued
<1> HIDE DEF start
<1>4. /\ found[1] \in Seq(VideoBufs) /\ Cam!IsInjective(found[1]) /\ Cam!ToSet(found[1]) = Cam!Queued \ {b}
      /\ found[2] = IF b \in Cam!Queued THEN <<b>> ELSE <<>>
  BY <1>2, TakenIs
<1> HIDE DEF found
<1>5. Cam!ToSet(<<>>) = {}
  BY DEF Cam!ToSet
<1>8. fb1 # "none" /\ CamNotYet'
  BY <1>1, <1>2, <1>3 DEF CamInv, CamNotYet
<1>6. CASE own
  <2>1. /\ camIn' \in Seq(VideoBufs) /\ Cam!IsInjective(camIn)' /\ Cam!Queued' = Cam!Queued
        /\ camOut' = camOut /\ camBuffer' = FALSE /\ unfilled = {}
    BY <1>1, <1>2, <1>6 DEF Cam!Queued
  <2>2. Cam!CamBufferHasOnePlace'
    BY <1>1, <2>1 DEF CamInv, Cam!CamBufferHasOnePlace
  <2>3. Cam!TypeOK'
    BY <1>1, <1>2, <1>3, <2>1 DEF CamInv, Cam!TypeOK
  <2>4. CamFramesFed'
    <3> SUFFICES ASSUME CamFine'
                 PROVE  "unfilled" \notin camOdd' /\ "notQueued" \notin camOdd' /\ frame' = FALSE
      BY <1>1 DEF CamFramesFed
    <3>1. CamFine /\ camIrq # {"sof", "done"}
      BY <1>1 DEF CamFine
    <3>2. "sof" \notin camIrq
      BY <1>6, <3>1 DEF CamInv, Cam!TypeOK
    <3>3. frame = FALSE
      <4>1. ~frame
        BY <1>6, <3>1, <3>2 DEF CamInv, CamFramesFed
      <4>2. frame \in BOOLEAN
        BY DEF CamInv, Cam!TypeOK
      <4> QED BY <4>1, <4>2, Zenon
    <3> QED BY <1>1, <2>1, <3>1, <3>3 DEF CamInv, CamFramesFed
  <2>5. CamOwnFirst' /\ Cam!CamOkMeansBoth'
    BY <1>1, <2>1 DEF CamInv, CamOwnFirst, Cam!CamOkMeansBoth
  <2> QED BY <1>8, <2>2, <2>3, <2>4, <2>5 DEF CamInv
<1>7. CASE ~own
  <2>1. /\ camIn' \in Seq(VideoBufs) /\ Cam!IsInjective(camIn)' /\ Cam!Queued' = Cam!Queued \ {b}
        /\ camBuffer' = camBuffer /\ camOut' = camOut \o found[2]
    BY <1>1, <1>4, <1>7 DEF Cam!Queued
  <2>2. /\ camOut' \in Seq(VideoBufs) /\ Cam!IsInjective(camOut)'
        /\ Cam!ToSet(camOut)' = Cam!ToSet(camOut) \cup (Cam!Queued \cap {b})
        /\ Cam!ToSet(found[2]) = Cam!Queued \cap {b}
    <3>1. CASE b \in Cam!Queued
      <4>1. b \in VideoBufs /\ b \notin Cam!ToSet(camOut)
        BY <1>3, <3>1 DEF CamInv, Cam!CamBufferHasOnePlace
      <4>2. found[2] = <<b>> /\ Cam!Queued \cap {b} = {b}
        BY <1>4, <3>1
      <4> QED BY <1>3, <2>1, <4>1, <4>2, GivenBack
    <3>2. CASE b \notin Cam!Queued
      <4>1. found[2] = <<>> /\ Cam!Queued \cap {b} = {}
        BY <1>4, <3>2
      <4>2. camOut' = camOut
        BY <1>3, <2>1, <4>1, ConcatEmptySeq
      <4> QED BY <1>3, <1>5, <4>1, <4>2
    <3> QED BY <3>1, <3>2
  <2>3. Cam!CamBufferHasOnePlace'
    BY <1>1, <2>1, <2>2 DEF CamInv, Cam!CamBufferHasOnePlace
  <2>4. Cam!TypeOK'
    BY <1>1, <1>2, <1>3, <2>1, <2>2 DEF CamInv, Cam!TypeOK
  <2>5. CamOwnFirst'
    BY <1>1, <1>2, <2>1 DEF CamInv, CamOwnFirst, CamFine
  <2>6. CamFramesFed'
    <3> SUFFICES ASSUME CamFine'
                 PROVE  "unfilled" \notin camOdd' /\ "notQueued" \notin camOdd' /\ (frame' => CamFed')
      BY <1>1 DEF CamFramesFed
    <3>1. CamFine /\ camIrq # {"sof", "done"} /\ starved = {}
      BY <1>1 DEF CamFine
    <3>2. camIrq = {"sof"} \/ camIrq = {"done"}
      BY <1>1, <3>1 DEF CamInv, Cam!TypeOK
    <3>3. CASE camIrq = {"sof"}
      <4>1. Cam!Queued' = Cam!Queued /\ unfilled = {}
        BY <1>3, <2>1, <2>2, <3>3
      <4>2. CamFed'
        BY <1>1, <1>2, <1>8, <2>1, <3>1, <3>3, <4>1 DEF CamInv, CamOwnFirst, CamFed
      <4> QED BY <1>1, <3>1, <4>1, <4>2 DEF CamInv, CamFramesFed
    <3>4. CASE camIrq = {"done"}
      <4>1. /\ b = fb1 /\ ~frame /\ (fb1 = OwnBuf \/ (fb1 \in Cam!Queued /\ fb1 \in filled))
            /\ "unfilled" \notin camOdd /\ "notQueued" \notin camOdd
        BY <1>2, <3>1, <3>4 DEF CamInv, CamFramesFed
      <4>2. Cam!ToSet(found[2]) \subseteq filled
        <5>1. Cam!Queued \cap {b} \subseteq filled
          BY <1>3, <4>1
        <5> QED BY <2>2, <5>1
      <4>3. unfilled = {} /\ late = {}
        BY <3>4, <4>2
      <4> HIDE DEF unfilled, late, starved
      <4>4. camOdd' = camOdd
        BY <1>1, <3>1, <4>3
      <4> QED BY <1>1, <4>1, <4>4
    <3> QED BY <3>2, <3>3, <3>4
  <2>7. Cam!CamOkMeansBoth'
    BY <1>1 DEF CamInv, Cam!CamOkMeansBoth
  <2> QED BY <1>8, <2>3, <2>4, <2>5, <2>6, <2>7 DEF CamInv
<1> QED BY <1>6, <1>7

LEMMA CamStep == CamInv /\ [Cam!Next]_(Cam!camVars) => CamInv'
<1> SUFFICES ASSUME CamInv, [Cam!Next]_(Cam!camVars) PROVE CamInv'
  OBVIOUS
<1>1. CASE UNCHANGED Cam!camVars
  BY <1>1 DEF CamInv, Cam!TypeOK, Cam!CamBufferHasOnePlace, Cam!CamOkMeansBoth, CamOwnFirst, CamNotYet, CamFramesFed,
              CamFine, CamFed, Cam!Queued, Cam!camVars
<1>2. CASE Cam!Next
  BY <1>2, CamEnqueue, CamDequeue, CamFlushTakes, CamFlushPuts, CamSetFormat, CamFormatRefused, CamStreams, CamIsr,
     CamFrameStarts, CamFrameEnds DEF Cam!Next
<1> QED BY <1>1, <1>2

(* CameraQueue: every buffer of the application is in one queue, once, or   *)
(* with the application or the flush, and the frame buffer of a frame under *)
(* way is in the queue unless something excused happened: for any buffers.  *)
THEOREM CamIsSound == Cam!Spec => []CamInv
BY CamInit, CamStep, PTL DEF Cam!Spec

(* camera_hpmicro.c: no buffer is lost or in two places, the camera writes  *)
(* queued buffers and delivers written ones, but for a late interrupt, an   *)
(* empty queue, a cancel, a format set while the stream ran and a refused   *)
(* one; and a call on camera and sensor that returned 0 did both.           *)
THEOREM CamServesItsUser == Spec => []CamQueueIsSound
<1>1. CamInv => CamQueueIsSound
  BY DEF CamInv, CamQueueIsSound, Cam!CamFramesAreOwn, CamFramesFed, CamFine
<1> QED BY <1>1, CamIsSound, UnionIsEach, PTL

(* Every device driver keeps its state in its type.                         *)
THEOREM DevicesAreTyped == Spec => []TypeOK
<1>1. EthInv /\ LinkInv /\ CamInv /\ AdcInv /\ PortInv /\ EdgeInv /\ DispInv /\ PwmInv => TypeOK
  BY DEF EthInv, LinkInv, CamInv, AdcInv, PortInv, EdgeInv, DispInv, PwmInv, TypeOK
<1> QED BY <1>1, EthIsSound, LinkIsSound, CamIsSound, AdcIsSound, PortIsSound, EdgesAreSound, DisplayIsSound,
           PwmIsSound, UnionIsEach, PTL
===============================================================================
