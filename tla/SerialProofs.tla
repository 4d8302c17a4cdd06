----------------------------- MODULE SerialProofs -----------------------------
(***************************************************************************)
(* Theorems about the drivers of MCSerial, the asynchronous UART and an     *)
(* endpoint of the USB device controller.                                   *)
(***************************************************************************)
EXTENDS MCSerial, SequenceTheorems, TLAPS

vars == <<driver, uartVars, udcVars>>

(* A behaviour of the union is a behaviour of the UART and of the endpoint. *)
THEOREM UnionIsEach == Spec => U!Spec /\ E!Spec
<1>1. Init => U!Init /\ E!Init
  BY DEF Init
<1>2. [Next]_vars => [U!Next]_(U!vars) /\ [E!Next]_(E!vars)
  BY DEF Next, vars, uartVars, udcVars, U!vars, U!rxVars, U!txVars, E!vars
<1> QED BY <1>1, <1>2, PTL DEF Spec, U!Spec, E!Spec, vars
-------------------------------------------------------------------------------
(* UdcEp.  What the driver and the controller, the stack, and both of them  *)
(* with their history can be.                                               *)
Broken == {"stale", "live"}
Xfers  == {E!NoXfer} \cup {E!Data(b) : b \in Bufs} \cup {E!Zlp(b) : b \in Bufs}
Eps    == [fifo : Seq(Bufs), busy : BOOLEAN, hw : Xfers, stall : BOOLEAN]
Apps   == [owns : SUBSET Bufs, zlp : SUBSET Bufs, bad : SUBSET {"other", "short"}, due : [Bufs -> 0..2]]
States == [ep : Eps, app : Apps, odd : SUBSET {"stale", "live", "eio", "dead"}]

(* A buffer is once in the queue or it is the stack's.                      *)
EpTyped(s) ==
    /\ s \in States /\ E!IsInjective(s.ep.fifo)
    /\ s.app.owns \cap E!ToSet(s.ep.fifo) = {} /\ s.app.zlp \subseteq E!ToSet(s.ep.fifo)

(* Unless something went wrong, the controller works on the head of the     *)
(* queue and every buffer of the queue is due as a whole.                   *)
Due(s, b) == s.app.due[b] = IF b \in s.app.zlp THEN 2 ELSE 1
EpHead(s) ==
    s.odd \cap Broken = {} =>
      /\ s.ep.hw # E!NoXfer => s.ep.busy /\ s.ep.fifo # <<>> /\ Head(s.ep.fifo) = s.ep.hw.buf
      /\ \A b \in E!ToSet(s.ep.fifo) : Due(s, b)
      /\ s.app.bad # {} => "eio" \in s.odd

InCall == {"xfer", "undo", "unmark"}
UdcInv ==
    /\ dir \in Dirs /\ call \in {"idle", "peek", "claim"} \cup InCall /\ peeked \in Bufs \cup {NoBuf}
    /\ EpTyped(E!State) /\ EpHead(E!State)
    /\ dir = "in" \/ stack.zlp = {}
    /\ call \in {"claim", "xfer", "undo"} => peeked \in Bufs
    /\ call \in InCall /\ odd \cap Broken = {} => ep.hw = E!NoXfer
    /\ call = "xfer" /\ odd \cap Broken = {} => ep.busy
    /\ ep.busy /\ call \notin InCall /\ "stale" \notin odd => ep.fifo # <<>>
    /\ E!BusyIsOwed

LEMMA Elements ==
    ASSUME NEW S, NEW q \in Seq(S)
    PROVE  /\ E!ToSet(q) = {q[i] : i \in 1..Len(q)} /\ E!ToSet(q) \subseteq S
           /\ E!IsInjective(q) <=> \A i, j \in 1..Len(q) : q[i] = q[j] => i = j
<1>1. DOMAIN q = 1..Len(q) /\ \A i \in 1..Len(q) : q[i] \in S
  BY LenProperties, ElementOfSeq
<1> QED BY <1>1 DEF E!ToSet, E!IsInjective

LEMMA TailDropsHead ==
    ASSUME NEW S, NEW q \in Seq(S), q # <<>>, E!IsInjective(q)
    PROVE  /\ Tail(q) \in Seq(S) /\ E!IsInjective(Tail(q)) /\ Head(q) = q[1] /\ Head(q) \in E!ToSet(q)
           /\ E!ToSet(Tail(q)) = E!ToSet(q) \ {Head(q)}
<1> DEFINE t == Tail(q)
<1>1. /\ Head(q) \in S /\ t \in Seq(S) /\ Len(q) \in Nat /\ Len(t) = Len(q) - 1 /\ Len(q) # 0
      /\ \A i \in 1..Len(t) : t[i] = q[i + 1]
  BY HeadTailProperties, LenProperties, EmptySeq
<1>2. Head(q) = q[1]
  OBVIOUS
<1> HIDE DEF t
<1>3. \A i, j \in 1..Len(q) : q[i] = q[j] => i = j
  BY Elements
<1>4. \A i, j \in 1..Len(t) : t[i] = t[j] => i = j
  BY <1>1, <1>3
<1>5. \A i \in 1..Len(t) : t[i] \in {q[j] : j \in 1..Len(q)} \ {q[1]}
  BY <1>1, <1>3
<1>6. \A j \in 1..Len(q) : q[j] # q[1] => q[j] \in {t[i] : i \in 1..Len(t)}
  <2> SUFFICES ASSUME NEW j \in 1..Len(q), q[j] # q[1] PROVE q[j] \in {t[i] : i \in 1..Len(t)}
    OBVIOUS
  <2>1. j - 1 \in 1..Len(t) /\ t[j - 1] = q[j]
    BY <1>1
  <2> QED BY <2>1
<1>7. q[1] \in {q[j] : j \in 1..Len(q)}
  BY <1>1
<1>8. E!IsInjective(t) /\ Head(q) \in E!ToSet(q)
  BY <1>1, <1>2, <1>4, <1>7, Elements
<1>9. E!ToSet(t) = E!ToSet(q) \ {Head(q)}
  <2>1. E!ToSet(q) = {q[j] : j \in 1..Len(q)} /\ E!ToSet(t) = {t[j] : j \in 1..Len(t)}
    BY <1>1, Elements
  <2> QED BY <1>2, <1>5, <1>6, <2>1
<1> QED BY <1>1, <1>2, <1>8, <1>9 DEF t

LEMMA AppendAdds ==
    ASSUME NEW S, NEW q \in Seq(S), NEW b \in S
    PROVE  /\ Append(q, b) \in Seq(S) /\ E!ToSet(Append(q, b)) = E!ToSet(q) \cup {b}
           /\ E!IsInjective(q) /\ b \notin E!ToSet(q) => E!IsInjective(Append(q, b))
<1> DEFINE r == Append(q, b)
<1>1. /\ r \in Seq(S) /\ Len(q) \in Nat /\ Len(r) = Len(q) + 1 /\ r[Len(q) + 1] = b
      /\ \A i \in 1..Len(q) : r[i] = q[i]
  BY AppendProperties, LenProperties
<1> HIDE DEF r
<1>2. {r[i] : i \in 1..Len(r)} = {q[i] : i \in 1..Len(q)} \cup {b}
  <2>1. \A i \in 1..Len(r) : r[i] \in {q[j] : j \in 1..Len(q)} \cup {b}
    BY <1>1
  <2>2. \A j \in 1..Len(q) : q[j] \in {r[i] : i \in 1..Len(r)}
    BY <1>1
  <2>3. b \in {r[i] : i \in 1..Len(r)}
    BY <1>1
  <2> QED BY <2>1, <2>2, <2>3
<1>3. (\A i, j \in 1..Len(q) : q[i] = q[j] => i = j) /\ b \notin {q[i] : i \in 1..Len(q)}
        => \A i, j \in 1..Len(r) : r[i] = r[j] => i = j
  BY <1>1
<1> QED BY <1>1, <1>2, <1>3, Elements DEF r

LEMMA NothingQueuedYet == <<>> \in Seq(Bufs) /\ E!ToSet(<<>>) = {} /\ E!IsInjective(<<>>)
<1> DEFINE q == <<>>
<1>1. q \in Seq(Bufs) /\ Len(q) = 0 /\ 1..0 = {}
  BY EmptySeq
<1> HIDE DEF q
<1>2. E!IsInjective(q)
  BY <1>1, Elements
<1>3. E!ToSet(q) = {}
  <2>1. q \in Seq(Bufs)
    BY <1>1
  <2>2. E!ToSet(q) = {q[i] : i \in 1..Len(q)}
    BY <2>1, Elements
  <2> QED BY <1>1, <2>2
<1> QED BY <1>1, <1>2, <1>3 DEF q

LEMMA XferIs ==
    /\ E!NoXfer \in Xfers
    /\ \A b \in Bufs : /\ E!Data(b) \in Xfers /\ E!Data(b).buf = b /\ E!Data(b) # E!NoXfer
                       /\ E!Zlp(b) \in Xfers /\ E!Zlp(b).buf = b /\ E!Zlp(b) # E!NoXfer
    /\ \A x \in Xfers : x # E!NoXfer => x.buf \in Bufs
<1>1. E!NoXfer \in Xfers
  BY DEF Xfers
<1>2. ASSUME NEW b \in Bufs
      PROVE  /\ E!Data(b) \in Xfers /\ E!Data(b).buf = b /\ E!Data(b) # E!NoXfer
             /\ E!Zlp(b) \in Xfers /\ E!Zlp(b).buf = b /\ E!Zlp(b) # E!NoXfer
  <2>1. E!Data(b) \in Xfers /\ E!Zlp(b) \in Xfers
    BY DEF Xfers
  <2>2. E!Data(b).buf = b /\ E!Zlp(b).buf = b /\ E!NoXfer.buf = NoBuf /\ b # NoBuf
    BY SerialAssumption DEF SerialAssumption, E!NoXfer, E!Data, E!Zlp
  <2> QED BY <2>1, <2>2
<1>3. ASSUME NEW x \in Xfers, x # E!NoXfer
      PROVE  x.buf \in Bufs
  BY <1>2, <1>3 DEF Xfers
<1> QED BY <1>1, <1>2, <1>3

LEMMA StateIs ==
    ASSUME NEW s \in States
    PROVE  /\ s.ep.fifo \in Seq(Bufs) /\ s.ep.hw \in Xfers
           /\ s.app.owns \subseteq Bufs /\ s.app.zlp \subseteq Bufs
           /\ s.app.bad \subseteq {"other", "short"} /\ s.app.due \in [Bufs -> 0..2]
           /\ s.odd \subseteq {"stale", "live", "eio", "dead"} /\ s.ep \in Eps /\ s.app \in Apps
<1> QED BY DEF States, Eps, Apps

(* Feeding the next buffer: nothing, the head of the queue, or a refusal.   *)
LEMMA TryFeedDoes ==
    ASSUME NEW t \in States, NEW n \in E!TryFeed(t)
    PROVE  /\ n \in States /\ n.app = t.app /\ n.ep.fifo = t.ep.fifo
           /\ t.odd \subseteq n.odd /\ n.odd \subseteq t.odd \cup {"eio"}
           /\ \/ n.ep = t.ep /\ (t.ep.fifo = <<>> \/ t.ep.busy \/ "eio" \in n.odd)
              \/ /\ t.ep.fifo # <<>> /\ n.ep.busy
                 /\ n.ep.hw # E!NoXfer /\ n.ep.hw.buf = Head(t.ep.fifo)
<1>0. t.ep \in Eps /\ t.app \in Apps /\ t.ep.fifo \in Seq(Bufs)
  BY StateIs
<1>1. CASE n = t /\ (t.ep.fifo = <<>> \/ t.ep.busy)
  BY <1>1
<1>2. CASE t.ep.fifo # <<>> /\ n = [t EXCEPT !.ep.busy = TRUE, !.ep.hw = E!Data(Head(t.ep.fifo))]
  <2> DEFINE h == Head(t.ep.fifo)
             e == [t.ep EXCEPT !.busy = TRUE, !.hw = E!Data(h)]
  <2>1. h \in Bufs
    BY <1>0, <1>2, HeadTailProperties
  <2>2. e \in Eps /\ e.fifo = t.ep.fifo /\ e.hw = E!Data(h)
    BY <1>0, <2>1, XferIs DEF Eps
  <2>3. e.busy
    BY <1>0 DEF Eps
  <2>4. n = [t EXCEPT !.ep = e]
    BY <1>2 DEF States
  <2> HIDE DEF e
  <2>5. n \in States /\ n.ep = e /\ n.app = t.app /\ n.odd = t.odd
    BY <2>2, <2>4 DEF States
  <2> QED BY <1>2, <2>1, <2>2, <2>3, <2>5, XferIs
<1>3. CASE n = [t EXCEPT !.odd = @ \cup {"eio"}]
  BY <1>3 DEF States
<1> QED BY <1>1, <1>2, <1>3 DEF E!TryFeed, E!Refused

(* The buffers given to the stack.                                          *)
LEMMA GiveDoes ==
    ASSUME NEW a \in Apps, NEW B \in SUBSET Bufs
    PROVE  /\ E!Give(a, B) \in Apps /\ E!Give(a, B).owns = a.owns \cup B /\ E!Give(a, B).zlp = a.zlp \ B
           /\ E!Give(a, B).bad = a.bad
           /\ \A b \in Bufs : E!Give(a, B).due[b] = IF b \in B THEN 0 ELSE a.due[b]
<1> DEFINE d == [b \in Bufs |-> IF b \in B THEN 0 ELSE a.due[b]]
<1>1. d \in [Bufs -> 0..2] /\ \A b \in Bufs : d[b] = IF b \in B THEN 0 ELSE a.due[b]
  BY DEF Apps
<1>2. E!Give(a, B) = [a EXCEPT !.owns = @ \cup B, !.zlp = @ \ B, !.due = d]
  BY DEF E!Give
<1> HIDE DEF d
<1> QED BY <1>1, <1>2 DEF Apps

(* The buffer at the head is reported complete after the transfer d.        *)
LEMMA GiveBackDoes ==
    ASSUME NEW s, EpTyped(s), s.ep.fifo # <<>>, NEW d, NEW n \in E!GiveBack(s, d)
    PROVE  /\ EpTyped(n) /\ s.odd \subseteq n.odd /\ n.odd \subseteq s.odd \cup {"eio"}
           /\ n.app.zlp \subseteq s.app.zlp
           /\ n.ep.busy => n.ep.hw # E!NoXfer /\ n.ep.fifo # <<>>
           /\ LET b == Head(s.ep.fifo) IN
              s.odd \cap Broken = {} /\ s.ep.hw = E!NoXfer /\ b = d.buf
                /\ (s.app.due[b] = 0 \/ "eio" \in s.odd) /\ (s.app.bad # {} => "eio" \in s.odd)
                /\ (\A x \in E!ToSet(s.ep.fifo) \ {b} : Due(s, x))
                => EpHead(n)
<1> DEFINE b == Head(s.ep.fifo)
           more == (IF b # d.buf THEN {"other"} ELSE {}) \cup (IF s.app.due[b] # 0 THEN {"short"} ELSE {})
           a == [s.app EXCEPT !.bad = @ \cup more]
           e == [s.ep EXCEPT !.fifo = Tail(@), !.busy = FALSE]
           g == E!Give(a, {b})
           t == [s EXCEPT !.ep = e, !.app = g]
<1>1. /\ s \in States /\ E!IsInjective(s.ep.fifo) /\ s.app.owns \cap E!ToSet(s.ep.fifo) = {}
      /\ s.app.zlp \subseteq E!ToSet(s.ep.fifo)
  BY DEF EpTyped
<1>2. s.ep \in Eps /\ s.app \in Apps /\ s.ep.fifo \in Seq(Bufs)
  BY <1>1, StateIs
<1>3. /\ Tail(s.ep.fifo) \in Seq(Bufs) /\ E!IsInjective(Tail(s.ep.fifo)) /\ b \in E!ToSet(s.ep.fifo)
      /\ E!ToSet(Tail(s.ep.fifo)) = E!ToSet(s.ep.fifo) \ {b}
  BY <1>1, <1>2, TailDropsHead
<1>4. b \in Bufs
  BY <1>2, HeadTailProperties
<1>5. t = [s EXCEPT !.ep.fifo = Tail(@), !.ep.busy = FALSE, !.app = g]
  <2> HIDE DEF g
  <2> QED BY <1>1, <1>2 DEF States, Eps
<1>6. n \in E!TryFeed(t)
  <2> HIDE DEF t
  <2> QED BY <1>5 DEF E!GiveBack
<1>7. e \in Eps /\ e.fifo = Tail(s.ep.fifo) /\ e.hw = s.ep.hw
  BY <1>2, <1>3 DEF Eps
<1>8. ~e.busy
  BY <1>2 DEF Eps
<1>9. a \in Apps /\ a.owns = s.app.owns /\ a.zlp = s.app.zlp /\ a.bad = s.app.bad \cup more /\ a.due = s.app.due
  <2>1. more \subseteq {"other", "short"}
    OBVIOUS
  <2> HIDE DEF more
  <2> QED BY <1>2, <2>1 DEF Apps
<1> HIDE DEF a, e
<1>10. /\ g \in Apps /\ g.owns = s.app.owns \cup {b} /\ g.zlp = s.app.zlp \ {b} /\ g.bad = s.app.bad \cup more
       /\ \A x \in Bufs : g.due[x] = IF x = b THEN 0 ELSE s.app.due[x]
  BY <1>4, <1>9, GiveDoes
<1> HIDE DEF g
<1>11. t \in States /\ t.ep = e /\ t.app = g /\ t.odd = s.odd
  BY <1>1, <1>7, <1>10 DEF States
<1> HIDE DEF t
<1>12. /\ n \in States /\ n.app = g /\ n.ep.fifo = Tail(s.ep.fifo)
       /\ s.odd \subseteq n.odd /\ n.odd \subseteq s.odd \cup {"eio"}
       /\ \/ n.ep = e
          \/ /\ Tail(s.ep.fifo) # <<>> /\ n.ep.busy
             /\ n.ep.hw # E!NoXfer /\ n.ep.hw.buf = Head(Tail(s.ep.fifo))
  BY <1>6, <1>7, <1>11, TryFeedDoes
<1>13. EpTyped(n)
  BY <1>1, <1>3, <1>10, <1>12 DEF EpTyped
<1>14. n.ep.busy => n.ep.hw # E!NoXfer /\ n.ep.fifo # <<>>
  BY <1>8, <1>12
<1>15. ASSUME s.odd \cap Broken = {}, s.ep.hw = E!NoXfer, b = d.buf,
              s.app.due[b] = 0 \/ "eio" \in s.odd, s.app.bad # {} => "eio" \in s.odd,
              \A x \in E!ToSet(s.ep.fifo) \ {b} : Due(s, x)
       PROVE  EpHead(n)
  <2>1. n.ep.hw # E!NoXfer => n.ep.busy /\ n.ep.fifo # <<>> /\ Head(n.ep.fifo) = n.ep.hw.buf
    BY <1>7, <1>12, <1>15
  <2>2. \A x \in E!ToSet(n.ep.fifo) : x \in Bufs /\ x # b /\ Due(s, x)
    BY <1>2, <1>3, <1>12, <1>15, Elements
  <2>3. \A x \in E!ToSet(n.ep.fifo) : Due(n, x)
    BY <1>10, <1>12, <2>2 DEF Due
  <2>4. n.app.bad # {} => "eio" \in n.odd
    BY <1>10, <1>12, <1>15
  <2> QED BY <2>1, <2>3, <2>4 DEF EpHead
<1> QED BY <1>10, <1>12, <1>13, <1>14, <1>15

LEMMA NowIs ==
    ASSUME UdcInv
    PROVE  /\ E!State \in States /\ ep \in Eps /\ stack \in Apps /\ odd \subseteq {"stale", "live", "eio", "dead"}
           /\ E!State.ep = ep /\ E!State.app = stack /\ E!State.odd = odd
           /\ ep.fifo \in Seq(Bufs) /\ ep.hw \in Xfers /\ E!IsInjective(ep.fifo)
           /\ stack.owns \cap E!ToSet(ep.fifo) = {} /\ stack.zlp \subseteq E!ToSet(ep.fifo)
<1>1. E!State.ep = ep /\ E!State.app = stack /\ E!State.odd = odd
  BY DEF E!State
<1>2. EpTyped(E!State)
  BY DEF UdcInv
<1> QED BY <1>1, <1>2, StateIs DEF EpTyped

(* The state after a step, from what the step leaves.                       *)
LEMMA UdcInvIs ==
    ASSUME NEW n, E!State' = n, EpTyped(n), EpHead(n), dir' \in Dirs,
           call' \in {"idle", "peek", "claim"} \cup InCall, peeked' \in Bufs \cup {NoBuf},
           dir' = "in" \/ n.app.zlp = {},
           call' \in {"claim", "xfer", "undo"} => peeked' \in Bufs,
           call' \in InCall /\ n.odd \cap Broken = {} => n.ep.hw = E!NoXfer,
           call' = "xfer" /\ n.odd \cap Broken = {} => n.ep.busy,
           n.ep.busy /\ call' \notin InCall /\ "stale" \notin n.odd => n.ep.fifo # <<>>,
           n.ep.busy => n.ep.hw # E!NoXfer \/ call' \in InCall \/ n.odd \cap {"dead", "stale"} # {}
    PROVE  UdcInv'
<1>1. n.ep = ep' /\ n.app = stack' /\ n.odd = odd'
  BY DEF E!State
<1>2. E!BusyIsOwed'
  BY <1>1 DEF E!BusyIsOwed, InCall
<1>3. EpTyped(E!State') /\ EpHead(E!State')
  OBVIOUS
<1> QED BY <1>1, <1>2, <1>3 DEF UdcInv

LEMMA AfterGiveBack ==
    ASSUME UdcInv, ep.hw # E!NoXfer, UNCHANGED <<dir, call, peeked>>,
           NEW s, EpTyped(s), s.ep.fifo = ep.fifo, ep.fifo # <<>>, s.ep.hw = E!NoXfer,
           odd \subseteq s.odd, s.app.zlp \subseteq stack.zlp,
           odd \cap Broken = {} =>
             /\ s.app.due[Head(ep.fifo)] = 0 \/ "eio" \in s.odd
             /\ s.app.bad # {} => "eio" \in s.odd
             /\ \A x \in E!ToSet(ep.fifo) \ {Head(ep.fifo)} : Due(s, x),
           NEW n \in E!GiveBack(s, ep.hw), E!State' = n
    PROVE  UdcInv'
<1>1. odd \cap Broken = {} => ep.busy /\ Head(ep.fifo) = ep.hw.buf /\ call \notin InCall
  <2>1. E!State.ep = ep /\ E!State.odd = odd
    BY NowIs
  <2> QED BY <2>1 DEF UdcInv, EpHead
<1>2. /\ EpTyped(n) /\ s.odd \subseteq n.odd /\ n.app.zlp \subseteq s.app.zlp
      /\ n.ep.busy => n.ep.hw # E!NoXfer /\ n.ep.fifo # <<>>
  BY GiveBackDoes
<1>3. EpHead(n)
  <2>1. CASE n.odd \cap Broken = {}
    <3>1. odd \cap Broken = {} /\ s.odd \cap Broken = {}
      BY <1>2, <2>1
    <3> QED BY <1>1, <3>1, GiveBackDoes
  <2>2. CASE n.odd \cap Broken # {}
    BY <2>2 DEF EpHead
  <2> QED BY <2>1, <2>2
<1>4. n.odd \cap Broken = {} => call' \notin InCall
  BY <1>1, <1>2
<1>5. /\ dir' \in Dirs /\ call' \in {"idle", "peek", "claim"} \cup InCall /\ peeked' \in Bufs \cup {NoBuf}
      /\ (dir' = "in" \/ n.app.zlp = {}) /\ (call' \in {"claim", "xfer", "undo"} => peeked' \in Bufs)
  BY <1>2 DEF UdcInv
<1>6. call' = "xfer" => call' \in InCall
  BY DEF InCall
<1> QED BY <1>2, <1>3, <1>4, <1>5, <1>6, UdcInvIs

(* udc_hpm_isr, when a transfer is done.                                    *)
LEMMA UdcTransferDone ==
    ASSUME UdcInv, E!TransferDone
    PROVE  UdcInv'
<1> DEFINE b == ep.hw.buf
           less == IF stack.due[b] = 0 THEN 0 ELSE stack.due[b] - 1
           a == [stack EXCEPT !.due[b] = less]
           e == [ep EXCEPT !.hw = E!NoXfer]
           s == [E!State EXCEPT !.ep = e, !.app = a]
           h == Head(ep.fifo)
<1>0. /\ ep \in Eps /\ stack \in Apps /\ ep.fifo \in Seq(Bufs) /\ ep.hw \in Xfers /\ ep.hw # E!NoXfer
      /\ E!IsInjective(ep.fifo) /\ stack.owns \cap E!ToSet(ep.fifo) = {} /\ stack.zlp \subseteq E!ToSet(ep.fifo)
      /\ E!State \in States /\ E!State.odd = odd /\ E!State.ep = ep /\ E!State.app = stack
  BY NowIs DEF E!TransferDone
<1>1. b \in Bufs
  BY <1>0, XferIs
<1>2. PICK n \in IF dir = "in" THEN E!HandlerIn(s, ep.hw) ELSE E!HandlerOut(s, ep.hw) :
        ep' = n.ep /\ stack' = n.app /\ odd' = n.odd /\ UNCHANGED <<dir, call, peeked>>
  <2>1. s = [E!State EXCEPT !.ep.hw = E!NoXfer, !.app.due[ep.hw.buf] = IF @ = 0 THEN 0 ELSE @ - 1]
    BY <1>0, <1>1 DEF States, Eps, Apps
  <2> HIDE DEF s
  <2> QED BY <2>1 DEF E!TransferDone, E!Becomes
<1>3. e \in Eps /\ e.fifo = ep.fifo /\ e.hw = E!NoXfer /\ (e.busy <=> ep.busy)
  <2>1. e \in Eps /\ e.fifo = ep.fifo /\ e.hw = E!NoXfer
    BY <1>0, XferIs DEF Eps
  <2>2. e.busy <=> ep.busy
    BY <1>0 DEF Eps
  <2> QED BY <2>1, <2>2
<1>4. /\ a \in Apps /\ a.owns = stack.owns /\ a.zlp = stack.zlp /\ a.bad = stack.bad
      /\ \A x \in Bufs : a.due[x] = IF x = b THEN less ELSE stack.due[x]
  <2>1. stack.due \in [Bufs -> 0..2] /\ less \in 0..2
    BY <1>0, <1>1 DEF Apps
  <2> HIDE DEF less
  <2> QED BY <1>0, <2>1 DEF Apps
<1> HIDE DEF a, e
<1>5. s \in States /\ s.ep = e /\ s.app = a /\ s.odd = odd
  BY <1>0, <1>3, <1>4 DEF States
<1> HIDE DEF s
<1>6. EpTyped(s)
  BY <1>0, <1>3, <1>4, <1>5 DEF EpTyped
<1>7. odd \cap Broken = {} =>
        /\ ep.busy /\ ep.fifo # <<>> /\ h = b /\ call \notin InCall
        /\ \A x \in E!ToSet(ep.fifo) : Due(E!State, x)
        /\ stack.bad # {} => "eio" \in odd
  BY <1>0 DEF UdcInv, EpHead
<1>8. ASSUME ep.fifo # <<>>
      PROVE  h \in Bufs /\ h \in E!ToSet(ep.fifo)
  BY <1>0, <1>8, TailDropsHead, HeadTailProperties
<1>9. odd \cap Broken = {} => \A x \in E!ToSet(ep.fifo) \ {h} : a.due[x] = IF x \in stack.zlp THEN 2 ELSE 1
  BY <1>0, <1>4, <1>7, Elements DEF Due
<1>10. odd \cap Broken = {} => a.due[b] = IF b \in stack.zlp THEN 1 ELSE 0
  BY <1>0, <1>1, <1>4, <1>7, <1>8 DEF Due
(* After a step to n of the states, as the handlers leave it.               *)
<1>11. n \in States => E!State' = n
  BY <1>2 DEF E!State, States
<1>12. CASE ep.fifo = <<>>
  <2>1. odd \cap Broken # {}
    BY <1>7, <1>12
  <2>2. ep.busy => call \in InCall \/ "stale" \in odd
    BY <1>12 DEF UdcInv
  <2>3. EpTyped(n) /\ n.odd = odd /\ n.app = a /\ n.ep.fifo = <<>> /\ (n.ep.busy => ep.busy)
    <3>1. CASE n = s
      BY <1>3, <1>5, <1>6, <1>12, <3>1
    <3>2. CASE n = [s EXCEPT !.ep.busy = FALSE]
      <4> DEFINE f == [e EXCEPT !.busy = FALSE]
      <4>1. f \in Eps /\ f.fifo = ep.fifo
        BY <1>3 DEF Eps
      <4>2. ~f.busy
        BY <1>3 DEF Eps
      <4>3. n = [s EXCEPT !.ep = f]
        BY <1>5, <3>2 DEF States
      <4> HIDE DEF f
      <4>4. n \in States /\ n.ep = f /\ n.app = a /\ n.odd = odd
        BY <1>5, <4>1, <4>3 DEF States
      <4> QED BY <1>3, <1>5, <1>6, <1>12, <4>1, <4>2, <4>4 DEF EpTyped
    <3> QED BY <1>2, <1>3, <1>5, <1>12, <3>1, <3>2 DEF E!HandlerIn, E!HandlerOut
  <2>4. EpHead(n) /\ E!State' = n
    BY <1>11, <2>1, <2>3 DEF EpHead, EpTyped
  <2>5. /\ dir' \in Dirs /\ call' \in {"idle", "peek", "claim"} \cup InCall /\ peeked' \in Bufs \cup {NoBuf}
        /\ (dir' = "in" \/ n.app.zlp = {}) /\ (call' \in {"claim", "xfer", "undo"} => peeked' \in Bufs)
    BY <1>2, <1>4, <2>3 DEF UdcInv
  <2> QED BY <1>2, <2>1, <2>2, <2>3, <2>4, <2>5, UdcInvIs
<1>13. CASE ep.fifo # <<>> /\ n \in E!GiveBack(s, ep.hw) /\ h \notin stack.zlp
  <2>1. EpTyped(n)
    BY <1>3, <1>5, <1>6, <1>13, GiveBackDoes
  <2>2. E!State' = n
    BY <1>11, <2>1 DEF EpTyped
  <2>3. odd \cap Broken = {} =>
          /\ s.app.due[h] = 0 /\ (s.app.bad # {} => "eio" \in s.odd)
          /\ \A x \in E!ToSet(ep.fifo) \ {h} : Due(s, x)
    BY <1>4, <1>5, <1>7, <1>9, <1>10, <1>13 DEF Due
  <2> QED BY <1>0, <1>2, <1>3, <1>4, <1>5, <1>6, <1>13, <2>2, <2>3, AfterGiveBack
<1>14. CASE ep.fifo # <<>> /\ h \in stack.zlp /\ dir = "in" /\ n = [s EXCEPT !.app.zlp = @ \ {h}, !.ep.hw = E!Zlp(h)]
  <2> DEFINE f == [e EXCEPT !.hw = E!Zlp(h)]
             c == [a EXCEPT !.zlp = @ \ {h}]
  <2>1. f \in Eps /\ f.fifo = ep.fifo /\ f.hw = E!Zlp(h) /\ (f.busy <=> ep.busy)
    <3>1. f \in Eps /\ f.fifo = ep.fifo /\ f.hw = E!Zlp(h)
      BY <1>3, <1>8, <1>14, XferIs DEF Eps
    <3>2. f.busy <=> ep.busy
      BY <1>3 DEF Eps
    <3> QED BY <3>1, <3>2
  <2>2. c \in Apps /\ c.owns = stack.owns /\ c.zlp = stack.zlp \ {h} /\ c.bad = stack.bad /\ c.due = a.due
    BY <1>4 DEF Apps
  <2>3. n = [s EXCEPT !.ep = f, !.app = c]
    BY <1>5, <1>14 DEF States
  <2> HIDE DEF f, c
  <2>4. n \in States /\ n.ep = f /\ n.app = c /\ n.odd = odd
    BY <1>5, <2>1, <2>2, <2>3 DEF States
  <2>5. EpTyped(n) /\ E!State' = n
    BY <1>0, <1>11, <2>1, <2>2, <2>4 DEF EpTyped
  <2>6. f.hw # E!NoXfer /\ f.hw.buf = h
    BY <1>8, <1>14, <2>1, XferIs
  <2>7. EpHead(n)
    <3> SUFFICES ASSUME odd \cap Broken = {} PROVE EpHead(n)
      BY <2>4 DEF EpHead
    <3>1. ASSUME NEW x \in E!ToSet(ep.fifo)
          PROVE  Due(n, x)
      <4>1. CASE x = h
        <5>1. a.due[h] = 1 /\ h \notin c.zlp
          BY <1>7, <1>10, <1>14, <2>2, <2>4
        <5> QED BY <2>2, <2>4, <4>1, <5>1 DEF Due
      <4>2. CASE x # h
        <5>1. a.due[x] = (IF x \in stack.zlp THEN 2 ELSE 1) /\ (x \in c.zlp <=> x \in stack.zlp)
          BY <1>9, <2>2, <2>4, <4>2
        <5> QED BY <2>2, <2>4, <5>1 DEF Due
      <4> QED BY <4>1, <4>2
    <3> QED BY <1>7, <2>1, <2>2, <2>4, <2>6, <3>1 DEF EpHead
  <2>8. /\ dir' \in Dirs /\ call' \in {"idle", "peek", "claim"} \cup InCall /\ peeked' \in Bufs \cup {NoBuf}
        /\ dir' = "in" /\ (call' \in {"claim", "xfer", "undo"} => peeked' \in Bufs)
    BY <1>2, <1>14 DEF UdcInv
  <2>9. odd \cap Broken = {} => call' \notin InCall
    BY <1>2, <1>7
  <2>10. call' = "xfer" => call' \in InCall
    BY DEF InCall
  <2> QED BY <1>14, <2>1, <2>4, <2>5, <2>6, <2>7, <2>8, <2>9, <2>10, UdcInvIs
<1>15. ASSUME ep.fifo # <<>>, h \in stack.zlp, NEW r \in E!Refused(s),
              n \in E!GiveBack([r EXCEPT !.app.zlp = @ \ {h}], ep.hw)
       PROVE  UdcInv'
  <2> DEFINE c == [a EXCEPT !.zlp = @ \ {h}]
             t == [r EXCEPT !.app.zlp = @ \ {h}]
  <2>1. r = [s EXCEPT !.odd = @ \cup {"eio"}]
    BY <1>15 DEF E!Refused
  <2>2. c \in Apps /\ c.owns = stack.owns /\ c.zlp = stack.zlp \ {h} /\ c.bad = stack.bad /\ c.due = a.due
    BY <1>4 DEF Apps
  <2>3. r \in States /\ r.ep = e /\ r.app = a /\ r.odd = odd \cup {"eio"}
    BY <1>5, <2>1 DEF States
  <2>4. t = [r EXCEPT !.app = c]
    BY <2>3 DEF States
  <2> HIDE DEF c
  <2>5. t \in States /\ t.ep = e /\ t.app = c /\ t.odd = odd \cup {"eio"}
    BY <2>2, <2>3, <2>4 DEF States
  <2>6. n \in E!GiveBack(t, ep.hw)
    BY <1>15
  <2> HIDE DEF t
  <2>7. EpTyped(t)
    BY <1>0, <1>3, <2>2, <2>5 DEF EpTyped
  <2>8. EpTyped(n)
    BY <1>3, <1>15, <2>5, <2>6, <2>7, GiveBackDoes
  <2>9. E!State' = n
    BY <1>11, <2>8 DEF EpTyped
  <2>10. odd \cap Broken = {} => \A x \in E!ToSet(ep.fifo) \ {h} : Due(t, x)
    BY <1>9, <2>2, <2>5 DEF Due
  <2> QED BY <1>0, <1>2, <1>3, <1>15, <2>2, <2>5, <2>6, <2>7, <2>9, <2>10, AfterGiveBack
<1>16. CASE ep.fifo # <<>> /\ dir = "in"
  <2>1. s.ep.fifo = ep.fifo /\ s.app.zlp = stack.zlp
    BY <1>3, <1>4, <1>5
  <2>2. CASE h \in stack.zlp
    BY <1>2, <1>14, <1>15, <1>16, <2>1, <2>2 DEF E!HandlerIn, E!HandlerZlt
  <2>3. CASE h \notin stack.zlp
    BY <1>2, <1>13, <1>16, <2>1, <2>3 DEF E!HandlerIn, E!HandlerZlt
  <2> QED BY <2>2, <2>3
<1>17. CASE ep.fifo # <<>> /\ dir # "in"
  <2>1. s.ep.fifo = ep.fifo /\ stack.zlp = {}
    BY <1>3, <1>5, <1>17 DEF UdcInv
  <2> QED BY <1>2, <1>13, <1>17, <2>1 DEF E!HandlerOut
<1> QED BY <1>12, <1>16, <1>17

(* A step that leaves the queue and the stack's record as they are.         *)
LEMMA UdcCallStep ==
    ASSUME UdcInv, NEW f \in Eps, ep' = f, f.fifo = ep.fifo, UNCHANGED <<dir, stack>>,
           odd' \subseteq {"stale", "live", "eio", "dead"}, odd \subseteq odd' \cup {"dead"},
           odd' \cap Broken = {} /\ f.hw # E!NoXfer => f.busy /\ f.fifo # <<>> /\ Head(f.fifo) = f.hw.buf,
           call' \in {"idle", "peek", "claim"} \cup InCall, peeked' \in Bufs \cup {NoBuf},
           call' \in {"claim", "xfer", "undo"} => peeked' \in Bufs,
           call' \in InCall /\ odd' \cap Broken = {} => f.hw = E!NoXfer,
           call' = "xfer" /\ odd' \cap Broken = {} => f.busy,
           f.busy /\ call' \notin InCall /\ "stale" \notin odd' => f.fifo # <<>>,
           f.busy => f.hw # E!NoXfer \/ call' \in InCall \/ odd' \cap {"dead", "stale"} # {}
    PROVE  UdcInv'
<1> DEFINE n == [ep |-> f, app |-> stack, odd |-> odd']
<1>1. E!State' = n
  BY DEF E!State
<1>2. /\ stack \in Apps /\ E!IsInjective(ep.fifo) /\ stack.owns \cap E!ToSet(ep.fifo) = {}
      /\ stack.zlp \subseteq E!ToSet(ep.fifo) /\ E!State.app = stack /\ E!State.ep = ep /\ E!State.odd = odd
  BY NowIs
<1>3. n \in States /\ n.ep = f /\ n.app = stack /\ n.odd = odd'
  BY <1>2 DEF States
<1> HIDE DEF n
<1>4. EpTyped(n)
  BY <1>2, <1>3 DEF EpTyped
<1>5. EpHead(n)
  <2> SUFFICES ASSUME n.odd \cap Broken = {} PROVE EpHead(n)
    BY DEF EpHead
  <2>1. odd \cap Broken = {}
    BY <1>3 DEF Broken
  <2>2. (\A b \in E!ToSet(ep.fifo) : Due(E!State, b)) /\ (stack.bad # {} => "eio" \in odd)
    BY <1>2, <2>1 DEF UdcInv, EpHead
  <2>3. \A b \in E!ToSet(ep.fifo) : Due(n, b)
    BY <1>2, <1>3, <2>2 DEF Due
  <2> QED BY <1>3, <2>2, <2>3 DEF EpHead
<1>6. dir' \in Dirs /\ (dir' = "in" \/ n.app.zlp = {})
  BY <1>3 DEF UdcInv
<1> QED BY <1>1, <1>3, <1>4, <1>5, <1>6, UdcInvIs

(* udc_hpm_ep_enqueue and udc_buf_get_all, which change the queue.          *)
LEMMA UdcEnqueue ==
    ASSUME UdcInv, E!Enqueue
    PROVE  UdcInv'
<1>1. PICK b \in stack.owns, z \in IF dir = "in" THEN BOOLEAN ELSE {FALSE} :
        /\ ep' = [ep EXCEPT !.fifo = Append(@, b)]
        /\ stack' = [stack EXCEPT !.owns = @ \ {b}, !.due[b] = IF z THEN 2 ELSE 1,
                                  !.zlp = IF z THEN @ \cup {b} ELSE @]
  BY DEF E!Enqueue
<1> DEFINE f == [ep EXCEPT !.fifo = Append(@, b)]
           more == IF z THEN stack.zlp \cup {b} ELSE stack.zlp
           d == [stack.due EXCEPT ![b] = IF z THEN 2 ELSE 1]
           c == [stack EXCEPT !.owns = @ \ {b}, !.due = d, !.zlp = more]
           n == [ep |-> f, app |-> c, odd |-> odd]
<1>2. call = "idle" /\ call' = "peek" /\ UNCHANGED <<dir, peeked, odd>>
  BY DEF E!Enqueue
<1>3. /\ ep \in Eps /\ stack \in Apps /\ odd \subseteq {"stale", "live", "eio", "dead"}
      /\ E!State.ep = ep /\ E!State.app = stack /\ E!State.odd = odd
      /\ ep.fifo \in Seq(Bufs) /\ ep.hw \in Xfers /\ E!IsInjective(ep.fifo)
      /\ stack.owns \cap E!ToSet(ep.fifo) = {} /\ stack.zlp \subseteq E!ToSet(ep.fifo)
  BY NowIs
<1>4. b \in Bufs /\ b \notin E!ToSet(ep.fifo)
  BY <1>3 DEF Apps
<1>5. /\ Append(ep.fifo, b) \in Seq(Bufs) /\ E!IsInjective(Append(ep.fifo, b))
      /\ E!ToSet(Append(ep.fifo, b)) = E!ToSet(ep.fifo) \cup {b}
      /\ Append(ep.fifo, b) # <<>> /\ (ep.fifo # <<>> => Head(Append(ep.fifo, b)) = Head(ep.fifo))
  <2>1. Append(ep.fifo, b) # <<>> /\ (ep.fifo # <<>> => Head(Append(ep.fifo, b)) = Head(ep.fifo))
    BY <1>3, <1>4, AppendProperties, HeadTailProperties, EmptySeq, LenProperties
  <2> QED BY <1>3, <1>4, <2>1, AppendAdds
<1>6. f \in Eps /\ f.fifo = Append(ep.fifo, b) /\ f.hw = ep.hw
  BY <1>3, <1>5 DEF Eps
<1>7. f.busy <=> ep.busy
  BY <1>3 DEF Eps
<1>8. /\ d \in [Bufs -> 0..2] /\ d[b] = (IF z THEN 2 ELSE 1)
      /\ \A x \in Bufs \ {b} : d[x] = stack.due[x]
  BY <1>3, <1>4 DEF Apps
<1>9. more \subseteq Bufs
  BY <1>3, <1>4 DEF Apps
<1> HIDE DEF d, more
<1>10. c \in Apps /\ c.owns = stack.owns \ {b} /\ c.zlp = more /\ c.bad = stack.bad /\ c.due = d
  BY <1>3, <1>8, <1>9 DEF Apps
<1>11. ep' = f /\ stack' = c /\ odd' = odd
  <2>1. stack' = c
    BY <1>1, <1>3 DEF d, more, Apps
  <2> QED BY <1>1, <1>2, <2>1
<1> HIDE DEF f, c
<1>12. E!State' = n
  BY <1>11 DEF E!State
<1>13. n \in States /\ n.ep = f /\ n.app = c /\ n.odd = odd
  BY <1>3, <1>6, <1>10 DEF States
<1> HIDE DEF n
<1>14. EpTyped(n)
  <2>1. more \subseteq E!ToSet(ep.fifo) \cup {b}
    BY <1>3 DEF more
  <2> QED BY <1>3, <1>5, <1>6, <1>10, <1>13, <2>1 DEF EpTyped
<1>15. EpHead(n)
  <2> SUFFICES ASSUME odd \cap Broken = {} PROVE EpHead(n)
    BY <1>13 DEF EpHead
  <2>1. /\ ep.hw # E!NoXfer => ep.busy /\ ep.fifo # <<>> /\ Head(ep.fifo) = ep.hw.buf
        /\ \A x \in E!ToSet(ep.fifo) : Due(E!State, x)
        /\ stack.bad # {} => "eio" \in odd
    BY <1>3 DEF UdcInv, EpHead
  <2>2. ASSUME NEW x \in E!ToSet(ep.fifo)
        PROVE  Due(n, x)
    <3>1. x \in Bufs \ {b} /\ Due(E!State, x)
      BY <1>3, <1>4, <2>1, Elements
    <3>2. x \in more <=> x \in stack.zlp
      BY <3>1 DEF more
    <3> QED BY <1>3, <1>8, <1>10, <1>13, <3>1, <3>2 DEF Due
  <2>3. Due(n, b)
    <3>1. z \in BOOLEAN /\ (b \in more <=> z)
      BY <1>3, <1>4 DEF more
    <3> QED BY <1>8, <1>10, <1>13, <3>1 DEF Due
  <2>4. \A x \in E!ToSet(n.ep.fifo) : Due(n, x)
    BY <1>5, <1>6, <1>13, <2>2, <2>3
  <2>5. n.ep.hw # E!NoXfer => n.ep.busy /\ n.ep.fifo # <<>> /\ Head(n.ep.fifo) = n.ep.hw.buf
    BY <1>5, <1>6, <1>7, <1>13, <2>1
  <2> QED BY <1>10, <1>13, <2>1, <2>4, <2>5 DEF EpHead
<1>16. dir' \in Dirs /\ peeked' \in Bufs \cup {NoBuf} /\ (dir' = "in" \/ n.app.zlp = {})
  <2>1. dir # "in" => stack.zlp = {} /\ ~z
    BY DEF UdcInv
  <2> QED BY <1>2, <1>10, <1>13, <2>1 DEF UdcInv, more
<1>17. call' \notin InCall /\ call \notin InCall
  BY <1>2 DEF InCall
<1>18. n.ep.busy => n.ep.hw # E!NoXfer \/ n.odd \cap {"dead", "stale"} # {}
  BY <1>2, <1>6, <1>7, <1>13, <1>17 DEF UdcInv, E!BusyIsOwed, InCall
<1> QED BY <1>2, <1>5, <1>6, <1>12, <1>13, <1>14, <1>15, <1>16, <1>17, <1>18, UdcInvIs

LEMMA UdcDequeue ==
    ASSUME UdcInv, E!Dequeue
    PROVE  UdcInv'
<1> DEFINE f == [ep EXCEPT !.fifo = <<>>]
           c == E!Give(stack, E!ToSet(ep.fifo))
           n == [ep |-> f, app |-> c, odd |-> odd']
<1>1. /\ call = "idle" /\ call' = "unmark" /\ UNCHANGED <<dir, peeked>> /\ ep' = f /\ stack' = c
      /\ odd' = IF ep.hw = E!NoXfer THEN odd ELSE odd \cup {"live"}
  BY DEF E!Dequeue
<1>2. /\ ep \in Eps /\ stack \in Apps /\ odd \subseteq {"stale", "live", "eio", "dead"}
      /\ E!State.ep = ep /\ E!State.app = stack /\ E!State.odd = odd
      /\ ep.fifo \in Seq(Bufs) /\ ep.hw \in Xfers /\ stack.zlp \subseteq E!ToSet(ep.fifo)
  BY NowIs
<1>3. <<>> \in Seq(Bufs) /\ E!ToSet(<<>>) = {} /\ E!IsInjective(<<>>)
  BY NothingQueuedYet
<1>4. E!ToSet(ep.fifo) \in SUBSET Bufs
  BY <1>2, Elements
<1>5. f \in Eps /\ f.fifo = <<>> /\ f.hw = ep.hw
  BY <1>2, <1>3 DEF Eps
<1>6. c \in Apps /\ c.zlp = {} /\ c.bad = stack.bad
  BY <1>2, <1>4, GiveDoes
<1> HIDE DEF f, c
<1>7. E!State' = n
  BY <1>1 DEF E!State
<1>8. n \in States /\ n.ep = f /\ n.app = c /\ n.odd = odd'
  BY <1>1, <1>2, <1>5, <1>6 DEF States
<1> HIDE DEF n
<1>9. EpTyped(n)
  BY <1>3, <1>5, <1>6, <1>8 DEF EpTyped
<1>10. odd' \cap Broken = {} => ep.hw = E!NoXfer /\ odd \cap Broken = {}
  BY <1>1 DEF Broken
<1>11. EpHead(n)
  <2>1. odd \cap Broken = {} => (stack.bad # {} => "eio" \in odd)
    BY <1>2 DEF UdcInv, EpHead
  <2> QED BY <1>1, <1>3, <1>5, <1>6, <1>8, <1>10, <2>1 DEF EpHead
<1>12. call' \in InCall /\ dir' \in Dirs /\ peeked' \in Bufs \cup {NoBuf} /\ n.app.zlp = {}
  BY <1>1, <1>6, <1>8 DEF UdcInv, InCall
<1> QED BY <1>1, <1>5, <1>7, <1>8, <1>9, <1>10, <1>11, <1>12, UdcInvIs

(* The other calls, the end of a transfer by an error and the bus reset.    *)
LEMMA UdcCalls ==
    ASSUME UdcInv,
           E!Call \/ E!XferFails \/ E!SetHalt \/ E!ClearHalt \/ E!Disable \/ E!TransferError \/ E!BusReset
    PROVE  UdcInv'
<1>1. /\ ep \in Eps /\ ep.fifo \in Seq(Bufs) /\ ep.hw \in Xfers
      /\ odd \subseteq {"stale", "live", "eio", "dead"} /\ E!NoXfer \in Xfers
      /\ call \in {"idle", "peek", "claim"} \cup InCall /\ peeked \in Bufs \cup {NoBuf}
      /\ call \in {"claim", "xfer", "undo"} => peeked \in Bufs
  BY NowIs, XferIs DEF UdcInv
<1>2. odd \cap Broken = {} /\ ep.hw # E!NoXfer => ep.busy /\ ep.fifo # <<>> /\ Head(ep.fifo) = ep.hw.buf
  BY NowIs DEF UdcInv, EpHead
<1>3. /\ call \in InCall /\ odd \cap Broken = {} => ep.hw = E!NoXfer
      /\ call = "xfer" /\ odd \cap Broken = {} => ep.busy
      /\ ep.busy /\ call \notin InCall /\ "stale" \notin odd => ep.fifo # <<>>
      /\ ep.busy => ep.hw # E!NoXfer \/ call \in InCall \/ odd \cap {"dead", "stale"} # {}
  BY DEF UdcInv, E!BusyIsOwed, InCall
<1>4. CASE E!Peek
  <2>1. UNCHANGED <<dir, ep, stack, odd>> /\ call = "peek"
    BY <1>4 DEF E!Peek
  <2>2. call \notin InCall /\ call' \in {"idle", "claim"} /\ call' \notin InCall
    BY <1>4, <2>1 DEF E!Peek, E!Return, InCall
  <2>3. peeked' \in Bufs \cup {NoBuf} /\ (call' \in {"claim", "xfer", "undo"} => peeked' \in Bufs)
    <3>1. ep.fifo # <<>> => Head(ep.fifo) \in Bufs
      BY <1>1, HeadTailProperties
    <3> QED BY <1>4, <3>1 DEF E!Peek, E!Return
  <2>4. call' # "xfer"
    BY <2>2
  <2> QED BY <1>1, <1>2, <1>3, <2>1, <2>2, <2>3, <2>4, UdcCallStep
<1>5. CASE E!Claim
  <2>1. CASE ep.busy
    <3>1. UNCHANGED <<dir, ep, stack, odd>> /\ call = "claim" /\ call' = "idle" /\ peeked' = NoBuf
      BY <1>5, <2>1 DEF E!Claim, E!Return
    <3>2. call \notin InCall /\ call' \notin InCall
      BY <3>1 DEF InCall
    <3> QED BY <1>1, <1>2, <1>3, <3>1, <3>2, UdcCallStep
  <2>2. CASE ~ep.busy
    <3> DEFINE f == [ep EXCEPT !.busy = TRUE]
    <3>1. /\ UNCHANGED <<dir, stack, odd, peeked>> /\ call = "claim" /\ call' = "xfer" /\ ep' = f
      BY <1>5, <2>2 DEF E!Claim
    <3>2. f \in Eps /\ f.fifo = ep.fifo /\ f.hw = ep.hw
      BY <1>1 DEF Eps
    <3>3. f.busy
      BY <1>1 DEF Eps
    <3>4. call' \in InCall
      BY <3>1 DEF InCall
    <3> HIDE DEF f
    <3> QED BY <1>1, <1>2, <1>3, <2>2, <3>1, <3>2, <3>3, <3>4, UdcCallStep
  <2> QED BY <2>1, <2>2
<1>6. CASE E!Xfer
  <2> DEFINE f == [ep EXCEPT !.hw = E!Data(peeked)]
  <2>1. /\ UNCHANGED <<dir, stack>> /\ call = "xfer" /\ call' = "idle" /\ peeked' = NoBuf /\ ep' = f
        /\ odd' = IF ep.fifo # <<>> /\ Head(ep.fifo) = peeked THEN odd ELSE odd \cup {"stale"}
    BY <1>6 DEF E!Xfer, E!Return
  <2>2. peeked \in Bufs
    BY <1>1, <2>1
  <2>3. f \in Eps /\ f.fifo = ep.fifo /\ f.hw = E!Data(peeked)
    BY <1>1, <2>2, XferIs DEF Eps
  <2>4. f.busy <=> ep.busy
    BY <1>1 DEF Eps
  <2>5. f.hw # E!NoXfer /\ f.hw.buf = peeked
    BY <2>2, <2>3, XferIs
  <2>6. call' \notin InCall
    BY <2>1 DEF InCall
  <2>7. "stale" \notin odd' => ep.fifo # <<>> /\ Head(ep.fifo) = peeked /\ odd' = odd
    BY <2>1
  <2>8. odd' \subseteq {"stale", "live", "eio", "dead"} /\ odd \subseteq odd'
    BY <1>1, <2>1
  <2>9. odd' \cap Broken = {} => "stale" \notin odd' /\ odd \cap Broken = {}
    BY <2>8 DEF Broken
  <2> HIDE DEF f
  <2> QED BY <1>1, <1>3, <2>1, <2>3, <2>4, <2>5, <2>6, <2>7, <2>8, <2>9, UdcCallStep
<1>7. CASE E!XferFails
  <2>1. UNCHANGED <<dir, ep, stack, odd, peeked>> /\ call = "xfer" /\ call' = "undo"
    BY <1>7 DEF E!XferFails
  <2>2. call \in InCall /\ call' \in InCall
    BY <2>1 DEF InCall
  <2> QED BY <1>1, <1>2, <1>3, <2>1, <2>2, UdcCallStep
<1>8. CASE E!Undo \/ E!Unmark
  <2> DEFINE f == [ep EXCEPT !.busy = FALSE]
  <2>1. /\ UNCHANGED <<dir, stack>> /\ call \in InCall /\ call' = "idle" /\ peeked' = NoBuf /\ ep' = f
        /\ odd' = odd \cup {"eio"} \/ odd' = odd \ {"dead"}
    BY <1>8 DEF E!Undo, E!Unmark, E!Return, InCall
  <2>2. f \in Eps /\ f.fifo = ep.fifo /\ f.hw = ep.hw
    BY <1>1 DEF Eps
  <2>3. ~f.busy
    BY <1>1 DEF Eps
  <2>4. odd' \subseteq {"stale", "live", "eio", "dead"} /\ odd \subseteq odd' \cup {"dead"}
    BY <1>1, <2>1
  <2>5. odd' \cap Broken = {} => ep.hw = E!NoXfer
    BY <1>3, <2>1 DEF Broken
  <2>6. call' \notin InCall
    BY <2>1 DEF InCall
  <2> HIDE DEF f
  <2> QED BY <2>1, <2>2, <2>3, <2>4, <2>5, <2>6, UdcCallStep
<1>9. CASE E!SetHalt \/ E!ClearHalt
  <2>1. PICK f \in {[ep EXCEPT !.stall = TRUE], [ep EXCEPT !.stall = FALSE]} :
          /\ ep' = f /\ UNCHANGED <<dir, stack, odd, peeked>> /\ call = "idle" /\ call' \in {"idle", "peek"}
    BY <1>9 DEF E!SetHalt, E!ClearHalt
  <2>2. f \in Eps /\ f.fifo = ep.fifo /\ f.hw = ep.hw
    BY <1>1, <2>1 DEF Eps
  <2>3. f.busy <=> ep.busy
    BY <1>1, <2>1 DEF Eps
  <2>4. call \notin InCall /\ call' \notin InCall /\ call' # "xfer"
    BY <2>1 DEF InCall
  <2> QED BY <1>1, <1>2, <1>3, <2>1, <2>2, <2>3, <2>4, UdcCallStep
<1>10. CASE E!Disable \/ E!TransferError \/ E!BusReset
  <2> DEFINE f == [ep EXCEPT !.hw = E!NoXfer]
  <2>1. /\ ep' = f /\ UNCHANGED <<dir, stack, call, peeked>>
        /\ odd' = IF ep.hw = E!NoXfer THEN odd ELSE odd \cup {"dead"}
    BY <1>10 DEF E!Disable, E!TransferError, E!BusReset, E!Dead
  <2>2. f \in Eps /\ f.fifo = ep.fifo /\ f.hw = E!NoXfer
    BY <1>1 DEF Eps
  <2>3. f.busy <=> ep.busy
    BY <1>1 DEF Eps
  <2>4. odd' \subseteq {"stale", "live", "eio", "dead"} /\ odd \subseteq odd'
    BY <1>1, <2>1
  <2>5. f.busy => call' \in InCall \/ odd' \cap {"dead", "stale"} # {}
    BY <1>3, <2>1, <2>3
  <2>6. odd' \cap Broken = {} => odd \cap Broken = {}
    BY <2>4
  <2>7. f.busy /\ call' \notin InCall /\ "stale" \notin odd' => f.fifo # <<>>
    BY <1>3, <2>1, <2>2, <2>3, <2>4
  <2> HIDE DEF f
  <2> QED BY <1>1, <1>3, <2>1, <2>2, <2>3, <2>4, <2>5, <2>6, <2>7, UdcCallStep
<1> QED BY <1>4, <1>5, <1>6, <1>7, <1>8, <1>9, <1>10 DEF E!Call

LEMMA UdcInit ==
    ASSUME E!Init
    PROVE  UdcInv
<1>1. /\ dir \in Dirs /\ ep = [fifo |-> <<>>, busy |-> FALSE, hw |-> E!NoXfer, stall |-> FALSE]
      /\ call = "idle" /\ peeked = NoBuf /\ odd = {}
      /\ stack = [owns |-> Bufs, zlp |-> {}, bad |-> {}, due |-> [b \in Bufs |-> 0]]
  BY DEF E!Init
<1>2. <<>> \in Seq(Bufs) /\ E!ToSet(<<>>) = {} /\ E!IsInjective(<<>>)
  BY NothingQueuedYet
<1>3. ep \in Eps /\ ep.fifo = <<>> /\ ep.hw = E!NoXfer
  BY <1>1, <1>2, XferIs DEF Eps
<1>4. ~ep.busy
  BY <1>1
<1>5. stack \in Apps /\ stack.zlp = {} /\ stack.bad = {}
  BY <1>1 DEF Apps
<1>6. E!State \in States /\ E!State.ep = ep /\ E!State.app = stack /\ E!State.odd = odd
  BY <1>1, <1>3, <1>5 DEF E!State, States
<1>7. EpTyped(E!State) /\ EpHead(E!State)
  BY <1>2, <1>3, <1>5, <1>6 DEF EpTyped, EpHead
<1> QED BY <1>1, <1>3, <1>4, <1>5, <1>7 DEF UdcInv, E!BusyIsOwed, InCall

(* The endpoint: a buffer is once in the queue or it is the stack's, and    *)
(* unless a look at the queue was stale or a dequeue met a transfer, the    *)
(* controller works on the head of the queue.                               *)
THEOREM UdcIsSound == E!Spec => []UdcInv
<1>1. UdcInv /\ [E!Next]_(E!vars) => UdcInv'
  <2> SUFFICES ASSUME UdcInv, [E!Next]_(E!vars) PROVE UdcInv'
    OBVIOUS
  <2>1. CASE UNCHANGED E!vars
    <3>1. UNCHANGED <<dir, ep, call, peeked, stack, odd>>
      BY <2>1 DEF E!vars
    <3>2. E!State' = E!State
      BY <3>1 DEF E!State
    <3> QED BY <3>1, <3>2 DEF UdcInv, E!BusyIsOwed
  <2>2. CASE E!Next
    BY <2>2, UdcCalls, UdcEnqueue, UdcDequeue, UdcTransferDone DEF E!Next
  <2> QED BY <2>1, <2>2
<1> QED BY <1>1, UdcInit, PTL DEF E!Spec

(* A buffer reported complete was transferred, the controller works on no   *)
(* buffer the stack has back, and an endpoint marked busy has a transfer    *)
(* that clears the mark, with the exceptions EndpointIsSound names.         *)
THEOREM EndpointServes == Spec => []EndpointIsSound
<1>1. UdcInv => EndpointIsSound
  <2> SUFFICES ASSUME UdcInv PROVE EndpointIsSound
    OBVIOUS
  <2>1. /\ E!State.ep = ep /\ E!State.app = stack /\ E!State.odd = odd /\ ep.fifo \in Seq(Bufs)
        /\ E!IsInjective(ep.fifo) /\ stack.owns \cap E!ToSet(ep.fifo) = {}
    BY NowIs
  <2>2. CASE odd \cap Broken # {}
    BY <2>2 DEF EndpointIsSound, UdcInv, E!ReportedIsTransferred, E!InFlightIsQueued, Broken
  <2>3. CASE odd \cap Broken = {}
    <3>1. /\ ep.hw # E!NoXfer => ep.busy /\ ep.fifo # <<>> /\ Head(ep.fifo) = ep.hw.buf
          /\ stack.bad # {} => "eio" \in odd
      BY <2>1, <2>3 DEF UdcInv, EpHead
    <3>2. ep.hw # E!NoXfer => ep.hw.buf \in E!ToSet(ep.fifo) \ stack.owns
      BY <2>1, <3>1, TailDropsHead
    <3> QED BY <3>1, <3>2 DEF EndpointIsSound, UdcInv, E!ReportedIsTransferred, E!InFlightIsQueued
  <2> QED BY <2>2, <2>3
<1> QED BY <1>1, UdcIsSound, UnionIsEach, PTL
-------------------------------------------------------------------------------
(* DmaChannel: what the calls of the driver and the controller do.          *)
Loaded(c, a, n) ==
    /\ c.valid /\ c.busy /\ c.addr = a /\ c.en /\ c.remain = n /\ c.flags = {}

LEMMA LoadedIs ==
    ASSUME NEW B, NEW max \in Nat, NEW c, NEW a \in B \cup {NoBuf}, NEW n \in 0..max
    PROVE  /\ U!Config(c, a, n) \in U!Channels(B, max)
           /\ U!Start(U!Config(c, a, n)) \in U!Channels(B, max)
           /\ Loaded(U!Start(U!Config(c, a, n)), a, n)
<1> DEFINE d == [valid |-> TRUE, busy |-> FALSE, addr |-> a, en |-> FALSE, remain |-> n, flags |-> {}]
           e == [d EXCEPT !.busy = TRUE, !.en = TRUE]
<1>1. U!Config(c, a, n) = d /\ d \in U!Channels(B, max) /\ d.addr = a /\ d.remain = n /\ d.flags = {}
  BY DEF U!Config, U!Channels
<1>2. d.valid
  OBVIOUS
<1> HIDE DEF d
<1>3. U!Start(d) = e
  BY <1>2 DEF U!Start
<1>4. e \in U!Channels(B, max) /\ e.addr = a /\ e.remain = n /\ e.flags = {}
  BY <1>1 DEF U!Channels
<1>5. e.busy /\ e.en /\ e.valid
  BY <1>1, <1>2 DEF U!Channels
<1> QED BY <1>1, <1>3, <1>4, <1>5 DEF Loaded

LEMMA StopDoes ==
    ASSUME NEW B, NEW max \in Nat, NEW c \in U!Channels(B, max)
    PROVE  /\ U!Stop(c) \in U!Channels(B, max) /\ ~U!Stop(c).busy
           /\ U!Stop(c).addr = c.addr /\ U!Stop(c).remain = c.remain
           /\ U!Stop(c).flags \subseteq c.flags /\ (U!Stop(c).en <=> c.en /\ ~c.busy)
<1>1. CASE c.busy
  <2> DEFINE d == [c EXCEPT !.valid = FALSE, !.busy = FALSE, !.en = FALSE, !.flags = {}]
  <2>1. d \in U!Channels(B, max) /\ d.addr = c.addr /\ d.remain = c.remain /\ d.flags = {}
    BY DEF U!Channels
  <2>2. ~d.busy /\ ~d.en
    BY DEF U!Channels
  <2>3. U!Stop(c) = d
    BY <1>1 DEF U!Stop
  <2> QED BY <1>1, <2>1, <2>2, <2>3
<1>2. CASE ~c.busy
  <2> DEFINE d == [c EXCEPT !.valid = FALSE]
  <2>1. d \in U!Channels(B, max) /\ d.addr = c.addr /\ d.remain = c.remain /\ d.flags = c.flags
    BY DEF U!Channels
  <2>2. (d.busy <=> c.busy) /\ (d.en <=> c.en)
    BY DEF U!Channels
  <2>3. U!Stop(c) = d
    BY <1>2 DEF U!Stop
  <2> QED BY <1>2, <2>1, <2>2, <2>3
<1> QED BY <1>1, <1>2

LEMMA SuspendDoes ==
    ASSUME NEW B, NEW max \in Nat, NEW c \in U!Channels(B, max)
    PROVE  /\ U!Suspend(c) \in U!Channels(B, max) /\ (U!Suspend(c).busy <=> c.busy)
           /\ U!Suspend(c).addr = c.addr /\ U!Suspend(c).remain = c.remain
           /\ U!Suspend(c).flags = c.flags /\ (~c.busy => U!Suspend(c) = c)
           /\ U!Suspend(c).en <=> (c.en /\ ~c.busy)
<1>1. CASE c.busy
  <2> DEFINE d == [c EXCEPT !.en = FALSE]
  <2>1. d \in U!Channels(B, max) /\ d.addr = c.addr /\ d.remain = c.remain /\ d.flags = c.flags
    BY DEF U!Channels
  <2>2. (d.busy <=> c.busy) /\ ~d.en
    BY DEF U!Channels
  <2>3. U!Suspend(c) = d
    BY <1>1 DEF U!Suspend
  <2> QED BY <1>1, <2>1, <2>2, <2>3
<1>2. CASE ~c.busy
  BY <1>2 DEF U!Suspend
<1> QED BY <1>1, <1>2

LEMMA ResumeDoes ==
    ASSUME NEW B, NEW max \in Nat, NEW c \in U!Channels(B, max)
    PROVE  /\ U!Resume(c) \in U!Channels(B, max) /\ (U!Resume(c).busy <=> c.busy)
           /\ U!Resume(c).addr = c.addr /\ U!Resume(c).remain = c.remain
           /\ U!Resume(c).flags = c.flags /\ (~c.busy => U!Resume(c) = c)
<1>1. CASE c.busy
  <2> DEFINE d == [c EXCEPT !.en = TRUE]
  <2>1. d \in U!Channels(B, max) /\ d.addr = c.addr /\ d.remain = c.remain /\ d.flags = c.flags
    BY DEF U!Channels
  <2>2. d.busy <=> c.busy
    BY DEF U!Channels
  <2>3. U!Resume(c) = d
    BY <1>1 DEF U!Resume
  <2> QED BY <1>1, <2>1, <2>2, <2>3
<1>2. CASE ~c.busy
  BY <1>2 DEF U!Resume
<1> QED BY <1>1, <1>2

LEMMA ServedDoes ==
    ASSUME NEW B, NEW max \in Nat, NEW c \in U!Channels(B, max)
    PROVE  /\ U!Served(c) \in U!Channels(B, max) /\ ~U!Served(c).busy
           /\ U!Served(c).addr = c.addr /\ U!Served(c).remain = c.remain
           /\ U!Served(c).flags = {} /\ (U!Served(c).en <=> c.en)
<1> DEFINE d == [c EXCEPT !.flags = {}, !.busy = FALSE]
<1>1. d \in U!Channels(B, max) /\ d.addr = c.addr /\ d.remain = c.remain /\ d.flags = {}
  BY DEF U!Channels
<1>2. ~d.busy /\ (d.en <=> c.en)
  BY DEF U!Channels
<1>3. U!Served(c) = d
  BY DEF U!Served
<1> QED BY <1>1, <1>2, <1>3

LEMMA BeatDoes ==
    ASSUME NEW B, NEW max \in Nat, NEW c \in U!Channels(B, max), U!CanBeat(c)
    PROVE  /\ U!Beat(c) \in U!Channels(B, max) /\ (U!Beat(c).busy <=> c.busy) /\ (U!Beat(c).valid <=> c.valid)
           /\ U!Beat(c).addr = c.addr /\ U!Beat(c).remain = c.remain - 1
           /\ "TC" \in U!Beat(c).flags => "TC" \in c.flags \/ c.remain = 1
           /\ U!Beat(c).en <=> c.remain > 1
           /\ U!Beat(c).flags # {} => c.flags # {} \/ c.remain = 1
<1> DEFINE g == IF c.remain = 1 THEN c.flags \cup {"TC"} ELSE c.flags
           m == c.remain - 1
           d == [c EXCEPT !.remain = m, !.en = (c.remain > 1), !.flags = g]
<1>1. c.remain \in 0..max /\ c.remain > 0 /\ c.flags \subseteq U!Flags
  BY DEF U!Channels, U!CanBeat
<1>2. g \subseteq U!Flags /\ ("TC" \in g => "TC" \in c.flags \/ c.remain = 1) /\ (g # {} => c.flags # {} \/ c.remain = 1)
  BY <1>1 DEF U!Flags
<1>3. U!Beat(c) = d
  BY DEF U!Beat
<1> HIDE DEF g
<1>4. m \in 0..max
  BY <1>1
<1> HIDE DEF m
<1>5. d \in U!Channels(B, max) /\ d.addr = c.addr /\ d.remain = m /\ d.flags = g
  <2>1. (c.remain > 1) \in BOOLEAN
    OBVIOUS
  <2> QED BY <1>2, <1>4, <2>1 DEF U!Channels
<1>6. (d.busy <=> c.busy) /\ (d.valid <=> c.valid)
  BY DEF U!Channels
<1>7. d.en <=> c.remain > 1
  BY DEF U!Channels
<1> QED BY <1>2, <1>3, <1>5, <1>6, <1>7 DEF m

LEMMA EndDoes ==
    ASSUME NEW B, NEW max \in Nat, NEW c \in U!Channels(B, max), NEW g \in U!Flags
    PROVE  /\ U!End(c, g) \in U!Channels(B, max) /\ (U!End(c, g).busy <=> c.busy) /\ (U!End(c, g).valid <=> c.valid)
           /\ U!End(c, g).addr = c.addr /\ U!End(c, g).remain = c.remain
           /\ U!End(c, g).flags = c.flags \cup {g} /\ ~U!End(c, g).en
<1> DEFINE d == [c EXCEPT !.en = FALSE, !.flags = @ \cup {g}]
<1>1. d \in U!Channels(B, max) /\ d.addr = c.addr /\ d.remain = c.remain /\ d.flags = c.flags \cup {g}
  BY DEF U!Channels
<1>2. ~d.en /\ (d.busy <=> c.busy) /\ (d.valid <=> c.valid)
  BY DEF U!Channels
<1>3. U!End(c, g) = d
  BY DEF U!End
<1> QED BY <1>1, <1>2, <1>3
-------------------------------------------------------------------------------
(* UartAsync.  The receive side: the driver's record, its channel and the   *)
(* application.                                                             *)
Mine     == Buffers \cup {NoBuf}
Whats    == {"gap", "short", "error", "stray", "tx"}
RxRecs   == [cur : Mine, off : 0..BufLen, size : 0..BufLen, total : {0, BufLen}, next : Mine, nlen : {0, BufLen}]
AppRecs  == [owns : SUBSET Buffers, dropped : SUBSET Buffers, asked : BOOLEAN, on : BOOLEAN,
             bad : SUBSET Whats, wrote : [Buffers -> 0..BufLen], told : [Buffers -> 0..BufLen]]
RxStates == [rx : RxRecs, dma : U!Channels(Buffers, BufLen), app : AppRecs]

(* Every buffer is with one of its owners, and while reception is on the    *)
(* channel is set to the current one, running or not.                       *)
RxOwned(s) ==
    /\ s.app.on <=> s.rx.cur # NoBuf
    /\ s.rx.cur \notin s.app.owns /\ s.rx.next \notin s.app.owns /\ (s.rx.cur = s.rx.next => s.rx.cur = NoBuf)
    /\ ~s.app.on => s.rx.off = 0 /\ s.rx.total = 0 /\ s.rx.next = NoBuf /\ ~s.app.asked /\ ~s.dma.busy
    /\ s.app.on => s.dma.addr = s.rx.cur
    /\ s.app.asked => s.rx.next = NoBuf
    /\ \A b \in Buffers : b \in s.app.owns \cup s.app.dropped \/ b \in {s.rx.cur, s.rx.next}

(* The flush subtracts without a wrap, and no byte lands beyond a buffer.   *)
RxCounted(s) ==
    /\ s.rx.off + U!Pending(s.dma) <= s.rx.total
    /\ \A b \in s.app.owns : s.app.wrote[b] = 0 /\ s.app.told[b] = 0
    /\ s.rx.next # NoBuf => s.app.wrote[s.rx.next] = 0 /\ s.app.told[s.rx.next] = 0
    /\ s.dma.remain > 0 => s.dma.addr \in Buffers /\ s.app.wrote[s.dma.addr] + s.dma.remain <= BufLen

(* Until a DMA transfer fails, the channel fills the current buffer and the *)
(* driver knows how far.                                                    *)
RxExact(s) ==
    "error" \notin s.app.bad =>
      /\ s.app.bad \cap {"gap", "short", "stray"} = {}
      /\ s.app.on => /\ s.dma.busy
                     /\ s.app.told[s.rx.cur] = s.rx.off /\ s.app.wrote[s.rx.cur] + s.dma.remain = s.rx.total
      /\ ~s.app.on => ~U!CanBeat(s.dma)
      /\ "TC" \in s.dma.flags => s.dma.remain = 0
      /\ \A b \in Buffers : s.app.told[b] <= s.app.wrote[b]

RxGood(s) == s \in RxStates /\ RxOwned(s) /\ RxCounted(s) /\ RxExact(s)

TxSound ==
    /\ "tx" \notin app.bad
    /\ txDma.en \/ txDma.flags # {} \/ txPc # "idle" => txDue = tx.buf /\ tx.buf \in TxBufs /\ tx.len = TxLen
    /\ txPc # "idle" \/ txDma.flags # {} => ~txDma.en
    /\ txPc # "idle" => txDma.flags = {}
    /\ txPc = "start" => txDma.valid
    /\ "TC" \in txDma.flags => txDma.remain = 0

TxRecs == [buf : TxBufs \cup {NoBuf}, len : {0, TxLen}]
RestTyped ==
    /\ timeoutOn \in BOOLEAN /\ lineOn \in BOOLEAN /\ fresh \in BOOLEAN /\ rsp \in Mine
    /\ tx \in TxRecs /\ txDma \in U!Channels(TxBufs, TxLen)
    /\ txPc \in {"idle", "load", "start"} /\ txDue \in TxBufs \cup {NoBuf}

UartInv == RxGood(U!State) /\ TxSound /\ RestTyped

LEMMA Lengths == BufLen \in Nat /\ BufLen < 256 /\ TxLen \in Nat /\ NoBuf \notin Buffers /\ NoBuf \notin TxBufs
<1>1. U!SizeMod = 256
  BY DEF U!SizeMod
<1> QED BY <1>1, SerialAssumption DEF SerialAssumption

LEMMA RxStateIs ==
    ASSUME NEW s \in RxStates
    PROVE  /\ s.rx \in RxRecs /\ s.dma \in U!Channels(Buffers, BufLen) /\ s.app \in AppRecs
           /\ s.rx.cur \in Mine /\ s.rx.next \in Mine /\ s.rx.off \in 0..BufLen /\ s.rx.total \in {0, BufLen}
           /\ s.rx.size \in 0..BufLen /\ s.rx.nlen \in {0, BufLen}
           /\ s.dma.addr \in Mine /\ s.dma.remain \in 0..BufLen /\ s.dma.flags \subseteq {"TC", "ERR"}
           /\ U!Pending(s.dma) \in 0..BufLen /\ s.rx.total \in 0..BufLen
           /\ s.app.owns \subseteq Buffers /\ s.app.dropped \subseteq Buffers /\ s.app.bad \subseteq Whats
           /\ s.app.wrote \in [Buffers -> 0..BufLen] /\ s.app.told \in [Buffers -> 0..BufLen]
<1>1. s.rx \in RxRecs /\ s.dma \in U!Channels(Buffers, BufLen) /\ s.app \in AppRecs
  BY DEF RxStates
<1>2. s.dma.remain \in 0..BufLen /\ s.dma.addr \in Mine /\ s.dma.flags \subseteq {"TC", "ERR"}
  BY <1>1 DEF U!Channels, U!Flags, Mine
<1>3. U!Pending(s.dma) \in 0..BufLen
  BY <1>2, Lengths DEF U!Pending
<1> QED BY <1>1, <1>2, <1>3, Lengths DEF RxRecs, AppRecs

(* The bytes the application was not told of yet; they are in range.        *)
Unread(s) == s.rx.total - s.rx.off - U!Pending(s.dma)

LEMMA FlushDoes ==
    ASSUME NEW s \in RxStates, s.rx.off + U!Pending(s.dma) <= s.rx.total,
           s.rx.total # 0 => s.rx.cur # NoBuf
    PROVE  LET f == U!Flush(s) IN
           /\ f \in RxStates /\ f.dma = s.dma
           /\ f.rx.cur = s.rx.cur /\ f.rx.next = s.rx.next /\ f.rx.nlen = s.rx.nlen /\ f.rx.total = s.rx.total
           /\ f.rx.off = s.rx.total - U!Pending(s.dma) /\ f.rx.size = Unread(s)
           /\ f.app.owns = s.app.owns /\ f.app.dropped = s.app.dropped /\ f.app.wrote = s.app.wrote
           /\ (f.app.on <=> s.app.on) /\ (f.app.asked <=> s.app.asked)
           /\ \A b \in Buffers : f.app.told[b] =
                IF b = s.rx.cur /\ Unread(s) # 0 THEN f.rx.off ELSE s.app.told[b]
           /\ f.app.bad = IF Unread(s) # 0 /\ s.app.told[s.rx.cur] # s.rx.off
                          THEN s.app.bad \cup {"gap"} ELSE s.app.bad
<1> DEFINE n == Unread(s)
           f == U!Flush(s)
<1>1. /\ s.rx \in RxRecs /\ s.app \in AppRecs /\ s.rx.off \in 0..BufLen /\ s.rx.total \in 0..BufLen
      /\ U!Pending(s.dma) \in 0..BufLen /\ BufLen \in Nat /\ BufLen < 256 /\ s.rx.cur \in Mine
      /\ s.app.told \in [Buffers -> 0..BufLen]
  BY RxStateIs, Lengths
<1>2. n \in 0..BufLen /\ n = s.rx.total - s.rx.off - U!Pending(s.dma)
  BY <1>1 DEF Unread
<1>3. U!NewBytes(s) = n
  <2> HIDE DEF n
  <2>1. n \in Nat /\ 0 <= n /\ n < 256
    BY <1>1, <1>2
  <2>2. n % 256 = n
    BY <2>1
  <2> QED BY <1>2, <2>2 DEF U!NewBytes, U!SizeMod
<1> HIDE DEF n
<1>4. CASE n = 0
  <2> DEFINE r == [s.rx EXCEPT !.size = 0]
  <2>1. f = [s EXCEPT !.rx = r]
    BY <1>3, <1>4 DEF U!Flush, RxStates
  <2>2. /\ r \in RxRecs /\ r.cur = s.rx.cur /\ r.next = s.rx.next /\ r.nlen = s.rx.nlen
        /\ r.total = s.rx.total /\ r.off = s.rx.off /\ r.size = 0
    BY <1>1 DEF RxRecs
  <2> HIDE DEF r, f
  <2>3. f \in RxStates /\ f.rx = r /\ f.dma = s.dma /\ f.app = s.app
    BY <2>1, <2>2 DEF RxStates
  <2>4. f.rx.off = s.rx.total - U!Pending(s.dma)
    BY <1>1, <1>2, <1>4, <2>2, <2>3
  <2> QED BY <1>4, <2>2, <2>3, <2>4 DEF f, n
<1>5. CASE n # 0
  <2> DEFINE o == s.rx.off + n
             r == [s.rx EXCEPT !.size = n, !.off = o]
             t == [s.app.told EXCEPT ![s.rx.cur] = o]
             a == [s.app EXCEPT !.told = t]
             g == [s EXCEPT !.rx = r, !.app = a]
  <2>1. o = s.rx.total - U!Pending(s.dma) /\ o \in 0..BufLen
    BY <1>1, <1>2
  <2>2. s.rx.cur \in Buffers
    BY <1>1, <1>2, <1>5 DEF Mine
  <2>3. f = U!Note(g, s.app.told[s.rx.cur] # s.rx.off, "gap")
    <3>1. g = [s EXCEPT !.rx.size = n, !.rx.off = @ + n,
                        !.app.told = [@ EXCEPT ![s.rx.cur] = s.rx.off + n]]
      BY DEF RxStates, RxRecs, AppRecs
    <3> HIDE DEF g
    <3> QED BY <1>3, <1>5, <3>1 DEF U!Flush
  <2> HIDE DEF o
  <2>4. /\ r \in RxRecs /\ r.cur = s.rx.cur /\ r.next = s.rx.next /\ r.nlen = s.rx.nlen
        /\ r.total = s.rx.total /\ r.off = o /\ r.size = n
    BY <1>1, <1>2, <2>1 DEF RxRecs
  <2>5. t \in [Buffers -> 0..BufLen] /\ \A b \in Buffers : t[b] = IF b = s.rx.cur THEN o ELSE s.app.told[b]
    BY <1>1, <2>1, <2>2
  <2> HIDE DEF t
  <2>6. /\ a \in AppRecs /\ a.owns = s.app.owns /\ a.dropped = s.app.dropped
        /\ a.wrote = s.app.wrote /\ a.told = t /\ a.bad = s.app.bad
    BY <1>1, <2>5 DEF AppRecs
  <2>7. (a.on <=> s.app.on) /\ (a.asked <=> s.app.asked)
    BY <1>1 DEF AppRecs
  <2> HIDE DEF r, a, f
  <2>8. g \in RxStates /\ g.rx = r /\ g.dma = s.dma /\ g.app = a
    BY <2>4, <2>6 DEF RxStates
  <2> HIDE DEF g
  <2> DEFINE m == IF s.app.told[s.rx.cur] # s.rx.off THEN s.app.bad \cup {"gap"} ELSE s.app.bad
             c == [g.app EXCEPT !.bad = m]
  <2>9. f = [g EXCEPT !.app = c]
    BY <2>3, <2>6, <2>8 DEF U!Note, RxStates
  <2>12. m \in SUBSET Whats /\ c = [g.app EXCEPT !.bad = m]
    BY <2>6, <2>8, RxStateIs DEF Whats
  <2>13. m = IF s.app.told[s.rx.cur] # s.rx.off THEN s.app.bad \cup {"gap"} ELSE s.app.bad
    OBVIOUS
  <2> HIDE DEF m, c
  <2>10. /\ f \in RxStates /\ f.rx = g.rx /\ f.dma = g.dma
         /\ f.app.owns = g.app.owns /\ f.app.dropped = g.app.dropped
         /\ f.app.wrote = g.app.wrote /\ f.app.told = g.app.told /\ f.app.bad = m
         /\ (f.app.on <=> g.app.on) /\ (f.app.asked <=> g.app.asked)
    <3>1. g.app \in AppRecs
      BY RxStateIs, <2>8
    <3>2. c \in AppRecs /\ c.owns = g.app.owns /\ c.dropped = g.app.dropped
          /\ c.wrote = g.app.wrote /\ c.told = g.app.told /\ c.bad = m
      BY <3>1, <2>12 DEF AppRecs
    <3>3. (c.on <=> g.app.on) /\ (c.asked <=> g.app.asked)
      BY <3>1, <2>12 DEF AppRecs
    <3>4. f \in RxStates /\ f.rx = g.rx /\ f.dma = g.dma /\ f.app = c
      BY <3>2, <2>8, <2>9 DEF RxStates
    <3> QED BY <3>2, <3>3, <3>4
  <2>11. \A b \in Buffers : f.app.told[b] = IF b = s.rx.cur THEN f.rx.off ELSE s.app.told[b]
    <3>1. f.app.told = t
      BY <2>6, <2>8, <2>10
    <3>2. f.rx.off = o
      BY <2>4, <2>8, <2>10
    <3> QED BY <2>5, <3>1, <3>2
  <2> QED BY <1>5, <2>1, <2>4, <2>6, <2>7, <2>8, <2>10, <2>11, <2>13 DEF f, n
<1> QED BY <1>4, <1>5

LEMMA ReleaseDoes ==
    ASSUME NEW s \in RxStates
    PROVE  LET r == U!Release(s) IN
           /\ r \in RxStates /\ r.dma = s.dma /\ r.rx = s.rx
           /\ r.app.owns = s.app.owns \cup ({s.rx.cur} \ {NoBuf}) /\ r.app.dropped = s.app.dropped
           /\ (r.app.on <=> s.app.on) /\ (r.app.asked <=> s.app.asked)
           /\ \A b \in Buffers : /\ r.app.wrote[b] = IF b = s.rx.cur THEN 0 ELSE s.app.wrote[b]
                                 /\ r.app.told[b] = IF b = s.rx.cur THEN 0 ELSE s.app.told[b]
           /\ r.app.bad = IF s.rx.cur # NoBuf /\ s.app.told[s.rx.cur] < s.app.wrote[s.rx.cur]
                          THEN s.app.bad \cup {"short"} ELSE s.app.bad
<1>1. s.app \in AppRecs /\ s.rx.cur \in Mine /\ NoBuf \notin Buffers /\ BufLen \in Nat
  BY RxStateIs, Lengths
<1>2. CASE s.rx.cur = NoBuf
  <2>1. U!Release(s) = s
    BY <1>2 DEF U!Release
  <2> QED BY <1>1, <1>2, <2>1
<1>3. CASE s.rx.cur # NoBuf
  <2> DEFINE w == [s.app.wrote EXCEPT ![s.rx.cur] = 0]
             t == [s.app.told EXCEPT ![s.rx.cur] = 0]
             o == s.app.owns \cup {s.rx.cur}
             a == [s.app EXCEPT !.owns = o, !.wrote = w, !.told = t]
             g == [s EXCEPT !.app = a]
             r == U!Release(s)
  <2>1. s.rx.cur \in Buffers
    BY <1>1, <1>3 DEF Mine
  <2>2. r = U!Note(g, s.app.told[s.rx.cur] < s.app.wrote[s.rx.cur], "short")
    <3>1. g = [s EXCEPT !.app.owns = @ \cup {s.rx.cur}, !.app.wrote[s.rx.cur] = 0, !.app.told[s.rx.cur] = 0]
      BY DEF RxStates, AppRecs
    <3> HIDE DEF g
    <3> QED BY <1>3, <3>1 DEF U!Release
  <2>3. /\ w \in [Buffers -> 0..BufLen] /\ t \in [Buffers -> 0..BufLen] /\ o \subseteq Buffers
        /\ \A b \in Buffers : /\ w[b] = IF b = s.rx.cur THEN 0 ELSE s.app.wrote[b]
                              /\ t[b] = IF b = s.rx.cur THEN 0 ELSE s.app.told[b]
    BY <1>1, <2>1 DEF AppRecs
  <2> HIDE DEF w, t, o
  <2>4. /\ a \in AppRecs /\ a.owns = o /\ a.dropped = s.app.dropped
        /\ a.wrote = w /\ a.told = t /\ a.bad = s.app.bad
    BY <1>1, <2>3 DEF AppRecs
  <2>5. (a.on <=> s.app.on) /\ (a.asked <=> s.app.asked)
    BY <1>1 DEF AppRecs
  <2> HIDE DEF a, r
  <2>6. g \in RxStates /\ g.rx = s.rx /\ g.dma = s.dma /\ g.app = a
    BY <2>4 DEF RxStates
  <2> HIDE DEF g
  <2> DEFINE m == IF s.app.told[s.rx.cur] < s.app.wrote[s.rx.cur] THEN s.app.bad \cup {"short"} ELSE s.app.bad
             c == [g.app EXCEPT !.bad = m]
  <2>7. r = [g EXCEPT !.app = c]
    BY <2>2, <2>4, <2>6 DEF U!Note, RxStates
  <2>10. m \in SUBSET Whats /\ c = [g.app EXCEPT !.bad = m]
    BY <2>4, <2>6, RxStateIs DEF Whats
  <2>11. m = IF s.app.told[s.rx.cur] < s.app.wrote[s.rx.cur] THEN s.app.bad \cup {"short"} ELSE s.app.bad
    OBVIOUS
  <2> HIDE DEF m, c
  <2>8. /\ r \in RxStates /\ r.rx = g.rx /\ r.dma = g.dma
        /\ r.app.owns = g.app.owns /\ r.app.dropped = g.app.dropped
        /\ r.app.wrote = g.app.wrote /\ r.app.told = g.app.told /\ r.app.bad = m
        /\ (r.app.on <=> g.app.on) /\ (r.app.asked <=> g.app.asked)
    <3>1. g.app \in AppRecs
      BY RxStateIs, <2>6
    <3>2. c \in AppRecs /\ c.owns = g.app.owns /\ c.dropped = g.app.dropped
          /\ c.wrote = g.app.wrote /\ c.told = g.app.told /\ c.bad = m
      BY <3>1, <2>10 DEF AppRecs
    <3>3. (c.on <=> g.app.on) /\ (c.asked <=> g.app.asked)
      BY <3>1, <2>10 DEF AppRecs
    <3>4. r \in RxStates /\ r.rx = g.rx /\ r.dma = g.dma /\ r.app = c
      BY <3>2, <2>6, <2>7 DEF RxStates
    <3> QED BY <3>2, <3>3, <3>4
  <2>9. r.app.owns = s.app.owns \cup ({s.rx.cur} \ {NoBuf})
    BY <1>3, <2>4, <2>6, <2>8 DEF o
  <2> QED BY <1>3, <2>3, <2>4, <2>5, <2>6, <2>8, <2>9, <2>11 DEF r
<1> QED BY <1>2, <1>3

(* The request for a buffer: answered with one the application owns, or     *)
(* later.                                                                   *)
LEMMA RequestedDoes ==
    ASSUME NEW s \in RxStates, NEW n \in U!Requested(s)
    PROVE  /\ n \in RxStates /\ n.dma = s.dma
           /\ n.rx.cur = s.rx.cur /\ n.rx.off = s.rx.off /\ n.rx.total = s.rx.total
           /\ (n.app.on <=> s.app.on) /\ n.app.bad = s.app.bad /\ n.app.dropped = s.app.dropped
           /\ n.app.wrote = s.app.wrote /\ n.app.told = s.app.told
           /\ \/ n.app.asked /\ n.app.owns = s.app.owns /\ n.rx.next = s.rx.next
              \/ \E b \in s.app.owns : /\ n.app.owns = s.app.owns \ {b} /\ n.rx.next = b /\ ~n.app.asked
<1>1. s.app \in AppRecs /\ s.rx \in RxRecs /\ s.app.owns \subseteq Buffers
  BY RxStateIs
<1>2. CASE n = [s EXCEPT !.app.asked = TRUE]
  <2> DEFINE a == [s.app EXCEPT !.asked = TRUE]
  <2>1. n = [s EXCEPT !.app = a]
    BY <1>2 DEF RxStates
  <2>2. /\ a \in AppRecs /\ a.owns = s.app.owns /\ a.dropped = s.app.dropped /\ a.bad = s.app.bad
        /\ a.wrote = s.app.wrote /\ a.told = s.app.told
    BY <1>1 DEF AppRecs
  <2>3. a.asked /\ (a.on <=> s.app.on)
    BY <1>1 DEF AppRecs
  <2> HIDE DEF a
  <2>4. n \in RxStates /\ n.app = a /\ n.rx = s.rx /\ n.dma = s.dma
    BY <2>1, <2>2 DEF RxStates
  <2> QED BY <2>2, <2>3, <2>4
<1>3. ASSUME NEW b \in s.app.owns, n = [U!Hand(s, b) EXCEPT !.rx.next = b, !.rx.nlen = BufLen]
      PROVE  /\ n \in RxStates /\ n.dma = s.dma
             /\ n.rx.cur = s.rx.cur /\ n.rx.off = s.rx.off /\ n.rx.total = s.rx.total
             /\ (n.app.on <=> s.app.on) /\ n.app.bad = s.app.bad /\ n.app.dropped = s.app.dropped
             /\ n.app.wrote = s.app.wrote /\ n.app.told = s.app.told
             /\ n.app.owns = s.app.owns \ {b} /\ n.rx.next = b /\ ~n.app.asked
  <2> DEFINE a == [s.app EXCEPT !.owns = @ \ {b}, !.asked = FALSE]
             r == [s.rx EXCEPT !.next = b, !.nlen = BufLen]
  <2>1. n = [s EXCEPT !.app = a, !.rx = r]
    BY <1>3 DEF RxStates, U!Hand, AppRecs, RxRecs
  <2>2. /\ a \in AppRecs /\ a.owns = s.app.owns \ {b} /\ a.dropped = s.app.dropped /\ a.bad = s.app.bad
        /\ a.wrote = s.app.wrote /\ a.told = s.app.told
    BY <1>1 DEF AppRecs
  <2>3. ~a.asked /\ (a.on <=> s.app.on)
    BY <1>1 DEF AppRecs
  <2>4. r \in RxRecs /\ r.cur = s.rx.cur /\ r.off = s.rx.off /\ r.total = s.rx.total /\ r.next = b
    BY <1>1 DEF RxRecs, Mine
  <2> HIDE DEF a, r
  <2>5. n \in RxStates /\ n.app = a /\ n.rx = r /\ n.dma = s.dma
    BY <2>1, <2>2, <2>4 DEF RxStates
  <2> QED BY <2>2, <2>3, <2>4, <2>5
<1> QED BY <1>2, <1>3 DEF U!Requested

(* The bytes of the buffers the application has are nobody's; no report was *)
(* wrong, as far as the driver can know.                                    *)
AtRest(a) == \A b \in a.owns : a.wrote[b] = 0 /\ a.told[b] = 0
Truthful(a) ==
    /\ a.bad \cap {"gap", "short", "stray"} = {}
    /\ \A b \in Buffers : a.told[b] <= a.wrote[b]

(* A buffer is put in place and the channel started on it.                  *)
LEMMA StartedIsGood ==
    ASSUME NEW s \in RxStates, s.app.on, s.rx.cur \in Buffers \ s.app.owns, s.rx.off = 0, s.rx.next = NoBuf,
           s.app.wrote[s.rx.cur] = 0, s.app.told[s.rx.cur] = 0, AtRest(s.app),
           \A b \in Buffers : b \in s.app.owns \cup s.app.dropped \cup {s.rx.cur},
           "error" \notin s.app.bad => Truthful(s.app),
           NEW n \in U!Requested(s)
    PROVE  RxGood(U!LoadAndStart(n)) /\ U!LoadAndStart(n).app.bad = s.app.bad
<1> DEFINE m == U!LoadAndStart(n)
           d == U!Start(U!Config(n.dma, n.rx.cur, n.rx.total))
<1>1. /\ n \in RxStates /\ n.rx.cur = s.rx.cur /\ n.rx.off = s.rx.off /\ n.rx.total = s.rx.total
      /\ (n.app.on <=> s.app.on) /\ n.app.bad = s.app.bad /\ n.app.dropped = s.app.dropped
      /\ n.app.wrote = s.app.wrote /\ n.app.told = s.app.told
      /\ \/ n.app.asked /\ n.app.owns = s.app.owns /\ n.rx.next = s.rx.next
         \/ \E b \in s.app.owns : /\ n.app.owns = s.app.owns \ {b} /\ n.rx.next = b /\ ~n.app.asked
  BY RequestedDoes
<1>2. n.rx.cur \in Mine /\ n.rx.total \in 0..BufLen /\ BufLen \in Nat /\ NoBuf \notin Buffers /\ s.app.owns \subseteq Buffers
  BY <1>1, RxStateIs, Lengths
<1>3. d \in U!Channels(Buffers, BufLen) /\ Loaded(d, n.rx.cur, n.rx.total)
  BY <1>2, LoadedIs DEF Mine
<1>4. m = [n EXCEPT !.dma = d]
  BY DEF U!LoadAndStart
<1> HIDE DEF m, d
<1>5. m \in RxStates /\ m.rx = n.rx /\ m.app = n.app /\ m.dma = d
  BY <1>1, <1>3, <1>4 DEF RxStates
<1>6. RxOwned(m)
  <2>1. m.app.on
    BY <1>1, <1>5
  <2>2. CASE n.app.asked /\ n.app.owns = s.app.owns /\ n.rx.next = s.rx.next
    BY <1>1, <1>2, <1>3, <1>5, <2>1, <2>2 DEF RxOwned, Loaded
  <2>3. ASSUME NEW b \in s.app.owns, n.app.owns = s.app.owns \ {b}, n.rx.next = b, ~n.app.asked
        PROVE  RxOwned(m)
    BY <1>1, <1>2, <1>3, <1>5, <2>1, <2>3 DEF RxOwned, Loaded
  <2> QED BY <1>1, <2>2, <2>3
<1>7. RxCounted(m)
  <2>1. U!Pending(m.dma) = m.rx.total /\ m.rx.off = 0
    BY <1>1, <1>3, <1>5 DEF Loaded, U!Pending
  <2>2. \A b \in m.app.owns : m.app.wrote[b] = 0 /\ m.app.told[b] = 0
    <3>1. m.app.owns \subseteq s.app.owns
      BY <1>1, <1>5
    <3>2. m.app.wrote = s.app.wrote /\ m.app.told = s.app.told
      BY <1>1, <1>5
    <3> QED BY <3>1, <3>2 DEF AtRest
  <2>3. m.rx.next # NoBuf => m.app.wrote[m.rx.next] = 0 /\ m.app.told[m.rx.next] = 0
    BY <1>1, <1>5 DEF AtRest
  <2>4. m.dma.addr \in Buffers /\ m.app.wrote[m.dma.addr] + m.dma.remain <= BufLen
    BY <1>1, <1>2, <1>3, <1>5 DEF Loaded
  <2> QED BY <1>1, <1>2, <1>5, <2>1, <2>2, <2>3, <2>4 DEF RxCounted
<1>8. RxExact(m)
  BY <1>1, <1>2, <1>3, <1>5 DEF RxExact, Loaded, Truthful
<1> QED BY <1>1, <1>5, <1>6, <1>7, <1>8 DEF RxGood, m

(* uart_hpm_rx_disable                                                      *)
LEMMA DisabledIsGood ==
    ASSUME NEW s \in RxStates, s.rx.off + U!Pending(s.dma) <= s.rx.total, s.rx.total # 0 => s.rx.cur # NoBuf,
           AtRest(s.app), \A b \in Buffers : b \in s.app.owns \cup s.app.dropped \/ b \in {s.rx.cur, s.rx.next},
           s.dma.remain > 0 => s.dma.addr \in Buffers /\ s.app.wrote[s.dma.addr] + s.dma.remain <= BufLen,
           "error" \notin s.app.bad =>
             /\ Truthful(s.app) /\ (s.dma.busy \/ ~U!CanBeat(s.dma)) /\ ("TC" \in s.dma.flags => s.dma.remain = 0)
             /\ s.rx.cur # NoBuf /\ Unread(s) # 0 =>
                  s.app.told[s.rx.cur] = s.rx.off /\ s.app.wrote[s.rx.cur] <= s.rx.total - U!Pending(s.dma)
             /\ s.rx.cur # NoBuf /\ Unread(s) = 0 => s.app.wrote[s.rx.cur] <= s.app.told[s.rx.cur]
    PROVE  /\ RxGood(U!Disabled(s)) /\ ~U!Disabled(s).app.on
           /\ U!Disabled(s).app.bad \subseteq s.app.bad \cup {"gap", "short"}
<1> DEFINE c == U!Suspend(s.dma)
           s1 == [s EXCEPT !.dma = c]
           f == U!Flush(s1)
           r == U!Release(f)
           drop == r.app.dropped \cup ({s.rx.next} \ {NoBuf})
           a == [r.app EXCEPT !.asked = FALSE, !.on = FALSE, !.dropped = drop]
           d == U!Stop(r.dma)
           n == U!Disabled(s)
<1>1. /\ s.dma \in U!Channels(Buffers, BufLen) /\ BufLen \in Nat /\ NoBuf \notin Buffers
      /\ s.rx.cur \in Mine /\ s.rx.next \in Mine /\ s.rx.total \in 0..BufLen /\ s.rx.off \in 0..BufLen
      /\ U!Pending(s.dma) \in 0..BufLen /\ s.dma.remain \in 0..BufLen
      /\ s.app.wrote \in [Buffers -> 0..BufLen] /\ s.app.told \in [Buffers -> 0..BufLen]
  BY RxStateIs, Lengths
<1>2. /\ c \in U!Channels(Buffers, BufLen) /\ (c.busy <=> s.dma.busy) /\ c.addr = s.dma.addr
      /\ c.remain = s.dma.remain /\ c.flags = s.dma.flags /\ (c.en <=> s.dma.en /\ ~s.dma.busy)
  BY <1>1, SuspendDoes
<1>3. n = [r EXCEPT !.dma = U!Stop(@), !.rx = U!RxOff, !.app.asked = FALSE, !.app.on = FALSE,
                    !.app.dropped = @ \cup ({s.rx.next} \ {NoBuf})]
  BY DEF U!Disabled
<1> HIDE DEF c, n
<1>4. s1 \in RxStates /\ s1.dma = c /\ s1.rx = s.rx /\ s1.app = s.app
  BY <1>2 DEF RxStates
<1> HIDE DEF s1
<1>5. U!Pending(s1.dma) = U!Pending(s.dma) /\ Unread(s1) = Unread(s)
  BY <1>2, <1>4 DEF U!Pending, Unread
<1>6. /\ f \in RxStates /\ f.dma = s1.dma /\ f.rx.cur = s1.rx.cur
      /\ f.rx.off = s1.rx.total - U!Pending(s1.dma)
      /\ f.app.owns = s1.app.owns /\ f.app.dropped = s1.app.dropped /\ f.app.wrote = s1.app.wrote
      /\ \A b \in Buffers : f.app.told[b] = IF b = s1.rx.cur /\ Unread(s1) # 0 THEN f.rx.off ELSE s1.app.told[b]
      /\ f.app.bad = IF Unread(s1) # 0 /\ s1.app.told[s1.rx.cur] # s1.rx.off
                     THEN s1.app.bad \cup {"gap"} ELSE s1.app.bad
  BY <1>4, <1>5, FlushDoes
<1> HIDE DEF f
<1>7. /\ r \in RxStates /\ r.dma = f.dma /\ r.rx = f.rx
      /\ r.app.owns = f.app.owns \cup ({f.rx.cur} \ {NoBuf}) /\ r.app.dropped = f.app.dropped
      /\ \A b \in Buffers : /\ r.app.wrote[b] = IF b = f.rx.cur THEN 0 ELSE f.app.wrote[b]
                            /\ r.app.told[b] = IF b = f.rx.cur THEN 0 ELSE f.app.told[b]
      /\ r.app.bad = IF f.rx.cur # NoBuf /\ f.app.told[f.rx.cur] < f.app.wrote[f.rx.cur]
                     THEN f.app.bad \cup {"short"} ELSE f.app.bad
  BY <1>6, ReleaseDoes
<1> HIDE DEF r
<1>8. r.app \in AppRecs /\ r.dma \in U!Channels(Buffers, BufLen)
  BY <1>7, RxStateIs
<1>9. /\ d \in U!Channels(Buffers, BufLen) /\ ~d.busy /\ d.addr = s.dma.addr /\ d.remain = s.dma.remain
      /\ d.flags \subseteq s.dma.flags /\ (d.en <=> c.en /\ ~c.busy)
  <2>1. d = U!Stop(c)
    BY <1>4, <1>6, <1>7
  <2> HIDE DEF d
  <2> QED BY <1>1, <1>2, <2>1, StopDoes
<1>10. drop \subseteq Buffers
  BY <1>1, <1>8 DEF AppRecs, Mine
<1>11. n = [r EXCEPT !.dma = d, !.rx = U!RxOff, !.app = a]
  BY <1>3, <1>7 DEF RxStates
<1>12. drop = s.app.dropped \cup ({s.rx.next} \ {NoBuf})
  BY <1>4, <1>6, <1>7
<1> HIDE DEF d, drop
<1>13. /\ a \in AppRecs /\ a.owns = r.app.owns /\ a.dropped = drop
       /\ a.wrote = r.app.wrote /\ a.told = r.app.told /\ a.bad = r.app.bad
  BY <1>8, <1>10 DEF AppRecs
<1>14. ~a.on /\ ~a.asked
  BY <1>8 DEF AppRecs
<1> HIDE DEF a
<1>15. /\ U!RxOff \in RxRecs /\ U!RxOff.cur = NoBuf /\ U!RxOff.next = NoBuf
       /\ U!RxOff.off = 0 /\ U!RxOff.total = 0
  BY <1>1 DEF U!RxOff, RxRecs, Mine
<1>16. n \in RxStates /\ n.rx = U!RxOff /\ n.app = a /\ n.dma = d
  BY <1>7, <1>9, <1>11, <1>13, <1>15 DEF RxStates
<1>17. /\ n.app.owns = s.app.owns \cup ({s.rx.cur} \ {NoBuf}) /\ n.app.dropped = drop
       /\ \A b \in Buffers : /\ n.app.wrote[b] = IF b = s.rx.cur THEN 0 ELSE s.app.wrote[b]
                             /\ n.app.told[b] = IF b = s.rx.cur THEN 0 ELSE f.app.told[b]
  BY <1>4, <1>6, <1>7, <1>13, <1>16
<1>18. n.app.owns \subseteq Buffers
  BY <1>16, RxStateIs
<1>19. RxOwned(n)
  <2>1. NoBuf \notin n.app.owns
    BY <1>1, <1>18
  <2>2. \A b \in Buffers : b \in n.app.owns \cup n.app.dropped
    BY <1>1, <1>12, <1>17
  <2> QED BY <1>9, <1>14, <1>15, <1>16, <2>1, <2>2 DEF RxOwned
<1>20. RxCounted(n)
  <2>1. U!Pending(n.dma) = 0
    BY <1>9, <1>16 DEF U!Pending
  <2>2. ASSUME NEW b \in n.app.owns
        PROVE  n.app.wrote[b] = 0 /\ n.app.told[b] = 0
    <3>1. CASE b = s.rx.cur
      BY <1>17, <1>18, <3>1
    <3>2. CASE b # s.rx.cur
      BY <1>4, <1>6, <1>17, <1>18, <3>2 DEF AtRest
    <3> QED BY <3>1, <3>2
  <2>3. n.dma.remain > 0 => n.dma.addr \in Buffers /\ n.app.wrote[n.dma.addr] + n.dma.remain <= BufLen
    <3>1. s.dma.remain > 0 => n.app.wrote[s.dma.addr] <= s.app.wrote[s.dma.addr] /\ s.app.wrote[s.dma.addr] \in 0..BufLen
                              /\ n.app.wrote[s.dma.addr] \in 0..BufLen
      BY <1>1, <1>17
    <3> QED BY <1>1, <1>9, <1>16, <3>1
  <2> QED BY <1>15, <1>16, <2>1, <2>2, <2>3 DEF RxCounted
<1>21. n.app.bad \subseteq s.app.bad \cup {"gap", "short"} /\ s.app.bad \subseteq n.app.bad
  BY <1>4, <1>6, <1>7, <1>13, <1>16
<1>22. RxExact(n)
  <2> SUFFICES ASSUME "error" \notin n.app.bad PROVE RxExact(n)
    BY DEF RxExact
  <2>1. /\ Truthful(s.app) /\ (s.dma.busy \/ ~U!CanBeat(s.dma)) /\ ("TC" \in s.dma.flags => s.dma.remain = 0)
        /\ s.rx.cur # NoBuf /\ Unread(s) # 0 =>
             s.app.told[s.rx.cur] = s.rx.off /\ s.app.wrote[s.rx.cur] <= s.rx.total - U!Pending(s.dma)
        /\ s.rx.cur # NoBuf /\ Unread(s) = 0 => s.app.wrote[s.rx.cur] <= s.app.told[s.rx.cur]
    BY <1>21
  <2>2. Unread(s) # 0 => s.rx.cur # NoBuf
    BY <1>1 DEF Unread
  <2>3. f.app.bad = s.app.bad
    BY <1>4, <1>5, <1>6, <2>1, <2>2
  <2>4. s.rx.cur # NoBuf => s.rx.cur \in Buffers
    BY <1>1 DEF Mine
  <2>5. s.rx.cur # NoBuf => ~(f.app.told[s.rx.cur] < f.app.wrote[s.rx.cur])
    BY <1>1, <1>4, <1>5, <1>6, <2>1, <2>4
  <2>6. n.app.bad = s.app.bad
    BY <1>4, <1>6, <1>7, <1>13, <1>16, <2>3, <2>5
  <2>7. ASSUME NEW b \in Buffers
        PROVE  n.app.told[b] <= n.app.wrote[b]
    <3>1. CASE b = s.rx.cur
      BY <1>17, <3>1
    <3>2. CASE b # s.rx.cur
      <4>1. n.app.told[b] = s.app.told[b] /\ n.app.wrote[b] = s.app.wrote[b]
        BY <1>4, <1>6, <1>17, <3>2
      <4> QED BY <2>1, <4>1 DEF Truthful
    <3> QED BY <3>1, <3>2
  <2>8. ~U!CanBeat(n.dma)
    BY <1>2, <1>9, <1>16, <2>1 DEF U!CanBeat
  <2> QED BY <1>9, <1>14, <1>16, <2>1, <2>6, <2>7, <2>8 DEF RxExact, Truthful
<1> QED BY <1>14, <1>16, <1>19, <1>20, <1>21, <1>22 DEF RxGood, n

(* uart_hpm_dma_callback: the rest of the buffer is reported, and it goes   *)
(* back unless the flush found nothing new.                                 *)
LEMMA CompletedLeaves ==
    ASSUME NEW s, RxGood(s), "TC" \in s.dma.flags
    PROVE  LET f == U!ReleaseIfNew(U!Flush([s EXCEPT !.dma = U!Served(@)])) IN
           /\ f \in RxStates /\ ~f.dma.busy /\ f.dma.flags = {}
           /\ f.dma.addr = s.dma.addr /\ f.dma.remain = s.dma.remain
           /\ f.rx.cur = s.rx.cur /\ f.rx.next = s.rx.next /\ f.rx.nlen = s.rx.nlen
           /\ f.rx.total = s.rx.total /\ f.rx.off = s.rx.total /\ (f.app.on <=> s.app.on)
           /\ AtRest(f.app) /\ f.rx.next \notin f.app.owns
           /\ f.rx.next # NoBuf => f.app.wrote[f.rx.next] = 0 /\ f.app.told[f.rx.next] = 0
           /\ \A b \in Buffers : f.app.wrote[b] <= s.app.wrote[b]
           /\ \A b \in Buffers : b \in f.app.owns \cup f.app.dropped \/ b \in {f.rx.cur, f.rx.next}
           /\ f.rx.next # NoBuf => \A b \in Buffers : b \in f.app.owns \cup f.app.dropped \cup {f.rx.next}
           /\ f.app.bad \subseteq s.app.bad \cup {"gap", "short"}
           /\ "error" \notin f.app.bad =>
                /\ Truthful(f.app) /\ f.dma.remain = 0
                /\ f.rx.cur # NoBuf => f.app.wrote[f.rx.cur] <= f.app.told[f.rx.cur]
<1> DEFINE c == U!Served(s.dma)
           s1 == [s EXCEPT !.dma = c]
           g == U!Flush(s1)
           f == U!ReleaseIfNew(g)
<1>0. s \in RxStates /\ RxOwned(s) /\ RxCounted(s) /\ RxExact(s)
  BY DEF RxGood
<1>1. /\ s.dma \in U!Channels(Buffers, BufLen) /\ BufLen \in Nat /\ NoBuf \notin Buffers
      /\ s.rx.cur \in Mine /\ s.rx.next \in Mine /\ s.rx.total \in 0..BufLen /\ s.rx.off \in 0..BufLen
      /\ U!Pending(s.dma) \in 0..BufLen /\ s.dma.remain \in 0..BufLen /\ s.app.owns \subseteq Buffers
      /\ s.app.wrote \in [Buffers -> 0..BufLen] /\ s.app.told \in [Buffers -> 0..BufLen]
  BY <1>0, RxStateIs, Lengths
<1>2. /\ c \in U!Channels(Buffers, BufLen) /\ ~c.busy /\ c.addr = s.dma.addr
      /\ c.remain = s.dma.remain /\ c.flags = {}
  BY <1>1, ServedDoes
<1> HIDE DEF c
<1>3. s1 \in RxStates /\ s1.dma = c /\ s1.rx = s.rx /\ s1.app = s.app
  BY <1>0, <1>2 DEF RxStates
<1>4. f = U!ReleaseIfNew(U!Flush([s EXCEPT !.dma = U!Served(@)]))
  BY DEF c
<1> HIDE DEF s1
<1>5. /\ U!Pending(s1.dma) = 0 /\ Unread(s1) = s.rx.total - s.rx.off
      /\ s.rx.off <= s.rx.total /\ (s.rx.total # 0 => s.rx.cur # NoBuf)
  <2>1. U!Pending(s1.dma) = 0
    BY <1>2, <1>3 DEF U!Pending
  <2>2. s.rx.off <= s.rx.total
    BY <1>0, <1>1 DEF RxCounted
  <2>3. s.rx.total # 0 => s.rx.cur # NoBuf
    BY <1>0 DEF RxOwned
  <2> QED BY <1>1, <1>3, <2>1, <2>2, <2>3 DEF Unread
<1>6. /\ g \in RxStates /\ g.dma = c
      /\ g.rx.cur = s.rx.cur /\ g.rx.next = s.rx.next /\ g.rx.nlen = s.rx.nlen /\ g.rx.total = s.rx.total
      /\ g.rx.off = s.rx.total /\ g.rx.size = s.rx.total - s.rx.off
      /\ g.app.owns = s.app.owns /\ g.app.dropped = s.app.dropped /\ g.app.wrote = s.app.wrote
      /\ (g.app.on <=> s.app.on)
      /\ \A b \in Buffers : g.app.told[b] =
           IF b = s.rx.cur /\ s.rx.total - s.rx.off # 0 THEN s.rx.total ELSE s.app.told[b]
      /\ g.app.bad = IF s.rx.total - s.rx.off # 0 /\ s.app.told[s.rx.cur] # s.rx.off
                     THEN s.app.bad \cup {"gap"} ELSE s.app.bad
  <2>1. s1.rx.off + U!Pending(s1.dma) <= s1.rx.total /\ (s1.rx.total # 0 => s1.rx.cur # NoBuf)
    BY <1>1, <1>3, <1>5
  <2>2. g.rx.off = s1.rx.total - U!Pending(s1.dma)
    BY <1>3, <2>1, FlushDoes
  <2>3. g.rx.off = s.rx.total
    BY <1>1, <1>3, <1>5, <2>2
  <2> QED BY <1>3, <1>5, <2>1, <2>3, FlushDoes
<1> HIDE DEF g
<1>7. "error" \notin s.app.bad =>
        /\ Truthful(s.app) /\ s.dma.remain = 0
        /\ s.app.on => s.app.told[s.rx.cur] = s.rx.off /\ s.app.wrote[s.rx.cur] = s.rx.total
  <2> SUFFICES ASSUME "error" \notin s.app.bad
               PROVE  /\ Truthful(s.app) /\ s.dma.remain = 0
                      /\ s.app.on => s.app.told[s.rx.cur] = s.rx.off /\ s.app.wrote[s.rx.cur] = s.rx.total
    OBVIOUS
  <2>1. /\ Truthful(s.app) /\ s.dma.remain = 0
        /\ s.app.on => s.app.told[s.rx.cur] = s.rx.off /\ s.app.wrote[s.rx.cur] + s.dma.remain = s.rx.total
    BY <1>0 DEF RxExact, Truthful
  <2>2. s.app.on => s.rx.cur \in Buffers
    BY <1>0, <1>1 DEF RxOwned, Mine
  <2> QED BY <1>1, <2>1, <2>2
<1>8. AtRest(g.app)
  <2>1. \A b \in s.app.owns : s.app.wrote[b] = 0 /\ s.app.told[b] = 0 /\ b # s.rx.cur /\ b \in Buffers
    BY <1>0, <1>1 DEF RxCounted, RxOwned
  <2> QED BY <1>6, <2>1 DEF AtRest
<1>9. g.rx.next # NoBuf => g.app.wrote[g.rx.next] = 0 /\ g.app.told[g.rx.next] = 0
  <2>1. s.rx.next # NoBuf => s.rx.next # s.rx.cur /\ s.rx.next \in Buffers
    BY <1>0, <1>1 DEF RxOwned, Mine
  <2>2. s.rx.next # NoBuf => s.app.wrote[s.rx.next] = 0 /\ s.app.told[s.rx.next] = 0
    BY <1>0 DEF RxCounted
  <2> QED BY <1>6, <2>1, <2>2
<1>10. "error" \notin g.app.bad =>
         /\ Truthful(g.app) /\ s.dma.remain = 0
         /\ g.rx.cur # NoBuf => g.app.wrote[g.rx.cur] <= g.app.told[g.rx.cur]
  <2> SUFFICES ASSUME "error" \notin g.app.bad
               PROVE  /\ Truthful(g.app) /\ s.dma.remain = 0
                      /\ g.rx.cur # NoBuf => g.app.wrote[g.rx.cur] <= g.app.told[g.rx.cur]
    OBVIOUS
  <2>1. /\ Truthful(s.app) /\ s.dma.remain = 0
        /\ s.rx.cur # NoBuf => s.app.told[s.rx.cur] = s.rx.off /\ s.app.wrote[s.rx.cur] = s.rx.total /\ s.rx.cur \in Buffers
    <3>1. "error" \notin s.app.bad
      BY <1>6
    <3>2. s.rx.cur # NoBuf => s.app.on /\ s.rx.cur \in Buffers
      BY <1>0, <1>1 DEF RxOwned, Mine
    <3> QED BY <1>7, <3>1, <3>2
  <2>2. g.app.bad = s.app.bad
    BY <1>1, <1>5, <1>6, <2>1
  <2>3. s.rx.cur # NoBuf => g.app.told[s.rx.cur] = s.rx.total
    BY <1>1, <1>6, <2>1
  <2>4. ASSUME NEW b \in Buffers
        PROVE  g.app.told[b] <= g.app.wrote[b]
    <3>1. CASE b = s.rx.cur /\ s.rx.cur # NoBuf
      BY <1>1, <1>6, <2>1, <2>3, <3>1
    <3>2. CASE b # s.rx.cur
      <4>1. g.app.told[b] = s.app.told[b] /\ g.app.wrote[b] = s.app.wrote[b]
        BY <1>6, <3>2
      <4> QED BY <2>1, <4>1 DEF Truthful
    <3> QED BY <1>1, <3>1, <3>2
  <2> QED BY <1>1, <1>6, <2>1, <2>2, <2>3, <2>4 DEF Truthful
<1>11. s.rx.next \notin s.app.owns /\ (s.rx.cur = s.rx.next => s.rx.cur = NoBuf)
       /\ \A b \in Buffers : b \in s.app.owns \cup s.app.dropped \/ b \in {s.rx.cur, s.rx.next}
  BY <1>0 DEF RxOwned
<1>12. CASE g.rx.size > 0
  <2>1. f = U!Release(g)
    BY <1>12 DEF U!ReleaseIfNew
  <2>2. /\ f \in RxStates /\ f.dma = c /\ f.rx = g.rx /\ (f.app.on <=> g.app.on)
        /\ f.app.owns = g.app.owns \cup ({g.rx.cur} \ {NoBuf}) /\ f.app.dropped = g.app.dropped
        /\ \A b \in Buffers : /\ f.app.wrote[b] = IF b = g.rx.cur THEN 0 ELSE g.app.wrote[b]
                              /\ f.app.told[b] = IF b = g.rx.cur THEN 0 ELSE g.app.told[b]
        /\ f.app.bad = IF g.rx.cur # NoBuf /\ g.app.told[g.rx.cur] < g.app.wrote[g.rx.cur]
                       THEN g.app.bad \cup {"short"} ELSE g.app.bad
    BY <1>6, <2>1, ReleaseDoes
  <2> HIDE DEF f
  <2>3. f.app.owns \subseteq Buffers
    BY <2>2, RxStateIs
  <2>4. AtRest(f.app)
    <3> SUFFICES ASSUME NEW b \in f.app.owns PROVE f.app.wrote[b] = 0 /\ f.app.told[b] = 0
      BY DEF AtRest
    <3>1. b = g.rx.cur \/ (g.app.wrote[b] = 0 /\ g.app.told[b] = 0)
      BY <1>8, <2>2 DEF AtRest
    <3> QED BY <2>2, <2>3, <3>1
  <2>5. f.rx.next \notin f.app.owns
    BY <1>1, <1>6, <1>11, <2>2, <2>3
  <2>6. f.rx.next # NoBuf => f.app.wrote[f.rx.next] = 0 /\ f.app.told[f.rx.next] = 0
    BY <1>1, <1>6, <1>9, <2>2 DEF Mine
  <2>7. ASSUME NEW b \in Buffers
        PROVE  f.app.wrote[b] <= s.app.wrote[b]
    <3>1. s.app.wrote[b] \in 0..BufLen /\ f.app.wrote[b] \in {0, s.app.wrote[b]}
      BY <1>1, <1>6, <2>2
    <3> QED BY <1>1, <3>1
  <2>8. ASSUME NEW b \in Buffers
        PROVE  b \in f.app.owns \cup f.app.dropped \/ b = f.rx.next
    <3>1. b # NoBuf /\ (b \in s.app.owns \cup s.app.dropped \/ b \in {s.rx.cur, s.rx.next})
      BY <1>1, <1>11
    <3> QED BY <1>6, <2>2, <3>1
  <2>9. f.app.bad \subseteq s.app.bad \cup {"gap", "short"}
    BY <1>6, <2>2
  <2>10. "error" \notin f.app.bad =>
           /\ Truthful(f.app) /\ f.dma.remain = 0
           /\ f.rx.cur # NoBuf => f.app.wrote[f.rx.cur] <= f.app.told[f.rx.cur]
    <3> SUFFICES ASSUME "error" \notin f.app.bad
                 PROVE  /\ Truthful(f.app) /\ f.dma.remain = 0
                        /\ f.rx.cur # NoBuf => f.app.wrote[f.rx.cur] <= f.app.told[f.rx.cur]
      OBVIOUS
    <3>1. "error" \notin g.app.bad
      BY <2>2
    <3>2. /\ Truthful(g.app) /\ s.dma.remain = 0
          /\ g.rx.cur # NoBuf => g.app.wrote[g.rx.cur] <= g.app.told[g.rx.cur] /\ g.rx.cur \in Buffers
      BY <1>1, <1>6, <1>10, <3>1 DEF Mine
    <3>3. g.app.wrote \in [Buffers -> 0..BufLen] /\ g.app.told \in [Buffers -> 0..BufLen]
      BY <1>6, RxStateIs
    <3>4. f.app.bad = g.app.bad
      BY <1>1, <2>2, <3>2, <3>3
    <3>5. ASSUME NEW b \in Buffers
          PROVE  f.app.told[b] <= f.app.wrote[b]
      <4>1. g.app.told[b] <= g.app.wrote[b]
        BY <3>2 DEF Truthful
      <4> QED BY <2>2, <4>1
    <3>6. f.rx.cur # NoBuf => f.app.wrote[f.rx.cur] <= f.app.told[f.rx.cur]
      BY <2>2, <3>2
    <3> QED BY <1>2, <2>2, <3>2, <3>4, <3>5, <3>6 DEF Truthful
  <2> QED BY <1>2, <1>4, <1>6, <2>2, <2>4, <2>5, <2>6, <2>7, <2>8, <2>9, <2>10
<1>13. CASE ~(g.rx.size > 0)
  <2> DEFINE drop == IF g.rx.next = NoBuf THEN g.app.dropped ELSE g.app.dropped \cup {g.rx.cur}
             a == [g.app EXCEPT !.dropped = drop]
  <2>1. f = [g EXCEPT !.app = a]
    BY <1>6, <1>13 DEF U!ReleaseIfNew, RxStates
  <2>2. g.app \in AppRecs /\ drop \subseteq Buffers
    <3>1. g.rx.next # NoBuf => g.rx.cur \in Buffers
      BY <1>0, <1>1, <1>6 DEF RxOwned, Mine
    <3> QED BY <1>6, <3>1, RxStateIs
  <2>3. g.app.dropped \subseteq drop /\ (g.rx.next # NoBuf => g.rx.cur \in drop)
    OBVIOUS
  <2> HIDE DEF drop, f
  <2>4. /\ a \in AppRecs /\ a.owns = g.app.owns /\ a.dropped = drop /\ a.bad = g.app.bad
        /\ a.wrote = g.app.wrote /\ a.told = g.app.told
    BY <2>2 DEF AppRecs
  <2>5. a.on <=> g.app.on
    BY <2>2 DEF AppRecs
  <2> HIDE DEF a
  <2>6. f \in RxStates /\ f.rx = g.rx /\ f.dma = c /\ f.app = a
    BY <1>6, <2>1, <2>4 DEF RxStates
  <2>7. AtRest(f.app) /\ ("error" \notin f.app.bad => Truthful(f.app) /\ s.dma.remain = 0)
    <3>1. f.app.owns = g.app.owns /\ f.app.wrote = g.app.wrote /\ f.app.told = g.app.told /\ f.app.bad = g.app.bad
      BY <2>4, <2>6
    <3> QED BY <1>8, <1>10, <3>1 DEF AtRest, Truthful
  <2>8. \A b \in Buffers : b \in f.app.owns \cup f.app.dropped \/ b \in {f.rx.cur, f.rx.next}
    BY <1>6, <1>11, <2>3, <2>4, <2>6
  <2>9. ASSUME f.rx.next # NoBuf, NEW b \in Buffers
        PROVE  b \in f.app.owns \cup f.app.dropped \cup {f.rx.next}
    <3>1. b \in s.app.owns \cup s.app.dropped \/ b \in {s.rx.cur, s.rx.next}
      BY <1>11
    <3> QED BY <1>6, <2>3, <2>4, <2>6, <2>9, <3>1
  <2>10. ASSUME NEW b \in Buffers
         PROVE  f.app.wrote[b] <= s.app.wrote[b]
    <3>1. f.app.wrote[b] = s.app.wrote[b] /\ s.app.wrote[b] \in 0..BufLen
      BY <1>1, <1>6, <2>4, <2>6
    <3> QED BY <1>1, <3>1
  <2> QED BY <1>2, <1>4, <1>6, <1>9, <1>10, <1>11, <2>4, <2>5, <2>6, <2>7, <2>8, <2>9, <2>10
<1> QED BY <1>12, <1>13
-------------------------------------------------------------------------------
(* The actions of UartAsync.                                                *)
RxWhats == {"gap", "short", "error", "stray"}

LEMMA UartNowIs ==
    /\ U!State.rx = rx /\ U!State.dma = rxDma /\ U!State.app = app
    /\ UartInv => U!State \in RxStates /\ RxOwned(U!State) /\ RxCounted(U!State) /\ RxExact(U!State)
<1> QED BY DEF U!State, UartInv, RxGood

LEMMA RxStep ==
    ASSUME UartInv, NEW n, RxGood(n), rx' = n.rx, rxDma' = n.dma, app' = n.app,
           n.app.bad \subseteq app.bad \cup RxWhats, UNCHANGED <<tx, txDma, txPc, txDue>>,
           timeoutOn' \in BOOLEAN, lineOn' \in BOOLEAN, fresh' \in BOOLEAN, rsp' \in Mine
    PROVE  UartInv'
<1>1. U!State' = n
  BY DEF U!State, RxGood, RxStates
<1>2. RxGood(U!State')
  BY <1>1
<1>3. "tx" \notin app'.bad
  BY DEF UartInv, TxSound, RxWhats
<1>4. TxSound'
  <2>1. TxSound
    BY DEF UartInv
  <2> QED BY <1>3, <2>1 DEF TxSound
<1>5. RestTyped'
  BY DEF UartInv, RestTyped
<1> QED BY <1>2, <1>4, <1>5 DEF UartInv

(* The application hands b over.                                            *)
LEMMA UartRxEnable ==
    ASSUME UartInv, U!RxEnable
    PROVE  UartInv'
<1> DEFINE z == U!State
<1>1. z \in RxStates /\ z.rx = rx /\ z.dma = rxDma /\ z.app = app /\ RxOwned(z) /\ RxCounted(z) /\ RxExact(z)
  BY UartNowIs
<1>2. /\ ~app.on /\ timeoutOn' = TRUE /\ fresh' = FALSE /\ UNCHANGED <<lineOn, rsp, tx, txDma, txPc, txDue>>
  BY DEF U!RxEnable, U!txVars
<1>3. PICK b \in app.owns :
        \E n \in U!Requested([U!Hand(z, b) EXCEPT !.app.on = TRUE,
                                                  !.rx = [U!RxOff EXCEPT !.cur = b, !.total = BufLen]]) :
          U!Becomes(U!LoadAndStart(n))
  BY DEF U!RxEnable
<1> DEFINE r == [U!RxOff EXCEPT !.cur = b, !.total = BufLen]
           a == [z.app EXCEPT !.owns = @ \ {b}, !.asked = FALSE, !.on = TRUE]
           s == [z EXCEPT !.rx = r, !.app = a]
<1>4. z.app \in AppRecs /\ z.dma \in U!Channels(Buffers, BufLen) /\ BufLen \in Nat /\ NoBuf \notin Buffers
  BY <1>1, RxStateIs, Lengths
<1>5. b \in Buffers /\ b # NoBuf
  BY <1>1, <1>4 DEF AppRecs
<1>6. s = [U!Hand(z, b) EXCEPT !.app.on = TRUE, !.rx = [U!RxOff EXCEPT !.cur = b, !.total = BufLen]]
  BY <1>1, <1>4 DEF U!Hand, RxStates, AppRecs
<1>7. r \in RxRecs /\ r.cur = b /\ r.off = 0 /\ r.next = NoBuf
  <2>1. U!RxOff \in RxRecs /\ U!RxOff.off = 0 /\ U!RxOff.next = NoBuf
    BY <1>4 DEF U!RxOff, RxRecs, Mine
  <2> QED BY <1>5, <2>1 DEF RxRecs, Mine
<1>8. /\ a \in AppRecs /\ a.owns = app.owns \ {b} /\ a.dropped = app.dropped /\ a.bad = app.bad
      /\ a.wrote = app.wrote /\ a.told = app.told
  BY <1>1, <1>4 DEF AppRecs
<1>9. a.on
  BY <1>4 DEF AppRecs
<1> HIDE DEF r, a
<1>10. s \in RxStates /\ s.rx = r /\ s.app = a
  BY <1>1, <1>7, <1>8 DEF RxStates
<1> HIDE DEF s
<1>11. PICK n \in U!Requested(s) : U!Becomes(U!LoadAndStart(n))
  BY <1>3, <1>6
<1>12. /\ app.wrote[b] = 0 /\ app.told[b] = 0
       /\ \A x \in app.owns : app.wrote[x] = 0 /\ app.told[x] = 0
  BY <1>1 DEF RxCounted
<1>13. AtRest(s.app)
  BY <1>8, <1>10, <1>12 DEF AtRest
<1>14. \A x \in Buffers : x \in s.app.owns \cup s.app.dropped \cup {s.rx.cur}
  <2>1. rx.cur = NoBuf /\ rx.next = NoBuf
    BY <1>1, <1>2 DEF RxOwned
  <2> QED BY <1>1, <1>4, <1>7, <1>8, <1>10, <2>1 DEF RxOwned
<1>15. "error" \notin s.app.bad => Truthful(s.app)
  BY <1>1, <1>8, <1>10 DEF RxExact, Truthful
<1>16. RxGood(U!LoadAndStart(n)) /\ U!LoadAndStart(n).app.bad = s.app.bad
  <2>1. s.app.on /\ s.rx.cur \in Buffers \ s.app.owns /\ s.rx.off = 0 /\ s.rx.next = NoBuf
    BY <1>5, <1>7, <1>8, <1>9, <1>10
  <2>2. s.app.wrote[s.rx.cur] = 0 /\ s.app.told[s.rx.cur] = 0
    BY <1>7, <1>8, <1>10, <1>12
  <2> QED BY <1>10, <1>13, <1>14, <1>15, <2>1, <2>2, StartedIsGood
<1> QED
  <2> DEFINE m == U!LoadAndStart(n)
  <2>1. rx' = m.rx /\ rxDma' = m.dma /\ app' = m.app
    BY <1>11 DEF U!Becomes
  <2>2. RxGood(m) /\ m.app.bad \subseteq app.bad \cup RxWhats
    BY <1>8, <1>10, <1>16
  <2>3. timeoutOn' \in BOOLEAN /\ lineOn' \in BOOLEAN /\ fresh' \in BOOLEAN /\ rsp' \in Mine
    BY <1>2 DEF UartInv, RestTyped
  <2> HIDE DEF m
  <2> QED BY <1>2, <2>1, <2>2, <2>3, RxStep

LEMMA UartRxDisable ==
    ASSUME UartInv, U!RxDisable
    PROVE  UartInv'
<1> DEFINE s == U!State
           n == U!Disabled(s)
<1>1. s \in RxStates /\ s.rx = rx /\ s.dma = rxDma /\ s.app = app /\ RxOwned(s) /\ RxCounted(s) /\ RxExact(s)
  BY UartNowIs
<1>2. /\ app.on /\ timeoutOn' = FALSE /\ UNCHANGED <<lineOn, fresh, rsp, tx, txDma, txPc, txDue>>
      /\ rx' = n.rx /\ rxDma' = n.dma /\ app' = n.app
  BY DEF U!RxDisable, U!txVars, U!Becomes
<1>3. /\ BufLen \in Nat /\ s.rx.cur \in Mine /\ s.rx.total \in 0..BufLen /\ s.rx.off \in 0..BufLen
      /\ s.dma.remain \in 0..BufLen /\ s.app.wrote \in [Buffers -> 0..BufLen] /\ s.app.told \in [Buffers -> 0..BufLen]
  BY <1>1, RxStateIs, Lengths
<1> HIDE DEF s, n
<1>4. AtRest(s.app) /\ s.rx.cur # NoBuf /\ s.rx.cur \in Buffers
  BY <1>1, <1>2, <1>3 DEF RxCounted, RxOwned, AtRest, Mine
<1>5. "error" \notin s.app.bad =>
        /\ Truthful(s.app) /\ (s.dma.busy \/ ~U!CanBeat(s.dma)) /\ ("TC" \in s.dma.flags => s.dma.remain = 0)
        /\ s.rx.cur # NoBuf /\ Unread(s) # 0 =>
             s.app.told[s.rx.cur] = s.rx.off /\ s.app.wrote[s.rx.cur] <= s.rx.total - U!Pending(s.dma)
        /\ s.rx.cur # NoBuf /\ Unread(s) = 0 => s.app.wrote[s.rx.cur] <= s.app.told[s.rx.cur]
  <2> SUFFICES ASSUME "error" \notin s.app.bad
               PROVE  /\ Truthful(s.app) /\ s.dma.busy /\ ("TC" \in s.dma.flags => s.dma.remain = 0)
                      /\ s.app.told[s.rx.cur] = s.rx.off /\ s.app.wrote[s.rx.cur] <= s.rx.total - U!Pending(s.dma)
                      /\ Unread(s) = 0 => s.app.wrote[s.rx.cur] <= s.app.told[s.rx.cur]
    OBVIOUS
  <2>1. /\ Truthful(s.app) /\ s.dma.busy /\ ("TC" \in s.dma.flags => s.dma.remain = 0)
        /\ s.app.told[s.rx.cur] = s.rx.off /\ s.app.wrote[s.rx.cur] + s.dma.remain = s.rx.total
    BY <1>1, <1>2 DEF RxExact, Truthful
  <2>2. U!Pending(s.dma) = s.dma.remain
    BY <2>1 DEF U!Pending
  <2> QED BY <1>3, <1>4, <2>1, <2>2 DEF Unread
<1>6. /\ s.rx.off + U!Pending(s.dma) <= s.rx.total
      /\ \A b \in Buffers : b \in s.app.owns \cup s.app.dropped \/ b \in {s.rx.cur, s.rx.next}
      /\ s.dma.remain > 0 => s.dma.addr \in Buffers /\ s.app.wrote[s.dma.addr] + s.dma.remain <= BufLen
  BY <1>1 DEF RxOwned, RxCounted
<1>7. RxGood(n) /\ n.app.bad \subseteq s.app.bad \cup {"gap", "short"}
  BY <1>1, <1>4, <1>5, <1>6, DisabledIsGood DEF n
<1>8. timeoutOn' \in BOOLEAN /\ lineOn' \in BOOLEAN /\ fresh' \in BOOLEAN /\ rsp' \in Mine
  BY <1>2 DEF UartInv, RestTyped
<1>9. n.app.bad \subseteq app.bad \cup RxWhats
  BY <1>1, <1>7 DEF RxWhats
<1> QED BY <1>2, <1>7, <1>8, <1>9, RxStep

(* The two stores of rx_buf_rsp.                                            *)
LEMMA UartRsp ==
    ASSUME UartInv, U!RspBuf \/ U!RspLen
    PROVE  UartInv'
<1> DEFINE z == U!State
<1>1. z \in RxStates /\ z.rx = rx /\ z.dma = rxDma /\ z.app = app /\ RxOwned(z) /\ RxCounted(z) /\ RxExact(z)
  BY UartNowIs
<1>2. z.rx \in RxRecs /\ z.app \in AppRecs /\ NoBuf \notin Buffers
  BY <1>1, RxStateIs, Lengths
<1>3. CASE U!RspBuf
  <2>1. PICK b \in app.owns : U!Becomes([U!Hand(z, b) EXCEPT !.rx.next = b]) /\ rsp' = b
    BY <1>3 DEF U!RspBuf
  <2>2. app.asked /\ UNCHANGED <<timeoutOn, lineOn, fresh, tx, txDma, txPc, txDue>>
    BY <1>3 DEF U!RspBuf, U!txVars
  <2>3. b \in Buffers /\ b # NoBuf
    BY <1>1, <1>2 DEF AppRecs
  <2> DEFINE a == [z.app EXCEPT !.owns = @ \ {b}, !.asked = FALSE]
             r == [z.rx EXCEPT !.next = b]
             n == [z EXCEPT !.app = a, !.rx = r]
  <2>4. n = [U!Hand(z, b) EXCEPT !.rx.next = b]
    BY <1>1, <1>2 DEF U!Hand, RxStates, AppRecs
  <2>5. /\ a \in AppRecs /\ a.owns = app.owns \ {b} /\ a.dropped = app.dropped /\ a.bad = app.bad
        /\ a.wrote = app.wrote /\ a.told = app.told
    BY <1>1, <1>2 DEF AppRecs
  <2>6. ~a.asked /\ (a.on <=> app.on)
    BY <1>1, <1>2 DEF AppRecs
  <2>7. r \in RxRecs /\ r.cur = rx.cur /\ r.off = rx.off /\ r.total = rx.total /\ r.next = b
    BY <1>1, <1>2, <2>3 DEF RxRecs, Mine
  <2> HIDE DEF a, r
  <2>8. n \in RxStates /\ n.rx = r /\ n.app = a /\ n.dma = rxDma
    BY <1>1, <2>5, <2>7 DEF RxStates
  <2> HIDE DEF n
  <2>9. app.on /\ rx.next = NoBuf
    BY <1>1, <2>2 DEF RxOwned
  <2>10. RxOwned(n)
    BY <1>1, <1>2, <2>3, <2>5, <2>6, <2>7, <2>8, <2>9 DEF RxOwned
  <2>11. RxCounted(n)
    BY <1>1, <2>5, <2>7, <2>8 DEF RxCounted
  <2>12. RxExact(n)
    BY <1>1, <2>5, <2>6, <2>7, <2>8 DEF RxExact
  <2>13. rx' = n.rx /\ rxDma' = n.dma /\ app' = n.app
    BY <2>1, <2>4 DEF U!Becomes
  <2>14. timeoutOn' \in BOOLEAN /\ lineOn' \in BOOLEAN /\ fresh' \in BOOLEAN /\ rsp' \in Mine
    BY <2>1, <2>2, <2>3 DEF UartInv, RestTyped, Mine
  <2>15. RxGood(n) /\ n.app.bad \subseteq app.bad \cup RxWhats
    BY <2>5, <2>8, <2>10, <2>11, <2>12 DEF RxGood
  <2> QED BY <2>2, <2>13, <2>14, <2>15, RxStep
<1>4. CASE U!RspLen
  <2> DEFINE r == [rx EXCEPT !.nlen = BufLen]
             n == [z EXCEPT !.rx = r]
  <2>1. rx' = r /\ rsp' = NoBuf /\ UNCHANGED <<rxDma, app, timeoutOn, lineOn, fresh, tx, txDma, txPc, txDue>>
    BY <1>4 DEF U!RspLen, U!txVars
  <2>2. r \in RxRecs /\ r.cur = rx.cur /\ r.off = rx.off /\ r.total = rx.total /\ r.next = rx.next
    BY <1>1, <1>2 DEF RxRecs
  <2> HIDE DEF r
  <2>3. n \in RxStates /\ n.rx = r /\ n.app = app /\ n.dma = rxDma
    BY <1>1, <2>2 DEF RxStates
  <2> HIDE DEF n
  <2>4. RxOwned(n)
    BY <1>1, <2>2, <2>3 DEF RxOwned
  <2>5. RxCounted(n)
    BY <1>1, <2>2, <2>3 DEF RxCounted
  <2>6. RxExact(n)
    BY <1>1, <2>2, <2>3 DEF RxExact
  <2>7. timeoutOn' \in BOOLEAN /\ lineOn' \in BOOLEAN /\ fresh' \in BOOLEAN /\ rsp' \in Mine
    BY <2>1 DEF UartInv, RestTyped, Mine
  <2> QED BY <2>1, <2>3, <2>4, <2>5, <2>6, <2>7, RxStep DEF RxGood
<1> QED BY <1>3, <1>4

(* A received byte, and the end of a transfer.                              *)
LEMMA UartByteIn ==
    ASSUME UartInv, U!ByteIn
    PROVE  UartInv'
<1> DEFINE z == U!State
           d == U!Beat(rxDma)
           n == [z EXCEPT !.dma = d, !.app = app']
<1>1. z \in RxStates /\ z.rx = rx /\ z.dma = rxDma /\ z.app = app /\ RxOwned(z) /\ RxCounted(z) /\ RxExact(z)
  BY UartNowIs
<1>2. /\ U!CanBeat(rxDma) /\ rxDma' = d /\ fresh' = TRUE
      /\ app' = IF rxDma.addr \in app.owns THEN [app EXCEPT !.bad = @ \cup {"stray"}]
                ELSE [app EXCEPT !.wrote[rxDma.addr] = @ + 1]
      /\ UNCHANGED <<rx, timeoutOn, lineOn, rsp, tx, txDma, txPc, txDue>>
  BY DEF U!ByteIn, U!txVars
<1>3. /\ rxDma \in U!Channels(Buffers, BufLen) /\ app \in AppRecs /\ BufLen \in Nat
      /\ app.wrote \in [Buffers -> 0..BufLen] /\ app.told \in [Buffers -> 0..BufLen]
      /\ rxDma.remain \in 0..BufLen /\ rx.off \in 0..BufLen /\ rx.total \in 0..BufLen
      /\ U!Pending(rxDma) \in 0..BufLen /\ NoBuf \notin Buffers /\ rx.cur \in Mine /\ app.owns \subseteq Buffers
  BY <1>1, RxStateIs, Lengths
<1>4. rxDma.en /\ rxDma.remain > 0 /\ rxDma.addr \in Buffers /\ app.wrote[rxDma.addr] + rxDma.remain <= BufLen
  BY <1>1, <1>2 DEF U!CanBeat, RxCounted
<1>5. /\ d \in U!Channels(Buffers, BufLen) /\ (d.busy <=> rxDma.busy) /\ d.addr = rxDma.addr
      /\ d.remain = rxDma.remain - 1 /\ ("TC" \in d.flags => "TC" \in rxDma.flags \/ rxDma.remain = 1)
  BY <1>2, <1>3, BeatDoes
<1> HIDE DEF d
<1>6. /\ app' \in AppRecs /\ app'.owns = app.owns /\ app'.dropped = app.dropped /\ app'.told = app.told
      /\ app'.bad = (IF rxDma.addr \in app.owns THEN app.bad \cup {"stray"} ELSE app.bad)
      /\ \A b \in Buffers : app'.wrote[b] =
           IF b = rxDma.addr /\ rxDma.addr \notin app.owns THEN app.wrote[b] + 1 ELSE app.wrote[b]
  <2>1. CASE rxDma.addr \in app.owns
    <3> DEFINE more == app.bad \cup {"stray"}
               a == [app EXCEPT !.bad = more]
    <3>1. app' = a /\ more \subseteq Whats
      BY <1>2, <1>3, <2>1 DEF AppRecs, Whats
    <3> HIDE DEF more
    <3>2. /\ a \in AppRecs /\ a.owns = app.owns /\ a.dropped = app.dropped /\ a.told = app.told
          /\ a.bad = more /\ a.wrote = app.wrote
      BY <1>3, <3>1 DEF AppRecs
    <3> HIDE DEF a
    <3> QED BY <2>1, <3>1, <3>2 DEF more
  <2>2. CASE rxDma.addr \notin app.owns
    <3> DEFINE w == [app.wrote EXCEPT ![rxDma.addr] = @ + 1]
               a == [app EXCEPT !.wrote = w]
    <3>1. app' = a
      BY <1>2, <1>3, <2>2 DEF AppRecs
    <3>2. w \in [Buffers -> 0..BufLen]
          /\ \A b \in Buffers : w[b] = IF b = rxDma.addr THEN app.wrote[b] + 1 ELSE app.wrote[b]
      <4>1. app.wrote[rxDma.addr] + 1 \in 0..BufLen
        BY <1>3, <1>4
      <4> QED BY <1>3, <1>4, <4>1
    <3> HIDE DEF w
    <3>3. /\ a \in AppRecs /\ a.owns = app.owns /\ a.dropped = app.dropped /\ a.told = app.told
          /\ a.bad = app.bad /\ a.wrote = w
      BY <1>3, <3>2 DEF AppRecs
    <3> HIDE DEF a
    <3> QED BY <2>2, <3>1, <3>2, <3>3
  <2> QED BY <2>1, <2>2
<1>7. (app'.on <=> app.on) /\ (app'.asked <=> app.asked)
  <2>1. CASE rxDma.addr \in app.owns
    BY <1>2, <1>3, <2>1 DEF AppRecs
  <2>2. CASE rxDma.addr \notin app.owns
    BY <1>2, <1>3, <2>2 DEF AppRecs
  <2> QED BY <2>1, <2>2
<1>8. n \in RxStates /\ n.rx = rx /\ n.dma = d /\ n.app = app'
  BY <1>1, <1>5, <1>6 DEF RxStates
<1> HIDE DEF n
<1>9. RxOwned(n)
  BY <1>1, <1>5, <1>6, <1>7, <1>8 DEF RxOwned
<1>10. RxCounted(n)
  <2>1. n.rx.off + U!Pending(n.dma) <= n.rx.total
    BY <1>1, <1>3, <1>4, <1>5, <1>8 DEF RxCounted, U!Pending
  <2>2. ASSUME NEW b \in n.app.owns
        PROVE  n.app.wrote[b] = 0 /\ n.app.told[b] = 0
    <3>1. b \in app.owns /\ b \in Buffers /\ app.wrote[b] = 0 /\ app.told[b] = 0
      BY <1>1, <1>3, <1>6, <1>8 DEF RxCounted
    <3> QED BY <1>6, <1>8, <3>1
  <2>3. rx.next # NoBuf => n.app.told[rx.next] = 0 /\ n.app.wrote[rx.next] = 0
    <3> SUFFICES ASSUME rx.next # NoBuf PROVE n.app.told[rx.next] = 0 /\ n.app.wrote[rx.next] = 0
      OBVIOUS
    <3>1. rx.next \in Buffers /\ app.told[rx.next] = 0 /\ app.wrote[rx.next] = 0 /\ rx.next \notin app.owns
      BY <1>1, RxStateIs DEF RxCounted, RxOwned, Mine
    <3>2. rxDma.addr # rx.next
      BY <1>1, <3>1 DEF RxOwned
    <3> QED BY <1>6, <1>8, <3>1, <3>2
  <2>4. n.dma.remain > 0 => n.dma.addr \in Buffers /\ n.app.wrote[n.dma.addr] + n.dma.remain <= BufLen
    BY <1>3, <1>4, <1>5, <1>6, <1>8
  <2> QED BY <1>8, <2>1, <2>2, <2>3, <2>4 DEF RxCounted
<1>11. RxExact(n)
  <2> SUFFICES ASSUME "error" \notin n.app.bad PROVE RxExact(n)
    BY DEF RxExact
  <2>1. /\ app.bad \cap {"gap", "short", "stray"} = {} /\ app.on
        /\ rxDma.busy /\ app.told[rx.cur] = rx.off /\ app.wrote[rx.cur] + rxDma.remain = rx.total
        /\ "TC" \in rxDma.flags => rxDma.remain = 0
        /\ \A b \in Buffers : app.told[b] <= app.wrote[b]
    BY <1>1, <1>2, <1>6, <1>8 DEF RxExact
  <2>2. rxDma.addr = rx.cur /\ rx.cur \in Buffers \ app.owns
    BY <1>1, <1>4, <2>1 DEF RxOwned
  <2>3. n.app.bad = app.bad /\ n.app.wrote[rx.cur] = app.wrote[rx.cur] + 1 /\ n.app.told = app.told
    BY <1>6, <1>8, <2>2
  <2>4. n.app.wrote[rx.cur] + n.dma.remain = rx.total
    BY <1>3, <1>5, <1>8, <2>1, <2>2, <2>3
  <2>5. "TC" \in n.dma.flags => n.dma.remain = 0
    BY <1>3, <1>4, <1>5, <1>8, <2>1
  <2>6. ASSUME NEW b \in Buffers
        PROVE  n.app.told[b] <= n.app.wrote[b]
    <3>1. app.told[b] <= app.wrote[b] /\ app.told[b] \in 0..BufLen /\ app.wrote[b] \in 0..BufLen
      BY <1>3, <2>1
    <3>2. n.app.told[b] = app.told[b] /\ n.app.wrote[b] \in {app.wrote[b], app.wrote[b] + 1}
      BY <1>6, <1>8
    <3> QED BY <1>3, <3>1, <3>2
  <2>7. n.app.on /\ n.dma.busy
    BY <1>5, <1>7, <1>8, <2>1
  <2> QED BY <1>8, <2>1, <2>3, <2>4, <2>5, <2>6, <2>7 DEF RxExact
<1>12. n.app.bad \subseteq app.bad \cup RxWhats
  BY <1>6, <1>8 DEF RxWhats
<1>13. timeoutOn' \in BOOLEAN /\ lineOn' \in BOOLEAN /\ fresh' \in BOOLEAN /\ rsp' \in Mine
  BY <1>2 DEF UartInv, RestTyped
<1> QED BY <1>2, <1>8, <1>9, <1>10, <1>11, <1>12, <1>13, RxStep DEF RxGood

LEMMA RxEnds ==
    ASSUME UartInv, NEW g \in U!Flags, g = "TC" => rxDma.remain = 0, rxDma' = U!End(rxDma, g),
           UNCHANGED <<rx, app, timeoutOn, lineOn, fresh, rsp, tx, txDma, txPc, txDue>>
    PROVE  UartInv'
<1> DEFINE z == U!State
           d == U!End(rxDma, g)
           n == [z EXCEPT !.dma = d]
<1>1. z \in RxStates /\ z.rx = rx /\ z.dma = rxDma /\ z.app = app /\ RxOwned(z) /\ RxCounted(z) /\ RxExact(z)
  BY UartNowIs
<1>2. rxDma \in U!Channels(Buffers, BufLen) /\ BufLen \in Nat
  BY <1>1, RxStateIs, Lengths
<1>3. /\ d \in U!Channels(Buffers, BufLen) /\ (d.busy <=> rxDma.busy) /\ d.addr = rxDma.addr
      /\ d.remain = rxDma.remain /\ d.flags = rxDma.flags \cup {g} /\ ~d.en
  BY <1>2, EndDoes
<1>4. rxDma' = d
  OBVIOUS
<1> HIDE DEF d
<1>5. n \in RxStates /\ n.rx = rx /\ n.dma = d /\ n.app = app
  BY <1>1, <1>3 DEF RxStates
<1> HIDE DEF n
<1>6. RxOwned(n)
  BY <1>1, <1>3, <1>5 DEF RxOwned
<1>7. RxCounted(n)
  <2>1. U!Pending(d) = U!Pending(rxDma)
    BY <1>3 DEF U!Pending
  <2> QED BY <1>1, <1>3, <1>5, <2>1 DEF RxCounted
<1>8. RxExact(n)
  <2>1. ~U!CanBeat(n.dma)
    BY <1>3, <1>5 DEF U!CanBeat
  <2> QED BY <1>1, <1>3, <1>5, <2>1 DEF RxExact
<1>9. timeoutOn' \in BOOLEAN /\ lineOn' \in BOOLEAN /\ fresh' \in BOOLEAN /\ rsp' \in Mine
  BY DEF UartInv, RestTyped
<1> QED BY <1>4, <1>5, <1>6, <1>7, <1>8, <1>9, RxStep DEF RxGood

(* uart_hpm_isr: the receive timeout.                                       *)
LEMMA UartTimeout ==
    ASSUME UartInv, U!TimeoutIsr
    PROVE  UartInv'
<1> DEFINE z == U!State
           c == U!Suspend(rxDma)
           s == [z EXCEPT !.dma = c]
           f == U!Flush(s)
           d == U!Resume(f.dma)
           n == [f EXCEPT !.dma = d]
<1>1. z \in RxStates /\ z.rx = rx /\ z.dma = rxDma /\ z.app = app /\ RxOwned(z) /\ RxCounted(z) /\ RxExact(z)
  BY UartNowIs
<1>2. /\ U!Becomes(n) /\ fresh' = FALSE /\ UNCHANGED <<timeoutOn, lineOn, rsp, tx, txDma, txPc, txDue>>
  <2>1. s = [z EXCEPT !.dma = U!Suspend(@)]
    BY <1>1
  <2>2. U!Becomes([f EXCEPT !.dma = U!Resume(@)])
    <3> HIDE DEF s
    <3> QED BY <2>1 DEF U!TimeoutIsr
  <2> HIDE DEF f
  <2> QED BY <2>2 DEF U!TimeoutIsr, U!txVars
<1>3. rx' = n.rx /\ rxDma' = n.dma /\ app' = n.app
  BY <1>2 DEF U!Becomes
<1>4. /\ rxDma \in U!Channels(Buffers, BufLen) /\ BufLen \in Nat /\ NoBuf \notin Buffers
      /\ rx.off \in 0..BufLen /\ rx.total \in 0..BufLen /\ U!Pending(rxDma) \in 0..BufLen /\ rx.cur \in Mine
      /\ rxDma.remain \in 0..BufLen /\ app.owns \subseteq Buffers
      /\ app.wrote \in [Buffers -> 0..BufLen] /\ app.told \in [Buffers -> 0..BufLen]
  BY <1>1, RxStateIs, Lengths
<1>5. /\ c \in U!Channels(Buffers, BufLen) /\ (c.busy <=> rxDma.busy) /\ c.addr = rxDma.addr
      /\ c.remain = rxDma.remain /\ c.flags = rxDma.flags /\ (~rxDma.busy => c = rxDma)
  BY <1>4, SuspendDoes
<1> HIDE DEF c
<1>6. s \in RxStates /\ s.rx = rx /\ s.dma = c /\ s.app = app
  BY <1>1, <1>5 DEF RxStates
<1> HIDE DEF s
<1>7. U!Pending(s.dma) = U!Pending(rxDma) /\ Unread(s) = rx.total - rx.off - U!Pending(rxDma)
  BY <1>5, <1>6 DEF U!Pending, Unread
<1>8. rx.off + U!Pending(rxDma) <= rx.total /\ (rx.total # 0 => rx.cur # NoBuf)
  BY <1>1 DEF RxOwned, RxCounted
<1>9. /\ f \in RxStates /\ f.dma = c /\ f.rx.cur = rx.cur /\ f.rx.next = rx.next /\ f.rx.total = rx.total
      /\ f.rx.off = rx.total - U!Pending(rxDma)
      /\ f.app.owns = app.owns /\ f.app.dropped = app.dropped /\ f.app.wrote = app.wrote
      /\ (f.app.on <=> app.on) /\ (f.app.asked <=> app.asked)
      /\ \A b \in Buffers : f.app.told[b] = IF b = rx.cur /\ Unread(s) # 0 THEN f.rx.off ELSE app.told[b]
      /\ f.app.bad = IF Unread(s) # 0 /\ app.told[rx.cur] # rx.off THEN app.bad \cup {"gap"} ELSE app.bad
  <2>1. s.rx.off + U!Pending(s.dma) <= s.rx.total /\ (s.rx.total # 0 => s.rx.cur # NoBuf)
    BY <1>6, <1>7, <1>8
  <2>2. f.rx.off = s.rx.total - U!Pending(s.dma)
    BY <1>6, <2>1, FlushDoes
  <2>3. f.rx.off = rx.total - U!Pending(rxDma)
    BY <1>6, <1>7, <2>2
  <2> QED BY <1>6, <2>1, <2>3, FlushDoes
<1>10. /\ d \in U!Channels(Buffers, BufLen) /\ (d.busy <=> rxDma.busy) /\ d.addr = rxDma.addr
       /\ d.remain = rxDma.remain /\ d.flags = rxDma.flags /\ (~rxDma.busy => d = rxDma)
  <2>1. d = U!Resume(c)
    BY <1>9
  <2> HIDE DEF d
  <2> QED BY <1>4, <1>5, <2>1, ResumeDoes
<1> HIDE DEF f, d
<1>11. n \in RxStates /\ n.rx = f.rx /\ n.dma = d /\ n.app = f.app
  BY <1>9, <1>10 DEF RxStates
<1> HIDE DEF n
<1>12. ~app.on => Unread(s) = 0 /\ f.rx.off = 0 /\ rx.total = 0
  BY <1>1, <1>4, <1>7, <1>8, <1>9 DEF RxOwned
<1>13. RxOwned(n)
  BY <1>1, <1>9, <1>10, <1>11, <1>12 DEF RxOwned
<1>14. RxCounted(n)
  <2>1. U!Pending(d) = U!Pending(rxDma)
    BY <1>10 DEF U!Pending
  <2>2. n.rx.off + U!Pending(n.dma) <= n.rx.total
    BY <1>4, <1>9, <1>11, <2>1
  <2>3. ASSUME NEW b \in app.owns \cup ({rx.next} \ {NoBuf})
        PROVE  n.app.wrote[b] = 0 /\ n.app.told[b] = 0
    <3>1. b \in Buffers /\ b # rx.cur /\ app.wrote[b] = 0 /\ app.told[b] = 0
      BY <1>1, <1>4, RxStateIs DEF RxOwned, RxCounted, Mine
    <3> QED BY <1>9, <1>11, <3>1
  <2>4. n.dma.remain > 0 => n.dma.addr \in Buffers /\ n.app.wrote[n.dma.addr] + n.dma.remain <= BufLen
    BY <1>1, <1>9, <1>10, <1>11 DEF RxCounted
  <2> QED BY <1>9, <1>11, <2>2, <2>3, <2>4 DEF RxCounted
<1>15. RxExact(n)
  <2> SUFFICES ASSUME "error" \notin n.app.bad PROVE RxExact(n)
    BY DEF RxExact
  <2>1. /\ app.bad \cap {"gap", "short", "stray"} = {}
        /\ app.on => /\ rxDma.busy
                     /\ app.told[rx.cur] = rx.off /\ app.wrote[rx.cur] + rxDma.remain = rx.total
        /\ ~app.on => ~U!CanBeat(rxDma)
        /\ "TC" \in rxDma.flags => rxDma.remain = 0
        /\ \A b \in Buffers : app.told[b] <= app.wrote[b]
    BY <1>1, <1>9, <1>11 DEF RxExact
  <2>2. app.on => U!Pending(rxDma) = rxDma.remain /\ rx.cur \in Buffers
    BY <1>1, <1>4, <2>1 DEF U!Pending, RxOwned, Mine
  <2>3. f.app.bad = app.bad
    BY <1>9, <1>12, <2>1
  <2>4. app.on => f.app.told[rx.cur] = f.rx.off
    <3>1. CASE Unread(s) # 0
      BY <1>9, <2>2, <3>1
    <3>2. CASE Unread(s) = 0
      <4>1. rx.off = rx.total - U!Pending(rxDma)
        BY <1>4, <1>7, <3>2
      <4> QED BY <1>9, <2>1, <2>2, <3>2, <4>1
    <3> QED BY <3>1, <3>2
  <2>5. ASSUME NEW b \in Buffers
        PROVE  f.app.told[b] <= app.wrote[b]
    <3>1. CASE b = rx.cur /\ app.on
      BY <1>4, <1>9, <2>1, <2>2, <2>4, <3>1
    <3>2. CASE ~(b = rx.cur /\ app.on)
      <4>1. f.app.told[b] = app.told[b]
        BY <1>9, <1>12, <3>2
      <4> QED BY <2>1, <4>1
    <3> QED BY <3>1, <3>2
  <2>6. ~app.on => ~U!CanBeat(d)
    BY <1>1, <1>10, <2>1 DEF RxOwned
  <2> QED BY <1>9, <1>10, <1>11, <2>1, <2>3, <2>4, <2>5, <2>6 DEF RxExact
<1>16. timeoutOn' \in BOOLEAN /\ lineOn' \in BOOLEAN /\ fresh' \in BOOLEAN /\ rsp' \in Mine
  BY <1>2 DEF UartInv, RestTyped
<1>17. n.app.bad \subseteq app.bad \cup RxWhats
  BY <1>9, <1>11 DEF RxWhats
<1> QED BY <1>2, <1>3, <1>11, <1>13, <1>14, <1>15, <1>16, <1>17, RxStep DEF RxGood

(* dma_hpm_dma_irq_handler for the receive channel.                         *)
LEMMA UartRxDma ==
    ASSUME UartInv, U!RxDmaIsr
    PROVE  UartInv'
<1> DEFINE s == U!State
           f == U!ReleaseIfNew(U!Flush([s EXCEPT !.dma = U!Served(@)]))
<1>1. s \in RxStates /\ s.rx = rx /\ s.dma = rxDma /\ s.app = app /\ RxOwned(s) /\ RxCounted(s) /\ RxExact(s)
  BY UartNowIs
<1>2. PICK n \in U!RxCompleted(s) :
        U!Becomes(n) /\ timeoutOn' = (timeoutOn /\ (app.on => n.app.on))
  BY DEF U!RxDmaIsr
<1>3. UNCHANGED <<lineOn, fresh, rsp, tx, txDma, txPc, txDue>> /\ rx' = n.rx /\ rxDma' = n.dma /\ app' = n.app
  BY <1>2 DEF U!RxDmaIsr, U!txVars, U!Becomes
<1>4. /\ s.dma \in U!Channels(Buffers, BufLen) /\ BufLen \in Nat /\ NoBuf \notin Buffers
      /\ s.rx.next \in Mine /\ s.rx.cur \in Mine /\ s.rx.total \in 0..BufLen /\ s.rx.off \in 0..BufLen
      /\ s.rx.nlen \in {0, BufLen} /\ s.app \in AppRecs
      /\ s.app.wrote \in [Buffers -> 0..BufLen] /\ s.app.told \in [Buffers -> 0..BufLen]
  BY <1>1, RxStateIs, Lengths
<1> HIDE DEF s
<1>5. CASE ~U!Succeeded(s.dma)
  <2> DEFINE c == U!Served(s.dma)
             more == s.app.bad \cup {"error"}
             a == [s.app EXCEPT !.bad = more]
  <2>1. n = [s EXCEPT !.dma = c, !.app = a]
    BY <1>1, <1>2, <1>4, <1>5 DEF U!RxCompleted, U!Note, RxStates, AppRecs
  <2>2. c \in U!Channels(Buffers, BufLen) /\ ~c.busy /\ c.addr = s.dma.addr /\ c.remain = s.dma.remain
    BY <1>4, ServedDoes
  <2>3. more \subseteq Whats /\ "error" \in more
    BY <1>4 DEF AppRecs, Whats
  <2>4. more \subseteq app.bad \cup RxWhats
    BY <1>1 DEF RxWhats
  <2> HIDE DEF c, more
  <2>5. /\ a \in AppRecs /\ a.owns = s.app.owns /\ a.dropped = s.app.dropped /\ a.bad = more
        /\ a.wrote = s.app.wrote /\ a.told = s.app.told
    BY <1>4, <2>3 DEF AppRecs
  <2>6. (a.on <=> s.app.on) /\ (a.asked <=> s.app.asked)
    BY <1>4 DEF AppRecs
  <2> HIDE DEF a
  <2>7. n \in RxStates /\ n.dma = c /\ n.app = a /\ n.rx = s.rx
    BY <1>1, <2>1, <2>2, <2>5 DEF RxStates
  <2>8. RxOwned(n)
    BY <1>1, <2>2, <2>5, <2>6, <2>7 DEF RxOwned
  <2>9. RxCounted(n)
    <3>1. U!Pending(c) = 0
      BY <2>2 DEF U!Pending
    <3>2. s.rx.off <= s.rx.total
      BY <1>1, <1>4, RxStateIs DEF RxCounted
    <3> QED BY <1>1, <1>4, <2>2, <2>5, <2>7, <3>1, <3>2 DEF RxCounted
  <2>10. RxExact(n)
    BY <2>3, <2>5, <2>7 DEF RxExact
  <2>11. timeoutOn' \in BOOLEAN /\ lineOn' \in BOOLEAN /\ fresh' \in BOOLEAN /\ rsp' \in Mine
    BY <1>2, <1>3 DEF UartInv, RestTyped
  <2> QED BY <1>3, <2>4, <2>5, <2>7, <2>8, <2>9, <2>10, <2>11, RxStep DEF RxGood
<1>6. ASSUME U!Succeeded(s.dma), RxGood(n), n.app.bad \subseteq f.app.bad \cup {"gap", "short"},
             f.app.bad \subseteq s.app.bad \cup {"gap", "short"}
      PROVE  UartInv'
  <2>1. n.app.bad \subseteq app.bad \cup RxWhats
    <3> HIDE DEF f
    <3> QED BY <1>1, <1>6 DEF RxWhats
  <2>2. timeoutOn' \in BOOLEAN /\ lineOn' \in BOOLEAN /\ fresh' \in BOOLEAN /\ rsp' \in Mine
    BY <1>2, <1>3 DEF UartInv, RestTyped
  <2> QED BY <1>3, <1>6, <2>1, <2>2, RxStep
<1>7. CASE U!Succeeded(s.dma)
  <2>1. /\ f \in RxStates /\ ~f.dma.busy /\ f.dma.flags = {}
        /\ f.dma.addr = s.dma.addr /\ f.dma.remain = s.dma.remain
        /\ f.rx.cur = s.rx.cur /\ f.rx.next = s.rx.next /\ f.rx.nlen = s.rx.nlen
        /\ f.rx.total = s.rx.total /\ f.rx.off = s.rx.total /\ (f.app.on <=> s.app.on)
        /\ AtRest(f.app) /\ f.rx.next \notin f.app.owns
        /\ f.rx.next # NoBuf => f.app.wrote[f.rx.next] = 0 /\ f.app.told[f.rx.next] = 0
        /\ \A b \in Buffers : f.app.wrote[b] <= s.app.wrote[b]
        /\ \A b \in Buffers : b \in f.app.owns \cup f.app.dropped \/ b \in {f.rx.cur, f.rx.next}
        /\ f.rx.next # NoBuf => \A b \in Buffers : b \in f.app.owns \cup f.app.dropped \cup {f.rx.next}
        /\ f.app.bad \subseteq s.app.bad \cup {"gap", "short"}
        /\ "error" \notin f.app.bad =>
             /\ Truthful(f.app) /\ f.dma.remain = 0
             /\ f.rx.cur # NoBuf => f.app.wrote[f.rx.cur] <= f.app.told[f.rx.cur]
    <3>1. RxGood(s) /\ "TC" \in s.dma.flags
      BY <1>1, <1>7 DEF RxGood, U!Succeeded
    <3> QED BY <3>1, CompletedLeaves
  <2>2. n \in IF f.rx.next # NoBuf THEN U!Switched(f) ELSE {U!Disabled(f)}
    BY <1>2, <1>7 DEF U!RxCompleted
  <2>3. f.app \in AppRecs /\ f.dma \in U!Channels(Buffers, BufLen) /\ f.app.wrote \in [Buffers -> 0..BufLen]
        /\ f.dma.remain \in 0..BufLen
    BY <2>1, RxStateIs
  <2> HIDE DEF f
  <2>4. CASE f.rx.next # NoBuf
    <3> DEFINE d == U!Stop(f.dma)
               r == [U!RxOff EXCEPT !.cur = f.rx.next, !.total = f.rx.nlen]
               t == [f EXCEPT !.dma = d, !.rx = r]
    <3>1. PICK m \in U!Requested(t) : n = U!LoadAndStart(m)
      <4>1. t = [f EXCEPT !.dma = U!Stop(@), !.rx = [U!RxOff EXCEPT !.cur = f.rx.next, !.total = f.rx.nlen]]
        BY <2>1
      <4> HIDE DEF t
      <4> QED BY <2>2, <2>4, <4>1 DEF U!Switched
    <3>2. d \in U!Channels(Buffers, BufLen)
      BY <1>4, <2>3, StopDoes
    <3>3. r \in RxRecs /\ r.cur = f.rx.next /\ r.off = 0 /\ r.next = NoBuf
      <4>1. U!RxOff \in RxRecs /\ U!RxOff.off = 0 /\ U!RxOff.next = NoBuf
        BY <1>4 DEF U!RxOff, RxRecs, Mine
      <4> QED BY <1>4, <2>1, <4>1 DEF RxRecs
    <3> HIDE DEF d, r
    <3>4. t \in RxStates /\ t.rx = r /\ t.app = f.app
      BY <2>1, <3>2, <3>3 DEF RxStates
    <3> HIDE DEF t
    <3>5. t.app.on /\ t.rx.cur \in Buffers \ t.app.owns
      <4>1. s.app.on
        BY <1>1, <2>1, <2>4 DEF RxOwned
      <4>2. f.rx.next \in Buffers
        BY <1>4, <2>1, <2>4 DEF Mine
      <4> QED BY <2>1, <3>3, <3>4, <4>1, <4>2
    <3>6. /\ t.app.wrote[t.rx.cur] = 0 /\ t.app.told[t.rx.cur] = 0 /\ AtRest(t.app)
          /\ \A b \in Buffers : b \in t.app.owns \cup t.app.dropped \cup {t.rx.cur}
          /\ "error" \notin t.app.bad => Truthful(t.app)
      BY <2>1, <2>4, <3>3, <3>4
    <3>7. RxGood(n) /\ n.app.bad = f.app.bad
      BY <3>1, <3>3, <3>4, <3>5, <3>6, StartedIsGood
    <3> QED BY <1>6, <1>7, <2>1, <3>7
  <2>5. CASE f.rx.next = NoBuf
    <3>1. n = U!Disabled(f)
      BY <2>2, <2>5
    <3>2. U!Pending(f.dma) = 0
      BY <2>1 DEF U!Pending
    <3>3. Unread(f) = 0 /\ f.rx.off + U!Pending(f.dma) <= f.rx.total
      BY <1>4, <2>1, <3>2 DEF Unread
    <3>4. f.rx.total # 0 => f.rx.cur # NoBuf
      BY <1>1, <2>1 DEF RxOwned
    <3>5. f.dma.remain > 0 => f.dma.addr \in Buffers /\ f.app.wrote[f.dma.addr] + f.dma.remain <= BufLen
      <4> SUFFICES ASSUME f.dma.remain > 0
                   PROVE  f.dma.addr \in Buffers /\ f.app.wrote[f.dma.addr] + f.dma.remain <= BufLen
        OBVIOUS
      <4>1. s.dma.addr \in Buffers /\ s.app.wrote[s.dma.addr] + s.dma.remain <= BufLen
        BY <1>1, <2>1 DEF RxCounted
      <4>2. /\ f.app.wrote[s.dma.addr] <= s.app.wrote[s.dma.addr]
            /\ f.app.wrote[s.dma.addr] \in 0..BufLen /\ s.app.wrote[s.dma.addr] \in 0..BufLen
        BY <1>4, <2>1, <2>3, <4>1
      <4> QED BY <1>4, <2>1, <2>3, <4>1, <4>2
    <3>6. "error" \notin f.app.bad =>
            /\ Truthful(f.app) /\ (f.dma.busy \/ ~U!CanBeat(f.dma)) /\ ("TC" \in f.dma.flags => f.dma.remain = 0)
            /\ f.rx.cur # NoBuf /\ Unread(f) # 0 =>
                 f.app.told[f.rx.cur] = f.rx.off /\ f.app.wrote[f.rx.cur] <= f.rx.total - U!Pending(f.dma)
            /\ f.rx.cur # NoBuf /\ Unread(f) = 0 => f.app.wrote[f.rx.cur] <= f.app.told[f.rx.cur]
      BY <2>1, <3>3 DEF U!CanBeat
    <3>7. RxGood(n) /\ n.app.bad \subseteq f.app.bad \cup {"gap", "short"}
      BY <2>1, <3>1, <3>3, <3>4, <3>5, <3>6, DisabledIsGood
    <3> QED BY <1>6, <1>7, <2>1, <3>7
  <2> QED BY <2>4, <2>5
<1> QED BY <1>5, <1>7
-------------------------------------------------------------------------------
(* The transmit side.                                                       *)
LEMMA TxStep ==
    ASSUME UartInv, UNCHANGED <<rx, rxDma, app, timeoutOn, lineOn, fresh, rsp>>,
           tx' \in TxRecs, txDma' \in U!Channels(TxBufs, TxLen),
           txPc' \in {"idle", "load", "start"}, txDue' \in TxBufs \cup {NoBuf},
           txDma'.en \/ txDma'.flags # {} \/ txPc' # "idle" =>
             txDue' = tx'.buf /\ tx'.buf \in TxBufs /\ tx'.len = TxLen,
           txPc' # "idle" \/ txDma'.flags # {} => ~txDma'.en, txPc' # "idle" => txDma'.flags = {},
           txPc' = "start" => txDma'.valid, "TC" \in txDma'.flags => txDma'.remain = 0
    PROVE  UartInv'
<1>1. U!State' = U!State
  BY DEF U!State
<1>2. RxGood(U!State')
  BY <1>1 DEF UartInv
<1>3. TxSound'
  <2>1. "tx" \notin app'.bad
    BY DEF UartInv, TxSound
  <2> QED BY <2>1 DEF TxSound
<1>4. RestTyped'
  BY DEF UartInv, RestTyped
<1> QED BY <1>2, <1>3, <1>4 DEF UartInv

LEMMA TxNowIs ==
    ASSUME UartInv
    PROVE  /\ TxSound /\ tx \in TxRecs /\ txDma \in U!Channels(TxBufs, TxLen)
           /\ txPc \in {"idle", "load", "start"} /\ txDue \in TxBufs \cup {NoBuf}
           /\ TxLen \in Nat /\ NoBuf \notin TxBufs
           /\ tx.buf \in TxBufs \cup {NoBuf} /\ txDma.remain \in 0..TxLen /\ txDma.flags \subseteq {"TC", "ERR"}
<1> QED BY Lengths DEF UartInv, RestTyped, TxRecs, U!Channels, U!Flags

LEMMA UartTxCalls ==
    ASSUME UartInv, U!TxCall \/ U!TxLoad \/ U!TxStart
    PROVE  UartInv'
<1>1. /\ TxSound /\ tx \in TxRecs /\ txDma \in U!Channels(TxBufs, TxLen) /\ TxLen \in Nat /\ NoBuf \notin TxBufs
      /\ txPc \in {"idle", "load", "start"} /\ txDue \in TxBufs \cup {NoBuf} /\ tx.buf \in TxBufs \cup {NoBuf}
  BY TxNowIs
<1>2. CASE U!TxCall
  <2>1. PICK b \in TxBufs : tx' = [buf |-> b, len |-> TxLen] /\ txDue' = b
    BY <1>2 DEF U!TxCall
  <2>2. /\ txPc = "idle" /\ txDue = NoBuf /\ txPc' = "load" /\ txDma' = txDma
        /\ UNCHANGED <<rx, rxDma, app, timeoutOn, lineOn, fresh, rsp>>
    BY <1>2 DEF U!TxCall, U!rxVars
  <2>3. tx' \in TxRecs /\ tx'.buf = b /\ tx'.len = TxLen
    BY <2>1 DEF TxRecs
  <2>4. ~txDma.en /\ txDma.flags = {}
    BY <1>1, <2>2 DEF TxSound
  <2> QED BY <1>1, <2>1, <2>2, <2>3, <2>4, TxStep
<1>3. CASE U!TxLoad
  <2> DEFINE d == U!Config(txDma, tx.buf, tx.len)
  <2>1. /\ txPc = "load" /\ txPc' = "start" /\ txDma' = d /\ UNCHANGED <<tx, txDue>>
        /\ UNCHANGED <<rx, rxDma, app, timeoutOn, lineOn, fresh, rsp>>
    BY <1>3 DEF U!TxLoad, U!rxVars
  <2>2. txDue = tx.buf /\ tx.buf \in TxBufs /\ tx.len = TxLen
    BY <1>1, <2>1 DEF TxSound
  <2>3. d \in U!Channels(TxBufs, TxLen) /\ d.flags = {}
    BY <1>1, <2>2, LoadedIs DEF U!Config
  <2>4. d.valid /\ ~d.en
    BY DEF U!Config
  <2> HIDE DEF d
  <2> QED BY <1>1, <2>1, <2>2, <2>3, <2>4, TxStep
<1>4. CASE U!TxStart
  <2> DEFINE d == [txDma EXCEPT !.busy = TRUE, !.en = TRUE]
  <2>1. /\ txPc = "start" /\ txPc' = "idle" /\ txDma' = U!Start(txDma) /\ UNCHANGED <<tx, txDue>>
        /\ UNCHANGED <<rx, rxDma, app, timeoutOn, lineOn, fresh, rsp>>
    BY <1>4 DEF U!TxStart, U!rxVars
  <2>2. txDue = tx.buf /\ tx.buf \in TxBufs /\ tx.len = TxLen /\ txDma.flags = {} /\ txDma.valid
    BY <1>1, <2>1 DEF TxSound
  <2>3. d \in U!Channels(TxBufs, TxLen) /\ d.flags = {}
    BY <1>1, <2>2 DEF U!Channels
  <2>4. txDma' = d
    BY <2>1, <2>2 DEF U!Start
  <2> HIDE DEF d
  <2> QED BY <1>1, <2>1, <2>2, <2>3, <2>4, TxStep
<1> QED BY <1>2, <1>3, <1>4

LEMMA UartTxDma ==
    ASSUME UartInv, U!TxDmaIsr
    PROVE  UartInv'
<1>1. /\ TxSound /\ tx \in TxRecs /\ txDma \in U!Channels(TxBufs, TxLen) /\ TxLen \in Nat /\ NoBuf \notin TxBufs
      /\ txPc \in {"idle", "load", "start"} /\ txDue \in TxBufs \cup {NoBuf} /\ tx.buf \in TxBufs \cup {NoBuf}
  BY TxNowIs
<1>2. /\ txDma.flags # {} /\ UNCHANGED <<rx, rxDma, timeoutOn, lineOn, fresh, rsp, txPc>>
  BY DEF U!TxDmaIsr, U!Finished
<1>3. txDue = tx.buf /\ tx.buf \in TxBufs /\ tx.len = TxLen /\ ~txDma.en /\ txPc = "idle"
  BY <1>1, <1>2 DEF TxSound
<1>4. /\ U!Served(txDma) \in U!Channels(TxBufs, TxLen) /\ U!Served(txDma).flags = {}
      /\ ~U!Served(txDma).en
  BY <1>1, <1>3, ServedDoes
<1>5. CASE ~U!Succeeded(txDma)
  <2>1. txDma' = U!Served(txDma) /\ UNCHANGED <<tx, txDue, app>>
    BY <1>5 DEF U!TxDmaIsr
  <2> QED BY <1>1, <1>2, <1>3, <1>4, <2>1, TxStep
<1>6. CASE U!Succeeded(txDma)
  <2>1. app' = app
    <3>1. txDma.remain = 0 /\ app \in AppRecs
      BY <1>1, <1>6, UartNowIs, RxStateIs DEF TxSound, U!Succeeded
    <3>2. app' = [app EXCEPT !.bad = @]
      BY <1>3, <1>6, <3>1 DEF U!TxDmaIsr, U!TxDone, U!TxReported
    <3> QED BY <3>1, <3>2 DEF AppRecs
  <2>2. CASE tx' = U!NoTx /\ txDma' = U!Served(txDma) /\ txDue' = NoBuf
    <3>1. tx' \in TxRecs
      BY <2>2 DEF TxRecs, U!NoTx
    <3> QED BY <1>1, <1>2, <1>3, <1>4, <2>1, <2>2, <3>1, TxStep
  <2>3. ASSUME NEW b \in TxBufs, U!TxAgain(b), tx' = [buf |-> b, len |-> TxLen]
        PROVE  UartInv'
    <3> DEFINE d == U!Start(U!Config(U!Served(txDma), b, TxLen))
    <3>1. d \in U!Channels(TxBufs, TxLen) /\ Loaded(d, b, TxLen)
      BY <1>1, LoadedIs
    <3>2. txDma' = d /\ txDue' = b
      BY <2>3 DEF U!TxAgain
    <3>3. tx' \in TxRecs /\ tx'.buf = b /\ tx'.len = TxLen
      BY <2>3 DEF TxRecs
    <3> HIDE DEF d
    <3> QED BY <1>1, <1>2, <1>3, <2>1, <3>1, <3>2, <3>3, TxStep DEF Loaded
  <2> QED BY <1>6, <2>2, <2>3 DEF U!TxDmaIsr, U!TxDone
<1> QED BY <1>5, <1>6

(* The transmit channel moves a byte, or ends.                              *)
LEMMA TxMoves ==
    ASSUME UartInv, txDma.en, NEW d \in U!Channels(TxBufs, TxLen), txDma' = d,
           UNCHANGED <<rx, rxDma, app, timeoutOn, lineOn, fresh, rsp, tx, txPc, txDue>>,
           d.flags # {} => ~d.en, "TC" \in d.flags => d.remain = 0
    PROVE  UartInv'
<1>1. /\ TxSound /\ tx \in TxRecs /\ txPc \in {"idle", "load", "start"} /\ txDue \in TxBufs \cup {NoBuf}
  BY TxNowIs
<1>2. txDue = tx.buf /\ tx.buf \in TxBufs /\ tx.len = TxLen /\ txPc = "idle"
  BY <1>1 DEF TxSound
<1> QED BY <1>1, <1>2, TxStep

LEMMA UartMoves ==
    ASSUME UartInv, U!ByteOut \/ U!EmptyEnds \/ U!TransferFails
    PROVE  UartInv'
<1>1. /\ TxSound /\ txDma \in U!Channels(TxBufs, TxLen) /\ TxLen \in Nat /\ txDma.remain \in 0..TxLen
  BY TxNowIs
<1>2. CASE U!ByteOut
  <2>1. U!CanBeat(txDma) /\ txDma' = U!Beat(txDma) /\ UNCHANGED <<rx, rxDma, app, timeoutOn, lineOn, fresh, rsp, tx, txPc, txDue>>
    BY <1>2 DEF U!ByteOut, U!rxVars
  <2>2. txDma.en /\ txDma.remain > 0 /\ txDma.flags = {}
    BY <1>1, <2>1 DEF U!CanBeat, TxSound
  <2>3. /\ U!Beat(txDma) \in U!Channels(TxBufs, TxLen) /\ U!Beat(txDma).remain = txDma.remain - 1
        /\ "TC" \in U!Beat(txDma).flags => txDma.remain = 1
        /\ U!Beat(txDma).en <=> txDma.remain > 1
        /\ U!Beat(txDma).flags # {} => txDma.remain = 1
    BY <1>1, <2>1, <2>2, BeatDoes
  <2>4. /\ U!Beat(txDma).flags # {} => ~U!Beat(txDma).en
        /\ "TC" \in U!Beat(txDma).flags => U!Beat(txDma).remain = 0
    BY <1>1, <2>3
  <2> QED BY <2>1, <2>2, <2>3, <2>4, TxMoves
<1>3. CASE U!EmptyEnds
  <2>1. PICK g \in U!Flags : rxDma' = U!End(rxDma, g)
    BY <1>3 DEF U!EmptyEnds
  <2>2. rxDma.remain = 0 /\ UNCHANGED <<rx, app, timeoutOn, lineOn, fresh, rsp, tx, txDma, txPc, txDue>>
    BY <1>3 DEF U!EmptyEnds, U!txVars
  <2> QED BY <2>1, <2>2, RxEnds
<1>4. CASE U!TransferFails
  <2>1. UNCHANGED <<rx, app, timeoutOn, lineOn, fresh, rsp, tx, txPc, txDue>> /\ "ERR" \in U!Flags
    BY <1>4 DEF U!TransferFails, U!Flags
  <2>2. CASE rxDma' = U!End(rxDma, "ERR") /\ UNCHANGED txDma
    <3>1. "ERR" # "TC"
      OBVIOUS
    <3> QED BY <2>1, <2>2, <3>1, RxEnds
  <2>3. CASE U!CanBeat(txDma) /\ txDma' = U!End(txDma, "ERR") /\ UNCHANGED rxDma
    <3>1. txDma.en /\ txDma.flags = {}
      BY <1>1, <2>3 DEF U!CanBeat, TxSound
    <3>2. U!End(txDma, "ERR") \in U!Channels(TxBufs, TxLen) /\ U!End(txDma, "ERR").flags = {"ERR"} /\ ~U!End(txDma, "ERR").en
      BY <1>1, <2>1, <3>1, EndDoes
    <3> QED BY <2>1, <2>3, <3>1, <3>2, TxMoves
  <2> QED BY <1>4, <2>2, <2>3 DEF U!TransferFails
<1> QED BY <1>2, <1>3, <1>4

LEMMA UartInit ==
    ASSUME U!Init
    PROVE  UartInv
<1>1. /\ rx = U!RxOff /\ rxDma = U!Unused /\ timeoutOn = FALSE /\ lineOn = FALSE /\ fresh = FALSE
      /\ app = [owns |-> Buffers, dropped |-> {}, asked |-> FALSE, on |-> FALSE, bad |-> {},
                wrote |-> [b \in Buffers |-> 0], told |-> [b \in Buffers |-> 0]]
      /\ rsp = NoBuf /\ tx = U!NoTx /\ txDma = U!Unused /\ txPc = "idle" /\ txDue = NoBuf
  BY DEF U!Init
<1>2. BufLen \in Nat /\ TxLen \in Nat /\ NoBuf \notin Buffers /\ NoBuf \notin TxBufs
  BY Lengths
<1>3. /\ rx \in RxRecs /\ rx.cur = NoBuf /\ rx.next = NoBuf /\ rx.off = 0 /\ rx.total = 0
  BY <1>1, <1>2 DEF U!RxOff, RxRecs, Mine
<1>4. /\ U!Unused \in U!Channels(Buffers, BufLen) /\ U!Unused \in U!Channels(TxBufs, TxLen)
      /\ U!Unused.remain = 0 /\ U!Unused.flags = {}
  BY <1>2 DEF U!Unused, U!Channels
<1>5. ~U!Unused.en /\ ~U!Unused.busy
  BY DEF U!Unused
<1>6. /\ app \in AppRecs /\ app.owns = Buffers /\ app.dropped = {} /\ app.bad = {}
      /\ \A b \in Buffers : app.wrote[b] = 0 /\ app.told[b] = 0
  <2> DEFINE zero == [b \in Buffers |-> 0]
  <2>1. zero \in [Buffers -> 0..BufLen] /\ \A b \in Buffers : zero[b] = 0
    BY <1>2
  <2> HIDE DEF zero
  <2>2. app = [owns |-> Buffers, dropped |-> {}, asked |-> FALSE, on |-> FALSE, bad |-> {}, wrote |-> zero, told |-> zero]
    BY <1>1 DEF zero
  <2> QED BY <2>1, <2>2 DEF AppRecs
<1>7. ~app.on /\ ~app.asked
  BY <1>1
<1>8. U!State \in RxStates /\ U!State.rx = rx /\ U!State.dma = U!Unused /\ U!State.app = app
  BY <1>1, <1>3, <1>4, <1>6 DEF U!State, RxStates
<1>9. RxOwned(U!State)
  BY <1>2, <1>3, <1>5, <1>6, <1>7, <1>8 DEF RxOwned
<1>10. RxCounted(U!State)
  BY <1>3, <1>4, <1>5, <1>6, <1>8 DEF RxCounted, U!Pending
<1>11. RxExact(U!State)
  BY <1>4, <1>5, <1>6, <1>7, <1>8 DEF RxExact, U!CanBeat
<1>12. TxSound
  BY <1>1, <1>4, <1>5, <1>6 DEF TxSound
<1>13. RestTyped
  BY <1>1, <1>4 DEF RestTyped, TxRecs, U!NoTx, Mine
<1> QED BY <1>8, <1>9, <1>10, <1>11, <1>12, <1>13 DEF UartInv, RxGood

(* The asynchronous UART: every receive buffer has one owner, until a DMA   *)
(* error the channel fills the current buffer and the driver knows how far, *)
(* and the transmit record names the buffer the application waits for.      *)
THEOREM UartIsSound == U!Spec => []UartInv
<1>1. UartInv /\ [U!Next]_(U!vars) => UartInv'
  <2> SUFFICES ASSUME UartInv, [U!Next]_(U!vars) PROVE UartInv'
    OBVIOUS
  <2>1. CASE UNCHANGED U!vars
    <3>1. UNCHANGED <<rx, rxDma, timeoutOn, lineOn, fresh, app, rsp, tx, txDma, txPc, txDue>>
      BY <2>1 DEF U!vars, U!rxVars, U!txVars
    <3>2. U!State' = U!State
      BY <3>1 DEF U!State
    <3>3. TxSound' /\ RestTyped'
      BY <3>1 DEF UartInv, TxSound, RestTyped
    <3> QED BY <3>2, <3>3 DEF UartInv
  <2>2. CASE U!IrqRxEnable
    <3>1. UNCHANGED <<rx, rxDma, app, fresh, rsp, tx, txDma, txPc, txDue>> /\ timeoutOn' = TRUE /\ lineOn' = TRUE
      BY <2>2 DEF U!IrqRxEnable, U!txVars
    <3>2. U!State' = U!State
      BY <3>1 DEF U!State
    <3>3. TxSound' /\ RestTyped'
      BY <3>1 DEF UartInv, TxSound, RestTyped
    <3> QED BY <3>2, <3>3 DEF UartInv
  <2>3. CASE U!Next /\ ~U!IrqRxEnable
    BY <2>3, UartRxEnable, UartRxDisable, UartRsp, UartTxCalls, UartByteIn, UartMoves, UartTimeout,
       UartRxDma, UartTxDma DEF U!Next
  <2> QED BY <2>1, <2>2, <2>3
<1> QED BY <1>1, UartInit, PTL DEF U!Spec

(* The DMA writes into no buffer the application has back, and a buffer it  *)
(* does not have is with the driver.                                        *)
THEOREM BuffersStaySafe == Spec => []RxBuffersAreSafe
<1>1. UartInv => RxBuffersAreSafe
  <2> SUFFICES ASSUME UartInv PROVE RxBuffersAreSafe
    OBVIOUS
  <2>1. /\ RxOwned(U!State) /\ RxExact(U!State) /\ U!State.rx = rx /\ U!State.dma = rxDma /\ U!State.app = app
    BY UartNowIs
  <2>2. U!BuffersAccounted
    BY <2>1 DEF RxOwned, U!BuffersAccounted
  <2>3. U!NoStrayWrite
    BY <2>1 DEF RxOwned, RxExact, U!NoStrayWrite
  <2> QED BY <2>2, <2>3 DEF RxBuffersAreSafe
<1> QED BY <1>1, UartIsSound, UnionIsEach, PTL

(* Every byte is reported once, in order and after it was written, and a    *)
(* transmission is reported with its own buffer.                            *)
THEOREM ReportsStayExact == Spec => []ReportsAreExact
<1>1. UartInv => ReportsAreExact
  BY UartNowIs DEF UartInv, TxSound, RxExact, ReportsAreExact, U!ReportsAreExact, U!TxDoneIsOwn
<1> QED BY <1>1, UartIsSound, UnionIsEach, PTL

(* The state of both drivers has its type.                                  *)
THEOREM SerialIsTyped == Spec => []TypeOK
<1>1. UartInv => U!TypeOK
  <2> SUFFICES ASSUME UartInv PROVE U!TypeOK
    OBVIOUS
  <2>1. /\ U!State.rx = rx /\ U!State.dma = rxDma /\ U!State.app = app
        /\ rx \in RxRecs /\ rxDma \in U!Channels(Buffers, BufLen) /\ app \in AppRecs
    BY UartNowIs, RxStateIs
  <2>2. tx.buf \in TxBufs \cup {NoBuf} /\ tx.len \in {0, TxLen}
    BY DEF UartInv, RestTyped, TxRecs
  <2> QED BY <2>1, <2>2 DEF UartInv, RestTyped, U!TypeOK, RxRecs, AppRecs, Mine
<1>2. UdcInv => E!TypeOK
  <2> SUFFICES ASSUME UdcInv PROVE E!TypeOK
    OBVIOUS
  <2>1. ep \in Eps /\ stack \in Apps /\ odd \subseteq {"stale", "live", "eio", "dead"} /\ E!IsInjective(ep.fifo)
    BY NowIs
  <2>2. E!ToSet(ep.fifo) \subseteq Bufs
    BY NowIs, Elements
  <2>3. ep.busy \in BOOLEAN /\ ep.stall \in BOOLEAN
    BY <2>1 DEF Eps
  <2>4. ep.hw \in {E!NoXfer} \cup {E!Data(b) : b \in Bufs} \cup {E!Zlp(b) : b \in Bufs}
    BY <2>1 DEF Eps, Xfers
  <2> QED BY <2>1, <2>2, <2>3, <2>4 DEF UdcInv, E!TypeOK, Apps, InCall
<1> QED BY <1>1, <1>2, UartIsSound, UdcIsSound, UnionIsEach, PTL DEF TypeOK
===============================================================================
