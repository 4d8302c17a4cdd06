---------------------------------- MODULE Pwm ----------------------------------
(***************************************************************************)
(* drivers/pwm/pwm_hpmicro.c: what set_cycles programs.  The channels of a   *)
(* version 1 controller share one reload register, those of version 2 one    *)
(* per pair.  Calls on one controller are not serialised by the driver, nor  *)
(* here interleaved.  A register pair <<ext, n>> counts n cycles, ext + 1     *)
(* times over, as the division at 86-88 says.                               *)
(***************************************************************************)
EXTENDS Integers, FiniteSets

CONSTANTS
  Channels,     \* channel numbers
  Periods,      \* periods asked for, in cycles
  Pulses,       \* pulses asked for
  Limit,        \* 0xffffff, the widest count
  MaxExt,       \* 16, the largest extension
  ResetReload,  \* the reload value of the device tree's period
  MaxUsed       \* bound: channels in use at a time

VARIABLES
  pwmGen,       \* version of the controller
  reload,       \* per counter: <<extension, count>> of its reload register
  wave,         \* per channel: how it is set up, and its compare value
  four,         \* version 2: even channels in four-compare mode
  live,         \* version 2: channels whose compare values have taken effect
  asked,        \* per channel: the last request that returned 0
  pwmOdd        \* history: <<channel, what the property excuses>>

pwmVars == <<pwmGen, reload, wave, four, live, asked, pwmOdd>>

pair == <<four, live>>
Odds  == {"unset", "shared", "split", "early"}
Modes == {"unset", "trigger", "normal", "inverted"}
NoRequest == [period |-> 0, pulse |-> 0, mode |-> "unset"]

Counter(c) == IF pwmGen = 1 THEN 0 ELSE c \div 2
Siblings(c) == {d \in Channels : Counter(d) = Counter(c)}
Even(c) == 2 * (c \div 2)       \* the even channel of c's pair

TypeOK ==
    /\ pwmGen \in {1, 2} /\ reload \in [Channels -> (0 .. MaxExt) \X (0 .. Limit)]
    /\ wave \in [Channels -> [mode : Modes, ext : 0 .. MaxExt, cmp : Nat]]
    /\ asked \in [Channels -> [period : Periods \cup {0}, pulse : Nat, mode : Modes]]
    /\ four \subseteq {Even(c) : c \in Channels} /\ live \subseteq Channels
    /\ pwmOdd \subseteq Nat \X Odds

Init ==
    /\ pwmGen \in {1, 2}
    /\ reload = [c \in Channels |-> IF pwmGen = 1 THEN <<0, ResetReload>> ELSE <<0, 0>>]
    /\ wave = [c \in Channels |-> [mode |-> "unset", ext |-> 0, cmp |-> 0]]
    /\ four = {} /\ live = {} /\ asked = [c \in Channels |-> NoRequest] /\ pwmOdd = {}

(* The least extension with which a count fits: rld, xrld and rld_cmp,      *)
(* xrld_cmp are looked for apart from one another.                          *)
Fits(n, from) == {i \in from .. MaxExt : n \div (i + 1) <= Limit}
Split(n, from) ==
    LET i == CHOOSE i \in Fits(n, from) : \A j \in Fits(n, from) : i <= j IN <<i, n \div (i + 1)>>
BugReloadOf(period) == <<0, period>>        \* never extended
ReloadOf(period) == IF period > Limit THEN Split(period, 1) ELSE <<0, period>>

Cycles(r) == (r[1] + 1) * r[2]
Supported(period) == IF pwmGen = 1 THEN period <= Limit \/ Fits(period, 1) # {} ELSE period <= Limit

SetReload(c, r) == reload' = [d \in Channels |-> IF d \in Siblings(c) THEN r ELSE reload[d]]
(* Changing the reload register changes the period of the other channels.   *)
Shared(c, r) == {<<d, "shared">> : d \in {d \in Siblings(c) \ {c} : reload[d] # r}}

Remembered(c, q, gone, odd) ==
    /\ asked' = [asked EXCEPT ![c] = q]
    /\ pwmOdd' = (pwmOdd \ (({c} \X Odds) \cup gone)) \cup odd \cup Shared(c, reload'[c])

(* set_cycles of version 1: output, polarity and waveform are set up only   *)
(* when the reload value is a new one.                                      *)
BugUpdated(q) == <<0, q.pulse>>
Updated(q)    == Split(q.period - q.pulse, 0)

SetCycles1(c, q) ==
    LET r == ReloadOf(q.period)  now == Updated(q)
        mode == IF r = reload[c] THEN wave[c].mode ELSE q.mode IN
    /\ pwmGen = 1 /\ Supported(q.period)
    /\ SetReload(c, r)
    /\ wave' = [wave EXCEPT ![c] = [mode |-> mode, ext |-> now[1], cmp |-> now[2]]]
    /\ Remembered(c, q, {}, (IF mode = q.mode THEN {} ELSE {<<c, "unset">>})
                            \cup (IF q.period - q.pulse <= r[2] THEN {} ELSE {<<c, "split">>}))
    /\ UNCHANGED pair

(* The waveform is refused after the reload register was written.           *)
SetupFails(c, period) ==
    LET r == ReloadOf(period) IN
    /\ pwmGen = 1 /\ Supported(period) /\ r # reload[c]
    /\ SetReload(c, r) /\ UNCHANGED <<wave, pair, asked>>
    /\ pwmOdd' = pwmOdd \cup Shared(c, r) \cup {<<c, "shared">>}

(* PWM_TRIG_ENABLE turns the channel's compare into a trigger.              *)
Trigger(c, period) ==
    /\ pwmGen = 1
    /\ wave' = [wave EXCEPT ![c] = [mode |-> "trigger", ext |-> 0, cmp |-> period + 1]]
    /\ asked' = [asked EXCEPT ![c] = NoRequest] /\ pwmOdd' = pwmOdd \ ({c} \X Odds)
    /\ UNCHANGED <<reload, pair>>

(* set_cycles of version 2 sets everything up at every call.  An even       *)
(* channel leaves four-compare mode; an odd one puts the even channel of    *)
(* its pair in that mode when that channel's compare still has its reset    *)
(* value, which new values replace only when the counter reloads.           *)
BugFour(c) == IF c = Even(c) THEN four ELSE four \cup {Even(c)}
Four(c) == IF c # Even(c) /\ Even(c) \notin live THEN four \cup {Even(c)} ELSE four \ {Even(c)}
Early(c) == {<<d, "early">> : d \in {d \in (Channels \cap {Even(c)}) \ ({c} \cup live) : asked[d] # NoRequest}}

SetCycles2(c, q) ==
    /\ pwmGen = 2 /\ c <= 7 /\ Supported(q.period)
    /\ SetReload(c, <<0, q.period>>)
    /\ wave' = [wave EXCEPT ![c] = [mode |-> q.mode, ext |-> 0, cmp |-> q.period - q.pulse]]
    /\ four' = Four(c) /\ UNCHANGED live
    /\ Remembered(c, q, {<<Even(c), "early">>}, Early(c))

Reloads(c) ==
    /\ pwmGen = 2 /\ live' = live \cup {d \in Siblings(c) : asked[d] # NoRequest} /\ live' # live
    /\ UNCHANGED <<pwmGen, reload, wave, four, asked, pwmOdd>>

Requests(period) == [period : {period}, pulse : Pulses \cap (0 .. period), mode : {"normal", "inverted"}]
InUse(c) == {d \in Channels : asked[d] # NoRequest} \cup {c}
SetCycles(c) == \E period \in Periods :
    /\ Cardinality(InUse(c)) <= MaxUsed
    /\ UNCHANGED pwmGen
    /\ \/ \E q \in Requests(period) : SetCycles1(c, q) \/ SetCycles2(c, q)
       \/ SetupFails(c, period) \/ Trigger(c, period)

Next == \E c \in Channels : SetCycles(c) \/ Reloads(c)

Spec == Init /\ [][Next]_pwmVars
-------------------------------------------------------------------------------
AsAsked(c, q) ==
    /\ <<c, "unset">> \in pwmOdd \/ wave[c].mode = q.mode
    /\ <<c, "shared">> \in pwmOdd \/ q.period - Cycles(reload[c]) \in 0 .. reload[c][1]
    /\ \/ <<c, "shared">> \in pwmOdd \/ <<c, "split">> \in pwmOdd
       \/ /\ wave[c].ext <= reload[c][1] /\ wave[c].cmp <= reload[c][2]
          /\ wave[c].ext * reload[c][2] + wave[c].cmp = q.period - q.pulse
PairMode(c) ==
    IF c = Even(c) THEN c \notin four \/ <<c, "early">> \in pwmOdd
    ELSE Even(c) \in four \/ \E d \in Siblings(c) \ {c} : asked[d] # NoRequest

(* A request that returned 0 is what the channel does, whatever was asked   *)
(* of the other channels before and after: its polarity, its period but for *)
(* the remainder of the division by the counter's rounds, and the edge of   *)
(* its pulse to the cycle.  Excused are the set-up that was skipped because *)
(* the reload value was already there ("unset"), the period another channel *)
(* of the counter changed since ("shared"), and the edge of a pulse that    *)
(* starts after the first round of the counter ("split"): extension and     *)
(* count of the compare are looked for apart from those of the period, and  *)
(* the count may be one the counter never reaches.  An odd channel has its  *)
(* pair in four-compare mode while the even channel is not in use, and an   *)
(* even channel in use has not, unless the odd channel was set up before    *)
(* the even one's values took effect ("early").                             *)
PwmOkMeansApplied ==
    \A c \in Channels : asked[c] # NoRequest => AsAsked(c, asked[c]) /\ (pwmGen = 2 => PairMode(c))
===============================================================================
