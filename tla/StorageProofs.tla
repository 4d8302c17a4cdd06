----------------------------- MODULE StorageProofs -----------------------------
(***************************************************************************)
(* Theorems about the drivers of MCStorage: the SD host controller, the     *)
(* flash and the control endpoint of USB.                                   *)
(***************************************************************************)
EXTENDS MCStorage, SequenceTheorems, TLAPS

vars == <<driver, requestVars, ioVars, eventVars, flashVars, ctrlVars>>

(* A behaviour of the union is a behaviour of each of its drivers.          *)
THEOREM UnionIsEach ==
  Spec => /\ R!Spec /\ I!Spec /\ E!Spec /\ F!Spec
          /\ C!Init /\ [][C!Next]_(C!ctrlVars)
<1>1. Init => R!Init /\ I!Init /\ E!Init /\ F!Init /\ C!Init
  BY DEF Init
<1>2. [Next]_vars => /\ [R!Next]_(R!sdhcVars) /\ [I!Next]_(I!ioVars) /\ [E!Next]_(E!eventVars)
                     /\ [F!Next]_(F!flashVars) /\ [C!Next]_(C!ctrlVars)
  BY DEF Next, vars, requestVars, ioVars, eventVars, flashVars, ctrlVars,
         R!sdhcVars, I!ioVars, E!eventVars, F!flashVars, C!ctrlVars, C!hist
<1> QED BY <1>1, <1>2, PTL DEF Spec, R!Spec, I!Spec, E!Spec, F!Spec, vars
-------------------------------------------------------------------------------
(* SdhcEvents.  Without a detect pin what is wanted is enabled; a callback  *)
(* that is not there wants nothing; callback and data differ only between   *)
(* the two assignments, and then nothing is live unless it was before.      *)
Wanted ==
    /\ ~detectGpio => want \subseteq en
    /\ detectGpio => pending \subseteq {"pin", "sdio"} /\ en \subseteq {"sdio"}
    /\ cb = NoClient => en = {}

Registered ==
    /\ enabling.step # "idle" => cb = enabling.client /\ enabling.client \in Clients
    /\ enabling.step # "data" => cb = cbData
    /\ enabling.step = "data" /\ "tornLive" \notin wrong => pending = {} /\ en = {} /\ edge = "off"

EventsInv == E!TypeOK /\ Wanted /\ Registered /\ E!EventsReachTheirClient

LEMMA EventsInit == E!Init => EventsInv
<1> SUFFICES ASSUME E!Init PROVE EventsInv
  OBVIOUS
<1>1. /\ detectGpio \in BOOLEAN /\ inserted = FALSE /\ cb = NoClient /\ cbData = NoClient /\ en = {}
      /\ edge = "off" /\ pending = {} /\ isr = {} /\ enabling = E!Idle /\ want = {} /\ wrong = {}
  BY DEF E!Init
<1>2. E!TypeOK
  BY <1>1 DEF E!TypeOK, E!Idle
<1>3. Wanted /\ Registered /\ E!EventsReachTheirClient
  BY <1>1 DEF E!Idle, Wanted, Registered, E!EventsReachTheirClient
<1> QED BY <1>2, <1>3 DEF EventsInv

LEMMA EventsStep == EventsInv /\ [E!Next]_(E!eventVars) => EventsInv'
<1> SUFFICES ASSUME EventsInv, [E!Next]_(E!eventVars) PROVE EventsInv'
  OBVIOUS
<1> USE EventsAssumption DEF EventsAssumption, E!Sources
<1>1. CASE E!EnableCallback
  <2>1. PICK c \in Clients, s \in SUBSET E!Sources :
           enabling' = [step |-> "data", client |-> c, sources |-> s] /\ cb' = c
    BY <1>1 DEF E!EnableCallback
  <2>2. /\ wrong' = (IF cb # NoClient \/ edge # "off" \/ pending # {} THEN wrong \cup {"tornLive"} ELSE wrong)
        /\ detectGpio' = detectGpio /\ inserted' = inserted /\ cbData' = cbData /\ en' = en /\ edge' = edge
        /\ pending' = pending /\ isr' = isr /\ want' = want
    BY <1>1 DEF E!EnableCallback
  <2>3. E!TypeOK'
    BY <2>1, <2>2 DEF EventsInv, E!TypeOK
  <2>4. Wanted'
    BY <2>1, <2>2 DEF EventsInv, Wanted
  <2>5. Registered'
    BY <2>1, <2>2 DEF EventsInv, Wanted, Registered
  <2>6. E!EventsReachTheirClient'
    BY <2>2 DEF EventsInv, E!EventsReachTheirClient
  <2> QED BY <2>3, <2>4, <2>5, <2>6 DEF EventsInv
<1>2. CASE E!EnableData
  <2> DEFINE e == [enabling EXCEPT !.step = "sources"]
  <2>1. /\ enabling.step = "data" /\ cbData' = enabling.client /\ enabling' = e
        /\ detectGpio' = detectGpio /\ inserted' = inserted /\ cb' = cb /\ en' = en /\ edge' = edge
        /\ pending' = pending /\ isr' = isr /\ want' = want /\ wrong' = wrong
    BY <1>2 DEF E!EnableData
  <2>2. e \in [step : {"idle", "data", "sources"}, client : Clients \cup {NoClient}, sources : SUBSET E!Sources]
        /\ e.step = "sources" /\ e.client = enabling.client
    BY DEF EventsInv, E!TypeOK
  <2> HIDE DEF e
  <2>3. E!TypeOK'
    BY <2>1, <2>2 DEF EventsInv, E!TypeOK
  <2>4. Wanted' /\ Registered' /\ E!EventsReachTheirClient'
    BY <2>1, <2>2 DEF EventsInv, Wanted, Registered, E!EventsReachTheirClient
  <2> QED BY <2>3, <2>4 DEF EventsInv
<1>3. CASE E!EnableSources
  <2> DEFINE s == enabling.sources
             on == s \ (IF detectGpio THEN {"in", "out"} ELSE {})
             pin == IF ~detectGpio \/ s \cap {"in", "out"} = {} THEN edge
                    ELSE IF "out" \in s THEN "out" ELSE "in"
  <2>1. /\ enabling.step = "sources" /\ enabling' = E!Idle /\ want' = s /\ en' = on /\ edge' = pin
        /\ detectGpio' = detectGpio /\ inserted' = inserted /\ cb' = cb /\ cbData' = cbData
        /\ pending' = pending /\ isr' = isr /\ wrong' = wrong
    BY <1>3 DEF E!EnableSources
  <2>2. s \in SUBSET E!Sources /\ on \in SUBSET E!Sources /\ pin \in {"off", "in", "out"}
        /\ (~detectGpio => s \subseteq on) /\ (detectGpio => on \subseteq {"sdio"})
    BY DEF EventsInv, E!TypeOK
  <2> HIDE DEF s, on, pin
  <2>3. E!TypeOK'
    BY <2>1, <2>2 DEF EventsInv, E!TypeOK, E!Idle
  <2>4. Wanted'
    BY <2>1, <2>2 DEF EventsInv, Wanted, Registered
  <2>5. Registered' /\ E!EventsReachTheirClient'
    BY <2>1 DEF EventsInv, Registered, E!Idle, E!EventsReachTheirClient
  <2> QED BY <2>3, <2>4, <2>5 DEF EventsInv
<1>4. ASSUME NEW s \in SUBSET E!Sources, E!Disable(s) PROVE EventsInv'
  <2> DEFINE pin == IF detectGpio /\ s \cap {"in", "out"} # {} THEN "off" ELSE edge
  <2>1. /\ enabling = E!Idle /\ en' = en \ s /\ want' = want \ s /\ edge' = pin
        /\ detectGpio' = detectGpio /\ inserted' = inserted /\ enabling' = enabling
        /\ pending' = pending /\ isr' = isr /\ wrong' = wrong
    BY <1>4 DEF E!Disable
  <2>2. \/ en' = {} /\ cb' = NoClient /\ cbData' = NoClient
        \/ en' # {} /\ cb' = cb /\ cbData' = cbData
    BY <1>4 DEF E!Disable
  <2>3. pin \in {"off", "in", "out"}
    BY DEF EventsInv, E!TypeOK
  <2> HIDE DEF pin
  <2>4. E!TypeOK'
    BY <2>1, <2>2, <2>3 DEF EventsInv, E!TypeOK
  <2>5. Wanted'
    BY <2>1, <2>2 DEF EventsInv, Wanted
  <2>6. Registered' /\ E!EventsReachTheirClient'
    BY <2>1, <2>2 DEF EventsInv, Registered, E!Idle, E!EventsReachTheirClient
  <2> QED BY <2>4, <2>5, <2>6 DEF EventsInv
<1>5. ASSUME NEW s \in SUBSET E!Sources, E!DisableFails(s) PROVE EventsInv'
  <2>1. /\ enabling = E!Idle /\ en' = en \ s /\ want' = want \ s /\ edge' \in {edge, "off"}
        /\ detectGpio /\ detectGpio' = detectGpio /\ inserted' = inserted /\ enabling' = enabling
        /\ pending' = pending /\ isr' = isr /\ wrong' = wrong /\ cb' = cb /\ cbData' = cbData
    BY <1>5 DEF E!DisableFails
  <2>2. E!TypeOK'
    BY <2>1 DEF EventsInv, E!TypeOK
  <2>3. Wanted'
    BY <2>1 DEF EventsInv, Wanted
  <2>4. Registered' /\ E!EventsReachTheirClient'
    BY <2>1 DEF EventsInv, Registered, E!Idle, E!EventsReachTheirClient
  <2> QED BY <2>2, <2>3, <2>4 DEF EventsInv
<1>6. CASE E!EnableFails
  <2> DEFINE on == enabling.sources \ {"in", "out"}
  <2>1. /\ enabling.step = "sources" /\ enabling' = E!Idle /\ want' = {} /\ en' = on /\ edge' \in {edge, "in"}
        /\ detectGpio /\ detectGpio' = detectGpio /\ inserted' = inserted /\ cb' = cb /\ cbData' = cbData
        /\ pending' = pending /\ isr' = isr /\ wrong' = wrong
    BY <1>6 DEF E!EnableFails
  <2>2. on \in SUBSET {"sdio"}
    BY DEF EventsInv, E!TypeOK
  <2> HIDE DEF on
  <2>3. E!TypeOK'
    BY <2>1, <2>2 DEF EventsInv, E!TypeOK, E!Idle
  <2>4. Wanted'
    BY <2>1, <2>2 DEF EventsInv, Wanted, Registered
  <2>5. Registered' /\ E!EventsReachTheirClient'
    BY <2>1 DEF EventsInv, Registered, E!Idle, E!EventsReachTheirClient
  <2> QED BY <2>3, <2>4, <2>5 DEF EventsInv
<1>7. CASE E!CardMoves
  <2> DEFINE event == IF inserted THEN "out" ELSE "in"
             seen  == IF detectGpio THEN edge = event ELSE event \in en
             flag  == IF detectGpio THEN "pin" ELSE event
  <2>1. /\ inserted' = ~inserted
        /\ pending' = (IF seen THEN pending \cup {flag} ELSE pending)
        /\ wrong' = (IF enabling = E!Idle /\ event \in want /\ ~seen /\ ~detectGpio
                     THEN wrong \cup {"missed"} ELSE wrong)
        /\ detectGpio' = detectGpio /\ cb' = cb /\ cbData' = cbData /\ en' = en /\ edge' = edge
        /\ enabling' = enabling /\ want' = want /\ isr' = isr
    BY <1>7 DEF E!CardMoves
  <2>2. event \in {"in", "out"} /\ flag \in {"pin", "in", "out"} /\ (detectGpio => flag = "pin")
        /\ (~detectGpio /\ event \in want => seen)
    BY DEF EventsInv, Wanted
  <2>3. enabling.step = "data" /\ "tornLive" \notin wrong => ~seen
    BY <2>2 DEF EventsInv, Registered
  <2> HIDE DEF event, seen, flag
  <2>4. inserted' \in BOOLEAN
    BY <2>1
  <2>5. wrong' = wrong
    BY <2>1, <2>2
  <2>6. E!TypeOK'
    BY <2>1, <2>2, <2>4, <2>5 DEF EventsInv, E!TypeOK
  <2>7. Wanted'
    BY <2>1, <2>2 DEF EventsInv, Wanted
  <2>8. Registered'
    BY <2>1, <2>3, <2>5 DEF EventsInv, Registered
  <2>9. E!EventsReachTheirClient'
    BY <2>5 DEF EventsInv, E!EventsReachTheirClient
  <2> QED BY <2>6, <2>7, <2>8, <2>9 DEF EventsInv
<1>8. CASE E!CardInterrupt
  <2>1. /\ "sdio" \in en /\ pending' = pending \cup {"sdio"} /\ isr' = isr
        /\ detectGpio' = detectGpio /\ inserted' = inserted /\ cb' = cb /\ cbData' = cbData /\ en' = en
        /\ edge' = edge /\ enabling' = enabling /\ want' = want /\ wrong' = wrong
    BY <1>8 DEF E!CardInterrupt
  <2>2. E!TypeOK'
    BY <2>1 DEF EventsInv, E!TypeOK
  <2>3. Wanted' /\ Registered' /\ E!EventsReachTheirClient'
    BY <2>1 DEF EventsInv, Wanted, Registered, E!EventsReachTheirClient
  <2> QED BY <2>2, <2>3 DEF EventsInv
<1>9. CASE E!Isr
  <2> DEFINE torn == IF cb # NoClient /\ cb # cbData /\ pending \cap {"in", "out"} # {} THEN {"torn"} ELSE {}
             missed == IF cb = NoClient /\ pending \cap want \cap {"in", "out"} # {} THEN {"missed"} ELSE {}
  <2>1. /\ pending \cap en # {} /\ isr' = pending \ {"pin"} /\ wrong' = wrong \cup torn \cup missed
        /\ detectGpio' = detectGpio /\ inserted' = inserted /\ cb' = cb /\ cbData' = cbData /\ en' = en
        /\ edge' = edge /\ enabling' = enabling /\ want' = want /\ pending' = pending
    BY <1>9 DEF E!Isr
  <2>2. missed = {}
    BY <2>1 DEF EventsInv, Wanted
  <2>3. torn # {} => "tornLive" \in wrong
    BY <2>1 DEF EventsInv, Registered
  <2>4. torn \in SUBSET {"torn"}
    OBVIOUS
  <2> HIDE DEF torn, missed
  <2>5. E!TypeOK'
    BY <2>1, <2>2, <2>4 DEF EventsInv, E!TypeOK
  <2>6. Wanted' /\ Registered'
    BY <2>1 DEF EventsInv, Wanted, Registered
  <2>7. E!EventsReachTheirClient'
    BY <2>1, <2>2, <2>3, <2>4 DEF EventsInv, E!EventsReachTheirClient
  <2> QED BY <2>5, <2>6, <2>7 DEF EventsInv
<1>10. CASE E!IsrClears
  <2>1. /\ pending' = pending \ isr /\ isr' = {}
        /\ detectGpio' = detectGpio /\ inserted' = inserted /\ cb' = cb /\ cbData' = cbData /\ en' = en
        /\ edge' = edge /\ enabling' = enabling /\ want' = want /\ wrong' = wrong
    BY <1>10 DEF E!IsrClears
  <2>2. E!TypeOK'
    BY <2>1 DEF EventsInv, E!TypeOK
  <2>3. Wanted' /\ Registered' /\ E!EventsReachTheirClient'
    BY <2>1 DEF EventsInv, Wanted, Registered, E!EventsReachTheirClient
  <2> QED BY <2>2, <2>3 DEF EventsInv
<1>11. CASE E!CardDetectGpioCb
  <2>1. /\ "pin" \in pending /\ pending' = pending \ {"pin"} /\ isr' = isr
        /\ wrong' = (IF cb # NoClient /\ cb # cbData THEN wrong \cup {"torn"} ELSE wrong)
        /\ detectGpio' = detectGpio /\ inserted' = inserted /\ cb' = cb /\ cbData' = cbData /\ en' = en
        /\ edge' = edge /\ enabling' = enabling /\ want' = want
    BY <1>11 DEF E!CardDetectGpioCb
  <2>2. cb # NoClient /\ cb # cbData => "tornLive" \in wrong
    BY <2>1 DEF EventsInv, Registered
  <2>3. E!TypeOK'
    BY <2>1 DEF EventsInv, E!TypeOK
  <2>4. Wanted'
    BY <2>1 DEF EventsInv, Wanted
  <2>5. Registered' /\ E!EventsReachTheirClient'
    BY <2>1, <2>2 DEF EventsInv, Registered, E!EventsReachTheirClient
  <2> QED BY <2>3, <2>4, <2>5 DEF EventsInv
<1>12. CASE UNCHANGED E!eventVars
  BY <1>12 DEF E!eventVars, EventsInv, E!TypeOK, Wanted, Registered, E!EventsReachTheirClient
<1> QED BY <1>1, <1>2, <1>3, <1>4, <1>5, <1>6, <1>7, <1>8, <1>9, <1>10, <1>11, <1>12 DEF E!Next

(* Card events: with the controller's own sources every wanted insertion    *)
(* and removal reaches the client (hpm_sdhc_isr), and a callback gets its   *)
(* own user data unless it was registered with sources live, for any number *)
(* of clients.                                                              *)
THEOREM EventsReach == Spec => []EventsReachTheirClient
<1>1. E!Spec => []EventsInv
  BY EventsInit, EventsStep, PTL DEF E!Spec
<1>2. EventsInv => EventsReachTheirClient
  BY DEF EventsInv, EventsReachTheirClient
<1> QED BY <1>1, <1>2, UnionIsEach, PTL
-------------------------------------------------------------------------------
(* SdhcIo.  What hpm_sdhc_set_io works on, and what every stage keeps: what *)
(* host_io remembers is what the hardware does, whether or not the stage    *)
(* fails, but for what a change given up half done leaves behind.           *)
IoRecs == [clock : Clocks, width : I!Widths, volt : I!Volts \cup {"unset"}, power : I!Powers, timing : I!Timings]
HwRecs == [clock : Clocks \cup {FMin}, width : I!Widths, volt : I!Volts, running : BOOLEAN,
           pin : I!Powers, bus : I!Powers, pads : {"default", "slow", "fast"}]
Works  == [io : IoRecs, hw : HwRecs, gaveUp : SUBSET {"clock", "switch"}, ok : BOOLEAN]

Applied(io, h, gone) ==
    /\ h.width = io.width
    /\ io.power = IF PowerGpio THEN h.pin ELSE h.bus
    /\ (io.timing # "legacy" /\ I!Pads(io.timing) \in PadStates) => h.pads = I!Pads(io.timing)
    /\ (io.clock # 0 /\ "clock" \notin gone) => h.clock = io.clock
    /\ (io.volt # "unset" /\ "switch" \notin gone) => h.volt = io.volt
    /\ gone = {} => h.running

Stage(s, r) == r \in Works /\ Applied(r.io, r.hw, r.gaveUp)
               /\ (r.ok => s.ok)
               /\ (r.io.volt = "unset" => s.io.volt = "unset")

IoInv == /\ I!TypeOK /\ Applied(hostIo, hw, gaveUp)
         /\ lastRet = "ok" => hostIo.volt # "unset"

LEMMA IoInit == I!Init => IoInv
<1> SUFFICES ASSUME I!Init PROVE IoInv
  OBVIOUS
<1>1. I!TypeOK
  BY IoAssumption DEF IoAssumption, I!Init, I!TypeOK, I!Widths, I!Volts, I!Powers, I!Timings
<1>2. Applied(hostIo, hw, gaveUp)
  BY DEF I!Init, Applied
<1> QED BY <1>1, <1>2 DEF IoInv, I!Init

(* A stage that changes the two records and nothing else.                   *)
LEMMA IoWork ==
  ASSUME NEW s \in Works, NEW io \in IoRecs, NEW h \in HwRecs, NEW ok \in BOOLEAN, NEW gone \in SUBSET {"clock", "switch"},
         NEW r, r = [io |-> io, hw |-> h, gaveUp |-> gone, ok |-> ok], ok => s.ok,
         Applied(io, h, gone), io.volt = "unset" => s.io.volt = "unset"
  PROVE  Stage(s, r)
BY DEF Works, Stage

(* A stage that fails before it changes anything, or is not reached.        *)
LEMMA IoRefused ==
  ASSUME NEW s \in Works, Applied(s.io, s.hw, s.gaveUp), NEW r, r = s \/ r = [s EXCEPT !.ok = FALSE]
  PROVE  Stage(s, r)
<1>1. CASE r = s
  BY <1>1 DEF Stage
<1>2. CASE r = [s EXCEPT !.ok = FALSE]
  <2>1. r = [io |-> s.io, hw |-> s.hw, gaveUp |-> s.gaveUp, ok |-> FALSE]
    BY <1>2 DEF Works
  <2>2. s.io \in IoRecs /\ s.hw \in HwRecs /\ s.gaveUp \in SUBSET {"clock", "switch"}
    BY DEF Works
  <2>3. r \in Works /\ r.io = s.io /\ r.hw = s.hw /\ r.gaveUp = s.gaveUp
    BY <2>1, <2>2 DEF Works
  <2>4. ~r.ok
    BY <2>1
  <2> QED BY <2>3, <2>4 DEF Stage
<1> QED BY <1>1, <1>2

LEMMA IoClock ==
  ASSUME NEW s \in Works, Applied(s.io, s.hw, s.gaveUp), NEW ios \in I!Settings, NEW trouble
  PROVE  Stage(s, I!SetClock(s, ios, trouble))
<1> DEFINE r == I!SetClock(s, ios, trouble)
<1>0. s.io \in IoRecs /\ s.hw \in HwRecs /\ s.gaveUp \in SUBSET {"clock", "switch"} /\ s.ok \in BOOLEAN
      /\ ios.clock \in Clocks
  BY DEF Works, I!Settings
<1>1. CASE ~s.ok \/ s.io.clock = ios.clock
  <2>1. r = s
    BY <1>1 DEF I!SetClock
  <2> QED BY <2>1, IoRefused
<1>2. CASE s.ok /\ s.io.clock # ios.clock /\ ios.clock = 0
  <2> DEFINE io == [s.io EXCEPT !.clock = 0]
  <2>1. r = [s EXCEPT !.io.clock = 0]
    BY <1>2 DEF I!SetClock
  <2>2. r = [io |-> io, hw |-> s.hw, gaveUp |-> s.gaveUp, ok |-> s.ok]
    BY <2>1 DEF Works
  <2>3. io \in IoRecs
    BY <1>0, <1>2 DEF IoRecs
  <2>4. Applied(io, s.hw, s.gaveUp) /\ io.volt = s.io.volt
    BY <1>0, <2>3 DEF Applied, IoRecs
  <2> HIDE DEF io, r
  <2> QED BY <1>0, <2>2, <2>3, <2>4, IoWork DEF r
<1>3. CASE s.ok /\ s.io.clock # ios.clock /\ ios.clock # 0 /\ trouble = "clock"
  <2> DEFINE c == ios.clock
             gone == s.gaveUp \cup {"clock"}
             h == [s.hw EXCEPT !.clock = c, !.running = FALSE]
  <2>1. r = [s EXCEPT !.ok = FALSE, !.gaveUp = @ \cup {"clock"}, !.hw.clock = c, !.hw.running = FALSE]
    BY <1>3 DEF I!SetClock
  <2>2. r = [io |-> s.io, hw |-> h, gaveUp |-> gone, ok |-> FALSE]
    BY <2>1 DEF Works
  <2>3. h \in HwRecs /\ gone \in SUBSET {"clock", "switch"} /\ "clock" \in gone
        /\ ("switch" \notin gone => "switch" \notin s.gaveUp)
    BY <1>0 DEF HwRecs
  <2>4. /\ h.width = s.hw.width /\ h.volt = s.hw.volt /\ h.pin = s.hw.pin /\ h.bus = s.hw.bus
        /\ h.pads = s.hw.pads
    BY <1>0 DEF HwRecs
  <2> HIDE DEF h, gone
  <2>5. Applied(s.io, h, gone)
    BY <2>3, <2>4 DEF Applied
  <2> HIDE DEF r
  <2> QED BY <1>0, <2>2, <2>3, <2>5, IoWork DEF r
<1>4. CASE s.ok /\ s.io.clock # ios.clock /\ ios.clock # 0 /\ trouble # "clock"
  <2> DEFINE c == ios.clock
             gone == s.gaveUp \ {"clock"}
             io == [s.io EXCEPT !.clock = c]
             h == [s.hw EXCEPT !.clock = c, !.running = TRUE]
  <2>1. r = [s EXCEPT !.io.clock = c, !.gaveUp = @ \ {"clock"}, !.hw.clock = c, !.hw.running = TRUE]
    BY <1>4 DEF I!SetClock
  <2>2. r = [io |-> io, hw |-> h, gaveUp |-> gone, ok |-> s.ok]
    BY <2>1 DEF Works
  <2>3. io \in IoRecs /\ h \in HwRecs /\ gone \in SUBSET {"clock", "switch"}
        /\ ("switch" \notin gone => "switch" \notin s.gaveUp)
    BY <1>0 DEF HwRecs, IoRecs
  <2>4. /\ h.width = s.hw.width /\ h.volt = s.hw.volt /\ h.pin = s.hw.pin /\ h.bus = s.hw.bus
        /\ h.pads = s.hw.pads /\ h.clock = c /\ h.running = TRUE
        /\ io.width = s.io.width /\ io.volt = s.io.volt /\ io.power = s.io.power /\ io.timing = s.io.timing
        /\ io.clock = c
    BY <1>0 DEF HwRecs, IoRecs
  <2> HIDE DEF h, io, gone
  <2>5. Applied(io, h, gone)
    BY <2>3, <2>4 DEF Applied
  <2> HIDE DEF r
  <2> QED BY <1>0, <2>2, <2>3, <2>4, <2>5, IoWork DEF r
<1> QED BY <1>0, <1>1, <1>2, <1>3, <1>4

LEMMA IoWidth ==
  ASSUME NEW s \in Works, Applied(s.io, s.hw, s.gaveUp), NEW ios \in I!Settings
  PROVE  Stage(s, I!SetWidth(s, ios))
<1> DEFINE r == I!SetWidth(s, ios)
<1>1. CASE ~s.ok \/ s.io.width = ios.width \/ ios.width \notin I!Widths
  <2>1. r = s \/ r = [s EXCEPT !.ok = FALSE]
    BY <1>1 DEF I!SetWidth
  <2> HIDE DEF r
  <2> QED BY <2>1, IoRefused DEF r
<1>2. CASE ~(~s.ok \/ s.io.width = ios.width \/ ios.width \notin I!Widths)
  <2> DEFINE w  == ios.width
             io == [s.io EXCEPT !.width = w]
             h  == [s.hw EXCEPT !.width = w]
  <2>1. r = [s EXCEPT !.io.width = w, !.hw.width = w]
    BY <1>2 DEF I!SetWidth
  <2>2. w \in I!Widths /\ s.io \in IoRecs /\ s.hw \in HwRecs /\ s.gaveUp \in SUBSET {"clock", "switch"} /\ s.ok \in BOOLEAN
    BY <1>2 DEF Works
  <2>3. r = [io |-> io, hw |-> h, gaveUp |-> s.gaveUp, ok |-> s.ok]
    BY <2>1 DEF Works
  <2>4. io \in IoRecs /\ h \in HwRecs
    BY <2>2 DEF IoRecs, HwRecs
  <2>5. Applied(io, h, s.gaveUp) /\ io.volt = s.io.volt
    BY <2>2, <2>4 DEF Applied, IoRecs, HwRecs
  <2> HIDE DEF io, h, r
  <2> QED BY <2>2, <2>3, <2>4, <2>5, IoWork DEF r
<1> QED BY <1>1, <1>2

(* The voltage is known after this stage unless it failed.                  *)
LEMMA IoVoltage ==
  ASSUME NEW s \in Works, Applied(s.io, s.hw, s.gaveUp), NEW ios \in I!Settings, NEW trouble
  PROVE  LET r == I!SetVoltage(s, ios, trouble) IN Stage(s, r) /\ (r.ok => r.io.volt # "unset")
<1> DEFINE r == I!SetVoltage(s, ios, trouble)
<1>0. s.io \in IoRecs /\ s.hw \in HwRecs /\ s.gaveUp \in SUBSET {"clock", "switch"} /\ s.ok \in BOOLEAN
      /\ ios.volt \in {"3v3", "1v8"}
  BY DEF Works, I!Settings, I!Volts
<1>1. CASE ~s.ok \/ s.io.volt = ios.volt
  <2>1. r = s
    BY <1>1 DEF I!SetVoltage
  <2> QED BY <1>0, <1>1, <2>1, IoRefused
<1>2. CASE s.ok /\ s.io.volt # ios.volt /\ ios.volt = "3v3"
  <2> DEFINE io == [s.io EXCEPT !.volt = "3v3"]
             h  == [s.hw EXCEPT !.volt = "3v3"]
  <2>1. r = [s EXCEPT !.io.volt = "3v3", !.hw.volt = "3v3"]
    BY <1>2 DEF I!SetVoltage
  <2>2. r = [io |-> io, hw |-> h, gaveUp |-> s.gaveUp, ok |-> s.ok]
    BY <2>1 DEF Works
  <2>3. io \in IoRecs /\ h \in HwRecs
    BY <1>0 DEF IoRecs, HwRecs, I!Volts
  <2>4. Applied(io, h, s.gaveUp) /\ io.volt = "3v3"
    BY <1>0, <2>3 DEF Applied, IoRecs, HwRecs
  <2> HIDE DEF io, h, r
  <2> QED BY <1>0, <2>2, <2>3, <2>4, IoWork DEF r
<1>3. CASE s.ok /\ s.io.volt # ios.volt /\ ios.volt # "3v3" /\ trouble \in {"low", "high"}
  <2> DEFINE io == s.io
             gone == s.gaveUp \cup {"switch"}
             h  == IF trouble = "low" THEN [s.hw EXCEPT !.running = FALSE]
                   ELSE [s.hw EXCEPT !.running = TRUE, !.volt = "1v8"]
  <2>1. r = IF trouble = "low" THEN [s EXCEPT !.ok = FALSE, !.gaveUp = @ \cup {"switch"}, !.hw.running = FALSE]
            ELSE [s EXCEPT !.ok = FALSE, !.gaveUp = @ \cup {"switch"}, !.hw.running = TRUE, !.hw.volt = "1v8"]
    BY <1>3 DEF I!SetVoltage
  <2>2. r = [io |-> io, hw |-> h, gaveUp |-> gone, ok |-> FALSE]
    <3>1. CASE trouble = "low"
      BY <2>1, <3>1 DEF Works
    <3>2. CASE trouble # "low"
      BY <2>1, <3>2 DEF Works
    <3> QED BY <3>1, <3>2
  <2>3. io \in IoRecs /\ h \in HwRecs
    <3>1. CASE trouble = "low"
      BY <1>0, <3>1 DEF HwRecs, I!Volts
    <3>2. CASE trouble # "low"
      BY <1>0, <3>2 DEF HwRecs, I!Volts
    <3> QED BY <3>1, <3>2
  <2>4. /\ h.width = s.hw.width /\ h.clock = s.hw.clock /\ h.pin = s.hw.pin /\ h.bus = s.hw.bus
        /\ h.pads = s.hw.pads
    BY <1>0 DEF HwRecs
  <2>5. gone \in SUBSET {"clock", "switch"} /\ "switch" \in gone /\ ("clock" \notin gone => "clock" \notin s.gaveUp)
    BY <1>0
  <2> HIDE DEF h, gone
  <2>6. Applied(io, h, gone) /\ io.volt = s.io.volt
    BY <2>4, <2>5 DEF Applied
  <2> HIDE DEF io
  <2>7. r.ok = FALSE
    BY <2>2
  <2> HIDE DEF r
  <2> QED BY <1>0, <2>2, <2>3, <2>5, <2>6, <2>7, IoWork DEF r
<1>4. CASE s.ok /\ s.io.volt # ios.volt /\ ios.volt # "3v3" /\ trouble \notin {"low", "high"}
  <2> DEFINE io == [s.io EXCEPT !.volt = "1v8"]
             gone == s.gaveUp \ {"switch"}
             h  == [s.hw EXCEPT !.running = TRUE, !.volt = "1v8"]
  <2>1. r = [s EXCEPT !.io.volt = "1v8", !.gaveUp = @ \ {"switch"}, !.hw.running = TRUE, !.hw.volt = "1v8"]
    BY <1>4 DEF I!SetVoltage
  <2>2. r = [io |-> io, hw |-> h, gaveUp |-> gone, ok |-> s.ok]
    BY <2>1 DEF Works
  <2>3. io \in IoRecs /\ h \in HwRecs /\ gone \in SUBSET {"clock", "switch"}
        /\ ("clock" \notin gone => "clock" \notin s.gaveUp)
    BY <1>0 DEF IoRecs, HwRecs, I!Volts
  <2>4. /\ h.width = s.hw.width /\ h.clock = s.hw.clock /\ h.pin = s.hw.pin /\ h.bus = s.hw.bus
        /\ h.pads = s.hw.pads /\ h.volt = "1v8" /\ h.running = TRUE
        /\ io.width = s.io.width /\ io.clock = s.io.clock /\ io.power = s.io.power /\ io.timing = s.io.timing
        /\ io.volt = "1v8"
    BY <1>0 DEF HwRecs, IoRecs
  <2> HIDE DEF h, io, gone
  <2>5. Applied(io, h, gone)
    BY <2>3, <2>4 DEF Applied
  <2>6. r.io.volt = "1v8"
    BY <2>2, <2>4
  <2> HIDE DEF r
  <2> QED BY <1>0, <2>2, <2>3, <2>4, <2>5, <2>6, IoWork DEF r
<1> QED BY <1>0, <1>1, <1>2, <1>3, <1>4

LEMMA IoPower ==
  ASSUME NEW s \in Works, Applied(s.io, s.hw, s.gaveUp), NEW ios \in I!Settings
  PROVE  Stage(s, I!SetPower(s, ios))
<1> DEFINE r == I!SetPower(s, ios)
           p == ios.power
           io == [s.io EXCEPT !.power = p]
<1>0. s.io \in IoRecs /\ s.hw \in HwRecs /\ s.gaveUp \in SUBSET {"clock", "switch"} /\ s.ok \in BOOLEAN /\ p \in I!Powers
      /\ io \in IoRecs /\ io.volt = s.io.volt
  BY DEF Works, I!Settings, IoRecs
<1>1. CASE ~s.ok
  <2>1. r = s
    BY <1>1 DEF I!SetPower
  <2> QED BY <2>1, IoRefused
<1>2. CASE s.ok /\ PowerGpio /\ s.io.power # p
  <2> DEFINE h == [s.hw EXCEPT !.pin = p]
  <2>1. r = [s EXCEPT !.io.power = p, !.hw.pin = p]
    BY <1>2 DEF I!SetPower
  <2>2. r = [io |-> io, hw |-> h, gaveUp |-> s.gaveUp, ok |-> s.ok]
    BY <2>1 DEF Works
  <2>3. h \in HwRecs
    BY <1>0 DEF HwRecs
  <2>4. Applied(io, h, s.gaveUp)
    BY <1>0, <1>2, <2>3 DEF Applied, IoRecs, HwRecs
  <2> HIDE DEF io, h, r
  <2> QED BY <1>0, <2>2, <2>3, <2>4, IoWork DEF r
<1>3. CASE s.ok /\ ~(PowerGpio /\ s.io.power # p)
  <2> DEFINE h == [s.hw EXCEPT !.bus = p]
  <2>1. r = [s EXCEPT !.io.power = p, !.hw.bus = p]
    BY <1>3 DEF I!SetPower
  <2>2. r = [io |-> io, hw |-> h, gaveUp |-> s.gaveUp, ok |-> s.ok]
    BY <2>1 DEF Works
  <2>3. h \in HwRecs
    BY <1>0 DEF HwRecs
  <2>4. Applied(io, h, s.gaveUp)
    BY <1>0, <1>3, <2>3 DEF Applied, IoRecs, HwRecs
  <2> HIDE DEF io, h, r
  <2> QED BY <1>0, <2>2, <2>3, <2>4, IoWork DEF r
<1> QED BY <1>1, <1>2, <1>3

LEMMA IoTiming ==
  ASSUME NEW s \in Works, Applied(s.io, s.hw, s.gaveUp), NEW ios \in I!Settings
  PROVE  Stage(s, I!SetTiming(s, ios))
<1> DEFINE r == I!SetTiming(s, ios)
           x == ios.timing
           io == [s.io EXCEPT !.timing = x]
<1>0. s.io \in IoRecs /\ s.hw \in HwRecs /\ s.gaveUp \in SUBSET {"clock", "switch"} /\ s.ok \in BOOLEAN
      /\ x \in {"legacy", "ddr50", "sdr104", "bad"}
  BY DEF Works, I!Settings, I!Timings
<1>1. CASE ~s.ok \/ s.io.timing = x \/ x = "bad"
  <2>1. r = s \/ r = [s EXCEPT !.ok = FALSE]
    BY <1>1 DEF I!SetTiming
  <2> HIDE DEF r
  <2> QED BY <2>1, IoRefused DEF r
<1>2. CASE ~(~s.ok \/ s.io.timing = x \/ x = "bad") /\ (x = "legacy" \/ I!Pads(x) \notin PadStates)
  <2>1. r = [s EXCEPT !.io.timing = x]
    BY <1>2 DEF I!SetTiming
  <2>2. r = [io |-> io, hw |-> s.hw, gaveUp |-> s.gaveUp, ok |-> s.ok]
    BY <1>2, <2>1 DEF Works
  <2>3. io \in IoRecs /\ io.volt = s.io.volt
    BY <1>0, <1>2 DEF IoRecs, I!Timings
  <2>4. Applied(io, s.hw, s.gaveUp)
    BY <1>0, <1>2, <2>3 DEF Applied, IoRecs
  <2> HIDE DEF io, r
  <2> QED BY <1>0, <2>2, <2>3, <2>4, IoWork DEF r
<1>3. CASE ~(~s.ok \/ s.io.timing = x \/ x = "bad") /\ x # "legacy" /\ I!Pads(x) \in PadStates
  <2> DEFINE p == I!Pads(x)
             h == [s.hw EXCEPT !.pads = p]
  <2>1. r = [s EXCEPT !.io.timing = x, !.hw.pads = p]
    BY <1>3 DEF I!SetTiming
  <2>2. p \in {"default", "slow", "fast"}
    BY <1>0, <1>3 DEF I!Pads
  <2> HIDE DEF p
  <2>3. r = [io |-> io, hw |-> h, gaveUp |-> s.gaveUp, ok |-> s.ok]
    BY <2>1 DEF Works
  <2>4. io \in IoRecs /\ io.volt = s.io.volt /\ h \in HwRecs
    BY <1>0, <1>3, <2>2 DEF IoRecs, I!Timings, HwRecs
  <2>5. Applied(io, h, s.gaveUp)
    BY <1>0, <2>4 DEF Applied, IoRecs, HwRecs, p
  <2> HIDE DEF io, h, r
  <2> QED BY <1>0, <2>3, <2>4, <2>5, IoWork DEF r
<1> QED BY <1>1, <1>2, <1>3

LEMMA IoSet == ASSUME IoInv, NEW ios \in I!Settings, I!SetIo(ios) PROVE IoInv'
<1>1. PICK trouble \in I!Troubles(ios) :
        LET start == [io |-> hostIo, hw |-> hw, gaveUp |-> gaveUp,
                      ok |-> ios.clock = 0 \/ ios.clock \in FMin..FMax]
            end == I!SetTiming(I!SetPower(I!SetVoltage(I!SetWidth(I!SetClock(start, ios, trouble), ios),
                                                 ios, trouble), ios), ios)
        IN /\ hostIo' = end.io /\ hw' = end.hw /\ gaveUp' = end.gaveUp
           /\ lastRet' = IF end.ok THEN "ok" ELSE "error"
  BY DEF I!SetIo
<1> DEFINE go == ios.clock = 0 \/ ios.clock \in FMin..FMax
           start == [io |-> hostIo, hw |-> hw, gaveUp |-> gaveUp, ok |-> go]
           c == I!SetClock(start, ios, trouble)
           w == I!SetWidth(c, ios)
           v == I!SetVoltage(w, ios, trouble)
           p == I!SetPower(v, ios)
           e == I!SetTiming(p, ios)
<1>2. start \in Works /\ Applied(start.io, start.hw, start.gaveUp)
  <2>1. hostIo \in IoRecs /\ hw \in HwRecs /\ gaveUp \in SUBSET {"clock", "switch"} /\ go \in BOOLEAN
    BY DEF IoInv, I!TypeOK, IoRecs, HwRecs
  <2> HIDE DEF go
  <2> QED BY <2>1 DEF Works, IoInv
<1>3. hostIo' = e.io /\ hw' = e.hw /\ gaveUp' = e.gaveUp /\ lastRet' = IF e.ok THEN "ok" ELSE "error"
  BY <1>1
<1> HIDE DEF start
<1>4. Stage(start, c)
  BY <1>2, IoClock
<1> HIDE DEF c
<1>5. Stage(c, w)
  BY <1>4, IoWidth DEF Stage
<1> HIDE DEF w
<1>6. Stage(w, v) /\ (v.ok => v.io.volt # "unset")
  BY <1>5, IoVoltage DEF Stage
<1> HIDE DEF v
<1>7. Stage(v, p)
  BY <1>6, IoPower DEF Stage
<1> HIDE DEF p
<1>8. Stage(p, e)
  BY <1>7, IoTiming DEF Stage
<1> HIDE DEF e
<1>9. e \in Works /\ Applied(e.io, e.hw, e.gaveUp) /\ (e.ok => e.io.volt # "unset")
  BY <1>6, <1>7, <1>8 DEF Stage
<1>10. I!TypeOK'
  BY <1>3, <1>9 DEF I!TypeOK, Works, IoRecs, HwRecs
<1> QED BY <1>3, <1>9, <1>10 DEF IoInv

LEMMA IoStep == IoInv /\ [I!Next]_(I!ioVars) => IoInv'
<1> SUFFICES ASSUME IoInv, [I!Next]_(I!ioVars) PROVE IoInv'
  OBVIOUS
<1>1. CASE I!ExecuteTuning
  <2>1. /\ hostIo.power = "on" /\ hw' = [hw EXCEPT !.bus = "on"]
        /\ hostIo' = hostIo /\ lastRet' = lastRet /\ gaveUp' = gaveUp
    BY <1>1 DEF I!ExecuteTuning
  <2>2. hostIo \in IoRecs /\ hw \in HwRecs
    BY DEF IoInv, I!TypeOK, IoRecs, HwRecs
  <2>3. /\ hw' \in HwRecs /\ hw'.width = hw.width /\ hw'.clock = hw.clock /\ hw'.pin = hw.pin /\ hw'.bus = "on"
        /\ hw'.pads = hw.pads /\ hw'.volt = hw.volt /\ hw'.running = hw.running
    BY <2>1, <2>2 DEF HwRecs, I!Powers
  <2>4. I!TypeOK'
    BY <2>1, <2>3 DEF IoInv, I!TypeOK, IoRecs, HwRecs
  <2>5. Applied(hostIo', hw', gaveUp')
    BY <2>1, <2>3 DEF IoInv, Applied
  <2> QED BY <2>1, <2>4, <2>5 DEF IoInv
<1>2. ASSUME NEW ios \in I!Settings, I!SetIo(ios) PROVE IoInv'
  BY <1>2, IoSet
<1>3. CASE UNCHANGED I!ioVars
  BY <1>3 DEF I!ioVars, IoInv, I!TypeOK, Applied
<1> QED BY <1>1, <1>2, <1>3 DEF I!Next

(* When hpm_sdhc_set_io returned 0 the bus is as asked, whatever calls with *)
(* whatever failures came before, but for the rate or the voltage whose     *)
(* last change was given up half done: for any clock rates, either kind of  *)
(* power switch and any pads.                                               *)
THEOREM OkIsApplied == Spec => []OkMeansApplied
<1>1. I!Spec => []IoInv
  BY IoInit, IoStep, PTL DEF I!Spec
<1>2. IoInv => OkMeansApplied
  BY DEF IoInv, OkMeansApplied, I!OkMeansApplied, Applied
<1> QED BY <1>1, <1>2, UnionIsEach, PTL
-------------------------------------------------------------------------------
(* Division, for sectors and units.                                         *)
LEMMA Div ==
  ASSUME NEW x \in Nat, NEW d \in Nat \ {0}
  PROVE  x \div d \in Nat /\ x % d \in 0..(d - 1) /\ x = (x \div d) * d + (x % d)
<1>1. x \div d \in Nat /\ x % d \in 0..(d - 1)
  OBVIOUS
<1>2. x = d * (x \div d) + (x % d)
  OBVIOUS
<1> DEFINE q == x \div d
           r == x % d
<1> HIDE DEF q, r
<1>3. q \in Nat /\ x = d * q + r
  BY <1>1, <1>2 DEF q, r
<1>4. d * q = q * d
  BY <1>3
<1>5. x = q * d + r
  BY <1>3, <1>4
<1> QED BY <1>1, <1>5 DEF q, r

LEMMA Mono ==
  ASSUME NEW x \in Nat, NEW y \in Nat, NEW d \in Nat \ {0}
  PROVE  (x < y => x * d + d <= y * d) /\ (x <= y => x * d <= y * d)
<1>1. ASSUME x < y PROVE x * d + d <= y * d
  <2>1. PICK k \in Nat : y = x + 1 + k
    <3>1. y - x - 1 \in Nat /\ y = x + 1 + (y - x - 1)
      BY <1>1
    <3> QED BY <3>1
  <2>2. y * d = x * d + d + k * d /\ k * d \in Nat /\ x * d \in Nat /\ y * d \in Nat
    BY <2>1
  <2> QED BY <2>2
<1>2. ASSUME x <= y PROVE x * d <= y * d
  <2>1. CASE x = y
    <3>1. x * d \in Nat
      OBVIOUS
    <3> QED BY <2>1, <3>1
  <2>2. CASE x < y
    <3>1. x * d + d <= y * d /\ x * d \in Nat /\ y * d \in Nat
      BY <1>1, <2>2
    <3> QED BY <3>1
  <2> QED BY <1>2, <2>1, <2>2
<1> QED BY <1>1, <1>2

LEMMA DivIs ==
  ASSUME NEW k \in Nat, NEW d \in Nat \ {0}, NEW rest \in 0..(d - 1)
  PROVE  (k * d + rest) \div d = k
<1> DEFINE q == (k * d + rest) \div d
           r == (k * d + rest) % d
<1>1. k * d \in Nat /\ k * d + rest \in Nat
  OBVIOUS
<1>2. q \in Nat /\ r \in 0..(d - 1) /\ k * d + rest = q * d + r
  BY <1>1, Div
<1> HIDE DEF q, r
<1>3. q * d \in Nat
  BY <1>2
<1>4. (q < k => q * d + d <= k * d) /\ (k < q => k * d + d <= q * d)
  BY <1>2, Mono
<1> QED BY <1>1, <1>2, <1>3, <1>4 DEF q

(* The loop of an erase goes through the sectors of its range in order, and *)
(* misses at most the last.                                                 *)
LEMMA SectorsInOrder ==
  ASSUME NEW off \in Nat, NEW size \in Nat, size > 0
  PROVE  LET first == off \div SectorUnits
             last == (off + size - 1) \div SectorUnits
             all == F!SectorsErased(off, size)
         IN /\ first \in Nat /\ last \in Nat /\ first <= last
            /\ all \subseteq first..last
            /\ first..(last - 1) \subseteq all
            /\ off % SectorUnits = 0 => last \in all
<1> DEFINE d == SectorUnits
           a == off \div d
           r == off % d
           e == off + size - 1
           z == e \div d
           y == e % d
<1>0. d \in Nat \ {0}
  BY FlashAssumption DEF FlashAssumption
<1>1. a \in Nat /\ r \in 0..(d - 1) /\ off = a * d + r
  BY <1>0, Div
<1>2. e \in Nat
  OBVIOUS
<1>3. z \in Nat /\ y \in 0..(d - 1) /\ e = z * d + y
  BY <1>0, <1>2, Div
<1>4. \A q : q \in F!SectorsErased(off, size) <=> \E i \in 0..size : i * d < size /\ q = (off + i * d) \div d
  BY DEF F!SectorsErased
<1>5. e = off + size - 1
  OBVIOUS
<1> HIDE DEF d, a, r, e, z, y
<1>6. \A i \in Nat : (off + i * d) \div d = a + i /\ (a + i) * d = a * d + i * d /\ i * d \in Nat
  <2> SUFFICES ASSUME NEW i \in Nat
               PROVE  (off + i * d) \div d = a + i /\ (a + i) * d = a * d + i * d /\ i * d \in Nat
    OBVIOUS
  <2>1. (a + i) * d = a * d + i * d /\ i * d \in Nat /\ a + i \in Nat /\ a * d \in Nat
    BY <1>0, <1>1
  <2>2. ((a + i) * d + r) \div d = a + i
    BY <1>0, <1>1, <2>1, DivIs
  <2>3. off + i * d = (a + i) * d + r
    BY <1>0, <1>1, <2>1
  <2> QED BY <2>1, <2>2, <2>3
<1>7. a * d \in Nat /\ z * d \in Nat
  BY <1>0, <1>1, <1>3
<1>8. a <= z
  <2>1. z < a => z * d + d <= a * d
    BY <1>0, <1>1, <1>3, Mono
  <2> QED BY <1>0, <1>1, <1>3, <1>5, <1>7, <2>1
<1>9. ASSUME NEW i \in 0..size, i * d < size PROVE a + i \in a..z
  <2>1. (a + i) * d = a * d + i * d /\ i * d \in Nat /\ a + i \in Nat
    BY <1>1, <1>6
  <2>2. z < a + i => z * d + d <= (a + i) * d
    BY <1>0, <1>1, <1>3, <2>1, Mono
  <2>3. a + i <= z
    BY <1>0, <1>1, <1>3, <1>5, <1>7, <1>9, <2>1, <2>2
  <2> QED BY <1>1, <1>3, <2>1, <2>3
<1>10. ASSUME NEW s \in Nat, a <= s, s < z \/ (s = z /\ r = 0) PROVE s \in F!SectorsErased(off, size)
  <2> DEFINE i == s - a
  <2>1. i \in Nat /\ s = a + i
    BY <1>1, <1>10
  <2> HIDE DEF i
  <2>2. s * d = a * d + i * d /\ i * d \in Nat /\ (off + i * d) \div d = s
    BY <1>6, <2>1
  <2>3. s < z => s * d + d <= z * d
    BY <1>0, <1>3, <1>10, Mono
  <2>4. i * d < size
    BY <1>0, <1>1, <1>3, <1>5, <1>7, <1>10, <2>2, <2>3
  <2>5. i <= i * d
    <3>1. 1 <= d => 1 * i <= d * i
      <4>1. CASE i = 0
        BY <1>0, <4>1
      <4>2. CASE i # 0
        BY <1>0, <2>1, <4>2, Mono
      <4> QED BY <4>1, <4>2
    <3>2. 1 * i = i /\ d * i = i * d
      BY <1>0, <2>1
    <3> QED BY <1>0, <3>1, <3>2
  <2>6. i \in 0..size
    BY <2>1, <2>2, <2>4, <2>5
  <2> QED BY <1>4, <2>2, <2>4, <2>6
<1>11. F!SectorsErased(off, size) \subseteq a..z
  <2> SUFFICES ASSUME NEW q \in F!SectorsErased(off, size) PROVE q \in a..z
    OBVIOUS
  <2>1. PICK i \in 0..size : i * d < size /\ q = (off + i * d) \div d
    BY <1>4
  <2>2. q = a + i
    BY <1>6, <2>1
  <2> QED BY <1>9, <2>1, <2>2
<1>12. a..(z - 1) \subseteq F!SectorsErased(off, size)
  <2> SUFFICES ASSUME NEW s \in a..(z - 1) PROVE s \in F!SectorsErased(off, size)
    OBVIOUS
  <2>1. s \in Nat /\ a <= s /\ s < z
    BY <1>1, <1>3
  <2> QED BY <1>10, <2>1
<1>13. r = 0 => z \in F!SectorsErased(off, size)
  BY <1>3, <1>8, <1>10
<1> QED BY <1>1, <1>3, <1>8, <1>11, <1>12, <1>13 DEF a, d, r, z, e

LEMMA FlashInit == F!Init => F!TypeOK
BY DEF F!Init, F!TypeOK

LEMMA FlashTypeStep == F!TypeOK /\ [F!Next]_(F!flashVars) => F!TypeOK'
<1> SUFFICES ASSUME F!TypeOK, [F!Next]_(F!flashVars) PROVE F!TypeOK'
  OBVIOUS
<1>1. ASSUME NEW t \in Threads, F!Call(t) PROVE F!TypeOK'
  <2>1. PICK c \in F!Calls : waiting' = [waiting EXCEPT ![t] = c]
    BY <1>1 DEF F!Call
  <2>2. initing' \subseteq Threads
    BY <1>1 DEF F!Call, F!TypeOK
  <2> QED BY <1>1, <2>1, <2>2 DEF F!Call, F!TypeOK
<1>2. ASSUME NEW t \in Threads, F!InitOnUse(t) PROVE F!TypeOK'
  BY <1>2 DEF F!InitOnUse, F!TypeOK
<1>3. ASSUME NEW t \in Threads, F!Read(t) PROVE F!TypeOK'
  <2>1. returned' \in {"ok", "error"}
    BY <1>3 DEF F!Read
  <2> QED BY <1>3, <2>1 DEF F!Read, F!Done, F!TypeOK
<1>4. ASSUME NEW t \in Threads, F!Write(t) PROVE F!TypeOK'
  <2>1. mem' \in [F!Units -> {"erased", "data", "garbled"}]
    BY <1>4 DEF F!Write, F!TypeOK
  <2>2. returned' \in {"ok", "error"}
    BY <1>4 DEF F!Write
  <2> QED BY <1>4, <2>1, <2>2 DEF F!Write, F!Done, F!TypeOK
<1>5. ASSUME NEW t \in Threads, F!Erase(t) PROVE F!TypeOK'
  <2>1. mem' \in [F!Units -> {"erased", "data", "garbled"}]
    BY <1>5 DEF F!Erase, F!TypeOK
  <2> QED BY <1>5, <2>1 DEF F!Erase, F!Done, F!TypeOK
<1>6. ASSUME NEW t \in Threads, F!EraseFails(t) PROVE F!TypeOK'
  <2>1. mem' \in [F!Units -> {"erased", "data", "garbled"}]
    BY <1>6 DEF F!EraseFails, F!TypeOK
  <2> QED BY <1>6, <2>1 DEF F!EraseFails, F!Done, F!TypeOK
<1>7. ASSUME NEW t \in Threads, F!EraseStuck(t) PROVE F!TypeOK'
  BY <1>7 DEF F!EraseStuck, F!Done, F!TypeOK
<1>8. CASE UNCHANGED F!flashVars
  BY <1>8 DEF F!flashVars, F!TypeOK
<1> QED BY <1>1, <1>2, <1>3, <1>4, <1>5, <1>6, <1>7, <1>8 DEF F!Next

(* What EraseIsExact says of the step of one thread.                        *)
First(c) == c[2] \div SectorUnits
Last(c)  == (c[2] + c[3] - 1) \div SectorUnits
UpTo(c, n) ==
    /\ \A u \in F!Units : u \div SectorUnits \in First(c)..n - 1 => mem'[u] = "erased"
    /\ \A u \in F!Units : u \div SectorUnits \notin First(c)..n => mem'[u] = mem[u]
    /\ returned' = "ok" =>
         /\ n = Last(c)
         /\ c[2] % SectorUnits = 0 => \A u \in F!Units : u \div SectorUnits = n => mem'[u] = "erased"
Exact(t) ==
    LET c == waiting[t] IN
    (c # <<>> /\ c[1] = "erase" /\ waiting'[t] = <<>>) =>
        /\ ~configured => mem' = mem
        /\ \E n \in First(c)..Last(c) : UpTo(c, n)

LEMMA UnitIn == ASSUME NEW u \in F!Units PROVE u \in Nat /\ u \div SectorUnits \in Nat
<1>1. u \in Nat
  BY DEF F!Units
<1>2. SectorUnits \in Nat \ {0}
  BY FlashAssumption DEF FlashAssumption
<1> QED BY <1>1, <1>2, Div

(* The sectors before and after the one the loop stopped at.                *)
LEMMA Before ==
  ASSUME NEW a \in Nat, NEW z \in Nat, NEW all, all \subseteq a..z, a..(z - 1) \subseteq all,
         NEW n \in all, NEW q \in Nat
  PROVE  /\ q \in a..n - 1 => q \in all /\ q < n
         /\ q \notin a..n => q # n /\ ~(q \in all /\ q < n)
<1>1. n \in a..z /\ n \in Nat
  OBVIOUS
<1> QED BY <1>1

(* Every other call that ends, or the same one of another thread, leaves    *)
(* the record of this one.                                                  *)
LEMMA FlashErase == F!TypeOK /\ F!Next => \A t \in Threads : Exact(t)
<1> SUFFICES ASSUME F!TypeOK, F!Next, NEW t \in Threads,
                    waiting[t] # <<>>, waiting[t][1] = "erase", waiting'[t] = <<>>
             PROVE  /\ ~configured => mem' = mem
                    /\ \E n \in First(waiting[t])..Last(waiting[t]) : UpTo(waiting[t], n)
  BY DEF Exact
<1> DEFINE c == waiting[t]
           all == F!SectorsErased(c[2], c[3])
<1>1. c \in F!Calls /\ waiting \in [Threads -> F!Calls \cup {<<>>}]
  BY DEF F!TypeOK
<1>2. c[2] \in Nat /\ c[3] \in Nat
  <2>1. c[2] \in F!Units /\ c[3] \in 0..MaxSize
    BY <1>1 DEF F!Calls
  <2> QED BY <2>1, FlashAssumption DEF F!Units, FlashAssumption
<1>3. mem \in [F!Units -> {"erased", "data", "garbled"}]
  BY DEF F!TypeOK
<1>4. PICK s \in Threads : \/ F!Call(s) \/ F!InitOnUse(s) \/ F!Read(s) \/ F!Write(s)
                           \/ F!Erase(s) \/ F!EraseFails(s) \/ F!EraseStuck(s)
  BY DEF F!Next
<1>5. F!Erase(t) \/ F!EraseFails(t) \/ F!EraseStuck(t)
  <2>1. ~F!InitOnUse(s) /\ (s # t => waiting'[t] = waiting[t])
    BY <1>1, <1>4 DEF F!Call, F!InitOnUse, F!Read, F!Write, F!Erase, F!EraseFails, F!EraseStuck, F!Done
  <2>2. s = t
    BY <2>1
  <2>3. ~F!Call(t)
    BY DEF F!Call
  <2>4. ~F!Read(t) /\ ~F!Write(t)
    BY DEF F!Read, F!Write, F!Ready
  <2>5. \/ F!Call(t) \/ F!InitOnUse(t) \/ F!Read(t) \/ F!Write(t)
        \/ F!Erase(t) \/ F!EraseFails(t) \/ F!EraseStuck(t)
    BY <1>4, <2>2
  <2>6. ~F!InitOnUse(t)
    BY <2>1, <2>2
  <2> QED BY <2>3, <2>4, <2>5, <2>6
<1>6. c[3] > 0
  <2>1. c[3] # 0
    BY <1>1, <1>5 DEF F!Erase, F!EraseFails, F!EraseStuck
  <2> QED BY <1>2, <2>1
<1>7. /\ First(c) \in Nat /\ Last(c) \in Nat /\ First(c) <= Last(c)
      /\ all \subseteq First(c)..Last(c) /\ First(c)..(Last(c) - 1) \subseteq all
      /\ c[2] % SectorUnits = 0 => Last(c) \in all
  BY <1>2, <1>6, SectorsInOrder DEF First, Last
<1>8. CASE F!Erase(t)
  <2>1. configured /\ returned' = "ok"
    BY <1>8 DEF F!Erase
  <2>2. mem' = [u \in F!Units |-> IF u \div SectorUnits \in all THEN "erased" ELSE mem[u]]
    BY <1>8 DEF F!Erase
  <2> HIDE DEF all
  <2>3. \A u \in F!Units : mem'[u] = IF u \div SectorUnits \in all THEN "erased" ELSE mem[u]
    BY <2>2
  <2> HIDE DEF c
  <2>4. UpTo(c, Last(c))
    BY <1>7, <2>3 DEF UpTo
  <2>5. Last(c) \in First(c)..Last(c)
    BY <1>7
  <2>6. \E n \in First(c)..Last(c) : UpTo(c, n)
    BY <2>4, <2>5
  <2> QED BY <2>1, <2>6 DEF c
<1>9. CASE F!EraseFails(t)
  <2>1. configured /\ returned' = "error"
    BY <1>9 DEF F!EraseFails
  <2>2. PICK n \in all, left \in {"as it was", "erased", "garbled"} :
          mem' = [u \in F!Units |->
                    IF u \div SectorUnits \in all /\ u \div SectorUnits < n THEN "erased"
                    ELSE IF u \div SectorUnits = n /\ left # "as it was" THEN left ELSE mem[u]]
    BY <1>9 DEF F!EraseFails
  <2>3. First(c) \in Nat /\ Last(c) \in Nat /\ all \subseteq First(c)..Last(c)
        /\ First(c)..(Last(c) - 1) \subseteq all /\ n \in all
    BY <1>7, <2>2
  <2>4. \A u \in F!Units : u \div SectorUnits \in Nat
    BY UnitIn
  <2> HIDE DEF all
  <2>5. n \in First(c)..Last(c)
    BY <2>3
  <2>6. ASSUME NEW u \in F!Units, u \div SectorUnits \in First(c)..n - 1 PROVE mem'[u] = "erased"
    <3>1. u \div SectorUnits \in all /\ u \div SectorUnits < n
      BY <2>3, <2>4, <2>6, Before
    <3> QED BY <2>2, <3>1
  <2>7. ASSUME NEW u \in F!Units, u \div SectorUnits \notin First(c)..n PROVE mem'[u] = mem[u]
    <3>1. u \div SectorUnits # n /\ ~(u \div SectorUnits \in all /\ u \div SectorUnits < n)
      BY <2>3, <2>4, <2>7, Before
    <3> QED BY <2>2, <3>1
  <2>8. UpTo(c, n)
    BY <2>1, <2>6, <2>7 DEF UpTo
  <2>9. \E k \in First(c)..Last(c) : UpTo(c, k)
    BY <2>5, <2>8
  <2> QED BY <2>1, <2>9
<1>10. CASE F!EraseStuck(t)
  <2>1. mem' = mem /\ returned' = "error"
    <3>1. mem' = mem
      BY <1>10 DEF F!EraseStuck
    <3>2. waiting' # waiting
      OBVIOUS
    <3> QED BY <1>10, <3>1, <3>2 DEF F!EraseStuck
  <2> HIDE DEF c
  <2>2. First(c) \in First(c)..Last(c) /\ First(c)..(First(c) - 1) = {}
    BY <1>7
  <2>3. UpTo(c, First(c))
    BY <2>1, <2>2 DEF UpTo
  <2>4. \E k \in First(c)..Last(c) : UpTo(c, k)
    BY <2>2, <2>3
  <2> QED BY <2>1, <2>4 DEF c
<1> QED BY <1>5, <1>8, <1>9, <1>10

(* An erase goes through the sectors of its range in order and changes no   *)
(* other; when it returned 0 it went through to the last, and when the ROM  *)
(* failed it stopped at one (flash_hpmicro_erase): for any offset, size,    *)
(* sector size, flash size and threads.                                     *)
THEOREM EraseErases == Spec => EraseIsExact
<1>1. F!TypeOK /\ [F!Next]_(F!flashVars) => [\A t \in Threads : Exact(t)]_(F!flashVars)
  BY FlashErase
<1>2. F!TypeOK /\ [F!Next]_(F!flashVars) => F!TypeOK'
  BY FlashTypeStep
<1>3. F!Spec => [][\A t \in Threads : Exact(t)]_(F!flashVars)
  BY <1>1, <1>2, FlashInit, PTL DEF F!Spec
<1>4. [\A t \in Threads : Exact(t)]_(F!flashVars) =>
        [\A t \in Threads :
           LET c == waiting[t]
               first == c[2] \div SectorUnits
               last == (c[2] + c[3] - 1) \div SectorUnits
           IN (c # <<>> /\ c[1] = "erase" /\ waiting'[t] = <<>>) =>
                /\ ~configured => mem' = mem
                /\ \E n \in first..last :
                     /\ \A u \in F!Units : u \div SectorUnits \in first..n - 1 => mem'[u] = "erased"
                     /\ \A u \in F!Units : u \div SectorUnits \notin first..n => mem'[u] = mem[u]
                     /\ returned' = "ok" =>
                          /\ n = last
                          /\ c[2] % SectorUnits = 0 =>
                               \A u \in F!Units : u \div SectorUnits = n => mem'[u] = "erased"]_(F!flashVars)
  BY DEF Exact, UpTo, First, Last
<1> QED BY <1>3, <1>4, UnionIsEach, PTL DEF EraseIsExact, F!EraseIsExact
-------------------------------------------------------------------------------
(* SdhcRequest.  A thread that is inside a request has the mutex of its      *)
(* host.  As long as nothing was excused, a controller nobody waits for is   *)
(* quiet, one somebody waits for works for that thread, and the bounce       *)
(* buffer has one user, whose data it holds when that matters.               *)
Requests == [pc : R!Labels, host : Hosts, kind : R!Kinds, left : Int]
Ctls     == [who : Threads \cup {NoThread}, flags : SUBSET R!Flags, resp : Threads \cup {NoThread}]
Outside  == {"idle", "lock"}
Active   == {"poll", "pollXfer", "recover"}
Using(r) == r.kind \in R!Data /\ r.pc \notin {"idle", "lock", "prepare", "unlock"}
Quiet(c) == c.who = NoThread /\ c.flags = {}

Owned ==
    /\ R!MutexIsReturned
    /\ \A t \in Threads : th[t].pc \notin Outside => mutex[th[t].host] = t

Served(t, r, c) ==
    /\ c.who \in {t, NoThread} /\ c.resp \in {t, NoThread}
    /\ (c.who = t /\ c.resp = t) => r.kind \in R!Waiting
    /\ "xfer" \in c.flags => (c.who = NoThread /\ r.kind \in R!Waiting)
    /\ r.pc = "poll" => ("cmd" \in c.flags <=> c.resp = t)
    /\ r.pc = "pollXfer" => (r.kind \in R!Waiting /\ c.resp = t /\ "cmd" \notin c.flags)

Sole == note = "clean" =>
    /\ \A h \in Hosts :
         (\A t \in Threads : th[t].pc \in Active => th[t].host # h) => Quiet(ctl[h])
    /\ \A t \in Threads : th[t].pc \in Active => Served(t, th[t], ctl[th[t].host])

Bounced == note = "clean" => \A t \in Threads : Using(th[t]) =>
    /\ \A u \in Threads : Using(th[u]) => u = t
    /\ th[t].kind = "write" => bounce = t
    /\ (th[t].kind = "read" /\ (th[t].pc = "copy" \/ "xfer" \in ctl[th[t].host].flags))
         => bounce = t

RequestInv == R!TypeOK /\ R!ResultIsOwn /\ Owned /\ Sole /\ Bounced

LEMMA RequestInit == R!Init => RequestInv
<1> SUFFICES ASSUME R!Init PROVE RequestInv
  OBVIOUS
<1> USE RequestAssumption DEF RequestAssumption
<1>1. R!Idle \in Requests /\ R!Idle.pc = "idle"
  BY DEF R!Idle, Requests, R!Labels, R!Kinds
<1>2. R!Free \in Ctls /\ Quiet(R!Free)
  BY DEF R!Free, Ctls, Quiet, R!Flags
<1>3. /\ th = [t \in Threads |-> R!Idle] /\ mutex = [h \in Hosts |-> NoThread]
      /\ present = [h \in Hosts |-> TRUE] /\ ctl = [h \in Hosts |-> R!Free]
      /\ bounce = NoThread /\ note = "clean"
  BY DEF R!Init
<1>4. R!TypeOK
  BY <1>1, <1>2, <1>3 DEF R!TypeOK, Requests, Ctls
<1>5. R!ResultIsOwn
  BY <1>3 DEF R!ResultIsOwn
<1>6. Owned
  BY <1>1, <1>3 DEF Owned, Outside, R!MutexIsReturned
<1>7. Sole
  BY <1>1, <1>2, <1>3 DEF Sole, Active
<1>8. Bounced
  BY <1>1, <1>3 DEF Bounced, Using
<1> QED BY <1>4, <1>5, <1>6, <1>7, <1>8 DEF RequestInv

(* The parts of the type, and what it says of one thread.                   *)
LEMMA RequestTyped ==
  R!TypeOK <=> /\ th \in [Threads -> Requests] /\ ctl \in [Hosts -> Ctls]
               /\ mutex \in [Hosts -> Threads \cup {NoThread}] /\ present \in [Hosts -> BOOLEAN]
               /\ bounce \in Threads \cup {NoThread}
               /\ note \in {"clean", "excused", "unserved", "wrongData", "wrongResponse", "falseTimeout"}
BY DEF R!TypeOK, Requests, Ctls

(* A step of thread t that ends with r, and leaves its controller with c.   *)
LEMMA SoleMoved ==
  ASSUME RequestInv, NEW t \in Threads, NEW r \in Requests, NEW c \in Ctls,
         th[t].pc \notin Outside,
         th' = [th EXCEPT ![t] = r], ctl' = [ctl EXCEPT ![th[t].host] = c],
         r.host = th[t].host \/ r.pc \notin Active,
         note' = "clean" => /\ note = "clean"
                            /\ r.pc \in Active => Served(t, r, c)
                            /\ r.pc \notin Active => Quiet(c)
  PROVE  Sole'
<1> DEFINE h0 == th[t].host
<1>0. th \in [Threads -> Requests] /\ ctl \in [Hosts -> Ctls] /\ h0 \in Hosts
  BY RequestTyped DEF RequestInv, Requests
<1>1. \A u \in Threads : th[u].pc \in Active /\ u # t => th[u].host # h0
  <2>1. \A u \in Threads : th[u].pc \in Active => th[u].pc \notin Outside
    BY DEF Active, Outside
  <2> QED BY <2>1 DEF RequestInv, Owned
<1>2. th'[t] = r /\ \A u \in Threads : u # t => th'[u] = th[u]
  BY <1>0
<1>3. ctl'[h0] = c /\ \A h \in Hosts : h # h0 => ctl'[h] = ctl[h]
  BY <1>0
<1>4. ASSUME note' = "clean", NEW h \in Hosts,
             \A u \in Threads : th'[u].pc \in Active => th'[u].host # h
      PROVE  Quiet(ctl'[h])
  <2>1. CASE h = h0
    <3>1. r.pc \notin Active
      BY <1>2, <1>4, <2>1
    <3> QED BY <1>3, <1>4, <2>1, <3>1
  <2>2. CASE h # h0
    <3>1. \A u \in Threads : th[u].pc \in Active => th[u].host # h
      BY <1>2, <1>4, <2>2
    <3>2. Quiet(ctl[h])
      BY <1>4, <3>1 DEF RequestInv, Sole
    <3> QED BY <1>3, <2>2, <3>2
  <2> QED BY <2>1, <2>2
<1>5. ASSUME note' = "clean", NEW u \in Threads, th'[u].pc \in Active
      PROVE  Served(u, th'[u], ctl'[th'[u].host])
  <2>1. CASE u = t
    BY <1>2, <1>3, <1>5, <2>1
  <2>2. CASE u # t
    <3>1. th'[u] = th[u] /\ th[u].host # h0 /\ th[u].host \in Hosts
      BY <1>0, <1>1, <1>2, <1>5, <2>2 DEF Requests
    <3>2. Served(u, th[u], ctl[th[u].host])
      BY <1>5, <3>1 DEF RequestInv, Sole
    <3>3. ctl'[th[u].host] = ctl[th[u].host]
      BY <1>3, <3>1
    <3> QED BY <3>1, <3>2, <3>3
  <2> QED BY <2>1, <2>2
<1> QED BY <1>4, <1>5 DEF Sole

(* A step of a thread that waits for no controller before or after.         *)
LEMMA SolePassed ==
  ASSUME RequestInv, NEW t \in Threads, NEW r \in Requests,
         th[t].pc \notin Active, r.pc \notin Active,
         th' = [th EXCEPT ![t] = r], ctl' = ctl, note' = "clean" => note = "clean"
  PROVE  Sole'
<1>0. th \in [Threads -> Requests]
  BY RequestTyped DEF RequestInv
<1>1. th'[t] = r /\ \A u \in Threads : u # t => th'[u] = th[u]
  BY <1>0
<1>2. \A u \in Threads : th'[u].pc \in Active => th[u].pc \in Active /\ th'[u] = th[u]
  BY <1>1
<1>3. \A u \in Threads : th[u].pc \in Active => th'[u] = th[u]
  BY <1>1
<1> QED BY <1>2, <1>3 DEF RequestInv, Sole

(* A step of a thread that neither begins to use the bounce buffer nor      *)
(* changes it: a read gets to its copy only after its data has arrived.     *)
LEMMA BouncedKept ==
  ASSUME RequestInv, NEW t \in Threads, NEW r \in Requests, th' = [th EXCEPT ![t] = r],
         bounce' = bounce, note' = "clean" => note = "clean",
         \A h \in Hosts : "xfer" \in ctl'[h].flags => "xfer" \in ctl[h].flags,
         Using(r) => /\ Using(th[t]) /\ r.kind = th[t].kind /\ r.host = th[t].host
                     /\ (r.kind = "read" /\ r.pc = "copy")
                          => (th[t].pc = "copy" \/ "xfer" \in ctl[th[t].host].flags)
  PROVE  Bounced'
<1>0. th \in [Threads -> Requests]
  BY RequestTyped DEF RequestInv
<1>1. th'[t] = r /\ \A u \in Threads : u # t => th'[u] = th[u]
  BY <1>0
<1>2. \A u \in Threads : Using(th'[u]) => Using(th[u])
  BY <1>1
<1>3. ASSUME note' = "clean", NEW u \in Threads, Using(th'[u])
      PROVE  /\ \A v \in Threads : Using(th'[v]) => v = u
             /\ th'[u].kind = "write" => bounce' = u
             /\ (th'[u].kind = "read" /\ (th'[u].pc = "copy" \/ "xfer" \in ctl'[th'[u].host].flags))
                  => bounce' = u
  <2>1. Using(th[u]) /\ th'[u].kind = th[u].kind /\ th'[u].host = th[u].host /\ th[u].host \in Hosts
    BY <1>0, <1>1, <1>2, <1>3 DEF Requests
  <2>2. /\ \A v \in Threads : Using(th[v]) => v = u
        /\ th[u].kind = "write" => bounce = u
        /\ (th[u].kind = "read" /\ (th[u].pc = "copy" \/ "xfer" \in ctl[th[u].host].flags))
             => bounce = u
    BY <1>3, <2>1 DEF RequestInv, Bounced
  <2>3. (th'[u].kind = "read" /\ th'[u].pc = "copy")
          => (th[u].pc = "copy" \/ "xfer" \in ctl[th[u].host].flags)
    BY <1>1, <1>3
  <2> QED BY <1>2, <2>1, <2>2, <2>3
<1> QED BY <1>3 DEF Bounced

LEMMA OwnedKept ==
  ASSUME RequestInv, NEW t \in Threads, NEW r \in Requests, th' = [th EXCEPT ![t] = r],
         mutex' = mutex, r.pc \in Outside <=> th[t].pc \in Outside,
         r.pc \notin Outside => r.host = th[t].host
  PROVE  Owned'
<1>0. th \in [Threads -> Requests] /\ mutex \in [Hosts -> Threads \cup {NoThread}]
  BY RequestTyped DEF RequestInv
<1>1. th'[t] = r /\ \A u \in Threads : u # t => th'[u] = th[u]
  BY <1>0
<1>2. \A u \in Threads : (th'[u].pc \in Outside <=> th[u].pc \in Outside)
                         /\ (th[u].pc \notin Outside => th'[u].host = th[u].host)
  BY <1>1
<1>3. R!MutexIsReturned'
  <2> SUFFICES ASSUME NEW h \in Hosts, mutex'[h] # NoThread
               PROVE  th'[mutex'[h]].pc \notin Outside /\ th'[mutex'[h]].host = h
    BY DEF R!MutexIsReturned, Outside
  <2>1. th[mutex[h]].pc \notin Outside /\ th[mutex[h]].host = h
    BY DEF RequestInv, Owned, R!MutexIsReturned, Outside
  <2> QED BY <1>0, <1>2, <2>1
<1>4. \A u \in Threads : th'[u].pc \notin Outside => mutex'[th'[u].host] = u
  BY <1>2 DEF RequestInv, Owned
<1> QED BY <1>3, <1>4 DEF Owned

LEMMA OwnedLeft ==
  ASSUME RequestInv, NEW t \in Threads, th[t].pc \notin Outside,
         th' = [th EXCEPT ![t] = R!Idle], mutex' = [mutex EXCEPT ![th[t].host] = NoThread]
  PROVE  Owned'
<1> USE RequestAssumption DEF RequestAssumption
<1>0. /\ th \in [Threads -> Requests] /\ mutex \in [Hosts -> Threads \cup {NoThread}]
      /\ th[t].host \in Hosts /\ R!Idle.pc \in Outside
  BY RequestTyped DEF RequestInv, Requests, R!Idle, Outside
<1>1. th'[t] = R!Idle /\ \A u \in Threads : u # t => th'[u] = th[u]
  BY <1>0
<1>2. mutex'[th[t].host] = NoThread /\ \A h \in Hosts : h # th[t].host => mutex'[h] = mutex[h]
  BY <1>0
<1>3. mutex[th[t].host] = t
  BY DEF RequestInv, Owned
<1>4. R!MutexIsReturned'
  <2> SUFFICES ASSUME NEW h \in Hosts, mutex'[h] # NoThread
               PROVE  th'[mutex'[h]].pc \notin Outside /\ th'[mutex'[h]].host = h
    BY DEF R!MutexIsReturned, Outside
  <2>1. h # th[t].host /\ mutex'[h] = mutex[h]
    BY <1>2
  <2>2. th[mutex[h]].pc \notin Outside /\ th[mutex[h]].host = h
    BY <2>1 DEF RequestInv, Owned, R!MutexIsReturned, Outside
  <2>3. mutex[h] \in Threads /\ mutex[h] # t
    BY <1>0, <2>1, <2>2
  <2> QED BY <1>1, <2>1, <2>2, <2>3
<1>5. ASSUME NEW u \in Threads, th'[u].pc \notin Outside
      PROVE  mutex'[th'[u].host] = u
  <2>1. u # t /\ th'[u] = th[u]
    BY <1>0, <1>1, <1>5
  <2>2. mutex[th[u].host] = u /\ th[u].host \in Hosts
    BY <1>0, <1>5, <2>1 DEF RequestInv, Owned, Requests
  <2> QED BY <1>2, <1>3, <2>1, <2>2
<1> QED BY <1>4, <1>5 DEF Owned

(* One lemma per step of a thread.                                          *)
LEMMA RequestStep ==
  ASSUME RequestInv, NEW t \in Threads, R!Request(t) PROVE RequestInv'
<1> USE DEF R!At, Active, Outside
<1>1. PICK a \in Asked :
         th' = [th EXCEPT ![t] = [pc |-> "lock", host |-> a.host, kind |-> a.kind, left |-> a.left]]
  BY DEF R!Request
<1> DEFINE r == [pc |-> "lock", host |-> a.host, kind |-> a.kind, left |-> a.left]
<1>2. /\ th[t].pc = "idle" /\ mutex' = mutex /\ present' = present /\ ctl' = ctl
      /\ bounce' = bounce /\ note' = note
  BY DEF R!Request
<1>3. r \in Requests /\ r.pc = "lock" /\ ~Using(r)
  BY RequestAssumption DEF RequestAssumption, Requests, R!Labels, Using
<1>4. th' = [th EXCEPT ![t] = r]
  BY <1>1
<1> HIDE DEF r
<1>5. R!TypeOK' /\ R!ResultIsOwn'
  BY <1>2, <1>3, <1>4, RequestTyped DEF RequestInv, R!ResultIsOwn, R!TypeOK, Requests
<1>6. Owned'
  BY <1>2, <1>3, <1>4, OwnedKept
<1>7. Sole'
  BY <1>2, <1>3, <1>4, SolePassed
<1>8. Bounced'
  BY <1>2, <1>3, <1>4, BouncedKept
<1> QED BY <1>5, <1>6, <1>7, <1>8 DEF RequestInv

LEMMA LockStep ==
  ASSUME RequestInv, NEW t \in Threads, R!Lock(t) PROVE RequestInv'
<1> USE DEF R!At, R!H, R!Goto, Active, Outside
<1> DEFINE r == [th[t] EXCEPT !.pc = IF th[t].kind \in R!Routed THEN "prepare" ELSE "send"]
<1>0. th \in [Threads -> Requests] /\ mutex \in [Hosts -> Threads \cup {NoThread}] /\ th[t] \in Requests
      /\ th[t].host \in Hosts
  BY RequestTyped DEF RequestInv, Requests
<1>1. /\ th[t].pc = "lock" /\ mutex[th[t].host] = NoThread
      /\ mutex' = [mutex EXCEPT ![th[t].host] = t] /\ th' = [th EXCEPT ![t] = r]
      /\ present' = present /\ ctl' = ctl /\ bounce' = bounce /\ note' = note
  BY <1>0 DEF R!Lock
<1>2. /\ r \in Requests /\ r.pc \in {"send", "prepare"} /\ r.host = th[t].host
      /\ r.kind = th[t].kind /\ ~Using(r)
  <2>1. r \in Requests /\ r.pc \in {"send", "prepare"} /\ r.host = th[t].host /\ r.kind = th[t].kind
    BY <1>0 DEF Requests, R!Labels
  <2>2. r.kind \in R!Data => r.pc = "prepare"
    BY <1>0 DEF R!Routed, R!Data, Requests
  <2> QED BY <2>1, <2>2 DEF Using
<1> HIDE DEF r
<1>3. R!TypeOK' /\ R!ResultIsOwn'
  BY <1>0, <1>1, <1>2, RequestTyped DEF RequestInv, R!ResultIsOwn, R!TypeOK, Requests
<1>4. th'[t] = r /\ \A u \in Threads : u # t => th'[u] = th[u]
  BY <1>0, <1>1
<1>5. R!MutexIsReturned'
  <2> SUFFICES ASSUME NEW h \in Hosts, mutex'[h] # NoThread
               PROVE  th'[mutex'[h]].pc \notin Outside /\ th'[mutex'[h]].host = h
    BY DEF R!MutexIsReturned
  <2>1. CASE h = th[t].host
    BY <1>0, <1>1, <1>2, <1>4, <2>1
  <2>2. CASE h # th[t].host
    <3>1. mutex'[h] = mutex[h]
      BY <1>0, <1>1, <2>2
    <3>2. th[mutex[h]].pc \notin Outside /\ th[mutex[h]].host = h /\ mutex[h] \in Threads
      BY <1>0, <3>1 DEF RequestInv, Owned, R!MutexIsReturned
    <3> QED BY <1>1, <1>4, <3>1, <3>2
  <2> QED BY <2>1, <2>2
<1>6. ASSUME NEW u \in Threads, th'[u].pc \notin Outside
      PROVE  mutex'[th'[u].host] = u
  <2>1. CASE u = t
    BY <1>0, <1>1, <1>2, <1>4, <2>1
  <2>2. CASE u # t
    <3>1. th'[u] = th[u] /\ mutex[th[u].host] = u /\ th[u].host \in Hosts
      BY <1>0, <1>4, <1>6, <2>2 DEF RequestInv, Owned, Requests
    <3>2. u # NoThread
      BY RequestAssumption DEF RequestAssumption
    <3> QED BY <1>0, <1>1, <3>1, <3>2
  <2> QED BY <2>1, <2>2
<1>7. Owned'
  BY <1>5, <1>6 DEF Owned
<1>8. Sole'
  BY <1>1, <1>2, SolePassed
<1>9. Bounced'
  BY <1>1, <1>2, BouncedKept
<1> QED BY <1>3, <1>7, <1>8, <1>9 DEF RequestInv

LEMMA LockTimeoutStep ==
  ASSUME RequestInv, NEW t \in Threads, R!LockTimeout(t) PROVE RequestInv'
<1> USE RequestAssumption DEF RequestAssumption, R!At, R!Return, Active, Outside
<1>1. /\ th[t].pc = "lock" /\ th' = [th EXCEPT ![t] = R!Idle] /\ mutex' = mutex
      /\ present' = present /\ ctl' = ctl /\ bounce' = bounce /\ note' = note
  BY DEF R!LockTimeout
<1>2. R!Idle \in Requests /\ R!Idle.pc = "idle" /\ ~Using(R!Idle)
  BY DEF R!Idle, Requests, R!Labels, R!Kinds, Using
<1>3. R!TypeOK' /\ R!ResultIsOwn'
  BY <1>1, <1>2, RequestTyped DEF RequestInv, R!ResultIsOwn, R!TypeOK, Requests
<1>4. Owned'
  BY <1>1, <1>2, OwnedKept
<1>5. Sole'
  BY <1>1, <1>2, SolePassed
<1>6. Bounced'
  BY <1>1, <1>2, BouncedKept
<1> QED BY <1>3, <1>4, <1>5, <1>6 DEF RequestInv

(* The steps inside a request that give it up: no card, busy bus.           *)
LEMMA GoneOn ==
  ASSUME RequestInv, NEW t \in Threads, th[t].pc = "send", R!Goto(t, "unlock"),
         UNCHANGED <<mutex, present, ctl, bounce, note>>
  PROVE  RequestInv'
<1> USE DEF Active, Outside
<1> DEFINE r == [th[t] EXCEPT !.pc = "unlock"]
<1>0. th \in [Threads -> Requests] /\ th[t] \in Requests
  BY RequestTyped DEF RequestInv
<1>1. th' = [th EXCEPT ![t] = r]
  BY <1>0 DEF R!Goto
<1>2. r \in Requests /\ r.pc = "unlock" /\ r.host = th[t].host /\ ~Using(r)
  BY <1>0 DEF Requests, R!Labels, Using
<1> HIDE DEF r
<1>3. R!TypeOK' /\ R!ResultIsOwn'
  BY <1>0, <1>1, <1>2, RequestTyped DEF RequestInv, R!ResultIsOwn, R!TypeOK, Requests
<1>4. Owned'
  BY <1>1, <1>2, OwnedKept
<1>5. Sole'
  BY <1>1, <1>2, SolePassed
<1>6. Bounced'
  BY <1>1, <1>2, BouncedKept
<1> QED BY <1>3, <1>4, <1>5, <1>6 DEF RequestInv

LEMMA PrepareStep ==
  ASSUME RequestInv, NEW t \in Threads, R!Prepare(t) PROVE RequestInv'
<1> USE RequestAssumption DEF RequestAssumption, R!At, Active, Outside
<1> DEFINE r == [th[t] EXCEPT !.pc = "send"]
           others == \E u \in Threads \ {t} : R!UsesBounce(u)
<1>0. th \in [Threads -> Requests] /\ th[t] \in Requests /\ th[t].host \in Hosts
  BY RequestTyped DEF RequestInv, Requests
<1>1. /\ th[t].pc = "prepare" /\ th' = [th EXCEPT ![t] = r]
      /\ bounce' = (IF th[t].kind = "write" THEN t ELSE NoThread)
      /\ mutex' = mutex /\ present' = present /\ ctl' = ctl
  BY <1>0 DEF R!Prepare, R!Goto
<1>2. note' = (IF others /\ note = "clean" THEN "excused" ELSE note)
  BY DEF R!Prepare, R!Note
<1>3. ~others => \A u \in Threads : Using(th[u]) => u = t
  BY DEF R!UsesBounce, Using
<1>4. r \in Requests /\ r.pc = "send" /\ r.host = th[t].host /\ r.kind = th[t].kind
  BY <1>0 DEF Requests, R!Labels
<1> HIDE DEF r, others
<1>5. R!TypeOK' /\ R!ResultIsOwn'
  BY <1>0, <1>1, <1>2, <1>4, RequestTyped DEF RequestInv, R!ResultIsOwn, R!TypeOK, Requests
<1>6. Owned'
  BY <1>1, <1>4, OwnedKept
<1>7. Sole'
  BY <1>1, <1>2, <1>4, SolePassed
<1>8. Bounced'
  <2> SUFFICES ASSUME note' = "clean", NEW u \in Threads, Using(th'[u])
               PROVE  /\ \A v \in Threads : Using(th'[v]) => v = u
                      /\ th'[u].kind = "write" => bounce' = u
                      /\ (th'[u].kind = "read" /\ (th'[u].pc = "copy"
                             \/ "xfer" \in ctl'[th'[u].host].flags)) => bounce' = u
    BY DEF Bounced
  <2>1. note = "clean" /\ ~others
    BY <1>2
  <2>2. th'[t] = r /\ \A v \in Threads : v # t => th'[v] = th[v]
    BY <1>0, <1>1
  <2>3. \A v \in Threads : Using(th'[v]) => v = t
    BY <1>3, <2>1, <2>2
  <2>4. \A v \in Threads : th[v].pc \in Active => th[v].host # th[t].host
    <3>1. \A v \in Threads : th[v].pc \in Active => th[v].pc \notin Outside /\ v # t
      BY <1>1
    <3> QED BY <1>1, <3>1 DEF RequestInv, Owned
  <2>5. ctl[th[t].host].flags = {}
    BY <1>0, <2>1, <2>4 DEF RequestInv, Sole, Quiet
  <2> QED BY <1>1, <1>4, <2>2, <2>3, <2>5
<1> QED BY <1>5, <1>6, <1>7, <1>8 DEF RequestInv

(* Inside a request before it starts or after it ended, the controller      *)
(* is quiet.                                                                *)
LEMMA QuietForMe ==
  ASSUME RequestInv, NEW t \in Threads, note = "clean",
         th[t].pc \notin Outside, th[t].pc \notin Active
  PROVE  Quiet(ctl[th[t].host])
<1>0. th[t].host \in Hosts
  BY RequestTyped DEF RequestInv, Requests
<1>1. \A v \in Threads : th[v].pc \in Active => th[v].pc \notin Outside /\ v # t
  BY DEF Active, Outside
<1>2. \A v \in Threads : th[v].pc \in Active => th[v].host # th[t].host
  BY <1>1 DEF RequestInv, Owned
<1> QED BY <1>0, <1>2 DEF RequestInv, Sole

LEMMA StartStep ==
  ASSUME RequestInv, NEW t \in Threads, R!Start(t) PROVE RequestInv'
<1> USE RequestAssumption DEF RequestAssumption, R!At, R!H, Active, Outside
<1> DEFINE h0 == th[t].host
           r  == [th[t] EXCEPT !.pc = "poll"]
           c  == IF ctl[h0].who # NoThread THEN ctl[h0] ELSE [ctl[h0] EXCEPT !.who = t, !.resp = NoThread]
<1>0. /\ th \in [Threads -> Requests] /\ th[t] \in Requests /\ h0 \in Hosts
      /\ ctl \in [Hosts -> Ctls] /\ ctl[h0] \in Ctls
  BY RequestTyped DEF RequestInv, Requests
<1>1. /\ th[t].pc = "send" /\ th' = [th EXCEPT ![t] = r]
      /\ mutex' = mutex /\ present' = present /\ bounce' = bounce /\ note' = note
  BY <1>0 DEF R!Start, R!Goto
<1>2. ctl' = [ctl EXCEPT ![h0] = c]
  BY <1>0 DEF R!Start
<1>3. /\ r \in Requests /\ r.pc = "poll" /\ r.host = h0 /\ r.kind = th[t].kind
  BY <1>0 DEF Requests, R!Labels
<1>4. c \in Ctls /\ c.flags = ctl[h0].flags
      /\ (ctl[h0].who = NoThread => c.who = t /\ c.resp = NoThread)
  BY <1>0 DEF Ctls
<1> HIDE DEF r, c
<1>5. R!TypeOK' /\ R!ResultIsOwn'
  BY <1>0, <1>1, <1>2, <1>3, <1>4, RequestTyped DEF RequestInv, R!ResultIsOwn, R!TypeOK, Requests, Ctls
<1>6. Owned'
  BY <1>1, <1>3, OwnedKept
<1>7. note' = "clean" => Served(t, r, c)
  BY <1>1, <1>3, <1>4, QuietForMe DEF Quiet, Served
<1>8. Sole'
  BY <1>0, <1>1, <1>2, <1>3, <1>4, <1>7, SoleMoved
<1>9. Bounced'
  <2>1. \A h \in Hosts : "xfer" \in ctl'[h].flags => "xfer" \in ctl[h].flags
    BY <1>0, <1>2, <1>4
  <2>2. Using(r) => Using(th[t])
    BY <1>1, <1>3 DEF Using
  <2> QED BY <1>1, <1>3, <2>1, <2>2, BouncedKept
<1> QED BY <1>5, <1>6, <1>8, <1>9 DEF RequestInv

LEMMA PollStep ==
  ASSUME RequestInv, NEW t \in Threads, R!Poll(t) PROVE RequestInv'
<1> USE RequestAssumption DEF RequestAssumption, R!At, R!H, R!On, Active, Outside
<1> DEFINE h0 == th[t].host
           r  == [th[t] EXCEPT !.pc = IF th[t].kind \in R!Waiting THEN "pollXfer" ELSE "copy"]
           c  == [ctl[h0] EXCEPT !.flags = @ \ {"cmd"}]
<1>0. /\ th \in [Threads -> Requests] /\ th[t] \in Requests /\ h0 \in Hosts
      /\ ctl \in [Hosts -> Ctls] /\ ctl[h0] \in Ctls
  BY RequestTyped DEF RequestInv, Requests
<1>1. /\ th[t].pc = "poll" /\ th' = [th EXCEPT ![t] = r]
      /\ mutex' = mutex /\ present' = present /\ bounce' = bounce
      /\ "cmd" \in ctl[h0].flags /\ "err" \notin ctl[h0].flags
  BY <1>0 DEF R!Poll, R!Goto
<1>2. ctl' = [ctl EXCEPT ![h0] = c]
  BY <1>0 DEF R!Poll, R!Clear
<1>3. note' = (IF ctl[h0].resp # t /\ note = "clean" THEN "wrongResponse" ELSE note)
  BY DEF R!Poll, R!Note
<1>4. /\ r \in Requests /\ r.pc = (IF th[t].kind \in R!Waiting THEN "pollXfer" ELSE "copy")
      /\ r.host = h0 /\ r.kind = th[t].kind
  BY <1>0 DEF Requests, R!Labels
<1>5. c \in Ctls /\ c.who = ctl[h0].who /\ c.resp = ctl[h0].resp /\ c.flags = ctl[h0].flags \ {"cmd"}
      /\ ctl[h0].flags \subseteq R!Flags
  BY <1>0 DEF Ctls
<1> HIDE DEF r, c
<1>6. note = "clean" => Served(t, th[t], ctl[h0])
  BY <1>1 DEF RequestInv, Sole
<1>7. note = "clean" => note' = "clean" /\ ctl[h0].resp = t
  BY <1>1, <1>3, <1>6 DEF Served
<1>8. R!TypeOK'
  BY <1>0, <1>1, <1>2, <1>3, <1>4, <1>5, RequestTyped DEF RequestInv, R!TypeOK, Requests, Ctls
<1>9. R!ResultIsOwn'
  BY <1>3, <1>7 DEF RequestInv, R!ResultIsOwn
<1>10. Owned'
  BY <1>1, <1>4, OwnedKept
<1>11. ASSUME note' = "clean"
       PROVE  (r.pc \in Active => Served(t, r, c)) /\ (r.pc \notin Active => Quiet(c))
  <2>1. note = "clean"
    BY <1>3, <1>11
  <2>2. CASE th[t].kind \notin R!Waiting
    BY <1>1, <1>4, <1>5, <1>6, <1>7, <2>1, <2>2 DEF Served, Quiet, R!Flags
  <2>3. CASE th[t].kind \in R!Waiting
    BY <1>1, <1>4, <1>5, <1>6, <1>7, <2>1, <2>3 DEF Served
  <2> QED BY <2>2, <2>3
<1>12. Sole'
  BY <1>0, <1>1, <1>2, <1>3, <1>4, <1>5, <1>11, SoleMoved
<1>13. Bounced'
  <2>1. \A h \in Hosts : "xfer" \in ctl'[h].flags => "xfer" \in ctl[h].flags
    BY <1>0, <1>2, <1>5
  <2>2. Using(r) => Using(th[t]) /\ r.pc # "copy"
    BY <1>1, <1>4 DEF Using, R!Data, R!Waiting
  <2> QED BY <1>1, <1>3, <1>4, <2>1, <2>2, BouncedKept
<1> QED BY <1>8, <1>9, <1>10, <1>12, <1>13 DEF RequestInv

LEMMA PollXferStep ==
  ASSUME RequestInv, NEW t \in Threads, R!PollXfer(t) PROVE RequestInv'
<1> USE RequestAssumption DEF RequestAssumption, R!At, R!H, R!On, Active, Outside
<1> DEFINE h0 == th[t].host
           r  == [th[t] EXCEPT !.pc = "copy"]
           c  == [ctl[h0] EXCEPT !.flags = @ \ {"xfer"}]
<1>0. /\ th \in [Threads -> Requests] /\ th[t] \in Requests /\ h0 \in Hosts
      /\ ctl \in [Hosts -> Ctls] /\ ctl[h0] \in Ctls
  BY RequestTyped DEF RequestInv, Requests
<1>1. /\ th[t].pc = "pollXfer" /\ th' = [th EXCEPT ![t] = r]
      /\ mutex' = mutex /\ present' = present /\ bounce' = bounce /\ note' = note
      /\ "xfer" \in ctl[h0].flags /\ "err" \notin ctl[h0].flags
  BY <1>0 DEF R!PollXfer, R!Goto
<1>2. ctl' = [ctl EXCEPT ![h0] = c]
  BY <1>0 DEF R!PollXfer, R!Clear
<1>3. /\ r \in Requests /\ r.pc = "copy" /\ r.host = h0 /\ r.kind = th[t].kind
  BY <1>0 DEF Requests, R!Labels
<1>4. c \in Ctls /\ c.who = ctl[h0].who /\ c.flags = ctl[h0].flags \ {"xfer"}
      /\ ctl[h0].flags \subseteq R!Flags
  BY <1>0 DEF Ctls
<1> HIDE DEF r, c
<1>5. R!TypeOK' /\ R!ResultIsOwn'
  BY <1>0, <1>1, <1>2, <1>3, <1>4, RequestTyped DEF RequestInv, R!ResultIsOwn, R!TypeOK, Requests, Ctls
<1>6. Owned'
  BY <1>1, <1>3, OwnedKept
<1>7. note = "clean" => Quiet(c)
  <2>1. note = "clean" => Served(t, th[t], ctl[h0])
    BY <1>1 DEF RequestInv, Sole
  <2> QED BY <1>1, <1>4, <2>1 DEF Served, Quiet, R!Flags
<1>8. Sole'
  BY <1>0, <1>1, <1>2, <1>3, <1>4, <1>7, SoleMoved
<1>9. Bounced'
  <2>1. \A h \in Hosts : "xfer" \in ctl'[h].flags => "xfer" \in ctl[h].flags
    BY <1>0, <1>2, <1>4
  <2>2. Using(r) => Using(th[t])
    BY <1>1, <1>3 DEF Using
  <2> QED BY <1>1, <1>3, <2>1, <2>2, BouncedKept
<1> QED BY <1>5, <1>6, <1>8, <1>9 DEF RequestInv

LEMMA PollErrorStep ==
  ASSUME RequestInv, NEW t \in Threads, R!PollError(t) PROVE RequestInv'
<1> USE RequestAssumption DEF RequestAssumption, R!At, R!H, R!On, Active, Outside
<1>1. PICK timeout \in BOOLEAN :
         R!Goto(t, IF timeout THEN "unlock" ELSE "recover") /\ R!Note(timeout, "excused")
  BY DEF R!PollError
<1> DEFINE h0 == th[t].host
           r  == [th[t] EXCEPT !.pc = IF timeout THEN "unlock" ELSE "recover"]
           c  == IF th[t].pc = "pollXfer" THEN [ctl[h0] EXCEPT !.flags = @ \ {"xfer"}] ELSE ctl[h0]
<1>0. /\ th \in [Threads -> Requests] /\ th[t] \in Requests /\ h0 \in Hosts
      /\ ctl \in [Hosts -> Ctls] /\ ctl[h0] \in Ctls
  BY RequestTyped DEF RequestInv, Requests
<1>2. /\ th[t].pc \in {"poll", "pollXfer"} /\ th' = [th EXCEPT ![t] = r]
      /\ mutex' = mutex /\ present' = present /\ bounce' = bounce
  BY <1>0, <1>1 DEF R!PollError, R!Goto
<1>3. ctl' = [ctl EXCEPT ![h0] = c]
  BY <1>0 DEF R!PollError, R!Clear
<1>4. note' = (IF timeout /\ note = "clean" THEN "excused" ELSE note)
  BY <1>1 DEF R!Note
<1>5. /\ r \in Requests /\ r.pc = (IF timeout THEN "unlock" ELSE "recover")
      /\ r.host = h0 /\ r.kind = th[t].kind
  BY <1>0 DEF Requests, R!Labels
<1>6. c \in Ctls /\ c.who = ctl[h0].who /\ c.resp = ctl[h0].resp /\ c.flags \subseteq ctl[h0].flags
  BY <1>0 DEF Ctls
<1> HIDE DEF r, c
<1>7. R!TypeOK'
  BY <1>0, <1>2, <1>3, <1>4, <1>5, <1>6, RequestTyped DEF RequestInv, R!TypeOK, Requests, Ctls
<1>8. R!ResultIsOwn'
  BY <1>4 DEF RequestInv, R!ResultIsOwn
<1>9. Owned'
  BY <1>2, <1>5, OwnedKept
<1>10. ASSUME note' = "clean" PROVE r.pc = "recover" /\ Served(t, r, c) /\ note = "clean"
  <2>1. note = "clean" /\ ~timeout
    BY <1>4, <1>10
  <2>2. Served(t, th[t], ctl[h0])
    BY <1>2, <2>1 DEF RequestInv, Sole
  <2> QED BY <1>5, <1>6, <2>1, <2>2 DEF Served
<1>11. Sole'
  BY <1>0, <1>2, <1>3, <1>5, <1>6, <1>10, SoleMoved
<1>12. Bounced'
  <2>1. \A h \in Hosts : "xfer" \in ctl'[h].flags => "xfer" \in ctl[h].flags
    BY <1>0, <1>3, <1>6
  <2>2. Using(r) => Using(th[t])
    BY <1>2, <1>5 DEF Using
  <2>3. r.pc # "copy" /\ (note' = "clean" => note = "clean")
    BY <1>4, <1>5
  <2> QED BY <1>2, <1>5, <2>1, <2>2, <2>3, BouncedKept
<1> QED BY <1>7, <1>8, <1>9, <1>11, <1>12 DEF RequestInv

(* A timeout is never reported to a thread whose command was answered.      *)
LEMMA PollTimeoutStep ==
  ASSUME RequestInv, NEW t \in Threads, R!PollTimeout(t) PROVE RequestInv'
<1> USE RequestAssumption DEF RequestAssumption, R!At, R!H, R!On, Active, Outside
<1> DEFINE h0 == th[t].host
           r  == [th[t] EXCEPT !.pc = "unlock"]
           false == th[t].pc = "poll" /\ ctl[h0].resp = t
<1>0. th \in [Threads -> Requests] /\ th[t] \in Requests /\ h0 \in Hosts
  BY RequestTyped DEF RequestInv, Requests
<1>1. /\ th[t].pc \in {"poll", "pollXfer"} /\ th' = [th EXCEPT ![t] = r]
      /\ mutex' = mutex /\ present' = present /\ bounce' = bounce /\ ctl' = ctl
  BY <1>0 DEF R!PollTimeout, R!Goto
<1>2. th[t].pc = "poll" => "cmd" \notin ctl[h0].flags
  BY DEF R!PollTimeout
<1>3. note' = (IF note = "clean" THEN IF false THEN "falseTimeout" ELSE "excused" ELSE note)
  BY DEF R!PollTimeout, R!Note
<1>4. r \in Requests /\ r.pc = "unlock" /\ r.host = h0 /\ ~Using(r)
  BY <1>0 DEF Requests, R!Labels, Using
<1>5. note = "clean" => ~false
  BY <1>1, <1>2 DEF RequestInv, Sole, Served
<1> HIDE DEF r, false
<1>6. note' # "clean"
  BY <1>3
<1>7. R!TypeOK' /\ R!ResultIsOwn'
  BY <1>0, <1>1, <1>3, <1>4, <1>5, RequestTyped DEF RequestInv, R!ResultIsOwn, R!TypeOK, Requests
<1>8. Owned'
  BY <1>1, <1>4, OwnedKept
<1> QED BY <1>6, <1>7, <1>8 DEF RequestInv, Sole, Bounced

LEMMA RecoverStep ==
  ASSUME RequestInv, NEW t \in Threads, R!Recover(t) PROVE RequestInv'
<1> USE RequestAssumption DEF RequestAssumption, R!At, R!H, R!On, Active, Outside
<1> DEFINE h0 == th[t].host
           left2 == IF th[t].left < 0 THEN th[t].left ELSE th[t].left - 1
           pc2   == IF th[t].left = 1 THEN "unlock" ELSE "send"
           r     == [th[t] EXCEPT !.left = left2, !.pc = pc2]
<1>0. /\ th \in [Threads -> Requests] /\ th[t] \in Requests /\ h0 \in Hosts
      /\ ctl \in [Hosts -> Ctls] /\ ctl[h0] \in Ctls /\ th[t].left \in Int
  BY RequestTyped DEF RequestInv, Requests
<1>1. /\ th[t].pc = "recover" /\ th' = [th EXCEPT ![t] = r] /\ ctl' = [ctl EXCEPT ![h0] = R!Free]
      /\ mutex' = mutex /\ present' = present /\ bounce' = bounce /\ note' = note
  BY <1>0 DEF R!Recover
<1>2. r \in Requests /\ r.pc \in {"unlock", "send"} /\ r.host = h0 /\ r.kind = th[t].kind
  <2>1. left2 \in Int /\ pc2 \in {"unlock", "send"}
    BY <1>0
  <2> HIDE DEF left2, pc2
  <2> QED BY <1>0, <2>1 DEF Requests, R!Labels
<1>3. R!Free \in Ctls /\ Quiet(R!Free)
  BY DEF R!Free, Ctls, Quiet, R!Flags
<1> HIDE DEF r
<1>4. R!TypeOK' /\ R!ResultIsOwn'
  BY <1>0, <1>1, <1>2, <1>3, RequestTyped DEF RequestInv, R!ResultIsOwn, R!TypeOK, Requests, Ctls
<1>5. Owned'
  BY <1>1, <1>2, OwnedKept
<1>6. Sole'
  BY <1>0, <1>1, <1>2, <1>3, SoleMoved
<1>7. Bounced'
  <2>1. \A h \in Hosts : "xfer" \in ctl'[h].flags => "xfer" \in ctl[h].flags
    BY <1>0, <1>1, <1>3 DEF Quiet
  <2>2. Using(r) => Using(th[t])
    BY <1>1, <1>2 DEF Using
  <2> QED BY <1>1, <1>2, <2>1, <2>2, BouncedKept
<1> QED BY <1>4, <1>5, <1>6, <1>7 DEF RequestInv

LEMMA RecoveryFailsStep ==
  ASSUME RequestInv, NEW t \in Threads, R!RecoveryFails(t) PROVE RequestInv'
<1> USE RequestAssumption DEF RequestAssumption, R!At, R!H, Outside
<1>0. th[t].host \in Hosts
  BY RequestTyped DEF RequestInv, Requests
<1>1. /\ th[t].pc = "recover" /\ th' = [th EXCEPT ![t] = R!Idle]
      /\ mutex' = [mutex EXCEPT ![th[t].host] = NoThread]
      /\ present' = present /\ ctl' = ctl /\ bounce' = bounce
      /\ note' = (IF note = "clean" THEN "excused" ELSE note)
  BY DEF R!RecoveryFails, R!Return, R!Note
<1>2. R!Idle \in Requests
  BY DEF R!Idle, Requests, R!Labels, R!Kinds
<1>3. R!TypeOK' /\ R!ResultIsOwn'
  BY <1>0, <1>1, <1>2, RequestTyped DEF RequestInv, R!ResultIsOwn, R!TypeOK, Requests
<1>4. Owned'
  BY <1>1, OwnedLeft
<1> QED BY <1>1, <1>3, <1>4 DEF RequestInv, Sole, Bounced

LEMMA CopyStep ==
  ASSUME RequestInv, NEW t \in Threads, R!Copy(t) PROVE RequestInv'
<1> USE RequestAssumption DEF RequestAssumption, R!At, R!H, Active, Outside
<1> DEFINE r == [th[t] EXCEPT !.pc = "unlock"]
           stray  == th[t].kind = "stray"
           wrong1 == th[t].kind = "read" /\ bounce # t
<1>0. th \in [Threads -> Requests] /\ th[t] \in Requests
  BY RequestTyped DEF RequestInv
<1>1. /\ th[t].pc = "copy" /\ th' = [th EXCEPT ![t] = r]
      /\ mutex' = mutex /\ present' = present /\ bounce' = bounce /\ ctl' = ctl
      /\ note' = (IF (stray \/ wrong1) /\ note = "clean"
                  THEN IF stray THEN "unserved" ELSE "wrongData" ELSE note)
  BY <1>0 DEF R!Copy, R!Goto, R!Note
<1>2. r \in Requests /\ r.pc = "unlock" /\ r.host = th[t].host /\ ~Using(r)
  BY <1>0 DEF Requests, R!Labels, Using
<1>3. note = "clean" => ~wrong1
  BY <1>1 DEF RequestInv, Bounced, Using, R!Data
<1> HIDE DEF r, stray, wrong1
<1>4. note' \in {note, "unserved"} /\ (note' = "clean" => note = "clean")
  BY <1>1, <1>3
<1>5. R!TypeOK' /\ R!ResultIsOwn'
  BY <1>0, <1>1, <1>2, <1>4, RequestTyped DEF RequestInv, R!ResultIsOwn, R!TypeOK, Requests
<1>6. Owned'
  BY <1>1, <1>2, OwnedKept
<1>7. Sole'
  BY <1>1, <1>2, <1>4, SolePassed
<1>8. Bounced'
  BY <1>1, <1>2, <1>4, BouncedKept
<1> QED BY <1>5, <1>6, <1>7, <1>8 DEF RequestInv

LEMMA UnlockStep ==
  ASSUME RequestInv, NEW t \in Threads, R!Unlock(t) PROVE RequestInv'
<1> USE RequestAssumption DEF RequestAssumption, R!At, R!H, Active, Outside
<1>0. th[t].host \in Hosts
  BY RequestTyped DEF RequestInv, Requests
<1>1. /\ th[t].pc = "unlock" /\ th' = [th EXCEPT ![t] = R!Idle]
      /\ mutex' = [mutex EXCEPT ![th[t].host] = NoThread]
      /\ present' = present /\ ctl' = ctl /\ bounce' = bounce /\ note' = note
  BY DEF R!Unlock, R!Return
<1>2. R!Idle \in Requests /\ R!Idle.pc = "idle" /\ ~Using(R!Idle)
  BY DEF R!Idle, Requests, R!Labels, R!Kinds, Using
<1>3. R!TypeOK' /\ R!ResultIsOwn'
  BY <1>0, <1>1, <1>2, RequestTyped DEF RequestInv, R!ResultIsOwn, R!TypeOK, Requests
<1>4. Owned'
  BY <1>1, OwnedLeft
<1>5. Sole'
  BY <1>1, <1>2, SolePassed
<1>6. Bounced'
  BY <1>1, <1>2, BouncedKept
<1> QED BY <1>3, <1>4, <1>5, <1>6 DEF RequestInv

(* A controller at work works for a thread that waits for it.               *)
LEMMA WhoIsServed ==
  ASSUME RequestInv, NEW h \in Hosts, NEW t, t = ctl[h].who, t # NoThread, note = "clean"
  PROVE  t \in Threads /\ th[t].pc \in Active /\ th[t].host = h /\ Served(t, th[t], ctl[h])
<1>1. ctl[h].who \in Threads \cup {NoThread}
  BY RequestTyped DEF RequestInv, Ctls
<1>2. ~Quiet(ctl[h])
  BY DEF Quiet
<1>3. PICK v \in Threads : th[v].pc \in Active /\ th[v].host = h
  BY <1>2 DEF RequestInv, Sole
<1>4. Served(v, th[v], ctl[h])
  BY <1>3 DEF RequestInv, Sole
<1>5. v = t
  BY <1>4 DEF Served
<1> QED BY <1>3, <1>4, <1>5

(* An answer to the thread that waits.                                      *)
LEMMA SoleAnswered ==
  ASSUME RequestInv, NEW h \in Hosts, NEW t \in Threads, NEW c \in Ctls,
         th' = th, ctl' = [ctl EXCEPT ![h] = c],
         note' = "clean" => /\ note = "clean" /\ th[t].pc \in Active /\ th[t].host = h
                            /\ Served(t, th[t], c)
  PROVE  Sole'
<1> SUFFICES ASSUME note' = "clean" PROVE Sole'
  BY DEF Sole
<1>0. ctl \in [Hosts -> Ctls] /\ th \in [Threads -> Requests]
  BY RequestTyped DEF RequestInv
<1>1. ctl'[h] = c /\ \A g \in Hosts : g # h => ctl'[g] = ctl[g]
  BY <1>0
<1>2. ASSUME NEW g \in Hosts, \A u \in Threads : th'[u].pc \in Active => th'[u].host # g
      PROVE  Quiet(ctl'[g])
  BY <1>1, <1>2 DEF RequestInv, Sole
<1>3. ASSUME NEW u \in Threads, th'[u].pc \in Active
      PROVE  Served(u, th'[u], ctl'[th'[u].host])
  <2>1. CASE th[u].host = h
    <3>1. \A v \in Threads : th[v].pc \in Active => th[v].pc \notin Outside
      BY DEF Active, Outside
    <3>2. u = t
      BY <1>3, <2>1, <3>1 DEF RequestInv, Owned
    <3> QED BY <1>1, <3>2
  <2>2. CASE th[u].host # h
    <3>1. th[u].host \in Hosts
      BY <1>0 DEF Requests
    <3> QED BY <1>1, <1>3, <2>2, <3>1 DEF RequestInv, Sole
  <2> QED BY <2>1, <2>2
<1> QED BY <1>2, <1>3 DEF Sole

LEMMA CommandDoneStep ==
  ASSUME RequestInv, NEW h \in Hosts, R!CommandDone(h) PROVE RequestInv'
<1> DEFINE t == ctl[h].who
           fl == ctl[h].flags \cup {"cmd"}
           w == IF th[t].kind \in R!Waiting THEN t ELSE NoThread
           c == [who |-> w, flags |-> fl, resp |-> t]
<1>0. ctl \in [Hosts -> Ctls] /\ ctl[h] \in Ctls /\ t \in Threads \cup {NoThread} /\ ctl[h].flags \subseteq R!Flags
  BY RequestTyped DEF RequestInv, Ctls
<1>1. /\ t # NoThread /\ ctl[h].resp # t /\ ctl' = [ctl EXCEPT ![h] = c]
      /\ th' = th /\ mutex' = mutex /\ present' = present /\ bounce' = bounce /\ note' = note
  BY <1>0 DEF R!CommandDone
<1>2. c \in Ctls /\ c.who = w /\ c.flags = fl /\ c.resp = t /\ w \in {t, NoThread}
  BY <1>0, <1>1 DEF Ctls, R!Flags
<1> HIDE DEF c
<1>3. R!TypeOK' /\ R!ResultIsOwn'
  BY <1>0, <1>1, <1>2, RequestTyped DEF RequestInv, R!ResultIsOwn, R!TypeOK, Ctls, Requests
<1>4. Owned'
  BY <1>1 DEF RequestInv, Owned, R!MutexIsReturned
<1>5. ASSUME note = "clean"
      PROVE  th[t].pc \in Active /\ th[t].host = h /\ Served(t, th[t], c)
  <2>1. t \in Threads /\ th[t].pc \in Active /\ th[t].host = h /\ Served(t, th[t], ctl[h])
    BY <1>1, <1>5, WhoIsServed
  <2> QED BY <1>1, <1>2, <2>1 DEF Served
<1>6. Sole'
  BY <1>0, <1>1, <1>2, <1>5, SoleAnswered
<1>7. Bounced'
  <2>1. \A g \in Hosts : "xfer" \in ctl'[g].flags => "xfer" \in ctl[g].flags
    BY <1>0, <1>1, <1>2
  <2>2. \A u \in Threads : th[u].host \in Hosts
    BY RequestTyped DEF RequestInv, Requests
  <2> QED BY <1>1, <2>1, <2>2 DEF RequestInv, Bounced
<1> QED BY <1>3, <1>4, <1>6, <1>7 DEF RequestInv

LEMMA DataDoneStep ==
  ASSUME RequestInv, NEW h \in Hosts, R!DataDone(h) PROVE RequestInv'
<1> DEFINE t == ctl[h].who
           fl == ctl[h].flags \cup {"xfer"}
           c == [ctl[h] EXCEPT !.who = NoThread, !.flags = fl]
           lost == th[t].kind = "write" /\ bounce # t
<1>0. ctl \in [Hosts -> Ctls] /\ ctl[h] \in Ctls /\ t \in Threads \cup {NoThread} /\ ctl[h].flags \subseteq R!Flags
  BY RequestTyped DEF RequestInv, Ctls
<1>1. /\ t # NoThread /\ ctl[h].resp = t /\ ctl' = [ctl EXCEPT ![h] = c]
      /\ th' = th /\ mutex' = mutex /\ present' = present
      /\ bounce' = (IF th[t].kind = "read" THEN t ELSE bounce)
  BY <1>0 DEF R!DataDone
<1>2. note' = (IF lost /\ note = "clean" THEN "wrongData" ELSE note)
  BY DEF R!DataDone, R!Note
<1>3. c \in Ctls /\ c.who = NoThread /\ c.flags = fl /\ c.resp = ctl[h].resp
  <2>1. fl \in SUBSET R!Flags
    BY <1>0 DEF R!Flags
  <2> HIDE DEF fl
  <2> QED BY <1>0, <2>1 DEF Ctls
<1>4. ASSUME note = "clean"
      PROVE  /\ t \in Threads /\ th[t].pc \in Active /\ th[t].host = h /\ th[t].kind \in R!Waiting
             /\ Served(t, th[t], ctl[h]) /\ (th[t].kind \in R!Data => Using(th[t])) /\ ~lost
  <2>1. t \in Threads /\ th[t].pc \in Active /\ th[t].host = h /\ Served(t, th[t], ctl[h])
    BY <1>1, <1>4, WhoIsServed
  <2>2. th[t].kind \in R!Waiting
    BY <1>1, <2>1 DEF Served
  <2>3. th[t].kind \in R!Data => Using(th[t])
    BY <2>1 DEF Using, Active
  <2>4. ~lost
    BY <1>4, <2>1, <2>3 DEF RequestInv, Bounced, R!Data
  <2> QED BY <2>1, <2>2, <2>3, <2>4
<1> HIDE DEF c, lost
<1>5. note' = note
  BY <1>2, <1>4
<1>6. R!TypeOK' /\ R!ResultIsOwn'
  BY <1>0, <1>1, <1>3, <1>5, RequestTyped DEF RequestInv, R!ResultIsOwn, R!TypeOK, Ctls, Requests
<1>7. Owned'
  BY <1>1 DEF RequestInv, Owned, R!MutexIsReturned
<1>8. ASSUME note = "clean" PROVE Served(t, th[t], c)
  BY <1>1, <1>3, <1>4, <1>8 DEF Served, Active
<1>9. Sole'
  BY <1>0, <1>1, <1>3, <1>4, <1>5, <1>8, SoleAnswered
<1>10. Bounced'
  <2> SUFFICES ASSUME note' = "clean", NEW u \in Threads, Using(th'[u])
               PROVE  /\ \A v \in Threads : Using(th'[v]) => v = u
                      /\ th'[u].kind = "write" => bounce' = u
                      /\ (th'[u].kind = "read" /\ (th'[u].pc = "copy"
                             \/ "xfer" \in ctl'[th'[u].host].flags)) => bounce' = u
    BY DEF Bounced
  <2>1. \A v \in Threads : Using(th[v]) => v = u
    BY <1>1, <1>5 DEF RequestInv, Bounced
  <2>2. CASE u = t
    <3>1. th[t].kind = "write" => bounce = t
      BY <1>1, <1>5, <2>2 DEF RequestInv, Bounced
    <3> QED BY <1>1, <2>1, <2>2, <3>1
  <2>3. CASE u # t
    <3>1. th[t].kind \notin R!Data /\ bounce' = bounce
      BY <1>1, <1>4, <1>5, <2>1, <2>3 DEF R!Data
    <3>2. th[u].pc \notin Outside /\ th[t].pc \notin Outside
      BY <1>1, <1>4, <1>5 DEF Using, Active, Outside
    <3>3. th[u].host # h /\ th[u].host \in Hosts
      BY <1>4, <1>5, <2>3, <3>2, RequestTyped DEF RequestInv, Owned, Requests
    <3>4. ctl'[th[u].host] = ctl[th[u].host]
      BY <1>0, <1>1, <3>3
    <3> QED BY <1>1, <1>5, <2>1, <3>1, <3>4 DEF RequestInv, Bounced
  <2> QED BY <2>2, <2>3
<1> QED BY <1>6, <1>7, <1>9, <1>10 DEF RequestInv

LEMMA FailsStep ==
  ASSUME RequestInv, NEW h \in Hosts, R!Fails(h) PROVE RequestInv'
<1> DEFINE t == ctl[h].who
           fl == ctl[h].flags \cup {"err"}
           c == [ctl[h] EXCEPT !.flags = fl]
<1>0. ctl \in [Hosts -> Ctls] /\ ctl[h] \in Ctls /\ t \in Threads \cup {NoThread} /\ ctl[h].flags \subseteq R!Flags
  BY RequestTyped DEF RequestInv, Ctls
<1>1. /\ t # NoThread /\ ctl' = [ctl EXCEPT ![h] = c]
      /\ th' = th /\ mutex' = mutex /\ present' = present /\ bounce' = bounce /\ note' = note
  BY <1>0 DEF R!Fails
<1>2. c \in Ctls /\ c.who = t /\ c.flags = fl /\ c.resp = ctl[h].resp
  <2>1. fl \in SUBSET R!Flags
    BY <1>0 DEF R!Flags
  <2> HIDE DEF fl
  <2> QED BY <1>0, <2>1 DEF Ctls
<1> HIDE DEF c
<1>3. R!TypeOK' /\ R!ResultIsOwn'
  BY <1>0, <1>1, <1>2, RequestTyped DEF RequestInv, R!ResultIsOwn, R!TypeOK, Ctls, Requests
<1>4. Owned'
  BY <1>1 DEF RequestInv, Owned, R!MutexIsReturned
<1>5. ASSUME note = "clean"
      PROVE  th[t].pc \in Active /\ th[t].host = h /\ Served(t, th[t], c)
  <2>1. t \in Threads /\ th[t].pc \in Active /\ th[t].host = h /\ Served(t, th[t], ctl[h])
    BY <1>1, <1>5, WhoIsServed
  <2> QED BY <1>1, <1>2, <2>1 DEF Served
<1>6. Sole'
  BY <1>0, <1>1, <1>2, <1>5, SoleAnswered
<1>7. Bounced'
  <2>1. \A g \in Hosts : "xfer" \in ctl'[g].flags => "xfer" \in ctl[g].flags
    BY <1>0, <1>1, <1>2
  <2>2. \A u \in Threads : th[u].host \in Hosts
    BY RequestTyped DEF RequestInv, Requests
  <2> QED BY <1>1, <2>1, <2>2 DEF RequestInv, Bounced
<1> QED BY <1>3, <1>4, <1>6, <1>7 DEF RequestInv

LEMMA CardEventStep ==
  ASSUME RequestInv, NEW h \in Hosts, R!CardEvent(h) PROVE RequestInv'
<1> DEFINE c == [ctl[h] EXCEPT !.flags = {}]
           taken == ctl[h].flags # {}
<1>0. ctl \in [Hosts -> Ctls] /\ ctl[h] \in Ctls /\ present \in [Hosts -> BOOLEAN]
  BY RequestTyped DEF RequestInv
<1>1. /\ ctl' = [ctl EXCEPT ![h] = c] /\ th' = th /\ mutex' = mutex /\ bounce' = bounce
      /\ present' = [present EXCEPT ![h] = ~@]
      /\ note' = (IF taken /\ note = "clean" THEN "excused" ELSE note)
  BY <1>0 DEF R!CardEvent, R!Note
<1>2. c \in Ctls /\ (~taken => c = ctl[h])
  BY <1>0 DEF Ctls
<1>3. present' \in [Hosts -> BOOLEAN]
  BY <1>0, <1>1
<1> HIDE DEF c, taken
<1>4. R!TypeOK' /\ R!ResultIsOwn'
  BY <1>0, <1>1, <1>2, <1>3, RequestTyped DEF RequestInv, R!ResultIsOwn, R!TypeOK, Ctls, Requests
<1>5. Owned'
  BY <1>1 DEF RequestInv, Owned, R!MutexIsReturned
<1>6. note' = "clean" => note = "clean" /\ ctl' = ctl
  BY <1>0, <1>1, <1>2
<1>7. Sole' /\ Bounced'
  BY <1>1, <1>6 DEF RequestInv, Sole, Bounced
<1> QED BY <1>4, <1>5, <1>7 DEF RequestInv

LEMMA RequestNext == RequestInv /\ [R!Next]_(R!sdhcVars) => RequestInv'
<1> SUFFICES ASSUME RequestInv, [R!Next]_(R!sdhcVars) PROVE RequestInv'
  OBVIOUS
<1>1. ASSUME NEW t \in Threads, R!Advance(t) PROVE RequestInv'
  <2>1. CASE R!NoCard(t) \/ R!BusBusy(t)
    BY <2>1, GoneOn DEF R!NoCard, R!BusBusy, R!At
  <2> QED BY <1>1, <2>1, LockStep, LockTimeoutStep, PrepareStep, StartStep, PollStep, PollXferStep,
             PollErrorStep, PollTimeoutStep, RecoverStep, CopyStep, UnlockStep DEF R!Advance
<1>2. CASE UNCHANGED R!sdhcVars
  <2>1. th' = th /\ mutex' = mutex /\ present' = present /\ ctl' = ctl /\ bounce' = bounce /\ note' = note
    BY <1>2 DEF R!sdhcVars
  <2>2. R!TypeOK' /\ R!ResultIsOwn'
    BY <2>1 DEF RequestInv, R!TypeOK, R!ResultIsOwn
  <2>3. Owned' /\ Sole' /\ Bounced'
    BY <2>1 DEF RequestInv, Owned, R!MutexIsReturned, Sole, Bounced
  <2> QED BY <2>2, <2>3 DEF RequestInv
<1> QED BY <1>1, <1>2, RequestStep, RecoveryFailsStep, CommandDoneStep, DataDoneStep,
           FailsStep, CardEventStep DEF R!Next

THEOREM RequestIsSound == R!Spec => []RequestInv
BY RequestInit, RequestNext, PTL DEF R!Spec

(* What a request of sdhc_hpmicro.c that is routed by its kind returns is   *)
(* its own data and response, and a timeout is the card's, unless requests  *)
(* overlapped in the shared bounce buffer, one was given up while the       *)
(* controller went on, or the interrupt took a polled flag; access_mutex is *)
(* held inside a request only.                                              *)
THEOREM RequestsOwn == Spec => []ResultIsOwn
<1>1. RequestInv => ResultIsOwn
  BY DEF RequestInv, Owned, ResultIsOwn
<1> QED BY <1>1, RequestIsSound, UnionIsEach, PTL
-------------------------------------------------------------------------------
(* UdcCtrl.  While a direction is not soiled its queue holds what the host  *)
(* waits for and nothing else: OUT exactly one buffer, of the transfer the  *)
(* host is in, when the endpoint is busy; IN what the stack was asked for,  *)
(* and the request is pending, refused or answered, once.  OUT is soiled    *)
(* only with IN, which alone is made exact again, by a dequeue.             *)
HostStates == [n : C!Numbers, kind : {"in", "out", "none"}, at : {"idle", "data", "status"}]
Stages     == {"setup", "nodata", "datain", "dataout", "statusin", "statusout", "error"}
InEps      == [fifo : Seq(C!Numbers), busy : BOOLEAN, hw : C!Numbers]
OutBufs    == [of : C!Numbers, freed : BOOLEAN]
OutEps     == [fifo : Seq(OutBufs), busy : BOOLEAN, hw : C!Numbers]
UsbdStates == [pc : {"idle", "peek", "claim", "xfer", "unmark"}, buf : C!Numbers]

CtrlTyped ==
    /\ host \in HostStates /\ stage \in Stages /\ setupOf \in C!Numbers
    /\ ctrlIn \in InEps /\ ctrlOut \in OutEps /\ evts \in Seq(C!Numbers) /\ usbd \in UsbdStates
    /\ stall \in C!Numbers /\ upsets \in 0..MaxUpsets /\ stale = {}
    /\ soiled \in {{}, {"in"}, {"in", "out"}}
    /\ host.at # "idle" => host.n # 0

Emptied == usbd.pc = "unmark" => ctrlIn.fifo = <<>>

OutOwn == "out" \notin soiled =>
    /\ setupOf = host.n
    /\ ctrlOut.busy => /\ ctrlOut.fifo = <<[of |-> host.n, freed |-> FALSE]>>
                       /\ ctrlOut.hw = host.n /\ host.at # "idle"
                       /\ host.at = "status" => (host.kind = "in" /\ stage = "statusout")
                       /\ host.at = "data" => host.kind = "out"
    /\ ~ctrlOut.busy => (ctrlOut.fifo = <<>> /\ ctrlOut.hw = 0)
    /\ host.at = "data" => /\ host.kind \in {"in", "out"}
                           /\ stage = (IF host.kind = "in" THEN "datain" ELSE "dataout")
                           /\ host.kind = "out" => ctrlOut.busy
    /\ (host.at = "status" /\ host.kind # "in") =>
           stage = (IF host.kind = "out" THEN "statusin" ELSE "nodata")

AwaitsIn == \/ host.kind = "in" /\ host.at = "data"
            \/ host.kind # "in" /\ host.at = "status"
InEmpty  == ctrlIn.fifo = <<>> /\ ~ctrlIn.busy /\ ctrlIn.hw = 0

InOwn == soiled = {} =>
    /\ usbd.pc # "unmark"
    /\ evts # <<>> => (evts = <<host.n>> /\ AwaitsIn /\ InEmpty /\ usbd.pc = "idle" /\ stall = 0)
    /\ stall # 0 => (evts = <<>> /\ InEmpty /\ usbd.pc = "idle")
    /\ usbd.pc \in {"claim", "xfer"} => usbd.buf = host.n
    /\ ctrlIn.fifo # <<>> => (AwaitsIn /\ ctrlIn.fifo = <<host.n>>)
    /\ ctrlIn.fifo = <<>> => usbd.pc = "idle"
    /\ ctrlIn.busy <=> (ctrlIn.fifo # <<>> /\ usbd.pc \in {"idle", "xfer"})
    /\ ctrlIn.hw = (IF ctrlIn.fifo # <<>> /\ usbd.pc = "idle" THEN host.n ELSE 0)

CtrlInv == CtrlTyped /\ Emptied /\ OutOwn /\ InOwn

LEMMA CtrlIsTyped == CtrlInv => C!TypeOK /\ CtrlIsOwn
<1> SUFFICES ASSUME CtrlInv PROVE C!TypeOK /\ CtrlIsOwn
  OBVIOUS
<1>1. CtrlTyped /\ OutOwn
  BY DEF CtrlInv
<1>2. DOMAIN ctrlIn = {"fifo", "busy", "hw"} /\ ctrlIn.hw \in C!Numbers /\ ctrlIn.busy \in BOOLEAN
      /\ ctrlIn.fifo \in Seq(C!Numbers)
  BY <1>1 DEF CtrlTyped, InEps
<1>3. DOMAIN ctrlOut = {"fifo", "busy", "hw"} /\ ctrlOut.hw \in C!Numbers /\ ctrlOut.busy \in BOOLEAN
      /\ ctrlOut.fifo \in Seq(OutBufs)
  BY <1>1 DEF CtrlTyped, OutEps
<1>4. \A i \in DOMAIN ctrlIn.fifo : ctrlIn.fifo[i] \in C!Numbers
  BY <1>2
<1>5. \A i \in DOMAIN ctrlOut.fifo : ctrlOut.fifo[i] \in [of : C!Numbers, freed : BOOLEAN]
  <2>1. \A i \in DOMAIN ctrlOut.fifo : ctrlOut.fifo[i] \in OutBufs
    BY <1>3
  <2> QED BY <2>1 DEF OutBufs
<1>6. \A i \in DOMAIN evts : evts[i] \in C!Numbers
  BY <1>1 DEF CtrlTyped
<1>7. C!TypeOK
  BY <1>1, <1>2, <1>3, <1>4, <1>5, <1>6 DEF C!TypeOK, CtrlTyped, HostStates, Stages, UsbdStates
<1>8. "out" \notin soiled => \A i \in DOMAIN ctrlOut.fifo : ~ctrlOut.fifo[i].freed
  <2> SUFFICES ASSUME "out" \notin soiled PROVE \A i \in DOMAIN ctrlOut.fifo : ~ctrlOut.fifo[i].freed
    OBVIOUS
  <2>1. ctrlOut.fifo = <<>> \/ ctrlOut.fifo = <<[of |-> host.n, freed |-> FALSE]>>
    BY <1>1, <1>3 DEF OutOwn
  <2> QED BY <2>1
<1>9. CtrlIsOwn
  BY <1>1, <1>8 DEF CtrlTyped, CtrlIsOwn, C!CtrlIsOwn
<1> QED BY <1>7, <1>9

LEMMA CtrlInit == C!Init => CtrlInv
<1> SUFFICES ASSUME C!Init PROVE CtrlInv
  OBVIOUS
<1> USE CtrlAssumption DEF CtrlAssumption, C!Numbers
<1>1. /\ host = [n |-> 0, kind |-> "none", at |-> "idle"] /\ stage = "setup" /\ setupOf = 0
      /\ ctrlIn = [fifo |-> <<>>, busy |-> FALSE, hw |-> 0] /\ ctrlOut = ctrlIn
      /\ evts = <<>> /\ usbd = [pc |-> "idle", buf |-> 0]
      /\ stall = 0 /\ upsets = 0 /\ soiled = {} /\ stale = {}
  BY DEF C!Init
<1>2. CtrlTyped
  BY <1>1 DEF CtrlTyped, HostStates, Stages, InEps, OutEps, UsbdStates
<1>3. Emptied /\ OutOwn
  BY <1>1 DEF Emptied, OutOwn
<1>4. InOwn
  BY <1>1 DEF InOwn, InEmpty, AwaitsIn
<1> QED BY <1>2, <1>3, <1>4 DEF CtrlInv

(* The queues are short.                                                    *)
LEMMA OneQueued ==
  ASSUME NEW x
  PROVE  /\ Append(<<>>, x) = <<x>> /\ Head(<<x>>) = x /\ Tail(<<x>>) = <<>> /\ <<x>> # <<>>
OBVIOUS

(* What happens to the bookkeeping.                                         *)
LEMMA UpsetIs ==
  ASSUME CtrlTyped, NEW D \in {{}, {"in"}, {"in", "out"}}, C!Upset(D)
  PROVE  /\ upsets' \in 0..MaxUpsets /\ stale' = {} /\ soiled' = soiled \cup D
         /\ soiled' \in {{}, {"in"}, {"in", "out"}}
         /\ soiled' = {} => (soiled = {} /\ D = {})
         /\ "out" \notin soiled' => ("out" \notin soiled /\ "out" \notin D)
<1> USE CtrlAssumption DEF CtrlAssumption
<1>1. upsets' = upsets + (IF D # {} THEN 1 ELSE 0) /\ upsets' <= MaxUpsets
      /\ soiled' = soiled \cup D /\ stale' = stale
  BY DEF C!Upset
<1>2. upsets \in 0..MaxUpsets /\ stale = {} /\ soiled \in {{}, {"in"}, {"in", "out"}}
  BY DEF CtrlTyped
<1>3. upsets' \in 0..MaxUpsets
  BY <1>1, <1>2
<1> QED BY <1>1, <1>2, <1>3

(* The control OUT endpoint fed: exact when it was idle and empty.          *)
LEMMA Fed ==
  ASSUME NEW e \in OutEps, NEW n \in C!Numbers
  PROVE  /\ C!FeedDout(e, n) \in OutEps
         /\ (~e.busy /\ e.fifo = <<>>) =>
               /\ C!FeedDout(e, n).busy /\ C!FeedDout(e, n).hw = n
               /\ C!FeedDout(e, n).fifo = <<[of |-> n, freed |-> FALSE]>>
<1> DEFINE bT == [of |-> n, freed |-> TRUE]
           bF == [of |-> n, freed |-> FALSE]
           fT == Append(e.fifo, bT)
           fF == Append(e.fifo, bF)
           qT == [e EXCEPT !.fifo = fT]
           qF == [e EXCEPT !.fifo = fF]
<1>1. bT \in OutBufs /\ bF \in OutBufs /\ e.fifo \in Seq(OutBufs)
  BY DEF OutBufs, OutEps
<1>2. C!FeedDout(e, n) = (IF e.busy THEN qT ELSE [qF EXCEPT !.busy = TRUE, !.hw = n])
  BY DEF C!FeedDout, C!Primed
<1> HIDE DEF bT, bF
<1>3. fT \in Seq(OutBufs) /\ fF \in Seq(OutBufs) /\ (e.fifo = <<>> => fF = <<bF>>)
  <2>1. fT \in Seq(OutBufs)
    BY <1>1
  <2>2. fF \in Seq(OutBufs)
    BY <1>1
  <2>3. e.fifo = <<>> => fF = <<bF>>
    BY OneQueued
  <2> QED BY <2>1, <2>2, <2>3
<1> HIDE DEF fT, fF
<1>4. qT \in OutEps /\ qF \in OutEps /\ qF.fifo = fF
  BY <1>3 DEF OutEps
<1> HIDE DEF qT, qF
<1>5. [qF EXCEPT !.busy = TRUE, !.hw = n] \in OutEps
      /\ [qF EXCEPT !.busy = TRUE, !.hw = n].fifo = fF /\ [qF EXCEPT !.busy = TRUE, !.hw = n].hw = n
      /\ [qF EXCEPT !.busy = TRUE, !.hw = n].busy
  BY <1>4 DEF OutEps
<1> QED BY <1>2, <1>3, <1>4, <1>5 DEF bF

(* Steps that leave the OUT direction alone.                                *)
LEMMA OutKept ==
  ASSUME CtrlInv, host' = host, stage' = stage, setupOf' = setupOf, ctrlOut' = ctrlOut,
         "out" \notin soiled' => "out" \notin soiled
  PROVE  OutOwn'
BY DEF CtrlInv, OutOwn

(* One lemma per step of the thread of the stack.                           *)
LEMMA Unqueued ==
  ASSUME CtrlInv, evts # <<>>
  PROVE  /\ Head(evts) \in C!Numbers /\ Tail(evts) \in Seq(C!Numbers)
         /\ soiled = {} => (Head(evts) = host.n /\ Tail(evts) = <<>>)
<1>1. evts \in Seq(C!Numbers)
  BY DEF CtrlInv, CtrlTyped
<1>2. soiled = {} => evts = <<host.n>>
  BY DEF CtrlInv, InOwn
<1>3. Head(evts) \in C!Numbers
  BY <1>1
<1>4. Tail(evts) \in Seq(C!Numbers)
  BY <1>1
<1>5. evts = <<host.n>> => (Head(evts) = host.n /\ Tail(evts) = <<>>)
  BY OneQueued
<1> QED BY <1>2, <1>3, <1>4, <1>5

LEMMA RefuseStep == CtrlInv /\ C!Refuse => CtrlInv'
<1> SUFFICES ASSUME CtrlInv, C!Refuse PROVE CtrlInv'
  OBVIOUS
<1>1. /\ usbd.pc = "idle" /\ evts # <<>> /\ Head(evts) # 0
      /\ evts' = Tail(evts) /\ stall' = Head(evts)
      /\ host' = host /\ stage' = stage /\ setupOf' = setupOf /\ ctrlIn' = ctrlIn
      /\ ctrlOut' = ctrlOut /\ usbd' = usbd /\ upsets' = upsets /\ soiled' = soiled /\ stale' = stale
  BY DEF C!Refuse, C!hist
<1>2. CtrlTyped' /\ Emptied'
  BY <1>1, Unqueued DEF CtrlInv, CtrlTyped, Emptied
<1>3. OutOwn'
  BY <1>1, OutKept
<1>4. InOwn'
  BY <1>1, Unqueued DEF CtrlInv, InOwn, InEmpty, AwaitsIn
<1> QED BY <1>2, <1>3, <1>4 DEF CtrlInv

LEMMA AnswerStep == CtrlInv /\ C!Answer => CtrlInv'
<1> SUFFICES ASSUME CtrlInv, C!Answer PROVE CtrlInv'
  OBVIOUS
<1> DEFINE q  == Append(ctrlIn.fifo, Head(evts))
           in == [ctrlIn EXCEPT !.fifo = q]
           u  == [usbd EXCEPT !.pc = "peek"]
<1>0. ctrlIn \in InEps /\ ctrlIn.fifo \in Seq(C!Numbers) /\ usbd \in UsbdStates
  BY DEF CtrlInv, CtrlTyped, InEps
<1>1. /\ usbd.pc = "idle" /\ evts # <<>> /\ Head(evts) # 0
      /\ evts' = Tail(evts) /\ ctrlIn' = in /\ usbd' = u
      /\ host' = host /\ stage' = stage /\ setupOf' = setupOf
      /\ ctrlOut' = ctrlOut /\ stall' = stall /\ upsets' = upsets /\ soiled' = soiled /\ stale' = stale
  BY DEF C!Answer, C!hist
<1>2. q \in Seq(C!Numbers) /\ (ctrlIn.fifo = <<>> => q = <<Head(evts)>>)
  <2>1. Head(evts) \in C!Numbers
    BY <1>1, Unqueued
  <2>2. q \in Seq(C!Numbers)
    BY <1>0, <2>1
  <2>3. ctrlIn.fifo = <<>> => q = <<Head(evts)>>
    BY OneQueued
  <2> QED BY <2>2, <2>3
<1> HIDE DEF q
<1>3. in \in InEps /\ in.fifo = q /\ in.busy = ctrlIn.busy /\ in.hw = ctrlIn.hw
  BY <1>0, <1>2 DEF InEps
<1>4. u \in UsbdStates /\ u.pc = "peek"
  BY <1>0 DEF UsbdStates
<1> HIDE DEF in, u
<1>5. CtrlTyped' /\ Emptied'
  BY <1>1, <1>3, <1>4, Unqueued DEF CtrlInv, CtrlTyped, Emptied
<1>6. OutOwn'
  BY <1>1, OutKept
<1>7. InOwn'
  <2>1. CASE soiled = {}
    <3>1. ctrlIn.fifo = <<>> /\ ~ctrlIn.busy /\ ctrlIn.hw = 0 /\ AwaitsIn /\ stall = 0
      BY <1>1, <2>1 DEF CtrlInv, InOwn, InEmpty
    <3>2. Head(evts) = host.n /\ Tail(evts) = <<>>
      BY <1>1, <2>1, Unqueued
    <3>3. q = <<host.n>> /\ q # <<>>
      BY <1>2, <3>1, <3>2, OneQueued
    <3> QED BY <1>1, <1>3, <1>4, <3>1, <3>2, <3>3 DEF InOwn, InEmpty, AwaitsIn
  <2>2. CASE soiled # {}
    BY <1>1, <2>2 DEF InOwn
  <2> QED BY <2>1, <2>2
<1> QED BY <1>5, <1>6, <1>7 DEF CtrlInv

LEMMA PeekStep == CtrlInv /\ C!Peek => CtrlInv'
<1> SUFFICES ASSUME CtrlInv, C!Peek PROVE CtrlInv'
  OBVIOUS
<1> USE CtrlAssumption DEF CtrlAssumption
<1>1. /\ usbd.pc = "peek"
      /\ usbd' = (IF ctrlIn.fifo = <<>> THEN [pc |-> "idle", buf |-> 0]
                  ELSE [pc |-> "claim", buf |-> Head(ctrlIn.fifo)])
      /\ host' = host /\ stage' = stage /\ setupOf' = setupOf /\ ctrlIn' = ctrlIn /\ evts' = evts
      /\ ctrlOut' = ctrlOut /\ stall' = stall /\ upsets' = upsets /\ soiled' = soiled /\ stale' = stale
  BY DEF C!Peek, C!hist
<1>2. ctrlIn.fifo \in Seq(C!Numbers)
  BY DEF CtrlInv, CtrlTyped, InEps
<1>3. CASE ctrlIn.fifo = <<>>
  <2>1. usbd' = [pc |-> "idle", buf |-> 0] /\ soiled # {}
    BY <1>1, <1>3 DEF CtrlInv, InOwn
  <2>2. usbd' \in UsbdStates /\ usbd'.pc = "idle"
    BY <2>1 DEF UsbdStates, C!Numbers
  <2> QED BY <1>1, <2>1, <2>2, OutKept DEF CtrlInv, CtrlTyped, Emptied, InOwn
<1>4. CASE ctrlIn.fifo # <<>>
  <2>1. Head(ctrlIn.fifo) \in C!Numbers
    BY <1>2, <1>4
  <2>2. usbd' \in UsbdStates /\ usbd'.pc = "claim" /\ usbd'.buf = Head(ctrlIn.fifo)
    BY <1>1, <1>4, <2>1 DEF UsbdStates
  <2>3. CtrlTyped' /\ Emptied'
    BY <1>1, <2>2 DEF CtrlInv, CtrlTyped, Emptied
  <2>4. InOwn'
    <3>1. CASE soiled = {}
      <4>1. /\ ctrlIn.fifo = <<host.n>> /\ AwaitsIn /\ evts = <<>> /\ stall = 0
            /\ ~ctrlIn.busy /\ ctrlIn.hw = 0
        BY <1>1, <1>4, <3>1 DEF CtrlInv, InOwn
      <4>2. Head(ctrlIn.fifo) = host.n
        BY <4>1, OneQueued
      <4> QED BY <1>1, <1>4, <2>2, <4>1, <4>2 DEF InOwn, AwaitsIn, InEmpty
    <3>2. CASE soiled # {}
      BY <1>1, <3>2 DEF InOwn
    <3> QED BY <3>1, <3>2
  <2> QED BY <1>1, <2>3, <2>4, OutKept DEF CtrlInv
<1> QED BY <1>3, <1>4

LEMMA ClaimStep == CtrlInv /\ C!Claim => CtrlInv'
<1> SUFFICES ASSUME CtrlInv, C!Claim PROVE CtrlInv'
  OBVIOUS
<1> USE CtrlAssumption DEF CtrlAssumption
<1> DEFINE in == [ctrlIn EXCEPT !.busy = TRUE]
           u  == IF ctrlIn.busy THEN [pc |-> "idle", buf |-> 0] ELSE [usbd EXCEPT !.pc = "xfer"]
<1>0. ctrlIn \in InEps /\ usbd \in UsbdStates
  BY DEF CtrlInv, CtrlTyped
<1>1. /\ usbd.pc = "claim" /\ usbd' = u /\ ctrlIn' = in
      /\ host' = host /\ stage' = stage /\ setupOf' = setupOf /\ evts' = evts
      /\ ctrlOut' = ctrlOut /\ stall' = stall /\ upsets' = upsets /\ soiled' = soiled /\ stale' = stale
  BY DEF C!Claim, C!hist
<1>2. in \in InEps /\ in.fifo = ctrlIn.fifo /\ in.busy /\ in.hw = ctrlIn.hw
  BY <1>0 DEF InEps
<1>3. /\ u \in UsbdStates /\ u.pc \in {"idle", "xfer"}
      /\ ~ctrlIn.busy => (u.pc = "xfer" /\ u.buf = usbd.buf)
  BY <1>0 DEF UsbdStates, C!Numbers
<1> HIDE DEF in, u
<1>4. CtrlTyped' /\ Emptied'
  BY <1>1, <1>2, <1>3 DEF CtrlInv, CtrlTyped, Emptied
<1>5. InOwn'
  <2>1. CASE soiled = {}
    <3>1. /\ ctrlIn.fifo # <<>> /\ ctrlIn.fifo = <<host.n>> /\ AwaitsIn /\ evts = <<>> /\ stall = 0
          /\ ~ctrlIn.busy /\ ctrlIn.hw = 0 /\ usbd.buf = host.n
      BY <1>1, <2>1 DEF CtrlInv, InOwn
    <3> QED BY <1>1, <1>2, <1>3, <3>1 DEF InOwn, AwaitsIn, InEmpty
  <2>2. CASE soiled # {}
    BY <1>1, <2>2 DEF InOwn
  <2> QED BY <2>1, <2>2
<1> QED BY <1>1, <1>4, <1>5, OutKept DEF CtrlInv

LEMMA XferStep == CtrlInv /\ C!Xfer => CtrlInv'
<1> SUFFICES ASSUME CtrlInv, C!Xfer PROVE CtrlInv'
  OBVIOUS
<1> USE CtrlAssumption DEF CtrlAssumption
<1> DEFINE in == [ctrlIn EXCEPT !.busy = TRUE, !.hw = usbd.buf]
<1>0. ctrlIn \in InEps /\ usbd \in UsbdStates
  BY DEF CtrlInv, CtrlTyped
<1>1. /\ usbd.pc = "xfer" /\ usbd' = [pc |-> "idle", buf |-> 0] /\ ctrlIn' = in
      /\ host' = host /\ stage' = stage /\ setupOf' = setupOf /\ evts' = evts
      /\ ctrlOut' = ctrlOut /\ stall' = stall /\ upsets' = upsets /\ soiled' = soiled /\ stale' = stale
  BY DEF C!Xfer, C!hist, C!Primed
<1>2. in \in InEps /\ in.fifo = ctrlIn.fifo /\ in.busy /\ in.hw = usbd.buf
  BY <1>0 DEF InEps, UsbdStates
<1>3. usbd' \in UsbdStates /\ usbd'.pc = "idle"
  BY <1>1 DEF UsbdStates, C!Numbers
<1> HIDE DEF in
<1>4. CtrlTyped' /\ Emptied'
  BY <1>1, <1>2, <1>3 DEF CtrlInv, CtrlTyped, Emptied
<1>5. InOwn'
  <2>1. CASE soiled = {}
    <3>1. /\ ctrlIn.fifo # <<>> /\ ctrlIn.fifo = <<host.n>> /\ AwaitsIn /\ evts = <<>> /\ stall = 0
          /\ usbd.buf = host.n
      BY <1>1, <2>1 DEF CtrlInv, InOwn
    <3> QED BY <1>1, <1>2, <1>3, <3>1 DEF InOwn, AwaitsIn, InEmpty
  <2>2. CASE soiled # {}
    BY <1>1, <2>2 DEF InOwn
  <2> QED BY <2>1, <2>2
<1> QED BY <1>1, <1>4, <1>5, OutKept DEF CtrlInv

LEMMA DequeueStep == CtrlInv /\ C!Dequeue => CtrlInv'
<1> SUFFICES ASSUME CtrlInv, C!Dequeue PROVE CtrlInv'
  OBVIOUS
<1> DEFINE in == [ctrlIn EXCEPT !.fifo = <<>>]
           u  == [usbd EXCEPT !.pc = "unmark"]
<1>0. ctrlIn \in InEps /\ usbd \in UsbdStates
  BY DEF CtrlInv, CtrlTyped
<1>1. /\ evts # <<>> /\ Head(evts) = 0 /\ evts' = Tail(evts) /\ usbd' = u /\ ctrlIn' = in
      /\ host' = host /\ stage' = stage /\ setupOf' = setupOf
      /\ ctrlOut' = ctrlOut /\ stall' = stall /\ upsets' = upsets /\ soiled' = soiled /\ stale' = stale
  BY DEF C!Dequeue, C!hist
<1>2. in \in InEps /\ in.fifo = <<>>
  <2>1. <<>> \in Seq(C!Numbers)
    OBVIOUS
  <2> QED BY <1>0, <2>1 DEF InEps
<1>3. u \in UsbdStates
  BY <1>0 DEF UsbdStates
<1> HIDE DEF in, u
<1>4. CtrlTyped' /\ Emptied'
  BY <1>1, <1>2, <1>3, Unqueued DEF CtrlInv, CtrlTyped, Emptied
<1>5. soiled # {}       \* there is no event of a reset otherwise
  <2> SUFFICES ASSUME soiled = {} PROVE FALSE
    OBVIOUS
  <2>1. host.n = 0 /\ AwaitsIn
    BY <1>1, Unqueued DEF CtrlInv, InOwn
  <2> QED BY <2>1 DEF CtrlInv, CtrlTyped, AwaitsIn
<1> QED BY <1>1, <1>4, <1>5, OutKept DEF CtrlInv, InOwn

(* The one step that cleans a direction: nothing is queued, and nothing of  *)
(* an earlier transfer is on its way.                                       *)
LEMMA UnmarkStep == CtrlInv /\ C!Unmark => CtrlInv'
<1> SUFFICES ASSUME CtrlInv, C!Unmark PROVE CtrlInv'
  OBVIOUS
<1> DEFINE in == [ctrlIn EXCEPT !.busy = FALSE]
           u  == [usbd EXCEPT !.pc = "idle"]
           cleaned == soiled = {"in"} /\ C!Clean
<1>0. ctrlIn \in InEps /\ usbd \in UsbdStates
  BY DEF CtrlInv, CtrlTyped
<1>1. /\ usbd.pc = "unmark" /\ usbd' = u /\ ctrlIn' = in
      /\ soiled' = (IF cleaned THEN {} ELSE soiled)
      /\ host' = host /\ stage' = stage /\ setupOf' = setupOf /\ evts' = evts
      /\ ctrlOut' = ctrlOut /\ stall' = stall /\ upsets' = upsets /\ stale' = stale
  BY DEF C!Unmark
<1>2. in \in InEps /\ in.fifo = ctrlIn.fifo /\ ~in.busy /\ in.hw = ctrlIn.hw
  BY <1>0 DEF InEps
<1>3. u \in UsbdStates /\ u.pc = "idle"
  BY <1>0 DEF UsbdStates
<1>4. /\ cleaned => (soiled = {"in"} /\ ctrlIn.hw = 0 /\ stall = 0)
      /\ cleaned => (evts = <<>> \/ (evts = <<host.n>> /\ AwaitsIn))
  <2>1. <<host.kind, host.at>> \in {<<"in", "data">>, <<"none", "status">>} => AwaitsIn
    BY DEF AwaitsIn
  <2> QED BY <2>1 DEF C!Clean
<1> HIDE DEF in, u, cleaned
<1>5. soiled # {} /\ ctrlIn.fifo = <<>>
  BY <1>1 DEF CtrlInv, InOwn, Emptied
<1>6. CtrlTyped' /\ Emptied'
  BY <1>1, <1>2, <1>3, <1>5 DEF CtrlInv, CtrlTyped, Emptied
<1>7. OutOwn'
  BY <1>1, <1>4, OutKept
<1>8. InOwn'
  <2>1. CASE cleaned
    BY <1>1, <1>2, <1>3, <1>4, <1>5, <2>1 DEF InOwn, InEmpty, AwaitsIn
  <2>2. CASE ~cleaned
    BY <1>1, <1>5, <2>2 DEF InOwn
  <2> QED BY <2>1, <2>2
<1> QED BY <1>6, <1>7, <1>8 DEF CtrlInv

(* What the host and the interrupt do.                                      *)
LEMMA HostGivesUpStep == CtrlInv /\ C!HostGivesUp => CtrlInv'
<1> SUFFICES ASSUME CtrlInv, C!HostGivesUp PROVE CtrlInv'
  OBVIOUS
<1> DEFINE D == IF stall = host.n /\ ~ctrlOut.busy THEN {} ELSE C!InUse
           hst == [host EXCEPT !.at = "idle"]
<1>0. host \in HostStates
  BY DEF CtrlInv, CtrlTyped
<1>1. /\ stall # 0 /\ host' = hst /\ C!Upset(D)
      /\ stage' = stage /\ setupOf' = setupOf /\ ctrlIn' = ctrlIn /\ ctrlOut' = ctrlOut
      /\ evts' = evts /\ usbd' = usbd /\ stall' = stall
  BY DEF C!HostGivesUp
<1>2. D \in {{}, {"in"}, {"in", "out"}} /\ ("out" \notin D => ~ctrlOut.busy)
      /\ (D = {} => ~ctrlOut.busy)
  BY DEF C!InUse
<1>3. hst \in HostStates /\ hst.at = "idle" /\ hst.n = host.n
  BY <1>0 DEF HostStates
<1> HIDE DEF D, hst
<1>4. /\ upsets' \in 0..MaxUpsets /\ stale' = {} /\ soiled' \in {{}, {"in"}, {"in", "out"}}
      /\ soiled' = {} => (soiled = {} /\ D = {})
      /\ "out" \notin soiled' => ("out" \notin soiled /\ "out" \notin D)
  BY <1>1, <1>2, UpsetIs DEF CtrlInv
<1>5. CtrlTyped' /\ Emptied'
  BY <1>1, <1>3, <1>4 DEF CtrlInv, CtrlTyped, Emptied
<1>6. OutOwn'
  BY <1>1, <1>2, <1>3, <1>4 DEF CtrlInv, OutOwn
<1>7. InOwn'
  <2>1. CASE soiled' = {}
    <3>1. evts = <<>> /\ ctrlIn.fifo = <<>> /\ ~ctrlIn.busy /\ ctrlIn.hw = 0 /\ usbd.pc = "idle"
      BY <1>1, <1>4, <2>1 DEF CtrlInv, InOwn, InEmpty
    <3> QED BY <1>1, <3>1 DEF InOwn, InEmpty
  <2>2. CASE soiled' # {}
    BY <2>2 DEF InOwn
  <2> QED BY <2>1, <2>2
<1> QED BY <1>5, <1>6, <1>7 DEF CtrlInv

LEMMA BusResetStep == CtrlInv /\ C!BusReset => CtrlInv'
<1> SUFFICES ASSUME CtrlInv, C!BusReset PROVE CtrlInv'
  OBVIOUS
<1> USE CtrlAssumption DEF CtrlAssumption
<1> DEFINE in  == [ctrlIn EXCEPT !.hw = 0]
           out == [ctrlOut EXCEPT !.hw = 0]
           hst == [host EXCEPT !.at = "idle"]
           q   == Append(evts, 0)
<1>0. host \in HostStates /\ ctrlIn \in InEps /\ ctrlOut \in OutEps /\ evts \in Seq(C!Numbers)
      /\ 0 \in C!Numbers
  BY DEF CtrlInv, CtrlTyped, C!Numbers
<1>1. /\ host' = hst /\ C!Upset(C!InUse) /\ ctrlIn' = in /\ ctrlOut' = out /\ evts' = q /\ stall' = 0
      /\ stage' = stage /\ setupOf' = setupOf /\ usbd' = usbd
  BY DEF C!BusReset
<1>2. C!InUse \in {{"in"}, {"in", "out"}} /\ ("out" \notin C!InUse => ~ctrlOut.busy)
  BY DEF C!InUse
<1>3. hst \in HostStates /\ hst.at = "idle" /\ hst.n = host.n
  BY <1>0 DEF HostStates
<1>4. in \in InEps /\ in.fifo = ctrlIn.fifo
  BY <1>0 DEF InEps
<1>5. out \in OutEps /\ out.fifo = ctrlOut.fifo /\ out.busy = ctrlOut.busy /\ out.hw = 0
  BY <1>0 DEF OutEps
<1>6. q \in Seq(C!Numbers)
  BY <1>0
<1> HIDE DEF in, out, hst, q
<1>7. /\ upsets' \in 0..MaxUpsets /\ stale' = {} /\ soiled' \in {{}, {"in"}, {"in", "out"}}
      /\ soiled' # {}
      /\ "out" \notin soiled' => ("out" \notin soiled /\ "out" \notin C!InUse)
  BY <1>1, <1>2, UpsetIs DEF CtrlInv
<1>8. CtrlTyped' /\ Emptied'
  BY <1>0, <1>1, <1>3, <1>4, <1>5, <1>6, <1>7 DEF CtrlInv, CtrlTyped, Emptied
<1>9. OutOwn'
  BY <1>1, <1>2, <1>3, <1>5, <1>7 DEF CtrlInv, OutOwn
<1> QED BY <1>7, <1>8, <1>9 DEF CtrlInv, InOwn

LEMMA SetupIsLostStep == CtrlInv /\ C!SetupIsLost => CtrlInv'
<1> SUFFICES ASSUME CtrlInv, C!SetupIsLost PROVE CtrlInv'
  OBVIOUS
<1> USE CtrlAssumption DEF CtrlAssumption
<1>0. host.n \in C!Numbers
  BY DEF CtrlInv, CtrlTyped, HostStates
<1>1. PICK kind \in {"in", "out", "none"} :
         host' = [n |-> host.n + 1, kind |-> kind, at |-> IF kind = "none" THEN "status" ELSE "data"]
  BY DEF C!SetupIsLost
<1>2. /\ host.n < MaxXfers /\ stall' = 0 /\ C!Upset({"in", "out"})
      /\ stage' = stage /\ setupOf' = setupOf /\ ctrlIn' = ctrlIn /\ ctrlOut' = ctrlOut
      /\ evts' = evts /\ usbd' = usbd
  BY DEF C!SetupIsLost
<1>3. host' \in HostStates /\ host'.n # 0 /\ stall' \in C!Numbers
  BY <1>0, <1>1, <1>2 DEF HostStates, C!Numbers
<1>4. /\ upsets' \in 0..MaxUpsets /\ stale' = {} /\ soiled' \in {{}, {"in"}, {"in", "out"}}
      /\ "out" \in soiled'
  BY <1>2, UpsetIs DEF CtrlInv
<1>5. CtrlTyped' /\ Emptied'
  BY <1>2, <1>3, <1>4 DEF CtrlInv, CtrlTyped, Emptied
<1> QED BY <1>4, <1>5 DEF CtrlInv, OutOwn, InOwn

LEMMA SetupStep == CtrlInv /\ C!Setup => CtrlInv'
<1> SUFFICES ASSUME CtrlInv, C!Setup PROVE CtrlInv'
  OBVIOUS
<1> USE CtrlAssumption DEF CtrlAssumption
<1> DEFINE n == host.n + 1
           D == IF host.at = "idle" THEN {} ELSE C!InUse
           out1 == [ctrlOut EXCEPT !.hw = 0]
           in1  == [ctrlIn EXCEPT !.hw = 0]
<1>0. host \in HostStates /\ ctrlIn \in InEps /\ ctrlOut \in OutEps /\ evts \in Seq(C!Numbers)
      /\ 0 \in C!Numbers /\ host.n \in C!Numbers
  BY DEF CtrlInv, CtrlTyped, C!Numbers, HostStates
<1>1. host.n < MaxXfers /\ stall' = 0 /\ C!Upset(D) /\ usbd' = usbd
  BY DEF C!Setup
<1>2. PICK kind \in {"in", "out", "none"}, kept \in BOOLEAN :
         /\ host' = [n |-> n, kind |-> kind, at |-> IF kind = "none" THEN "status" ELSE "data"]
         /\ stage' = C!StageOf(kind) /\ setupOf' = n
         /\ ctrlIn' = (IF kept THEN ctrlIn ELSE in1)
         /\ ctrlOut' = (IF kind = "out" THEN C!FeedDout(IF kept THEN ctrlOut ELSE out1, n)
                        ELSE IF kept THEN ctrlOut ELSE out1)
         /\ evts' = (IF kind = "out" THEN evts ELSE Append(evts, n))
  BY DEF C!Setup
<1> DEFINE out == IF kept THEN ctrlOut ELSE out1
           hst == [n |-> n, kind |-> kind, at |-> IF kind = "none" THEN "status" ELSE "data"]
<1>3. n \in C!Numbers /\ n # 0
  BY <1>0, <1>1 DEF C!Numbers
<1>4. /\ stage' \in Stages
      /\ stage' = (IF kind = "in" THEN "datain" ELSE IF kind = "out" THEN "dataout" ELSE "nodata")
  BY <1>2 DEF C!StageOf, Stages
<1>5. /\ D \in {{}, {"in"}, {"in", "out"}}
      /\ D = {} => host.at = "idle"
      /\ "out" \notin D => (~ctrlOut.busy \/ host.at = "idle")
  BY DEF C!InUse
<1>6. ctrlIn' \in InEps /\ ctrlIn'.fifo = ctrlIn.fifo /\ ctrlIn'.busy = ctrlIn.busy
      /\ (ctrlIn.hw = 0 => ctrlIn'.hw = 0)
  <2>1. in1 \in InEps /\ in1.fifo = ctrlIn.fifo /\ in1.busy = ctrlIn.busy /\ in1.hw = 0
    BY <1>0 DEF InEps
  <2> HIDE DEF in1
  <2> QED BY <1>0, <1>2, <2>1
<1>7. out \in OutEps /\ out.fifo = ctrlOut.fifo /\ out.busy = ctrlOut.busy
      /\ (ctrlOut.hw = 0 => out.hw = 0)
  <2>1. out1 \in OutEps /\ out1.fifo = ctrlOut.fifo /\ out1.busy = ctrlOut.busy /\ out1.hw = 0
    BY <1>0 DEF OutEps
  <2> HIDE DEF out1
  <2> QED BY <1>0, <2>1
<1>8. ctrlOut' = (IF kind = "out" THEN C!FeedDout(out, n) ELSE out)
  BY <1>2
<1>9. hst \in HostStates /\ hst.n = n /\ hst.kind = kind
      /\ hst.at = (IF kind = "none" THEN "status" ELSE "data")
  BY <1>3 DEF HostStates
<1>10. evts' \in Seq(C!Numbers) /\ (evts = <<>> => evts' = (IF kind = "out" THEN <<>> ELSE <<n>>))
  <2>1. Append(evts, n) \in Seq(C!Numbers)
    BY <1>0, <1>3
  <2>2. evts = <<>> => Append(evts, n) = <<n>>
    BY OneQueued
  <2> QED BY <1>0, <1>2, <2>1, <2>2
<1>11. host' = hst /\ setupOf' = n
  BY <1>2
<1> HIDE DEF out, hst, n, D, in1, out1
<1>12. /\ upsets' \in 0..MaxUpsets /\ stale' = {} /\ soiled' \in {{}, {"in"}, {"in", "out"}}
       /\ soiled' = {} => (soiled = {} /\ D = {})
       /\ "out" \notin soiled' => ("out" \notin soiled /\ "out" \notin D)
  BY <1>1, <1>5, UpsetIs DEF CtrlInv
<1>13. ctrlOut' \in OutEps
  BY <1>3, <1>7, <1>8, Fed
<1>14. CtrlTyped' /\ Emptied'
  BY <1>0, <1>1, <1>3, <1>4, <1>6, <1>9, <1>10, <1>11, <1>12, <1>13 DEF CtrlInv, CtrlTyped, Emptied
<1>15. ASSUME "out" \notin soiled'
       PROVE  /\ kind = "out" => /\ ctrlOut'.busy /\ ctrlOut'.hw = n
                                 /\ ctrlOut'.fifo = <<[of |-> n, freed |-> FALSE]>>
              /\ kind # "out" => (~ctrlOut'.busy /\ ctrlOut'.fifo = <<>> /\ ctrlOut'.hw = 0)
  <2>1. ~ctrlOut.busy /\ ctrlOut.fifo = <<>> /\ ctrlOut.hw = 0
    BY <1>5, <1>12, <1>15 DEF CtrlInv, OutOwn
  <2> QED BY <1>3, <1>7, <1>8, <2>1, Fed
<1>16. OutOwn'
  BY <1>4, <1>9, <1>11, <1>15 DEF OutOwn
<1>17. InOwn'
  <2>1. CASE soiled' = {}
    <3>1. host.at = "idle" /\ soiled = {}
      BY <1>5, <1>12, <2>1
    <3>2. evts = <<>> /\ ctrlIn.fifo = <<>> /\ ~ctrlIn.busy /\ ctrlIn.hw = 0 /\ usbd.pc = "idle"
      BY <3>1 DEF CtrlInv, InOwn, AwaitsIn
    <3>3. kind # "out" => AwaitsIn'
      BY <1>9, <1>11 DEF AwaitsIn
    <3>4. InEmpty'
      BY <1>6, <3>2 DEF InEmpty
    <3>5. evts' = (IF kind = "out" THEN <<>> ELSE <<n>>)
      BY <1>10, <3>2
    <3> QED BY <1>1, <1>6, <1>9, <1>11, <3>2, <3>3, <3>4, <3>5 DEF InOwn, InEmpty
  <2>2. CASE soiled' # {}
    BY <2>2 DEF InOwn
  <2> QED BY <2>1, <2>2
<1> QED BY <1>14, <1>16, <1>17 DEF CtrlInv

(* The interrupt after IN data: the buffer returned is of the host's        *)
(* transfer, and after the data of a read the status stage is prepared.     *)
LEMMA InDoneStep == CtrlInv /\ C!InDone => CtrlInv'
<1> SUFFICES ASSUME CtrlInv, C!InDone PROVE CtrlInv'
  OBVIOUS
<1> USE CtrlAssumption DEF CtrlAssumption
<1> DEFINE at2 == IF host.kind = "in" THEN "status" ELSE "idle"
           hst == [host EXCEPT !.at = at2]
           none == ctrlIn.fifo = <<>>
           in0 == [ctrlIn EXCEPT !.hw = 0]
           in1 == [fifo |-> Tail(ctrlIn.fifo), busy |-> FALSE, hw |-> 0]
           S   == IF none THEN {} ELSE {Head(ctrlIn.fifo), ctrlIn.hw}
           wrongly == "in" \notin soiled /\ S # {host.n}
           feeds == ~none /\ C!AfterIn = "statusout"
<1>0. /\ host \in HostStates /\ ctrlIn \in InEps /\ ctrlOut \in OutEps /\ stage \in Stages
      /\ ctrlIn.fifo \in Seq(C!Numbers) /\ host.n \in C!Numbers /\ setupOf \in C!Numbers
      /\ 0 \in C!Numbers
  BY DEF CtrlInv, CtrlTyped, HostStates, InEps, C!Numbers
<1>1. /\ ctrlIn.hw # 0 /\ stall = 0 /\ host.at = (IF host.kind = "in" THEN "data" ELSE "status")
      /\ host' = hst /\ setupOf' = setupOf /\ evts' = evts /\ usbd' = usbd /\ stall' = stall
  BY DEF C!InDone
<1>2. /\ ctrlIn' = (IF none THEN in0 ELSE in1)
      /\ stage' = (IF none THEN stage ELSE C!AfterIn)
      /\ ctrlOut' = (IF feeds THEN C!FeedDout(ctrlOut, setupOf) ELSE ctrlOut)
      /\ stale' = (IF wrongly THEN stale \cup {"in"} ELSE stale)
      /\ upsets' = upsets /\ soiled' = soiled
  BY DEF C!InDone, C!HandlerIn, C!Answered
<1>3. /\ hst \in HostStates /\ hst.n = host.n /\ hst.kind = host.kind /\ hst.at = at2
  BY <1>0 DEF HostStates
<1>4. C!AfterIn = (IF stage = "datain" THEN "statusout"
                   ELSE IF stage \in {"statusin", "nodata"} THEN "setup" ELSE "error")
  BY DEF C!AfterIn
<1>5. in0 \in InEps /\ in0.fifo = ctrlIn.fifo
  BY <1>0 DEF InEps
<1>6. ~none => (in1 \in InEps /\ in1.hw = 0 /\ ~in1.busy /\ in1.fifo = Tail(ctrlIn.fifo))
  <2>1. ~none => Tail(ctrlIn.fifo) \in Seq(C!Numbers)
    BY <1>0
  <2> QED BY <1>0, <2>1 DEF InEps
<1>7. soiled = {} => /\ ~none /\ ctrlIn.fifo = <<host.n>> /\ ctrlIn.hw = host.n
                     /\ usbd.pc = "idle" /\ evts = <<>>
  BY <1>1 DEF CtrlInv, InOwn, InEmpty
<1>8. soiled = {} => S = {host.n}
  <2>1. ctrlIn.fifo = <<host.n>> => Head(ctrlIn.fifo) = host.n
    BY OneQueued
  <2> QED BY <1>7, <2>1
<1>9. ~wrongly
  BY <1>8 DEF CtrlInv, CtrlTyped
<1> HIDE DEF hst, in0, in1, S, wrongly, feeds
<1>10. ctrlOut' \in OutEps
  BY <1>0, <1>2, Fed
<1>11. stage' \in Stages
  BY <1>0, <1>2, <1>4 DEF Stages
<1>12. ctrlIn' \in InEps
  BY <1>2, <1>5, <1>6
<1>13. (none => ctrlIn'.fifo = <<>>) /\ (ctrlIn.fifo = <<host.n>> => ctrlIn'.fifo = <<>>)
  BY <1>2, <1>5, <1>6, OneQueued
<1>14. CtrlTyped' /\ Emptied'
  <2>1. Emptied'
    BY <1>1, <1>2, <1>13 DEF CtrlInv, Emptied
  <2>2. at2 # "idle" => host.at # "idle"
    BY <1>1
  <2> QED BY <1>1, <1>2, <1>3, <1>9, <1>10, <1>11, <1>12, <2>1, <2>2 DEF CtrlInv, CtrlTyped
<1>15. OutOwn'
  <2> SUFFICES ASSUME "out" \notin soiled PROVE OutOwn'
    BY <1>2 DEF OutOwn
  <2>1. setupOf = host.n /\ ~ctrlOut.busy /\ ctrlOut.fifo = <<>> /\ ctrlOut.hw = 0
    BY <1>1 DEF CtrlInv, OutOwn
  <2>2. /\ host.kind = "in" => stage = "datain"
        /\ host.kind # "in" => stage = (IF host.kind = "out" THEN "statusin" ELSE "nodata")
    BY <1>1 DEF CtrlInv, OutOwn
  <2>3. CASE host.kind = "in" /\ ~none
    <3>1. feeds /\ stage' = "statusout" /\ at2 = "status"
      BY <1>2, <1>4, <2>2, <2>3 DEF feeds
    <3>2. ctrlOut' = C!FeedDout(ctrlOut, host.n)
      BY <1>2, <2>1, <3>1
    <3>3. ctrlOut'.busy /\ ctrlOut'.hw = host.n /\ ctrlOut'.fifo = <<[of |-> host.n, freed |-> FALSE]>>
      BY <1>0, <2>1, <3>2, Fed
    <3> QED BY <1>1, <1>3, <2>1, <2>3, <3>1, <3>3 DEF OutOwn
  <2>4. CASE host.kind # "in" \/ none
    <3>1. ~feeds
      BY <1>4, <2>2, <2>4 DEF feeds
    <3>2. ctrlOut' = ctrlOut /\ host'.at \in {"idle", "status"} /\ (host'.at = "status" => host.kind = "in")
      BY <1>1, <1>2, <1>3, <3>1
    <3> QED BY <1>1, <1>3, <2>1, <3>2 DEF OutOwn
  <2> QED BY <2>3, <2>4
<1>16. InOwn'
  <2>1. CASE soiled = {}
    <3>1. ctrlIn'.fifo = <<>> /\ ~ctrlIn'.busy /\ ctrlIn'.hw = 0
      BY <1>2, <1>6, <1>7, <1>13, <2>1
    <3> QED BY <1>1, <1>7, <2>1, <3>1 DEF InOwn, InEmpty
  <2>2. CASE soiled # {}
    BY <1>2, <2>2 DEF InOwn
  <2> QED BY <2>1, <2>2
<1> QED BY <1>14, <1>15, <1>16 DEF CtrlInv

LEMMA OutDoneStep == CtrlInv /\ C!OutDone => CtrlInv'
<1> SUFFICES ASSUME CtrlInv, C!OutDone PROVE CtrlInv'
  OBVIOUS
<1> USE CtrlAssumption DEF CtrlAssumption
<1> DEFINE at2 == IF host.kind = "in" THEN "idle" ELSE "status"
           hst == [host EXCEPT !.at = at2]
           none == ctrlOut.fifo = <<>>
           rest == IF none THEN <<>> ELSE Tail(ctrlOut.fifo)
           out == [ctrlOut EXCEPT !.busy = FALSE, !.hw = 0, !.fifo = rest]
           wrongly == "out" \notin soiled /\ {ctrlOut.hw} # {host.n}
           tells == ~none /\ C!AfterOut = "statusin"
<1>0. /\ host \in HostStates /\ ctrlOut \in OutEps /\ stage \in Stages /\ 0 \in C!Numbers
      /\ ctrlOut.fifo \in Seq(OutBufs) /\ host.n \in C!Numbers /\ setupOf \in C!Numbers
      /\ evts \in Seq(C!Numbers)
  BY DEF CtrlInv, CtrlTyped, HostStates, OutEps, C!Numbers
<1>1. /\ ctrlOut.hw # 0 /\ stall = 0 /\ host.kind # "none"
      /\ host.at = (IF host.kind = "in" THEN "status" ELSE "data")
      /\ host' = hst /\ setupOf' = setupOf /\ ctrlIn' = ctrlIn /\ usbd' = usbd /\ stall' = stall
  BY DEF C!OutDone
<1>2. /\ ctrlOut' = out
      /\ stage' = (IF none THEN stage ELSE C!AfterOut)
      /\ evts' = (IF tells THEN Append(evts, setupOf) ELSE evts)
      /\ stale' = (IF wrongly THEN stale \cup {"out"} ELSE stale)
      /\ upsets' = upsets /\ soiled' = soiled
  BY DEF C!OutDone, C!HandlerOut, C!Answered
<1>3. /\ hst \in HostStates /\ hst.n = host.n /\ hst.kind = host.kind /\ hst.at = at2
  BY <1>0 DEF HostStates
<1>4. C!AfterOut = (IF stage = "dataout" THEN "statusin" ELSE IF stage = "statusout" THEN "setup" ELSE "error")
  BY DEF C!AfterOut
<1>5. out \in OutEps /\ ~out.busy /\ out.hw = 0 /\ out.fifo = rest
  <2>1. rest \in Seq(OutBufs)
    BY <1>0
  <2> HIDE DEF rest
  <2> QED BY <1>0, <2>1 DEF OutEps
<1>6. "out" \notin soiled =>
        /\ ctrlOut.busy /\ ~none /\ rest = <<>> /\ ctrlOut.hw = host.n /\ setupOf = host.n
        /\ stage = (IF host.kind = "in" THEN "statusout" ELSE "dataout")
  <2> SUFFICES ASSUME "out" \notin soiled
               PROVE  /\ ctrlOut.busy /\ ~none /\ rest = <<>> /\ ctrlOut.hw = host.n /\ setupOf = host.n
                      /\ stage = (IF host.kind = "in" THEN "statusout" ELSE "dataout")
    OBVIOUS
  <2>1. /\ ctrlOut.busy /\ ctrlOut.hw = host.n /\ setupOf = host.n
        /\ ctrlOut.fifo = <<[of |-> host.n, freed |-> FALSE]>>
    BY <1>1 DEF CtrlInv, OutOwn
  <2>2. stage = (IF host.kind = "in" THEN "statusout" ELSE "dataout")
    BY <1>1, <2>1 DEF CtrlInv, OutOwn
  <2>3. ~none /\ rest = <<>>
    BY <2>1, OneQueued
  <2> QED BY <2>1, <2>2, <2>3
<1>7. ~wrongly
  BY <1>6
<1>8. evts' \in Seq(C!Numbers) /\ (evts = <<>> => evts' = (IF tells THEN <<setupOf>> ELSE <<>>))
  <2>1. Append(evts, setupOf) \in Seq(C!Numbers)
    BY <1>0
  <2>2. evts = <<>> => Append(evts, setupOf) = <<setupOf>>
    BY OneQueued
  <2> QED BY <1>0, <1>2, <2>1, <2>2
<1> HIDE DEF hst, out, rest, wrongly
<1>9. stage' \in Stages
  BY <1>0, <1>2, <1>4 DEF Stages
<1>10. CtrlTyped' /\ Emptied'
  <2>1. Emptied'
    BY <1>1 DEF CtrlInv, Emptied
  <2>2. host.at # "idle"
    BY <1>1
  <2> QED BY <1>1, <1>2, <1>3, <1>5, <1>7, <1>8, <1>9, <2>1, <2>2 DEF CtrlInv, CtrlTyped
<1>11. OutOwn'
  <2> SUFFICES ASSUME "out" \notin soiled PROVE OutOwn'
    BY <1>2 DEF OutOwn
  <2>1. ~ctrlOut'.busy /\ ctrlOut'.fifo = <<>> /\ ctrlOut'.hw = 0 /\ setupOf' = host.n
    BY <1>1, <1>2, <1>5, <1>6
  <2>2. CASE host.kind = "in"
    BY <1>1, <1>3, <2>1, <2>2 DEF OutOwn
  <2>3. CASE host.kind # "in"
    <3>1. host.kind = "out" /\ stage' = "statusin"
      BY <1>0, <1>1, <1>2, <1>4, <1>6, <2>3 DEF HostStates
    <3> QED BY <1>1, <1>3, <2>1, <2>3, <3>1 DEF OutOwn
  <2> QED BY <2>2, <2>3
<1>12. InOwn'
  <2>1. CASE soiled = {}
    <3>1. ~AwaitsIn
      BY <1>1 DEF AwaitsIn
    <3>2. evts = <<>> /\ ctrlIn.fifo = <<>> /\ ~ctrlIn.busy /\ ctrlIn.hw = 0 /\ usbd.pc = "idle"
      BY <2>1, <3>1 DEF CtrlInv, InOwn
    <3>3. tells <=> host.kind # "in"
      BY <1>4, <1>6, <2>1
    <3>4. host.kind # "in" => AwaitsIn'
      BY <1>1, <1>3 DEF AwaitsIn
    <3>5. evts' = (IF tells THEN <<host.n>> ELSE <<>>)
      BY <1>6, <1>8, <2>1, <3>2
    <3> QED BY <1>1, <1>3, <2>1, <3>2, <3>3, <3>4, <3>5 DEF InOwn, InEmpty
  <2>2. CASE soiled # {}
    BY <1>2, <2>2 DEF InOwn
  <2> QED BY <2>1, <2>2
<1> QED BY <1>10, <1>11, <1>12 DEF CtrlInv

LEMMA CtrlStep == CtrlInv /\ [C!Next]_(C!ctrlVars) => CtrlInv'
<1> SUFFICES ASSUME CtrlInv, [C!Next]_(C!ctrlVars) PROVE CtrlInv'
  OBVIOUS
<1>1. CASE UNCHANGED C!ctrlVars
  <2>1. /\ host' = host /\ stage' = stage /\ setupOf' = setupOf /\ ctrlIn' = ctrlIn /\ ctrlOut' = ctrlOut
        /\ evts' = evts /\ usbd' = usbd /\ stall' = stall /\ upsets' = upsets /\ soiled' = soiled
        /\ stale' = stale
    BY <1>1 DEF C!ctrlVars, C!hist
  <2>2. CtrlTyped' /\ Emptied'
    BY <2>1 DEF CtrlInv, CtrlTyped, Emptied
  <2>3. OutOwn'
    BY <2>1, OutKept
  <2>4. InOwn'
    BY <2>1 DEF CtrlInv, InOwn, InEmpty, AwaitsIn
  <2> QED BY <2>2, <2>3, <2>4 DEF CtrlInv
<1> QED BY <1>1, SetupStep, SetupIsLostStep, BusResetStep, RefuseStep, AnswerStep, PeekStep, ClaimStep,
           XferStep, DequeueStep, UnmarkStep, InDoneStep, OutDoneStep, HostGivesUpStep
           DEF C!Next, C!Stack, C!Host

(* A stage of a control transfer is answered with the buffer of that        *)
(* transfer, and no freed buffer is queued, unless a SETUP packet, a reset  *)
(* or a host that gave up overtook one under way (udc_hpmicro.c); and the   *)
(* dequeue after a reset makes the IN direction exact again.                *)
THEOREM StagesOwn == Spec => []CtrlIsOwn
<1>1. Spec => []CtrlInv
  BY CtrlInit, CtrlStep, UnionIsEach, PTL
<1> QED BY <1>1, CtrlIsTyped, PTL

(* The state of every driver of the union has its type.                     *)
THEOREM StorageAreTyped == Spec => []TypeOK
<1>1. Spec => []CtrlInv
  BY CtrlInit, CtrlStep, UnionIsEach, PTL
<1>2. Spec => []IoInv
  BY IoInit, IoStep, UnionIsEach, PTL DEF I!Spec
<1>3. Spec => []EventsInv
  BY EventsInit, EventsStep, UnionIsEach, PTL DEF E!Spec
<1>4. Spec => [](F!TypeOK)
  BY FlashInit, FlashTypeStep, UnionIsEach, PTL DEF F!Spec
<1>5. RequestInv /\ IoInv /\ EventsInv /\ F!TypeOK /\ C!TypeOK => TypeOK
  BY DEF RequestInv, IoInv, EventsInv, TypeOK
<1> QED BY <1>1, <1>2, <1>3, <1>4, <1>5, CtrlIsTyped, RequestIsSound, UnionIsEach, PTL
===============================================================================
