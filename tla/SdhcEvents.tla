------------------------------- MODULE SdhcEvents -------------------------------
(***************************************************************************)
(* Card insertion and removal, drivers/sdhc/sdhc_hpmicro.c: a client        *)
(* registers a callback and the sources it wants; they come from the        *)
(* controller's interrupt or from the edge interrupt of a detect pin.       *)
(***************************************************************************)
EXTENDS Naturals

CONSTANTS Clients, NoClient

VARIABLES
  detectGpio,   \* TRUE: the board has a detect pin (devicetree, never changes)
  inserted,     \* card in the slot
  cb, cbData,   \* sdhc_cb and sdhc_cb_user_data: whose they are
  en,           \* INT_STAT_EN and INT_SIGNAL_EN: card sources enabled
  edge,         \* interrupt configuration of the detect pin
  pending,      \* INT_STAT card flags, and "pin"
  isr,          \* interrupt_status of the hpm_sdhc_isr in progress
  enabling,     \* the hpm_sdhc_enable_interrupt in progress
  want,         \* history: sources asked for and not disabled since
  wrong         \* history: how events went astray

eventVars == <<detectGpio, inserted, cb, cbData, en, edge, pending, isr, enabling, want, wrong>>

Sources == {"sdio", "in", "out"}
Idle == [step |-> "idle", client |-> NoClient, sources |-> {}]

TypeOK ==
    /\ detectGpio \in BOOLEAN /\ inserted \in BOOLEAN
    /\ cb \in Clients \cup {NoClient} /\ cbData \in Clients \cup {NoClient}
    /\ en \subseteq Sources /\ edge \in {"off", "in", "out"}
    /\ pending \subseteq Sources \cup {"pin"} /\ isr \subseteq Sources
    /\ enabling \in [step : {"idle", "data", "sources"}, client : Clients \cup {NoClient},
                     sources : SUBSET Sources]
    /\ want \subseteq Sources
    /\ wrong \subseteq {"missed", "torn", "tornLive"}

Init ==
    /\ detectGpio \in BOOLEAN /\ inserted = FALSE
    /\ cb = NoClient /\ cbData = NoClient /\ en = {} /\ edge = "off" /\ pending = {} /\ isr = {}
    /\ enabling = Idle /\ want = {} /\ wrong = {}
-------------------------------------------------------------------------------
(* hpm_sdhc_enable_interrupt: callback, then its data, then the sources,    *)
(* with the old ones live until then.                                       *)
EnableCallback ==
    /\ isr = {} /\ enabling = Idle
    /\ \E c \in Clients, s \in SUBSET Sources :
         /\ enabling' = [step |-> "data", client |-> c, sources |-> s]
         /\ cb' = c
    /\ wrong' = IF cb # NoClient \/ edge # "off" \/ pending # {} THEN wrong \cup {"tornLive"} ELSE wrong
    /\ UNCHANGED <<detectGpio, inserted, cbData, en, edge, pending, isr, want>>

EnableData ==
    /\ isr = {} /\ enabling.step = "data"
    /\ cbData' = enabling.client
    /\ enabling' = [enabling EXCEPT !.step = "sources"]
    /\ UNCHANGED <<detectGpio, inserted, cb, en, edge, pending, isr, want, wrong>>

(* The pin keeps one edge: of two asked for, the removal set up last.  The  *)
(* pin's driver may refuse either, and then nobody was promised anything.   *)
EnableSources ==
    LET s == enabling.sources IN
    /\ isr = {} /\ enabling.step = "sources"
    /\ enabling' = Idle /\ want' = s
    /\ en' = s \ (IF detectGpio THEN {"in", "out"} ELSE {})
    /\ edge' = IF ~detectGpio \/ s \cap {"in", "out"} = {} THEN edge
               ELSE IF "out" \in s THEN "out" ELSE "in"
    /\ UNCHANGED <<detectGpio, inserted, cb, cbData, pending, isr, wrong>>

EnableFails ==
    LET s == enabling.sources IN
    /\ isr = {} /\ enabling.step = "sources" /\ detectGpio /\ s \cap {"in", "out"} # {}
    /\ enabling' = Idle /\ want' = {}
    /\ en' = s \ {"in", "out"}
    /\ edge' \in {edge} \cup (IF {"in", "out"} \subseteq s THEN {"in"} ELSE {})
    /\ UNCHANGED <<detectGpio, inserted, cb, cbData, pending, isr, wrong>>

BugDisable(s) ==        \* the callback is removed with the first source
    /\ isr = {} /\ enabling = Idle
    /\ en' = en \ s /\ want' = want \ s
    /\ edge' = IF detectGpio /\ s \cap {"in", "out"} # {} THEN "off" ELSE edge
    /\ cb' = NoClient /\ cbData' = NoClient
    /\ UNCHANGED <<detectGpio, inserted, pending, isr, enabling, wrong>>
Disable(s) ==
    /\ isr = {} /\ enabling = Idle
    /\ en' = en \ s /\ want' = want \ s
    /\ edge' = IF detectGpio /\ s \cap {"in", "out"} # {} THEN "off" ELSE edge
    /\ IF en' = {} THEN cb' = NoClient /\ cbData' = NoClient ELSE UNCHANGED <<cb, cbData>>
    /\ UNCHANGED <<detectGpio, inserted, pending, isr, enabling, wrong>>

DisableFails(s) ==      \* refused by the pin's driver: the callback stays
    /\ isr = {} /\ enabling = Idle /\ detectGpio /\ s \cap {"in", "out"} # {}
    /\ en' = en \ s /\ want' = want \ s
    /\ edge' \in {edge} \cup (IF {"in", "out"} \subseteq s THEN {"off"} ELSE {})
    /\ UNCHANGED <<detectGpio, inserted, cb, cbData, pending, isr, enabling, wrong>>
-------------------------------------------------------------------------------
CardMoves ==
    LET event == IF inserted THEN "out" ELSE "in"
        seen  == IF detectGpio THEN edge = event ELSE event \in en
    IN /\ inserted' = ~inserted
       /\ pending' = IF seen THEN pending \cup {IF detectGpio THEN "pin" ELSE event} ELSE pending
       /\ wrong' = IF enabling = Idle /\ event \in want /\ ~seen /\ ~detectGpio
                   THEN wrong \cup {"missed"} ELSE wrong
       /\ UNCHANGED <<detectGpio, cb, cbData, en, edge, isr, enabling, want>>

CardInterrupt ==        \* acknowledged, and nobody is called
    /\ "sdio" \in en
    /\ pending' = pending \cup {"sdio"}
    /\ UNCHANGED <<detectGpio, inserted, cb, cbData, en, edge, isr, enabling, want, wrong>>

(* hpm_sdhc_isr reads the flags and calls; then it clears what it read, the *)
(* flag of an event that came again meanwhile included.                     *)
Isr ==
    /\ isr = {} /\ pending \cap en # {}
    /\ isr' = pending \ {"pin"}
    /\ wrong' = wrong
         \cup (IF cb # NoClient /\ cb # cbData /\ pending \cap {"in", "out"} # {} THEN {"torn"} ELSE {})
         \cup (IF cb = NoClient /\ pending \cap want \cap {"in", "out"} # {} THEN {"missed"} ELSE {})
    /\ UNCHANGED <<detectGpio, inserted, cb, cbData, en, edge, pending, enabling, want>>

IsrClears ==
    /\ isr # {}
    /\ pending' = pending \ isr /\ isr' = {}
    /\ UNCHANGED <<detectGpio, inserted, cb, cbData, en, edge, enabling, want, wrong>>

CardDetectGpioCb ==
    /\ "pin" \in pending
    /\ pending' = pending \ {"pin"}
    /\ wrong' = IF cb # NoClient /\ cb # cbData THEN wrong \cup {"torn"} ELSE wrong
    /\ UNCHANGED <<detectGpio, inserted, cb, cbData, en, edge, isr, enabling, want>>

Next ==
    \/ EnableCallback \/ EnableData \/ EnableSources \/ EnableFails
    \/ \E s \in SUBSET Sources : Disable(s) \/ DisableFails(s)
    \/ CardMoves \/ CardInterrupt \/ Isr \/ IsrClears \/ CardDetectGpioCb

Spec == Init /\ [][Next]_eventVars
-------------------------------------------------------------------------------
(* With the controller's own sources every wanted insertion and removal     *)
(* raises an interrupt that finds a callback, though threads enable and     *)
(* disable sources meanwhile; with either source a callback gets its own    *)
(* user data, unless it was registered with sources live or an event        *)
(* pending.  Not promised: events of the detect pin, which keeps one edge   *)
(* and loses its callback with the controller's last source, and a second   *)
(* event of a kind before IsrClears, whose flag is cleared unheard.         *)
EventsReachTheirClient ==
    /\ "missed" \notin wrong
    /\ "torn" \in wrong => "tornLive" \in wrong
===============================================================================
