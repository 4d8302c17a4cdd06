------------------------------- MODULE GpioEdges -------------------------------
(***************************************************************************)
(* drivers/gpio/gpio_hpmicro.c, one port: edge interrupts of its input pins  *)
(* and the callbacks they reach.                                             *)
(***************************************************************************)
CONSTANTS EdgePins

VARIABLES
  level,        \* what drives the pins
  trig,         \* the edge a pin's interrupt is enabled for
  irqFlags,     \* IF of the port
  fired,        \* the interrupt: what it read, and what it does next
  owed          \* pins with an edge since their callbacks were last called

edgeVars == <<level, trig, irqFlags, fired, owed>>

TypeOK ==
    /\ level \subseteq EdgePins /\ trig \in [EdgePins -> {"none", "rising", "falling"}]
    /\ irqFlags \subseteq EdgePins /\ owed \subseteq EdgePins
    /\ fired \in [pc : {"idle", "clear", "fire"}, pins : SUBSET EdgePins]

Init ==
    /\ level = {} /\ trig = [p \in EdgePins |-> "none"] /\ irqFlags = {} /\ owed = {}
    /\ fired = [pc |-> "idle", pins |-> {}]
-------------------------------------------------------------------------------
(* Both edges are refused; levels are not modelled.                         *)
ConfigureInterrupt(p) ==
    /\ fired.pc = "idle"
    /\ \E t \in {"none", "rising", "falling"} : trig' = [trig EXCEPT ![p] = t]
    /\ owed' = owed \ {p}      \* a flag that is up stays up
    /\ UNCHANGED <<level, irqFlags, fired>>

Edge(p) ==
    LET hit == IF trig[p] = (IF p \in level THEN "falling" ELSE "rising") THEN {p} ELSE {} IN
    /\ level' = (level \ {p}) \cup ({p} \ level)
    /\ irqFlags' = irqFlags \cup hit /\ owed' = owed \cup hit
    /\ UNCHANGED <<trig, fired>>

IsrReads ==
    /\ fired.pc = "idle" /\ \E p \in irqFlags : trig[p] # "none"
    /\ fired' = [pc |-> "clear", pins |-> irqFlags]
    /\ UNCHANGED <<level, trig, irqFlags, owed>>

BugCleared == {}                            \* all flags, not those that were read
Cleared    == irqFlags \ fired.pins
IsrClears ==
    /\ fired.pc = "clear" /\ irqFlags' = Cleared
    /\ fired' = [fired EXCEPT !.pc = "fire"]
    /\ UNCHANGED <<level, trig, owed>>

IsrFires ==
    /\ fired.pc = "fire" /\ fired' = [pc |-> "idle", pins |-> {}]
    /\ owed' = owed \ fired.pins
    /\ UNCHANGED <<level, trig, irqFlags>>

Next ==
    \/ \E p \in EdgePins : ConfigureInterrupt(p) \/ Edge(p)
    \/ IsrReads \/ IsrClears \/ IsrFires

Spec == Init /\ [][Next]_edgeVars
-------------------------------------------------------------------------------
(* An edge that was enabled is always about to be told to the callbacks.    *)
GpioEdgeIsTold == owed \subseteq irqFlags \cup fired.pins
===============================================================================
