------------------------------- MODULE SdhcIo -------------------------------
(***************************************************************************)
(* Bus settings of an SD host controller, drivers/sdhc/sdhc_hpmicro.c:      *)
(* hpm_sdhc_set_io applies what differs from the copy in host_io, stage by  *)
(* stage, and returns at the first stage that fails.                        *)
(***************************************************************************)
EXTENDS Naturals

CONSTANTS FMin, FMax,   \* f_min, f_max of the host properties
          Clocks,       \* clock rates a caller may ask for, 0 included
          PowerGpio,    \* BOOLEAN: the card has a power pin
          PadStates     \* the pin states of the devicetree, of "slow" and "fast"

VARIABLES
  hostIo,   \* host_io: clock, width, volt, power, timing
  hw,       \* what the controller, its pins and the card's supply do
  lastRet,  \* of the last call: "none", "ok" or "error"
  gaveUp    \* history: "clock", "switch": the last one was given up half done

ioVars == <<hostIo, hw, lastRet, gaveUp>>

Widths  == {1, 4}
Volts   == {"3v3", "1v8"}
Powers  == {"off", "on"}
Timings == {"legacy", "ddr50", "sdr104"}
Settings == [clock : Clocks, width : Widths \cup {0}, volt : Volts,
             power : Powers, timing : Timings \cup {"bad"}]

(* hpm_sdhc_init: the card starts powered off, at 400 kHz and one bit; the  *)
(* result of setting the clock is not looked at.                            *)
Init ==
    /\ hostIo = [clock |-> 0, width |-> 1, volt |-> "unset", power |-> "off", timing |-> "legacy"]
    /\ gaveUp \in {{}, {"clock"}}
    /\ hw = [clock |-> FMin, width |-> 1, volt |-> "3v3", running |-> gaveUp = {},
             pin |-> "off", bus |-> "off", pads |-> "default"]
    /\ lastRet = "none"

TypeOK ==
    /\ hostIo \in [clock : Clocks, width : Widths, volt : Volts \cup {"unset"},
                   power : Powers, timing : Timings]
    /\ hw \in [clock : Clocks \cup {FMin}, width : Widths, volt : Volts, running : BOOLEAN,
               pin : Powers, bus : Powers, pads : {"default", "slow", "fast"}]
    /\ lastRet \in {"none", "ok", "error"} /\ gaveUp \subseteq {"clock", "switch"}
-------------------------------------------------------------------------------
(* Each stage maps the state s = [io, hw, ok, gaveUp] to the next; a stage  *)
(* after one that returned an error changes nothing.                        *)

(* hpm_board_sd_configure_clock stops the clock, sets source and divider,   *)
(* and starts the clock unless the source does not become stable.           *)
BugSetClock(s, ios, trouble) ==   \* its result not looked at
    IF ~s.ok \/ s.io.clock = ios.clock THEN s
    ELSE IF ios.clock = 0 THEN [s EXCEPT !.io.clock = 0]
    ELSE [s EXCEPT !.io.clock = ios.clock, !.hw.clock = ios.clock, !.hw.running = trouble # "clock"]
SetClock(s, ios, trouble) ==
    IF ~s.ok \/ s.io.clock = ios.clock THEN s
    ELSE IF ios.clock = 0 THEN [s EXCEPT !.io.clock = 0]
    ELSE IF trouble = "clock"
    THEN [s EXCEPT !.ok = FALSE, !.gaveUp = @ \cup {"clock"}, !.hw.clock = ios.clock, !.hw.running = FALSE]
    ELSE [s EXCEPT !.io.clock = ios.clock, !.gaveUp = @ \ {"clock"}, !.hw.clock = ios.clock, !.hw.running = TRUE]

BugSetWidth(s, ios) ==          \* no default case
    IF ~s.ok \/ s.io.width = ios.width THEN s
    ELSE [s EXCEPT !.io.width = ios.width, !.hw.width = ios.width]
SetWidth(s, ios) ==
    IF ~s.ok \/ s.io.width = ios.width THEN s
    ELSE IF ios.width \notin Widths THEN [s EXCEPT !.ok = FALSE]
    ELSE [s EXCEPT !.io.width = ios.width, !.hw.width = ios.width]

(* The switch to 1.8 V stops the clock, waits for DAT[3:0] to go low, moves *)
(* the supply, starts the clock, waits for DAT[3:0] to rise; either wait    *)
(* may give up, and nothing is put back.                                    *)
SetVoltage(s, ios, trouble) ==
    IF ~s.ok \/ s.io.volt = ios.volt THEN s
    ELSE IF ios.volt = "3v3" THEN [s EXCEPT !.io.volt = "3v3", !.hw.volt = "3v3"]
    ELSE IF trouble = "low" THEN [s EXCEPT !.ok = FALSE, !.gaveUp = @ \cup {"switch"}, !.hw.running = FALSE]
    ELSE IF trouble = "high"
    THEN [s EXCEPT !.ok = FALSE, !.gaveUp = @ \cup {"switch"}, !.hw.running = TRUE, !.hw.volt = "1v8"]
    ELSE [s EXCEPT !.io.volt = "1v8", !.gaveUp = @ \ {"switch"}, !.hw.running = TRUE, !.hw.volt = "1v8"]

SetPower(s, ios) ==
    IF ~s.ok THEN s
    ELSE IF PowerGpio /\ s.io.power # ios.power
    THEN [s EXCEPT !.io.power = ios.power, !.hw.pin = ios.power]
    ELSE [s EXCEPT !.io.power = ios.power, !.hw.bus = ios.power]

(* pinctrl_apply_state fails for a state the devicetree does not define;    *)
(* its result is not looked at.  (SDR50 has a third state, "med".)          *)
Pads(timing) == [ddr50 |-> "slow", sdr104 |-> "fast"][timing]
SetTiming(s, ios) ==
    IF ~s.ok \/ s.io.timing = ios.timing THEN s
    ELSE IF ios.timing = "bad" THEN [s EXCEPT !.ok = FALSE]
    ELSE IF ios.timing = "legacy" \/ Pads(ios.timing) \notin PadStates THEN [s EXCEPT !.io.timing = ios.timing]
    ELSE [s EXCEPT !.io.timing = ios.timing, !.hw.pads = Pads(ios.timing)]

Troubles(ios) ==
    {"none"} \cup (IF ios.clock # hostIo.clock THEN {"clock"} ELSE {})
             \cup (IF ios.volt = "1v8" /\ hostIo.volt # "1v8" THEN {"low", "high"} ELSE {})

SetIo(ios) ==
    \E trouble \in Troubles(ios) :
        LET start == [io |-> hostIo, hw |-> hw, gaveUp |-> gaveUp,
                      ok |-> ios.clock = 0 \/ ios.clock \in FMin..FMax]
            end == SetTiming(SetPower(SetVoltage(SetWidth(SetClock(start, ios, trouble), ios),
                                                 ios, trouble), ios), ios)
        IN /\ hostIo' = end.io /\ hw' = end.hw /\ gaveUp' = end.gaveUp
           /\ lastRet' = IF end.ok THEN "ok" ELSE "error"

(* hpm_sdhc_execute_tuning leaves the bus power on, whatever was asked for. *)
ExecuteTuning ==
    /\ hostIo.power = "on"
    /\ hw' = [hw EXCEPT !.bus = "on"]
    /\ UNCHANGED <<hostIo, lastRet, gaveUp>>

Next == ExecuteTuning \/ \E ios \in Settings : SetIo(ios)

Spec == Init /\ [][Next]_ioVars
-------------------------------------------------------------------------------
(* When set_io returned 0 the bus is as asked, whatever calls failed        *)
(* before: the width, the supply, and the pads of a timing for which the    *)
(* devicetree defines pads; a clock rate other than 0 unless the last       *)
(* change of rate failed half done, and the voltage unless the last switch  *)
(* to 1.8 V did (host_io then holds the old value, and asking for that one  *)
(* applies nothing); and the card's clock runs unless one of them failed.   *)
OkMeansApplied ==
    lastRet = "ok" =>
        /\ hw.width = hostIo.width
        /\ hostIo.power = IF PowerGpio THEN hw.pin ELSE hw.bus
        /\ (hostIo.timing # "legacy" /\ Pads(hostIo.timing) \in PadStates) => hw.pads = Pads(hostIo.timing)
        /\ (hostIo.clock # 0 /\ "clock" \notin gaveUp) => hw.clock = hostIo.clock
        /\ "switch" \notin gaveUp => hw.volt = hostIo.volt
        /\ gaveUp = {} => hw.running
===============================================================================
