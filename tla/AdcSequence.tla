------------------------------ MODULE AdcSequence ------------------------------
(***************************************************************************)
(* Reads of drivers/adc/adc_hpmicro_adc12.c and adc_hpmicro_adc16.c, one     *)
(* converter: the callers under the lock of the ADC context, the sequence   *)
(* started by software or by a hardware trigger, and its interrupt.         *)
(***************************************************************************)
EXTENDS Naturals

CONSTANTS AdcThreads, NoAdc, MaxChannels, Repeats

VARIABLES
  adcIs12, hwTrigger,   \* which driver, config->trig_en (neither changes)
  adcTh,        \* per thread: pc, channels, samplings asked and left, result
  adcLock, adcSync,     \* the context's lock and completion
  channels,     \* data->channels: how many results the interrupt stores
  buffer,       \* data->buffer: whose, and how much was stored since sampling began
  sequence,     \* the converter: not set up, ready for a trigger, converting, complete
  adcIsr,       \* the interrupt is between its work and its second clear
  adcOdd        \* history: what the properties excuse, and what went wrong

adcVars == <<adcIs12, hwTrigger, adcTh, adcLock, adcSync, channels, buffer, sequence, adcIsr, adcOdd>>
build == <<adcIs12, hwTrigger>>
unit  == <<channels, buffer, sequence, adcIsr, adcOdd>>

Away == [pc |-> "idle", n |-> 0, all |-> 0, left |-> 0, ok |-> TRUE]

TypeOK ==
    /\ adcIs12 \in BOOLEAN /\ hwTrigger \in BOOLEAN
    /\ adcTh \in [AdcThreads -> [pc : {"idle", "start", "sample", "wait", "out"}, n : 0..MaxChannels,
                                 all : 0..Repeats, left : 0..Repeats, ok : BOOLEAN]]
    /\ adcLock \in AdcThreads \cup {NoAdc} /\ adcSync \in 0..2 /\ channels \in 0..MaxChannels
    /\ buffer \in [of : AdcThreads \cup {NoAdc}, at : 0..(Repeats * MaxChannels)]
    /\ sequence \in {"off", "ready", "busy", "complete"} /\ adcIsr \in BOOLEAN
    /\ adcOdd \subseteq {"triggered", "notOwn", "overrun", "cleared"}

Init ==
    /\ adcIs12 \in BOOLEAN /\ hwTrigger \in BOOLEAN
    /\ adcTh = [t \in AdcThreads |-> Away] /\ adcLock = NoAdc /\ adcSync = 0
    /\ channels = 0 /\ buffer = [of |-> NoAdc, at |-> 0] /\ sequence = "off" /\ adcIsr = FALSE /\ adcOdd = {}

At(t, pc) == adcTh[t].pc = pc
To(t, pc) == adcTh' = [adcTh EXCEPT ![t].pc = pc]
-------------------------------------------------------------------------------
Read(t) ==              \* adc_context_lock
    /\ At(t, "idle") /\ adcLock = NoAdc
    /\ adcLock' = t
    /\ \E n \in 1..MaxChannels, r \in 1..Repeats :
         adcTh' = [adcTh EXCEPT ![t] = [Away EXCEPT !.pc = "start", !.n = n, !.all = r, !.left = r]]
    /\ UNCHANGED <<build, adcSync, unit>>

Refuse(t) == adcTh' = [adcTh EXCEPT ![t].pc = "out", ![t].ok = FALSE] /\ UNCHANGED buffer
Accept(t) == buffer' = [of |-> t, at |-> 0] /\ To(t, "sample")
Start12(t) ==           \* oversampling and other resolutions are refused
    /\ At(t, "start") /\ adcIs12 /\ (Refuse(t) \/ Accept(t))
    /\ UNCHANGED <<build, adcLock, adcSync, channels, sequence, adcIsr, adcOdd>>
Start16(t) ==           \* oversampling is refused, no resolution is
    /\ At(t, "start") /\ ~adcIs12 /\ (Refuse(t) \/ Accept(t))
    /\ UNCHANGED <<build, adcLock, adcSync, channels, sequence, adcIsr, adcOdd>>

(* The sequence is set up and, without a hardware trigger, started; one     *)
(* that is converting for an earlier trigger is begun anew.                 *)
Sample(t) ==
    /\ ~adcIsr /\ channels' = adcTh[t].n
    /\ sequence' = IF sequence = "complete" THEN "complete" ELSE IF hwTrigger THEN "ready" ELSE "busy"
Sample12(t) ==
    /\ At(t, "sample") /\ adcIs12 /\ Sample(t) /\ To(t, "wait")
    /\ UNCHANGED <<build, adcLock, adcSync, buffer, adcIsr, adcOdd>>
Sample16(t) ==
    /\ At(t, "sample") /\ ~adcIs12 /\ Sample(t) /\ To(t, "wait")
    /\ UNCHANGED <<build, adcLock, adcSync, buffer, adcIsr, adcOdd>>

Wait(t) ==
    /\ At(t, "wait") /\ adcSync > 0 /\ ~adcIsr
    /\ adcSync' = adcSync - 1 /\ To(t, "out")
    /\ adcOdd' = adcOdd \cup (IF adcTh[t].left > 0 THEN {"notOwn"} ELSE {})
    /\ UNCHANGED <<build, adcLock, channels, buffer, sequence, adcIsr>>

Release(t) ==
    /\ At(t, "out") /\ adcLock' = NoAdc
    /\ adcTh' = [adcTh EXCEPT ![t] = Away]
    /\ UNCHANGED <<build, adcSync, unit>>
-------------------------------------------------------------------------------
(* The hardware trigger stays connected after a read.                       *)
Trigger ==
    /\ hwTrigger /\ sequence = "ready" /\ sequence' = "busy"
    /\ adcOdd' = adcOdd \cup (IF channels = 0 THEN {"triggered"} ELSE {})
    /\ UNCHANGED <<build, adcTh, adcLock, adcSync, channels, buffer, adcIsr>>

Converted ==
    /\ sequence = "busy" /\ sequence' = "complete"
    /\ UNCHANGED <<build, adcTh, adcLock, adcSync, channels, buffer, adcIsr, adcOdd>>

(* The results are stored and adc_context_on_sampling_done called: another  *)
(* sampling begins in the interrupt, after these results or, when the       *)
(* caller's callback asks to repeat, in their place; or the read is done.   *)
Own(t)   == t # NoAdc /\ At(t, "wait") /\ adcTh[t].left > 0
Beyond   == channels > 0 /\ ~(Own(buffer.of) /\ buffer.at + channels <= adcTh[buffer.of].n * adcTh[buffer.of].all)
BugDone(repeat) ==      \* the channels of the read stay after its last sampling
    LET t == buffer.of  more == Own(t) /\ (repeat \/ adcTh[t].left > 1)
    IN /\ buffer' = IF repeat THEN buffer ELSE [buffer EXCEPT !.at = IF Beyond THEN @ ELSE @ + channels]
       /\ UNCHANGED channels
       /\ sequence' = IF hwTrigger THEN "ready" ELSE IF more THEN "busy" ELSE "off"
       /\ adcSync' = IF more \/ adcSync = 2 THEN adcSync ELSE adcSync + 1
       /\ adcTh' = IF Own(t) /\ ~repeat THEN [adcTh EXCEPT ![t].left = @ - 1] ELSE adcTh
Done(repeat) ==
    LET t == buffer.of  more == Own(t) /\ (repeat \/ adcTh[t].left > 1)
    IN /\ buffer' = IF repeat THEN buffer ELSE [buffer EXCEPT !.at = IF Beyond THEN @ ELSE @ + channels]
       /\ channels' = IF more THEN adcTh[t].n ELSE 0
       /\ sequence' = IF hwTrigger THEN "ready" ELSE IF more THEN "busy" ELSE "off"
       /\ adcSync' = IF more \/ adcSync = 2 THEN adcSync ELSE adcSync + 1
       /\ adcTh' = IF Own(t) /\ ~repeat THEN [adcTh EXCEPT ![t].left = @ - 1] ELSE adcTh
Store ==
    /\ sequence = "complete" /\ ~adcIsr /\ adcIsr' = TRUE
    /\ \E repeat \in BOOLEAN : (repeat => Own(buffer.of)) /\ Done(repeat)
    /\ adcOdd' = adcOdd \cup (IF Beyond THEN {"overrun"} ELSE {})
(* The status read at its start is cleared once more: with it the completion *)
(* of a sampling that was started, and converted, in between.               *)
IsrEnds ==
    /\ adcIsr /\ adcIsr' = FALSE
    /\ IF sequence = "complete"
       THEN sequence' = (IF hwTrigger THEN "ready" ELSE "off") /\ adcOdd' = adcOdd \cup {"cleared"}
       ELSE UNCHANGED <<sequence, adcOdd>>
    /\ UNCHANGED <<build, adcTh, adcLock, adcSync, channels, buffer>>
Isr12 == adcIs12 /\ Store /\ UNCHANGED <<build, adcLock>>
Isr16 == ~adcIs12 /\ Store /\ UNCHANGED <<build, adcLock>>

Next ==
    \/ \E t \in AdcThreads : Read(t) \/ Start12(t) \/ Start16(t) \/ Sample12(t) \/ Sample16(t) \/ Wait(t) \/ Release(t)
    \/ Trigger \/ Converted \/ Isr12 \/ Isr16 \/ IsrEnds

Spec == Init /\ [][Next]_adcVars
-------------------------------------------------------------------------------
(* A read returns after all its samplings, and the interrupt stores into    *)
(* the buffer of a read in progress only and within it, unless a hardware   *)
(* trigger came when no sampling was asked for; a read that waits has a     *)
(* sampling under way, unless the interrupt cleared its completion unread.  *)
AdcReadIsOwn ==
    /\ adcOdd \cap {"notOwn", "overrun"} # {} => "triggered" \in adcOdd
    /\ \A t \in AdcThreads :
         At(t, "wait") /\ adcSync = 0 /\ sequence = "off" => "cleared" \in adcOdd
===============================================================================
