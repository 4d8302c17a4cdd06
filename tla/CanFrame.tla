-------------------------------- MODULE CanFrame --------------------------------
(***************************************************************************)
(* What becomes of the frames handed to the CAST CAN driver,                *)
(* drivers/can/can_hpmicro.c: the checks of hpm_can_send and                *)
(* hpm_can_send_batch, the conversion into the transmit buffer, the bus, and*)
(* the frame hpm_can_get_message builds at the receiver.  A payload is      *)
(* reduced to how many of its leading bytes are the sender's.               *)
(***************************************************************************)
EXTENDS Integers, Sequences

CONSTANTS Frames,       \* frames a caller may submit: records of flags and dlc
          Submissions   \* sequences of frames handed over in one call

VARIABLES canfd,        \* config.enable_canfd (FALSE also when CAN FD is compiled out)
          path, frames, \* the call
          step, i,      \* where it is, and the loop index over frames
          result,       \* "ok" or the error returned
          stb,          \* transmit buffers loaded, in slot order
          heard         \* frames the receiver built

vars == <<canfd, path, frames, step, i, result, stb, heard>>

Paths == {"send", "batch"}
CAN_MAX_DLC == 8
CANFD_MAX_DLC == 15
BatchLimit == 4         \* slots of the secondary transmit buffer

DlcBytes(dlc) ==        \* can_dlc_to_bytes
    IF dlc <= 8 THEN dlc ELSE <<12, 16, 20, 24, 32, 48, 64>>[dlc - 8]

Init ==
    /\ canfd \in BOOLEAN /\ path \in Paths
    /\ frames \in Submissions /\ (path = "send" => Len(frames) = 1)
    /\ step = "check" /\ i = 1 /\ result = "ok" /\ stb = <<>> /\ heard = <<>>
-------------------------------------------------------------------------------
ClassicCheck(f) ==
    IF f.flags \cap {"FDF", "BRS", "ESI"} # {} THEN "ENOTSUP"
    ELSE IF f.dlc > CAN_MAX_DLC THEN "EINVAL" ELSE "ok"

FdCheck(f, esiNeeds) ==
    IF "RTR" \in f.flags \/ ("ESI" \in f.flags /\ esiNeeds \notin f.flags) THEN "ENOTSUP"
    ELSE IF f.dlc > CANFD_MAX_DLC THEN "EINVAL" ELSE "ok"

SendCheck(f)  == IF canfd THEN FdCheck(f, "BRS") ELSE ClassicCheck(f)
BatchCheck(f) == IF canfd THEN FdCheck(f, "FDF") ELSE ClassicCheck(f)

Return(r) == step' = "returned" /\ result' = r

CheckSend ==
    /\ path = "send" /\ step = "check"
    /\ IF SendCheck(frames[1]) = "ok"
         THEN step' = "load" /\ UNCHANGED result
         ELSE Return(SendCheck(frames[1]))
    /\ UNCHANGED <<canfd, path, frames, i, stb, heard>>

CountOk == Len(frames) \in 1..BatchLimit

CheckCount ==
    /\ path = "batch" /\ step = "check" /\ ~CountOk
    /\ Return("EINVAL")
    /\ UNCHANGED <<canfd, path, frames, i, stb, heard>>

CheckBatch ==           \* one turn of the loop over all frames
    /\ path = "batch" /\ step = "check" /\ CountOk
    /\ \/ i > Len(frames) /\ step' = "load" /\ i' = 1 /\ UNCHANGED result
       \/ i <= Len(frames) /\ BatchCheck(frames[i]) # "ok"
            /\ Return(BatchCheck(frames[i])) /\ UNCHANGED i
       \/ i <= Len(frames) /\ BatchCheck(frames[i]) = "ok"
            /\ i' = i + 1 /\ UNCHANGED <<step, result>>
    /\ UNCHANGED <<canfd, path, frames, stb, heard>>

(* convert_can_frame_to_can_frame: there is no ESI bit in the buffer.       *)
Convert(f) == [flags |-> f.flags \ {"ESI"}, dlc |-> f.dlc]

(* hpm_can_fill_tx_buffer copies the payload in words of four bytes.        *)
BugCopyWords(tx) == DlcBytes(tx.dlc) \div 4
CopyWords(tx) == (DlcBytes(tx.dlc) + 3) \div 4

Load ==
    /\ step = "load" /\ i <= Len(frames)
    /\ LET tx == Convert(frames[i])
       IN  stb' = Append(stb, [flags |-> tx.flags, dlc |-> tx.dlc, words |-> CopyWords(tx)])
    /\ i' = i + 1
    /\ UNCHANGED <<canfd, path, frames, step, result, heard>>

Start ==                \* TSONE or TSALL; the call will return 0
    /\ step = "load" /\ i > Len(frames)
    /\ step' = "sent"
    /\ UNCHANGED <<canfd, path, frames, i, result, stb, heard>>

OnBus(tx) ==            \* bytes of payload the controller puts on the bus
    LET carried == IF "RTR" \in tx.flags THEN 0
                   ELSE IF "FDF" \in tx.flags THEN DlcBytes(tx.dlc)
                   ELSE DlcBytes(IF tx.dlc < 8 THEN tx.dlc ELSE 8)
    IN  IF carried < 4 * tx.words THEN carried ELSE 4 * tx.words

(* The bit rate switch is a bit of the CAN FD format: a classic frame has no *)
(* place for it, although the driver lets one through that asks for it.      *)
Wire(tx) == [flags |-> IF "FDF" \in tx.flags THEN tx.flags ELSE tx.flags \ {"BRS"},
             dlc |-> tx.dlc, bytes |-> OnBus(tx)]

GetMessage(rx) == [flags |-> {"FDF", "RTR", "IDE", "BRS"} \cap rx.flags,
                   dlc |-> rx.dlc, bytes |-> rx.bytes]

Hear ==                 \* the frame leaves slot 1 and the receiver reads it
    /\ step = "sent" /\ stb # <<>>
    /\ heard' = Append(heard, GetMessage(Wire(stb[1])))
    /\ stb' = Tail(stb)
    /\ UNCHANGED <<canfd, path, frames, step, i, result>>

Done ==
    /\ step = "returned" \/ (step = "sent" /\ stb = <<>>)
    /\ UNCHANGED vars

Next == CheckSend \/ CheckCount \/ CheckBatch \/ Load \/ Start \/ Hear \/ Done

Spec == Init /\ [][Next]_vars
-------------------------------------------------------------------------------
TypeOK ==
    /\ canfd \in BOOLEAN /\ path \in Paths
    /\ frames \in Seq(Frames) /\ i \in 1..(Len(frames) + 1)
    /\ step \in {"check", "load", "sent", "returned"}
    /\ result \in {"ok", "ENOTSUP", "EINVAL"}
    /\ Len(stb) + Len(heard) <= BatchLimit

(* A call that is refused, for any of its frames, loads and sends nothing,  *)
(* and nothing is sent before the whole batch is loaded.                    *)
AllOrNothing ==
    /\ result # "ok" => stb = <<>> /\ heard = <<>>
    /\ heard # <<>> => Len(heard) + Len(stb) = Len(frames)

(* A controller in classic mode never carries a CAN FD frame or more than   *)
(* eight bytes.                                                             *)
ClassicStaysClassic ==
    ~canfd => \A n \in DOMAIN stb : stb[n].dlc <= 8 /\ "FDF" \notin stb[n].flags
                                      /\ "BRS" \notin stb[n].flags

(* The receiver hears the frames in the order given, with the length code    *)
(* and the flags given, and with the whole payload of every frame whose      *)
(* length its format can carry.  Only ESI never arrives, and a classic frame *)
(* that asks for a bit rate switch, which a controller in CAN FD mode does   *)
(* not refuse, arrives without it.                                           *)
NotCarried(f) == IF "FDF" \in f.flags THEN {"ESI"} ELSE {"ESI", "BRS"}
Encodable(f) == "FDF" \in f.flags \/ f.dlc <= CAN_MAX_DLC
HeardAsSent ==
    \A n \in DOMAIN heard :
        /\ heard[n].flags = frames[n].flags \ NotCarried(frames[n])
        /\ heard[n].dlc = frames[n].dlc
        /\ Encodable(frames[n]) =>
             heard[n].bytes = IF "RTR" \in frames[n].flags THEN 0 ELSE DlcBytes(frames[n].dlc)
===============================================================================
