-------------------------------- MODULE EthMac --------------------------------
(***************************************************************************)
(* drivers/ethernet/ethernet_hpmicro.c: sending, the receive thread and the  *)
(* interrupt between them, over the descriptor rings of the MAC.  A packet  *)
(* is the thread that sends it and fits one descriptor.                     *)
(***************************************************************************)
EXTENDS Naturals

CONSTANTS EthThreads, NoEth, TxCount, RxCount

VARIABLES
  booted,     \* hpm_eth_init got to the semaphores
  ethTh,      \* per thread: pc, the descriptor it read, the descriptor it queued
  txMutex, txSem, rxSem,
  txRing,     \* cur, the MAC's next, and per descriptor: own, whose data, who queued it
  frames, rxPc,     \* received frames in the ring, and the receive thread
  dmaStatus, isrPc, snap,   \* DMA_STATUS, the interrupt handler and its status
  ethOdd      \* history: what the properties excuse, and wrong results

ethVars == <<booted, ethTh, txMutex, txSem, rxSem, txRing, frames, rxPc, dmaStatus, isrPc, snap, ethOdd>>

Descs == 0..(TxCount - 1)
Rec   == [own : BOOLEAN, data : EthThreads \cup {NoEth}, by : EthThreads \cup {NoEth}]

TypeOK ==
    /\ booted \in BOOLEAN
    /\ ethTh \in [EthThreads -> [pc : {"idle", "lock", "send", "wait", "out"}, read : Descs, mine : Descs]]
    /\ txMutex \in EthThreads \cup {NoEth} /\ txSem \in 0..1 /\ rxSem \in 0..1
    /\ txRing \in [cur : Descs, mac : Descs, desc : [Descs -> Rec]]
    /\ frames \in 0..RxCount /\ rxPc \in {"sleep", "read"}
    /\ dmaStatus \subseteq {"TI", "RI"} /\ snap \subseteq {"TI", "RI"} /\ isrPc \in {"idle", "ti", "ri"}
    /\ ethOdd \subseteq {"readOld", "inFlight", "riLost", "allocFailed", "notBooted", "otherData", "notSent"}

Init ==
    /\ booted = FALSE /\ txMutex = NoEth /\ txSem = 0 /\ rxSem = 0
    /\ ethTh = [t \in EthThreads |-> [pc |-> "idle", read |-> 0, mine |-> 0]]
    /\ txRing = [cur |-> 0, mac |-> 0, desc |-> [d \in Descs |-> [own |-> FALSE, data |-> NoEth, by |-> NoEth]]]
    /\ frames = 0 /\ rxPc = "sleep" /\ dmaStatus = {} /\ isrPc = "idle" /\ snap = {} /\ ethOdd = {}

EthIn(t, pc) == ethTh[t].pc = pc
EthGo(t, pc) == ethTh' = [ethTh EXCEPT ![t].pc = pc]
Sendable == {"inFlight", "readOld"}   \* bound: after any other oddity, every send fails
Note(what, when) == ethOdd' = ethOdd \cup (IF when THEN {what} ELSE {})
rxSide == <<rxSem, frames, rxPc>>
irq    == <<dmaStatus, isrPc, snap>>
-------------------------------------------------------------------------------
(* The controller runs, and its interrupt is enabled, before this.          *)
Boot ==
    /\ ~booted /\ isrPc = "idle" /\ booted' = TRUE
    /\ rxSem' = 0 /\ txSem' = 0
    /\ UNCHANGED <<ethTh, txMutex, txRing, frames, rxPc, irq, ethOdd>>

ReadDesc(t) ==          \* eth_tx, before the mutex
    /\ booted /\ EthIn(t, "idle")
    /\ ethTh' = [ethTh EXCEPT ![t].pc = "lock", ![t].read = txRing.cur]
    /\ UNCHANGED <<booted, txMutex, txSem, txRing, rxSide, irq, ethOdd>>

BugLock(t) ==           \* no k_sem_reset
    /\ EthIn(t, "lock") /\ txMutex = NoEth
    /\ txMutex' = t /\ UNCHANGED txSem
    /\ EthGo(t, "send")
    /\ Note("inFlight", "TI" \in dmaStatus \cup snap \/ \E d \in Descs : txRing.desc[d].own)
    /\ UNCHANGED <<booted, txRing, rxSide, irq>>
Lock(t) ==
    /\ EthIn(t, "lock") /\ txMutex = NoEth
    /\ txMutex' = t /\ txSem' = 0
    /\ EthGo(t, "send")
    /\ Note("inFlight", "TI" \in dmaStatus \cup snap \/ \E d \in Descs : txRing.desc[d].own)
    /\ UNCHANGED <<booted, txRing, rxSide, irq>>

(* The packet goes to the descriptor read, the current one to the MAC.      *)
Send(t) ==
    LET r == ethTh[t].read  c == txRing.cur
        filled == [txRing.desc EXCEPT ![r].data = t]
    IN /\ EthIn(t, "send") /\ ethOdd \subseteq Sendable /\ ~txRing.desc[r].own /\ ~txRing.desc[c].own
       /\ txRing' = [txRing EXCEPT !.cur = (c + 1) % TxCount,
                                   !.desc = [filled EXCEPT ![c].own = TRUE, ![c].by = t]]
       /\ ethTh' = [ethTh EXCEPT ![t].pc = "wait", ![t].mine = c]
       /\ Note("readOld", r # c)
       /\ UNCHANGED <<booted, txMutex, txSem, rxSide, irq>>

(* Too long, descriptor busy, or not copied; then enet_prepare_tx_desc      *)
(* refused: the packet is in the buffer.                                    *)
SendFails(t) ==
    LET r == ethTh[t].read IN
    /\ EthIn(t, "send") /\ EthGo(t, "out")
    /\ \/ UNCHANGED txRing
       \/ /\ ~txRing.desc[r].own /\ txRing.desc[txRing.cur].own
          /\ txRing' = [txRing EXCEPT !.desc[r].data = t]
    /\ UNCHANGED <<booted, txMutex, txSem, rxSide, irq, ethOdd>>

Sent(t) ==
    /\ EthIn(t, "wait") /\ txSem = 1
    /\ txSem' = 0 /\ EthGo(t, "out")
    /\ Note("notSent", txRing.desc[ethTh[t].mine].own)
    /\ UNCHANGED <<booted, txMutex, txRing, rxSide, irq>>

SendTimeout(t) ==
    /\ EthIn(t, "wait") /\ txSem = 0 /\ EthGo(t, "out") /\ "readOld" \notin ethOdd
    /\ UNCHANGED <<booted, txMutex, txSem, txRing, rxSide, irq, ethOdd>>

Unlock(t) ==
    /\ EthIn(t, "out") /\ txMutex' = NoEth
    /\ ethTh' = [ethTh EXCEPT ![t] = [pc |-> "idle", read |-> 0, mine |-> 0]]
    /\ UNCHANGED <<booted, txSem, txRing, rxSide, irq, ethOdd>>
-------------------------------------------------------------------------------
Wake ==                 \* rx_thread
    /\ booted /\ rxPc = "sleep" /\ rxSem = 1
    /\ rxSem' = 0 /\ rxPc' = "read"
    /\ UNCHANGED <<booted, ethTh, txMutex, txSem, txRing, frames, irq, ethOdd>>

BugReadFrame ==         \* one frame for each interrupt
    /\ rxPc = "read"
    /\ frames' = IF frames > 0 THEN frames - 1 ELSE 0
    /\ rxPc' = "sleep"
    /\ UNCHANGED <<booted, ethTh, txMutex, txSem, rxSem, txRing, irq, ethOdd>>
ReadFrame ==            \* eth_rx; without a packet the loop ends as if the ring were empty
    /\ rxPc = "read"
    /\ \/ frames = 0 /\ rxPc' = "sleep" /\ UNCHANGED <<frames, ethOdd>>
       \/ frames > 0 /\ frames' = frames - 1 /\ UNCHANGED <<rxPc, ethOdd>>
       \/ frames > 0 /\ frames' = frames - 1 /\ rxPc' = "sleep" /\ Note("allocFailed", frames > 1)
    /\ UNCHANGED <<booted, ethTh, txMutex, txSem, rxSem, txRing, irq>>
-------------------------------------------------------------------------------
(* hpm_eth_isr.  DMA_STATUS |= bit writes back every bit that is set, and   *)
(* so clears what came after the status was read.                           *)
IsrReads ==
    /\ isrPc = "idle" /\ dmaStatus # {}
    /\ snap' = dmaStatus /\ isrPc' = "ti"
    /\ UNCHANGED <<booted, ethTh, txMutex, txSem, txRing, rxSide, dmaStatus, ethOdd>>

IsrTi ==
    /\ isrPc = "ti" /\ isrPc' = "ri"
    /\ IF "TI" \in snap
       THEN txSem' = 1 /\ dmaStatus' = {} /\ Note("riLost", "RI" \in dmaStatus \ snap)
       ELSE UNCHANGED <<txSem, dmaStatus, ethOdd>>
    /\ UNCHANGED <<booted, ethTh, txMutex, txRing, rxSide, snap>>

IsrRi ==                \* a semaphore that is not initialised has no room
    /\ isrPc = "ri" /\ isrPc' = "idle" /\ snap' = {}
    /\ IF "RI" \in snap
       THEN /\ dmaStatus' = {}
            /\ rxSem' = (IF booted THEN 1 ELSE 0) /\ Note("notBooted", ~booted)
       ELSE UNCHANGED <<rxSem, dmaStatus, ethOdd>>
    /\ UNCHANGED <<booted, ethTh, txMutex, txSem, txRing, frames, rxPc>>

MacSends ==
    LET d == txRing.mac IN
    /\ txRing.desc[d].own
    /\ txRing' = [txRing EXCEPT !.desc[d] = [own |-> FALSE, data |-> NoEth, by |-> NoEth],
                                !.mac = (d + 1) % TxCount]
    /\ dmaStatus' = dmaStatus \cup {"TI"}
    /\ Note("otherData", txRing.desc[d].data # txRing.desc[d].by)
    /\ UNCHANGED <<booted, ethTh, txMutex, txSem, rxSide, isrPc, snap>>

MacReceives ==
    /\ frames < RxCount /\ frames' = frames + 1 /\ ethOdd = {}     \* bound: none after an oddity
    /\ dmaStatus' = dmaStatus \cup {"RI"}
    /\ UNCHANGED <<booted, ethTh, txMutex, txSem, rxSem, txRing, rxPc, isrPc, snap, ethOdd>>

Next ==
    \/ \E t \in EthThreads : ReadDesc(t) \/ Lock(t) \/ Send(t) \/ SendFails(t) \/ Sent(t) \/ SendTimeout(t) \/ Unlock(t)
    \/ Boot \/ Wake \/ ReadFrame \/ IsrReads \/ IsrTi \/ IsrRi \/ MacSends \/ MacReceives

Spec == Init /\ [][Next]_ethVars
-------------------------------------------------------------------------------
(* A send that returned 0 had its packet transmitted, with its own data,    *)
(* unless a packet that had timed out was still in flight when it began, or *)
(* it read the descriptor before another send took it.                      *)
EthSentIsOwn ==
    /\ "notSent" \in ethOdd => "inFlight" \in ethOdd
    /\ "otherData" \in ethOdd => "readOld" \in ethOdd

(* A received frame never waits in the ring with nobody about to read it,   *)
(* unless its interrupt was cleared with another one or came before the     *)
(* semaphores were initialised, or a packet could not be allocated for an   *)
(* earlier frame.                                                           *)
EthFrameIsRead ==
    frames > 0 /\ rxPc = "sleep" /\ rxSem = 0 /\ "RI" \notin dmaStatus \cup snap
        => ethOdd \cap {"riLost", "notBooted", "allocFailed"} # {}
===============================================================================
