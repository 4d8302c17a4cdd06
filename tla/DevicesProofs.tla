----------------------------- MODULE DevicesProofs -----------------------------
(***************************************************************************)
(* Theorems about the drivers of MCDevices.  A behaviour of MCDevices is a  *)
(* behaviour of each driver (UnionIsEach), so what is proved of a driver    *)
(* holds of it.                                                             *)
(***************************************************************************)
EXTENDS MCDevices, TLAPS, WellFoundedInduction

vars == <<driver, ethVars, linkVars, camVars, adcVars, gpioVars, edgeVars, displayVars, pwmVars>>

LEMMA StepIsEach ==
    ASSUME [Next]_vars
    PROVE  /\ [Eth!Next]_(Eth!ethVars)   /\ [Link!Next]_(Link!linkVars)
           /\ [Cam!Next]_(Cam!camVars)   /\ [Adc!Next]_(Adc!adcVars)
           /\ [Port!Next]_(Port!gpioVars) /\ [Edge!Next]_(Edge!edgeVars)
           /\ [Disp!Next]_(Disp!displayVars) /\ [Wave!Next]_(Wave!pwmVars)
<1> USE DEF vars, ethVars, linkVars, camVars, adcVars, gpioVars, edgeVars, displayVars, pwmVars,
            Eth!ethVars, Link!linkVars, Cam!camVars, Adc!adcVars, Port!gpioVars, Edge!edgeVars,
            Disp!displayVars, Wave!pwmVars
<1>1. CASE UNCHANGED vars
  BY <1>1
<1>2. CASE Next
  BY <1>2 DEF Next
<1> QED BY <1>1, <1>2

(* A behaviour of the union is a behaviour of every driver in it.           *)
THEOREM UnionIsEach ==
    Spec => /\ Eth!Spec /\ Link!Spec /\ Cam!Spec /\ Adc!Spec
            /\ Port!Spec /\ Edge!Spec /\ Disp!Spec /\ Wave!Spec
<1>1. Init => /\ Eth!Init /\ Link!Init /\ Cam!Init /\ Adc!Init
              /\ Port!Init /\ Edge!Init /\ Disp!Init /\ Wave!Init
  BY DEF Init
<1>2. [Next]_vars => /\ [Eth!Next]_(Eth!ethVars)   /\ [Link!Next]_(Link!linkVars)
           /\ [Cam!Next]_(Cam!camVars)   /\ [Adc!Next]_(Adc!adcVars)
           /\ [Port!Next]_(Port!gpioVars) /\ [Edge!Next]_(Edge!edgeVars)
           /\ [Disp!Next]_(Disp!displayVars) /\ [Wave!Next]_(Wave!pwmVars)
  BY StepIsEach
<1> QED BY <1>1, <1>2, PTL DEF Spec, Eth!Spec, Link!Spec, Cam!Spec, Adc!Spec, Port!Spec, Edge!Spec,
          Disp!Spec, Wave!Spec, vars
-------------------------------------------------------------------------------
(* EthLink.  The PHY's answer at the last check and the last one acted on   *)
(* agree on the link and, when it is up, on the mode; carrier and mode are  *)
(* those of the last one acted on.                                          *)
LinkInv ==
    /\ Link!TypeOK
    /\ lastPhy.up => carrier /\ everUp /\ macMode = lastPhy.mode
    /\ ~lastPhy.up => IF iface THEN carrier <=> ~everUp ELSE ~everUp
    /\ polled.done => iface /\ polled.up = lastPhy.up /\ (polled.up => polled.mode = lastPhy.mode)

LEMMA LinkInit == Link!Init => LinkInv
<1> SUFFICES ASSUME Link!Init PROVE LinkInv
  OBVIOUS
<1> USE DEF Link!Init, Link!Status, Link!Down0
<1>1. Link!TypeOK
  <2>1. Mode0 \in LinkModes /\ Mac0 \in Macs
    BY EthAssumption DEF EthAssumption
  <2> QED BY <2>1 DEF Link!TypeOK
<1> QED BY <1>1 DEF LinkInv

LEMMA LinkStep ==
    ASSUME LinkInv, [Link!Next]_(Link!linkVars)
    PROVE  LinkInv'
<1> USE DEF LinkInv, Link!TypeOK, Link!Status
<1>1. CASE Link!IfaceInit
  BY <1>1 DEF Link!IfaceInit
<1>2. CASE Link!LinkWork
  <2> USE DEF Link!LinkWork
  <2>1. CASE ~iface
    BY <1>2, <2>1
  <2>2. CASE iface /\ Link!News(phy)
    <3>1. Link!TypeOK'
      <4>1. polled' \in [done : BOOLEAN, up : BOOLEAN, mode : LinkModes]
        <5>1. polled' = [done |-> TRUE, up |-> phy.up, mode |-> phy.mode]
          BY <1>2, <2>2
        <5>2. phy.up \in BOOLEAN /\ phy.mode \in LinkModes
          OBVIOUS
        <5> QED BY <5>1, <5>2, Zenon
      <4>2. iface' \in BOOLEAN /\ carrier' \in BOOLEAN /\ linkWork' \in BOOLEAN
        BY <1>2, <2>2
      <4>3. everUp' \in BOOLEAN
        BY <1>2, <2>2
      <4>4. phy' \in Link!Status /\ lastPhy' \in Link!Status /\ macMode' \in LinkModes
        BY <1>2, <2>2
      <4>5. macAddr' \in [data : Macs, filter : Macs, told : Macs]
        BY <1>2, <2>2
      <4> QED BY <4>1, <4>2, <4>3, <4>4, <4>5
    <3>2. lastPhy' = phy /\ (carrier' <=> phy.up) /\ (everUp' <=> everUp \/ phy.up) /\ iface' = iface
      BY <1>2, <2>2
    <3>3. polled'.up = phy.up /\ polled'.mode = phy.mode
      BY <1>2, <2>2
    <3>4. phy.up => macMode' = phy.mode
      BY <1>2, <2>2
    <3>5. ~phy.up => everUp
      BY <2>2 DEF Link!News
    <3> QED BY <3>1, <3>2, <3>3, <3>4, <3>5, <2>2
  <2>3. CASE iface /\ ~Link!News(phy)
    <3>1. Link!TypeOK'
      <4>1. polled' \in [done : BOOLEAN, up : BOOLEAN, mode : LinkModes]
        <5>1. polled' = [done |-> TRUE, up |-> phy.up, mode |-> phy.mode]
          BY <1>2, <2>3
        <5>2. phy.up \in BOOLEAN /\ phy.mode \in LinkModes
          OBVIOUS
        <5> QED BY <5>1, <5>2, Zenon
      <4>2. iface' \in BOOLEAN /\ carrier' \in BOOLEAN /\ linkWork' \in BOOLEAN
        BY <1>2, <2>3
      <4>3. everUp' \in BOOLEAN
        BY <1>2, <2>3
      <4>4. phy' \in Link!Status /\ lastPhy' \in Link!Status /\ macMode' \in LinkModes
        BY <1>2, <2>3
      <4>5. macAddr' \in [data : Macs, filter : Macs, told : Macs]
        BY <1>2, <2>3
      <4> QED BY <4>1, <4>2, <4>3, <4>4, <4>5
    <3>2. UNCHANGED <<lastPhy, carrier, macMode, iface>> /\ (everUp' <=> everUp \/ phy.up)
      BY <1>2, <2>3
    <3>3. polled'.up = phy.up /\ polled'.mode = phy.mode
      BY <1>2, <2>3
    <3>4. phy.up = lastPhy.up /\ (phy.up => phy = lastPhy)
      BY <2>3 DEF Link!News
    <3> QED BY <3>1, <3>2, <3>3, <3>4, <2>3
  <2> QED BY <2>1, <2>2, <2>3, Zenon
<1>3. CASE Link!PhyChanges
  <2>1. phy' \in Link!Status /\ UNCHANGED <<iface, lastPhy, polled, carrier, macMode, macAddr, linkWork, everUp>>
    BY <1>3 DEF Link!PhyChanges
  <2> QED BY <2>1, Zenon
<1>4. CASE Link!SetMac
  BY <1>4 DEF Link!SetMac
<1>5. CASE UNCHANGED Link!linkVars
  BY <1>5 DEF Link!linkVars
<1> QED BY <1>1, <1>2, <1>3, <1>4, <1>5 DEF Link!Next

THEOREM LinkIsSound == Link!Spec => []LinkInv
  BY LinkInit, LinkStep, PTL DEF Link!Spec

(* After a check the interface has a carrier exactly when the PHY had a     *)
(* link, and the MAC runs in its mode (eth_check_link_status).              *)
THEOREM LinkIsShown == Spec => []EthLinkIsShown
<1>1. LinkInv => EthLinkIsShown
  BY DEF LinkInv, EthLinkIsShown, Link!EthLinkIsShown, Link!TypeOK, Link!Status
<1> QED BY <1>1, LinkIsSound, UnionIsEach, PTL
-------------------------------------------------------------------------------
(* GpioPort.  While nothing raced, a masked write that has read the port    *)
(* writes back, outside its mask, what the port has and its users want.     *)
PortInv ==
    /\ Port!TypeOK /\ Port!GpioPinIsOwn
    /\ gpioOdd = {} => \A u \in Users : writes[u].busy =>
         /\ writes[u].high \subseteq writes[u].mask
         /\ (writes[u].read \ writes[u].mask) \cap oe = (wanted \ writes[u].mask) \cap oe

LEMMA PortInit == Port!Init => PortInv
  BY DEF Port!Init, PortInv, Port!TypeOK, Port!GpioPinIsOwn, Port!NoWrite

(* A write that races with nobody stays inside the mask of every masked     *)
(* write that has read the port.                                            *)
LEMMA NoRaceInside ==
    ASSUME NEW u, NEW pins, Port!Races(u, pins), gpioOdd' = {}
    PROVE  gpioOdd = {} /\ \A v \in Users \ {u} : writes[v].busy => pins \subseteq writes[v].mask
  BY DEF Port!Races

LEMMA RacesType ==
    ASSUME NEW u, NEW pins, Port!Races(u, pins), gpioOdd \subseteq {"raced"}
    PROVE  gpioOdd' \subseteq {"raced"}
  BY DEF Port!Races

LEMMA PortStep ==
    ASSUME PortInv, [Port!Next]_(Port!gpioVars)
    PROVE  PortInv'
<1> USE DEF PortInv, Port!TypeOK, Port!GpioPinIsOwn, Port!Free
<1>1. ASSUME NEW u \in Users, NEW p \in Pins, Port!Configure(u, p) PROVE PortInv'
  <2>1. CASE oe' = oe \ {p} /\ UNCHANGED <<out, wanted, gpioOdd, writes>>
    BY <1>1, <2>1
  <2>2. ASSUME oe' = oe \cup {p}, Port!Races(u, {p}), UNCHANGED writes,
               \/ out' = out \cup {p} /\ wanted' = wanted \cup {p}
               \/ out' = out \ {p} /\ wanted' = wanted \ {p}
               \/ UNCHANGED out /\ wanted' = (wanted \ {p}) \cup (out \cap {p})
        PROVE  PortInv'
    <3>1. Port!TypeOK'
      BY <2>2, RacesType
    <3>2. Port!GpioPinIsOwn'
      BY <2>2, NoRaceInside
    <3>3. ASSUME gpioOdd' = {}, NEW v \in Users, writes[v].busy
          PROVE  /\ writes[v].high \subseteq writes[v].mask
                 /\ (writes[v].read \ writes[v].mask) \cap oe' = (wanted' \ writes[v].mask) \cap oe'
      <4>1. p \in writes[v].mask /\ gpioOdd = {}
        BY <1>1, <2>2, <3>3, NoRaceInside DEF Port!Configure
      <4> QED BY <2>2, <3>3, <4>1
    <3> QED BY <2>2, <3>1, <3>2, <3>3
  <2> QED BY <1>1, <2>1, <2>2 DEF Port!Configure
<1>2. ASSUME NEW u \in Users, NEW pins \in SUBSET Pins,
             Port!SetBits(u, pins) \/ Port!ClearBits(u, pins) \/ Port!ToggleBits(u, pins)
      PROVE  PortInv'
  <2>1. UNCHANGED <<oe, writes>> /\ Port!Races(u, pins) /\ ~writes[u].busy
    BY <1>2 DEF Port!SetBits, Port!ClearBits, Port!ToggleBits
  <2>2. \/ out' = out \cup pins /\ wanted' = wanted \cup pins
        \/ out' = out \ pins /\ wanted' = wanted \ pins
        \/ out' = (out \ pins) \cup (pins \ out) /\ wanted' = (wanted \ pins) \cup (pins \ wanted)
    BY <1>2 DEF Port!SetBits, Port!ClearBits, Port!ToggleBits
  <2>3. Port!TypeOK'
    BY <2>1, <2>2, RacesType
  <2>4. Port!GpioPinIsOwn'
    BY <2>1, <2>2, NoRaceInside
  <2>5. ASSUME gpioOdd' = {}, NEW v \in Users, writes[v].busy
        PROVE  /\ writes[v].high \subseteq writes[v].mask
               /\ (writes[v].read \ writes[v].mask) \cap oe = (wanted' \ writes[v].mask) \cap oe
    <3>1. pins \subseteq writes[v].mask /\ gpioOdd = {}
      BY <2>1, <2>5, NoRaceInside
    <3> QED BY <2>2, <2>5, <3>1
  <2> QED BY <2>1, <2>3, <2>4, <2>5
<1>3. ASSUME NEW u \in Users, Port!MaskedRead(u) PROVE PortInv'
  BY <1>3 DEF Port!MaskedRead
<1>4. ASSUME NEW u \in Users, Port!MaskedWrite(u) PROVE PortInv'
  <2>1. CASE writes[u].mask = {}
    BY <1>4, <2>1 DEF Port!MaskedWrite, Port!NoWrite
  <2>2. CASE writes[u].mask # {}
    <3> DEFINE w == writes[u]
    <3>1. /\ out' = (w.read \ w.mask) \cup w.high /\ wanted' = (wanted \ w.mask) \cup w.high
          /\ oe' = oe /\ w.busy /\ writes' = [writes EXCEPT ![u] = Port!NoWrite]
          /\ Port!Races(u, Pins)
      BY <1>4, <2>2 DEF Port!MaskedWrite, Port!Merged
    <3>2. Port!TypeOK'
      BY <3>1, RacesType DEF Port!NoWrite
    <3>3. Port!GpioPinIsOwn'
      BY <3>1, NoRaceInside
    <3>4. ASSUME gpioOdd' = {}, NEW v \in Users, writes'[v].busy
          PROVE  /\ writes'[v].high \subseteq writes'[v].mask
                 /\ (writes'[v].read \ writes'[v].mask) \cap oe' = (wanted' \ writes'[v].mask) \cap oe'
      <4>1. v # u /\ writes'[v] = writes[v]
        BY <3>1, <3>4 DEF Port!NoWrite
      <4>2. Pins \subseteq writes[v].mask /\ gpioOdd = {}
        BY <3>1, <3>4, <4>1, NoRaceInside
      <4> QED BY <3>2, <4>1, <4>2, <3>4
    <3> QED BY <3>2, <3>3, <3>4
  <2> QED BY <2>1, <2>2
<1>5. CASE UNCHANGED Port!gpioVars
  BY <1>5 DEF Port!gpioVars
<1> QED BY <1>1, <1>2, <1>3, <1>4, <1>5 DEF Port!Next
-------------------------------------------------------------------------------
(* GpioEdges.  The interrupt holds no pins when it is idle.                 *)
EdgeInv == Edge!TypeOK /\ Edge!GpioEdgeIsTold /\ (fired.pc = "idle" => fired.pins = {})

LEMMA EdgeInit == Edge!Init => EdgeInv
  BY DEF Edge!Init, EdgeInv, Edge!TypeOK, Edge!GpioEdgeIsTold

LEMMA EdgeStep ==
    ASSUME EdgeInv, [Edge!Next]_(Edge!edgeVars)
    PROVE  EdgeInv'
<1> USE DEF EdgeInv, Edge!TypeOK, Edge!GpioEdgeIsTold
<1>1. ASSUME NEW p \in EdgePins, Edge!ConfigureInterrupt(p) PROVE EdgeInv'
  BY <1>1 DEF Edge!ConfigureInterrupt
<1>2. ASSUME NEW p \in EdgePins, Edge!Edge(p) PROVE EdgeInv'
  BY <1>2 DEF Edge!Edge
<1>3. CASE Edge!IsrReads
  BY <1>3 DEF Edge!IsrReads
<1>4. CASE Edge!IsrClears
  BY <1>4 DEF Edge!IsrClears, Edge!Cleared
<1>5. CASE Edge!IsrFires
  BY <1>5 DEF Edge!IsrFires
<1>6. CASE UNCHANGED Edge!edgeVars
  BY <1>6 DEF Edge!edgeVars
<1> QED BY <1>1, <1>2, <1>3, <1>4, <1>5, <1>6 DEF Edge!Next

THEOREM PortIsSound == Port!Spec => []PortInv
  BY PortInit, PortStep, PTL DEF Port!Spec

THEOREM EdgesAreSound == Edge!Spec => []EdgeInv
  BY EdgeInit, EdgeStep, PTL DEF Edge!Spec

(* An output has the level its user wants unless a masked write raced, and  *)
(* an edge that was enabled is about to be told to the callbacks.           *)
THEOREM GpioIsServed == Spec => []GpioServesItsUsers
<1>1. PortInv /\ EdgeInv => GpioServesItsUsers
  BY DEF PortInv, EdgeInv, GpioServesItsUsers
<1> QED BY <1>1, PortIsSound, EdgesAreSound, UnionIsEach, PTL
-------------------------------------------------------------------------------
(* EthMac.  The mutex belongs to the thread that sends; the semaphore of a  *)
(* driver that has not booted is empty and an idle interrupt holds nothing. *)
EthHolds == \A t \in EthThreads : ethTh[t].pc \in {"send", "wait", "out"} => txMutex = t
EthIdle  == (~booted => rxSem = 0) /\ (isrPc = "idle" => snap = {})

(* The MAC has the data of who queued it, unless an old descriptor was read.*)
EthOwnData ==
    /\ "otherData" \in ethOdd => "readOld" \in ethOdd
    /\ "readOld" \notin ethOdd =>
         \A d \in Eth!Descs : txRing.desc[d].own => txRing.desc[d].data = txRing.desc[d].by

(* Without a packet in flight at its start, a send has the only descriptor  *)
(* of the MAC, and no completion is told before the MAC is done with it.    *)
NoTi == "TI" \notin dmaStatus \cup snap /\ txSem = 0
EthOwnDesc ==
    /\ "notSent" \in ethOdd => "inFlight" \in ethOdd
    /\ "inFlight" \notin ethOdd => \A t \in EthThreads :
         /\ ethTh[t].pc = "send" => NoTi /\ \A d \in Eth!Descs : ~txRing.desc[d].own
         /\ ethTh[t].pc = "wait" =>
              /\ \A d \in Eth!Descs : txRing.desc[d].own => d = ethTh[t].mine
              /\ txRing.desc[ethTh[t].mine].own => NoTi

EthReads ==
    frames > 0 /\ rxPc = "sleep" /\ rxSem = 0 /\ "RI" \notin dmaStatus \cup snap
        => "riLost" \in ethOdd \/ "notBooted" \in ethOdd \/ "allocFailed" \in ethOdd

EthInv == Eth!TypeOK /\ EthHolds /\ EthIdle /\ EthOwnData /\ EthOwnDesc /\ EthReads

LEMMA EthInit == Eth!Init => EthInv
<1> SUFFICES ASSUME Eth!Init PROVE EthInv
  OBVIOUS
<1> USE EthAssumption DEF EthAssumption, Eth!Init, Eth!Descs
<1>1. 0 \in Eth!Descs
  OBVIOUS
<1>2. Eth!TypeOK
  <2>1. ethTh \in [EthThreads -> [pc : {"idle", "lock", "send", "wait", "out"}, read : Eth!Descs, mine : Eth!Descs]]
    BY <1>1 DEF Eth!TypeOK
  <2>2. txRing \in [cur : Eth!Descs, mac : Eth!Descs, desc : [Eth!Descs -> Eth!Rec]]
    <3>1. [own |-> FALSE, data |-> NoEth, by |-> NoEth] \in Eth!Rec
      BY DEF Eth!Rec
    <3> QED BY <1>1, <3>1
  <2>6. booted \in BOOLEAN
    BY Zenon
  <2>3. /\ txMutex \in EthThreads \cup {NoEth} /\ txSem \in 0..1 /\ rxSem \in 0..1
        /\ rxPc \in {"sleep", "read"}
    OBVIOUS
  <2>5. frames \in 0..RxCount
    OBVIOUS
  <2>4. /\ dmaStatus \subseteq {"TI", "RI"} /\ snap \subseteq {"TI", "RI"} /\ isrPc \in {"idle", "ti", "ri"}
        /\ ethOdd \subseteq {"readOld", "inFlight", "riLost", "allocFailed", "notBooted", "otherData", "notSent"}
    OBVIOUS
  <2> QED BY <2>1, <2>2, <2>3, <2>4, <2>5, <2>6 DEF Eth!TypeOK
<1>3. EthHolds /\ EthIdle
  BY DEF EthHolds, EthIdle
<1>4. EthOwnData /\ EthOwnDesc
  BY DEF EthOwnData, EthOwnDesc
<1>5. EthReads
  BY DEF EthReads
<1> QED BY <1>2, <1>3, <1>4, <1>5 DEF EthInv

LEMMA NextDesc == 0 \in Eth!Descs /\ \A d \in Eth!Descs : (d + 1) % TxCount \in Eth!Descs
  BY EthAssumption DEF EthAssumption, Eth!Descs

LEMMA EthReadDescStep ==
    ASSUME EthInv, NEW t \in EthThreads, Eth!ReadDesc(t)
    PROVE  EthInv'
<1> USE DEF EthInv, Eth!ReadDesc, Eth!EthIn, Eth!EthGo, Eth!Note, Eth!rxSide, Eth!irq
<1>t. Eth!TypeOK /\ Eth!TypeOK'
  <2> USE DEF Eth!TypeOK
  <2>1. ethTh' \in [EthThreads -> [pc : {"idle", "lock", "send", "wait", "out"}, read : Eth!Descs, mine : Eth!Descs]]
    OBVIOUS
  <2>2. txRing' \in [cur : Eth!Descs, mac : Eth!Descs, desc : [Eth!Descs -> Eth!Rec]]
    OBVIOUS
  <2>3. booted' \in BOOLEAN /\ txMutex' \in EthThreads \cup {NoEth} /\ txSem' \in 0..1 /\ rxSem' \in 0..1
    OBVIOUS
  <2>4. /\ frames' \in 0..RxCount /\ rxPc' \in {"sleep", "read"} /\ dmaStatus' \subseteq {"TI", "RI"}
        /\ snap' \subseteq {"TI", "RI"} /\ isrPc' \in {"idle", "ti", "ri"}
    OBVIOUS
  <2>5. ethOdd' \subseteq {"readOld", "inFlight", "riLost", "allocFailed", "notBooted", "otherData", "notSent"}
    OBVIOUS
  <2> QED BY <2>1, <2>2, <2>3, <2>4, <2>5
<1>1. EthHolds'
  BY <1>t DEF EthHolds, Eth!TypeOK, Eth!Rec
<1>2. EthIdle'
  BY <1>t DEF EthIdle, Eth!TypeOK, Eth!Rec
<1>3. EthOwnData'
  BY <1>t DEF EthOwnData, Eth!TypeOK, Eth!Rec
<1>4. EthOwnDesc'
  BY <1>t DEF EthOwnDesc, NoTi, EthHolds, Eth!TypeOK, Eth!Rec
<1>5. EthReads'
  BY <1>t DEF EthReads, EthIdle, Eth!TypeOK
<1> QED BY <1>t, <1>1, <1>2, <1>3, <1>4, <1>5 DEF EthInv

LEMMA EthLockStep ==
    ASSUME EthInv, NEW t \in EthThreads, Eth!Lock(t)
    PROVE  EthInv'
<1> USE EthAssumption DEF EthAssumption, EthInv, Eth!Lock, Eth!EthIn, Eth!EthGo, Eth!Note, Eth!rxSide, Eth!irq
<1>t. Eth!TypeOK /\ Eth!TypeOK'
  BY DEF Eth!TypeOK, Eth!Rec, Eth!Sendable
<1>1. EthHolds'
  BY <1>t DEF EthHolds, Eth!TypeOK, Eth!Rec
<1>2. EthIdle'
  BY <1>t DEF EthIdle, Eth!TypeOK, Eth!Rec
<1>3. EthOwnData'
  BY <1>t DEF EthOwnData, Eth!TypeOK, Eth!Rec
<1>4. EthOwnDesc'
  BY <1>t DEF EthOwnDesc, NoTi, EthHolds, Eth!TypeOK, Eth!Rec
<1>5. EthReads'
  BY <1>t DEF EthReads, EthIdle, Eth!TypeOK
<1> QED BY <1>t, <1>1, <1>2, <1>3, <1>4, <1>5 DEF EthInv

LEMMA EthSendStep ==
    ASSUME EthInv, NEW t \in EthThreads, Eth!Send(t)
    PROVE  EthInv'
<1> DEFINE r == ethTh[t].read
           c == txRing.cur
           rec == txRing'.desc
<1>t. Eth!TypeOK
  BY DEF EthInv
<1>r. r \in Eth!Descs /\ c \in Eth!Descs /\ txRing.desc \in [Eth!Descs -> Eth!Rec] /\ txRing.mac \in Eth!Descs
  BY <1>t DEF Eth!TypeOK
<1>s. /\ ethTh[t].pc = "send" /\ ethOdd \subseteq Eth!Sendable /\ ~txRing.desc[r].own /\ ~txRing.desc[c].own
      /\ ethTh' = [ethTh EXCEPT ![t].pc = "wait", ![t].mine = c]
      /\ ethOdd' = ethOdd \cup (IF r # c THEN {"readOld"} ELSE {})
      /\ UNCHANGED <<booted, txMutex, txSem, rxSem, frames, rxPc, dmaStatus, isrPc, snap>>
  BY DEF Eth!Send, Eth!EthIn, Eth!Note, Eth!rxSide, Eth!irq
<1>d. txRing' = [txRing EXCEPT !.cur = (c + 1) % TxCount,
                   !.desc = [[txRing.desc EXCEPT ![r].data = t] EXCEPT ![c].own = TRUE, ![c].by = t]]
  BY DEF Eth!Send
<1> HIDE DEF r, c
<1>e. /\ txRing'.cur = (c + 1) % TxCount /\ txRing'.mac = txRing.mac
      /\ rec = [[txRing.desc EXCEPT ![r].data = t] EXCEPT ![c].own = TRUE, ![c].by = t]
  BY <1>t, <1>d DEF Eth!TypeOK
<1> DEFINE withBuf == [txRing.desc EXCEPT ![r].data = t]
<1>v. withBuf[c] = [own |-> txRing.desc[c].own, data |-> IF r = c THEN t ELSE txRing.desc[c].data,
                   by |-> txRing.desc[c].by]
  BY <1>r DEF Eth!Rec
<1>w. rec[c] = [own |-> TRUE, data |-> withBuf[c].data, by |-> t]
  <2>1. rec[c] = [withBuf[c] EXCEPT !.own = TRUE, !.by = t]
    BY <1>e, <1>r
  <2> QED BY <2>1, <1>v
<1>f. /\ DOMAIN rec = Eth!Descs
      /\ rec[c] = [own |-> TRUE, data |-> IF r = c THEN t ELSE txRing.desc[c].data, by |-> t]
      /\ r # c => rec[r] = [txRing.desc[r] EXCEPT !.data = t]
      /\ \A d \in Eth!Descs : d # r /\ d # c => rec[d] = txRing.desc[d]
  BY <1>e, <1>r, <1>v, <1>w
<1>g. rec \in [Eth!Descs -> Eth!Rec]
  <2>1. rec[c] \in Eth!Rec
    BY <1>f, <1>r DEF Eth!Rec
  <2>2. r # c => rec[r] \in Eth!Rec
    BY <1>f, <1>r DEF Eth!Rec
  <2> QED BY <1>e, <1>f, <1>r, <2>1, <2>2
<1>h. txRing' \in [cur : Eth!Descs, mac : Eth!Descs, desc : [Eth!Descs -> Eth!Rec]]
  <2>1. txRing' = [cur |-> (c + 1) % TxCount, mac |-> txRing.mac, desc |-> rec]
    BY <1>t, <1>d, <1>e DEF Eth!TypeOK
  <2> QED BY <1>g, <1>r, <2>1, NextDesc
<1>i. ethTh' \in [EthThreads -> [pc : {"idle", "lock", "send", "wait", "out"}, read : Eth!Descs, mine : Eth!Descs]]
  BY <1>r, <1>s, <1>t DEF Eth!TypeOK
<1>j. Eth!TypeOK'
  BY <1>h, <1>i, <1>s, <1>t DEF Eth!TypeOK, Eth!Sendable
<1>k. \A u \in EthThreads : u # t => ethTh'[u] = ethTh[u]
  BY <1>s, <1>t DEF Eth!TypeOK
<1>l. ethTh'[t].pc = "wait" /\ ethTh'[t].mine = c
  BY <1>s, <1>t DEF Eth!TypeOK
<1>m. \A d \in Eth!Descs : rec[d].own => d = c \/ txRing.desc[d].own
  BY <1>f, <1>r, <1>s DEF Eth!Rec
<1>1. EthHolds'
  BY <1>k, <1>l, <1>s DEF EthHolds, EthInv
<1>2. EthIdle'
  BY <1>s DEF EthIdle, EthInv
<1>3. EthOwnData'
  <2>1. r = c /\ "readOld" \notin ethOdd' => \A d \in Eth!Descs : rec[d].own => rec[d].data = rec[d].by
    BY <1>f, <1>s DEF EthOwnData, EthInv
  <2> QED BY <2>1, <1>s DEF EthOwnData, EthInv
<1>4. EthOwnDesc'
  <2>1. ASSUME "inFlight" \notin ethOdd' PROVE NoTi /\ \A d \in Eth!Descs : ~txRing.desc[d].own
    BY <2>1, <1>s DEF EthOwnDesc, EthInv
  <2>2. ASSUME NEW u \in EthThreads, ethTh'[u].pc \in {"send", "wait"} PROVE u = t
    BY <2>2, <1>k, <1>s DEF EthHolds, EthInv
  <2>3. "notSent" \in ethOdd' => "inFlight" \in ethOdd'
    BY <1>s DEF EthOwnDesc, EthInv
  <2>4. NoTi => NoTi'
    BY <1>s DEF NoTi
  <2> QED BY <2>1, <2>2, <2>3, <2>4, <1>l, <1>m DEF EthOwnDesc
<1>5. EthReads'
  BY <1>s DEF EthReads, EthInv
<1> QED BY <1>j, <1>1, <1>2, <1>3, <1>4, <1>5 DEF EthInv

LEMMA EthSendFailsStep ==
    ASSUME EthInv, NEW t \in EthThreads, Eth!SendFails(t)
    PROVE  EthInv'
<1> DEFINE r == ethTh[t].read
<1>t. Eth!TypeOK
  BY DEF EthInv
<1>r. r \in Eth!Descs /\ txRing.desc \in [Eth!Descs -> Eth!Rec]
  BY <1>t DEF Eth!TypeOK
<1>s. /\ ethTh[t].pc = "send" /\ ethTh' = [ethTh EXCEPT ![t].pc = "out"]
      /\ UNCHANGED <<booted, txMutex, txSem, rxSem, frames, rxPc, dmaStatus, isrPc, snap, ethOdd>>
  BY DEF Eth!SendFails, Eth!EthIn, Eth!EthGo, Eth!rxSide, Eth!irq
<1>d. UNCHANGED txRing \/ (txRing' = [txRing EXCEPT !.desc[r].data = t] /\ ~txRing.desc[r].own)
  BY DEF Eth!SendFails
<1> HIDE DEF r
<1>g. /\ txRing'.desc \in [Eth!Descs -> Eth!Rec]
      /\ txRing' \in [cur : Eth!Descs, mac : Eth!Descs, desc : [Eth!Descs -> Eth!Rec]]
  <2>1. CASE UNCHANGED txRing
    BY <2>1, <1>t, <1>r DEF Eth!TypeOK
  <2>2. CASE txRing' = [txRing EXCEPT !.desc[r].data = t]
    <3>1. [txRing.desc EXCEPT ![r].data = t] \in [Eth!Descs -> Eth!Rec]
      BY <1>r DEF Eth!Rec
    <3>2. txRing' = [cur |-> txRing.cur, mac |-> txRing.mac, desc |-> [txRing.desc EXCEPT ![r].data = t]]
      BY <2>2, <1>t DEF Eth!TypeOK
    <3> QED BY <3>1, <3>2, <1>t DEF Eth!TypeOK
  <2> QED BY <1>d, <2>1, <2>2
<1>h. \A d \in Eth!Descs : /\ txRing'.desc[d].own <=> txRing.desc[d].own
                           /\ txRing.desc[d].own => txRing'.desc[d] = txRing.desc[d]
  BY <1>d, <1>r, <1>t DEF Eth!TypeOK, Eth!Rec
<1>i. ethTh' \in [EthThreads -> [pc : {"idle", "lock", "send", "wait", "out"}, read : Eth!Descs, mine : Eth!Descs]]
  BY <1>s, <1>t DEF Eth!TypeOK
<1>j. Eth!TypeOK'
  BY <1>g, <1>i, <1>s, <1>t DEF Eth!TypeOK
<1>k. \A u \in EthThreads : u # t => ethTh'[u] = ethTh[u]
  BY <1>s, <1>t DEF Eth!TypeOK
<1>l. ethTh'[t].pc = "out" /\ ethTh'[t].mine = ethTh[t].mine
  BY <1>s, <1>t DEF Eth!TypeOK
<1>1. EthHolds'
  BY <1>k, <1>l, <1>s DEF EthHolds, EthInv
<1>2. EthIdle' /\ EthReads'
  BY <1>s DEF EthIdle, EthReads, EthInv
<1>3. EthOwnData'
  BY <1>h, <1>s DEF EthOwnData, EthInv
<1>4. EthOwnDesc'
  <2>1. \A u \in EthThreads : ethTh'[u].pc \in {"send", "wait"} => u # t /\ ethTh[u].mine \in Eth!Descs
    BY <1>l, <1>t DEF Eth!TypeOK
  <2>2. NoTi => NoTi'
    BY <1>s DEF NoTi
  <2> QED BY <1>h, <1>k, <1>s, <2>1, <2>2 DEF EthOwnDesc, EthInv
<1> QED BY <1>j, <1>1, <1>2, <1>3, <1>4 DEF EthInv

LEMMA EthSentStep ==
    ASSUME EthInv, NEW t \in EthThreads, Eth!Sent(t)
    PROVE  EthInv'
<1> USE DEF EthInv, Eth!Sent, Eth!EthIn, Eth!EthGo, Eth!Note, Eth!rxSide, Eth!irq
<1>t. Eth!TypeOK /\ Eth!TypeOK'
  BY DEF Eth!TypeOK, Eth!Rec, Eth!Sendable
<1>1. EthHolds'
  BY <1>t DEF EthHolds, Eth!TypeOK, Eth!Rec
<1>2. EthIdle'
  BY <1>t DEF EthIdle, Eth!TypeOK, Eth!Rec
<1>3. EthOwnData'
  BY <1>t DEF EthOwnData, Eth!TypeOK, Eth!Rec
<1>4. EthOwnDesc'
  BY <1>t DEF EthOwnDesc, NoTi, EthHolds, Eth!TypeOK, Eth!Rec
<1>5. EthReads'
  BY <1>t DEF EthReads, EthIdle, Eth!TypeOK
<1> QED BY <1>t, <1>1, <1>2, <1>3, <1>4, <1>5 DEF EthInv

LEMMA EthSendTimeoutStep ==
    ASSUME EthInv, NEW t \in EthThreads, Eth!SendTimeout(t)
    PROVE  EthInv'
<1> USE DEF EthInv, Eth!SendTimeout, Eth!EthIn, Eth!EthGo, Eth!Note, Eth!rxSide, Eth!irq
<1>t. Eth!TypeOK /\ Eth!TypeOK'
  BY DEF Eth!TypeOK, Eth!Rec, Eth!Sendable
<1>1. EthHolds'
  BY <1>t DEF EthHolds, Eth!TypeOK, Eth!Rec
<1>2. EthIdle'
  BY <1>t DEF EthIdle, Eth!TypeOK, Eth!Rec
<1>3. EthOwnData'
  BY <1>t DEF EthOwnData, Eth!TypeOK, Eth!Rec
<1>4. EthOwnDesc'
  BY <1>t DEF EthOwnDesc, NoTi, EthHolds, Eth!TypeOK, Eth!Rec
<1>5. EthReads'
  BY <1>t DEF EthReads, EthIdle, Eth!TypeOK
<1> QED BY <1>t, <1>1, <1>2, <1>3, <1>4, <1>5 DEF EthInv

LEMMA EthUnlockStep ==
    ASSUME EthInv, NEW t \in EthThreads, Eth!Unlock(t)
    PROVE  EthInv'
<1> USE NextDesc DEF EthInv, Eth!Unlock, Eth!EthIn, Eth!EthGo, Eth!Note, Eth!rxSide, Eth!irq
<1>t. Eth!TypeOK /\ Eth!TypeOK'
  <2> USE DEF Eth!TypeOK
  <2>1. ethTh' \in [EthThreads -> [pc : {"idle", "lock", "send", "wait", "out"}, read : Eth!Descs, mine : Eth!Descs]]
    OBVIOUS
  <2>2. txRing' \in [cur : Eth!Descs, mac : Eth!Descs, desc : [Eth!Descs -> Eth!Rec]]
    OBVIOUS
  <2>3. booted' \in BOOLEAN /\ txMutex' \in EthThreads \cup {NoEth} /\ txSem' \in 0..1 /\ rxSem' \in 0..1
    OBVIOUS
  <2>4. /\ frames' \in 0..RxCount /\ rxPc' \in {"sleep", "read"} /\ dmaStatus' \subseteq {"TI", "RI"}
        /\ snap' \subseteq {"TI", "RI"} /\ isrPc' \in {"idle", "ti", "ri"}
    OBVIOUS
  <2>5. ethOdd' \subseteq {"readOld", "inFlight", "riLost", "allocFailed", "notBooted", "otherData", "notSent"}
    OBVIOUS
  <2> QED BY <2>1, <2>2, <2>3, <2>4, <2>5
<1>1. EthHolds'
  BY <1>t DEF EthHolds, Eth!TypeOK, Eth!Rec
<1>2. EthIdle'
  BY <1>t DEF EthIdle, Eth!TypeOK, Eth!Rec
<1>3. EthOwnData'
  BY <1>t DEF EthOwnData, Eth!TypeOK, Eth!Rec
<1>4. EthOwnDesc'
  BY <1>t DEF EthOwnDesc, NoTi, EthHolds, Eth!TypeOK, Eth!Rec
<1>5. EthReads'
  BY <1>t DEF EthReads, EthIdle, Eth!TypeOK
<1> QED BY <1>t, <1>1, <1>2, <1>3, <1>4, <1>5 DEF EthInv

LEMMA EthBootStep ==
    ASSUME EthInv, Eth!Boot
    PROVE  EthInv'
<1> USE DEF EthInv, Eth!Boot, Eth!EthIn, Eth!EthGo, Eth!Note, Eth!rxSide, Eth!irq
<1>t. Eth!TypeOK /\ Eth!TypeOK'
  BY DEF Eth!TypeOK, Eth!Rec, Eth!Sendable
<1>1. EthHolds'
  BY <1>t DEF EthHolds, Eth!TypeOK, Eth!Rec
<1>2. EthIdle'
  BY <1>t DEF EthIdle, Eth!TypeOK, Eth!Rec
<1>3. EthOwnData'
  BY <1>t DEF EthOwnData, Eth!TypeOK, Eth!Rec
<1>4. EthOwnDesc'
  BY <1>t DEF EthOwnDesc, NoTi, EthHolds, Eth!TypeOK, Eth!Rec
<1>5. EthReads'
  BY <1>t DEF EthReads, EthIdle, Eth!TypeOK
<1> QED BY <1>t, <1>1, <1>2, <1>3, <1>4, <1>5 DEF EthInv

LEMMA EthWakeStep ==
    ASSUME EthInv, Eth!Wake
    PROVE  EthInv'
<1> USE DEF EthInv, Eth!Wake, Eth!EthIn, Eth!EthGo, Eth!Note, Eth!rxSide, Eth!irq
<1>t. Eth!TypeOK /\ Eth!TypeOK'
  BY DEF Eth!TypeOK, Eth!Rec, Eth!Sendable
<1>1. EthHolds'
  BY <1>t DEF EthHolds, Eth!TypeOK, Eth!Rec
<1>2. EthIdle'
  BY <1>t DEF EthIdle, Eth!TypeOK, Eth!Rec
<1>3. EthOwnData'
  BY <1>t DEF EthOwnData, Eth!TypeOK, Eth!Rec
<1>4. EthOwnDesc'
  BY <1>t DEF EthOwnDesc, NoTi, EthHolds, Eth!TypeOK, Eth!Rec
<1>5. EthReads'
  BY <1>t DEF EthReads, EthIdle, Eth!TypeOK
<1> QED BY <1>t, <1>1, <1>2, <1>3, <1>4, <1>5 DEF EthInv

LEMMA EthReadFrameStep ==
    ASSUME EthInv, Eth!ReadFrame
    PROVE  EthInv'
<1> USE EthAssumption DEF EthAssumption, EthInv, Eth!ReadFrame, Eth!EthIn, Eth!EthGo, Eth!Note, Eth!rxSide, Eth!irq
<1>t. Eth!TypeOK /\ Eth!TypeOK'
  <2> USE DEF Eth!TypeOK
  <2>1. ethTh' \in [EthThreads -> [pc : {"idle", "lock", "send", "wait", "out"}, read : Eth!Descs, mine : Eth!Descs]]
    OBVIOUS
  <2>2. txRing' \in [cur : Eth!Descs, mac : Eth!Descs, desc : [Eth!Descs -> Eth!Rec]]
    OBVIOUS
  <2>3. booted' \in BOOLEAN /\ txMutex' \in EthThreads \cup {NoEth} /\ txSem' \in 0..1 /\ rxSem' \in 0..1
    OBVIOUS
  <2>4. /\ frames' \in 0..RxCount /\ rxPc' \in {"sleep", "read"} /\ dmaStatus' \subseteq {"TI", "RI"}
        /\ snap' \subseteq {"TI", "RI"} /\ isrPc' \in {"idle", "ti", "ri"}
    OBVIOUS
  <2>5. ethOdd' \subseteq {"readOld", "inFlight", "riLost", "allocFailed", "notBooted", "otherData", "notSent"}
    OBVIOUS
  <2> QED BY <2>1, <2>2, <2>3, <2>4, <2>5
<1>1. EthHolds'
  BY <1>t DEF EthHolds, Eth!TypeOK, Eth!Rec
<1>2. EthIdle'
  BY <1>t DEF EthIdle, Eth!TypeOK, Eth!Rec
<1>3. EthOwnData'
  BY <1>t DEF EthOwnData, Eth!TypeOK, Eth!Rec
<1>4. EthOwnDesc'
  BY <1>t DEF EthOwnDesc, NoTi, EthHolds, Eth!TypeOK, Eth!Rec
<1>5. EthReads'
  BY <1>t DEF EthReads, EthIdle, Eth!TypeOK
<1> QED BY <1>t, <1>1, <1>2, <1>3, <1>4, <1>5 DEF EthInv

LEMMA EthIsrReadsStep ==
    ASSUME EthInv, Eth!IsrReads
    PROVE  EthInv'
<1> USE DEF EthInv, Eth!IsrReads, Eth!EthIn, Eth!EthGo, Eth!Note, Eth!rxSide, Eth!irq
<1>t. Eth!TypeOK /\ Eth!TypeOK'
  BY DEF Eth!TypeOK, Eth!Rec, Eth!Sendable
<1>1. EthHolds'
  BY <1>t DEF EthHolds, Eth!TypeOK, Eth!Rec
<1>2. EthIdle'
  BY <1>t DEF EthIdle, Eth!TypeOK, Eth!Rec
<1>3. EthOwnData'
  BY <1>t DEF EthOwnData, Eth!TypeOK, Eth!Rec
<1>4. EthOwnDesc'
  BY <1>t DEF EthOwnDesc, NoTi, EthHolds, Eth!TypeOK, Eth!Rec
<1>5. EthReads'
  BY <1>t DEF EthReads, EthIdle, Eth!TypeOK
<1> QED BY <1>t, <1>1, <1>2, <1>3, <1>4, <1>5 DEF EthInv

LEMMA EthIsrTiStep ==
    ASSUME EthInv, Eth!IsrTi
    PROVE  EthInv'
<1> USE DEF EthInv, Eth!IsrTi, Eth!EthIn, Eth!EthGo, Eth!Note, Eth!rxSide, Eth!irq
<1>t. Eth!TypeOK /\ Eth!TypeOK'
  <2> USE DEF Eth!TypeOK
  <2>1. ethTh' \in [EthThreads -> [pc : {"idle", "lock", "send", "wait", "out"}, read : Eth!Descs, mine : Eth!Descs]]
    OBVIOUS
  <2>2. txRing' \in [cur : Eth!Descs, mac : Eth!Descs, desc : [Eth!Descs -> Eth!Rec]]
    OBVIOUS
  <2>3. booted' \in BOOLEAN /\ txMutex' \in EthThreads \cup {NoEth} /\ txSem' \in 0..1 /\ rxSem' \in 0..1
    OBVIOUS
  <2>4. /\ frames' \in 0..RxCount /\ rxPc' \in {"sleep", "read"} /\ dmaStatus' \subseteq {"TI", "RI"}
        /\ snap' \subseteq {"TI", "RI"} /\ isrPc' \in {"idle", "ti", "ri"}
    OBVIOUS
  <2>5. ethOdd' \subseteq {"readOld", "inFlight", "riLost", "allocFailed", "notBooted", "otherData", "notSent"}
    OBVIOUS
  <2> QED BY <2>1, <2>2, <2>3, <2>4, <2>5
<1>1. EthHolds'
  BY <1>t DEF EthHolds, Eth!TypeOK, Eth!Rec
<1>2. EthIdle'
  BY <1>t DEF EthIdle, Eth!TypeOK, Eth!Rec
<1>3. EthOwnData'
  BY <1>t DEF EthOwnData, Eth!TypeOK, Eth!Rec
<1>4. EthOwnDesc'
  BY <1>t DEF EthOwnDesc, NoTi, EthHolds, Eth!TypeOK, Eth!Rec
<1>5. EthReads'
  BY <1>t DEF EthReads, EthIdle, Eth!TypeOK
<1> QED BY <1>t, <1>1, <1>2, <1>3, <1>4, <1>5 DEF EthInv

LEMMA EthIsrRiStep ==
    ASSUME EthInv, Eth!IsrRi
    PROVE  EthInv'
<1> USE DEF EthInv, Eth!IsrRi, Eth!EthIn, Eth!EthGo, Eth!Note, Eth!rxSide, Eth!irq
<1>t. Eth!TypeOK /\ Eth!TypeOK'
  <2> USE DEF Eth!TypeOK
  <2>1. ethTh' \in [EthThreads -> [pc : {"idle", "lock", "send", "wait", "out"}, read : Eth!Descs, mine : Eth!Descs]]
    OBVIOUS
  <2>2. txRing' \in [cur : Eth!Descs, mac : Eth!Descs, desc : [Eth!Descs -> Eth!Rec]]
    OBVIOUS
  <2>3. booted' \in BOOLEAN /\ txMutex' \in EthThreads \cup {NoEth} /\ txSem' \in 0..1 /\ rxSem' \in 0..1
    OBVIOUS
  <2>4. /\ frames' \in 0..RxCount /\ rxPc' \in {"sleep", "read"} /\ dmaStatus' \subseteq {"TI", "RI"}
        /\ snap' \subseteq {"TI", "RI"} /\ isrPc' \in {"idle", "ti", "ri"}
    OBVIOUS
  <2>5. ethOdd' \subseteq {"readOld", "inFlight", "riLost", "allocFailed", "notBooted", "otherData", "notSent"}
    OBVIOUS
  <2> QED BY <2>1, <2>2, <2>3, <2>4, <2>5
<1>1. EthHolds'
  BY <1>t DEF EthHolds, Eth!TypeOK, Eth!Rec
<1>2. EthIdle'
  BY <1>t DEF EthIdle, Eth!TypeOK, Eth!Rec
<1>3. EthOwnData'
  BY <1>t DEF EthOwnData, Eth!TypeOK, Eth!Rec
<1>4. EthOwnDesc'
  BY <1>t DEF EthOwnDesc, NoTi, EthHolds, Eth!TypeOK, Eth!Rec
<1>5. EthReads'
  BY <1>t DEF EthReads, EthIdle, Eth!TypeOK
<1> QED BY <1>t, <1>1, <1>2, <1>3, <1>4, <1>5 DEF EthInv

LEMMA EthMacSendsStep ==
    ASSUME EthInv, Eth!MacSends
    PROVE  EthInv'
<1> USE NextDesc DEF EthInv, Eth!MacSends, Eth!EthIn, Eth!EthGo, Eth!Note, Eth!rxSide, Eth!irq
<1>t. Eth!TypeOK /\ Eth!TypeOK'
  BY DEF Eth!TypeOK, Eth!Rec, Eth!Sendable
<1>1. EthHolds'
  BY <1>t DEF EthHolds, Eth!TypeOK, Eth!Rec
<1>2. EthIdle'
  BY <1>t DEF EthIdle, Eth!TypeOK, Eth!Rec
<1>3. EthOwnData'
  BY <1>t DEF EthOwnData, Eth!TypeOK, Eth!Rec
<1>4. EthOwnDesc'
  BY <1>t DEF EthOwnDesc, NoTi, EthHolds, Eth!TypeOK, Eth!Rec
<1>5. EthReads'
  BY <1>t DEF EthReads, EthIdle, Eth!TypeOK
<1> QED BY <1>t, <1>1, <1>2, <1>3, <1>4, <1>5 DEF EthInv

LEMMA EthMacReceivesStep ==
    ASSUME EthInv, Eth!MacReceives
    PROVE  EthInv'
<1> USE EthAssumption DEF EthAssumption, EthInv, Eth!MacReceives, Eth!EthIn, Eth!EthGo, Eth!Note, Eth!rxSide, Eth!irq
<1>t. Eth!TypeOK /\ Eth!TypeOK'
  BY DEF Eth!TypeOK, Eth!Rec, Eth!Sendable
<1>1. EthHolds'
  BY <1>t DEF EthHolds, Eth!TypeOK, Eth!Rec
<1>2. EthIdle'
  BY <1>t DEF EthIdle, Eth!TypeOK, Eth!Rec
<1>3. EthOwnData'
  BY <1>t DEF EthOwnData, Eth!TypeOK, Eth!Rec
<1>4. EthOwnDesc'
  BY <1>t DEF EthOwnDesc, NoTi, EthHolds, Eth!TypeOK, Eth!Rec
<1>5. EthReads'
  BY <1>t DEF EthReads, EthIdle, Eth!TypeOK
<1> QED BY <1>t, <1>1, <1>2, <1>3, <1>4, <1>5 DEF EthInv

LEMMA EthStep ==
    ASSUME EthInv, [Eth!Next]_(Eth!ethVars)
    PROVE  EthInv'
<1>1. CASE UNCHANGED Eth!ethVars
  BY <1>1 DEF EthInv, Eth!TypeOK, EthHolds, EthIdle, EthOwnData, EthOwnDesc, EthReads, NoTi, Eth!ethVars
<1>2. CASE Eth!Next
  BY <1>2, EthReadDescStep, EthLockStep, EthSendStep, EthSendFailsStep, EthSentStep, EthSendTimeoutStep,
     EthUnlockStep, EthBootStep, EthWakeStep, EthReadFrameStep, EthIsrReadsStep, EthIsrTiStep,
     EthIsrRiStep, EthMacSendsStep, EthMacReceivesStep DEF Eth!Next
<1> QED BY <1>1, <1>2

THEOREM EthIsSound == Eth!Spec => []EthInv
  BY EthInit, EthStep, PTL DEF Eth!Spec

(* A send that returned 0 had its own packet transmitted (eth_tx), unless a *)
(* packet that had timed out was in flight or an old descriptor was read.   *)
THEOREM EthSends == Spec => []EthSentIsOwn
<1>1. EthInv => EthSentIsOwn
  BY DEF EthInv, EthOwnData, EthOwnDesc, EthSentIsOwn, Eth!EthSentIsOwn
<1> QED BY <1>1, EthIsSound, UnionIsEach, PTL

(* A received frame never waits in the ring with nobody about to read it    *)
(* (hpm_eth_isr, rx_thread), unless its interrupt was lost, came before the *)
(* semaphores, or no packet could be allocated.                             *)
THEOREM EthReceives == Spec => []EthFrameIsRead
<1>1. EthInv => EthFrameIsRead
  BY DEF EthInv, EthReads, EthFrameIsRead, Eth!EthFrameIsRead
<1> QED BY <1>1, EthIsSound, UnionIsEach, PTL
-------------------------------------------------------------------------------
(* Pwm.  The least extension a count fits with exists when one does, and is *)
(* zero for a count that fits without.                                      *)
LEMMA NatHasLeast ==
    ASSUME NEW T, T \subseteq Nat, T # {}
    PROVE  \E i \in T : \A j \in T : i <= j
<1>1. PICK i \in T : \A j \in T : ~ (<<j, i>> \in OpToRel(<, Nat))
  BY WFMin, NatLessThanWellFounded
<1>2. \A j \in T : ~ (j < i)
  BY <1>1 DEF OpToRel
<1> QED BY <1>2

LEMMA QuotientIsNat == \A n, i \in Nat : n \div (i + 1) \in Nat /\ n \div 1 = n
  OBVIOUS

LEMMA Remainder ==
    ASSUME NEW n \in Nat, NEW i \in Nat
    PROVE  n - (i + 1) * (n \div (i + 1)) \in 0 .. i
<1>1. \A k \in Nat \ {0} : n - k * (n \div k) \in 0 .. (k - 1)
  OBVIOUS
<1>2. i + 1 \in Nat \ {0} /\ (i + 1) - 1 = i
  OBVIOUS
<1> QED BY <1>1, <1>2

LEMMA SplitFits ==
    ASSUME NEW n \in Nat, NEW from \in Nat, Wave!Fits(n, from) # {}
    PROVE  /\ Wave!Split(n, from) \in (0 .. MaxExt) \X (0 .. Limit)
           /\ n - Wave!Cycles(Wave!Split(n, from)) \in 0 .. Wave!Split(n, from)[1]
<1> USE PwmAssumption DEF PwmAssumption
<1> DEFINE T == Wave!Fits(n, from)
           least == CHOOSE i \in T : \A j \in T : i <= j
<1>1. T \subseteq Nat
  BY DEF Wave!Fits
<1>2. \E i \in T : \A j \in T : i <= j
  BY <1>1, NatHasLeast
<1>3. least \in T
  BY <1>2
<1>6. Wave!Split(n, from) = <<least, n \div (least + 1)>>
  BY DEF Wave!Split
<1> HIDE DEF least
<1>4. least \in 0 .. MaxExt /\ n \div (least + 1) <= Limit
  BY <1>3 DEF Wave!Fits
<1>5. n \div (least + 1) \in Nat
  BY <1>4, QuotientIsNat
<1>7. Wave!Split(n, from)[1] = least /\ Wave!Split(n, from)[2] = n \div (least + 1)
  BY <1>6
<1>8. n - (least + 1) * (n \div (least + 1)) \in 0 .. least
  <2>1. least \in Nat
    BY <1>4
  <2> QED BY <2>1, Remainder
<1>9. n - Wave!Cycles(Wave!Split(n, from)) \in 0 .. Wave!Split(n, from)[1]
  BY <1>7, <1>8 DEF Wave!Cycles
<1> QED BY <1>4, <1>5, <1>6, <1>9

LEMMA SplitOfSmall ==
    ASSUME NEW n \in Nat, n <= Limit
    PROVE  Wave!Split(n, 0) = <<0, n>>
<1> USE PwmAssumption DEF PwmAssumption
<1>1. 0 \in Wave!Fits(n, 0) /\ \A j \in Wave!Fits(n, 0) : 0 <= j /\ j \in Nat
  BY QuotientIsNat DEF Wave!Fits
<1>2. (CHOOSE i \in Wave!Fits(n, 0) : \A j \in Wave!Fits(n, 0) : i <= j) = 0
  BY <1>1
<1>3. Wave!Split(n, 0) = <<0, n \div (0 + 1)>>
  BY <1>2 DEF Wave!Split
<1> QED BY <1>3

(* A smaller count fits wherever a larger one does.                         *)
LEMMA FitsBelow ==
    ASSUME NEW n \in Nat, NEW m \in Nat, m <= n, Wave!Fits(n, 1) # {}
    PROVE  Wave!Fits(m, 0) # {}
<1> USE PwmAssumption DEF PwmAssumption
<1>1. PICK i \in 1 .. MaxExt : n \div (i + 1) <= Limit
  BY DEF Wave!Fits
<1>2. m \div (i + 1) <= n \div (i + 1)
  <2>1. ASSUME NEW k \in Nat, k > 0 PROVE m \div k <= n \div k
    <3>1. /\ m \div k \in Int /\ n \div k \in Int
          /\ k * (m \div k) <= m /\ n < k * (n \div k) + k
      BY <2>1
    <3> QED BY <2>1, <3>1
  <2> QED BY <2>1
<1>3. i \in Wave!Fits(m, 0)
  BY <1>1, <1>2, QuotientIsNat DEF Wave!Fits
<1> QED BY <1>3

(* The pairs of channels.                                                   *)
LEMMA PairsAre ==
    \A c, d \in Nat : /\ Wave!Even(c) \in Nat /\ Wave!Even(Wave!Even(c)) = Wave!Even(c)
                      /\ Wave!Even(c) \div 2 = c \div 2
                      /\ Wave!Even(c) = Wave!Even(d) => c \div 2 = d \div 2
                      /\ Wave!Even(c) = Wave!Even(d) /\ c # d => c = Wave!Even(c) \/ d = Wave!Even(d)
  BY DEF Wave!Even

(* A channel whose values have taken effect has been asked for something.   *)
PwmLive == pwmGen = 2 => \A d \in live : asked[d] # Wave!NoRequest
PwmInv == Wave!TypeOK /\ Wave!PwmOkMeansApplied /\ PwmLive

LEMMA PwmInit == Wave!Init => PwmInv
<1> SUFFICES ASSUME Wave!Init PROVE PwmInv
  OBVIOUS
<1> USE PwmAssumption DEF PwmAssumption, Wave!Init, Wave!NoRequest, Wave!Modes
<1>1. Wave!TypeOK
  BY DEF Wave!TypeOK
<1>2. Wave!PwmOkMeansApplied
  BY DEF Wave!PwmOkMeansApplied
<1> QED BY <1>1, <1>2 DEF PwmInv, PwmLive

(* What a request writes: its type, the cycles it counts, and its edge.     *)
LEMMA RequestType ==
    ASSUME NEW period \in Periods, Wave!Supported(period), pwmGen \in {1, 2}
    PROVE  LET r == Wave!ReloadOf(period) IN
           /\ r \in (0 .. MaxExt) \X (0 .. Limit) /\ period - Wave!Cycles(r) \in 0 .. r[1]
           /\ \A q \in Wave!Requests(period) :
                /\ q.period = period /\ q.pulse \in Nat /\ period - q.pulse \in Nat
                /\ q.mode \in {"normal", "inverted"}
                /\ Wave!Updated(q) \in (0 .. MaxExt) \X (0 .. Limit)
                /\ period - q.pulse <= r[2] => Wave!Updated(q) = <<0, period - q.pulse>>
<1> USE PwmAssumption DEF PwmAssumption
<1> DEFINE r == Wave!ReloadOf(period)
<1>1. period \in Nat /\ Limit \in Nat
  OBVIOUS
<1>2. /\ r \in (0 .. MaxExt) \X (0 .. Limit) /\ period - Wave!Cycles(r) \in 0 .. r[1]
      /\ \A m \in Nat : m <= period => Wave!Split(m, 0) \in (0 .. MaxExt) \X (0 .. Limit)
  <2>1. CASE period <= Limit
    <3>1. r = <<0, period>>
      BY <1>1, <2>1 DEF Wave!ReloadOf
    <3>2. Wave!Cycles(r) = period /\ r[1] = 0
      BY <1>1, <3>1 DEF Wave!Cycles
    <3>3. \A m \in Nat : m <= period => Wave!Split(m, 0) = <<0, m>> /\ m <= Limit
      BY <1>1, <2>1, SplitOfSmall
    <3> QED BY <1>1, <2>1, <3>1, <3>2, <3>3
  <2>2. CASE period > Limit
    <3>1. Wave!Fits(period, 1) # {} /\ r = Wave!Split(period, 1)
      BY <1>1, <2>2 DEF Wave!Supported, Wave!ReloadOf
    <3>2. \A m \in Nat : m <= period => Wave!Split(m, 0) \in (0 .. MaxExt) \X (0 .. Limit)
      BY <1>1, <3>1, FitsBelow, SplitFits
    <3> QED BY <1>1, <3>1, <3>2, SplitFits
  <2> QED BY <1>1, <2>1, <2>2
<1> HIDE DEF r
<1>3. ASSUME NEW q \in Wave!Requests(period)
      PROVE  /\ q.period = period /\ q.pulse \in Nat /\ period - q.pulse \in Nat
             /\ q.mode \in {"normal", "inverted"}
             /\ Wave!Updated(q) \in (0 .. MaxExt) \X (0 .. Limit)
             /\ period - q.pulse <= r[2] => Wave!Updated(q) = <<0, period - q.pulse>>
  <2>1. /\ q.period = period /\ q.pulse \in Nat /\ period - q.pulse \in Nat /\ period - q.pulse <= period
        /\ q.mode \in {"normal", "inverted"}
    BY <1>3 DEF Wave!Requests
  <2> DEFINE m == period - q.pulse
  <2>2. Wave!Updated(q) = Wave!Split(m, 0)
    BY <2>1 DEF Wave!Updated
  <2>3. r[2] \in 0 .. Limit
    BY <1>2
  <2> HIDE DEF m
  <2>4. m \in Nat /\ m <= period
    BY <2>1 DEF m
  <2>5. m <= r[2] => Wave!Split(m, 0) = <<0, m>>
    BY <1>1, <2>3, <2>4, SplitOfSmall
  <2> QED BY <1>2, <2>1, <2>2, <2>4, <2>5 DEF m
<1> QED BY <1>2, <1>3 DEF r

(* The reload value of the other channels of the counter is changed, noted. *)
LEMMA SharedNoted ==
    ASSUME NEW c \in Channels, NEW r, Wave!SetReload(c, r), Wave!TypeOK,
           NEW d \in Channels, d # c, reload'[d] # reload[d]
    PROVE  <<d, "shared">> \in Wave!Shared(c, r)
  BY DEF Wave!SetReload, Wave!Shared, Wave!TypeOK

LEMMA SharedType ==
    ASSUME NEW c \in Channels, NEW r
    PROVE  Wave!Shared(c, r) \subseteq Channels \X {"shared"}
  BY DEF Wave!Shared, Wave!Siblings

(* A channel whose registers, request and excuses are kept is as asked.     *)
LEMMA KeptAsAsked ==
    ASSUME NEW d \in Channels, Wave!AsAsked(d, asked[d]), asked'[d] = asked[d], wave'[d] = wave[d],
           \A o \in {"unset", "shared", "split"} : <<d, o>> \in pwmOdd => <<d, o>> \in pwmOdd',
           <<d, "shared">> \in pwmOdd' \/ reload'[d] = reload[d]
    PROVE  Wave!AsAsked(d, asked[d])'
<1>1. CASE reload'[d] = reload[d]
  BY <1>1 DEF Wave!AsAsked, Wave!Cycles
<1>2. CASE <<d, "shared">> \in pwmOdd'
  BY <1>2 DEF Wave!AsAsked
<1> QED BY <1>1, <1>2

(* A call that sets channel c to what q asks for, and asked[c] with it.     *)
LEMMA PwmApplied ==
    ASSUME Wave!TypeOK, Wave!PwmOkMeansApplied, NEW c \in Channels, NEW period \in Periods,
           NEW q \in Wave!Requests(period), NEW new \in Wave!Modes, NEW now \in (0 .. MaxExt) \X Nat,
           NEW gone, NEW odd \in SUBSET (Nat \X Wave!Odds), gone \subseteq Nat \X {"early"},
           UNCHANGED pwmGen, Wave!Supported(period),
           Wave!SetReload(c, Wave!ReloadOf(period)),
           wave' = [wave EXCEPT ![c] = [mode |-> new, ext |-> now[1], cmp |-> now[2]]],
           Wave!Remembered(c, q, gone, odd),
           new = q.mode \/ <<c, "unset">> \in odd,
           \/ period - q.pulse <= Wave!ReloadOf(period)[2] /\ now = <<0, period - q.pulse>>
           \/ <<c, "split">> \in odd,
           four' \subseteq {Wave!Even(d) : d \in Channels}, UNCHANGED live
    PROVE  /\ Wave!TypeOK' /\ asked' = [asked EXCEPT ![c] = q] /\ q # Wave!NoRequest
           /\ \A d \in Channels : asked'[d] # Wave!NoRequest => Wave!AsAsked(d, asked[d])'
           /\ odd \subseteq pwmOdd'
           /\ \A d \in Channels : d # c /\ <<d, "early">> \in pwmOdd /\ <<d, "early">> \notin gone
                                    => <<d, "early">> \in pwmOdd'
<1> DEFINE r == Wave!ReloadOf(period)
<1> USE PwmAssumption DEF PwmAssumption
<1>t. pwmGen \in {1, 2} /\ period \in Nat
  BY DEF Wave!TypeOK
<1>r. /\ r \in (0 .. MaxExt) \X (0 .. Limit) /\ period - Wave!Cycles(r) \in 0 .. r[1]
      /\ q.period = period /\ q.pulse \in Nat /\ period - q.pulse \in Nat /\ q.mode \in {"normal", "inverted"}
  BY <1>t, RequestType
<1>q. q \in [period : Periods \cup {0}, pulse : Nat, mode : Wave!Modes] /\ q # Wave!NoRequest
  <2>1. q.mode # "unset"
    BY <1>r
  <2>2. q # Wave!NoRequest
    BY <2>1 DEF Wave!NoRequest
  <2> QED BY <2>2 DEF Wave!Modes, Wave!Requests
<1> HIDE DEF r
<1>1. /\ reload' = [d \in Channels |-> IF d \in Wave!Siblings(c) THEN r ELSE reload[d]]
      /\ asked' = [asked EXCEPT ![c] = q]
      /\ pwmOdd' = (pwmOdd \ (({c} \X Wave!Odds) \cup gone)) \cup odd \cup Wave!Shared(c, reload'[c])
  BY DEF r, Wave!SetReload, Wave!Remembered
<1>2. c \in Wave!Siblings(c) /\ reload'[c] = r
  BY <1>1 DEF Wave!Siblings
<1>3. Wave!TypeOK'
  <2>1. pwmGen' \in {1, 2} /\ reload' \in [Channels -> (0 .. MaxExt) \X (0 .. Limit)]
    BY <1>r, <1>1 DEF Wave!TypeOK
  <2>2. wave' \in [Channels -> [mode : Wave!Modes, ext : 0 .. MaxExt, cmp : Nat]]
    BY DEF Wave!TypeOK
  <2>3. asked' \in [Channels -> [period : Periods \cup {0}, pulse : Nat, mode : Wave!Modes]]
    BY <1>q, <1>1 DEF Wave!TypeOK
  <2>4. pwmOdd' \subseteq Nat \X Wave!Odds
    <3>1. Wave!Shared(c, reload'[c]) \subseteq Nat \X Wave!Odds
      BY SharedType DEF Wave!Odds
    <3> QED BY <1>1, <3>1 DEF Wave!TypeOK
  <2> QED BY <2>1, <2>2, <2>3, <2>4 DEF Wave!TypeOK
<1>4. asked'[c] = q /\ wave'[c] = [mode |-> new, ext |-> now[1], cmp |-> now[2]]
  BY <1>1 DEF Wave!TypeOK
<1>5. odd \subseteq pwmOdd'
  BY <1>1
<1>6. Wave!AsAsked(c, asked[c])'
  <2>1. <<c, "unset">> \in pwmOdd' \/ wave'[c].mode = q.mode
    BY <1>4, <1>5
  <2>2. q.period - Wave!Cycles(reload'[c]) \in 0 .. reload'[c][1]
    BY <1>2, <1>r
  <2>3. \/ <<c, "split">> \in pwmOdd'
        \/ /\ wave'[c].ext <= reload'[c][1] /\ wave'[c].cmp <= reload'[c][2]
           /\ wave'[c].ext * reload'[c][2] + wave'[c].cmp = q.period - q.pulse
    <3>1. CASE <<c, "split">> \in odd
      BY <3>1, <1>5
    <3>2. CASE period - q.pulse <= r[2] /\ now = <<0, period - q.pulse>>
      <4>1. wave'[c].ext = 0 /\ wave'[c].cmp = period - q.pulse /\ reload'[c] = r
        BY <3>2, <1>2, <1>4
      <4>2. r[1] \in Nat /\ r[2] \in Nat
        BY <1>r
      <4>3. 0 * r[2] + (period - q.pulse) = period - q.pulse
        BY <1>r, <4>2
      <4> QED BY <3>2, <4>1, <4>2, <4>3, <1>r
    <3> QED BY <3>1, <3>2 DEF r
  <2>4. Wave!Cycles(reload[c])' = Wave!Cycles(reload'[c])
    BY DEF Wave!Cycles
  <2> QED BY <1>4, <2>1, <2>2, <2>3, <2>4 DEF Wave!AsAsked
<1>7. ASSUME NEW d \in Channels, d # c, asked'[d] # Wave!NoRequest
      PROVE  Wave!AsAsked(d, asked[d])'
  <2>1. asked'[d] = asked[d] /\ wave'[d] = wave[d]
    BY <1>1, <1>7 DEF Wave!TypeOK
  <2>2. reload'[d] # reload[d] => <<d, "shared">> \in Wave!Shared(c, r)
    BY <1>7, SharedNoted DEF r
  <2>3. \A o \in {"unset", "shared", "split"} : <<d, o>> \in pwmOdd => <<d, o>> \in pwmOdd'
    BY <1>1, <1>7
  <2>4. <<d, "shared">> \in pwmOdd' \/ reload'[d] = reload[d]
    BY <1>1, <1>2, <2>2
  <2>5. Wave!AsAsked(d, asked[d])
    BY <1>7, <2>1 DEF Wave!PwmOkMeansApplied
  <2> QED BY <2>1, <2>3, <2>4, <2>5, KeptAsAsked
<1>8. \A d \in Channels : asked'[d] # Wave!NoRequest => Wave!AsAsked(d, asked[d])'
  BY <1>6, <1>7
<1>9. \A d \in Channels : d # c /\ <<d, "early">> \in pwmOdd /\ <<d, "early">> \notin gone
                            => <<d, "early">> \in pwmOdd'
  BY <1>1
<1> QED BY <1>1, <1>q, <1>3, <1>5, <1>8, <1>9

(* The pairs' modes after a call of version 2 for channel c.                *)
LEMMA PairsStay ==
    ASSUME Wave!TypeOK, PwmInv, pwmGen = 2, pwmGen' = 2, NEW c \in Channels, NEW q, q # Wave!NoRequest,
           asked' = [asked EXCEPT ![c] = q], four' = Wave!Four(c), Wave!Early(c) \subseteq pwmOdd',
           \A d \in Channels : d # c /\ <<d, "early">> \in pwmOdd /\ <<d, "early">> \notin {<<Wave!Even(c), "early">>}
                                 => <<d, "early">> \in pwmOdd'
    PROVE  \A d \in Channels : asked'[d] # Wave!NoRequest => Wave!PairMode(d)'
<1> SUFFICES ASSUME NEW d \in Channels, asked'[d] # Wave!NoRequest PROVE Wave!PairMode(d)'
  OBVIOUS
<1>1. c \in Nat /\ d \in Nat /\ Channels \subseteq Nat
  BY PwmAssumption DEF PwmAssumption
<1> DEFINE e == Wave!Even(c)
<1>2. /\ e \in Nat /\ Wave!Even(e) = e /\ e \div 2 = c \div 2
      /\ Wave!Even(d) \in Nat /\ Wave!Even(d) \div 2 = d \div 2
  BY <1>1, PairsAre
<1>3. /\ \A x \in Channels : x # c => asked'[x] = asked[x]
      /\ asked'[c] = q
  BY DEF Wave!TypeOK
<1>4. /\ \A x, y \in Channels : x \in Wave!Siblings(y) <=> x \div 2 = y \div 2
      /\ \A x, y \in Channels : x \in Wave!Siblings(y)' <=> x \div 2 = y \div 2
  BY DEF Wave!Siblings, Wave!Counter
<1>5. /\ c # e /\ e \notin live => four' = four \cup {e}
      /\ ~(c # e /\ e \notin live) => four' = four \ {e}
  BY DEF Wave!Four
<1>6. live \subseteq Channels /\ \A x \in live : asked[x] # Wave!NoRequest
  BY DEF PwmInv, PwmLive, Wave!TypeOK
<1>7. e \in Channels /\ e # c /\ e \notin live /\ asked[e] # Wave!NoRequest => <<e, "early">> \in pwmOdd'
  BY DEF Wave!Early
<1>8. asked[d] # Wave!NoRequest => Wave!PairMode(d)
  BY DEF PwmInv, Wave!PwmOkMeansApplied
<1> HIDE DEF e
<1>9. CASE d = Wave!Even(d)
  <2>1. d \notin four' \/ <<d, "early">> \in pwmOdd'
    <3>1. CASE d = c
      BY <1>5, <1>9, <3>1 DEF e
    <3>2. CASE d # c /\ d = e
      <4>1. asked[d] # Wave!NoRequest
        BY <1>3, <3>2
      <4> QED BY <1>5, <1>7, <3>2, <4>1
    <3>3. CASE d # c /\ d # e
      <4>1. d \notin four \/ <<d, "early">> \in pwmOdd
        BY <1>3, <1>8, <1>9, <3>3 DEF Wave!PairMode
      <4> QED BY <1>5, <3>3, <4>1 DEF e
    <3> QED BY <3>1, <3>2, <3>3
  <2> QED BY <1>9, <2>1 DEF Wave!PairMode, Wave!Even
<1>10. CASE d # Wave!Even(d)
  <2>1. Wave!Even(d) \in four' \/ \E x \in Wave!Siblings(d)' \ {d} : asked'[x] # Wave!NoRequest
    <3>1. CASE d = c
      <4>1. CASE e \in live
        <5>1. e \in Channels /\ e # d /\ asked'[e] # Wave!NoRequest /\ e \in Wave!Siblings(d)'
          BY <1>2, <1>3, <1>4, <1>6, <1>10, <3>1, <4>1 DEF e
        <5> QED BY <5>1
      <4>2. CASE e \notin live
        BY <1>5, <1>10, <3>1, <4>2 DEF e
      <4> QED BY <4>1, <4>2
    <3>2. CASE d # c /\ \E x \in Wave!Siblings(d) \ {d} : asked[x] # Wave!NoRequest
      <4>1. PICK x \in Wave!Siblings(d) \ {d} : asked[x] # Wave!NoRequest
        BY <3>2
      <4>2. x \in Channels
        BY <4>1 DEF Wave!Siblings
      <4>3. x \in Wave!Siblings(d)' \ {d} /\ asked'[x] # Wave!NoRequest
        BY <1>3, <1>4, <4>1, <4>2
      <4> QED BY <4>3
    <3>3. CASE d # c /\ Wave!Even(d) \in four
      <4>1. CASE Wave!Even(d) = e
        <5>1. c \div 2 = d \div 2
          BY <1>1, <4>1, PairsAre DEF e
        <5>2. c \in Wave!Siblings(d)' \ {d} /\ asked'[c] # Wave!NoRequest
          BY <1>3, <1>4, <3>3, <5>1
        <5> QED BY <5>2
      <4>2. CASE Wave!Even(d) # e
        BY <1>5, <3>3, <4>2
      <4> QED BY <4>1, <4>2
    <3>4. d # c => Wave!Even(d) \in four \/ \E x \in Wave!Siblings(d) \ {d} : asked[x] # Wave!NoRequest
      BY <1>3, <1>8, <1>10 DEF Wave!PairMode
    <3> QED BY <3>1, <3>2, <3>3, <3>4
  <2> QED BY <1>10, <2>1 DEF Wave!PairMode, Wave!Even
<1> QED BY <1>9, <1>10

LEMMA PwmSetCycles1 ==
    ASSUME PwmInv, NEW c \in Channels, NEW period \in Periods, NEW q \in Wave!Requests(period),
           UNCHANGED pwmGen, Wave!SetCycles1(c, q)
    PROVE  PwmInv'
<1> DEFINE new == IF Wave!ReloadOf(q.period) = reload[c] THEN wave[c].mode ELSE q.mode
           now == Wave!Updated(q)
           odd == (IF new = q.mode THEN {} ELSE {<<c, "unset">>})
                  \cup (IF q.period - q.pulse <= Wave!ReloadOf(q.period)[2] THEN {} ELSE {<<c, "split">>})
<1>1. /\ Wave!TypeOK /\ Wave!PwmOkMeansApplied /\ PwmLive /\ pwmGen \in {1, 2}
      /\ Wave!Supported(q.period) /\ pwmGen = 1 /\ q.period = period
  BY DEF PwmInv, Wave!SetCycles1, Wave!TypeOK, Wave!Requests
<1>2. /\ now \in (0 .. MaxExt) \X (0 .. Limit) /\ q.mode \in {"normal", "inverted"}
      /\ period - q.pulse <= Wave!ReloadOf(period)[2] => now = <<0, period - q.pulse>>
  BY <1>1, RequestType
<1>3. new \in Wave!Modes
  BY <1>1, <1>2 DEF Wave!TypeOK, Wave!Modes
<1>4. /\ Wave!SetReload(c, Wave!ReloadOf(period))
      /\ wave' = [wave EXCEPT ![c] = [mode |-> new, ext |-> now[1], cmp |-> now[2]]]
      /\ Wave!Remembered(c, q, {}, odd) /\ UNCHANGED <<four, live>>
  BY <1>1 DEF Wave!SetCycles1, Wave!pair
<1>5. odd \in SUBSET (Nat \X Wave!Odds)
  <2>1. c \in Nat
    BY PwmAssumption DEF PwmAssumption
  <2> QED BY <2>1 DEF Wave!Odds
<1>6. /\ new = q.mode \/ <<c, "unset">> \in odd
      /\ \/ period - q.pulse <= Wave!ReloadOf(period)[2] /\ now = <<0, period - q.pulse>>
         \/ <<c, "split">> \in odd
  BY <1>1, <1>2
<1> HIDE DEF new, now, odd
<1>7. now \in (0 .. MaxExt) \X Nat
  BY <1>2, PwmAssumption DEF PwmAssumption
<1>8. four' \subseteq {Wave!Even(d) : d \in Channels}
  BY <1>1, <1>4 DEF Wave!TypeOK
<1>9. {} \subseteq Nat \X {"early"}
  OBVIOUS
<1>10. Wave!TypeOK' /\ \A d \in Channels : asked'[d] # Wave!NoRequest => Wave!AsAsked(d, asked[d])'
  BY <1>1, <1>3, <1>4, <1>5, <1>6, <1>7, <1>8, <1>9, PwmApplied
<1> QED BY <1>1, <1>10 DEF PwmInv, PwmLive, Wave!PwmOkMeansApplied

LEMMA PwmSetCycles2 ==
    ASSUME PwmInv, NEW c \in Channels, NEW period \in Periods, NEW q \in Wave!Requests(period),
           UNCHANGED pwmGen, Wave!SetCycles2(c, q)
    PROVE  PwmInv'
<1> DEFINE now == <<0, period - q.pulse>>
           gone == {<<Wave!Even(c), "early">>}
           odd == Wave!Early(c)
           new == q.mode
<1>1. /\ Wave!TypeOK /\ Wave!PwmOkMeansApplied /\ PwmLive /\ pwmGen \in {1, 2}
      /\ Wave!Supported(q.period) /\ pwmGen = 2 /\ q.period = period /\ q.mode \in Wave!Modes
  BY DEF PwmInv, Wave!SetCycles2, Wave!TypeOK, Wave!Requests, Wave!Modes
<1>2. period \in Nat /\ period <= Limit /\ Wave!ReloadOf(period) = <<0, period>> /\ MaxExt \in Nat /\ c \in Nat
  BY <1>1, PwmAssumption DEF PwmAssumption, Wave!Supported, Wave!ReloadOf
<1>3. q.pulse \in Nat /\ period - q.pulse \in Nat /\ period - q.pulse <= period
  BY <1>2 DEF Wave!Requests
<1>4. /\ Wave!SetReload(c, Wave!ReloadOf(period))
      /\ wave' = [wave EXCEPT ![c] = [mode |-> new, ext |-> now[1], cmp |-> now[2]]]
      /\ Wave!Remembered(c, q, gone, odd)
      /\ four' = Wave!Four(c) /\ UNCHANGED live
  BY <1>1, <1>2 DEF Wave!SetCycles2
<1>5. odd \in SUBSET (Nat \X Wave!Odds) /\ gone \subseteq Nat \X {"early"}
  BY <1>2, PwmAssumption, PairsAre DEF PwmAssumption, Wave!Early, Wave!Odds
<1>6. four' \subseteq {Wave!Even(d) : d \in Channels}
  BY <1>1, <1>4 DEF Wave!Four, Wave!TypeOK
<1>7. now \in (0 .. MaxExt) \X Nat
  BY <1>2, <1>3
<1>8. period - q.pulse <= Wave!ReloadOf(period)[2] /\ now = <<0, period - q.pulse>>
  BY <1>2, <1>3
<1>12. new \in Wave!Modes /\ new = q.mode /\ Wave!Supported(period)
  BY <1>1
<1> HIDE DEF now, gone, odd, new
<1>13. /\ new = q.mode \/ <<c, "unset">> \in odd
       /\ \/ period - q.pulse <= Wave!ReloadOf(period)[2] /\ now = <<0, period - q.pulse>>
          \/ <<c, "split">> \in odd
  BY <1>8, <1>12
<1>14. /\ Wave!TypeOK' /\ asked' = [asked EXCEPT ![c] = q] /\ q # Wave!NoRequest
       /\ \A d \in Channels : asked'[d] # Wave!NoRequest => Wave!AsAsked(d, asked[d])'
       /\ odd \subseteq pwmOdd'
       /\ \A d \in Channels : d # c /\ <<d, "early">> \in pwmOdd /\ <<d, "early">> \notin gone
                                => <<d, "early">> \in pwmOdd'
  <2>1. /\ Wave!TypeOK /\ Wave!PwmOkMeansApplied /\ Wave!Supported(period) /\ new \in Wave!Modes
        /\ UNCHANGED <<pwmGen, live>>
    BY <1>1, <1>4, <1>12
  <2> QED BY <2>1, <1>4, <1>5, <1>6, <1>7, <1>13, PwmApplied
<1>9. /\ Wave!TypeOK' /\ asked' = [asked EXCEPT ![c] = q] /\ q # Wave!NoRequest
      /\ \A d \in Channels : asked'[d] # Wave!NoRequest => Wave!AsAsked(d, asked[d])'
      /\ Wave!Early(c) \subseteq pwmOdd'
      /\ \A d \in Channels : d # c /\ <<d, "early">> \in pwmOdd /\ <<d, "early">> \notin {<<Wave!Even(c), "early">>}
                               => <<d, "early">> \in pwmOdd'
  BY <1>14 DEF gone, odd
<1>10. \A d \in Channels : asked'[d] # Wave!NoRequest => Wave!PairMode(d)'
  BY <1>1, <1>4, <1>9, PairsStay
<1>11. PwmLive'
  BY <1>1, <1>4, <1>9 DEF PwmLive, Wave!TypeOK
<1> QED BY <1>9, <1>10, <1>11 DEF PwmInv, Wave!PwmOkMeansApplied

LEMMA PwmSetupFails ==
    ASSUME PwmInv, NEW c \in Channels, NEW period \in Periods,
           UNCHANGED pwmGen, Wave!SetupFails(c, period)
    PROVE  PwmInv'
<1> DEFINE r == Wave!ReloadOf(period)
<1>1. /\ Wave!TypeOK /\ Wave!PwmOkMeansApplied /\ pwmGen = 1
      /\ Wave!Supported(period) /\ Wave!SetReload(c, r) /\ UNCHANGED <<wave, asked, four, live>>
      /\ pwmOdd' = pwmOdd \cup Wave!Shared(c, r) \cup {<<c, "shared">>}
  BY DEF PwmInv, Wave!SetupFails, Wave!pair
<1>2. r \in (0 .. MaxExt) \X (0 .. Limit)
  BY <1>1, RequestType
<1> HIDE DEF r
<1>3. Wave!TypeOK'
  <2>1. c \in Nat /\ Channels \subseteq Nat
    BY PwmAssumption DEF PwmAssumption
  <2>2. pwmOdd' \subseteq Nat \X Wave!Odds
    <3>3. Wave!Shared(c, r) \subseteq Channels \X {"shared"}
      BY SharedType
    <3>1. Wave!Shared(c, r) \subseteq Nat \X Wave!Odds /\ <<c, "shared">> \in Nat \X Wave!Odds
      BY <2>1, <3>3 DEF Wave!Odds
    <3>2. pwmOdd \subseteq Nat \X Wave!Odds
      BY <1>1 DEF Wave!TypeOK
    <3> QED BY <1>1, <3>1, <3>2
  <2> QED BY <1>1, <1>2, <2>2 DEF Wave!TypeOK, Wave!SetReload
<1>4. ASSUME NEW d \in Channels, asked'[d] # Wave!NoRequest PROVE Wave!AsAsked(d, asked[d])'
  <2>1. <<d, "shared">> \in pwmOdd' \/ reload'[d] = reload[d]
    BY <1>1, SharedNoted
  <2>2. Wave!AsAsked(d, asked[d])
    BY <1>1, <1>4 DEF Wave!PwmOkMeansApplied
  <2>3. \A o \in {"unset", "shared", "split"} : <<d, o>> \in pwmOdd => <<d, o>> \in pwmOdd'
    BY <1>1
  <2> QED BY <1>1, <2>1, <2>2, <2>3, KeptAsAsked
<1> QED BY <1>1, <1>3, <1>4 DEF PwmInv, PwmLive, Wave!PwmOkMeansApplied

LEMMA PwmTrigger ==
    ASSUME PwmInv, NEW c \in Channels, NEW period \in Periods,
           UNCHANGED pwmGen, Wave!Trigger(c, period)
    PROVE  PwmInv'
<1> USE PwmAssumption DEF PwmAssumption
<1>1. /\ wave' = [wave EXCEPT ![c] = [mode |-> "trigger", ext |-> 0, cmp |-> period + 1]]
      /\ asked' = [asked EXCEPT ![c] = Wave!NoRequest] /\ UNCHANGED <<pwmGen, reload, four, live>>
      /\ pwmOdd' = pwmOdd \ ({c} \X Wave!Odds)
      /\ Wave!TypeOK /\ Wave!PwmOkMeansApplied /\ pwmGen = 1
  BY DEF Wave!Trigger, Wave!pair, PwmInv
<1>2. Wave!TypeOK'
  <2>1. Wave!NoRequest \in [period : Periods \cup {0}, pulse : Nat, mode : Wave!Modes]
    BY DEF Wave!NoRequest, Wave!Modes
  <2>2. [mode |-> "trigger", ext |-> 0, cmp |-> period + 1] \in [mode : Wave!Modes, ext : 0 .. MaxExt, cmp : Nat]
    BY DEF Wave!Modes
  <2> QED BY <1>1, <2>1, <2>2 DEF Wave!TypeOK
<1>3. ASSUME NEW d \in Channels, asked'[d] # Wave!NoRequest PROVE Wave!AsAsked(d, asked[d])'
  <2>1. d # c
    BY <1>1, <1>3 DEF Wave!TypeOK
  <2>2. asked'[d] = asked[d] /\ wave'[d] = wave[d]
    BY <1>1, <2>1 DEF Wave!TypeOK
  <2>3. \A o \in {"unset", "shared", "split"} : <<d, o>> \in pwmOdd => <<d, o>> \in pwmOdd'
    BY <1>1, <2>1
  <2>4. Wave!AsAsked(d, asked[d])
    BY <1>1, <1>3, <2>2 DEF Wave!PwmOkMeansApplied
  <2> QED BY <1>1, <2>2, <2>3, <2>4, KeptAsAsked
<1> QED BY <1>1, <1>2, <1>3 DEF PwmInv, PwmLive, Wave!PwmOkMeansApplied

LEMMA PwmReloads == ASSUME PwmInv, NEW c \in Channels, Wave!Reloads(c) PROVE PwmInv'
<1>1. /\ live' = live \cup {d \in Wave!Siblings(c) : asked[d] # Wave!NoRequest}
      /\ UNCHANGED <<pwmGen, reload, wave, four, asked, pwmOdd>>
  BY DEF Wave!Reloads
<1>2. Wave!TypeOK' /\ PwmLive'
  BY <1>1 DEF PwmInv, PwmLive, Wave!TypeOK, Wave!Siblings
<1>3. Wave!PwmOkMeansApplied'
  BY <1>1 DEF PwmInv, Wave!PwmOkMeansApplied, Wave!AsAsked, Wave!PairMode, Wave!Cycles, Wave!Siblings, Wave!Counter
<1> QED BY <1>2, <1>3 DEF PwmInv

LEMMA PwmStep ==
    ASSUME PwmInv, [Wave!Next]_(Wave!pwmVars)
    PROVE  PwmInv'
<1>1. CASE UNCHANGED Wave!pwmVars
  BY <1>1 DEF PwmInv, PwmLive, Wave!TypeOK, Wave!PwmOkMeansApplied, Wave!AsAsked, Wave!PairMode, Wave!Cycles,
              Wave!Siblings, Wave!Counter, Wave!pwmVars
<1>2. CASE Wave!Next
  BY <1>2, PwmSetCycles1, PwmSetCycles2, PwmSetupFails, PwmTrigger, PwmReloads DEF Wave!Next, Wave!SetCycles
<1> QED BY <1>1, <1>2

THEOREM PwmIsSound == Wave!Spec => []PwmInv
  BY PwmInit, PwmStep, PTL DEF Wave!Spec

(* A request that returned 0 is what its channel does (set_cycles): its     *)
(* polarity, its period but for the remainder of the division by the rounds *)
(* of the counter, the edge of its pulse to the cycle, and its pair in the  *)
(* mode it needs; but for a set-up that was skipped, a reload register that *)
(* another channel changed, a compare split apart from the period, and an   *)
(* odd channel set up before the values of its even one took effect.        *)
THEOREM PwmIsApplied == Spec => []PwmOkMeansApplied
<1>1. PwmInv => PwmOkMeansApplied
  BY DEF PwmInv, PwmOkMeansApplied
<1> QED BY <1>1, PwmIsSound, UnionIsEach, PTL
-------------------------------------------------------------------------------
(* Display.  Arithmetic of the divider and of the cache lines.              *)
LEMMA QuotientBounds ==
    ASSUME NEW n \in Nat, NEW p \in Nat \ {0}
    PROVE  /\ n \div p \in Nat /\ (n \div p) * p \in Nat
           /\ (n \div p) * p <= n /\ n < (n \div p) * p + p
  OBVIOUS

LEMMA NextMultiple ==
    ASSUME NEW a \in Nat, NEW b \in Nat, NEW p \in Nat, a < b
    PROVE  a * p + p <= b * p /\ a * p \in Nat /\ b * p \in Nat
<1>1. PICK e \in Nat : b = a + 1 + e
  <2>1. b - a - 1 \in Nat /\ b = a + 1 + (b - a - 1)
    OBVIOUS
  <2> QED BY <2>1
<1>2. b * p = a * p + p + e * p
  BY <1>1
<1>3. e * p \in Nat /\ a * p \in Nat
  OBVIOUS
<1> QED BY <1>2, <1>3

(* The quotient rounded to the nearest is the nearest divider.              *)
LEMMA DividerIsNearest ==
    ASSUME NEW f \in Nat, NEW p \in Nat \ {0}
    PROVE  LET D == Disp!Divider(f, p)
               off(d) == IF d * p > f THEN d * p - f ELSE f - d * p
           IN /\ D \in Nat
              /\ \A d \in Nat : off(D) <= off(d)
              /\ D = 0 => p > f
<1> DEFINE h == p \div 2
           D == (f + h) \div p
<1>1. h \in Nat /\ 2 * h <= p /\ p <= 2 * h + 1
  OBVIOUS
<1> HIDE DEF h
<1>2. D \in Nat /\ D * p \in Nat /\ D * p <= f + h /\ f + h < D * p + p
  BY <1>1, QuotientBounds
<1>3. Disp!Divider(f, p) = D
  BY DEF Disp!Divider, h
<1> HIDE DEF D
<1>4. ASSUME NEW d \in Nat
      PROVE  (IF D * p > f THEN D * p - f ELSE f - D * p) <= (IF d * p > f THEN d * p - f ELSE f - d * p)
  <2>1. CASE d = D
    BY <1>2, <2>1
  <2>2. CASE d < D
    <3>1. d * p + p <= D * p /\ d * p \in Nat
      BY <2>2, <1>2, NextMultiple
    <3> DEFINE x == d * p
               y == D * p
    <3> HIDE DEF x, y
    <3>2. x \in Nat /\ y \in Nat /\ x + p <= y /\ y <= f + h /\ f + h < y + p
      BY <3>1, <1>2 DEF x, y
    <3>3. (IF y > f THEN y - f ELSE f - y) <= (IF x > f THEN x - f ELSE f - x)
      BY <3>2, <1>1
    <3> QED BY <3>3 DEF x, y
  <2>3. CASE D < d
    <3>1. D * p + p <= d * p /\ d * p \in Nat
      BY <2>3, <1>2, NextMultiple
    <3> DEFINE x == d * p
               y == D * p
    <3> HIDE DEF x, y
    <3>2. x \in Nat /\ y \in Nat /\ y + p <= x /\ y <= f + h /\ f + h < y + p
      BY <3>1, <1>2 DEF x, y
    <3>3. (IF y > f THEN y - f ELSE f - y) <= (IF x > f THEN x - f ELSE f - x)
      BY <3>2, <1>1
    <3> QED BY <3>3 DEF x, y
  <2> QED BY <1>2, <2>1, <2>2, <2>3
<1>5. D = 0 => p > f
  BY <1>1, <1>2
<1> QED BY <1>2, <1>3, <1>4, <1>5

LEMMA DualDividerIsDivider ==
    ASSUME NEW f \in Nat, NEW p \in Nat \ {0}
    PROVE  Disp!DualDivider(f, p) = Disp!Divider(f, 2 * p)
<1>1. (2 * p) \div 2 = p
  OBVIOUS
<1> QED BY <1>1 DEF Disp!DualDivider, Disp!Divider

NothingDrawn == drawn = [rect |-> Disp!NoRect, pitch |-> 0, copied |-> {}, flushed |-> {}]

(* Nothing is drawn before the panel is up, and the divider and the frame   *)
(* buffer stay as they were when it came up.                                *)
DispInv ==
    /\ Disp!TypeOK /\ Disp!DisplayWriteIsExact /\ Disp!DisplayClockIsNearest
    /\ lcd.pc # "ready" => NothingDrawn

LEMMA NothingIsExact == NothingDrawn => Disp!DisplayWriteIsExact
<1> SUFFICES ASSUME NothingDrawn PROVE Disp!DisplayWriteIsExact
  OBVIOUS
<1>1. drawn.rect.h = 0 /\ drawn.copied = {} /\ drawn.flushed = {}
  BY DEF NothingDrawn, Disp!NoRect
<1>2. 0 .. (0 - 1) = {}
  OBVIOUS
<1> QED BY <1>1, <1>2 DEF Disp!DisplayWriteIsExact

LEMMA DispInit == Disp!Init => DispInv
<1> SUFFICES ASSUME Disp!Init PROVE DispInv
  OBVIOUS
<1>1. NothingDrawn
  BY DEF Disp!Init, NothingDrawn
<1>2. Disp!TypeOK
  <2> USE DEF Disp!Init
  <2>1. panel \in [itf : Disp!Interfaces, stride : Strides, pll : PanelClocks, pixel : PanelClocks]
    OBVIOUS
  <2>2. lcd \in [pc : {"off", "clocked", "locked", "ready"}, div : Nat, light : BOOLEAN]
    OBVIOUS
  <2>3. drawn \in [rect : [x : Nat, y : Nat, w : Nat, h : Nat], pitch : Nat,
                   copied : SUBSET Nat, flushed : SUBSET Nat]
    <3>1. Disp!NoRect \in [x : Nat, y : Nat, w : Nat, h : Nat]
      BY DEF Disp!NoRect
    <3> QED BY <3>1
  <2>4. fb \in {"none", "ok", "freed"}
    OBVIOUS
  <2> QED BY <2>1, <2>2, <2>3, <2>4 DEF Disp!TypeOK
<1>3. Disp!DisplayClockIsNearest
  BY DEF Disp!Init, Disp!DisplayClockIsNearest
<1> QED BY <1>1, <1>2, <1>3, NothingIsExact DEF DispInv

(* The clock of the pixels (hpm_display_lcdc_clk_init).                     *)
LEMMA ClockStep ==
    ASSUME DispInv, Disp!Clock
    PROVE  DispInv'
<1> USE PanelAssumption DEF PanelAssumption
<1> DEFINE f == panel.pll
           P == IF panel.itf = "dual" THEN 2 * panel.pixel ELSE panel.pixel
<1>t. Disp!TypeOK
  BY DEF DispInv
<1>a. panel.pll \in Nat /\ panel.pixel \in Nat \ {0}
  BY <1>t DEF Disp!TypeOK
<1>1. f \in Nat /\ panel.pixel \in Nat \ {0} /\ P \in Nat \ {0}
  BY <1>a
<1>2. lcd'.div = Disp!Divider(f, P)
  BY <1>1, DualDividerIsDivider DEF Disp!Clock
<1>3. lcd'.pc = "clocked" /\ lcd'.light = lcd.light /\ UNCHANGED <<panel, fb, drawn>> /\ lcd.pc = "off"
  BY DEF Disp!Clock
<1> HIDE DEF f, P
<1>4. Disp!TypeOK'
  <2>1. lcd'.div \in Nat
    BY <1>1, <1>2, DividerIsNearest
  <2>2. lcd' = [pc |-> "clocked", div |-> lcd'.div, light |-> lcd.light]
    BY <1>t DEF Disp!Clock, Disp!TypeOK
  <2>3. lcd' \in [pc : {"off", "clocked", "locked", "ready"}, div : Nat, light : BOOLEAN]
    BY <1>t, <2>1, <2>2 DEF Disp!TypeOK
  <2> QED BY <1>t, <1>3, <2>3 DEF Disp!TypeOK
<1>5. /\ \A d \in Nat : (IF lcd'.div * P > f THEN lcd'.div * P - f ELSE f - lcd'.div * P)
                          <= (IF d * P > f THEN d * P - f ELSE f - d * P)
      /\ lcd'.div = 0 => P > f
  BY <1>1, <1>2, DividerIsNearest
<1>6. Disp!DisplayClockIsNearest'
  <2>1. P = (IF panel'.itf = "dual" THEN 2 * panel'.pixel ELSE panel'.pixel) /\ f = panel'.pll
    BY <1>3 DEF P, f
  <2>2. \A d \in 0 .. (lcd'.div + 1) : d \in Nat
    OBVIOUS
  <2> QED BY <1>5, <2>1, <2>2 DEF Disp!DisplayClockIsNearest
<1>7. NothingDrawn' /\ Disp!DisplayWriteIsExact'
  BY <1>3 DEF DispInv, NothingDrawn, Disp!DisplayWriteIsExact
<1> QED BY <1>4, <1>6, <1>7 DEF DispInv

(* Whole cache lines: what a write covers is flushed.                       *)
LEMMA RoundDownKeeps ==
    ASSUME NEW c \in Nat \ {0}, NEW n \in Nat, NEW x \in Nat, n % c = 0
    PROVE  ((n + x) \div c) * c >= n
<1>1. n = (n \div c) * c + (n % c)
  OBVIOUS
<1> DEFINE a == n \div c
           b == (n + x) \div c
<1>2. a \in Nat /\ b \in Nat /\ n = a * c
  BY <1>1
<1>3. n + x < b * c + c
  BY QuotientBounds
<1> HIDE DEF a, b
<1>4. ~ (b < a)
  <2> SUFFICES ASSUME b < a PROVE FALSE
    OBVIOUS
  <2>1. b * c + c <= a * c
    BY <1>2, NextMultiple
  <2> QED BY <1>2, <1>3, <2>1
<1>5. CASE a = b
  BY <1>2, <1>5 DEF a, b
<1>6. CASE a < b
  BY <1>2, <1>6, NextMultiple DEF a, b
<1> QED BY <1>2, <1>4, <1>5, <1>6

LEMMA RoundUpCovers ==
    ASSUME NEW c \in Nat \ {0}, NEW n \in Nat
    PROVE  ((n + c - 1) \div c) * c >= n
<1>1. n + c - 1 \in Nat
  OBVIOUS
<1> QED BY <1>1, QuotientBounds

LEMMA RowsAreWhole ==
    ASSUME NEW c \in Nat \ {0}, NEW s \in Nat, NEW y \in Nat, s % c = 0
    PROVE  (y * s) % c = 0
<1>1. s = (s \div c) * c
  OBVIOUS
<1> DEFINE a == s \div c
<1>2. a \in Nat /\ s = a * c
  BY <1>1
<1> HIDE DEF a
<1>3. y * s = (y * a) * c /\ y * a \in Nat
  BY <1>2
<1>4. \A k \in Nat : (k * c) % c = 0
  OBVIOUS
<1> QED BY <1>3, <1>4

(* The bytes a write without padding copies are those of its rectangle, and *)
(* with rows of whole cache lines all of them are flushed.                  *)
CopiedBytes(x, y, h, len, st) == {y * st + x + i * st + k : i \in 0..(h - 1), k \in 0..(len - 1)}
RectBytes(x, y, w, h, s) == {(y + i) * s + x + k : i \in 0..(h - 1), k \in 0..(w - 1)}
FlushedBytes(x, y, h, st) ==
    (((y * st + x) \div CacheLine) * CacheLine)
      ..((((y * st + x) \div CacheLine) * CacheLine) + ((h * st + CacheLine - 1) \div CacheLine) * CacheLine - 1)

LEMMA WriteIsExact ==
    ASSUME NEW x \in Nat, NEW y \in Nat, NEW w \in Nat \ {0}, NEW h \in Nat \ {0}, NEW s \in Nat \ {0},
           x + w <= s
    PROVE  /\ CopiedBytes(x, y, h, w, s) = RectBytes(x, y, w, h, s)
           /\ s % CacheLine = 0 => RectBytes(x, y, w, h, s) \subseteq FlushedBytes(x, y, h, s)
<1> DEFINE c == CacheLine
           from == ((y * s + x) \div c) * c
           round == ((h * s + c - 1) \div c) * c
<1>c. c \in Nat \ {0}
  BY PanelAssumption DEF PanelAssumption
<1> HIDE DEF c
<1>0. /\ y * s \in Nat /\ h * s \in Nat /\ \A i \in Nat : i * s \in Nat
      /\ \A i \in Nat : (y + i) * s = y * s + i * s
  OBVIOUS
<1>1. \A i \in 0..(h - 1), k \in 0..(w - 1) : y * s + x + i * s + k = (y + i) * s + x + k
  BY <1>0
<1>2. CopiedBytes(x, y, h, w, s) = RectBytes(x, y, w, h, s)
  <2>1. ASSUME NEW e \in CopiedBytes(x, y, h, w, s) PROVE e \in RectBytes(x, y, w, h, s)
    <3>1. PICK i \in 0..(h - 1), k \in 0..(w - 1) : e = y * s + x + i * s + k
      BY DEF CopiedBytes
    <3>2. e = (y + i) * s + x + k
      BY <1>1, <3>1
    <3> QED BY <3>2 DEF RectBytes
  <2>2. ASSUME NEW e \in RectBytes(x, y, w, h, s) PROVE e \in CopiedBytes(x, y, h, w, s)
    <3>1. PICK i \in 0..(h - 1), k \in 0..(w - 1) : e = (y + i) * s + x + k
      BY DEF RectBytes
    <3>2. e = y * s + x + i * s + k
      BY <1>1, <3>1
    <3> QED BY <3>2 DEF CopiedBytes
  <2> QED BY <2>1, <2>2
<1>4. from \in Nat /\ from <= y * s + x
  BY <1>c, <1>0, QuotientBounds
<1>5. ASSUME s % c = 0, NEW i \in 0..(h - 1), NEW k \in 0..(w - 1)
      PROVE  (y + i) * s + x + k \in from..(from + round - 1)
  <2>1. from >= y * s
    BY <1>c, <1>0, <1>5, RowsAreWhole, RoundDownKeeps
  <2>2. round >= h * s
    BY <1>c, <1>0, RoundUpCovers
  <2>3. i * s + s <= h * s
    BY <1>5, NextMultiple
  <2>4. round \in Int
    BY <1>c, <1>0
  <2> HIDE DEF round
  <2>5. i * s \in Nat /\ (y + i) * s = y * s + i * s
    BY <1>0
  <2> DEFINE a == y * s
             b == h * s
             d == i * s
  <2>6. a \in Nat /\ b \in Nat /\ d \in Nat /\ from >= a /\ round >= b /\ d + s <= b
        /\ from <= a + x
    BY <1>0, <1>4, <2>1, <2>2, <2>3, <2>5
  <2> HIDE DEF a, b, d
  <2>7. a + d + x + k \in from..(from + round - 1)
    <3> HIDE DEF from
    <3> QED BY <1>4, <2>4, <2>6
  <2>8. (y + i) * s + x + k = a + d + x + k
    BY <2>5 DEF a, d
  <2> QED BY <2>7, <2>8, Zenon
<1>6. FlushedBytes(x, y, h, s) = from..(from + round - 1)
  BY DEF FlushedBytes, c
<1> HIDE DEF from, round
<1>7. ASSUME s % c = 0, NEW e \in RectBytes(x, y, w, h, s) PROVE e \in FlushedBytes(x, y, h, s)
  <2>1. PICK i \in 0..(h - 1), k \in 0..(w - 1) : e = (y + i) * s + x + k
    BY DEF RectBytes
  <2> QED BY <1>5, <1>6, <1>7, <2>1
<1> QED BY <1>2, <1>7 DEF c

LEMMA WriteStep ==
    ASSUME DispInv, Disp!Write
    PROVE  DispInv'
<1> USE PanelAssumption DEF PanelAssumption
<1>t. Disp!TypeOK
  BY DEF DispInv
<1>0. lcd.pc = "ready" /\ UNCHANGED <<panel, lcd, fb>>
  BY DEF Disp!Write
<1>1. PICK x \in 0..(panel.stride - 1), y \in 0..(Rows - 1) :
        \E w \in 1..(panel.stride - x), h \in 1..(Rows - y) : \E pitch \in w..(panel.stride + 1) :
         drawn' = [rect |-> [x |-> x, y |-> y, w |-> w, h |-> h], pitch |-> pitch,
                   copied |-> Disp!Copied(x, y, h, pitch), flushed |-> Disp!Flushed(x, y, h)]
  BY Zenon DEF Disp!Write
<1>2. PICK w \in 1..(panel.stride - x), h \in 1..(Rows - y) : \E pitch \in w..(panel.stride + 1) :
         drawn' = [rect |-> [x |-> x, y |-> y, w |-> w, h |-> h], pitch |-> pitch,
                   copied |-> Disp!Copied(x, y, h, pitch), flushed |-> Disp!Flushed(x, y, h)]
  BY <1>1
<1>3. PICK pitch \in w..(panel.stride + 1) :
         drawn' = [rect |-> [x |-> x, y |-> y, w |-> w, h |-> h], pitch |-> pitch,
                   copied |-> Disp!Copied(x, y, h, pitch), flushed |-> Disp!Flushed(x, y, h)]
  BY <1>2
<1> DEFINE s == panel.stride
           st == Disp!Stride
           len == IF pitch < st THEN pitch ELSE st
           from == ((y * st + x) \div CacheLine) * CacheLine
<1>4. s \in Nat \ {0}
  BY <1>t DEF Disp!TypeOK
<1>5. /\ x \in Nat /\ y \in Nat /\ w \in Nat \ {0} /\ h \in Nat \ {0} /\ pitch \in Nat
      /\ x + w <= s /\ w <= pitch
  BY <1>1, <1>2, <1>3, <1>4
<1>6. st \in Nat /\ (fb = "none" => st = 0) /\ (fb # "none" => st = s)
  BY <1>4 DEF Disp!Stride
<1>7. /\ Disp!Copied(x, y, h, pitch) = CopiedBytes(x, y, h, len, st)
      /\ Disp!Flushed(x, y, h) = FlushedBytes(x, y, h, st)
  BY DEF Disp!Copied, Disp!Flushed, Disp!Lesser, Disp!RoundUp, Disp!RoundDown, CopiedBytes, FlushedBytes
<1> HIDE DEF st, s
<1>8. len \in Nat
  BY <1>5, <1>6
<1>9. y * st \in Nat /\ (\A i \in Nat : i * st \in Nat) /\ h * st \in Nat
  BY <1>5, <1>6
<1>10. Disp!Copied(x, y, h, pitch) \subseteq Nat
  <2> HIDE DEF len
  <2>1. ASSUME NEW i \in 0..(h - 1), NEW k \in 0..(len - 1) PROVE y * st + x + i * st + k \in Nat
    BY <1>5, <1>8, <1>9
  <2> QED BY <1>7, <2>1 DEF CopiedBytes
<1>11. Disp!Flushed(x, y, h) \subseteq Nat
  <2>1. from \in Nat
    BY <1>5, <1>9, QuotientBounds
  <2>2. FlushedBytes(x, y, h, st) = from..(from + ((h * st + CacheLine - 1) \div CacheLine) * CacheLine - 1)
    BY DEF FlushedBytes
  <2> HIDE DEF from
  <2> QED BY <1>7, <2>1, <2>2
<1>12. drawn' \in [rect : [x : Nat, y : Nat, w : Nat, h : Nat], pitch : Nat,
                   copied : SUBSET Nat, flushed : SUBSET Nat]
  <2>1. [x |-> x, y |-> y, w |-> w, h |-> h] \in [x : Nat, y : Nat, w : Nat, h : Nat]
    BY <1>5
  <2> QED BY <1>3, <1>5, <1>10, <1>11, <2>1
<1>13. Disp!TypeOK'
  BY <1>t, <1>0, <1>12 DEF Disp!TypeOK
<1>14. /\ drawn'.rect.x = x /\ drawn'.rect.y = y /\ drawn'.rect.w = w /\ drawn'.rect.h = h
       /\ drawn'.pitch = pitch /\ drawn'.copied = Disp!Copied(x, y, h, pitch)
       /\ drawn'.flushed = Disp!Flushed(x, y, h)
  BY <1>3
<1>15. fb = "none" => drawn'.copied = {}
  <2>1. fb = "none" => len = 0
    BY <1>5, <1>6
  <2>2. 0 .. (0 - 1) = {}
    OBVIOUS
  <2> QED BY <1>7, <1>14, <2>1, <2>2 DEF CopiedBytes
<1>16. ASSUME pitch = w, fb # "none"
       PROVE  /\ drawn'.copied = RectBytes(x, y, w, h, s)
              /\ s % CacheLine = 0 => drawn'.copied \subseteq drawn'.flushed
  <2>1. st = s /\ len = w /\ s \in Nat \ {0}
    BY <1>4, <1>5, <1>6, <1>16
  <2> HIDE DEF len
  <2> QED BY <1>5, <1>7, <1>14, <2>1, WriteIsExact
<1>17. Disp!DisplayWriteIsExact'
  <2>1. panel'.stride = s /\ fb' = fb
    BY <1>0 DEF s
  <2> HIDE DEF len, from
  <2> DEFINE r == drawn'.rect
  <2>2. drawn'.pitch = r.w /\ fb' # "none" =>
           /\ drawn'.copied = RectBytes(r.x, r.y, r.w, r.h, panel'.stride)
           /\ panel'.stride % CacheLine = 0 => drawn'.copied \subseteq drawn'.flushed
    BY <1>14, <1>16, <2>1
  <2>3. fb' = "none" => drawn'.copied = {}
    BY <1>15, <2>1
  <2> HIDE DEF r
  <2> QED BY <2>2, <2>3 DEF Disp!DisplayWriteIsExact, RectBytes, r
<1>18. Disp!DisplayClockIsNearest'
  BY <1>0 DEF DispInv, Disp!DisplayClockIsNearest
<1> QED BY <1>0, <1>13, <1>17, <1>18 DEF DispInv

LEMMA DispStep ==
    ASSUME DispInv, [Disp!Next]_(Disp!displayVars)
    PROVE  DispInv'
<1>1. CASE UNCHANGED Disp!displayVars
  BY <1>1 DEF DispInv, NothingDrawn, Disp!TypeOK, Disp!DisplayWriteIsExact, Disp!DisplayClockIsNearest,
     Disp!displayVars
<1>2. ASSUME Disp!RgbPanel \/ Disp!MipiPanel \/ Disp!LvdsPanel \/ Disp!Lcdc \/ \E on \in BOOLEAN : Disp!Blanking(on)
      PROVE  DispInv'
  <2>t. Disp!TypeOK
    BY DEF DispInv
  <2>1. /\ UNCHANGED <<panel, drawn>> /\ fb' \in {"none", "ok", "freed"}
        /\ lcd.pc \in {"clocked", "locked", "ready"} /\ lcd'.pc \in {"locked", "ready"}
        /\ lcd.pc = "ready" => UNCHANGED fb
        /\ lcd'.div = lcd.div
        /\ lcd' \in [pc : {"off", "clocked", "locked", "ready"}, div : Nat, light : BOOLEAN]
        /\ lcd'.pc # "ready" => lcd.pc # "ready"
    BY <1>2, <2>t DEF Disp!RgbPanel, Disp!MipiPanel, Disp!LvdsPanel, Disp!Lcdc, Disp!Blanking, Disp!TypeOK
  <2>2. Disp!TypeOK'
    BY <2>t, <2>1 DEF Disp!TypeOK
  <2>3. Disp!DisplayClockIsNearest'
    BY <2>1 DEF DispInv, Disp!DisplayClockIsNearest
  <2>4. (lcd.pc # "ready" => NothingDrawn') /\ (lcd'.pc # "ready" => NothingDrawn')
    BY <2>1 DEF DispInv, NothingDrawn
  <2>5. Disp!DisplayWriteIsExact'
    <3>1. CASE lcd.pc = "ready"
      BY <2>1, <3>1 DEF DispInv, Disp!DisplayWriteIsExact
    <3>2. CASE lcd.pc # "ready"
      <4>1. drawn'.rect.h = 0 /\ drawn'.copied = {} /\ drawn'.flushed = {}
        BY <2>4, <3>2 DEF NothingDrawn, Disp!NoRect
      <4>2. 0 .. (0 - 1) = {}
        OBVIOUS
      <4> QED BY <4>1, <4>2 DEF Disp!DisplayWriteIsExact
    <3> QED BY <3>1, <3>2
  <2> QED BY <2>2, <2>3, <2>4, <2>5 DEF DispInv
<1> QED BY <1>1, <1>2, ClockStep, WriteStep DEF Disp!Next

THEOREM DisplayIsSound == Disp!Spec => []DispInv
  BY DispInit, DispStep, PTL DEF Disp!Spec

(* A write whose pitch is its width and whose rows are whole cache lines    *)
(* changes its rectangle and no other pixel and all of it is flushed        *)
(* (hpm_display_write), for every stride and height; and the divider is the *)
(* nearest there is (hpm_display_lcdc_clk_init), for every clock.           *)
THEOREM DisplayWritesExactly == Spec => []DisplayIsExact
<1>1. DispInv => DisplayIsExact
  BY DEF DispInv, DisplayIsExact
<1> QED BY <1>1, DisplayIsSound, UnionIsEach, PTL
-------------------------------------------------------------------------------
(* AdcSequence.  The lock belongs to the only thread in a read, which asks  *)
(* for something.                                                           *)
AdcHolds == \A t \in AdcThreads :
    /\ adcTh[t].pc # "idle" => adcLock = t
    /\ adcTh[t].pc \in {"start", "sample"} => adcTh[t].n > 0 /\ adcTh[t].all > 0 /\ adcTh[t].left = adcTh[t].all
    /\ adcTh[t].pc = "wait" => adcTh[t].n > 0 /\ adcTh[t].left <= adcTh[t].all

(* Until a trigger comes that nobody asked for: the converter works for the *)
(* read that waits and has not had all its samplings, which has had as many *)
(* results as its buffer says, and it is told when it has.                  *)
AdcWaits(t) ==
    /\ buffer.of = t
    /\ adcTh[t].left > 0 => /\ channels = adcTh[t].n /\ adcSync = 0
                            /\ buffer.at = adcTh[t].n * (adcTh[t].all - adcTh[t].left)
    /\ adcTh[t].left = 0 => channels = 0 /\ adcSync = 1
AdcOwn == "triggered" \notin adcOdd =>
    /\ "notOwn" \notin adcOdd /\ "overrun" \notin adcOdd
    /\ channels = 0 => sequence \in {"off", "ready"}
    /\ (\A t \in AdcThreads : adcTh[t].pc # "wait") => channels = 0 /\ adcSync = 0
    /\ \A t \in AdcThreads : adcTh[t].pc = "sample" => buffer.of = t /\ buffer.at = 0
    /\ \A t \in AdcThreads : adcTh[t].pc = "wait" => AdcWaits(t)

AdcTold == \A t \in AdcThreads :
    adcTh[t].pc = "wait" /\ adcSync = 0 /\ sequence = "off" => "cleared" \in adcOdd

AdcInv == Adc!TypeOK /\ AdcHolds /\ AdcOwn /\ AdcTold

AdcRecs == [pc : {"idle", "start", "sample", "wait", "out"}, n : 0..MaxChannels,
            all : 0..Repeats, left : 0..Repeats, ok : BOOLEAN]

LEMMA AwayIsRec == Adc!Away \in AdcRecs /\ Adc!Away.pc = "idle"
  BY AdcAssumption DEF AdcAssumption, Adc!Away, AdcRecs

LEMMA BufferRoom ==
    ASSUME NEW a \in 0..Repeats, NEW b \in 0..MaxChannels
    PROVE  b * a <= Repeats * MaxChannels /\ b * a \in Nat /\ Repeats * MaxChannels \in Nat
<1> USE AdcAssumption DEF AdcAssumption
<1>1. a * b <= Repeats * b
  OBVIOUS
<1>2. b * Repeats <= MaxChannels * Repeats
  OBVIOUS
<1> QED BY <1>1, <1>2

LEMMA AdcInit == Adc!Init => AdcInv
<1> SUFFICES ASSUME Adc!Init PROVE AdcInv
  OBVIOUS
<1> USE AdcAssumption DEF AdcAssumption, Adc!Init
<1>1. Adc!TypeOK
  <2>1. adcTh \in [AdcThreads -> AdcRecs]
    BY AwayIsRec
  <2>2. buffer \in [of : AdcThreads \cup {NoAdc}, at : 0..(Repeats * MaxChannels)]
    <3>1. Repeats * MaxChannels \in Nat
      OBVIOUS
    <3>2. 0 \in 0..(Repeats * MaxChannels)
      BY <3>1
    <3> QED BY <3>2
  <2>3. adcIs12 \in BOOLEAN /\ hwTrigger \in BOOLEAN /\ adcIsr \in BOOLEAN
    BY Zenon
  <2>4. /\ adcLock \in AdcThreads \cup {NoAdc} /\ adcSync \in 0..2 /\ channels \in 0..MaxChannels
        /\ sequence \in {"off", "ready", "busy", "complete"}
        /\ adcOdd \subseteq {"triggered", "notOwn", "overrun", "cleared"}
    OBVIOUS
  <2> QED BY <2>1, <2>2, <2>3, <2>4 DEF Adc!TypeOK, AdcRecs
<1>2. \A t \in AdcThreads : adcTh[t].pc = "idle"
  BY AwayIsRec
<1>3. AdcHolds /\ AdcTold
  BY <1>2 DEF AdcHolds, AdcTold
<1>4. AdcOwn
  BY <1>2 DEF AdcOwn
<1> QED BY <1>1, <1>3, <1>4 DEF AdcInv

(* What a step of thread t leaves of the other threads.                     *)
LEMMA OtherReaders ==
    ASSUME AdcInv, NEW t \in AdcThreads, NEW r \in AdcRecs, adcTh' = [adcTh EXCEPT ![t] = r]
    PROVE  /\ adcTh' \in [AdcThreads -> AdcRecs] /\ adcTh'[t] = r
           /\ \A u \in AdcThreads : u # t => adcTh'[u] = adcTh[u]
           /\ adcLock \in {t, NoAdc} => \A u \in AdcThreads : u # t => adcTh[u].pc = "idle"
<1>1. adcTh \in [AdcThreads -> AdcRecs] /\ NoAdc \notin AdcThreads
  BY AdcAssumption DEF AdcAssumption, AdcInv, Adc!TypeOK, AdcRecs
<1>2. adcLock \in {t, NoAdc} => \A u \in AdcThreads : u # t => adcTh[u].pc = "idle"
  BY <1>1 DEF AdcInv, AdcHolds
<1> QED BY <1>1, <1>2

LEMMA AdcReadStep ==
    ASSUME AdcInv, NEW t \in AdcThreads, Adc!Read(t)
    PROVE  AdcInv'
<1> USE DEF Adc!At, Adc!build, Adc!unit
<1>1. /\ adcTh[t].pc = "idle" /\ adcLock = NoAdc /\ adcLock' = t
      /\ UNCHANGED <<adcIs12, hwTrigger, adcSync, channels, buffer, sequence, adcIsr, adcOdd>>
  BY DEF Adc!Read
<1>2. PICK n \in 1..MaxChannels, r \in 1..Repeats :
        adcTh' = [adcTh EXCEPT ![t] = [Adc!Away EXCEPT !.pc = "start", !.n = n, !.all = r, !.left = r]]
  BY DEF Adc!Read
<1> DEFINE rec == [Adc!Away EXCEPT !.pc = "start", !.n = n, !.all = r, !.left = r]
<1>3. rec \in AdcRecs /\ adcTh' = [adcTh EXCEPT ![t] = rec] /\ rec.pc = "start" /\ rec.n > 0 /\ rec.all > 0 /\ rec.left = rec.all
  <2>1. n \in 0..MaxChannels /\ r \in 0..Repeats /\ n > 0 /\ r > 0
    BY AdcAssumption DEF AdcAssumption
  <2>2. rec.pc = "start" /\ rec.n = n /\ rec.all = r /\ rec.left = r
    BY AwayIsRec DEF AdcRecs
  <2>3. rec \in AdcRecs
    BY <2>1, AwayIsRec DEF AdcRecs
  <2> QED BY <1>2, <2>1, <2>2, <2>3
<1> HIDE DEF rec
<1>4. /\ adcTh' \in [AdcThreads -> AdcRecs] /\ adcTh'[t] = rec
      /\ \A u \in AdcThreads : u # t => adcTh'[u] = adcTh[u] /\ adcTh[u].pc = "idle"
  BY <1>1, <1>3, OtherReaders
<1>5. Adc!TypeOK'
  BY <1>1, <1>4 DEF AdcInv, Adc!TypeOK, AdcRecs
<1>6. AdcHolds'
  BY <1>1, <1>3, <1>4 DEF AdcHolds
<1>7. AdcOwn'
  BY <1>1, <1>3, <1>4 DEF AdcOwn, AdcInv
<1>8. AdcTold'
  BY <1>1, <1>3, <1>4 DEF AdcTold, AdcInv
<1> QED BY <1>5, <1>6, <1>7, <1>8 DEF AdcInv

LEMMA AdcStartStep ==
    ASSUME AdcInv, NEW t \in AdcThreads, Adc!Start12(t) \/ Adc!Start16(t)
    PROVE  AdcInv'
<1>1. /\ adcTh[t].pc = "start" /\ UNCHANGED <<adcIs12, hwTrigger, adcLock, adcSync, channels, sequence, adcIsr, adcOdd>>
      /\ Adc!Refuse(t) \/ Adc!Accept(t)
  BY DEF Adc!Start12, Adc!Start16, Adc!At, Adc!build
<1>2. adcTh[t] \in AdcRecs /\ adcLock = t
  BY <1>1 DEF AdcInv, Adc!TypeOK, AdcRecs, AdcHolds
<1>3. CASE Adc!Refuse(t)
  <2> DEFINE rec == [adcTh[t] EXCEPT !.pc = "out", !.ok = FALSE]
  <2>1. rec \in AdcRecs /\ rec.pc = "out"
    BY <1>2 DEF AdcRecs
  <2>2. adcTh' = [adcTh EXCEPT ![t] = rec] /\ UNCHANGED buffer
    BY <1>3 DEF Adc!Refuse
  <2> HIDE DEF rec
  <2>3. /\ adcTh' \in [AdcThreads -> AdcRecs] /\ adcTh'[t] = rec
        /\ \A u \in AdcThreads : u # t => adcTh'[u] = adcTh[u] /\ adcTh[u].pc = "idle"
    BY <1>2, <2>1, <2>2, OtherReaders
  <2>4. Adc!TypeOK'
    BY <1>1, <2>2, <2>3 DEF AdcInv, Adc!TypeOK, AdcRecs
  <2>5. AdcHolds' /\ AdcTold'
    BY <1>1, <1>2, <2>1, <2>3 DEF AdcHolds, AdcTold, AdcInv
  <2>6. AdcOwn'
    BY <1>1, <2>1, <2>2, <2>3 DEF AdcOwn, AdcInv
  <2> QED BY <2>4, <2>5, <2>6 DEF AdcInv
<1>4. CASE Adc!Accept(t)
  <2> DEFINE rec == [adcTh[t] EXCEPT !.pc = "sample"]
  <2>1. rec \in AdcRecs /\ rec.pc = "sample" /\ rec.n = adcTh[t].n /\ rec.all = adcTh[t].all /\ rec.left = adcTh[t].left
    BY <1>2 DEF AdcRecs
  <2>2. adcTh' = [adcTh EXCEPT ![t] = rec] /\ buffer' = [of |-> t, at |-> 0]
    BY <1>4 DEF Adc!Accept, Adc!To
  <2> HIDE DEF rec
  <2>3. /\ adcTh' \in [AdcThreads -> AdcRecs] /\ adcTh'[t] = rec
        /\ \A u \in AdcThreads : u # t => adcTh'[u] = adcTh[u] /\ adcTh[u].pc = "idle"
    BY <1>2, <2>1, <2>2, OtherReaders
  <2>4. buffer' \in [of : AdcThreads \cup {NoAdc}, at : 0..(Repeats * MaxChannels)]
    <3>1. Repeats * MaxChannels \in Nat
      BY AdcAssumption DEF AdcAssumption
    <3>2. 0 \in 0..(Repeats * MaxChannels)
      BY <3>1
    <3> QED BY <2>2, <3>2
  <2>5. Adc!TypeOK'
    BY <1>1, <2>3, <2>4 DEF AdcInv, Adc!TypeOK, AdcRecs
  <2>6. AdcHolds' /\ AdcTold'
    BY <1>1, <1>2, <2>1, <2>3 DEF AdcHolds, AdcTold, AdcInv
  <2>7. AdcOwn'
    BY <1>1, <2>1, <2>2, <2>3 DEF AdcOwn, AdcInv
  <2> QED BY <2>5, <2>6, <2>7 DEF AdcInv
<1> QED BY <1>1, <1>3, <1>4

LEMMA AdcSampleStep ==
    ASSUME AdcInv, NEW t \in AdcThreads, Adc!Sample12(t) \/ Adc!Sample16(t)
    PROVE  AdcInv'
<1>1. /\ adcTh[t].pc = "sample" /\ UNCHANGED <<adcIs12, hwTrigger, adcLock, adcSync, buffer, adcIsr, adcOdd>>
      /\ adcTh' = [adcTh EXCEPT ![t].pc = "wait"] /\ channels' = adcTh[t].n
      /\ sequence' \in {"ready", "busy", "complete"}
  BY DEF Adc!Sample12, Adc!Sample16, Adc!Sample, Adc!At, Adc!To, Adc!build
<1>2. adcTh[t] \in AdcRecs /\ adcLock = t
  BY <1>1 DEF AdcInv, Adc!TypeOK, AdcRecs, AdcHolds
<1> DEFINE rec == [adcTh[t] EXCEPT !.pc = "wait"]
<1>3. rec \in AdcRecs /\ rec.pc = "wait" /\ rec.n = adcTh[t].n /\ rec.all = adcTh[t].all /\ rec.left = adcTh[t].left
  BY <1>2 DEF AdcRecs
<1>4. adcTh' = [adcTh EXCEPT ![t] = rec]
  BY <1>1
<1> HIDE DEF rec
<1>5. /\ adcTh' \in [AdcThreads -> AdcRecs] /\ adcTh'[t] = rec
      /\ \A u \in AdcThreads : u # t => adcTh'[u] = adcTh[u] /\ adcTh[u].pc = "idle"
  BY <1>2, <1>3, <1>4, OtherReaders
<1>6. adcTh[t].n \in 1..MaxChannels /\ adcTh[t].all \in 1..Repeats /\ adcTh[t].left = adcTh[t].all
  BY <1>1, <1>2, AdcAssumption DEF AdcAssumption, AdcInv, AdcHolds, AdcRecs
<1>7. Adc!TypeOK'
  BY <1>1, <1>5, <1>6 DEF AdcInv, Adc!TypeOK, AdcRecs
<1>8. AdcHolds' /\ AdcTold'
  BY <1>1, <1>2, <1>3, <1>5, <1>6 DEF AdcHolds, AdcTold, AdcInv
<1>9. AdcOwn'
  <2>1. adcTh[t].n * (adcTh[t].all - adcTh[t].left) = 0
    BY <1>6
  <2>2. "triggered" \notin adcOdd => /\ "notOwn" \notin adcOdd /\ "overrun" \notin adcOdd
                                    /\ buffer.of = t /\ buffer.at = 0 /\ adcSync = 0
    BY <1>1, <1>5 DEF AdcOwn, AdcInv
  <2>3. "triggered" \notin adcOdd => AdcWaits(t)'
    BY <1>1, <1>3, <1>5, <1>6, <2>1, <2>2 DEF AdcWaits
  <2>4. \A u \in AdcThreads : adcTh'[u].pc \in {"sample", "wait"} => u = t
    BY <1>5
  <2> QED BY <1>1, <1>3, <1>5, <1>6, <2>2, <2>3, <2>4 DEF AdcOwn
<1> QED BY <1>7, <1>8, <1>9 DEF AdcInv

LEMMA AdcWaitStep ==
    ASSUME AdcInv, NEW t \in AdcThreads, Adc!Wait(t)
    PROVE  AdcInv'
<1>1. /\ adcTh[t].pc = "wait" /\ adcSync > 0 /\ adcSync' = adcSync - 1
      /\ UNCHANGED <<adcIs12, hwTrigger, adcLock, channels, buffer, sequence, adcIsr>>
      /\ adcTh' = [adcTh EXCEPT ![t].pc = "out"]
      /\ adcOdd' = adcOdd \cup (IF adcTh[t].left > 0 THEN {"notOwn"} ELSE {})
  BY DEF Adc!Wait, Adc!At, Adc!To, Adc!build
<1>2. adcTh[t] \in AdcRecs /\ adcLock = t
  BY <1>1 DEF AdcInv, Adc!TypeOK, AdcRecs, AdcHolds
<1> DEFINE rec == [adcTh[t] EXCEPT !.pc = "out"]
<1>3. rec \in AdcRecs /\ rec.pc = "out"
  BY <1>2 DEF AdcRecs
<1>4. adcTh' = [adcTh EXCEPT ![t] = rec]
  BY <1>1
<1> HIDE DEF rec
<1>5. /\ adcTh' \in [AdcThreads -> AdcRecs] /\ adcTh'[t] = rec
      /\ \A u \in AdcThreads : u # t => adcTh'[u] = adcTh[u] /\ adcTh[u].pc = "idle"
  BY <1>2, <1>3, <1>4, OtherReaders
<1>6. Adc!TypeOK'
  BY <1>1, <1>5 DEF AdcInv, Adc!TypeOK, AdcRecs
<1>7. AdcHolds' /\ AdcTold'
  BY <1>1, <1>2, <1>3, <1>5 DEF AdcHolds, AdcTold, AdcInv
<1>8. AdcOwn'
  <2>1. "triggered" \notin adcOdd => channels = 0 /\ adcSync = 1 /\ adcTh[t].left = 0
    BY <1>1, <1>2 DEF AdcOwn, AdcWaits, AdcInv, AdcRecs
  <2>2. "triggered" \notin adcOdd' => "triggered" \notin adcOdd /\ adcOdd' = adcOdd
    BY <1>1, <2>1
  <2> QED BY <1>1, <1>3, <1>5, <2>1, <2>2 DEF AdcOwn, AdcInv
<1> QED BY <1>6, <1>7, <1>8 DEF AdcInv

LEMMA AdcReleaseStep ==
    ASSUME AdcInv, NEW t \in AdcThreads, Adc!Release(t)
    PROVE  AdcInv'
<1>1. /\ adcTh[t].pc = "out" /\ adcLock' = NoAdc /\ adcTh' = [adcTh EXCEPT ![t] = Adc!Away]
      /\ UNCHANGED <<adcIs12, hwTrigger, adcSync, channels, buffer, sequence, adcIsr, adcOdd>>
  BY DEF Adc!Release, Adc!At, Adc!build, Adc!unit
<1>2. adcLock = t
  BY <1>1 DEF AdcInv, AdcHolds
<1>3. /\ adcTh' \in [AdcThreads -> AdcRecs] /\ adcTh'[t] = Adc!Away
      /\ \A u \in AdcThreads : u # t => adcTh'[u] = adcTh[u] /\ adcTh[u].pc = "idle"
  BY <1>1, <1>2, AwayIsRec, OtherReaders
<1>4. Adc!TypeOK'
  BY <1>1, <1>3 DEF AdcInv, Adc!TypeOK, AdcRecs
<1>5. AdcHolds' /\ AdcTold'
  BY <1>1, <1>3, AwayIsRec DEF AdcHolds, AdcTold, AdcInv
<1>6. AdcOwn'
  BY <1>1, <1>3, AwayIsRec DEF AdcOwn, AdcInv
<1> QED BY <1>4, <1>5, <1>6 DEF AdcInv

LEMMA AdcUnitStep ==
    ASSUME AdcInv, Adc!Trigger \/ Adc!Converted \/ Adc!IsrEnds
    PROVE  AdcInv'
<1>1. /\ UNCHANGED <<adcIs12, hwTrigger, adcTh, adcLock, adcSync, channels, buffer>>
      /\ adcIsr' \in BOOLEAN
      /\ \/ sequence = "ready" /\ sequence' = "busy" /\ adcOdd' = adcOdd \cup (IF channels = 0 THEN {"triggered"} ELSE {})
         \/ sequence = "busy" /\ sequence' = "complete" /\ UNCHANGED adcOdd
         \/ sequence = "complete" /\ sequence' \in {"ready", "off"} /\ adcOdd' = adcOdd \cup {"cleared"}
         \/ UNCHANGED <<sequence, adcOdd>>
  BY DEF Adc!Trigger, Adc!Converted, Adc!IsrEnds, Adc!build, AdcInv, Adc!TypeOK
<1>2. Adc!TypeOK'
  BY <1>1 DEF AdcInv, Adc!TypeOK
<1>3. AdcHolds'
  BY <1>1 DEF AdcHolds, AdcInv
<1>4. AdcTold'
  BY <1>1 DEF AdcTold, AdcInv
<1>5. AdcOwn'
  BY <1>1 DEF AdcOwn, AdcWaits, AdcInv
<1> QED BY <1>2, <1>3, <1>4, <1>5 DEF AdcInv

(* The interrupt stores the results of a sampling.                          *)
LEMMA AdcIsrStep ==
    ASSUME AdcInv, Adc!Isr12 \/ Adc!Isr16
    PROVE  AdcInv'
<1> DEFINE t == buffer.of
           own == Adc!Own(t)
<1>1. /\ UNCHANGED <<adcIs12, hwTrigger, adcLock>> /\ sequence = "complete" /\ adcIsr' = TRUE
      /\ adcOdd' = adcOdd \cup (IF Adc!Beyond THEN {"overrun"} ELSE {})
  BY DEF Adc!Isr12, Adc!Isr16, Adc!Store, Adc!build
<1>2. PICK repeat \in BOOLEAN : (repeat => own) /\ Adc!Done(repeat)
  BY DEF Adc!Isr12, Adc!Isr16, Adc!Store
<1> DEFINE more == own /\ (repeat \/ adcTh[t].left > 1)
<1>3. /\ buffer' = IF repeat THEN buffer ELSE [buffer EXCEPT !.at = IF Adc!Beyond THEN @ ELSE @ + channels]
      /\ channels' = IF more THEN adcTh[t].n ELSE 0
      /\ sequence' = IF hwTrigger THEN "ready" ELSE IF more THEN "busy" ELSE "off"
      /\ adcSync' = IF more \/ adcSync = 2 THEN adcSync ELSE adcSync + 1
      /\ adcTh' = IF own /\ ~repeat THEN [adcTh EXCEPT ![t].left = @ - 1] ELSE adcTh
  BY <1>2 DEF Adc!Done
<1>t. Adc!TypeOK /\ adcTh \in [AdcThreads -> AdcRecs] /\ t \in AdcThreads \cup {NoAdc} /\ channels \in 0..MaxChannels
  BY DEF AdcInv, Adc!TypeOK, AdcRecs
<1>4. own => t \in AdcThreads /\ adcTh[t].pc = "wait" /\ adcTh[t].left > 0 /\ adcTh[t] \in AdcRecs
  BY <1>t DEF Adc!Own, Adc!At
<1>5. t \in AdcThreads /\ adcTh[t].pc = "wait" /\ adcTh[t].left > 0 => own
  BY AdcAssumption DEF AdcAssumption, Adc!Own, Adc!At
<1>6. Adc!Beyond <=> channels > 0 /\ ~(own /\ buffer.at + channels <= adcTh[t].n * adcTh[t].all)
  BY DEF Adc!Beyond
<1> HIDE DEF own
<1> DEFINE rec == [adcTh[t] EXCEPT !.left = @ - 1]
<1>7. own => /\ rec \in AdcRecs /\ rec.pc = "wait" /\ rec.n = adcTh[t].n /\ rec.all = adcTh[t].all
             /\ rec.left = adcTh[t].left - 1
  BY <1>4, AdcAssumption DEF AdcAssumption, AdcRecs
<1>8. /\ own /\ ~repeat => adcTh' = [adcTh EXCEPT ![t] = rec]
      /\ ~(own /\ ~repeat) => adcTh' = adcTh
  BY <1>3
<1> HIDE DEF rec
<1>9. /\ adcTh' \in [AdcThreads -> AdcRecs]
      /\ own /\ ~repeat => adcTh'[t] = rec /\ \A u \in AdcThreads : u # t => adcTh'[u] = adcTh[u]
      /\ \A u \in AdcThreads : /\ adcTh'[u].pc = adcTh[u].pc /\ adcTh'[u].n = adcTh[u].n
                               /\ adcTh'[u].all = adcTh[u].all /\ adcTh'[u].left <= adcTh[u].left
                               /\ adcTh'[u].pc # "wait" => adcTh'[u].left = adcTh[u].left
  <2>1. \A u \in AdcThreads : adcTh[u].left \in Nat
    BY <1>t DEF AdcRecs
  <2>2. CASE own /\ ~repeat
    <3>1. /\ adcTh' \in [AdcThreads -> AdcRecs] /\ adcTh'[t] = rec
          /\ \A u \in AdcThreads : u # t => adcTh'[u] = adcTh[u]
      BY <1>4, <1>7, <1>8, <2>2, OtherReaders
    <3> QED BY <1>4, <1>7, <2>1, <2>2, <3>1
  <2>3. CASE ~(own /\ ~repeat)
    BY <1>t, <1>8, <2>1, <2>3
  <2> QED BY <2>2, <2>3
<1>10. buffer' \in [of : AdcThreads \cup {NoAdc}, at : 0..(Repeats * MaxChannels)] /\ buffer'.of = t
  <2>1. buffer \in [of : AdcThreads \cup {NoAdc}, at : 0..(Repeats * MaxChannels)]
    BY <1>t DEF Adc!TypeOK
  <2>2. CASE repeat \/ Adc!Beyond \/ channels = 0
    <3>1. buffer' = buffer
      <4>1. Repeats * MaxChannels \in Nat
        BY AdcAssumption DEF AdcAssumption
      <4>2. buffer.at \in Nat
        BY <2>1, <4>1
      <4> QED BY <1>3, <2>1, <2>2, <4>2
    <3> QED BY <2>1, <3>1
  <2>3. CASE ~repeat /\ ~Adc!Beyond /\ channels # 0
    <3>1. own /\ buffer.at + channels <= adcTh[t].n * adcTh[t].all
      BY <1>6, <1>t, <2>3, AdcAssumption DEF AdcAssumption
    <3>2. adcTh[t].n * adcTh[t].all <= Repeats * MaxChannels /\ adcTh[t].n * adcTh[t].all \in Nat
          /\ Repeats * MaxChannels \in Nat
      BY <1>4, <3>1, BufferRoom DEF AdcRecs
    <3>3. buffer' = [of |-> t, at |-> buffer.at + channels]
      BY <1>3, <2>1, <2>3
    <3>4. buffer.at + channels \in 0..(Repeats * MaxChannels)
      <4> DEFINE x == adcTh[t].n * adcTh[t].all
                 y == Repeats * MaxChannels
      <4>1. buffer.at \in 0..y /\ channels \in Nat /\ x <= y /\ x \in Nat /\ y \in Nat /\ buffer.at + channels <= x
        BY <1>t, <2>1, <3>1, <3>2
      <4> HIDE DEF x, y
      <4>2. buffer.at + channels \in 0..y
        BY <4>1
      <4> QED BY <4>2 DEF y
    <3> QED BY <1>t, <3>3, <3>4
  <2> QED BY <2>2, <2>3
<1>11. Adc!TypeOK'
  <2>1. adcSync' \in 0..2 /\ sequence' \in {"off", "ready", "busy", "complete"} /\ adcIsr' \in BOOLEAN
    BY <1>1, <1>3, <1>t DEF Adc!TypeOK
  <2>2. channels' \in 0..MaxChannels
    BY <1>3, <1>4, AdcAssumption DEF AdcAssumption, AdcRecs
  <2>3. adcOdd' \subseteq {"triggered", "notOwn", "overrun", "cleared"}
    BY <1>1, <1>t DEF Adc!TypeOK
  <2> QED BY <1>1, <1>9, <1>10, <1>t, <2>1, <2>2, <2>3 DEF Adc!TypeOK, AdcRecs
<1>12. AdcHolds'
  <2>1. \A u \in AdcThreads : adcTh[u] \in AdcRecs /\ adcTh'[u] \in AdcRecs
    BY <1>9, <1>t
  <2> QED BY <1>1, <1>9, <2>1 DEF AdcHolds, AdcInv, AdcRecs
<1>13. AdcTold'
  <2>1. sequence' = "off" => adcSync' # 0
    BY <1>3, <1>t DEF Adc!TypeOK
  <2> QED BY <2>1 DEF AdcTold
<1>14. AdcOwn'
  <2> SUFFICES ASSUME "triggered" \notin adcOdd'
               PROVE  AdcOwn'
    BY DEF AdcOwn
  <2>1. "triggered" \notin adcOdd
    BY <1>1
  <2>2. own /\ AdcWaits(t)
    <3>1. channels # 0
      BY <1>1, <2>1 DEF AdcOwn, AdcInv
    <3>2. PICK u \in AdcThreads : adcTh[u].pc = "wait"
      BY <2>1, <3>1 DEF AdcOwn, AdcInv
    <3>3. AdcWaits(u)
      BY <2>1, <3>2 DEF AdcOwn, AdcInv
    <3>4. u = t /\ adcTh[u].left > 0
      BY <1>t, <3>1, <3>3 DEF AdcWaits, AdcRecs
    <3> QED BY <1>5, <3>2, <3>3, <3>4
  <2> DEFINE n == adcTh[t].n
             all == adcTh[t].all
             left == adcTh[t].left
  <2>3. /\ channels = n /\ adcSync = 0 /\ buffer.at = n * (all - left)
        /\ n \in Nat \ {0} /\ all \in Nat /\ left \in Nat \ {0} /\ left <= all
    BY <1>4, <2>2, AdcAssumption DEF AdcAssumption, AdcWaits, AdcRecs, AdcInv, AdcHolds
  <2> HIDE DEF n, all, left
  <2>4. n * (all - left) + n = n * (all - (left - 1)) /\ n * (all - (left - 1)) <= n * all
        /\ n * (all - left) \in Nat
    <3>1. PICK k \in Nat : all = left + k
      <4>1. all - left \in Nat /\ all = left + (all - left)
        BY <2>3
      <4> QED BY <4>1
    <3>2. PICK l \in Nat : left = l + 1
      <4>1. left - 1 \in Nat /\ left = (left - 1) + 1
        BY <2>3
      <4> QED BY <4>1
    <3>3. all - left = k /\ all - (left - 1) = k + 1 /\ all = (k + 1) + l
      BY <2>3, <3>1, <3>2
    <3>4. n * k + n = n * (k + 1) /\ n * ((k + 1) + l) = n * (k + 1) + n * l /\ n * l \in Nat /\ n * k \in Nat
          /\ n * (k + 1) \in Nat
      BY <2>3
    <3>5. n * (k + 1) <= n * ((k + 1) + l)
      <4> DEFINE a == n * (k + 1)
                 b == n * l
      <4> HIDE DEF a, b
      <4>1. a \in Nat /\ b \in Nat /\ n * ((k + 1) + l) = a + b
        BY <3>4 DEF a, b
      <4>2. a <= a + b
        BY <4>1
      <4> QED BY <4>1, <4>2 DEF a
    <3> QED BY <3>3, <3>4, <3>5
  <2>5. ~Adc!Beyond
    BY <1>6, <2>2, <2>3, <2>4 DEF n, all
  <2>6. adcOdd' = adcOdd /\ "notOwn" \notin adcOdd /\ "overrun" \notin adcOdd
    BY <1>1, <2>1, <2>5 DEF AdcOwn, AdcInv
  <2>7. \A u \in AdcThreads : adcTh[u].pc \in {"wait", "sample"} => u = t
    BY <1>4, <2>2 DEF AdcHolds, AdcInv
  <2>8. channels' = 0 => sequence' \in {"off", "ready"}
    BY <1>3, <2>3 DEF n
  <2>9. AdcWaits(t)'
    <3>1. CASE repeat
      BY <1>3, <1>8, <1>10, <2>2, <2>3, <3>1 DEF AdcWaits, n, left, all
    <3>2. CASE ~repeat
      <4>1. buffer'.at = n * (all - left) + n /\ buffer'.of = t
        <5>1. buffer \in [of : AdcThreads \cup {NoAdc}, at : 0..(Repeats * MaxChannels)]
          BY <1>t DEF Adc!TypeOK
        <5>2. buffer' = [buffer EXCEPT !.at = @ + channels]
          BY <1>3, <2>5, <3>2
        <5> QED BY <2>3, <5>1, <5>2, <1>10
      <4>2. /\ adcTh'[t].n = n /\ adcTh'[t].all = all /\ adcTh'[t].left = left - 1
        BY <1>7, <1>9, <2>2, <3>2 DEF n, all, left
      <4>3. /\ left > 1 => channels' = n /\ adcSync' = 0
            /\ left = 1 => channels' = 0 /\ adcSync' = 1
        BY <1>3, <2>2, <2>3, <3>2 DEF n, left
      <4>4. left > 1 \/ left = 1
        BY <2>3
      <4>5. buffer'.at = n * (all - (left - 1))
        BY <2>4, <4>1
      <4>6. CASE left > 1
        BY <2>3, <4>1, <4>2, <4>3, <4>5, <4>6 DEF AdcWaits
      <4>7. CASE left = 1
        BY <2>3, <4>1, <4>2, <4>3, <4>7 DEF AdcWaits
      <4> QED BY <4>4, <4>6, <4>7
    <3> QED BY <3>1, <3>2
  <2>10. t' = t /\ t \in AdcThreads /\ adcTh'[t].pc = "wait"
    BY <1>4, <1>9, <1>10, <2>2
  <2>11. \A u \in AdcThreads : adcTh'[u].pc \in {"wait", "sample"} => u = t
    BY <1>9, <2>7
  <2>12. \A u \in AdcThreads : u = t => AdcWaits(u)'
    BY <2>9, <2>10 DEF AdcWaits
  <2> QED BY <2>6, <2>8, <2>10, <2>11, <2>12 DEF AdcOwn
<1> QED BY <1>11, <1>12, <1>13, <1>14 DEF AdcInv

LEMMA AdcStep ==
    ASSUME AdcInv, [Adc!Next]_(Adc!adcVars)
    PROVE  AdcInv'
<1>1. CASE UNCHANGED Adc!adcVars
  BY <1>1 DEF AdcInv, Adc!TypeOK, AdcHolds, AdcOwn, AdcWaits, AdcTold, Adc!adcVars
<1>2. CASE Adc!Next
  BY <1>2, AdcReadStep, AdcStartStep, AdcSampleStep, AdcWaitStep, AdcReleaseStep, AdcUnitStep, AdcIsrStep
     DEF Adc!Next
<1> QED BY <1>1, <1>2

THEOREM AdcIsSound == Adc!Spec => []AdcInv
  BY AdcInit, AdcStep, PTL DEF Adc!Spec

(* A read returns after all its samplings and the interrupt stores within   *)
(* the buffer of a read in progress, unless a hardware trigger came that    *)
(* nobody asked for; one that waits has a sampling under way or was robbed  *)
(* of its completion (hpmicro_adc12_isr, hpmicro_adc16_isr).                *)
THEOREM AdcReadsOwn == Spec => []AdcReadIsOwn
<1>1. AdcInv => AdcReadIsOwn
  BY DEF AdcInv, AdcOwn, AdcTold, AdcReadIsOwn, Adc!AdcReadIsOwn, Adc!At
<1> QED BY <1>1, AdcIsSound, UnionIsEach, PTL
===============================================================================
