-------------------------------- MODULE EthLink --------------------------------
(***************************************************************************)
(* The link side of drivers/ethernet/ethernet_hpmicro.c: the delayed work    *)
(* that polls the PHY, and what the network interface is told of carrier,    *)
(* speed and address.                                                        *)
(***************************************************************************)
CONSTANTS LinkModes, Mode0,   \* speed with duplex; the one that is all zero bits
          Macs, Mac0          \* addresses, the configured one

VARIABLES
  iface,      \* data->iface is set
  phy,        \* what the PHY would answer now
  lastPhy,    \* last_phy_status
  polled,     \* what it answered at the last check, and whether there was one
  carrier,    \* net_if_carrier_on
  macMode,    \* speed and duplex of the MAC
  macAddr,    \* data->mac_addr, the filter of the MAC, the interface's link address
  linkWork,   \* the work is scheduled
  everUp      \* the link was up at some check

linkVars == <<iface, phy, lastPhy, polled, carrier, macMode, macAddr, linkWork, everUp>>

Status == [up : BOOLEAN, mode : LinkModes]
Down0  == [up |-> FALSE, mode |-> Mode0]

TypeOK ==
    /\ iface \in BOOLEAN /\ phy \in Status /\ lastPhy \in Status
    /\ polled \in [done : BOOLEAN, up : BOOLEAN, mode : LinkModes]
    /\ carrier \in BOOLEAN /\ macMode \in LinkModes /\ linkWork \in BOOLEAN /\ everUp \in BOOLEAN
    /\ macAddr \in [data : Macs, filter : Macs, told : Macs]

Init ==
    /\ iface = FALSE /\ phy \in Status /\ lastPhy = Down0
    /\ polled = [done |-> FALSE, up |-> FALSE, mode |-> Mode0]
    /\ carrier = FALSE /\ macMode = Mode0 /\ linkWork = TRUE /\ everUp = FALSE
    /\ macAddr = [data |-> Mac0, filter |-> Mac0, told |-> Mac0]
-------------------------------------------------------------------------------
IfaceInit ==            \* carrier on, whatever the PHY says
    /\ ~iface /\ iface' = TRUE /\ carrier' = TRUE
    /\ macAddr' = [macAddr EXCEPT !.told = macAddr.data]
    /\ UNCHANGED <<phy, lastPhy, polled, macMode, linkWork, everUp>>

BugNews(s) == s.up # lastPhy.up                     \* a new speed is no news
News(s)    == (s.up \/ s.up # lastPhy.up) /\ s # lastPhy

(* The work before the interface is known does not schedule itself again.   *)
LinkWork ==
    /\ linkWork /\ linkWork' = iface
    /\ IF iface
       THEN /\ polled' = [done |-> TRUE, up |-> phy.up, mode |-> phy.mode]
            /\ everUp' = (everUp \/ phy.up)
            /\ IF News(phy)
               THEN /\ lastPhy' = phy /\ carrier' = phy.up
                    /\ macMode' = IF phy.up THEN phy.mode ELSE macMode
               ELSE UNCHANGED <<lastPhy, carrier, macMode>>
       ELSE UNCHANGED <<polled, everUp, lastPhy, carrier, macMode>>
    /\ UNCHANGED <<iface, phy, macAddr>>

PhyChanges ==
    /\ phy' \in Status
    /\ UNCHANGED <<iface, lastPhy, polled, carrier, macMode, macAddr, linkWork, everUp>>

SetMac ==               \* eth_set_config
    /\ iface
    /\ \E m \in Macs : macAddr' = [data |-> m, filter |-> m, told |-> m]
    /\ UNCHANGED <<iface, phy, lastPhy, polled, carrier, macMode, linkWork, everUp>>

Next == IfaceInit \/ LinkWork \/ PhyChanges \/ SetMac
Spec == Init /\ [][Next]_linkVars
-------------------------------------------------------------------------------
(* After a check the interface has a carrier exactly when the PHY had a     *)
(* link, and the MAC runs in the PHY's mode, however short a change between *)
(* two checks was; only a link that was never up leaves the carrier on.     *)
EthLinkIsShown ==
    polled.done =>
        /\ polled.up => carrier /\ macMode = polled.mode
        /\ ~polled.up => (carrier <=> ~everUp)
===============================================================================
