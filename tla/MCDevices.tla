------------------------------- MODULE MCDevices -------------------------------
(* Network, camera, converter, port, display and PWM drivers, which share   *)
(* nothing: each behaviour is one of them.                                  *)
EXTENDS Naturals

CONSTANTS EthThreads, NoEth, TxCount, RxCount, LinkModes, Mode0, Macs, Mac0,
          VideoBufs, OwnBuf, AdcThreads, NoAdc, MaxChannels, Repeats, Users, Pins, EdgePins,
          Strides, Rows, CacheLine, PanelClocks, Channels, Periods, Pulses, Limit, MaxExt, ResetReload, MaxUsed

(* What the sizes and the values that stand for nothing are.                *)
ASSUME EthAssumption ==
    /\ NoEth \notin EthThreads /\ TxCount \in Nat \ {0} /\ RxCount \in Nat
    /\ Mode0 \in LinkModes /\ Mac0 \in Macs
ASSUME CamAssumption == OwnBuf \notin VideoBufs /\ "none" \notin VideoBufs \cup {OwnBuf}
ASSUME AdcAssumption == NoAdc \notin AdcThreads /\ MaxChannels \in Nat /\ Repeats \in Nat
ASSUME PanelAssumption ==
    /\ Strides \subseteq Nat \ {0} /\ Rows \in Nat /\ CacheLine \in Nat \ {0}
    /\ PanelClocks \subseteq Nat \ {0}
ASSUME PwmAssumption ==
    /\ Channels \subseteq Nat /\ Periods \subseteq Nat /\ Pulses \subseteq Nat
    /\ Limit \in Nat /\ MaxExt \in Nat /\ ResetReload \in 0 .. Limit
    /\ MaxUsed \in Nat

VARIABLES driver,
  booted, ethTh, txMutex, txSem, rxSem, txRing, frames, rxPc, dmaStatus, isrPc, snap, ethOdd,
  iface, phy, lastPhy, polled, carrier, macMode, macAddr, linkWork, everUp,
  camIn, camOut, camUser, camHeld, camBuffer, fb1, camIrq, frame, filled, video, camOdd,
  adcIs12, hwTrigger, adcTh, adcLock, adcSync, channels, buffer, sequence, adcIsr, adcOdd,
  out, oe, writes, wanted, gpioOdd,
  level, trig, irqFlags, fired, owed,
  panel, lcd, fb, drawn,
  pwmGen, reload, wave, four, live, asked, pwmOdd

ethVars     == <<booted, ethTh, txMutex, txSem, rxSem, txRing, frames, rxPc, dmaStatus, isrPc, snap, ethOdd>>
linkVars    == <<iface, phy, lastPhy, polled, carrier, macMode, macAddr, linkWork, everUp>>
camVars     == <<camIn, camOut, camUser, camHeld, camBuffer, fb1, camIrq, frame, filled, video, camOdd>>
adcVars     == <<adcIs12, hwTrigger, adcTh, adcLock, adcSync, channels, buffer, sequence, adcIsr, adcOdd>>
gpioVars    == <<out, oe, writes, wanted, gpioOdd>>
edgeVars    == <<level, trig, irqFlags, fired, owed>>
displayVars == <<panel, lcd, fb, drawn>>
pwmVars     == <<pwmGen, reload, wave, four, live, asked, pwmOdd>>

Eth  == INSTANCE EthMac
Link == INSTANCE EthLink
Cam  == INSTANCE CameraQueue
Adc  == INSTANCE AdcSequence
Port == INSTANCE GpioPort
Edge == INSTANCE GpioEdges
Disp == INSTANCE Display
Wave == INSTANCE Pwm

(* What a driver chooses at the start is chosen in its own behaviours only. *)
Init ==
    /\ driver \in {"eth", "link", "camera", "adc", "port", "edges", "display", "pwm"}
    /\ Eth!Init /\ Link!Init /\ Cam!Init /\ Adc!Init /\ Port!Init /\ Edge!Init /\ Disp!Init /\ Wave!Init
    /\ driver # "link" => phy = lastPhy
    /\ (adcIs12 \/ hwTrigger) => driver = "adc"
    /\ driver # "display" => panel = CHOOSE p \in [itf : Disp!Interfaces, stride : Strides,
                                                   pll : PanelClocks, pixel : PanelClocks] : TRUE
    /\ driver # "pwm" => pwmGen = 1

Next ==
    /\ UNCHANGED driver
    /\ \/ driver = "eth"     /\ Eth!Next  /\ UNCHANGED <<linkVars, camVars, adcVars, gpioVars, edgeVars, displayVars, pwmVars>>
       \/ driver = "link"    /\ Link!Next /\ UNCHANGED <<ethVars, camVars, adcVars, gpioVars, edgeVars, displayVars, pwmVars>>
       \/ driver = "camera"  /\ Cam!Next  /\ UNCHANGED <<ethVars, linkVars, adcVars, gpioVars, edgeVars, displayVars, pwmVars>>
       \/ driver = "adc"     /\ Adc!Next  /\ UNCHANGED <<ethVars, linkVars, camVars, gpioVars, edgeVars, displayVars, pwmVars>>
       \/ driver = "port"    /\ Port!Next /\ UNCHANGED <<ethVars, linkVars, camVars, adcVars, edgeVars, displayVars, pwmVars>>
       \/ driver = "edges"   /\ Edge!Next /\ UNCHANGED <<ethVars, linkVars, camVars, adcVars, gpioVars, displayVars, pwmVars>>
       \/ driver = "display" /\ Disp!Next /\ UNCHANGED <<ethVars, linkVars, camVars, adcVars, gpioVars, edgeVars, pwmVars>>
       \/ driver = "pwm"     /\ Wave!Next /\ UNCHANGED <<ethVars, linkVars, camVars, adcVars, gpioVars, edgeVars, displayVars>>

Spec == Init /\ [][Next]_<<driver, ethVars, linkVars, camVars, adcVars, gpioVars, edgeVars, displayVars, pwmVars>>

(* The state of every driver has its type.                                  *)
TypeOK == /\ Eth!TypeOK /\ Link!TypeOK /\ Cam!TypeOK /\ Adc!TypeOK
          /\ Port!TypeOK /\ Edge!TypeOK /\ Disp!TypeOK /\ Wave!TypeOK
(* EthMac: a send that returned 0 put its own packet on the wire.           *)
EthSentIsOwn == Eth!EthSentIsOwn
(* EthMac: a frame in the ring is about to be read.                         *)
EthFrameIsRead == Eth!EthFrameIsRead
(* EthLink: carrier and MAC follow the PHY.                                 *)
EthLinkIsShown == Link!EthLinkIsShown
(* CameraQueue: no buffer is lost or in two places, the camera writes queued*)
(* buffers and delivers written ones, and a call on camera and sensor that  *)
(* returned 0 did both.                                                     *)
CamQueueIsSound == Cam!CamBufferHasOnePlace /\ Cam!CamFramesAreOwn /\ Cam!CamOkMeansBoth
(* AdcSequence: samples belong to the read in progress and fit its buffer.  *)
AdcReadIsOwn == Adc!AdcReadIsOwn
(* GpioPort and GpioEdges: a pin has the level its user wants, and an       *)
(* enabled edge is told to the callbacks.                                   *)
GpioServesItsUsers == Port!GpioPinIsOwn /\ Edge!GpioEdgeIsTold
(* Display: a write changes its rectangle only and all of it is flushed,    *)
(* and the pixel clock is the nearest the divider can make.                 *)
DisplayIsExact == Disp!DisplayWriteIsExact /\ Disp!DisplayClockIsNearest
(* Pwm: a request that returned 0 is what the channel does.                 *)
PwmOkMeansApplied == Wave!PwmOkMeansApplied
===============================================================================
