-------------------------------- MODULE MCBuses --------------------------------
(* The SPI and I2C drivers, which share nothing: each behaviour is one of   *)
(* them.                                                                    *)
EXTENDS Naturals

CONSTANTS SpiThreads, NoCaller, MaxLen, I2cThreads, NoI2c, MaxMsgs, MaxLoad, I2cMsgs

VARIABLES driver,
  withDma, spi, ctxLock, sync, flags, format, cs, job, spiOdd,
  i2cCall, i2cMutex, target, bus, i2cOdd

spiVars == <<withDma, spi, ctxLock, sync, flags, format, cs, job, spiOdd>>
i2cVars == <<i2cCall, i2cMutex, target, bus, i2cOdd>>

S == INSTANCE SpiXfer
I == INSTANCE I2cBus

(* No marker is a thread; the messages are ones the model can load.         *)
ASSUME SpiAssumption == NoCaller \notin SpiThreads /\ MaxLen \in Nat
ASSUME I2cAssumption ==
    NoI2c \notin I2cThreads /\ MaxMsgs \in Nat /\ MaxLoad \in Nat /\ I2cMsgs \subseteq I!Msg

Init == driver \in {"spi", "i2c"} /\ S!Init /\ I!Init /\ (withDma => driver = "spi")

Next ==
    /\ UNCHANGED driver
    /\ \/ driver = "spi" /\ S!Next /\ UNCHANGED i2cVars
       \/ driver = "i2c" /\ I!Next /\ UNCHANGED spiVars

Spec == Init /\ [][Next]_<<driver, spiVars, i2cVars>> /\ WF_i2cVars(I!Isr) /\ WF_i2cVars(I!Wire)
             /\ \A t \in I2cThreads : WF_i2cVars(I!Return(t))

(* The state of both drivers has its type.                                  *)
TypeOK == S!TypeOK /\ I!TypeOK
(* SpiXfer: what a transfer counts as done was on the wire, for its caller, *)
(* with one device selected in the format of the lock's holder.             *)
SpiTransferIsOwn == S!CountedIsTransferred /\ S!OneCallerOneDevice
(* I2cBus: a transfer that returns 0 moved its own messages, and the bus    *)
(* mutex is held inside a transfer only.                                    *)
I2cResultIsOwn == I!I2cResultIsOwn /\ I!I2cMutexIsReturned
(* I2cBus: a transfer returns.                                              *)
I2cReturns == I!I2cReturns
-------------------------------------------------------------------------------
(* Messages shorter than, equal to and longer than one load of the counter. *)
Put(n) == [dir |-> "write", len |-> n, restart |-> TRUE]
Get(n) == [Put(n) EXCEPT !.dir = "read"]
SomeMsgs == {Put(0), Put(1), [Put(3) EXCEPT !.restart = FALSE], Get(2), Get(3)}
===============================================================================
