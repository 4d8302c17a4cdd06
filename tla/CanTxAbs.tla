------------------------------- MODULE CanTxAbs -------------------------------
(***************************************************************************)
(* What the CAN transmit service promises, whatever its threads, semaphores *)
(* and interrupts look like: the controller holds one request at a time, a  *)
(* request is told to its submitter at most once and only after the whole   *)
(* of it went over the bus.                                                 *)
(***************************************************************************)
CONSTANTS Requests,   \* every send or batch that may be asked for
          NoReq       \* "the controller holds nothing"

VARIABLES wire,   \* the request the controller holds, or NoReq
          done,   \* the requests whose frames were all transmitted
          told    \* the requests whose submitter has learnt that

absVars == <<wire, done, told>>

AbsInit == wire = NoReq /\ done = {} /\ told = {}

Load(r) ==      \* a request is never loaded again, nor over another one
    /\ wire = NoReq
    /\ r \notin done
    /\ wire' = r
    /\ UNCHANGED <<done, told>>

Complete(r) ==
    /\ wire = r
    /\ r \notin done
    /\ done' = done \cup {r}
    /\ UNCHANGED <<wire, told>>

Release(r) ==   \* the controller is free again; a callback is told at once
    /\ wire = r
    /\ r \in done
    /\ wire' = NoReq
    /\ told' \in {told, told \cup {r}}
    /\ r \notin told
    /\ UNCHANGED done

Tell(r) ==      \* a blocking sender returns
    /\ r \in done \ told
    /\ told' = told \cup {r}
    /\ UNCHANGED <<wire, done>>

Drop(r) ==      \* the controller was re-initialised under the request
    /\ wire = r
    /\ wire' = NoReq
    /\ UNCHANGED <<done, told>>

AbsNext == \E r \in Requests : Load(r) \/ Complete(r) \/ Release(r) \/ Tell(r) \/ Drop(r)

AbsSpec == AbsInit /\ [][AbsNext]_absVars
===============================================================================
