------------------------------ MODULE TaskPool ------------------------------
(***************************************************************************)
(* What hps_Scheduler promises its users, with no thread, fiber or list in *)
(* sight: a pool that runs every submitted job once, at most Capacity at a *)
(* time, lets a job give way or wait, and closes only when it is drained.  *)
(***************************************************************************)
EXTENDS Integers, FiniteSets

CONSTANTS Jobs, Capacity

VARIABLES status, phase

poolVars == <<status, phase>>

InStatus(s) == {j \in Jobs : status[j] = s}

PoolTypeOK ==
  /\ status \in [Jobs -> {"fresh", "queued", "running", "parked", "woken", "done"}]
  /\ phase \in {"down", "up", "draining"}

Init == /\ status = [j \in Jobs |-> "fresh"]
        /\ phase = "down"

\* schedule(): while stop() is at work only a running job can submit another
Submit(S) ==
  /\ S # {} /\ S \subseteq InStatus("fresh")
  /\ phase = "draining" => InStatus("running") # {}
  /\ status' = [j \in Jobs |-> IF j \in S THEN "queued" ELSE status[j]]
  /\ UNCHANGED phase

Move(j, from, to) ==
  /\ status[j] = from
  /\ status' = [status EXCEPT ![j] = to]
  /\ UNCHANGED phase

\* A thread takes the job, new or resumed
Begin(j) ==
  /\ phase # "down"
  /\ Cardinality(InStatus("running")) < Capacity
  /\ Move(j, "queued", "running") \/ Move(j, "woken", "running")

\* The job gives way, waits to be resumed, is resumed, ends
Yield(j)  == Move(j, "running", "queued")
Park(j)   == Move(j, "running", "parked")
Wake(j)   == Move(j, "parked", "woken")
Finish(j) == Move(j, "running", "done")

Open  == phase = "down" /\ phase' = "up" /\ UNCHANGED status
Drain == phase = "up" /\ phase' = "draining" /\ UNCHANGED status

\* stop() returns: a job that waits, or was resumed too late, may be left
Close ==
  /\ phase = "draining"
  /\ InStatus("queued") \cup InStatus("running") = {}
  /\ phase' = "down" /\ UNCHANGED status

Next ==
  \/ \E S \in SUBSET Jobs : Submit(S)
  \/ \E j \in Jobs : Begin(j) \/ Yield(j) \/ Park(j) \/ Wake(j) \/ Finish(j)
  \/ Open \/ Drain \/ Close

Spec == Init /\ [][Next]_poolVars
=============================================================================
