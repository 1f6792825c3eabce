------------------------------ MODULE JobSource ------------------------------
(***************************************************************************)
(* What the slave gate of the master may rely on of its pool: StratumPool   *)
(* seen through getCurrentJob().  A job, once there, is replaced by one with *)
(* the next id or cleared away; no id is given out twice until the process  *)
(* restarts, when ids begin again and contents do not.                      *)
(***************************************************************************)
EXTENDS Naturals

CONSTANTS
  FirstId,        \* c_firstJobIdCounter
  NoJob           \* getCurrentJob returns false

VARIABLES
  job,            \* what getCurrentJob returns: [id, work] or NoJob
  jobIdCounter,   \* m_jobIdCounter, less c_firstJobIdCounter
  works           \* jobs received by all processes: numbers their contents

vars == <<job, jobIdCounter, works>>

Init == job = NoJob /\ jobIdCounter = 0 /\ works = 0

\* queueJob: a new job, with a new id.
NewJob ==
  /\ works' = works + 1
  /\ jobIdCounter' = jobIdCounter + 1
  /\ job' = [id |-> FirstId + jobIdCounter', work |-> works']

\* clearQueues, when the session with the pool ends.
JobsCleared ==
  /\ job # NoJob
  /\ job' = NoJob
  /\ UNCHANGED <<jobIdCounter, works>>

\* The process ends and starts again.
Restart == job' = NoJob /\ jobIdCounter' = 0 /\ UNCHANGED works

Next == NewJob \/ JobsCleared \/ Restart

Spec == Init /\ [][Next]_vars
=============================================================================
