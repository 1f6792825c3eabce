----------------------------- MODULE ThreadRunner -----------------------------
(***************************************************************************)
(* ThreadRunner<T, exec> of the master (sm-miner-master/src/sys): start,   *)
(* cancel(true) and join, called by one thread (the main thread, through   *)
(* StratumPool::doStart and doStop), against threads that run exec() and   *)
(* may return from it by themselves, as netHandler does when it gives up.  *)
(*                                                                         *)
(* m_threadId is read and written without a lock.  The value that stands   *)
(* for "no thread" is the id of the thread that built the object: Main.    *)
(***************************************************************************)
EXTENDS Naturals, FiniteSets

CONSTANTS
  Main,          \* m_invalidId: the main thread's own id
  MaxThreads     \* bound of the model: threads created in a behaviour

ASSUME ThreadAssumption == MaxThreads \in Nat /\ Main \notin 1 .. MaxThreads

VARIABLES
  main,             \* where the main thread is: see MainPlaces
  threadId,         \* m_threadId
  cancelRequested,  \* m_cancelRequsted
  created,          \* number of threads created so far: the ids are 1, 2, ...
  worker,           \* where each thread is: see WorkerPlaces
  cancelled,        \* threads pthread_cancel was called on
  joined,           \* the thread pthread_join waits for
  stopped           \* doStop has returned and start was not called since

vars == <<main, threadId, cancelRequested, created, worker, cancelled, joined, stopped>>

Threads == 1 .. MaxThreads

\* start:  "startJoin"     the test of join() found a thread running
\*         "joining"       inside pthread_join, called by start
\*         "starting"      has m_startWaitMutex, about to test isRunning()
\*         "waiting"       inside pthread_cond_wait;  "woken"  about to leave it
\* doStop: "cancelling"    the test of cancel() found a thread running
\*         "forcing"       the flag is set, about to call pthread_cancel
\*         "stopJoin"      about to test isRunning() in join()
\*         "stopCalling"   that test found a thread;  "stopJoining" in pthread_join
MainPlaces == {"idle", "startJoin", "joining", "starting", "waiting", "woken",
               "cancelling", "forcing", "stopJoin", "stopCalling", "stopJoining", "dead"}

\* "leaving": exec() is over, by return or by unwinding, the id is still stored.
WorkerPlaces == {"none", "created", "locking", "exec", "leaving", "ended"}

isRunning == threadId # Main

Alive(t) == worker[t] \in {"created", "locking", "exec"}

-----------------------------------------------------------------------------
(* start *)

\* Mutant of Start: no join at the beginning.
StartWithoutJoin ==
  /\ main = "idle"
  /\ created < MaxThreads
  /\ stopped' = FALSE
  /\ main' = "starting"
  /\ cancelRequested' = FALSE
  /\ created' = created + 1
  /\ worker' = [worker EXCEPT ![created + 1] = "created"]
  /\ UNCHANGED <<threadId, cancelled, joined>>

\* The flag is reset and the thread created, with m_startWaitMutex taken; or
\* pthread_create fails and start throws.
CreateThread ==
  /\ cancelRequested' = FALSE
  /\ \/ /\ main' = "starting"
        /\ created' = created + 1
        /\ worker' = [worker EXCEPT ![created + 1] = "created"]
     \/ /\ main' = "idle"
        /\ UNCHANGED <<created, worker>>

\* start(), its join() included as far as the first test.
Start ==
  /\ main = "idle"
  /\ created < MaxThreads
  /\ stopped' = FALSE
  /\ IF isRunning
     THEN main' = "startJoin" /\ UNCHANGED <<cancelRequested, created, worker>>
     ELSE CreateThread
  /\ UNCHANGED <<threadId, cancelled, joined>>

\* The other tests of join(): the id may be gone by now; the main thread's own id
\* is no thread to wait for.
StartJoin ==
  /\ main = "startJoin"
  /\ IF isRunning
     THEN main' = "joining" /\ joined' = threadId
          /\ UNCHANGED <<cancelRequested, created, worker>>
     ELSE CreateThread /\ UNCHANGED joined
  /\ UNCHANGED <<threadId, cancelled, stopped>>

StartJoined ==
  /\ main = "joining"
  /\ worker[joined] = "ended"
  /\ CreateThread
  /\ UNCHANGED <<threadId, cancelled, joined, stopped>>

\* Mutant of CheckStarted: start does not wait.
StartDoesNotWait ==
  /\ main = "starting"
  /\ main' = "idle"
  /\ UNCHANGED <<threadId, cancelRequested, created, worker, cancelled, joined, stopped>>

\* "while (!isRunning()) wait": waiting gives the mutex back.
CheckStarted ==
  /\ main = "starting"
  /\ main' = IF isRunning THEN "idle" ELSE "waiting"
  /\ UNCHANGED <<threadId, cancelRequested, created, worker, cancelled, joined, stopped>>

\* pthread_cond_wait takes the mutex again and returns.
WaitReturns ==
  /\ main = "woken"
  /\ main' = "starting"
  /\ UNCHANGED <<threadId, cancelRequested, created, worker, cancelled, joined, stopped>>

-----------------------------------------------------------------------------
(* doStop: cancel(true), then join(). *)

Stop ==
  /\ main = "idle"
  /\ main' = IF isRunning THEN "cancelling" ELSE "stopJoin"
  /\ UNCHANGED <<threadId, cancelRequested, created, worker, cancelled, joined, stopped>>

SetCancelFlag ==
  /\ main = "cancelling"
  /\ main' = "forcing"
  /\ cancelRequested' = TRUE
  /\ UNCHANGED <<threadId, created, worker, cancelled, joined, stopped>>

\* Mutant of ForceCancel: the flag is all there is.
CancelByFlag ==
  /\ main = "forcing"
  /\ main' = "stopJoin"
  /\ UNCHANGED <<threadId, cancelRequested, created, worker, cancelled, joined, stopped>>

\* pthread_cancel(m_threadId), whatever the id is by now.
ForceCancel ==
  /\ main = "forcing"
  /\ main' = "stopJoin"
  /\ cancelled' = cancelled \cup {threadId}
  /\ UNCHANGED <<threadId, cancelRequested, created, worker, joined, stopped>>

\* Mutant of StopJoin: doStop returns without a join.
StopWithoutJoin ==
  /\ main = "stopJoin"
  /\ main' = "idle"
  /\ stopped' = TRUE
  /\ UNCHANGED <<threadId, cancelRequested, created, worker, cancelled, joined>>

StopJoin ==
  /\ main = "stopJoin"
  /\ IF isRunning
     THEN main' = "stopCalling" /\ UNCHANGED stopped
     ELSE main' = "idle" /\ stopped' = TRUE
  /\ UNCHANGED <<threadId, cancelRequested, created, worker, cancelled, joined>>

\* The other tests of join(); m_threadId is read once more for pthread_join, which
\* refuses the main thread's own id.
StopCallsJoin ==
  /\ main = "stopCalling"
  /\ IF isRunning
     THEN main' = "stopJoining" /\ joined' = threadId /\ UNCHANGED stopped
     ELSE main' = "idle" /\ stopped' = TRUE /\ UNCHANGED joined
  /\ UNCHANGED <<threadId, cancelRequested, created, worker, cancelled>>

StopJoined ==
  /\ main = "stopJoining"
  /\ worker[joined] = "ended"
  /\ main' = "idle"
  /\ stopped' = TRUE
  /\ UNCHANGED <<threadId, cancelRequested, created, worker, cancelled, joined>>

\* A cancelled main thread ends at its next cancellation point: a wait, a join, or
\* any call of its loop.
MainDies ==
  /\ Main \in cancelled
  /\ main \in {"idle", "waiting", "joining", "stopJoining"}
  /\ main' = "dead"
  /\ UNCHANGED <<threadId, cancelRequested, created, worker, cancelled, joined, stopped>>

-----------------------------------------------------------------------------
(* threadRoutine *)

StoreId(t) ==
  /\ worker[t] = "created"
  /\ worker' = [worker EXCEPT ![t] = "locking"]
  /\ threadId' = t
  /\ UNCHANGED <<main, cancelRequested, created, cancelled, joined, stopped>>

\* Lock, signal, unlock: the mutex is taken only while the main thread is "starting".
Signal(t) ==
  /\ worker[t] = "locking"
  /\ main # "starting"
  /\ worker' = [worker EXCEPT ![t] = "exec"]
  /\ main' = IF main = "waiting" THEN "woken" ELSE main
  /\ UNCHANGED <<threadId, cancelRequested, created, cancelled, joined, stopped>>

\* exec() returns of its own accord, having seen the cancel flag or not.
Return(t) ==
  /\ worker[t] = "exec"
  /\ worker' = [worker EXCEPT ![t] = "leaving"]
  /\ UNCHANGED <<main, threadId, cancelRequested, created, cancelled, joined, stopped>>

\* A forced unwind out of exec(), at one of its cancellation points.
Unwind(t) ==
  /\ worker[t] = "exec"
  /\ t \in cancelled
  /\ worker' = [worker EXCEPT ![t] = "leaving"]
  /\ UNCHANGED <<main, threadId, cancelRequested, created, cancelled, joined, stopped>>

ResetId(t) ==
  /\ worker[t] = "leaving"
  /\ worker' = [worker EXCEPT ![t] = "ended"]
  /\ threadId' = Main
  /\ UNCHANGED <<main, cancelRequested, created, cancelled, joined, stopped>>

-----------------------------------------------------------------------------

Init ==
  /\ main = "idle"
  /\ threadId = Main
  /\ cancelRequested = FALSE
  /\ created = 0
  /\ worker = [t \in Threads |-> "none"]
  /\ cancelled = {}
  /\ joined = Main
  /\ stopped = FALSE

StartSteps == StartJoin \/ StartJoined \/ CheckStarted \/ WaitReturns
StopSteps == SetCancelFlag \/ ForceCancel \/ StopJoin \/ StopCallsJoin \/ StopJoined
Running(t) == StoreId(t) \/ Signal(t) \/ Unwind(t) \/ ResetId(t)

Next ==
  \/ Start \/ StartSteps
  \/ Stop \/ StopSteps
  \/ MainDies
  \/ \E t \in Threads : Running(t) \/ Return(t)

Spec == Init /\ [][Next]_vars

\* Threads are scheduled, and a cancelled thread meets a cancellation point in exec().
\* Nothing makes exec() return by itself, or the main thread start or stop.
FairSpec ==
  /\ Spec
  /\ WF_vars(StartSteps) /\ WF_vars(StopSteps)
  /\ \A t \in Threads : WF_vars(Running(t))

-----------------------------------------------------------------------------
(* Properties. *)

\* The range of every variable; what pthread_join waits for is never the caller.
TypeOK ==
  /\ main \in MainPlaces
  /\ threadId \in Threads \cup {Main}
  /\ cancelRequested \in BOOLEAN
  /\ created \in 0 .. MaxThreads
  /\ worker \in [Threads -> WorkerPlaces]
  /\ cancelled \subseteq Threads \cup {Main}
  /\ joined \in Threads \cup {Main}
  /\ main \in {"joining", "stopJoining"} => joined \in Threads
  /\ stopped \in BOOLEAN

\* No two threads run the worker, however starts, stops and returns are mixed: a
\* restart waits for the previous thread (start, join).
AtMostOneWorker == \A t, u \in Threads : Alive(t) /\ Alive(u) => t = u

\* After doStop has returned and until the next start no thread runs the worker,
\* although the thread may have been ending by itself meanwhile (cancel, join).
StopMeansStopped == stopped => \A t \in Threads : ~Alive(t)

\* A thread that was created can be stopped: while it runs and the main thread is
\* not starting it, its id is the stored one (start, threadRoutine).
RunningIsKnown ==
  \A t \in Threads :
    Alive(t) /\ main \notin {"starting", "waiting", "woken", "dead"} => threadId = t

\* doStop returns: the join in it does not wait for ever (doStop).
StopReturns ==
  main \in {"cancelling", "forcing", "stopJoin", "stopCalling", "stopJoining"}
    ~> main \in {"idle", "dead"}

\* "Wait until the spawned thread is started": start returns once the thread
\* was created and scheduled (start).
StartReturns == main = "starting" ~> main = "idle"
=============================================================================
