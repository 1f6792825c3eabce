-------------------------- MODULE ThreadRunnerProofs --------------------------
(* Mutual exclusion and the effect of a stop, for any number of threads. *)
EXTENDS ThreadRunner, TLAPS

\* A thread whose exec() or whose last write to the object is still to come.
Active(t) == worker[t] \in {"created", "locking", "exec", "leaving"}

\* The stored id is that of the thread past its first write and before its last.
IdStored ==
  /\ \A t \in Threads : worker[t] \in {"locking", "exec", "leaving"} => threadId = t
  /\ threadId \in Threads => worker[threadId] \in {"locking", "exec", "leaving"}

\* A thread before its first write is being waited for, or the waiter is gone.
CreatedIsAwaited ==
  \A t \in Threads : worker[t] = "created" => main \in {"starting", "waiting", "dead"}

OneActive == \A t, u \in Threads : Active(t) /\ Active(u) => t = u

\* While the main thread joins, only the thread it waits for can be active.
JoinsTheActive ==
  main \in {"joining", "stopJoining"} =>
    joined \in Threads /\ \A t \in Threads : Active(t) => t = joined

StoppedIsInactive ==
  stopped => /\ \A t \in Threads : ~Active(t)
             /\ main \notin {"startJoin", "joining", "starting", "waiting", "woken"}

\* A thread that waits behind pthread_create is in the places created so far.
NotYetCreated == \A t \in Threads : t > created => worker[t] = "none"

RoomToCreate == main \in {"startJoin", "joining"} => created < MaxThreads

IInv ==
  /\ TypeOK /\ NotYetCreated /\ RoomToCreate
  /\ IdStored /\ CreatedIsAwaited /\ OneActive /\ JoinsTheActive /\ StoppedIsInactive

-----------------------------------------------------------------------------

LEMMA InitIInv == Init => IInv
<1> SUFFICES ASSUME Init PROVE IInv  OBVIOUS
<1>1. TypeOK
  <2>1. main \in MainPlaces /\ threadId \in Threads \cup {Main} /\ joined \in Threads \cup {Main}
    BY DEF Init, MainPlaces
  <2>2. cancelRequested \in BOOLEAN /\ stopped \in BOOLEAN
    BY Zenon DEF Init
  <2>3. created \in 0 .. MaxThreads /\ cancelled \subseteq Threads \cup {Main}
    BY ThreadAssumption DEF Init
  <2>4. worker \in [Threads -> WorkerPlaces]
    BY DEF Init, WorkerPlaces
  <2>5. main \notin {"joining", "stopJoining"}
    BY DEF Init
  <2> QED  BY <2>1, <2>2, <2>3, <2>4, <2>5 DEF TypeOK
<1>2. NotYetCreated /\ RoomToCreate /\ IdStored /\ CreatedIsAwaited
  BY ThreadAssumption DEF Init, NotYetCreated, RoomToCreate, IdStored, CreatedIsAwaited, Threads
<1>3. OneActive /\ JoinsTheActive
  BY DEF Init, OneActive, JoinsTheActive, Active
<1>4. StoppedIsInactive
  BY Zenon DEF Init, StoppedIsInactive
<1> QED  BY <1>1, <1>2, <1>3, <1>4 DEF IInv

\* Creating a thread, from any of the places the code does it: nothing is active.
LEMMA CreateKeeps ==
  ASSUME IInv, CreateThread, created < MaxThreads, stopped' = FALSE,
         \A t \in Threads : ~Active(t),
         UNCHANGED <<threadId, cancelled>>, joined' \in Threads \cup {Main}
  PROVE  IInv'
<1> USE ThreadAssumption
<1>1. CASE UNCHANGED <<created, worker>> /\ main' = "idle"
  <2>1. TypeOK'
    BY <1>1 DEF CreateThread, IInv, TypeOK, MainPlaces
  <2>2. NotYetCreated' /\ RoomToCreate' /\ IdStored' /\ CreatedIsAwaited'
    BY <1>1 DEF IInv, NotYetCreated, RoomToCreate, IdStored, CreatedIsAwaited, Active
  <2>3. OneActive' /\ JoinsTheActive'
    BY <1>1 DEF IInv, OneActive, JoinsTheActive, Active
  <2>4. StoppedIsInactive'
    BY Zenon DEF StoppedIsInactive
  <2> QED  BY <2>1, <2>2, <2>3, <2>4 DEF IInv
<1>2. CASE main' = "starting" /\ created' = created + 1
           /\ worker' = [worker EXCEPT ![created + 1] = "created"]
  <2>1. created + 1 \in Threads /\ worker[created + 1] = "none"
    BY DEF IInv, TypeOK, NotYetCreated, Threads
  <2>2. TypeOK'
    <3>1. main' \in MainPlaces /\ created' \in 0 .. MaxThreads
      BY <1>2, <2>1 DEF MainPlaces, Threads
    <3>2. cancelRequested' \in BOOLEAN /\ stopped' \in BOOLEAN
      BY Zenon DEF CreateThread
    <3>3. worker' \in [Threads -> WorkerPlaces]
      BY <1>2 DEF IInv, TypeOK, WorkerPlaces
    <3> QED  BY <1>2, <3>1, <3>2, <3>3 DEF IInv, TypeOK
  <2>3. NotYetCreated' /\ RoomToCreate'
    BY <1>2, <2>1 DEF IInv, TypeOK, NotYetCreated, RoomToCreate, Threads
  <2>4. IdStored' /\ CreatedIsAwaited' /\ OneActive'
    BY <1>2, <2>1 DEF IInv, TypeOK, IdStored, CreatedIsAwaited, OneActive, Active
  <2>5. JoinsTheActive'
    BY <1>2 DEF JoinsTheActive
  <2>6. StoppedIsInactive'
    BY Zenon DEF StoppedIsInactive
  <2> QED  BY <2>2, <2>3, <2>4, <2>5, <2>6 DEF IInv
<1> QED  BY <1>1, <1>2 DEF CreateThread

\* A step of the main thread inside start that leaves the threads alone.
LEMMA StartKeeps ==
  ASSUME IInv, Start \/ StartSteps
  PROVE  IInv'
<1> USE ThreadAssumption
<1>1. CASE Start
  <2>1. CASE isRunning
    <3>1. /\ main = "idle" /\ main' = "startJoin" /\ stopped' = FALSE /\ created < MaxThreads
          /\ UNCHANGED <<threadId, cancelRequested, created, worker, cancelled, joined>>
      BY <1>1, <2>1 DEF Start
    <3>2. TypeOK' /\ NotYetCreated' /\ RoomToCreate' /\ IdStored'
      BY <3>1 DEF IInv, TypeOK, MainPlaces, NotYetCreated, RoomToCreate, IdStored
    <3>3. CreatedIsAwaited' /\ OneActive' /\ JoinsTheActive'
      BY <3>1 DEF IInv, CreatedIsAwaited, OneActive, JoinsTheActive, Active
    <3>4. StoppedIsInactive'
      BY <3>1, Zenon DEF StoppedIsInactive
    <3> QED  BY <3>2, <3>3, <3>4 DEF IInv
  <2>2. CASE ~isRunning
    <3>1. \A t \in Threads : ~Active(t)
      BY <1>1, <2>2 DEF Start, isRunning, IInv, IdStored, CreatedIsAwaited, Active, Threads
    <3> QED  BY <1>1, <2>2, <3>1, CreateKeeps DEF Start, IInv, TypeOK
  <2> QED  BY <2>1, <2>2
<1>2. CASE StartJoin
  <2>1. CASE isRunning
    <3>1. /\ main = "startJoin" /\ main' = "joining" /\ joined' = threadId
          /\ joined' \in Threads
          /\ UNCHANGED <<threadId, cancelRequested, created, worker, cancelled, stopped>>
      BY <1>2, <2>1 DEF StartJoin, isRunning, IInv, TypeOK
    <3>2. TypeOK' /\ NotYetCreated' /\ RoomToCreate' /\ IdStored'
      BY <3>1 DEF IInv, TypeOK, MainPlaces, NotYetCreated, RoomToCreate, IdStored
    <3>3. CreatedIsAwaited' /\ OneActive' /\ JoinsTheActive'
      BY <3>1 DEF IInv, IdStored, CreatedIsAwaited, OneActive, JoinsTheActive, Active
    <3>4. StoppedIsInactive'
      BY <3>1 DEF IInv, StoppedIsInactive
    <3> QED  BY <3>2, <3>3, <3>4 DEF IInv
  <2>2. CASE ~isRunning
    <3>1. \A t \in Threads : ~Active(t)
      BY <1>2, <2>2 DEF StartJoin, isRunning, IInv, IdStored, CreatedIsAwaited, Active, Threads
    <3>2. stopped' = FALSE
      BY <1>2 DEF StartJoin, IInv, TypeOK, StoppedIsInactive
    <3> QED  BY <1>2, <2>2, <3>1, <3>2, CreateKeeps DEF StartJoin, IInv, TypeOK, RoomToCreate
  <2> QED  BY <2>1, <2>2
<1>3. CASE StartJoined
  <2>1. \A t \in Threads : ~Active(t)
    BY <1>3 DEF StartJoined, IInv, JoinsTheActive, Active
  <2>2. stopped' = FALSE
    BY <1>3 DEF StartJoined, IInv, TypeOK, StoppedIsInactive
  <2> QED  BY <1>3, <2>1, <2>2, CreateKeeps DEF StartJoined, IInv, TypeOK, RoomToCreate
<1>4. CASE CheckStarted
  <2>1. main = "starting" /\ main' \in {"idle", "waiting"}
        /\ (main' = "idle" => threadId \in Threads)
        /\ UNCHANGED <<threadId, cancelRequested, created, worker, cancelled, joined, stopped>>
    BY <1>4 DEF CheckStarted, isRunning, IInv, TypeOK
  <2>2. TypeOK' /\ NotYetCreated' /\ RoomToCreate' /\ IdStored'
    BY <2>1 DEF IInv, TypeOK, MainPlaces, NotYetCreated, RoomToCreate, IdStored
  <2>3. CreatedIsAwaited'
    BY <2>1 DEF IInv, IdStored, CreatedIsAwaited, OneActive, Active
  <2>4. OneActive' /\ JoinsTheActive' /\ StoppedIsInactive'
    BY <2>1 DEF IInv, OneActive, JoinsTheActive, StoppedIsInactive, Active
  <2> QED  BY <2>2, <2>3, <2>4 DEF IInv
<1>5. CASE WaitReturns
  BY <1>5 DEF WaitReturns, IInv, TypeOK, MainPlaces, NotYetCreated, RoomToCreate, IdStored,
     CreatedIsAwaited, OneActive, JoinsTheActive, StoppedIsInactive, Active
<1> QED  BY <1>1, <1>2, <1>3, <1>4, <1>5 DEF StartSteps

\* The end of doStop: no thread is active.
LEMMA StopEndKeeps ==
  ASSUME IInv, main' = "idle", stopped' = TRUE, \A t \in Threads : ~Active(t),
         UNCHANGED <<threadId, cancelRequested, created, worker, cancelled, joined>>
  PROVE  IInv'
<1>1. TypeOK'
  <2>1. stopped' \in BOOLEAN  BY Zenon
  <2> QED  BY <2>1 DEF IInv, TypeOK, MainPlaces
<1>2. NotYetCreated' /\ RoomToCreate' /\ IdStored' /\ CreatedIsAwaited'
  BY DEF IInv, NotYetCreated, RoomToCreate, IdStored, CreatedIsAwaited, Active
<1>3. OneActive' /\ JoinsTheActive' /\ StoppedIsInactive'
  BY DEF IInv, OneActive, JoinsTheActive, StoppedIsInactive, Active
<1> QED  BY <1>1, <1>2, <1>3 DEF IInv

\* doStop and the death of a cancelled main thread.
LEMMA StopKeeps ==
  ASSUME IInv, Stop \/ StopSteps \/ MainDies
  PROVE  IInv'
<1> USE ThreadAssumption
<1>1. CASE Stop
  BY <1>1 DEF Stop, IInv, TypeOK, MainPlaces, NotYetCreated, RoomToCreate, IdStored,
     CreatedIsAwaited, OneActive, JoinsTheActive, StoppedIsInactive, Active
<1>2. CASE SetCancelFlag
  <2>1. cancelRequested' \in BOOLEAN  BY <1>2, Zenon DEF SetCancelFlag
  <2> QED  BY <1>2, <2>1 DEF SetCancelFlag, IInv, TypeOK, MainPlaces, NotYetCreated, RoomToCreate, IdStored,
     CreatedIsAwaited, OneActive, JoinsTheActive, StoppedIsInactive, Active
<1>3. CASE ForceCancel
  BY <1>3 DEF ForceCancel, IInv, TypeOK, MainPlaces, NotYetCreated, RoomToCreate, IdStored,
     CreatedIsAwaited, OneActive, JoinsTheActive, StoppedIsInactive, Active
<1>4. CASE StopJoin
  <2>1. CASE isRunning
    BY <1>4, <2>1 DEF StopJoin, IInv, TypeOK, MainPlaces, NotYetCreated, RoomToCreate, IdStored,
     CreatedIsAwaited, OneActive, JoinsTheActive, StoppedIsInactive, Active
  <2>2. CASE ~isRunning
    <3>1. \A t \in Threads : ~Active(t)
      BY <1>4, <2>2 DEF StopJoin, isRunning, IInv, IdStored, CreatedIsAwaited, Active, Threads
    <3> QED  BY <1>4, <2>2, <3>1, StopEndKeeps DEF StopJoin
  <2> QED  BY <2>1, <2>2
<1>5. CASE StopCallsJoin
  <2>1. CASE isRunning
    BY <1>5, <2>1 DEF StopCallsJoin, isRunning, IInv, TypeOK, MainPlaces, NotYetCreated, RoomToCreate, IdStored,
     CreatedIsAwaited, OneActive, JoinsTheActive, StoppedIsInactive, Active
  <2>2. CASE ~isRunning
    <3>1. \A t \in Threads : ~Active(t)
      BY <1>5, <2>2 DEF StopCallsJoin, isRunning, IInv, IdStored, CreatedIsAwaited, Active, Threads
    <3> QED  BY <1>5, <2>2, <3>1, StopEndKeeps DEF StopCallsJoin
  <2> QED  BY <2>1, <2>2
<1>6. CASE StopJoined
  <2>1. \A t \in Threads : ~Active(t)
    BY <1>6 DEF StopJoined, IInv, JoinsTheActive, Active
  <2> QED  BY <1>6, <2>1, StopEndKeeps DEF StopJoined
<1>7. CASE MainDies
  BY <1>7 DEF MainDies, IInv, TypeOK, MainPlaces, NotYetCreated, RoomToCreate, IdStored,
     CreatedIsAwaited, OneActive, JoinsTheActive, StoppedIsInactive, Active
<1> QED  BY <1>1, <1>2, <1>3, <1>4, <1>5, <1>6, <1>7 DEF StopSteps

\* A step of a thread.
LEMMA ThreadKeeps ==
  ASSUME IInv, NEW t \in Threads, Running(t) \/ Return(t)
  PROVE  IInv'
<1> USE ThreadAssumption
<1>1. CASE StoreId(t)
  <2>1. TypeOK' /\ NotYetCreated' /\ RoomToCreate'
    BY <1>1 DEF StoreId, IInv, TypeOK, NotYetCreated, RoomToCreate, WorkerPlaces, Threads
  <2>2. \A u \in Threads : u # t => ~Active(u)
    BY <1>1 DEF StoreId, IInv, OneActive, Active
  <2>3. IdStored' /\ CreatedIsAwaited'
    BY <1>1, <2>2 DEF StoreId, IInv, TypeOK, IdStored, CreatedIsAwaited, Active
  <2>4. OneActive' /\ JoinsTheActive' /\ StoppedIsInactive'
    BY <1>1, <2>2 DEF StoreId, IInv, TypeOK, OneActive, JoinsTheActive, StoppedIsInactive, Active
  <2> QED  BY <2>1, <2>3, <2>4 DEF IInv
<1>2. CASE Signal(t)
  <2>1. TypeOK' /\ NotYetCreated' /\ RoomToCreate'
    BY <1>2 DEF Signal, IInv, TypeOK, MainPlaces, NotYetCreated, RoomToCreate, WorkerPlaces, Threads
  <2>2. \A u \in Threads : u # t => ~Active(u)
    BY <1>2 DEF Signal, IInv, OneActive, Active
  <2>3. IdStored' /\ CreatedIsAwaited'
    BY <1>2, <2>2 DEF Signal, IInv, TypeOK, IdStored, CreatedIsAwaited, Active
  <2>4. OneActive' /\ JoinsTheActive' /\ StoppedIsInactive'
    BY <1>2, <2>2 DEF Signal, IInv, TypeOK, OneActive, JoinsTheActive, StoppedIsInactive, Active
  <2> QED  BY <2>1, <2>3, <2>4 DEF IInv
<1>3. CASE Unwind(t) \/ Return(t)
  <2>1. /\ worker[t] = "exec" /\ worker' = [worker EXCEPT ![t] = "leaving"]
        /\ UNCHANGED <<main, threadId, cancelRequested, created, cancelled, joined, stopped>>
    BY <1>3 DEF Unwind, Return
  <2>2. TypeOK' /\ NotYetCreated' /\ RoomToCreate'
    BY <2>1 DEF IInv, TypeOK, NotYetCreated, RoomToCreate, WorkerPlaces, Threads
  <2>3. IdStored' /\ CreatedIsAwaited'
    BY <2>1 DEF IInv, TypeOK, IdStored, CreatedIsAwaited
  <2>4. OneActive' /\ JoinsTheActive' /\ StoppedIsInactive'
    BY <2>1 DEF IInv, TypeOK, OneActive, JoinsTheActive, StoppedIsInactive, Active
  <2> QED  BY <2>2, <2>3, <2>4 DEF IInv
<1>4. CASE ResetId(t)
  <2>1. TypeOK' /\ NotYetCreated' /\ RoomToCreate'
    BY <1>4 DEF ResetId, IInv, TypeOK, NotYetCreated, RoomToCreate, WorkerPlaces, Threads
  <2>2. \A u \in Threads : u # t => ~Active(u)
    BY <1>4 DEF ResetId, IInv, OneActive, Active
  <2>3. IdStored' /\ CreatedIsAwaited'
    BY <1>4, <2>2 DEF ResetId, IInv, TypeOK, IdStored, CreatedIsAwaited, Active, Threads
  <2>4. OneActive' /\ JoinsTheActive' /\ StoppedIsInactive'
    BY <1>4, <2>2 DEF ResetId, IInv, TypeOK, OneActive, JoinsTheActive, StoppedIsInactive, Active
  <2> QED  BY <2>1, <2>3, <2>4 DEF IInv
<1> QED  BY <1>1, <1>2, <1>3, <1>4 DEF Running

LEMMA Inductive == Spec => []IInv
<1>1. IInv /\ UNCHANGED vars => IInv'
  BY DEF vars, IInv, TypeOK, MainPlaces, NotYetCreated, RoomToCreate, IdStored,
     CreatedIsAwaited, OneActive, JoinsTheActive, StoppedIsInactive, Active
<1>2. IInv /\ [Next]_vars => IInv'
  BY <1>1, StartKeeps, StopKeeps, ThreadKeeps DEF Next
<1> QED  BY InitIInv, <1>2, PTL DEF Spec

-----------------------------------------------------------------------------
(* The results. *)

\* Every variable has its type; a join never waits for the thread that called it
\* (ThreadRunner::join).
THEOREM AlwaysTyped == Spec => []TypeOK
<1>1. IInv => TypeOK
  BY DEF IInv
<1> QED  BY <1>1, Inductive, PTL

\* No two threads run the worker (ThreadRunner::start and join).
THEOREM OneWorker == Spec => []AtMostOneWorker
<1>1. IInv => AtMostOneWorker
  BY DEF IInv, OneActive, AtMostOneWorker, Active, Alive
<1> QED  BY <1>1, Inductive, PTL

\* After doStop no thread runs the worker (ThreadRunner::cancel and join).
THEOREM StoppedForGood == Spec => []StopMeansStopped
<1>1. IInv => StopMeansStopped
  BY DEF IInv, StoppedIsInactive, StopMeansStopped, Active, Alive
<1> QED  BY <1>1, Inductive, PTL

\* A running thread can be found by its stored id (ThreadRunner::threadRoutine).
THEOREM RunningThreadIsKnown == Spec => []RunningIsKnown
<1>1. IInv => RunningIsKnown
  BY DEF IInv, IdStored, CreatedIsAwaited, RunningIsKnown, Alive
<1> QED  BY <1>1, Inductive, PTL
=============================================================================
