------------------------------ MODULE RingQueue ------------------------------
(***************************************************************************)
(* The ring buffer of the master (sm-miner-master/src/base/RingQueue.h),   *)
(* which holds the jobs and the shares of StratumPool.  Its users lock a   *)
(* mutex around every call, so a call is one step.                         *)
(***************************************************************************)
EXTENDS Naturals, Sequences

CONSTANTS
  Elements,     \* values users store
  Capacity,     \* CAPACITY
  Blank,        \* the value of a default-constructed T
  Nothing       \* no element was delivered yet

ASSUME RingAssumption ==
  /\ Capacity \in Nat \ {0}
  /\ Blank \notin Elements

VARIABLES elements, head, tail, size,     \* m_elements, m_head, m_tail, m_size
          taken                           \* what dequeue(T&) last stored in its argument

vars == <<elements, head, tail, size, taken>>

Indexes == 0 .. Capacity - 1

\* serialToIndex: the place of the element that is `serial' places behind the head.
SerialToIndex(h, serial) ==
  IF serial < Capacity - h THEN h + serial ELSE serial - (Capacity - h)

\* getTailIndex: the place of the last added element.
TailIndex(t) == (IF t > 0 THEN t ELSE Capacity) - 1

\* ++index, then 0 at the end of the array.
Forward(index) == IF index + 1 >= Capacity THEN 0 ELSE index + 1

Init ==
  /\ elements = [i \in Indexes |-> Blank]
  /\ head = 0 /\ tail = 0 /\ size = 0
  /\ taken = Nothing

\* Mutant of Enqueue: the head of a full queue stays where it is.
EnqueueKeepsHead(e) ==
  /\ tail' = Forward(tail)
  /\ IF size < Capacity THEN size' = size + 1 ELSE UNCHANGED size
  /\ elements' = [elements EXCEPT ![TailIndex(tail')] = e]
  /\ UNCHANGED <<head, taken>>

\* enqueue(element): the place found by enqueue() is assigned.
Enqueue(e) ==
  /\ tail' = Forward(tail)
  /\ IF size < Capacity
     THEN size' = size + 1 /\ UNCHANGED head
     ELSE head' = Forward(head) /\ UNCHANGED size
  /\ elements' = [elements EXCEPT ![TailIndex(tail')] = e]
  /\ UNCHANGED taken

\* dequeue(element): head() is delivered and removed.
Dequeue ==
  /\ size > 0
  /\ taken' = elements[head]
  /\ head' = Forward(head)
  /\ size' = size - 1
  /\ UNCHANGED <<elements, tail>>

\* Mutant of Pop: the wrap at the start of the array is forgotten.
PopNoWrap ==
  /\ size > 0
  /\ tail' = IF tail > 0 THEN tail - 1 ELSE 0
  /\ size' = size - 1
  /\ UNCHANGED <<elements, head, taken>>

Pop ==
  /\ size > 0
  /\ tail' = TailIndex(tail)
  /\ size' = size - 1
  /\ UNCHANGED <<elements, head, taken>>

Clear ==
  /\ head' = 0 /\ tail' = 0 /\ size' = 0
  /\ UNCHANGED <<elements, taken>>

Next == (\E e \in Elements : Enqueue(e)) \/ Dequeue \/ Pop \/ Clear

Spec == Init /\ [][Next]_vars

-----------------------------------------------------------------------------

\* operator[] for every serial number: what users see of a queue.
ContentsOf(els, h, n) == [i \in 1 .. n |-> els[SerialToIndex(h, i - 1)]]

Contents == ContentsOf(elements, head, size)

\* The head and tail indexes and the size agree although each is updated by rules
\* of its own, and tail() is the element behind size - 1 others (every operation).
IndexesCoherent ==
  /\ elements \in [Indexes -> Elements \cup {Blank}]
  /\ head \in Indexes /\ tail \in Indexes /\ size \in 0 .. Capacity
  /\ tail = (IF head + size < Capacity THEN head + size ELSE head + size - Capacity)
  /\ taken \in Elements \cup {Nothing}
  /\ \A i \in 1 .. size : Contents[i] \in Elements
  /\ size > 0 => elements[TailIndex(tail)] = Contents[size]

\* The ring buffer implements the bounded queue: what users see changes as they
\* expect, the element that is dropped or delivered is the oldest.
Bounded == INSTANCE BoundedQueue WITH queue <- Contents

ImplementsQueue == Bounded!Spec
=============================================================================
