---------------------------- MODULE BoundedQueue ----------------------------
(***************************************************************************)
(* What RingQueue promises its users: a first-in first-out queue that      *)
(* never holds more than Capacity elements and, when it is full, drops its *)
(* oldest element for a new one.                                           *)
(***************************************************************************)
EXTENDS Naturals, Sequences

CONSTANTS Elements, Capacity, Nothing

VARIABLES queue,
          taken       \* the element the last dequeue(T&) delivered

Init == queue = <<>> /\ taken = Nothing

Enqueue(e) ==
  /\ queue' = IF Len(queue) < Capacity THEN Append(queue, e) ELSE Append(Tail(queue), e)
  /\ UNCHANGED taken

Dequeue ==
  /\ queue # <<>>
  /\ queue' = Tail(queue)
  /\ taken' = Head(queue)

Pop ==
  /\ queue # <<>>
  /\ queue' = SubSeq(queue, 1, Len(queue) - 1)
  /\ UNCHANGED taken

Clear == queue' = <<>> /\ UNCHANGED taken

Next == (\E e \in Elements : Enqueue(e)) \/ Dequeue \/ Pop \/ Clear

Spec == Init /\ [][Next]_<<queue, taken>>
=============================================================================
