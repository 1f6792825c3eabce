--------------------------- MODULE RingQueueProofs ---------------------------
(* The indexes of the ring buffer stay coherent, and it implements the bounded *)
(* queue, for every capacity and every set of elements.                       *)
EXTENDS RingQueue, SequenceTheorems, TLAPS

-----------------------------------------------------------------------------
(* The index arithmetic. *)

\* The place of an element lies in the array (serialToIndex).
LEMMA SerialInRange ==
  ASSUME NEW h \in Indexes, NEW s \in Indexes
  PROVE  SerialToIndex(h, s) \in Indexes
BY RingAssumption DEF Indexes, SerialToIndex

\* Moving an index forward and looking one place back are inverse (enqueue, tail).
LEMMA ForwardAndBack ==
  ASSUME NEW t \in Indexes
  PROVE  /\ Forward(t) \in Indexes
         /\ TailIndex(t) \in Indexes
         /\ TailIndex(Forward(t)) = t
BY RingAssumption DEF Indexes, Forward, TailIndex

\* Behind the next head every element is one place nearer (enqueue, dequeue).
LEMMA SerialFromNextHead ==
  ASSUME NEW h \in Indexes, NEW s \in Indexes, s + 1 \in Indexes
  PROVE  SerialToIndex(Forward(h), s) = SerialToIndex(h, s + 1)
BY RingAssumption DEF Indexes, Forward, SerialToIndex

\* Different serial numbers have different places.
LEMMA SerialInjective ==
  ASSUME NEW h \in Indexes, NEW s \in Indexes, NEW u \in Indexes, s # u
  PROVE  SerialToIndex(h, s) # SerialToIndex(h, u)
BY RingAssumption DEF Indexes, SerialToIndex

\* The place behind the last element is the tail, unless the queue is full; then it
\* is the head.
LEMMA TailPlace ==
  ASSUME IndexesCoherent
  PROVE  /\ size < Capacity => SerialToIndex(head, size) = tail
         /\ size = Capacity => tail = head
         /\ SerialToIndex(head, 0) = head
         /\ size > 0 => SerialToIndex(head, size - 1) = TailIndex(tail)
BY RingAssumption DEF IndexesCoherent, Indexes, SerialToIndex, TailIndex

\* A coherent ring buffer shows its users a sequence of length size.
LEMMA ContentsOfIsSeq ==
  ASSUME NEW els, NEW h, NEW n \in Nat,
         \A i \in 1 .. n : ContentsOf(els, h, n)[i] \in Elements
  PROVE  /\ ContentsOf(els, h, n) \in Seq(Elements)
         /\ Len(ContentsOf(els, h, n)) = n
BY DEF ContentsOf

LEMMA ContentsIsSeq ==
  ASSUME IndexesCoherent
  PROVE  Contents \in Seq(Elements) /\ Len(Contents) = size
BY RingAssumption, ContentsOfIsSeq DEF IndexesCoherent, Contents

LEMMA ContentsIsSeqNext ==
  ASSUME IndexesCoherent'
  PROVE  Contents' \in Seq(Elements) /\ Len(Contents') = size'
<1>1. size' \in Nat /\ \A i \in 1 .. size' : Contents'[i] \in Elements
  BY RingAssumption DEF IndexesCoherent
<1> QED  BY <1>1, ContentsOfIsSeq DEF Contents

-----------------------------------------------------------------------------
(* What every operation does to the contents. *)

\* enqueue keeps the indexes coherent and does what the bounded queue does.
LEMMA EnqueueStep ==
  ASSUME IndexesCoherent, NEW e \in Elements, Enqueue(e)
  PROVE  IndexesCoherent' /\ Bounded!Enqueue(e)
<1> USE RingAssumption
<1>1. elements' = [elements EXCEPT ![tail] = e] /\ tail' = Forward(tail) /\ tail' \in Indexes
  BY ForwardAndBack DEF Enqueue, IndexesCoherent
<1>2. CASE size < Capacity
  <2>1. size' = size + 1 /\ head' = head /\ size \in Nat
    BY <1>2 DEF Enqueue, IndexesCoherent
  <2>2. \A i \in 1 .. size : Contents'[i] = Contents[i]
    <3>1. SUFFICES ASSUME NEW i \in 1 .. size PROVE Contents'[i] = Contents[i]
      OBVIOUS
    <3>2. i - 1 \in Indexes /\ size \in Indexes /\ i - 1 # size /\ head \in Indexes
      BY <1>2, <2>1 DEF IndexesCoherent, Indexes
    <3>3. SerialToIndex(head, i - 1) # tail
      BY <3>2, SerialInjective, TailPlace, <1>2
    <3>4. SerialToIndex(head, i - 1) \in Indexes
      BY <3>2, SerialInRange
    <3>5. elements'[SerialToIndex(head, i - 1)] = elements[SerialToIndex(head, i - 1)]
      BY <1>1, <3>3, <3>4 DEF IndexesCoherent
    <3>6. i \in 1 .. size'  BY <2>1
    <3> QED  BY <2>1, <3>5, <3>6 DEF Contents, ContentsOf
  <2>3. Contents'[size + 1] = e
    <3>1. Contents'[size + 1] = elements'[SerialToIndex(head, size)]
      BY <2>1 DEF Contents, ContentsOf
    <3> QED  BY <3>1, <1>1, <1>2, TailPlace DEF IndexesCoherent
  <2>4. IndexesCoherent'
    <3>1. elements' \in [Indexes -> Elements \cup {Blank}] /\ taken' \in Elements \cup {Nothing}
      BY <1>1 DEF Enqueue, IndexesCoherent
    <3>2. head' \in Indexes /\ size' \in 0 .. Capacity
      BY <2>1, <1>2 DEF IndexesCoherent
    <3>3. tail' = (IF head + size' < Capacity THEN head + size' ELSE head + size' - Capacity)
      BY <1>1, <1>2, <2>1 DEF IndexesCoherent, Indexes, Forward
    <3>4. \A i \in 1 .. size' : Contents'[i] \in Elements
      BY <2>1, <2>2, <2>3 DEF IndexesCoherent
    <3>5. elements'[TailIndex(tail')] = Contents'[size']
      BY <1>1, <2>1, <2>3, ForwardAndBack DEF IndexesCoherent
    <3> QED  BY <1>1, <2>1, <3>1, <3>2, <3>3, <3>4, <3>5 DEF IndexesCoherent
  <2>5. Contents' = Append(Contents, e)
    <3>1. Contents' \in Seq(Elements) /\ Len(Contents') = size + 1
      BY <2>4, <2>1, ContentsIsSeqNext
    <3>2. /\ Contents \in Seq(Elements) /\ Len(Contents) = size
          /\ Append(Contents, e) \in Seq(Elements)
          /\ Len(Append(Contents, e)) = size + 1
          /\ \A i \in 1 .. size : Append(Contents, e)[i] = Contents[i]
          /\ Append(Contents, e)[size + 1] = e
      BY ContentsIsSeq, AppendProperties
    <3>3. \A i \in 1 .. size + 1 : Contents'[i] = Append(Contents, e)[i]
      BY <2>1, <2>2, <2>3, <3>2
    <3> QED  BY <3>1, <3>2, <3>3, SeqEqual
  <2> QED  BY <1>2, <2>4, <2>5, ContentsIsSeq DEF Bounded!Enqueue, Enqueue
<1>3. CASE size = Capacity
  <2>1. size' = size /\ head' = Forward(head) /\ head' \in Indexes /\ size \in Nat /\ tail = head
    BY <1>3, ForwardAndBack, TailPlace DEF Enqueue, IndexesCoherent
  <2>2. \A i \in 1 .. size - 1 : Contents'[i] = Contents[i + 1]
    <3>1. SUFFICES ASSUME NEW i \in 1 .. size - 1 PROVE Contents'[i] = Contents[i + 1]
      OBVIOUS
    <3>2. i - 1 \in Indexes /\ (i - 1) + 1 \in Indexes /\ 0 \in Indexes /\ head \in Indexes
          /\ (i - 1) + 1 = i /\ i # 0
      BY <1>3, <2>1 DEF IndexesCoherent, Indexes
    <3>3. SerialToIndex(head', i - 1) = SerialToIndex(head, i)
      BY <2>1, <3>2, SerialFromNextHead
    <3>4. SerialToIndex(head, i) # tail /\ SerialToIndex(head, i) \in Indexes
      BY <2>1, <3>2, SerialInjective, SerialInRange, TailPlace
    <3>5. elements'[SerialToIndex(head, i)] = elements[SerialToIndex(head, i)]
      BY <1>1, <3>4 DEF IndexesCoherent
    <3>6. i \in 1 .. size' /\ i + 1 \in 1 .. size /\ (i + 1) - 1 = i  BY <2>1
    <3> QED  BY <3>3, <3>5, <3>6 DEF Contents, ContentsOf
  <2>3. Contents'[size] = e
    <3>1. Contents'[size] = elements'[SerialToIndex(head', size - 1)]
      BY <2>1, <1>3 DEF Contents, ContentsOf
    <3>2. SerialToIndex(head', size - 1) = tail
      BY <2>1, <1>3 DEF SerialToIndex, Forward, IndexesCoherent, Indexes
    <3> QED  BY <3>1, <3>2, <1>1 DEF IndexesCoherent
  <2>4. IndexesCoherent'
    <3>1. elements' \in [Indexes -> Elements \cup {Blank}] /\ taken' \in Elements \cup {Nothing}
      BY <1>1 DEF Enqueue, IndexesCoherent
    <3>3. tail' = (IF head' + size < Capacity THEN head' + size ELSE head' + size - Capacity)
      BY <1>1, <1>3, <2>1 DEF IndexesCoherent, Indexes, Forward
    <3>4. \A i \in 1 .. size : Contents'[i] \in Elements
      <4>1. SUFFICES ASSUME NEW i \in 1 .. size PROVE Contents'[i] \in Elements
        OBVIOUS
      <4>2. CASE i = size  BY <4>2, <2>3
      <4>3. CASE i # size
        <5>1. i \in 1 .. size - 1 /\ i + 1 \in 1 .. size  BY <4>3, <2>1
        <5> QED  BY <5>1, <2>2 DEF IndexesCoherent
      <4> QED  BY <4>2, <4>3
    <3>5. elements'[TailIndex(tail')] = Contents'[size]
      BY <1>1, <2>3, ForwardAndBack DEF IndexesCoherent
    <3> QED  BY <1>1, <1>3, <2>1, <3>1, <3>3, <3>4, <3>5 DEF IndexesCoherent
  <2>5. Contents' = Append(Tail(Contents), e)
    <3>1. Contents' \in Seq(Elements) /\ Len(Contents') = size
      BY <2>4, <2>1, ContentsIsSeqNext
    <3>2. Contents \in Seq(Elements) /\ Len(Contents) = size /\ Contents # <<>>
      BY ContentsIsSeq, <1>3
    <3>3. /\ Tail(Contents) \in Seq(Elements) /\ Len(Tail(Contents)) = size - 1
          /\ \A i \in 1 .. size - 1 : Tail(Contents)[i] = Contents[i + 1]
      BY <3>2, HeadTailProperties
    <3>4. /\ Append(Tail(Contents), e) \in Seq(Elements)
          /\ Len(Append(Tail(Contents), e)) = size
          /\ \A i \in 1 .. size - 1 : Append(Tail(Contents), e)[i] = Contents[i + 1]
          /\ Append(Tail(Contents), e)[size] = e
      BY <3>3, <2>1, AppendProperties
    <3>5. \A i \in 1 .. size : Contents'[i] = Append(Tail(Contents), e)[i]
      BY <2>1, <2>2, <2>3, <3>4
    <3> QED  BY <3>1, <3>4, <3>5, SeqEqual
  <2> QED  BY <1>3, <2>4, <2>5, ContentsIsSeq DEF Bounded!Enqueue, Enqueue
<1> QED  BY <1>2, <1>3 DEF IndexesCoherent

\* dequeue keeps the indexes coherent and delivers and removes the oldest element.
LEMMA DequeueStep ==
  ASSUME IndexesCoherent, Dequeue
  PROVE  IndexesCoherent' /\ Bounded!Dequeue
<1> USE RingAssumption
<1>1. /\ size \in Nat \ {0} /\ size' = size - 1 /\ size' \in Nat
      /\ head' = Forward(head) /\ head \in Indexes /\ head' \in Indexes
      /\ elements' = elements /\ tail' = tail
  BY ForwardAndBack DEF Dequeue, IndexesCoherent
<1>2. \A i \in 1 .. size - 1 : Contents'[i] = Contents[i + 1]
  <2>1. SUFFICES ASSUME NEW i \in 1 .. size - 1 PROVE Contents'[i] = Contents[i + 1]
    OBVIOUS
  <2>2. i - 1 \in Indexes /\ (i - 1) + 1 \in Indexes /\ (i - 1) + 1 = i
    BY <1>1 DEF IndexesCoherent, Indexes
  <2>3. SerialToIndex(head', i - 1) = SerialToIndex(head, i)
    BY <1>1, <2>2, SerialFromNextHead
  <2>4. i \in 1 .. size' /\ i + 1 \in 1 .. size /\ (i + 1) - 1 = i  BY <1>1
  <2> QED  BY <1>1, <2>3, <2>4 DEF Contents, ContentsOf
<1>3. Contents[1] = elements[head] /\ Contents[1] \in Elements
  <2>1. 1 \in 1 .. size  BY <1>1
  <2> QED  BY <2>1, TailPlace DEF Contents, ContentsOf, IndexesCoherent
<1>4. IndexesCoherent'
  <2>1. taken' \in Elements \cup {Nothing}  BY <1>3 DEF Dequeue
  <2>2. size' \in 0 .. Capacity  BY <1>1 DEF IndexesCoherent
  <2>3. tail = (IF head' + size' < Capacity THEN head' + size' ELSE head' + size' - Capacity)
    BY <1>1 DEF IndexesCoherent, Indexes, Forward
  <2>4. \A i \in 1 .. size' : Contents'[i] \in Elements
    <3>1. \A i \in 1 .. size' : i + 1 \in 1 .. size /\ i \in 1 .. size - 1  BY <1>1
    <3> QED  BY <1>2, <3>1 DEF IndexesCoherent
  <2>5. ASSUME size' > 0 PROVE elements[TailIndex(tail)] = Contents'[size']
    <3>1. size' \in 1 .. size - 1 /\ size' + 1 = size  BY <1>1, <2>5
    <3> QED  BY <1>1, <1>2, <3>1 DEF IndexesCoherent
  <2> QED  BY <1>1, <2>1, <2>2, <2>3, <2>4, <2>5 DEF IndexesCoherent
<1>5. Contents \in Seq(Elements) /\ Len(Contents) = size /\ Contents # <<>>
  BY <1>1, ContentsIsSeq
<1>6. Contents' = Tail(Contents)
  <2>1. Contents' \in Seq(Elements) /\ Len(Contents') = size - 1
    BY <1>1, <1>4, ContentsIsSeqNext
  <2>2. /\ Tail(Contents) \in Seq(Elements) /\ Len(Tail(Contents)) = size - 1
        /\ \A i \in 1 .. size - 1 : Tail(Contents)[i] = Contents[i + 1]
    BY <1>5, HeadTailProperties
  <2> QED  BY <1>2, <2>1, <2>2, SeqEqual
<1>7. taken' = Head(Contents)
  BY <1>3, <1>5 DEF Dequeue
<1> QED  BY <1>4, <1>5, <1>6, <1>7 DEF Bounded!Dequeue

\* pop keeps the indexes coherent and removes the newest element.
LEMMA PopStep ==
  ASSUME IndexesCoherent, Pop
  PROVE  IndexesCoherent' /\ Bounded!Pop
<1> USE RingAssumption
<1>1. /\ size \in Nat \ {0} /\ size' = size - 1 /\ size' \in Nat
      /\ tail' = TailIndex(tail) /\ tail \in Indexes /\ tail' \in Indexes
      /\ elements' = elements /\ head' = head /\ taken' = taken
  BY ForwardAndBack DEF Pop, IndexesCoherent
<1>2. \A i \in 1 .. size - 1 : Contents'[i] = Contents[i]
  <2>1. \A i \in 1 .. size - 1 : i \in 1 .. size' /\ i \in 1 .. size  BY <1>1
  <2> QED  BY <1>1, <2>1 DEF Contents, ContentsOf
<1>3. IndexesCoherent'
  <2>1. size' \in 0 .. Capacity  BY <1>1 DEF IndexesCoherent
  <2>2. tail' = (IF head + size' < Capacity THEN head + size' ELSE head + size' - Capacity)
    BY <1>1 DEF IndexesCoherent, Indexes, TailIndex
  <2>3. \A i \in 1 .. size' : Contents'[i] \in Elements
    <3>1. \A i \in 1 .. size' : i \in 1 .. size /\ i \in 1 .. size - 1  BY <1>1
    <3> QED  BY <1>2, <3>1 DEF IndexesCoherent
  <2>4. ASSUME size' > 0 PROVE elements[TailIndex(tail')] = Contents'[size']
    <3>1. SerialToIndex(head, size' - 1) = TailIndex(tail')
      BY <1>1, <2>2, <2>4 DEF IndexesCoherent, Indexes, SerialToIndex, TailIndex
    <3>2. size' \in 1 .. size'  BY <1>1, <2>4
    <3> QED  BY <1>1, <3>1, <3>2 DEF Contents, ContentsOf
  <2> QED  BY <1>1, <2>1, <2>2, <2>3, <2>4 DEF IndexesCoherent
<1>4. Contents \in Seq(Elements) /\ Len(Contents) = size /\ Contents # <<>>
  BY <1>1, ContentsIsSeq
<1>5. Contents' = SubSeq(Contents, 1, Len(Contents) - 1)
  <2>1. Contents' \in Seq(Elements) /\ Len(Contents') = size - 1
    BY <1>1, <1>3, ContentsIsSeqNext
  <2>2. \A i \in 1 .. size - 1 : Contents[i] \in Elements
    BY <1>1 DEF IndexesCoherent
  <2>3. /\ SubSeq(Contents, 1, size - 1) \in Seq(Elements)
        /\ Len(SubSeq(Contents, 1, size - 1)) = size - 1
        /\ \A i \in 1 .. size - 1 : SubSeq(Contents, 1, size - 1)[i] = Contents[i]
    BY <1>1, <2>2, SubSeqProperties
  <2> QED  BY <1>2, <1>4, <2>1, <2>3, SeqEqual
<1> QED  BY <1>1, <1>3, <1>4, <1>5 DEF Bounded!Pop

\* clear keeps the indexes coherent and leaves nothing.
LEMMA ClearStep ==
  ASSUME IndexesCoherent, Clear
  PROVE  IndexesCoherent' /\ Bounded!Clear
<1>1. IndexesCoherent'
  BY RingAssumption DEF Clear, IndexesCoherent, Indexes
<1>2. Contents' \in Seq(Elements) /\ Len(Contents') = 0
  BY <1>1, ContentsIsSeqNext DEF Clear
<1>3. Contents' = <<>>
  BY <1>2
<1> QED  BY <1>1, <1>3 DEF Clear, Bounded!Clear

-----------------------------------------------------------------------------
(* The two results. *)

LEMMA InitCoherent ==
  ASSUME Init
  PROVE  IndexesCoherent /\ Bounded!Init
<1>1. IndexesCoherent
  BY RingAssumption DEF Init, IndexesCoherent, Indexes
<1>2. Contents = <<>>
  BY <1>1, ContentsIsSeq DEF Init
<1> QED  BY <1>1, <1>2 DEF Init, Bounded!Init

LEMMA NextCoherent ==
  ASSUME IndexesCoherent, [Next]_vars
  PROVE  IndexesCoherent' /\ [Bounded!Next]_<<Contents, taken>>
<1>1. ASSUME NEW e \in Elements, Enqueue(e)
      PROVE  IndexesCoherent' /\ [Bounded!Next]_<<Contents, taken>>
  BY <1>1, EnqueueStep DEF Bounded!Next
<1>2. CASE Dequeue  BY <1>2, DequeueStep DEF Bounded!Next
<1>3. CASE Pop      BY <1>3, PopStep DEF Bounded!Next
<1>4. CASE Clear    BY <1>4, ClearStep DEF Bounded!Next
<1>5. CASE UNCHANGED vars
  BY <1>5 DEF vars, IndexesCoherent, Contents
<1> QED  BY <1>1, <1>2, <1>3, <1>4, <1>5 DEF Next

\* Head, tail and size agree in every reachable state (all operations of RingQueue).
THEOREM AlwaysCoherent == Spec => []IndexesCoherent
<1>1. Init => IndexesCoherent  BY InitCoherent
<1>2. IndexesCoherent /\ [Next]_vars => IndexesCoherent'  BY NextCoherent
<1> QED  BY <1>1, <1>2, PTL DEF Spec

\* The ring buffer implements the bounded queue: first in, first out, the oldest
\* element dropped when it is full (all operations of RingQueue).
THEOREM ImplementsBoundedQueue == Spec => ImplementsQueue
<1>1. Init => Bounded!Init  BY InitCoherent
<1>2. IndexesCoherent /\ [Next]_vars => [Bounded!Next]_<<Contents, taken>>
  BY NextCoherent
<1> QED  BY <1>1, <1>2, AlwaysCoherent, PTL DEF Spec, ImplementsQueue, Bounded!Spec
=============================================================================
