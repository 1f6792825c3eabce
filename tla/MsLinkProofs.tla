----------------------------- MODULE MsLinkProofs -----------------------------
(***************************************************************************)
(* Proofs about MsLink, for every value of its constants: the type          *)
(* invariant, and that over every failure no nonce is lost silently and     *)
(* none is submitted without a cause.                                       *)
(*                                                                         *)
(* RepeatsHaveCauses is not inductive: it says nothing of the submits that  *)
(* are already on their way.  The invariant counts them as a debt: a nonce  *)
(* in txBuffer that the master does not know in that slot will be submitted *)
(* with the next answer, and one in the container that is not so in         *)
(* txBuffer may be with the answer after it.  What keeps the debt of a      *)
(* nonce below its causes is that a nonce belongs to one slave (OwnInv),    *)
(* and that the frame left in rxBuffer is known for one slave and holds     *)
(* nothing of another (RxInv).                                              *)
(***************************************************************************)
EXTENDS MsLink, TLAPS

-----------------------------------------------------------------------------
(* The inductive invariant. *)

\* A slave has jobs only of the master, which counts at least as many in all as
\* since its last start.
CountInv == jobIdCounter <= works

TypeInv == TypeOK /\ CountInv

\* The nonces a slave has: in its chips, its container and its txBuffer.
Held(s) == chips[s] \cup Contents(ring[s])
             \cup (IF reply[s] = NoNonces THEN {} ELSE Contents(reply[s]))

\* A nonce belongs to the slave whose chip found it.
OwnInv ==
  /\ \A s \in Slaves : \A n \in Held(s) \cup Contents(noncesContainer[s]) : n <= found
  /\ \A s, t \in Slaves : s # t => Held(s) \cap Held(t) = {}

\* The frame in rxBuffer is what the master holds of one slave, and foreign to the
\* others.
RxInv ==
  rxBuffer # NoNonces =>
    \E t \in Slaves :
      /\ noncesContainer[t] = rxBuffer
      /\ \A s \in Slaves \ {t} : Contents(rxBuffer) \cap Held(s) = {}

\* What the master heard, or holds of a slave, it submitted.
HeardInv ==
  /\ \A n \in heard : submits[n] > 0
  /\ \A s \in Slaves : \A n \in Contents(noncesContainer[s]) : submits[n] > 0

\* n is in txBuffer, in a slot where the master does not know it.
PendingReply(s, n) ==
  reply[s] # NoNonces /\ \E j \in 1 .. Slots : reply[s][j] = n /\ noncesContainer[s][j] # n

\* n is in the container, in a slot where txBuffer does not have it.
PendingRing(s, n) ==
  \E j \in 1 .. Slots : ring[s][j] = n /\ (reply[s] = NoNonces \/ reply[s][j] # n)

\* The submits of n that are on their way without a further cause.
Debt(s, n) == (IF PendingReply(s, n) THEN 1 ELSE 0) + (IF PendingRing(s, n) THEN 1 ELSE 0)

DebtInv ==
  \A s \in Slaves, n \in Nonces :
    submits[n] + Debt(s, n) <= entries[n] + throws + restarts

\* How many nonces ago slot i of the container was written.
Age(s, i) == IF i < tx[s] THEN tx[s] - i ELSE tx[s] + Slots - i

\* A slot older than the container the master heard last holds nothing it has not
\* heard; one older than txBuffer holds what txBuffer holds.
AgeInv ==
  \A s \in Slaves, i \in 1 .. Slots :
    /\ Age(s, i) > since[s] => ring[s][i] \in heard \cup {NoNonce}
    /\ reply[s] # NoNonces /\ Age(s, i) > replySince[s] => ring[s][i] = reply[s][i]

SafeInv == OwnInv /\ RxInv /\ HeardInv /\ NoncesAreKept /\ DebtInv /\ AgeInv

IInv == TypeInv /\ SafeInv

-----------------------------------------------------------------------------
(* Types. *)

LEMMA Constants ==
  /\ NumSlaves \in Nat \ {0} /\ Slots \in Nat \ {0}
  /\ {0, DefaultSetting} \subseteq Settings
  /\ MaxJobs \in Nat /\ MaxFound \in Nat /\ MaxEntries \in Nat /\ MaxThrows \in Nat
  /\ MaxRestarts \in Nat /\ MaxResets \in Nat /\ MaxEdits \in Nat
  /\ Slaves \subseteq Nat /\ 0 \in Slaves /\ Nonces \subseteq Nat \ {0}
BY LinkAssumption DEF Slaves, Nonces

\* What is in a container.
LEMMA ContentsOf ==
  ASSUME NEW c \in Containers
  PROVE  /\ Contents(c) \subseteq Nonces
         /\ \A n \in Nonces : n \in Contents(c) <=> \E i \in 1 .. Slots : c[i] = n
BY Constants DEF Containers, Contents, NoNonce

LEMMA EmptyContents == EmptyContainer \in Containers /\ Contents(EmptyContainer) = {}
BY DEF EmptyContainer, Containers, Contents, NoNonce

LEMMA JobTypes == NoJob \in Jobs /\ DefaultJob \in Jobs
BY Constants DEF NoJob, DefaultJob, Jobs

LEMMA FrameType ==
  ASSUME TypeOK, NEW s \in Slaves
  PROVE  /\ Frame(s) \in [osc : Settings, changed : BOOLEAN, job : Jobs]
         /\ NoFrame \in [osc : Settings, changed : BOOLEAN, job : Jobs]
BY Constants, JobTypes DEF TypeOK, Frame, NoFrame

\* The next index of a container, and the age that the slots have then.
LEMMA NextTxType ==
  ASSUME NEW i \in 1 .. Slots
  PROVE  NextTx(i) \in 1 .. Slots
BY Constants DEF NextTx

\* What the handler of a frame keeps well-formed.
LEMMA ResponseType ==
  ASSUME TypeOK, NEW s \in Slaves, NEW c \in Containers \cup {NoNonces}, ProcessResponse(s, c)
  PROVE  /\ submits' \in [Nonces -> Nat]
         /\ noncesContainer' \in [Slaves -> Containers]
<1>1. CASE c = NoNonces
  BY <1>1 DEF TypeOK, ProcessResponse
<1>2. CASE c # NoNonces
  <2>1. c \in Containers /\ noncesContainer' = [noncesContainer EXCEPT ![s] = c]
    BY <1>2 DEF ProcessResponse, StoreContainer
  <2>2. submits' = [n \in Nonces |-> IF n \in NewIn(s, c) THEN submits[n] + 1 ELSE submits[n]]
    BY <1>2 DEF ProcessResponse
  <2> QED
    BY <2>1, <2>2 DEF TypeOK
<1> QED
  BY <1>1, <1>2

LEMMA InitType == Init => TypeInv
<1> SUFFICES ASSUME Init PROVE TypeInv
  OBVIOUS
<1>1. \A s \in Slaves : NoFrame \in [osc : Settings, changed : BOOLEAN, job : Jobs]
  BY Constants, JobTypes DEF NoFrame
<1>2. /\ \A S : \A x \in S : [s \in Slaves |-> x] \in [Slaves -> S]
      /\ [n \in Nonces |-> 0] \in [Nonces -> Nat]
      /\ [n \in Nonces |-> 0] \in [Nonces -> 0 .. MaxEntries]
  BY Constants
<1>3. /\ job \in Jobs /\ inbox \in [Slaves -> [osc : Settings, changed : BOOLEAN, job : Jobs]]
      /\ miningData \in [Slaves -> Jobs]
  BY <1>1, <1>2, JobTypes DEF Init, Source!Init
<1>4. /\ rxBuffer \in Containers \cup {NoNonces}
      /\ noncesContainer \in [Slaves -> Containers] /\ ring \in [Slaves -> Containers]
      /\ reply \in [Slaves -> Containers \cup {NoNonces}]
  BY <1>2, EmptyContents DEF Init
<1>5. /\ osc \in Settings /\ changedFlag \in BOOLEAN /\ boardOsc \in [Slaves -> Settings]
      /\ spi \in [Slaves -> {"idle", "armed", "done"}]
      /\ chips \in [Slaves -> SUBSET Nonces] /\ heard \subseteq Nonces /\ overrun \subseteq Nonces
  BY <1>2, Constants DEF Init
<1>6. /\ turn \in Slaves /\ tx \in [Slaves -> 1 .. Slots]
      /\ since \in [Slaves -> Nat] /\ replySince \in [Slaves -> Nat]
      /\ entries \in [Nonces -> 0 .. MaxEntries] /\ submits \in [Nonces -> Nat]
  BY <1>2, Constants DEF Init, Source!Init
<1>7. /\ jobIdCounter \in 0 .. MaxJobs /\ works \in 0 .. MaxJobs /\ jobIdCounter <= works
      /\ edits \in 0 .. MaxEdits /\ found \in 0 .. MaxFound /\ throws \in 0 .. MaxThrows
      /\ restarts \in 0 .. MaxRestarts /\ resets \in 0 .. MaxResets
  BY Constants DEF Init, Source!Init
<1> QED
  BY <1>3, <1>4, <1>5, <1>6, <1>7 DEF TypeInv, TypeOK, CountInv

LEMMA MasterType ==
  ASSUME TypeInv, NewJob \/ JobsCleared \/ PullOscConfig \/ MasterRestarts
  PROVE  TypeInv'
<1> USE Constants, JobTypes
        DEF TypeInv, TypeOK, CountInv, poolVars, gateVars, webVars, spiVars, ringVars, slaveVars,
            nonceHist, faults
<1>1. CASE NewJob
  <2>1. job' \in Jobs
    BY <1>1 DEF NewJob, Source!NewJob, Jobs, FirstId
  <2> QED
    BY <1>1, <2>1 DEF NewJob, Source!NewJob
<1>2. CASE JobsCleared
  BY <1>2 DEF JobsCleared, Source!JobsCleared
<1>3. CASE PullOscConfig
  BY <1>3 DEF PullOscConfig
<1>4. CASE MasterRestarts
  <2>1. noncesContainer' \in [Slaves -> Containers] /\ rxBuffer' \in Containers \cup {NoNonces}
    BY <1>4, EmptyContents DEF MasterRestarts
  <2>2. restarts' \in 0 .. MaxRestarts /\ job' \in Jobs /\ jobIdCounter' = 0
    BY <1>4 DEF MasterRestarts, Source!Restart
  <2>3. turn' \in Slaves /\ osc' \in Settings /\ changedFlag' = FALSE
    BY <1>4 DEF MasterRestarts
  <2>4. UNCHANGED <<works, edits, spiVars, ringVars, slaveVars, chips, nonceHist, throws, resets>>
    BY <1>4 DEF MasterRestarts, Source!Restart
  <2>5. jobIdCounter' \in 0 .. MaxJobs /\ works' \in 0 .. MaxJobs /\ jobIdCounter' <= works'
    BY <2>2, <2>4
  <2> QED
    BY <2>1, <2>2, <2>3, <2>4, <2>5
<1> QED
  BY <1>1, <1>2, <1>3, <1>4

LEMMA ExchangeType ==
  ASSUME TypeInv, NEW s \in Slaves, Exchange(s)
  PROVE  TypeInv'
<1> USE DEF TypeInv, TypeOK, CountInv, poolVars, spiVars, ringVars, slaveVars, nonceHist, faults
<1>0. turn' \in Slaves
  <2>1. turn' = (turn + 1) % NumSlaves
    BY DEF Exchange, Transfer, TransferToBusy, TransferThrows, NextTurn
  <2> QED
    BY <2>1, Constants DEF Slaves
<1>1. ASSUME NEW data \in BOOLEAN, NEW mining \in BOOLEAN, NEW answer \in BOOLEAN,
             Transfer(s, data, mining, answer)
      PROVE  TypeInv'
  <2>1. rxBuffer' \in Containers \cup {NoNonces}
    BY <1>1 DEF Transfer
  <2>2. submits' \in [Nonces -> Nat] /\ noncesContainer' \in [Slaves -> Containers]
    BY <1>1, <2>1, ResponseType DEF Transfer
  <2>3. heard' \subseteq Nonces /\ since' \in [Slaves -> Nat]
    BY <1>1, ContentsOf DEF Transfer
  <2>4. inbox' \in [Slaves -> [osc : Settings, changed : BOOLEAN, job : Jobs]]
    <3>1. PICK f \in [osc : Settings, changed : BOOLEAN, job : Jobs] :
            inbox' = [inbox EXCEPT ![s] =
                        [f EXCEPT !.changed = data /\ @, !.job = IF mining THEN @ ELSE NoJob]]
      BY <1>1, FrameType DEF Transfer
    <3>2. [f EXCEPT !.changed = data /\ @, !.job = IF mining THEN @ ELSE NoJob]
            \in [osc : Settings, changed : BOOLEAN, job : Jobs]
      BY JobTypes
    <3> QED
      BY <3>1, <3>2
  <2>5. spi' \in [Slaves -> {"idle", "armed", "done"}] /\ changedFlag' = FALSE
    BY <1>1 DEF Transfer
  <2>6. UNCHANGED <<poolVars, osc, edits, reply, ringVars, slaveVars, chips, found, entries,
                    overrun, replySince, faults>>
    BY <1>1 DEF Transfer
  <2> QED
    BY <1>0, <2>1, <2>2, <2>3, <2>4, <2>5, <2>6
<1>2. CASE TransferToBusy(s)
  BY <1>0, <1>2 DEF TransferToBusy
<1>3. CASE TransferThrows(s)
  <2>1. submits' \in [Nonces -> Nat] /\ noncesContainer' \in [Slaves -> Containers]
    BY <1>3, ResponseType DEF TransferThrows
  <2>2. throws' \in 0 .. MaxThrows
    BY <1>3, Constants DEF TransferThrows
  <2>3. /\ changedFlag' = FALSE
        /\ UNCHANGED <<poolVars, rxBuffer, osc, edits, spiVars, ringVars, slaveVars, chips, found,
                       entries, heard, overrun, since, replySince, restarts, resets>>
    BY <1>3 DEF TransferThrows
  <2> QED
    BY <1>0, <2>1, <2>2, <2>3
<1> QED
  BY <1>1, <1>2, <1>3 DEF Exchange

LEMMA SlaveType ==
  ASSUME TypeInv, NEW s \in Slaves, Slave(s)
  PROVE  TypeInv'
<1> USE DEF TypeInv, TypeOK, CountInv, poolVars, gateVars, webVars, ringVars, slaveVars, nonceHist,
            faults
<1>1. CASE CheckDataTransfer(s)
  <2>1. inbox' \in [Slaves -> [osc : Settings, changed : BOOLEAN, job : Jobs]]
    BY <1>1, FrameType DEF CheckDataTransfer
  <2>2. miningData' \in [Slaves -> Jobs] /\ boardOsc' \in [Slaves -> Settings]
    BY <1>1 DEF CheckDataTransfer
  <2>3. /\ reply' \in [Slaves -> Containers \cup {NoNonces}]
        /\ replySince' \in [Slaves -> Nat] /\ ring' = ring
    BY <1>1 DEF CheckDataTransfer, FillTx
  <2>4. /\ spi' \in [Slaves -> {"idle", "armed", "done"}]
        /\ UNCHANGED <<poolVars, gateVars, webVars, tx, chips, found, entries, submits, heard,
                       overrun, since, faults>>
    BY <1>1 DEF CheckDataTransfer
  <2> QED
    BY <2>1, <2>2, <2>3, <2>4
<1>2. CASE FirstTransfer(s)
  BY <1>2 DEF FirstTransfer
<1> QED
  BY <1>1, <1>2 DEF Slave

\* What AddNonce keeps well-formed.
LEMMA AddNonceType ==
  ASSUME TypeOK, NEW s \in Slaves, NEW n \in Nonces, SendNonce(s, n)
  PROVE  /\ entries' \in [Nonces -> 0 .. MaxEntries]
         /\ ring' \in [Slaves -> Containers] /\ tx' \in [Slaves -> 1 .. Slots]
         /\ overrun' \subseteq Nonces
         /\ since' \in [Slaves -> Nat] /\ replySince' \in [Slaves -> Nat]
<1>1. CASE AddNonce(s, n)
  <2>1. entries' \in [Nonces -> 0 .. MaxEntries]
    BY <1>1, Constants DEF AddNonce, TypeOK
  <2>2. ring' \in [Slaves -> Containers]
    BY <1>1 DEF AddNonce, TypeOK, Containers
  <2>3. tx' \in [Slaves -> 1 .. Slots]
    BY <1>1, NextTxType DEF AddNonce, TypeOK
  <2>4. overrun' \subseteq Nonces
    BY <1>1 DEF AddNonce, TypeOK
  <2>5. since' \in [Slaves -> Nat] /\ replySince' \in [Slaves -> Nat]
    BY <1>1 DEF AddNonce, TypeOK
  <2> QED
    BY <2>1, <2>2, <2>3, <2>4, <2>5
<1>2. CASE UNCHANGED <<ringVars, entries, overrun, since, replySince>>
  BY <1>2 DEF TypeOK, ringVars
<1> QED
  BY <1>1, <1>2 DEF SendNonce

LEMMA ChipType ==
  ASSUME TypeInv, NEW s \in Slaves, ChipFinds(s) \/ Download(s)
  PROVE  TypeInv'
<1> USE DEF TypeInv, TypeOK, CountInv, poolVars, gateVars, webVars, spiVars, slaveVars, faults
<1>1. CASE ChipFinds(s)
  <2>1. found' \in 0 .. MaxFound /\ chips' \in [Slaves -> SUBSET Nonces]
    <3>1. found' \in Nonces
      BY <1>1, Constants DEF ChipFinds, Nonces
    <3>2. chips' \in [Slaves -> SUBSET Nonces]
      BY <1>1, <3>1 DEF ChipFinds
    <3>3. found' \in 0 .. MaxFound
      BY <3>1 DEF Nonces
    <3> QED
      BY <3>2, <3>3
  <2>2. UNCHANGED <<poolVars, gateVars, webVars, spiVars, ringVars, slaveVars, entries, submits,
                    heard, overrun, since, replySince, faults>>
    BY <1>1 DEF ChipFinds
  <2> QED
    BY <2>1, <2>2 DEF ringVars
<1>2. CASE Download(s)
  <2>1. PICK n \in chips[s] : \E cleared \in BOOLEAN : DownloadNonce(s, n, cleared)
    BY <1>2 DEF Download
  <2>2. PICK cleared \in BOOLEAN : DownloadNonce(s, n, cleared)
    BY <2>1
  <2>3. n \in Nonces /\ SendNonce(s, n)
    BY <2>2 DEF DownloadNonce
  <2>4. chips' \in [Slaves -> SUBSET Nonces]
    BY <2>2 DEF DownloadNonce
  <2>5. UNCHANGED <<poolVars, gateVars, webVars, spiVars, slaveVars, found, submits, heard,
                    faults>>
    BY <2>2 DEF DownloadNonce
  <2> QED
    BY <2>3, <2>4, <2>5, AddNonceType
<1> QED
  BY <1>1, <1>2

LEMMA SlaveRestartsType ==
  ASSUME TypeInv, NEW s \in Slaves, NEW kept \in BOOLEAN, SlaveRestarts(s, kept)
  PROVE  TypeInv'
<1> USE DEF TypeInv, TypeOK, CountInv, poolVars, gateVars, webVars, SlaveRestarts
<1>1. /\ spi' \in [Slaves -> {"idle", "armed", "done"}]
      /\ inbox' \in [Slaves -> [osc : Settings, changed : BOOLEAN, job : Jobs]]
      /\ reply' \in [Slaves -> Containers \cup {NoNonces}]
  BY FrameType
<1>2. ring' \in [Slaves -> Containers] /\ tx' \in [Slaves -> 1 .. Slots]
  BY EmptyContents, Constants
<1>3. miningData' \in [Slaves -> Jobs] /\ boardOsc' \in [Slaves -> Settings]
  BY JobTypes, Constants
<1>4. chips' \in [Slaves -> SUBSET Nonces]
  OBVIOUS
<1>5. /\ overrun' \subseteq Nonces
      /\ since' \in [Slaves -> Nat] /\ replySince' \in [Slaves -> Nat]
  BY ContentsOf
<1>6. resets' \in 0 .. MaxResets
  BY Constants
<1> QED
  BY <1>1, <1>2, <1>3, <1>4, <1>5, <1>6

LEMMA TypeStep == TypeInv /\ [Next]_vars => TypeInv'
<1> SUFFICES ASSUME TypeInv, [Next]_vars PROVE TypeInv'
  OBVIOUS
<1>1. CASE NewJob \/ JobsCleared \/ PullOscConfig \/ MasterRestarts
  BY <1>1, MasterType
<1>2. ASSUME NEW s \in Slaves,
             \/ Exchange(s) \/ Slave(s) \/ ChipFinds(s) \/ Download(s)
             \/ \E kept \in BOOLEAN : SlaveRestarts(s, kept)
      PROVE  TypeInv'
  BY <1>2, ExchangeType, SlaveType, ChipType, SlaveRestartsType
<1>3. CASE UNCHANGED vars
  BY <1>3 DEF TypeInv, TypeOK, CountInv, vars, poolVars, gateVars, webVars, spiVars, ringVars,
              slaveVars, nonceHist, faults
<1> QED
  BY <1>1, <1>2, <1>3 DEF Next

\* The variables stay within their types: the jobs of all processes outnumber those
\* of the running one, which bounds its ids (queueJob).
THEOREM AlwaysTyped == Spec => []TypeOK
<1>1. TypeInv => TypeOK
  BY DEF TypeInv
<1> QED
  BY <1>1, InitType, TypeStep, PTL DEF Spec

-----------------------------------------------------------------------------
(* Lemmas about the invariant. *)

\* The types the proofs below use.
LEMMA UsedTypes ==
  ASSUME TypeInv
  PROVE  /\ \A s \in Slaves :
              /\ chips[s] \subseteq Nonces
              /\ ring[s] \in Containers /\ noncesContainer[s] \in Containers
              /\ reply[s] \in Containers \cup {NoNonces}
              /\ tx[s] \in 1 .. Slots /\ since[s] \in Nat /\ replySince[s] \in Nat
         /\ \A n \in Nonces : entries[n] \in Nat /\ submits[n] \in Nat
         /\ rxBuffer \in Containers \cup {NoNonces}
         /\ found \in Nat /\ throws \in Nat /\ restarts \in Nat
         /\ heard \subseteq Nonces /\ overrun \subseteq Nonces
BY Constants DEF TypeInv, TypeOK

LEMMA NoNoncesIsNone == NoNonces \notin Containers
BY Constants DEF NoNonces, Containers

LEMMA HeldType ==
  ASSUME TypeInv, NEW s \in Slaves
  PROVE  Held(s) \subseteq Nonces
BY UsedTypes, ContentsOf DEF Held

\* What a slave does not have it owes nothing for.
LEMMA NotHeld ==
  ASSUME TypeInv, NEW s \in Slaves, NEW n \in Nonces \ Held(s)
  PROVE  ~PendingReply(s, n) /\ ~PendingRing(s, n) /\ Debt(s, n) = 0
<1>1. ~PendingReply(s, n)
  BY UsedTypes, ContentsOf DEF Held, PendingReply
<1>2. ~PendingRing(s, n)
  BY UsedTypes, ContentsOf DEF Held, PendingRing
<1> QED
  BY <1>1, <1>2 DEF Debt

LEMMA DebtType ==
  ASSUME NEW s, NEW n
  PROVE  Debt(s, n) \in Nat /\ Debt(s, n) <= 2 /\ Debt(s, n)' \in Nat /\ Debt(s, n)' <= 2
BY DEF Debt

\* What a step owes more for n at s, from what it leaves pending.
LEMMA DebtStep ==
  ASSUME NEW s, NEW n
  PROVE  /\ (PendingReply(s, n)' => PendingReply(s, n)) =>
              Debt(s, n)' <= Debt(s, n) + 1
         /\ (PendingRing(s, n)' => PendingRing(s, n)) =>
              Debt(s, n)' <= Debt(s, n) + 1
         /\ /\ PendingReply(s, n)' => PendingReply(s, n)
            /\ PendingRing(s, n)' => PendingRing(s, n)
            => Debt(s, n)' <= Debt(s, n)
BY DEF Debt

\* A slave of which a step changes nothing owes what it owed.
LEMMA DebtFrame ==
  ASSUME NEW s, NEW n, reply'[s] = reply[s], ring'[s] = ring[s],
         noncesContainer'[s] = noncesContainer[s]
  PROVE  Debt(s, n)' = Debt(s, n)
BY DEF Debt, PendingReply, PendingRing

LEMMA HeldFrame ==
  ASSUME NEW s, reply'[s] = reply[s], ring'[s] = ring[s], chips'[s] = chips[s]
  PROVE  Held(s)' = Held(s)
BY DEF Held, Contents

\* The handler of a frame that holds a container.
LEMMA Respond ==
  ASSUME TypeInv, HeardInv, NEW s \in Slaves, NEW c \in Containers, c # NoNonces,
         ProcessResponse(s, c)
  PROVE  /\ noncesContainer' = [noncesContainer EXCEPT ![s] = c]
         /\ \A n \in Nonces :
              /\ n \in NewIn(s, c) <=>
                   \E j \in 1 .. Slots : c[j] = n /\ noncesContainer[s][j] # n
              /\ submits'[n] = IF n \in NewIn(s, c) THEN submits[n] + 1 ELSE submits[n]
         /\ \A n \in Contents(c) : submits'[n] > 0
<1>1. noncesContainer' = [noncesContainer EXCEPT ![s] = c]
  BY DEF ProcessResponse, StoreContainer
<1>2. ASSUME NEW n \in Nonces
      PROVE  n \in NewIn(s, c) <=>
               \E j \in 1 .. Slots : c[j] = n /\ noncesContainer[s][j] # n
  BY Constants DEF NewIn, NoNonce
<1>3. \A n \in Nonces : submits'[n] = IF n \in NewIn(s, c) THEN submits[n] + 1 ELSE submits[n]
  BY DEF ProcessResponse
<1>4. ASSUME NEW n \in Contents(c)
      PROVE  submits'[n] > 0
  <2>1. n \in Nonces /\ submits[n] \in Nat
    BY ContentsOf, UsedTypes
  <2>2. CASE n \in NewIn(s, c)
    BY <1>3, <2>1, <2>2
  <2>3. CASE n \notin NewIn(s, c)
    <3>1. n \in Contents(noncesContainer[s])
      BY <1>2, <2>1, <2>3, ContentsOf, UsedTypes
    <3> QED
      BY <1>3, <2>1, <2>3, <3>1 DEF HeardInv
  <2> QED
    BY <2>2, <2>3
<1> QED
  BY <1>1, <1>2, <1>3, <1>4

-----------------------------------------------------------------------------
(* One lemma per action. *)

\* A step that moves no nonce: it may only fail, and lose the frame in rxBuffer.
LEMMA Steady ==
  ASSUME IInv, UNCHANGED <<noncesContainer, reply, ringVars, chips, nonceHist, restarts>>,
         throws' \in Nat, throws' >= throws,
         rxBuffer' = rxBuffer \/ rxBuffer' = NoNonces
  PROVE  SafeInv'
<1> USE DEF IInv, SafeInv, ringVars, nonceHist
<1>1. OwnInv'
  BY DEF OwnInv, Held, Contents
<1>2. RxInv'
  <2>1. \A s : Held(s)' = Held(s)
    BY HeldFrame
  <2>2. CASE rxBuffer' = NoNonces
    BY <2>2 DEF RxInv
  <2>3. CASE rxBuffer' = rxBuffer
    BY <2>1, <2>3 DEF RxInv, Contents
  <2> QED
    BY <2>2, <2>3
<1>3. HeardInv' /\ NoncesAreKept'
  BY DEF HeardInv, NoncesAreKept, Contents
<1>4. DebtInv'
  <2> SUFFICES ASSUME NEW s \in Slaves, NEW n \in Nonces
               PROVE  submits'[n] + Debt(s, n)' <= entries'[n] + throws' + restarts'
    BY DEF DebtInv
  <2>1. Debt(s, n)' = Debt(s, n)
    BY DebtFrame
  <2>2. submits[n] + Debt(s, n) <= entries[n] + throws + restarts
    BY DEF DebtInv
  <2> QED
    BY <2>1, <2>2, UsedTypes, DebtType
<1>5. AgeInv'
  BY DEF AgeInv, Age
<1> QED
  BY <1>1, <1>2, <1>3, <1>4, <1>5

\* An answer with a container: what it shows for the first time is submitted.
LEMMA AnswerSafe ==
  ASSUME IInv, NEW s \in Slaves, NEW data \in BOOLEAN, NEW mining \in BOOLEAN,
         Transfer(s, data, mining, TRUE), reply[s] # NoNonces
  PROVE  SafeInv'
<1> DEFINE c == reply[s]
<1>1. /\ c \in Containers /\ Contents(c) \subseteq Held(s) /\ Contents(c) \subseteq Nonces
  BY UsedTypes, ContentsOf DEF IInv, Held
<1>2. /\ ProcessResponse(s, c) /\ rxBuffer' = c
      /\ heard' = heard \cup Contents(c)
      /\ since' = [since EXCEPT ![s] = replySince[s]]
      /\ UNCHANGED <<reply, ring, tx, chips, found, entries, overrun, replySince>>
      /\ UNCHANGED <<throws, restarts>>
  BY DEF Transfer, ringVars, faults
<1>3. /\ noncesContainer' = [noncesContainer EXCEPT ![s] = c]
      /\ \A n \in Nonces :
           /\ n \in NewIn(s, c) <=>
                \E j \in 1 .. Slots : c[j] = n /\ noncesContainer[s][j] # n
           /\ submits'[n] = IF n \in NewIn(s, c) THEN submits[n] + 1 ELSE submits[n]
      /\ \A n \in Contents(c) : submits'[n] > 0
  BY <1>1, <1>2, Respond DEF IInv, SafeInv
<1>4. /\ noncesContainer \in [Slaves -> Containers]
      /\ noncesContainer'[s] = c
      /\ \A u \in Slaves \ {s} : noncesContainer'[u] = noncesContainer[u]
  BY <1>3 DEF IInv, TypeInv, TypeOK
<1>5. \A u \in Slaves : Held(u)' = Held(u)
  BY <1>2, HeldFrame
<1>6. \A n \in Nonces : submits[n] \in Nat /\ submits'[n] >= submits[n]
  BY <1>3, UsedTypes DEF IInv
<1>7. OwnInv'
  <2>1. \A u \in Slaves : \A n \in Contents(noncesContainer'[u]) : n <= found
    BY <1>1, <1>4 DEF IInv, SafeInv, OwnInv
  <2> QED
    BY <1>2, <1>5, <2>1 DEF IInv, SafeInv, OwnInv, Contents
<1>8. RxInv'
  <2>1. \A u \in Slaves \ {s} : Contents(c) \cap Held(u)' = {}
    BY <1>1, <1>5 DEF IInv, SafeInv, OwnInv
  <2> QED
    BY <1>2, <1>4, <2>1 DEF RxInv, Contents
<1>9. HeardInv' /\ NoncesAreKept'
  <2>1. \A n \in heard' : submits'[n] > 0
    BY <1>2, <1>3, <1>6, UsedTypes DEF IInv, SafeInv, HeardInv
  <2>2. \A u \in Slaves : \A n \in Contents(noncesContainer'[u]) : submits'[n] > 0
    <3> SUFFICES ASSUME NEW u \in Slaves \ {s}, NEW n \in Contents(noncesContainer[u])
                 PROVE  submits'[n] > 0
      BY <1>3, <1>4
    <3>1. n \in Nonces /\ submits[n] > 0
      BY UsedTypes, ContentsOf DEF IInv, SafeInv, HeardInv
    <3> QED
      BY <1>6, <3>1, <1>3
  <2>3. NoncesAreKept'
    <3> SUFFICES ASSUME NEW n \in Nonces, entries[n] > 0
                 PROVE  \/ submits'[n] > 0
                        \/ \E u \in Slaves : n \in Contents(ring[u])
                        \/ n \in overrun
      BY <1>2 DEF NoncesAreKept, Contents
    <3>1. submits[n] > 0 => submits'[n] > 0
      BY <1>3, <1>6
    <3> QED
      BY <3>1 DEF IInv, SafeInv, NoncesAreKept
  <2> QED
    BY <2>1, <2>2, <2>3 DEF HeardInv, Contents
<1>10. DebtInv'
  <2> SUFFICES ASSUME NEW u \in Slaves, NEW n \in Nonces
               PROVE  submits'[n] + Debt(u, n)' <= entries[n] + throws + restarts
    BY <1>2 DEF DebtInv
  <2>1. /\ submits[n] + Debt(u, n) <= entries[n] + throws + restarts
        /\ submits[n] + Debt(s, n) <= entries[n] + throws + restarts
        /\ submits[n] \in Nat /\ entries[n] \in Nat /\ throws \in Nat /\ restarts \in Nat
    BY UsedTypes DEF IInv, SafeInv, DebtInv
  <2>2. /\ ~PendingReply(s, n)' /\ (PendingRing(s, n)' <=> PendingRing(s, n))
        /\ PendingReply(s, n) <=> n \in NewIn(s, c)
    BY <1>2, <1>3, <1>4 DEF PendingReply, PendingRing
  <2>3. submits'[n] + Debt(s, n)' = submits[n] + Debt(s, n)
    BY <1>3, <2>1, <2>2 DEF Debt
  <2>4. u # s => Debt(u, n)' = Debt(u, n)
    BY <1>2, <1>4, DebtFrame
  <2>5. n \in NewIn(s, c) => n \in Held(s) /\ Debt(s, n) >= 1
    BY <1>1, <1>3, <2>2, ContentsOf DEF Debt
  <2>6. u # s /\ n \in Held(s) => Debt(u, n) = 0
    BY NotHeld DEF IInv, SafeInv, OwnInv
  <2>7. CASE u = s
    BY <2>1, <2>3, <2>7
  <2>8. CASE u # s /\ n \notin NewIn(s, c)
    BY <1>3, <2>1, <2>4, <2>8
  <2>9. CASE u # s /\ n \in NewIn(s, c)
    BY <1>3, <2>1, <2>4, <2>5, <2>6, <2>9, DebtType
  <2> QED
    BY <2>7, <2>8, <2>9
<1>11. AgeInv'
  <2> SUFFICES ASSUME NEW u \in Slaves, NEW i \in 1 .. Slots
               PROVE  /\ Age(u, i) > since'[u] => ring[u][i] \in heard' \cup {NoNonce}
                      /\ reply[u] # NoNonces /\ Age(u, i) > replySince[u] =>
                           ring[u][i] = reply[u][i]
    BY <1>2 DEF AgeInv, Age
  <2>1. /\ Age(u, i) > since[u] => ring[u][i] \in heard \cup {NoNonce}
        /\ reply[u] # NoNonces /\ Age(u, i) > replySince[u] => ring[u][i] = reply[u][i]
    BY DEF IInv, SafeInv, AgeInv
  <2>2. u # s => since'[u] = since[u]
    BY <1>2 DEF IInv, TypeInv, TypeOK
  <2>3. since'[s] = replySince[s]
    BY <1>2 DEF IInv, TypeInv, TypeOK
  <2>4. c[i] \in Contents(c) \cup {NoNonce}
    BY DEF Contents
  <2> QED
    BY <1>2, <2>1, <2>2, <2>3, <2>4
<1> QED
  BY <1>7, <1>8, <1>9, <1>10, <1>11 DEF SafeInv

\* A failed transfer: the nonces of another slave, left in rxBuffer, are submitted again.
LEMMA TransferThrowsSafe ==
  ASSUME IInv, NEW s \in Slaves, TransferThrows(s)
  PROVE  SafeInv'
<1> DEFINE c == rxBuffer
<1>0. /\ ProcessResponse(s, c)
      /\ throws' = throws + 1 /\ throws \in Nat
      /\ UNCHANGED <<rxBuffer, reply, ring, tx, chips, found, entries, heard, overrun, since,
                     replySince, restarts>>
  BY UsedTypes DEF IInv, TransferThrows, spiVars, ringVars
<1>1. CASE c = NoNonces
  <2>1. UNCHANGED <<noncesContainer, submits>>
    BY <1>0, <1>1 DEF ProcessResponse
  <2> QED
    BY <1>0, <2>1, Steady DEF ringVars, nonceHist
<1>2. CASE c # NoNonces
  <2>1. PICK t \in Slaves :
          /\ noncesContainer[t] = c
          /\ \A u \in Slaves \ {t} : Contents(c) \cap Held(u) = {}
    BY <1>2 DEF IInv, SafeInv, RxInv
  <2>2. c \in Containers /\ Contents(c) \subseteq Nonces
    BY <2>1, UsedTypes, ContentsOf DEF IInv
  <2>3. /\ noncesContainer' = [noncesContainer EXCEPT ![s] = c]
        /\ \A n \in Nonces :
             /\ n \in NewIn(s, c) <=>
                  \E j \in 1 .. Slots : c[j] = n /\ noncesContainer[s][j] # n
             /\ submits'[n] = IF n \in NewIn(s, c) THEN submits[n] + 1 ELSE submits[n]
        /\ \A n \in Contents(c) : submits'[n] > 0
    BY <1>0, <1>2, <2>2, Respond DEF IInv, SafeInv
  <2>4. /\ noncesContainer \in [Slaves -> Containers]
        /\ noncesContainer'[s] = c
        /\ \A u \in Slaves \ {s} : noncesContainer'[u] = noncesContainer[u]
    BY <2>3 DEF IInv, TypeInv, TypeOK
  <2>5. \A u \in Slaves : Held(u)' = Held(u)
    BY <1>0, HeldFrame
  <2>6. \A n \in Nonces : submits[n] \in Nat /\ submits'[n] >= submits[n]
    BY <2>3, UsedTypes DEF IInv
  <2>7. OwnInv'
    <3>1. \A u \in Slaves : \A n \in Contents(noncesContainer'[u]) : n <= found
      BY <2>1, <2>4 DEF IInv, SafeInv, OwnInv
    <3> QED
      BY <1>0, <2>5, <3>1 DEF IInv, SafeInv, OwnInv, Contents
  <2>8. RxInv'
    <3>1. noncesContainer'[t] = c
      BY <2>1, <2>4
    <3>2. \A u \in Slaves \ {t} : Contents(c) \cap Held(u)' = {}
      BY <2>1, <2>5
    <3> QED
      BY <1>0, <3>1, <3>2 DEF RxInv, Contents
  <2>9. HeardInv' /\ NoncesAreKept'
    <3>1. \A n \in heard' : submits'[n] > 0
      BY <1>0, <2>3, <2>6, UsedTypes DEF IInv, SafeInv, HeardInv
    <3>2. \A u \in Slaves : \A n \in Contents(noncesContainer'[u]) : submits'[n] > 0
      <4> SUFFICES ASSUME NEW u \in Slaves \ {s}, NEW n \in Contents(noncesContainer[u])
                   PROVE  submits'[n] > 0
        BY <2>3, <2>4
      <4>1. n \in Nonces /\ submits[n] > 0
        BY UsedTypes, ContentsOf DEF IInv, SafeInv, HeardInv
      <4> QED
        BY <2>3, <2>6, <4>1
    <3>3. NoncesAreKept'
      <4> SUFFICES ASSUME NEW n \in Nonces, entries[n] > 0
                   PROVE  \/ submits'[n] > 0
                          \/ \E u \in Slaves : n \in Contents(ring[u])
                          \/ n \in overrun
        BY <1>0 DEF NoncesAreKept, Contents
      <4>1. submits[n] > 0 => submits'[n] > 0
        BY <2>3, <2>6
      <4> QED
        BY <4>1 DEF IInv, SafeInv, NoncesAreKept
    <3> QED
      BY <3>1, <3>2, <3>3 DEF HeardInv, Contents
  <2>10. DebtInv'
    <3> SUFFICES ASSUME NEW u \in Slaves, NEW n \in Nonces
                 PROVE  submits'[n] + Debt(u, n)' <= entries[n] + throws' + restarts
      BY <1>0 DEF DebtInv
    <3>1. /\ submits[n] + Debt(u, n) <= entries[n] + throws + restarts
          /\ submits[n] \in Nat /\ entries[n] \in Nat /\ throws \in Nat /\ restarts \in Nat
      BY UsedTypes DEF IInv, SafeInv, DebtInv
    <3>2. u # s => Debt(u, n)' = Debt(u, n)
      BY <1>0, <2>4, DebtFrame
    <3>3. CASE u # s
      BY <1>0, <2>3, <3>1, <3>2, <3>3, DebtType
    <3>4. CASE u = s /\ s = t
      <4>1. n \notin NewIn(s, c)
        BY <2>1, <2>3, <3>4
      <4>2. Debt(s, n)' = Debt(s, n)
        BY <1>0, <2>1, <2>4, <3>4, DebtFrame
      <4> QED
        BY <1>0, <2>3, <3>1, <3>4, <4>1, <4>2, DebtType
    <3>5. CASE u = s /\ s # t /\ n \in Held(s)
      <4>1. n \notin NewIn(s, c)
        BY <2>1, <2>2, <2>3, <3>5, ContentsOf
      <4>2. PendingRing(s, n)' => PendingRing(s, n)
        BY <1>0 DEF PendingRing
      <4>3. Debt(s, n)' <= Debt(s, n) + 1
        BY <4>2, DebtStep
      <4> QED
        BY <1>0, <2>3, <3>1, <3>5, <4>1, <4>3, DebtType
    <3>6. CASE u = s /\ s # t /\ n \notin Held(s)
      <4>1. Debt(s, n)' = 0
        <5>1. ~PendingReply(s, n)'
          BY <1>0, <3>6, UsedTypes, ContentsOf DEF IInv, Held, PendingReply
        <5>2. ~PendingRing(s, n)'
          BY <1>0, <3>6, NotHeld DEF IInv, PendingRing
        <5> QED
          BY <5>1, <5>2 DEF Debt
      <4> QED
        BY <1>0, <2>3, <3>1, <3>6, <4>1, DebtType
    <3> QED
      BY <3>3, <3>4, <3>5, <3>6
  <2>11. AgeInv'
    BY <1>0 DEF IInv, SafeInv, AgeInv, Age
  <2> QED
    BY <2>7, <2>8, <2>9, <2>10, <2>11 DEF SafeInv
<1> QED
  BY <1>1, <1>2

\* A restart of the master: whatever the slaves have may be submitted once more.
LEMMA MasterRestartsSafe == IInv /\ MasterRestarts => SafeInv'
<1> SUFFICES ASSUME IInv, MasterRestarts PROVE SafeInv'
  OBVIOUS
<1>1. /\ rxBuffer' = NoNonces
      /\ restarts \in Nat /\ restarts' = restarts + 1
      /\ \A s \in Slaves : noncesContainer'[s] = EmptyContainer
      /\ UNCHANGED <<reply, ring, tx, chips, nonceHist, throws>>
  BY UsedTypes DEF IInv, MasterRestarts, spiVars, ringVars
<1>2. \A s \in Slaves : Contents(noncesContainer'[s]) = {} /\ Held(s)' = Held(s)
  BY <1>1, EmptyContents, HeldFrame
<1>3. OwnInv'
  BY <1>1, <1>2 DEF IInv, SafeInv, OwnInv, nonceHist, Contents
<1>4. RxInv'
  BY <1>1 DEF RxInv
<1>5. HeardInv' /\ NoncesAreKept'
  BY <1>1, <1>2 DEF IInv, SafeInv, HeardInv, NoncesAreKept, nonceHist, Contents
<1>6. DebtInv'
  <2> SUFFICES ASSUME NEW s \in Slaves, NEW n \in Nonces
               PROVE  submits[n] + Debt(s, n)' <= entries[n] + throws + restarts'
    BY <1>1 DEF DebtInv, nonceHist
  <2>1. submits[n] + Debt(s, n) <= entries[n] + throws + restarts
    BY DEF IInv, SafeInv, DebtInv
  <2>2. PendingRing(s, n)' => PendingRing(s, n)
    BY <1>1 DEF PendingRing
  <2>3. Debt(s, n)' <= Debt(s, n) + 1
    BY <2>2, DebtStep
  <2> QED
    BY <1>1, <2>1, <2>3, UsedTypes, DebtType DEF IInv
<1>7. AgeInv'
  BY <1>1 DEF IInv, SafeInv, AgeInv, Age, nonceHist
<1> QED
  BY <1>3, <1>4, <1>5, <1>6, <1>7 DEF SafeInv

\* txBuffer is filled: what was on its way still is, and nothing more.
LEMMA CheckDataTransferSafe ==
  ASSUME IInv, NEW s \in Slaves, CheckDataTransfer(s)
  PROVE  SafeInv'
<1>1. /\ reply' = [reply EXCEPT ![s] = ring[s]]
      /\ replySince' = [replySince EXCEPT ![s] = 0]
      /\ UNCHANGED <<rxBuffer, noncesContainer, ring, tx, chips, found, entries, submits, heard,
                     overrun, since, throws, restarts>>
  BY DEF CheckDataTransfer, FillTx, gateVars, faults
<1>2. /\ ring[s] \in Containers /\ ring[s] # NoNonces
      /\ reply'[s] = ring[s] /\ replySince'[s] = 0
      /\ \A u \in Slaves \ {s} : reply'[u] = reply[u] /\ replySince'[u] = replySince[u]
  BY <1>1, UsedTypes, NoNoncesIsNone DEF IInv, TypeInv, TypeOK
<1>3. \A u \in Slaves : Held(u)' \subseteq Held(u)
  <2>1. Held(s)' \subseteq Held(s)
    BY <1>1, <1>2 DEF Held, Contents
  <2>2. \A u \in Slaves \ {s} : Held(u)' = Held(u)
    BY <1>1, <1>2, HeldFrame
  <2> QED
    BY <2>1, <2>2
<1>4. OwnInv'
  BY <1>1, <1>3 DEF IInv, SafeInv, OwnInv, Contents
<1>5. RxInv'
  BY <1>1, <1>3 DEF IInv, SafeInv, RxInv, Contents
<1>6. HeardInv' /\ NoncesAreKept'
  BY <1>1 DEF IInv, SafeInv, HeardInv, NoncesAreKept, Contents
<1>7. DebtInv'
  <2> SUFFICES ASSUME NEW u \in Slaves, NEW n \in Nonces
               PROVE  submits[n] + Debt(u, n)' <= entries[n] + throws + restarts
    BY <1>1 DEF DebtInv
  <2>1. submits[n] + Debt(u, n) <= entries[n] + throws + restarts
    BY DEF IInv, SafeInv, DebtInv
  <2>2. CASE u # s
    BY <1>1, <1>2, <2>1, <2>2, DebtFrame
  <2>3. CASE u = s
    <3>1. PendingReply(s, n)' => PendingReply(s, n) \/ PendingRing(s, n)
      BY <1>1, <1>2 DEF PendingReply, PendingRing
    <3>2. ~PendingRing(s, n)'
      BY <1>1, <1>2 DEF PendingRing
    <3>3. Debt(s, n)' <= Debt(s, n)
      BY <3>1, <3>2 DEF Debt
    <3> QED
      BY <2>1, <2>3, <3>3, UsedTypes, DebtType DEF IInv
  <2> QED
    BY <2>2, <2>3
<1>8. AgeInv'
  BY <1>1, <1>2 DEF IInv, SafeInv, AgeInv, Age
<1> QED
  BY <1>4, <1>5, <1>6, <1>7, <1>8 DEF SafeInv

\* A new nonce is one that no slave has.
LEMMA ChipFindsSafe ==
  ASSUME IInv, NEW s \in Slaves, ChipFinds(s)
  PROVE  SafeInv'
<1>1. /\ found \in Nat /\ found' = found + 1
      /\ chips' = [chips EXCEPT ![s] = @ \cup {found'}]
      /\ UNCHANGED <<rxBuffer, noncesContainer, reply, ring, tx, entries, submits, heard,
                     overrun, since, replySince, throws, restarts>>
  BY UsedTypes DEF IInv, ChipFinds, gateVars, spiVars, ringVars, faults
<1>2. /\ Held(s)' = Held(s) \cup {found'}
      /\ \A u \in Slaves \ {s} : Held(u)' = Held(u)
  BY <1>1 DEF IInv, TypeInv, TypeOK, Held, Contents
<1>3. /\ \A u \in Slaves : found' \notin Held(u)
      /\ \A u \in Slaves : found' \notin Contents(noncesContainer[u])
  BY <1>1 DEF IInv, SafeInv, OwnInv
<1>4. OwnInv'
  <2>1. ASSUME NEW u \in Slaves, NEW n \in Held(u)' \cup Contents(noncesContainer[u])
        PROVE  n <= found'
    <3>1. CASE n = found'
      BY <1>1, <3>1
    <3>2. CASE n \in Held(u) \cup Contents(noncesContainer[u])
      <4>1. n \in Nonces /\ n <= found
        BY <3>2, HeldType, UsedTypes, ContentsOf DEF IInv, SafeInv, OwnInv
      <4> QED
        BY <1>1, <4>1, Constants
    <3> QED
      BY <1>2, <2>1, <3>1, <3>2
  <2>2. ASSUME NEW u \in Slaves, NEW t \in Slaves, u # t
        PROVE  Held(u)' \cap Held(t)' = {}
    BY <1>2, <1>3, <2>2 DEF IInv, SafeInv, OwnInv
  <2> QED
    BY <1>1, <2>1, <2>2 DEF OwnInv, Contents
<1>5. RxInv'
  <2> SUFFICES ASSUME rxBuffer # NoNonces
               PROVE  \E t \in Slaves :
                        /\ noncesContainer[t] = rxBuffer
                        /\ \A u \in Slaves \ {t} : Contents(rxBuffer) \cap Held(u)' = {}
    BY <1>1 DEF RxInv, Contents
  <2>1. PICK t \in Slaves :
          /\ noncesContainer[t] = rxBuffer
          /\ \A u \in Slaves \ {t} : Contents(rxBuffer) \cap Held(u) = {}
    BY DEF IInv, SafeInv, RxInv
  <2>2. found' \notin Contents(rxBuffer)
    BY <1>3, <2>1
  <2> QED
    BY <1>2, <2>1, <2>2
<1>6. HeardInv' /\ NoncesAreKept'
  BY <1>1 DEF IInv, SafeInv, HeardInv, NoncesAreKept, Contents
<1>7. DebtInv'
  BY <1>1, DebtFrame DEF IInv, SafeInv, DebtInv
<1>8. AgeInv'
  BY <1>1 DEF IInv, SafeInv, AgeInv, Age
<1> QED
  BY <1>4, <1>5, <1>6, <1>7, <1>8 DEF SafeInv

\* A nonce enters the container.
LEMMA AddNonceSafe ==
  ASSUME IInv, NEW s \in Slaves, NEW n \in chips[s], n \notin Contents(ring[s]),
         AddNonce(s, n), \A u \in Slaves : chips'[u] \subseteq chips[u],
         UNCHANGED <<gateVars, spiVars, found, submits, heard, faults>>
  PROVE  SafeInv'
<1> DEFINE i0 == tx[s]
           m  == ring[s][tx[s]]
<1>0. n \in Nonces /\ ring[s] \in Containers /\ i0 \in 1 .. Slots /\ entries[n] \in Nat
  BY UsedTypes DEF IInv
<1>1. /\ entries' = [entries EXCEPT ![n] = @ + 1]
      /\ ring' = [ring EXCEPT ![s][i0] = n]
      /\ tx' = [tx EXCEPT ![s] = NextTx(@)]
      /\ overrun' = IF m \in Nonces \ heard THEN overrun \cup {m} ELSE overrun
      /\ since' = [since EXCEPT ![s] = @ + 1]
      /\ replySince' = [replySince EXCEPT ![s] = @ + 1]
      /\ UNCHANGED <<rxBuffer, noncesContainer, reply, found, submits, heard, throws, restarts>>
  BY DEF AddNonce, gateVars, spiVars, faults
<1>2. /\ ring'[s] = [ring[s] EXCEPT ![i0] = n]
      /\ \A u \in Slaves \ {s} : /\ ring'[u] = ring[u] /\ tx'[u] = tx[u]
                                 /\ since'[u] = since[u] /\ replySince'[u] = replySince[u]
      /\ tx'[s] = NextTx(i0) /\ since'[s] = since[s] + 1 /\ replySince'[s] = replySince[s] + 1
  BY <1>1 DEF IInv, TypeInv, TypeOK
<1>3. /\ ring'[s][i0] = n
      /\ \A i \in 1 .. Slots : i # i0 => ring'[s][i] = ring[s][i]
  BY <1>0, <1>2 DEF Containers
<1>4. Contents(ring'[s]) \subseteq Contents(ring[s]) \cup {n}
  BY <1>3 DEF Contents
<1>5. \A u \in Slaves : Held(u)' \subseteq Held(u)
  <2>1. Held(s)' \subseteq Held(s)
    BY <1>1, <1>4 DEF Held, Contents
  <2>2. \A u \in Slaves \ {s} : Held(u)' \subseteq Held(u)
    BY <1>1, <1>2 DEF Held, Contents
  <2> QED
    BY <2>1, <2>2
<1>6. OwnInv'
  BY <1>1, <1>5 DEF IInv, SafeInv, OwnInv, Contents
<1>7. RxInv'
  BY <1>1, <1>5 DEF IInv, SafeInv, RxInv, Contents
<1>8. HeardInv'
  BY <1>1 DEF IInv, SafeInv, HeardInv, Contents
<1>9. NoncesAreKept'
  <2> SUFFICES ASSUME NEW k \in Nonces, entries'[k] > 0
               PROVE  \/ submits[k] > 0
                      \/ \E u \in Slaves : k \in Contents(ring'[u])
                      \/ k \in overrun'
    BY <1>1 DEF NoncesAreKept, Contents
  <2>1. CASE k = n
    <3>1. n \in Contents(ring'[s])
      BY <1>0, <1>3, Constants DEF Contents, NoNonce
    <3> QED
      BY <2>1, <3>1
  <2>2. CASE k # n
    <3>1. entries'[k] = entries[k]
      BY <1>1, <2>2 DEF IInv, TypeInv, TypeOK
    <3>2. \/ submits[k] > 0
          \/ \E u \in Slaves : k \in Contents(ring[u])
          \/ k \in overrun
      BY <3>1 DEF IInv, SafeInv, NoncesAreKept
    <3>3. \A u \in Slaves \ {s} : Contents(ring'[u]) = Contents(ring[u])
      BY <1>2
    <3>4. k \in Contents(ring[s]) => k \in Contents(ring'[s]) \/ k = m
      BY <1>3 DEF Contents
    <3>5. k = m => submits[k] > 0 \/ k \in overrun'
      BY <1>1 DEF IInv, SafeInv, HeardInv
    <3>6. overrun \subseteq overrun'
      BY <1>1
    <3> QED
      BY <3>2, <3>3, <3>4, <3>5, <3>6
  <2> QED
    BY <2>1, <2>2
<1>10. DebtInv'
  <2> SUFFICES ASSUME NEW u \in Slaves, NEW k \in Nonces
               PROVE  submits[k] + Debt(u, k)' <= entries'[k] + throws + restarts
    BY <1>1 DEF DebtInv
  <2>1. /\ submits[k] + Debt(u, k) <= entries[k] + throws + restarts
        /\ submits[k] \in Nat /\ entries[k] \in Nat /\ throws \in Nat /\ restarts \in Nat
    BY UsedTypes DEF IInv, SafeInv, DebtInv
  <2>2. entries'[k] = IF k = n THEN entries[k] + 1 ELSE entries[k]
    BY <1>1 DEF IInv, TypeInv, TypeOK
  <2>3. CASE u # s
    <3>1. Debt(u, k)' = Debt(u, k)
      BY <1>1, <1>2, <2>3, DebtFrame
    <3> QED
      BY <2>1, <2>2, <3>1, DebtType
  <2>4. CASE u = s
    <3>1. PendingReply(s, k)' => PendingReply(s, k)
      BY <1>1 DEF PendingReply
    <3>2. k # n => (PendingRing(s, k)' => PendingRing(s, k))
      BY <1>1, <1>3 DEF PendingRing
    <3>3. k = n => Debt(s, k)' <= Debt(s, k) + 1
      BY <3>1, DebtStep
    <3>4. k # n => Debt(s, k)' <= Debt(s, k)
      BY <3>1, <3>2, DebtStep
    <3> QED
      BY <2>1, <2>2, <2>4, <3>3, <3>4, DebtType
  <2> QED
    BY <2>3, <2>4
<1>11. AgeInv'
  <2> SUFFICES ASSUME NEW u \in Slaves, NEW i \in 1 .. Slots
               PROVE  /\ Age(u, i)' > since'[u] => ring'[u][i] \in heard \cup {NoNonce}
                      /\ reply[u] # NoNonces /\ Age(u, i)' > replySince'[u] =>
                           ring'[u][i] = reply[u][i]
    BY <1>1 DEF AgeInv
  <2>1. /\ Age(u, i) > since[u] => ring[u][i] \in heard \cup {NoNonce}
        /\ reply[u] # NoNonces /\ Age(u, i) > replySince[u] => ring[u][i] = reply[u][i]
    BY DEF IInv, SafeInv, AgeInv
  <2>2. CASE u # s
    BY <1>2, <2>1, <2>2 DEF Age
  <2>3. CASE u = s /\ i # i0
    <3>0. i \in Nat /\ i0 \in Nat /\ Slots \in Nat /\ 1 <= i /\ i <= Slots /\ i0 <= Slots
      BY <1>0, Constants
    <3>1. Age(s, i)' = Age(s, i) + 1
      <4>1. CASE i0 >= Slots
        <5>1. i0 = Slots /\ i < i0 /\ tx'[s] = 1 /\ ~(i < 1)
          BY <1>2, <2>3, <3>0, <4>1 DEF NextTx
        <5> QED
          BY <3>0, <5>1 DEF Age
      <4>2. CASE i0 < Slots
        <5>1. tx'[s] = i0 + 1 /\ (i < i0 + 1 <=> i < i0)
          BY <1>2, <2>3, <3>0, <4>2 DEF NextTx
        <5> QED
          BY <3>0, <5>1 DEF Age
      <4> QED
        BY <3>0, <4>1, <4>2
    <3>2. since[s] \in Nat /\ replySince[s] \in Nat /\ Age(s, i) \in Nat
      BY <1>0, UsedTypes, Constants DEF IInv, Age
    <3>3. /\ Age(s, i)' > since'[s] => Age(s, i) > since[s]
          /\ Age(s, i)' > replySince'[s] => Age(s, i) > replySince[s]
      BY <1>2, <3>1, <3>2
    <3>4. ring'[s][i] = ring[s][i]
      BY <1>3, <2>3
    <3> QED
      BY <2>1, <2>3, <3>3, <3>4
  <2>4. CASE u = s /\ i = i0
    <3>1. Age(s, i)' = 1
      BY <1>0, <1>2, <2>4, Constants DEF Age, NextTx
    <3>2. since[s] \in Nat /\ replySince[s] \in Nat
      BY UsedTypes DEF IInv
    <3> QED
      BY <1>2, <2>4, <3>1, <3>2
  <2> QED
    BY <2>2, <2>3, <2>4
<1> QED
  BY <1>6, <1>7, <1>8, <1>9, <1>10, <1>11 DEF SafeInv

LEMMA DownloadSafe ==
  ASSUME IInv, NEW s \in Slaves, Download(s)
  PROVE  SafeInv'
<1>1. PICK n \in chips[s] : \E cleared \in BOOLEAN : DownloadNonce(s, n, cleared)
  BY DEF Download
<1>2. PICK cleared \in BOOLEAN : DownloadNonce(s, n, cleared)
  BY <1>1
<1>3. /\ SendNonce(s, n)
      /\ UNCHANGED <<gateVars, spiVars, found, submits, heard, faults>>
  BY <1>2 DEF DownloadNonce
<1>4. \A u \in Slaves : chips'[u] \subseteq chips[u]
  BY <1>2 DEF DownloadNonce, IInv, TypeInv, TypeOK
<1>5. CASE n \notin Contents(ring[s])
  BY <1>3, <1>4, <1>5, AddNonceSafe DEF SendNonce
<1>6. CASE n \in Contents(ring[s])
  <2>1. /\ UNCHANGED <<rxBuffer, noncesContainer, reply, ring, tx, entries, overrun, since,
                       replySince, found, submits, heard, throws, restarts>>
    BY <1>3, <1>6 DEF SendNonce, gateVars, spiVars, faults, ringVars
  <2>2. \A u \in Slaves : Held(u)' \subseteq Held(u)
    BY <1>4, <2>1 DEF Held, Contents
  <2>3. OwnInv' /\ RxInv'
    BY <2>1, <2>2 DEF IInv, SafeInv, OwnInv, RxInv, Contents
  <2>4. HeardInv' /\ NoncesAreKept'
    BY <2>1 DEF IInv, SafeInv, HeardInv, NoncesAreKept, Contents
  <2>5. DebtInv'
    BY <2>1, DebtFrame DEF IInv, SafeInv, DebtInv
  <2>6. AgeInv'
    BY <2>1 DEF IInv, SafeInv, AgeInv, Age
  <2> QED
    BY <2>3, <2>4, <2>5, <2>6 DEF SafeInv
<1> QED
  BY <1>5, <1>6

\* A restart of a slave: what it had is gone, and nothing of it is on its way.
LEMMA SlaveRestartsSafe ==
  ASSUME IInv, NEW s \in Slaves, NEW kept \in BOOLEAN, SlaveRestarts(s, kept)
  PROVE  SafeInv'
<1>1. /\ overrun' = overrun \cup (Contents(ring[s]) \ heard)
      /\ UNCHANGED <<rxBuffer, noncesContainer, found, entries, submits, heard, throws, restarts>>
  BY DEF SlaveRestarts, gateVars
<1>2. /\ reply'[s] = NoNonces /\ ring'[s] = EmptyContainer /\ tx'[s] = 1
      /\ since'[s] = 0 /\ replySince'[s] = 0
      /\ \A u \in Slaves \ {s} : /\ reply'[u] = reply[u] /\ ring'[u] = ring[u] /\ tx'[u] = tx[u]
                                 /\ since'[u] = since[u] /\ replySince'[u] = replySince[u]
      /\ \A u \in Slaves : chips'[u] \subseteq chips[u]
  BY DEF SlaveRestarts, IInv, TypeInv, TypeOK
<1>3. \A u \in Slaves : Held(u)' \subseteq Held(u)
  <2>1. Held(s)' \subseteq Held(s)
    BY <1>2, EmptyContents DEF Held
  <2>2. \A u \in Slaves \ {s} : Held(u)' \subseteq Held(u)
    BY <1>2 DEF Held, Contents
  <2> QED
    BY <2>1, <2>2
<1>4. OwnInv' /\ RxInv'
  BY <1>1, <1>3 DEF IInv, SafeInv, OwnInv, RxInv, Contents
<1>5. HeardInv'
  BY <1>1 DEF IInv, SafeInv, HeardInv, Contents
<1>6. NoncesAreKept'
  <2> SUFFICES ASSUME NEW k \in Nonces, entries[k] > 0
               PROVE  \/ submits[k] > 0
                      \/ \E u \in Slaves : k \in Contents(ring'[u])
                      \/ k \in overrun'
    BY <1>1 DEF NoncesAreKept, Contents
  <2>1. \/ submits[k] > 0
        \/ \E u \in Slaves : k \in Contents(ring[u])
        \/ k \in overrun
    BY DEF IInv, SafeInv, NoncesAreKept
  <2>2. \A u \in Slaves \ {s} : Contents(ring'[u]) = Contents(ring[u])
    BY <1>2
  <2>3. k \in Contents(ring[s]) => submits[k] > 0 \/ k \in overrun'
    BY <1>1 DEF IInv, SafeInv, HeardInv
  <2> QED
    BY <1>1, <2>1, <2>2, <2>3
<1>7. DebtInv'
  <2> SUFFICES ASSUME NEW u \in Slaves, NEW k \in Nonces
               PROVE  submits[k] + Debt(u, k)' <= entries[k] + throws + restarts
    BY <1>1 DEF DebtInv
  <2>1. submits[k] + Debt(u, k) <= entries[k] + throws + restarts
    BY DEF IInv, SafeInv, DebtInv
  <2>2. CASE u # s
    BY <1>1, <1>2, <2>1, <2>2, DebtFrame
  <2>3. CASE u = s
    <3>1. ~PendingReply(s, k)'
      BY <1>2 DEF PendingReply
    <3>2. ~PendingRing(s, k)'
      BY <1>2, Constants DEF PendingRing, EmptyContainer, NoNonce
    <3>3. Debt(s, k)' = 0
      BY <3>1, <3>2 DEF Debt
    <3> QED
      BY <2>1, <2>3, <3>3, UsedTypes, DebtType DEF IInv
  <2> QED
    BY <2>2, <2>3
<1>8. AgeInv'
  <2> SUFFICES ASSUME NEW u \in Slaves, NEW i \in 1 .. Slots
               PROVE  /\ Age(u, i)' > since'[u] => ring'[u][i] \in heard \cup {NoNonce}
                      /\ reply'[u] # NoNonces /\ Age(u, i)' > replySince'[u] =>
                           ring'[u][i] = reply'[u][i]
    BY <1>1 DEF AgeInv
  <2>1. CASE u # s
    BY <1>2, <2>1 DEF IInv, SafeInv, AgeInv, Age
  <2>2. CASE u = s
    BY <1>2, <2>2 DEF EmptyContainer
  <2> QED
    BY <2>1, <2>2
<1> QED
  BY <1>4, <1>5, <1>6, <1>7, <1>8 DEF SafeInv

LEMMA ExchangeSafe ==
  ASSUME IInv, NEW s \in Slaves, Exchange(s)
  PROVE  SafeInv'
<1>1. throws \in Nat
  BY UsedTypes DEF IInv
<1>2. ASSUME NEW data \in BOOLEAN, NEW mining \in BOOLEAN, NEW answer \in BOOLEAN,
             Transfer(s, data, mining, answer)
      PROVE  SafeInv'
  <2>1. CASE answer /\ reply[s] # NoNonces
    BY <1>2, <2>1, AnswerSafe
  <2>2. CASE ~(answer /\ reply[s] # NoNonces)
    <3>1. rxBuffer' = NoNonces /\ UNCHANGED <<submits, noncesContainer, heard, since>>
      BY <1>2, <2>2 DEF Transfer, ProcessResponse
    <3>2. UNCHANGED <<reply, ringVars, chips, found, entries, overrun, replySince, throws, restarts>>
      BY <1>2 DEF Transfer, faults
    <3> QED
      BY <1>1, <3>1, <3>2, Steady DEF nonceHist
  <2> QED
    BY <2>1, <2>2
<1>3. CASE TransferToBusy(s)
  BY <1>1, <1>3, Steady DEF TransferToBusy, spiVars, faults
<1>4. CASE TransferThrows(s)
  BY <1>4, TransferThrowsSafe
<1> QED
  BY <1>2, <1>3, <1>4 DEF Exchange

LEMMA SlaveSafe ==
  ASSUME IInv, NEW s \in Slaves, Slave(s)
  PROVE  SafeInv'
<1>1. CASE FirstTransfer(s)
  <2>1. /\ UNCHANGED <<noncesContainer, reply, ringVars, chips, nonceHist, restarts, throws, rxBuffer>>
        /\ throws \in Nat
    BY <1>1, UsedTypes DEF IInv, FirstTransfer, gateVars, faults
  <2> QED
    BY <2>1, Steady
<1> QED
  BY <1>1, CheckDataTransferSafe DEF Slave

LEMMA InitSafe == Init => SafeInv
<1> SUFFICES ASSUME Init PROVE SafeInv
  OBVIOUS
<1>1. TypeInv
  BY InitType
<1>2. \A s \in Slaves : Held(s) = {} /\ Contents(noncesContainer[s]) = {}
  BY EmptyContents DEF Init, Held
<1>3. OwnInv /\ RxInv /\ HeardInv /\ NoncesAreKept
  BY <1>2 DEF Init, OwnInv, RxInv, HeardInv, NoncesAreKept
<1>4. DebtInv
  <2> SUFFICES ASSUME NEW s \in Slaves, NEW n \in Nonces
               PROVE  submits[n] + Debt(s, n) <= entries[n] + throws + restarts
    BY DEF DebtInv
  <2>1. Debt(s, n) = 0
    BY <1>1, <1>2, NotHeld
  <2> QED
    BY <2>1 DEF Init
<1>5. AgeInv
  BY DEF Init, AgeInv, EmptyContainer
<1> QED
  BY <1>3, <1>4, <1>5 DEF SafeInv

LEMMA SafeStep == IInv /\ [Next]_vars => IInv'
<1> SUFFICES ASSUME IInv, [Next]_vars PROVE SafeInv'
  BY TypeStep DEF IInv
<1>1. throws \in Nat
  BY UsedTypes DEF IInv
<1>2. CASE NewJob \/ JobsCleared \/ PullOscConfig
  <2>1. UNCHANGED <<noncesContainer, reply, ringVars, chips, nonceHist, restarts, throws, rxBuffer>>
    BY <1>2 DEF NewJob, JobsCleared, PullOscConfig, gateVars, spiVars, faults
  <2> QED
    BY <1>1, <2>1, Steady
<1>3. CASE MasterRestarts
  BY <1>3, MasterRestartsSafe
<1>4. ASSUME NEW s \in Slaves,
             \/ Exchange(s) \/ Slave(s) \/ ChipFinds(s) \/ Download(s)
             \/ \E kept \in BOOLEAN : SlaveRestarts(s, kept)
      PROVE  SafeInv'
  BY <1>4, ExchangeSafe, SlaveSafe, ChipFindsSafe, DownloadSafe, SlaveRestartsSafe
<1>5. CASE UNCHANGED vars
  BY <1>1, <1>5, Steady DEF vars, gateVars, spiVars, faults
<1> QED
  BY <1>2, <1>3, <1>4, <1>5 DEF Next

LEMMA AlwaysSafe == Spec => []IInv
<1>1. Init => IInv
  BY InitType, InitSafe DEF IInv
<1> QED
  BY <1>1, SafeStep, PTL DEF Spec

-----------------------------------------------------------------------------
(* The theorems. *)

\* Whatever exchanges fail and whoever restarts, no nonce of a container is lost
\* silently, and none is submitted more often than it entered a container or an
\* exchange failed or the master restarted (sendNonce, fillTx,
\* processMsg(NonceContainer)).
THEOREM AllNoncesAccounted == Spec => []NoncesAreAccounted
<1>1. IInv => NoncesAreAccounted
  <2> SUFFICES ASSUME IInv, NEW n \in Nonces
               PROVE  submits[n] <= entries[n] + throws + restarts
    BY DEF IInv, SafeInv, NoncesAreAccounted, RepeatsHaveCauses
  <2>1. submits[n] + Debt(0, n) <= entries[n] + throws + restarts
    BY Constants DEF IInv, SafeInv, DebtInv
  <2> QED
    BY <2>1, UsedTypes, DebtType DEF IInv
<1> QED
  BY <1>1, AlwaysSafe, PTL

\* A nonce that the master has not heard leaves a container only for a younger one,
\* with more nonces added than it has slots since the container heard last was copied
\* out, or by a reset of the slave (RoundBuffer::add).
THEOREM OverrunsTakeAWhole == Spec => OverrunTakesAWhole
<1> DEFINE Late == overrun' # overrun => \/ resets' # resets
                                         \/ \E s \in Slaves : ring'[s] # ring[s] /\ since'[s] > Slots
<1>1. ASSUME IInv, NEW s \in Slaves, Download(s), overrun' # overrun
      PROVE  ring'[s] # ring[s] /\ since'[s] > Slots
  <2>1. PICK n \in chips[s] : SendNonce(s, n)
    BY <1>1 DEF Download, DownloadNonce
  <2>2. n \notin Contents(ring[s]) /\ AddNonce(s, n)
    BY <1>1, <2>1 DEF SendNonce
  <2>3. /\ n \in Nonces /\ ring[s] \in Containers /\ tx[s] \in 1 .. Slots /\ since[s] \in Nat
        /\ ring'[s] = [ring[s] EXCEPT ![tx[s]] = n] /\ since'[s] = since[s] + 1
    BY <1>1, <2>2, UsedTypes DEF IInv, TypeInv, TypeOK, AddNonce
  <2>4. ring'[s][tx[s]] = n /\ ring[s][tx[s]] # n
    BY <2>2, <2>3, ContentsOf DEF Containers
  <2>5. ring[s][tx[s]] \notin heard \cup {NoNonce}
    BY <1>1, <2>2, Constants DEF AddNonce, NoNonce
  <2>6. Age(s, tx[s]) = Slots
    BY <2>3, Constants DEF Age
  <2>7. since[s] >= Slots
    BY <1>1, <2>3, <2>5, <2>6, Constants DEF IInv, SafeInv, AgeInv
  <2> QED
    BY <2>3, <2>4, <2>7, Constants
<1>2. ASSUME IInv, [Next]_vars, overrun' # overrun
      PROVE  \/ resets' # resets
             \/ \E s \in Slaves : Download(s)
  <2> USE DEF nonceHist
  <2>1. CASE NewJob \/ JobsCleared \/ PullOscConfig \/ MasterRestarts
    BY <1>2, <2>1 DEF NewJob, JobsCleared, PullOscConfig, MasterRestarts
  <2>2. ASSUME NEW s \in Slaves, Exchange(s) \/ Slave(s) \/ ChipFinds(s)
        PROVE  FALSE
    BY <1>2, <2>2 DEF Exchange, Slave, ChipFinds, Transfer, TransferToBusy, TransferThrows,
                      CheckDataTransfer, FirstTransfer
  <2>3. ASSUME NEW s \in Slaves, NEW kept \in BOOLEAN, SlaveRestarts(s, kept)
        PROVE  resets' # resets
    BY <1>2, <2>3 DEF SlaveRestarts, IInv, TypeInv, TypeOK
  <2>4. CASE UNCHANGED vars
    BY <1>2, <2>4 DEF vars
  <2> QED
    BY <1>2, <2>1, <2>2, <2>3, <2>4 DEF Next
<1>3. IInv /\ [Next]_vars => [Late]_vars
  BY <1>1, <1>2
<1> QED
  BY <1>3, AlwaysSafe, PTL DEF Spec, OverrunTakesAWhole

-----------------------------------------------------------------------------
(* The jobs on their way down. *)

\* A slave changes its job only for a younger one, unless it is reset: a frame that was
\* missed, read late or prepared by an earlier process never brings an old job back
\* (processMsg(PwcMiningData)).
SlavesMoveOn ==
  [][\A s \in Slaves : miningData'[s] # miningData[s] =>
       miningData'[s].work > miningData[s].work \/ resets' # resets]_vars

\* A job of the id of the master's is the master's job, as long as the master does not
\* restart (prepareTxBuffer, processMsg(PwcMiningData)): only ids are compared.
IdsNameJobs ==
  restarts = 0 => \A s \in Slaves :
    job # NoJob /\ miningData[s].id = job.id => miningData[s] = job

JobsOf(s) == {inbox[s].job, miningData[s]}

\* The master's job is the youngest, and a job in a frame is not older than the slave's.
OrderInv ==
  /\ job # NoJob => job.work = works /\ works > 0
  /\ \A s \in Slaves : \A j \in JobsOf(s) :
       j.work <= works /\ (job # NoJob /\ j.work = works => j = job)
  /\ \A s \in Slaves : inbox[s].job # NoJob =>
       inbox[s].job.work > miningData[s].work \/ inbox[s].job = miningData[s]

\* Until the first restart the id of a job tells which one it is.
NameInv ==
  restarts = 0 =>
    /\ jobIdCounter = works
    /\ job # NoJob => job.id = FirstId + job.work
    /\ \A s \in Slaves : \A j \in JobsOf(s) :
         j \in {NoJob, DefaultJob} \/ j.id = FirstId + j.work

JobInv == TypeInv /\ OrderInv /\ NameInv

LEMMA JobTypesUsed ==
  ASSUME TypeInv
  PROVE  /\ job \in Jobs /\ works \in Nat /\ jobIdCounter \in Nat /\ restarts \in Nat
         /\ \A s \in Slaves : \A j \in JobsOf(s) : j.id \in Nat /\ j.work \in Nat
BY Constants DEF TypeInv, TypeOK, Jobs, JobsOf

LEMMA JobsSteady ==
  ASSUME OrderInv, NameInv, UNCHANGED <<poolVars, inbox, miningData, restarts>>
  PROVE  OrderInv' /\ NameInv'
<1>1. OrderInv'
  BY DEF OrderInv, poolVars, JobsOf
<1>2. NameInv'
  BY DEF NameInv, poolVars, JobsOf
<1> QED
  BY <1>1, <1>2

\* The pool gives its jobs as JobSource does.
LEMMA SourceJobs ==
  ASSUME JobInv, NewJob \/ JobsCleared \/ MasterRestarts
  PROVE  OrderInv' /\ NameInv'
<1>1. /\ UNCHANGED <<inbox, miningData>>
      /\ \A s \in Slaves : JobsOf(s)' = JobsOf(s)
  BY DEF NewJob, JobsCleared, MasterRestarts, spiVars, slaveVars, JobsOf
<1>2. CASE NewJob
  <2>1. /\ works' = works + 1 /\ jobIdCounter' = jobIdCounter + 1 /\ restarts' = restarts
        /\ job' = [id |-> FirstId + jobIdCounter', work |-> works']
    BY <1>2 DEF NewJob, Source!NewJob, faults
  <2>2. \A s \in Slaves : \A j \in JobsOf(s) : j.work <= works
    BY DEF JobInv, OrderInv
  <2>3. OrderInv'
    BY <1>1, <2>1, <2>2, JobTypesUsed DEF JobInv, OrderInv
  <2>4. NameInv'
    BY <1>1, <2>1 DEF JobInv, NameInv
  <2> QED
    BY <2>3, <2>4
<1>3. CASE JobsCleared
  <2>1. job' = NoJob /\ UNCHANGED <<works, jobIdCounter, restarts>>
    BY <1>3 DEF JobsCleared, Source!JobsCleared, faults
  <2> QED
    BY <1>1, <2>1 DEF JobInv, OrderInv, NameInv
<1>4. CASE MasterRestarts
  <2>1. job' = NoJob /\ UNCHANGED works /\ restarts' = restarts + 1
    BY <1>4 DEF MasterRestarts, Source!Restart
  <2>2. restarts' # 0
    BY <2>1, JobTypesUsed DEF JobInv
  <2> QED
    BY <1>1, <2>1, <2>2 DEF JobInv, OrderInv, NameInv
<1> QED
  BY <1>2, <1>3, <1>4

\* A frame holds the youngest job or none.
LEMMA FrameJobs ==
  ASSUME JobInv, NEW s \in Slaves, NEW data \in BOOLEAN, NEW mining \in BOOLEAN,
         NEW answer \in BOOLEAN, Transfer(s, data, mining, answer)
  PROVE  OrderInv' /\ NameInv'
<1>1. UNCHANGED <<poolVars, miningData, restarts>>
  BY DEF Transfer, slaveVars, faults
<1>2. /\ inbox'[s].job \in {job, NoJob}
      /\ \A t \in Slaves \ {s} : inbox'[t] = inbox[t]
  BY DEF Transfer, Frame, JobInv, TypeInv, TypeOK
<1>3. \A t \in Slaves : JobsOf(t)' \subseteq JobsOf(t) \cup {job, NoJob}
  BY <1>1, <1>2 DEF JobsOf
<1>4. OrderInv'
  <2>1. NoJob.work = 0
    BY DEF NoJob
  <2>2. \A j \in {job, NoJob} : j.work <= works /\ (job # NoJob /\ j.work = works => j = job)
    BY <2>1, JobTypesUsed DEF JobInv, OrderInv
  <2>3. \A t \in Slaves : \A j \in JobsOf(t)' :
          j.work <= works /\ (job # NoJob /\ j.work = works => j = job)
    BY <1>3, <2>2 DEF JobInv, OrderInv
  <2>4. ASSUME NEW t \in Slaves, inbox'[t].job # NoJob
        PROVE  inbox'[t].job.work > miningData[t].work \/ inbox'[t].job = miningData[t]
    <3>1. CASE t # s
      BY <1>2, <2>4, <3>1 DEF JobInv, OrderInv
    <3>2. CASE t = s
      <4>1. inbox'[s].job = job /\ job # NoJob
        BY <1>2, <2>4, <3>2
      <4>2. /\ miningData[s].work <= works /\ job.work = works
            /\ (miningData[s].work = works => miningData[s] = job)
        BY <4>1 DEF JobInv, OrderInv, JobsOf
      <4>3. miningData[s].work \in Nat /\ works \in Nat
        BY JobTypesUsed DEF JobInv, JobsOf
      <4> QED
        BY <3>2, <4>1, <4>2, <4>3
    <3> QED
      BY <3>1, <3>2
  <2> QED
    BY <1>1, <2>3, <2>4 DEF JobInv, OrderInv, poolVars
<1>5. NameInv'
  BY <1>1, <1>3 DEF JobInv, NameInv, poolVars
<1> QED
  BY <1>4, <1>5

\* A slave takes the job of a frame, or starts from the built-in one.
LEMMA SlaveJobs ==
  ASSUME JobInv, NEW s \in Slaves,
         CheckDataTransfer(s) \/ \E kept \in BOOLEAN : SlaveRestarts(s, kept)
  PROVE  OrderInv' /\ NameInv'
<1>1. UNCHANGED <<poolVars, restarts>>
  BY DEF CheckDataTransfer, SlaveRestarts, faults
<1>2. /\ inbox'[s].job = NoJob /\ miningData'[s] \in JobsOf(s) \cup {DefaultJob}
      /\ \A t \in Slaves \ {s} : inbox'[t] = inbox[t] /\ miningData'[t] = miningData[t]
  <2>1. /\ inbox' = [inbox EXCEPT ![s] = NoFrame]
        /\ \/ miningData' = miningData
           \/ miningData' = [miningData EXCEPT ![s] = inbox[s].job]
           \/ miningData' = [miningData EXCEPT ![s] = DefaultJob]
    BY DEF CheckDataTransfer, SlaveRestarts
  <2>2. DOMAIN inbox = Slaves /\ DOMAIN miningData = Slaves
    BY DEF JobInv, TypeInv, TypeOK
  <2> QED
    BY <2>1, <2>2 DEF NoFrame, JobsOf
<1>3. \A t \in Slaves : JobsOf(t)' \subseteq JobsOf(t) \cup {DefaultJob, NoJob}
  BY <1>2 DEF JobsOf
<1>4. OrderInv'
  <2>1. NoJob.work = 0 /\ DefaultJob.work = 0
    BY DEF NoJob, DefaultJob
  <2>2. \A j \in {DefaultJob, NoJob} :
          j.work <= works /\ (job # NoJob /\ j.work = works => j = job)
    BY <2>1, JobTypesUsed DEF JobInv, OrderInv
  <2>3. \A t \in Slaves : \A j \in JobsOf(t)' :
          j.work <= works /\ (job # NoJob /\ j.work = works => j = job)
    BY <1>3, <2>2 DEF JobInv, OrderInv
  <2>4. \A t \in Slaves : inbox'[t].job # NoJob =>
          inbox'[t].job.work > miningData'[t].work \/ inbox'[t].job = miningData'[t]
    BY <1>2 DEF JobInv, OrderInv
  <2> QED
    BY <1>1, <2>3, <2>4 DEF JobInv, OrderInv, poolVars
<1>5. NameInv'
  BY <1>1, <1>3 DEF JobInv, NameInv, poolVars
<1> QED
  BY <1>4, <1>5

LEMMA JobStep == JobInv /\ [Next]_vars => JobInv'
<1> SUFFICES ASSUME JobInv, [Next]_vars PROVE OrderInv' /\ NameInv'
  BY TypeStep DEF JobInv
<1>1. CASE NewJob \/ JobsCleared \/ MasterRestarts
  BY <1>1, SourceJobs
<1>2. CASE PullOscConfig
  BY <1>2, JobsSteady DEF JobInv, PullOscConfig, spiVars, slaveVars, faults
<1>3. ASSUME NEW s \in Slaves, Exchange(s)
      PROVE  OrderInv' /\ NameInv'
  <2>1. CASE TransferToBusy(s)
    BY <2>1, JobsSteady DEF JobInv, TransferToBusy, spiVars, slaveVars, faults
  <2>2. CASE TransferThrows(s)
    BY <2>2, JobsSteady DEF JobInv, TransferThrows, spiVars, slaveVars
  <2> QED
    BY <1>3, <2>1, <2>2, FrameJobs DEF Exchange
<1>4. ASSUME NEW s \in Slaves, FirstTransfer(s) \/ ChipFinds(s) \/ Download(s)
      PROVE  OrderInv' /\ NameInv'
  <2>1. UNCHANGED <<poolVars, inbox, miningData, restarts>>
    BY <1>4 DEF FirstTransfer, ChipFinds, Download, DownloadNonce, spiVars, slaveVars, faults
  <2> QED
    BY <2>1, JobsSteady DEF JobInv
<1>5. ASSUME NEW s \in Slaves, CheckDataTransfer(s) \/ \E kept \in BOOLEAN : SlaveRestarts(s, kept)
      PROVE  OrderInv' /\ NameInv'
  BY <1>5, SlaveJobs
<1>6. CASE UNCHANGED vars
  BY <1>6, JobsSteady DEF JobInv, vars, spiVars, slaveVars, faults
<1> QED
  BY <1>1, <1>2, <1>3, <1>4, <1>5, <1>6 DEF Next, Slave

LEMMA AlwaysJobInv == Spec => []JobInv
<1>1. Init => OrderInv /\ NameInv
  <2> SUFFICES ASSUME Init PROVE OrderInv /\ NameInv
    OBVIOUS
  <2>1. job = NoJob /\ jobIdCounter = 0 /\ works = 0
    BY DEF Init, Source!Init
  <2>2. \A s \in Slaves : inbox[s].job = NoJob /\ miningData[s] = DefaultJob
    BY DEF Init, NoFrame
  <2>3. NoJob.work = 0 /\ DefaultJob.work = 0
    BY DEF NoJob, DefaultJob
  <2> QED
    BY <2>1, <2>2, <2>3 DEF OrderInv, NameInv, JobsOf
<1> QED
  BY <1>1, InitType, JobStep, PTL DEF Spec, JobInv

\* Until the master restarts, a slave that has a job of the id of the master's has that
\* very job, though only ids are compared (processMsg(PwcMiningData)).
THEOREM IdsAlwaysNameJobs == Spec => []IdsNameJobs
<1>1. JobInv => IdsNameJobs
  <2> SUFFICES ASSUME JobInv, restarts = 0, NEW s \in Slaves, job # NoJob,
                      miningData[s].id = job.id
               PROVE  miningData[s] = job
    BY DEF IdsNameJobs
  <2>1. job.id = FirstId + job.work /\ job.work = works
    BY DEF JobInv, OrderInv, NameInv
  <2>2. miningData[s] \in {NoJob, DefaultJob} \/ miningData[s].id = FirstId + miningData[s].work
    BY DEF JobInv, NameInv, JobsOf
  <2>3. works \in Nat /\ miningData[s].work \in Nat
    BY JobTypesUsed DEF JobInv, JobsOf
  <2>4. miningData[s].id >= FirstId
    BY <2>1, <2>3 DEF FirstId
  <2>5. miningData[s].id = FirstId + miningData[s].work
    BY <2>2, <2>4 DEF NoJob, DefaultJob, FirstId
  <2>6. miningData[s].work = works
    BY <2>1, <2>3, <2>5 DEF FirstId
  <2> QED
    BY <2>6 DEF JobInv, OrderInv, JobsOf
<1> QED
  BY <1>1, AlwaysJobInv, PTL

\* No lost, late or stale frame and no restart of the master takes a slave back to an
\* older job: it moves on, or is reset.
THEOREM SlavesAlwaysMoveOn == Spec => SlavesMoveOn
<1> DEFINE Moves == \A s \in Slaves : miningData'[s] # miningData[s] =>
                      miningData'[s].work > miningData[s].work \/ resets' # resets
<1>1. JobInv /\ [Next]_vars => [Moves]_vars
  <2> SUFFICES ASSUME JobInv, Next, NEW s \in Slaves, miningData'[s] # miningData[s]
               PROVE  miningData'[s].work > miningData[s].work \/ resets' # resets
    OBVIOUS
  <2>1. \/ CheckDataTransfer(s)
        \/ \E t \in Slaves, kept \in BOOLEAN : SlaveRestarts(t, kept)
    <3>1. CASE NewJob \/ JobsCleared \/ PullOscConfig \/ MasterRestarts
      BY <3>1 DEF NewJob, JobsCleared, PullOscConfig, MasterRestarts, slaveVars
    <3>2. ASSUME NEW t \in Slaves, Exchange(t) \/ FirstTransfer(t) \/ ChipFinds(t) \/ Download(t)
          PROVE  FALSE
      BY <3>2 DEF Exchange, Transfer, TransferToBusy, TransferThrows, FirstTransfer, ChipFinds,
                  Download, DownloadNonce, slaveVars
    <3>3. ASSUME NEW t \in Slaves \ {s}, CheckDataTransfer(t)
          PROVE  FALSE
      <4>1. miningData' = miningData \/ miningData' = [miningData EXCEPT ![t] = inbox[t].job]
        BY <3>3 DEF CheckDataTransfer
      <4>2. DOMAIN miningData = Slaves
        BY DEF JobInv, TypeInv, TypeOK
      <4> QED
        BY <4>1, <4>2
    <3> QED
      BY <3>1, <3>2, <3>3 DEF Next, Slave
  <2>2. CASE CheckDataTransfer(s)
    <3>1. miningData'[s] = inbox[s].job /\ inbox[s].job # NoJob
      BY <2>2 DEF CheckDataTransfer, JobInv, TypeInv, TypeOK
    <3> QED
      BY <3>1 DEF JobInv, OrderInv
  <2>3. CASE \E t \in Slaves, kept \in BOOLEAN : SlaveRestarts(t, kept)
    <3>1. resets' = resets + 1 /\ resets \in Nat
      BY <2>3, Constants DEF SlaveRestarts, JobInv, TypeInv, TypeOK
    <3> QED
      BY <3>1
  <2> QED
    BY <2>1, <2>2, <2>3
<1> QED
  BY <1>1, AlwaysJobInv, PTL DEF Spec, SlavesMoveOn
=============================================================================
