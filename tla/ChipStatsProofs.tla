-------------------------- MODULE ChipStatsProofs --------------------------
(***************************************************************************)
(* For a chain of any length, an array of any size and any number of        *)
(* faults: the master has only a chip's own blocks, unless its place was    *)
(* given to another or another slave's answer was left in the buffer, and   *)
(* never counts more than a chip found, unless two lives or chips were      *)
(* mixed.                                                                   *)
(***************************************************************************)
EXTENDS ChipStats, FiniteSetTheorems, SequenceTheorems, TLAPS

Typed ==
  /\ conf \in [Chips -> Chips \cup {NoChip}]
  /\ block \in [Chips -> Blocks] /\ ready \in [Chips -> BOOLEAN]
  /\ currentSeq \in Chips
  /\ items \in Seq(Items) /\ reply \in Seq(Items) /\ rxBuffer \in Seq(Items)
  /\ pwcSharedData \in [Chips -> Blocks] /\ totalSolByDiff \in [Chips -> Nat]
  /\ past \in [Chips -> [Lives -> Nat]] /\ life \in [Chips -> Lives]
  /\ taken \subseteq Chips /\ strayed \subseteq Chips /\ mixed \subseteq Chips
  /\ masterRestarts \in Nat /\ faults \in Lives
  /\ \A c \in Chips : life[c] <= faults

\* A chip stands where the slave takes it to be, or where it took another; what is in
\* its exchange zone is its own and of this life.
ChipInv ==
  \A c \in Chips :
    /\ conf[c] \notin {c, NoChip} => conf[c] \in taken
    /\ ready[c] => conf[c] # NoChip /\ block[c].of = c /\ block[c].life = life[c]

PastInv ==
  \A c \in Chips : \A k, l \in Lives : k <= l => past[c][k] <= past[c][l]

\* Block b is one that chip c wrote at some time, if it is its.
Known(c, b) ==
  b.of = c =>
    /\ b.life <= life[c]
    /\ b.life = life[c] => b.time <= block[c].time /\ b.sol <= block[c].sol
    /\ b.life < life[c] => past[c][b.life] + b.sol <= past[c][b.life + 1]

\* b1 is not younger than b2, if c wrote both.
Before(c, b1, b2) ==
  b1.of = c /\ b2.of = c =>
    b1.life < b2.life \/ (b1.life = b2.life /\ b1.time <= b2.time /\ b1.sol <= b2.sol)

Sound(c, b) == Known(c, b) /\ (b.of # c => b.of # NoChip /\ c \in taken)

\* What the master may hold for chip c.
Held(c, b) == Known(c, b) /\ (b.of \notin {c, NoChip} => c \in taken \cup strayed)

OneBlockEach(array) ==
  \A i, j \in DOMAIN array : array[i].chip = array[j].chip => array[i].data = array[j].data

SoundArray(array) ==
  /\ \A i \in DOMAIN array : Sound(array[i].chip, array[i].data)
  /\ OneBlockEach(array)
  /\ \A i \in DOMAIN array :
       Before(array[i].chip, pwcSharedData[array[i].chip], array[i].data)

DataInv ==
  /\ SoundArray(items) /\ SoundArray(reply)
  /\ \A i \in DOMAIN reply, j \in DOMAIN items : reply[i].chip = items[j].chip =>
       Before(reply[i].chip, reply[i].data, items[j].data)
  /\ \A c \in Chips : Held(c, pwcSharedData[c])

\* What is in the buffer was taken.
RxInv == \A i \in DOMAIN rxBuffer : pwcSharedData[rxBuffer[i].chip] = rxBuffer[i].data

\* A total is accounted for by the block it was made with.
CountInv ==
  \A c \in Chips \ mixed :
    /\ pwcSharedData[c].of = NoChip => pwcSharedData[c] = NoBlock /\ totalSolByDiff[c] = 0
    /\ pwcSharedData[c].of # NoChip =>
         /\ pwcSharedData[c].of = c
         /\ totalSolByDiff[c] <= past[c][pwcSharedData[c].life] + pwcSharedData[c].sol
         /\ life[c] = 0 /\ masterRestarts = 0 => totalSolByDiff[c] = pwcSharedData[c].sol

IInv == Typed /\ ChipInv /\ PastInv /\ DataInv /\ RxInv /\ CountInv

-----------------------------------------------------------------------------
(* The operators. *)

LEMMA NoBlockType ==
  NoBlock \in Blocks
BY StatsAssumption DEF NoBlock, Blocks, Lives

LEMMA NoChipIsNone ==
  NoChip \notin Chips
BY StatsAssumption DEF NoChip, Chips

\* A life before another one is not the last.
LEMMA NextLife ==
  ASSUME NEW k \in Lives, NEW l \in Lives, k < l
  PROVE  k + 1 \in Lives /\ k + 1 <= l
PROOF
<1>1. MaxFaults \in Nat BY StatsAssumption
<1> QED BY <1>1 DEF Lives

\* A difference of counters that grew is the difference.
LEMMA DifferenceExact ==
  ASSUME NEW b1 \in Blocks, NEW b2 \in Blocks, b1.sol <= b2.sol
  PROVE  Difference(b1, b2) = b2.sol - b1.sol
PROOF
<1>1. b1.sol \in 0 .. MaxTime /\ b2.sol \in 0 .. MaxTime BY DEF Blocks
<1>2. MaxTime \in Nat /\ Word \in Nat /\ Word > MaxTime BY StatsAssumption
<1> QED BY <1>1, <1>2 DEF Difference

LEMMA DifferenceType ==
  ASSUME NEW b1 \in Blocks, NEW b2 \in Blocks
  PROVE  Difference(b1, b2) \in Nat
PROOF
<1>1. b1.sol \in 0 .. MaxTime /\ b2.sol \in 0 .. MaxTime BY DEF Blocks
<1>2. MaxTime \in Nat /\ Word \in Nat /\ Word > 0 BY StatsAssumption
<1>3. b2.sol - b1.sol \in Int BY <1>1, <1>2
<1>4. \A x \in Int : x % Word \in 0 .. Word - 1 BY <1>2
<1> QED BY <1>2, <1>3, <1>4 DEF Difference

LEMMA ItemTypes ==
  ASSUME NEW array \in Seq(Items)
  PROVE  \A i \in DOMAIN array : array[i].chip \in Chips /\ array[i].data \in Blocks
PROOF
<1>1. \A i \in DOMAIN array : array[i] \in Items OBVIOUS
<1> QED BY <1>1 DEF Items

\* sendPwcData: a place holds the new block, or another chip's block as before.
LEMMA SendEffect ==
  ASSUME items \in Seq(Items), NEW c \in Chips, NEW d \in Blocks, SendPwcData(c, d)
  PROVE  /\ items' \in Seq(Items)
         /\ \A i \in DOMAIN items' :
              \/ items'[i] = [chip |-> c, data |-> d]
              \/ i \in DOMAIN items /\ items'[i] = items[i] /\ items[i].chip # c
PROOF
<1> DEFINE item == [chip |-> c, data |-> d]
<1>1. item \in Items BY DEF Items
<1>2. CASE PlacesOf(c) # {}
  <2>1. items' = [i \in DOMAIN items |-> IF i \in PlacesOf(c) THEN item ELSE items[i]]
    BY <1>2 DEF SendPwcData
  <2> DEFINE f(i) == IF i \in PlacesOf(c) THEN item ELSE items[i]
  <2>4. \A i \in DOMAIN items : f(i) \in Items BY <1>1
  <2>5. items' = [i \in 1 .. Len(items) |-> f(i)] BY <2>1
  <2> HIDE DEF f
  <2>6. items' \in [1 .. Len(items) -> Items] BY <2>4, <2>5
  <2>2. items' \in Seq(Items) BY <2>6, SeqDef
  <2>3. \A i \in DOMAIN items : i \notin PlacesOf(c) => items[i].chip # c BY DEF PlacesOf
  <2> QED BY <2>1, <2>2, <2>3
<1>3. CASE PlacesOf(c) = {}
  <2>1. \A i \in DOMAIN items : items[i].chip # c BY <1>3 DEF PlacesOf
  <2>2. CASE Len(items) < MaxItems
    <3>1. items' = Append(items, item) BY <1>3, <2>2 DEF SendPwcData
    <3> QED BY <3>1, <1>1, <2>1
  <2>3. CASE ~(Len(items) < MaxItems) /\ MayReplace(c)
    <3> DEFINE h == HighestTxIdIndex
    <3>1. items' = [items EXCEPT ![h] = item] BY <1>3, <2>3 DEF SendPwcData
    <3> HIDE DEF h
    <3>2. DOMAIN items' = DOMAIN items BY <3>1
    <3>3. \A i \in DOMAIN items : items'[i] = item \/ items'[i] = items[i] BY <3>1
    <3>5. items \in [1 .. Len(items) -> Items] /\ Len(items) \in Nat OBVIOUS
    <3>6. items' \in [1 .. Len(items) -> Items] BY <3>1, <3>5, <1>1
    <3>4. items' \in Seq(Items) BY <3>5, <3>6, SeqDef
    <3> QED BY <2>1, <3>2, <3>3, <3>4
  <2>4. CASE ~(Len(items) < MaxItems) /\ ~MayReplace(c)
    <3>1. items' = items BY <1>3, <2>4 DEF SendPwcData
    <3> QED BY <3>1, <2>1
  <2> QED BY <2>2, <2>3, <2>4
<1> QED BY <1>2, <1>3

-----------------------------------------------------------------------------
(* The steps. *)

LEMMA InitIInv ==
  Init => IInv
PROOF
<1> SUFFICES ASSUME Init PROVE IInv OBVIOUS
<1>1. NoBlock \in Blocks BY NoBlockType
<1>2. << >> \in Seq(Items) OBVIOUS
<1>3. 0 \in Lives BY StatsAssumption DEF Lives
<1>8. 0 \in Chips BY StatsAssumption DEF Chips
<1>4. Typed BY <1>1, <1>2, <1>3, <1>8 DEF Init, Typed
<1>5. ChipInv /\ PastInv BY NoChipIsNone DEF Init, ChipInv, PastInv
<1>6. DataInv /\ RxInv
  <2>1. \A c \in Chips : Held(c, NoBlock) BY NoChipIsNone DEF Held, Known, NoBlock
  <2> QED BY <2>1 DEF Init, DataInv, RxInv, SoundArray, OneBlockEach
<1>7. CountInv BY DEF Init, CountInv, NoBlock
<1> QED BY <1>4, <1>5, <1>6, <1>7 DEF IInv

LEMMA ReportIInv ==
  ASSUME IInv, NEW c \in Chips, Report(c)
  PROVE  IInv'
PROOF
<1>1. PICK t \in block[c].time .. MaxTime : \E s \in block[c].sol .. t :
        block' = [block EXCEPT ![c] = [time |-> t, sol |-> s, of |-> c, life |-> life[c]]]
  BY DEF Report
<1>2. PICK s \in block[c].sol .. t :
        block' = [block EXCEPT ![c] = [time |-> t, sol |-> s, of |-> c, life |-> life[c]]]
  BY <1>1
<1>3. block[c].time \in 0 .. MaxTime /\ block[c].sol \in 0 .. MaxTime /\ life[c] \in Lives
  BY DEF IInv, Typed, Blocks
<1>4. MaxTime \in Nat BY StatsAssumption
<1>5. [time |-> t, sol |-> s, of |-> c, life |-> life[c]] \in Blocks
  BY <1>1, <1>2, <1>3, <1>4 DEF Blocks
<1>6. Typed' BY <1>2, <1>5 DEF IInv, Typed, Report, slaveVars, masterVars, faultVars
<1>12. RxInv' BY DEF IInv, RxInv, Report, masterVars
<1>7. ChipInv' BY <1>2 DEF IInv, Typed, ChipInv, Report
<1>8. PastInv' BY DEF IInv, PastInv, Report
<1>9. \A a \in Chips : \A b \in Blocks : Known(a, b) => Known(a, b)'
  <2> SUFFICES ASSUME NEW a \in Chips, NEW b \in Blocks, Known(a, b)
               PROVE  Known(a, b)'
    OBVIOUS
  <2>1. UNCHANGED <<past, life>> BY DEF Report
  <2>2. CASE a # c
    <3>1. block'[a] = block[a] BY <1>2, <2>2 DEF IInv, Typed
    <3> QED BY <2>1, <3>1 DEF Known
  <2>3. CASE a = c
    <3>1. block'[c].time = t /\ block'[c].sol = s BY <1>2 DEF IInv, Typed
    <3>2. b.time \in Nat /\ b.sol \in Nat BY <1>4 DEF Blocks
    <3>3. t \in Nat /\ block[c].time <= t /\ s \in Nat /\ block[c].sol <= s
      BY <1>3, <1>4
    <3>4. block[c].time \in Nat /\ block[c].sol \in Nat BY <1>3, <1>4
    <3> QED BY <2>1, <2>3, <3>1, <3>2, <3>3, <3>4 DEF Known
  <2> QED BY <2>2, <2>3
<1>10. DataInv'
  <2>1. UNCHANGED <<items, reply, pwcSharedData, taken, strayed>>
    BY DEF Report, slaveVars, masterVars
  <2>2. \A a \in Chips : \A b \in Blocks :
          (Sound(a, b) => Sound(a, b)') /\ (Held(a, b) => Held(a, b)')
    BY <1>9, <2>1 DEF Sound, Held
  <2>3. \A i \in DOMAIN items : items[i].chip \in Chips /\ items[i].data \in Blocks
    BY ItemTypes DEF IInv, Typed
  <2>4. \A i \in DOMAIN reply : reply[i].chip \in Chips /\ reply[i].data \in Blocks
    BY ItemTypes DEF IInv, Typed
  <2>5. \A a \in Chips : pwcSharedData[a] \in Blocks BY DEF IInv, Typed
  <2> QED BY <2>1, <2>2, <2>3, <2>4, <2>5 DEF IInv, DataInv, SoundArray, OneBlockEach, Before
<1>11. CountInv'
  BY DEF IInv, CountInv, Report, masterVars, faultVars
<1> QED BY <1>6, <1>7, <1>8, <1>10, <1>11, <1>12 DEF IInv

LEMMA ChipRestartsIInv ==
  ASSUME IInv, NEW c \in Chips, ChipRestarts(c)
  PROVE  IInv'
PROOF
<1> DEFINE newPast == [l \in Lives |-> IF l > life[c] THEN past[c][life[c]] + block[c].sol
                                                    ELSE past[c][l]]
<1>1. /\ life' = [life EXCEPT ![c] = @ + 1]
      /\ past' = [past EXCEPT ![c] = newPast]
      /\ conf' = [conf EXCEPT ![c] = NoChip]
      /\ block' = [block EXCEPT ![c] = NoBlock]
      /\ ready' = [ready EXCEPT ![c] = FALSE]
      /\ faults' = faults + 1 /\ faults < MaxFaults
      /\ UNCHANGED <<currentSeq, items, reply, rxBuffer, pwcSharedData, totalSolByDiff,
                     strayed, mixed, taken, masterRestarts>>
  BY DEF ChipRestarts, Fault, slaveVars, masterVars
<1>2. /\ life[c] \in Lives /\ life[c] <= faults /\ faults \in Lives
      /\ past[c] \in [Lives -> Nat] /\ block[c].sol \in Nat /\ block[c].time \in Nat
  <2>1. block[c] \in Blocks BY DEF IInv, Typed
  <2>2. block[c].sol \in Nat /\ block[c].time \in Nat
    BY <2>1, StatsAssumption DEF Blocks
  <2> QED BY <2>2 DEF IInv, Typed
<1>3. MaxFaults \in Nat BY StatsAssumption
<1>4. newPast \in [Lives -> Nat]
  <2>1. past[c][life[c]] \in Nat BY <1>2
  <2> QED BY <1>2, <2>1
<1>5. Typed'
  <2>1. life[c] + 1 \in Lives /\ faults' \in Lives BY <1>1, <1>2, <1>3 DEF Lives
  <2>2. life' \in [Chips -> Lives] BY <1>1, <2>1 DEF IInv, Typed
  <2>3. past' \in [Chips -> [Lives -> Nat]] BY <1>1, <1>4 DEF IInv, Typed
  <2>4. \A a \in Chips : life'[a] <= faults'
    <3>1. \A a \in Chips : life[a] \in Lives /\ life[a] <= faults BY DEF IInv, Typed
    <3>2. \A a \in Chips : life'[a] = IF a = c THEN life[a] + 1 ELSE life[a]
      BY <1>1 DEF IInv, Typed
    <3> QED BY <1>1, <1>2, <1>3, <3>1, <3>2 DEF Lives
  <2> QED BY <1>1, <2>1, <2>2, <2>3, <2>4, NoBlockType DEF IInv, Typed
<1>6. ChipInv' BY <1>1 DEF IInv, Typed, ChipInv
<1>7. \A k, l \in Lives : k <= l => newPast[k] <= newPast[l]
  <2> SUFFICES ASSUME NEW k \in Lives, NEW l \in Lives, k <= l
               PROVE  newPast[k] <= newPast[l]
    OBVIOUS
  <2>1. past[c][k] \in Nat /\ past[c][l] \in Nat /\ past[c][life[c]] \in Nat BY <1>2
  <2>2. past[c][k] <= past[c][l] BY DEF IInv, PastInv
  <2>3. k <= life[c] => past[c][k] <= past[c][life[c]] BY <1>2 DEF IInv, PastInv
  <2>4. \A m \in Lives : newPast[m] = IF m > life[c] THEN past[c][life[c]] + block[c].sol
                                                    ELSE past[c][m]
    OBVIOUS
  <2>5. k \in Int /\ l \in Int /\ life[c] \in Int BY <1>2 DEF Lives
  <2> HIDE DEF newPast
  <2>6. CASE k > life[c]
    <3>1. l > life[c] BY <2>5, <2>6
    <3>2. newPast[k] = newPast[l] /\ newPast[k] \in Nat BY <1>2, <2>1, <2>4, <2>6, <3>1
    <3> QED BY <3>2
  <2>7. CASE ~(k > life[c])
    <3>1. newPast[k] = past[c][k] /\ past[c][k] <= past[c][life[c]]
      BY <2>3, <2>4, <2>5, <2>7
    <3>2. CASE l > life[c]
      <4>1. newPast[l] = past[c][life[c]] + block[c].sol BY <2>4, <3>2
      <4> QED BY <1>2, <2>1, <3>1, <4>1
    <3>3. CASE ~(l > life[c])
      <4>1. newPast[l] = past[c][l] BY <2>4, <3>3
      <4> QED BY <2>2, <3>1, <4>1
    <3> QED BY <3>2, <3>3
  <2> QED BY <2>6, <2>7
<1>8. PastInv'
  <2>1. \A a \in Chips : past'[a] = IF a = c THEN newPast ELSE past[a]
    BY <1>1 DEF IInv, Typed
  <2>2. ASSUME NEW a \in Chips, NEW k \in Lives, NEW l \in Lives, k <= l
        PROVE  past'[a][k] <= past'[a][l]
    <3> HIDE DEF newPast
    <3>1. CASE a = c BY <1>7, <2>1, <2>2, <3>1
    <3>2. CASE a # c BY <2>1, <2>2, <3>2 DEF IInv, PastInv
    <3> QED BY <3>1, <3>2
  <2> QED BY <2>2 DEF PastInv
<1>9. \A a \in Chips : \A b \in Blocks : Known(a, b) => Known(a, b)'
  <2> SUFFICES ASSUME NEW a \in Chips, NEW b \in Blocks, Known(a, b)
               PROVE  Known(a, b)'
    OBVIOUS
  <2>1. CASE a # c BY <1>1, <2>1 DEF IInv, Typed, Known
  <2>2. CASE a = c /\ b.of = c
    <3>1. b.life \in Lives /\ b.sol \in Nat BY StatsAssumption DEF Blocks
    <3>2. life'[c] = life[c] + 1 /\ past'[c] = newPast BY <1>1 DEF IInv, Typed
    <3>3. b.life <= life[c] BY <2>2 DEF Known
    <3>4. life[c] + 1 \in Lives BY <1>1, <1>2, <1>3 DEF Lives
    <3>5. CASE b.life = life[c]
      <4>1. b.sol <= block[c].sol BY <2>2, <3>5 DEF Known
      <4>2. newPast[b.life] = past[c][life[c]] BY <1>2, <3>5 DEF Lives
      <4>3. newPast[b.life + 1] = past[c][life[c]] + block[c].sol
        BY <1>2, <3>4, <3>5 DEF Lives
      <4>4. past[c][life[c]] \in Nat BY <1>2
      <4> HIDE DEF newPast
      <4>5. life[c] \in Int BY <1>2 DEF Lives
      <4>6. b.life <= life'[c] /\ b.life # life'[c] BY <3>2, <3>5, <4>5
      <4>7. past'[c][b.life] + b.sol <= past'[c][b.life + 1]
        BY <1>2, <3>1, <3>2, <4>1, <4>2, <4>3, <4>4
      <4> QED BY <2>2, <4>6, <4>7 DEF Known
    <3>6. CASE b.life < life[c]
      <4>1. b.life + 1 \in Lives /\ b.life + 1 <= life[c]
        BY <1>2, <3>1, <3>6, NextLife
      <4>2. newPast[b.life] = past[c][b.life] BY <1>2, <3>1, <3>6 DEF Lives
      <4>3. newPast[b.life + 1] = past[c][b.life + 1] BY <1>2, <4>1 DEF Lives
      <4> HIDE DEF newPast
      <4>4. b.life \in Int /\ life[c] \in Int BY <1>2, <3>1 DEF Lives
      <4>5. b.life <= life'[c] /\ b.life # life'[c] BY <3>2, <3>6, <4>4
      <4>6. past[c][b.life] + b.sol <= past[c][b.life + 1] BY <2>2, <3>6 DEF Known
      <4>7. past'[c][b.life] + b.sol <= past'[c][b.life + 1] BY <3>2, <4>2, <4>3, <4>6
      <4> QED BY <2>2, <4>5, <4>7 DEF Known
    <3> QED BY <1>2, <3>1, <3>3, <3>5, <3>6 DEF Lives
  <2>3. CASE b.of # a BY <2>3 DEF Known
  <2> QED BY <2>1, <2>2, <2>3
<1>10. DataInv'
  <2>1. \A a \in Chips : \A b \in Blocks :
          (Sound(a, b) => Sound(a, b)') /\ (Held(a, b) => Held(a, b)')
    BY <1>1, <1>9 DEF Sound, Held
  <2>2. \A i \in DOMAIN items : items[i].chip \in Chips /\ items[i].data \in Blocks
    BY ItemTypes DEF IInv, Typed
  <2>3. \A i \in DOMAIN reply : reply[i].chip \in Chips /\ reply[i].data \in Blocks
    BY ItemTypes DEF IInv, Typed
  <2>4. \A a \in Chips : pwcSharedData[a] \in Blocks BY DEF IInv, Typed
  <2> QED BY <1>1, <2>1, <2>2, <2>3, <2>4 DEF IInv, DataInv, SoundArray, OneBlockEach, Before
<1>12. RxInv' BY <1>1 DEF IInv, RxInv
<1>11. CountInv'
  <2> SUFFICES ASSUME NEW a \in Chips \ mixed, pwcSharedData[a].of # NoChip
               PROVE  /\ totalSolByDiff[a] <= past'[a][pwcSharedData[a].life]
                                                + pwcSharedData[a].sol
                      /\ life'[a] = 0 => life[a] = 0
    BY <1>1 DEF IInv, CountInv
  <2>1. CASE a # c BY <1>1, <2>1 DEF IInv, Typed, CountInv
  <2>2. CASE a = c
    <3> DEFINE b == pwcSharedData[c]
    <3>1. b \in Blocks /\ b.of = c /\ Known(c, b)
      BY <2>2, NoChipIsNone DEF IInv, Typed, CountInv, DataInv, Held
    <3>2. b.life \in Lives /\ b.life <= life[c] BY <3>1 DEF Blocks, Known
    <3>3. newPast[b.life] = past[c][b.life] BY <1>2, <3>2 DEF Lives
    <3>4. past'[c] = newPast /\ life'[c] = life[c] + 1 BY <1>1 DEF IInv, Typed
    <3> HIDE DEF newPast
    <3> QED BY <1>2, <2>2, <3>3, <3>4 DEF IInv, CountInv, Lives
  <2> QED BY <2>1, <2>2
<1> QED BY <1>5, <1>6, <1>8, <1>10, <1>11, <1>12 DEF IInv

LEMMA NextChip ==
  ASSUME currentSeq \in Chips, GotoNextChip
  PROVE  currentSeq' \in Chips /\ checked' \in BOOLEAN
PROOF
<1>1. NumChips \in Nat /\ NumChips > 0 BY StatsAssumption
<1>2. currentSeq + 1 \in Int BY <1>1 DEF Chips
<1>3. \A n \in Int : n % NumChips \in 0 .. NumChips - 1 BY <1>1
<1>4. currentSeq' \in Chips BY <1>2, <1>3 DEF GotoNextChip, NextSeq, Chips
<1>5. checked' \in BOOLEAN BY DEF GotoNextChip
<1> QED BY <1>4, <1>5

\* A read that fills the array: the block a chip is asked for goes into it, or nothing.
LEMMA ServiceIInv ==
  ASSUME IInv, NEW c \in Chips, NEW a \in Chips, NEW acked \in BOOLEAN,
         Service(c, a, acked)
  PROVE  IInv'
PROOF
<1>1. /\ conf' = [conf EXCEPT ![a] = IF @ = NoChip THEN c ELSE @]
      /\ UNCHANGED <<block, past, life, reply, rxBuffer, pwcSharedData, totalSolByDiff,
                     strayed, mixed, masterRestarts>>
  BY DEF Service, LoadConfigTo, masterVars
<1>2. ready' = ready \/ ready' = [ready EXCEPT ![a] = FALSE]
  BY DEF Service, DownloadStatsFrom
<1>3. /\ taken \subseteq taken' /\ taken' \subseteq Chips
      /\ faults' \in Lives /\ faults <= faults'
      /\ conf[a] = NoChip /\ a # c => c \in taken'
  <2>1. MaxFaults \in Nat /\ faults \in 0 .. MaxFaults
    BY StatsAssumption DEF IInv, Typed, Lives
  <2>2. faults' = faults \/ (faults < MaxFaults /\ faults' = faults + 1)
    BY DEF Service, LoadConfigTo, Fault
  <2>3. taken' = taken \/ taken' = taken \cup {c} BY DEF Service, LoadConfigTo
  <2>4. conf[a] = NoChip /\ a # c => c \in taken' BY DEF Service, LoadConfigTo
  <2>5. taken \subseteq Chips BY DEF IInv, Typed
  <2> QED BY <2>1, <2>2, <2>3, <2>4, <2>5 DEF Lives
<1>4. \/ UNCHANGED items
      \/ ready[a] /\ conf[a] = c /\ SendPwcData(c, block[a])
  BY DEF Service, DownloadStatsFrom, IsOfPlace
<1>5. block[a] \in Blocks /\ items \in Seq(Items) /\ reply \in Seq(Items)
  BY DEF IInv, Typed
<1>6. /\ items' \in Seq(Items)
      /\ \A i \in DOMAIN items' :
           \/ /\ items'[i] = [chip |-> c, data |-> block[a]]
              /\ ready[a] /\ conf[a] = c
           \/ /\ i \in DOMAIN items /\ items'[i] = items[i]
              /\ items[i].chip = c => items' = items
  BY <1>4, <1>5, SendEffect
<1>7. Typed'
  <2>1. conf' \in [Chips -> Chips \cup {NoChip}] /\ ready' \in [Chips -> BOOLEAN]
    BY <1>1, <1>2 DEF IInv, Typed
  <2>2. \A d \in Chips : life'[d] <= faults'
    <3>1. \A d \in Chips : life[d] <= faults /\ life[d] \in Lives BY DEF IInv, Typed
    <3>2. faults \in Lives /\ MaxFaults \in Nat BY StatsAssumption DEF IInv, Typed
    <3> QED BY <1>1, <1>3, <3>1, <3>2 DEF Lives
  <2>3. currentSeq' \in Chips BY NextChip DEF IInv, Typed, Service
  <2> QED BY <1>1, <1>3, <1>6, <2>1, <2>2, <2>3 DEF IInv, Typed
<1>8. ChipInv' BY <1>1, <1>2, <1>3, NoChipIsNone DEF IInv, Typed, ChipInv
<1>9. PastInv' BY <1>1 DEF IInv, PastInv
<1>10. CountInv' BY <1>1 DEF IInv, CountInv
<1>14. RxInv' BY <1>1 DEF IInv, RxInv
<1>11. \A d \in Chips : \A b \in Blocks :
         (Sound(d, b) => Sound(d, b)') /\ (Held(d, b) => Held(d, b)')
  BY <1>1, <1>3 DEF Sound, Held, Known
<1>12. ready[a] /\ conf[a] = c =>
         /\ Sound(c, block[a])'
         /\ \A b \in Blocks : Known(c, b) => Before(c, b, block[a])
  <2> SUFFICES ASSUME ready[a], conf[a] = c
               PROVE  /\ Sound(c, block[a])'
                      /\ \A b \in Blocks : Known(c, b) => Before(c, b, block[a])
    OBVIOUS
  <2>1. block[a].of = a /\ block[a].life = life[a] BY DEF IInv, ChipInv
  <2>2. a # c => c \in taken BY NoChipIsNone DEF IInv, ChipInv
  <2>3. Sound(c, block[a])
    BY <1>5, <2>1, <2>2, NoChipIsNone DEF Sound, Known, Blocks, Lives
  <2>4. ASSUME NEW b \in Blocks, Known(c, b) PROVE Before(c, b, block[a])
    <3>1. b.life \in Lives /\ life[c] \in Lives BY DEF Blocks, IInv, Typed
    <3> QED BY <2>1, <2>4, <3>1 DEF Before, Known, Lives
  <2>5. Sound(c, block[a])' BY <1>1, <1>5, <1>11, <2>3
  <2> QED BY <2>4, <2>5
<1>13. DataInv'
  <2>1. \A i \in DOMAIN items : items[i].chip \in Chips /\ items[i].data \in Blocks
    BY ItemTypes, <1>5
  <2>2. \A i \in DOMAIN reply : reply[i].chip \in Chips /\ reply[i].data \in Blocks
    BY ItemTypes, <1>5
  <2>3. \A d \in Chips : pwcSharedData[d] \in Blocks BY DEF IInv, Typed
  <2>4. (\A i \in DOMAIN items : Sound(items[i].chip, items[i].data))'
    <3> SUFFICES ASSUME NEW i \in DOMAIN items'
                 PROVE  Sound(items[i].chip, items[i].data)'
      OBVIOUS
    <3>1. CASE i \in DOMAIN items /\ items'[i] = items[i]
      <4>1. Sound(items[i].chip, items[i].data) BY <3>1 DEF IInv, DataInv, SoundArray
      <4> DEFINE d == items[i].chip
                 b == items[i].data
      <4>2. d \in Chips /\ b \in Blocks /\ d' = d /\ b' = b BY <2>1, <3>1
      <4> QED BY <1>11, <3>1, <4>1, <4>2 DEF Sound, Known
    <3>2. CASE items'[i] = [chip |-> c, data |-> block[a]] /\ ready[a] /\ conf[a] = c
      BY <1>1, <1>12, <3>2 DEF Sound, Known
    <3> QED BY <1>6, <3>1, <3>2
  <2>5. \A i, j \in DOMAIN items' :
          items'[i].chip = items'[j].chip => items'[i].data = items'[j].data
    BY <1>6 DEF IInv, DataInv, SoundArray, OneBlockEach
  <2>6. \A i \in DOMAIN items' :
          Before(items'[i].chip, pwcSharedData[items'[i].chip], items'[i].data)
    <3>1. Known(c, pwcSharedData[c]) BY DEF IInv, DataInv, Held
    <3>2. ready[a] /\ conf[a] = c => Before(c, pwcSharedData[c], block[a])
      BY <1>12, <2>3, <3>1, NoChipIsNone DEF Before
    <3> QED BY <1>6, <3>2 DEF IInv, DataInv, SoundArray
  <2>7. \A i \in DOMAIN reply, j \in DOMAIN items' : reply[i].chip = items'[j].chip =>
          Before(reply[i].chip, reply[i].data, items'[j].data)
    BY <1>6, <1>12, <2>2 DEF IInv, DataInv, SoundArray, Sound
  <2>8. SoundArray(reply)'
    BY <1>1, <1>11, <2>2 DEF IInv, DataInv, SoundArray, OneBlockEach, Before
  <2>9. SoundArray(items)'
    BY <1>1, <2>4, <2>5, <2>6 DEF SoundArray, OneBlockEach, Before
  <2> QED BY <1>1, <1>11, <2>3, <2>7, <2>8, <2>9 DEF IInv, DataInv, Before
<1> QED BY <1>7, <1>8, <1>9, <1>10, <1>13, <1>14 DEF IInv

\* What else the slave does: copy the array, or lose its memory.
LEMMA ServiceFailsIInv ==
  ASSUME IInv, ServiceFails
  PROVE  IInv'
PROOF
<1>1. UNCHANGED <<chipVars, items, reply, masterVars, taken, faultVars>>
  BY DEF ServiceFails
<1>2. currentSeq' \in Chips BY NextChip DEF IInv, Typed, ServiceFails
<1>3. Typed' BY <1>1, <1>2 DEF chipVars, masterVars, faultVars, IInv, Typed
<1>4. ChipInv' /\ PastInv' /\ RxInv' /\ CountInv'
  BY <1>1 DEF chipVars, masterVars, faultVars, IInv, ChipInv, PastInv, RxInv, CountInv
<1>5. DataInv'
  BY <1>1 DEF chipVars, masterVars, IInv, DataInv, SoundArray, OneBlockEach, Sound, Held,
              Known, Before
<1> QED BY <1>3, <1>4, <1>5 DEF IInv

LEMMA CheckDataTransferIInv ==
  ASSUME IInv, CheckDataTransfer
  PROVE  IInv'
PROOF
<1>1. UNCHANGED <<chipVars, currentSeq, items, masterVars, taken, faultVars>>
  BY DEF CheckDataTransfer
<1>2. reply' = reply \/ reply' = items BY DEF CheckDataTransfer
<1>3. Typed' /\ ChipInv' /\ PastInv' /\ RxInv' /\ CountInv'
  BY <1>1, <1>2 DEF chipVars, masterVars, faultVars, IInv, Typed, ChipInv, PastInv, RxInv,
                    CountInv
<1>4. DataInv'
  <2>1. \A c \in Chips : \A b \in Blocks : Sound(c, b) <=> Sound(c, b)'
    BY <1>1 DEF chipVars, Sound, Known
  <2>2. SoundArray(items)' BY <1>1 DEF chipVars, masterVars, IInv, DataInv, SoundArray,
                                       OneBlockEach, Sound, Known, Before
  <2>3. CASE reply' = reply
    <3>1. SoundArray(reply)' BY <1>1, <2>3 DEF chipVars, masterVars, IInv, DataInv,
                                               SoundArray, OneBlockEach, Sound, Known, Before
    <3> QED BY <1>1, <2>2, <2>3, <3>1 DEF chipVars, masterVars, IInv, DataInv, Held, Known,
                                          Before
  <2>4. CASE reply' = items
    <3>1. SoundArray(reply)'
      BY <1>1, <2>4 DEF chipVars, masterVars, IInv, DataInv, SoundArray, OneBlockEach, Sound,
                        Known, Before
    <3>2. \A i \in DOMAIN items : items[i].data \in Blocks BY ItemTypes DEF IInv, Typed
    <3>3. \A c \in Chips : \A b \in Blocks : Before(c, b, b)
      BY StatsAssumption DEF Before, Blocks, Lives
    <3>4. \A i \in DOMAIN items : items[i].chip \in Chips BY ItemTypes DEF IInv, Typed
    <3>5. \A i, j \in DOMAIN items : items[i].chip = items[j].chip =>
            Before(items[i].chip, items[i].data, items[j].data)
      BY <3>2, <3>3, <3>4 DEF IInv, DataInv, SoundArray, OneBlockEach
    <3> QED BY <1>1, <2>2, <2>4, <3>1, <3>5 DEF chipVars, masterVars, IInv, DataInv, Held,
                                                Known, Before
  <2> QED BY <1>2, <2>3, <2>4
<1> QED BY <1>3, <1>4 DEF IInv

LEMMA SlaveRestartsIInv ==
  ASSUME IInv, SlaveRestarts
  PROVE  IInv'
PROOF
<1>1. /\ UNCHANGED <<chipVars, masterVars, taken, masterRestarts>>
      /\ currentSeq' = 0 /\ items' = << >> /\ reply' = << >>
      /\ faults < MaxFaults /\ faults' = faults + 1
  BY DEF SlaveRestarts, Fault
<1>2. << >> \in Seq(Items) OBVIOUS
<1>3. faults \in Lives /\ MaxFaults \in Nat BY StatsAssumption DEF IInv, Typed
<1>4. faults' \in Lives BY <1>1, <1>3 DEF Lives
<1>5. \A c \in Chips : life'[c] <= faults'
  <2>1. \A c \in Chips : life[c] \in Lives /\ life[c] <= faults BY DEF IInv, Typed
  <2> QED BY <1>1, <1>3, <2>1 DEF chipVars, Lives
<1>10. 0 \in Chips BY StatsAssumption DEF Chips
<1>6. Typed' BY <1>1, <1>2, <1>4, <1>5, <1>10 DEF chipVars, masterVars, IInv, Typed
<1>7. ChipInv' /\ PastInv' /\ RxInv' /\ CountInv'
  BY <1>1 DEF chipVars, masterVars, IInv, ChipInv, PastInv, RxInv, CountInv
<1>8. SoundArray(items)' /\ SoundArray(reply)' BY <1>1 DEF SoundArray, OneBlockEach
<1>9. DataInv'
  BY <1>1, <1>8 DEF chipVars, masterVars, IInv, DataInv, Held, Known, Before
<1> QED BY <1>6, <1>7, <1>9 DEF IInv

-----------------------------------------------------------------------------
(* The master. *)

LEMMA MasterRestartsIInv ==
  ASSUME IInv, MasterRestarts
  PROVE  IInv'
PROOF
<1>1. /\ UNCHANGED <<chipVars, currentSeq, items, reply, taken>>
      /\ pwcSharedData' = [c \in Chips |-> NoBlock]
      /\ totalSolByDiff' = [c \in Chips |-> 0]
      /\ rxBuffer' = << >> /\ strayed' = {} /\ mixed' = {}
      /\ masterRestarts' = masterRestarts + 1
      /\ faults < MaxFaults /\ faults' = faults + 1
  BY DEF MasterRestarts, Fault, slaveVars
<1>3. faults \in Lives /\ MaxFaults \in Nat BY StatsAssumption DEF IInv, Typed
<1>4. faults' \in Lives BY <1>1, <1>3 DEF Lives
<1>5. \A c \in Chips : life'[c] <= faults'
  <2>1. \A c \in Chips : life[c] \in Lives /\ life[c] <= faults BY DEF IInv, Typed
  <2> QED BY <1>1, <1>3, <2>1 DEF chipVars, Lives
<1>2. << >> \in Seq(Items) OBVIOUS
<1>6. Typed' BY <1>1, <1>2, <1>4, <1>5, NoBlockType DEF chipVars, IInv, Typed
<1>7. ChipInv' /\ PastInv' BY <1>1 DEF chipVars, IInv, ChipInv, PastInv
<1>8. \A c \in Chips : pwcSharedData'[c] = NoBlock /\ pwcSharedData'[c].of = NoChip
  BY <1>1 DEF NoBlock
<1>11. RxInv' BY <1>1 DEF RxInv
<1>9. CountInv' BY <1>1, <1>8 DEF CountInv
<1>10. DataInv'
  <2>1. \A i \in DOMAIN items : items[i].chip \in Chips BY ItemTypes DEF IInv, Typed
  <2>2. \A i \in DOMAIN reply : reply[i].chip \in Chips BY ItemTypes DEF IInv, Typed
  <2>3. SoundArray(items)'
    BY <1>1, <1>8, <2>1, NoChipIsNone
    DEF chipVars, IInv, DataInv, SoundArray, OneBlockEach, Sound, Known, Before
  <2>4. SoundArray(reply)'
    BY <1>1, <1>8, <2>2, NoChipIsNone
    DEF chipVars, IInv, DataInv, SoundArray, OneBlockEach, Sound, Known, Before
  <2>5. (\A c \in Chips : Held(c, pwcSharedData[c]))'
    BY <1>8, NoChipIsNone DEF Held, Known
  <2> QED BY <1>1, <2>3, <2>4, <2>5 DEF IInv, DataInv, Before
<1> QED BY <1>6, <1>7, <1>9, <1>10, <1>11 DEF IInv

LEMMA OtherArrayTypes ==
  ASSUME NEW array \in OtherArrays
  PROVE  /\ array \in Seq(Items) /\ Len(array) <= MaxItems /\ OneEach(array)
         /\ \A i \in DOMAIN array : array[i].data.of = Stranger
PROOF
<1> DEFINE Others == [time : OtherCounters, sol : OtherCounters, of : {Stranger}, life : {0}]
           S == [chip : Chips, data : Others]
<1>1. array \in Seqs(S, MaxItems) /\ OneEach(array) BY DEF OtherArrays
<1>2. S \subseteq Items
  <2>1. OtherCounters \subseteq 0 .. MaxTime /\ 0 \in Lives
    BY StatsAssumption DEF Lives
  <2>2. Others \subseteq Blocks BY <2>1 DEF Blocks
  <2> HIDE DEF Others
  <2> QED BY <2>2 DEF Items
<1>3. \A x \in S : x.data.of = Stranger OBVIOUS
<1> HIDE DEF S
<1>4. PICK n \in 0 .. MaxItems : array \in [1 .. n -> S] BY <1>1 DEF Seqs
<1>5. n \in Nat /\ n <= MaxItems /\ Len(array) = n BY <1>4, StatsAssumption
<1>6. array \in [1 .. n -> Items] BY <1>2, <1>4
<1>7. array \in Seq(Items) BY <1>5, <1>6, SeqDef
<1>8. \A i \in DOMAIN array : array[i] \in S BY <1>4
<1> QED BY <1>1, <1>3, <1>5, <1>7, <1>8

\* onPwcBlock for the items of an array with at most one block of a chip.
LEMMA ProcessEffect ==
  ASSUME Typed, NEW array \in Seq(Items), OneBlockEach(array), ProcessPwcDataArray(array)
  PROVE  /\ pwcSharedData' \in [Chips -> Blocks] /\ totalSolByDiff' \in [Chips -> Nat]
         /\ mixed \subseteq mixed' /\ mixed' \subseteq Chips
         /\ \A i \in DOMAIN array : pwcSharedData'[array[i].chip] = array[i].data
         /\ \A c \in Chips \ Places(array) : pwcSharedData'[c] = pwcSharedData[c]
PROOF
<1> DEFINE InArray == Places(array)
           k(c) == CHOOSE i \in DOMAIN array : array[i].chip = c
           New(c) == array[k(c)].data
           Old(c) == pwcSharedData[c]
           Reset(c) == ResetDetected(Old(c), New(c))
<1>1. pwcSharedData' = [c \in Chips |-> IF c \in InArray THEN New(c) ELSE Old(c)]
  BY DEF ProcessPwcDataArray
<1>2. totalSolByDiff' = [c \in Chips |->
         IF c \in InArray /\ ~Reset(c)
         THEN AddTo(totalSolByDiff[c], Difference(Old(c), New(c)))
         ELSE totalSolByDiff[c]]
  BY DEF ProcessPwcDataArray
<1>3. mixed \subseteq mixed' /\ mixed' \subseteq mixed \cup InArray
  BY DEF ProcessPwcDataArray
<1>4. \A i \in DOMAIN array : array[i].chip \in Chips /\ array[i].data \in Blocks
  BY ItemTypes
<1>5. \A c \in InArray : k(c) \in DOMAIN array /\ array[k(c)].chip = c BY DEF Places
<1>6. \A i \in DOMAIN array : array[i].chip \in InArray BY DEF Places
<1>7. \A i \in DOMAIN array : array[i].data = New(array[i].chip)
  BY <1>5, <1>6 DEF OneBlockEach
<1> HIDE DEF InArray, k
<1>8. \A c \in InArray : c \in Chips /\ New(c) \in Blocks BY <1>4, <1>5
<1>9. \A c \in Chips : Old(c) \in Blocks /\ totalSolByDiff[c] \in Nat BY DEF Typed
<1>10. \A c \in Chips : totalSolByDiff'[c] \in Nat
  <2>1. \A n, d \in Nat : AddTo(n, d) \in Nat BY StatsAssumption DEF AddTo
  <2>2. \A c \in InArray : Difference(Old(c), New(c)) \in Nat
    BY <1>8, <1>9, DifferenceType
  <2> QED BY <1>2, <1>9, <2>1, <2>2
<1>11. pwcSharedData' \in [Chips -> Blocks] BY <1>1, <1>8, <1>9
<1>12. totalSolByDiff' \in [Chips -> Nat] BY <1>2, <1>10
<1>13. mixed' \subseteq Chips BY <1>3, <1>8 DEF Typed
<1>14. \A i \in DOMAIN array : pwcSharedData'[array[i].chip] = array[i].data
  BY <1>1, <1>4, <1>6, <1>7
<1>15. \A c \in Chips \ Places(array) : pwcSharedData'[c] = pwcSharedData[c]
  BY <1>1 DEF InArray
<1> QED BY <1>3, <1>11, <1>12, <1>13, <1>14, <1>15

\* A total never grows by more than the difference.
LEMMA AddToBound ==
  ASSUME NEW n \in Nat, NEW d \in Nat
  PROVE  AddTo(n, d) \in Nat /\ AddTo(n, d) <= n + d
BY StatsAssumption DEF AddTo

\* The totals stay true if each block is one that its chip wrote, and not older than the
\* one before it, or is not the chip's at all.
LEMMA ProcessCount ==
  ASSUME IInv, NEW array \in Seq(Items), OneBlockEach(array),
         \A i \in DOMAIN array :
           /\ Known(array[i].chip, array[i].data)
           /\ Before(array[i].chip, pwcSharedData[array[i].chip], array[i].data),
         ProcessPwcDataArray(array), UNCHANGED <<chipVars, masterRestarts>>
  PROVE  CountInv'
PROOF
<1> DEFINE InArray == Places(array)
           k(c) == CHOOSE i \in DOMAIN array : array[i].chip = c
           New(c) == array[k(c)].data
           Old(c) == pwcSharedData[c]
           Reset(c) == ResetDetected(Old(c), New(c))
<1>1. pwcSharedData' = [c \in Chips |-> IF c \in InArray THEN New(c) ELSE Old(c)]
  BY DEF ProcessPwcDataArray
<1>2. totalSolByDiff' = [c \in Chips |->
         IF c \in InArray /\ ~Reset(c)
         THEN AddTo(totalSolByDiff[c], Difference(Old(c), New(c)))
         ELSE totalSolByDiff[c]]
  BY DEF ProcessPwcDataArray
<1>3. mixed' = mixed \cup {c \in InArray :
         \/ New(c).of # c
         \/ Old(c).of # NoChip /\ New(c).life # Old(c).life
              /\ New(c).time >= Old(c).time}
  BY DEF ProcessPwcDataArray
<1>4. \A i \in DOMAIN array : array[i].chip \in Chips /\ array[i].data \in Blocks
  BY ItemTypes
<1>5. \A c \in InArray : k(c) \in DOMAIN array /\ array[k(c)].chip = c BY DEF Places
<1>6. \A c \in InArray : /\ c \in Chips /\ New(c) \in Blocks
                         /\ Known(c, New(c)) /\ Before(c, Old(c), New(c))
  BY <1>4, <1>5
<1>7. \A c \in Chips : Old(c) \in Blocks /\ totalSolByDiff[c] \in Nat
  BY DEF IInv, Typed
<1> HIDE DEF InArray, k
<1> SUFFICES ASSUME NEW c \in Chips \ mixed'
             PROVE  /\ pwcSharedData'[c].of = NoChip =>
                         pwcSharedData'[c] = NoBlock /\ totalSolByDiff'[c] = 0
                    /\ pwcSharedData'[c].of # NoChip =>
                         /\ pwcSharedData'[c].of = c
                         /\ totalSolByDiff'[c] <= past[c][pwcSharedData'[c].life]
                                                   + pwcSharedData'[c].sol
                         /\ life[c] = 0 /\ masterRestarts = 0 =>
                              totalSolByDiff'[c] = pwcSharedData'[c].sol
  BY DEF chipVars, CountInv
<1>8. c \notin mixed BY <1>3
<1>9. CASE c \notin InArray
  BY <1>1, <1>2, <1>8, <1>9 DEF IInv, CountInv
<1>10. CASE c \in InArray
  <2>1. /\ New(c) \in Blocks /\ Old(c) \in Blocks /\ totalSolByDiff[c] \in Nat
        /\ New(c).of = c /\ Known(c, New(c)) /\ Before(c, Old(c), New(c))
        /\ Old(c).of # NoChip /\ New(c).life # Old(c).life => ~(New(c).time >= Old(c).time)
    BY <1>3, <1>6, <1>7, <1>10
  <2>2. pwcSharedData'[c] = New(c) BY <1>1, <1>10
  <2>3. /\ New(c).life \in Lives /\ New(c).sol \in 0 .. MaxTime
        /\ New(c).time \in 0 .. MaxTime
        /\ Old(c).life \in Lives /\ Old(c).sol \in 0 .. MaxTime
        /\ Old(c).time \in 0 .. MaxTime
        /\ MaxTime \in Nat /\ MaxTotal \in Nat /\ MaxTotal >= MaxTime /\ MaxFaults \in Nat
    BY <2>1, StatsAssumption DEF Blocks
  <2>4. past[c] \in [Lives -> Nat] /\ life[c] \in Lives BY DEF IInv, Typed
  <2>5. CASE Old(c).of = NoChip
    <3>1. Old(c) = NoBlock /\ totalSolByDiff[c] = 0
      BY <1>8, <2>5 DEF IInv, CountInv
    <3>2. Old(c).sol = 0 /\ Old(c).time = 0 BY <3>1 DEF NoBlock
    <3>3. ~Reset(c) BY <2>3, <3>2 DEF ResetDetected
    <3>4. Difference(Old(c), New(c)) = New(c).sol
      BY <2>1, <2>3, <3>2, DifferenceExact
    <3>5. totalSolByDiff'[c] = AddTo(0, New(c).sol)
      BY <1>2, <1>10, <3>1, <3>3, <3>4
    <3>6. totalSolByDiff'[c] = New(c).sol BY <2>3, <3>5 DEF AddTo
    <3>7. past[c][New(c).life] \in Nat BY <2>3, <2>4
    <3> QED BY <2>1, <2>2, <2>3, <3>6, <3>7, NoChipIsNone
  <2>6. CASE Old(c).of # NoChip /\ New(c).life = Old(c).life
    <3>1. /\ Old(c).of = c
          /\ totalSolByDiff[c] <= past[c][Old(c).life] + Old(c).sol
          /\ life[c] = 0 /\ masterRestarts = 0 => totalSolByDiff[c] = Old(c).sol
      BY <1>8, <2>6 DEF IInv, CountInv
    <3>2. Old(c).time <= New(c).time /\ Old(c).sol <= New(c).sol
      BY <2>1, <2>3, <2>6, <3>1 DEF Before, Lives
    <3>3. ~Reset(c) BY <2>3, <3>2 DEF ResetDetected
    <3>4. Difference(Old(c), New(c)) = New(c).sol - Old(c).sol
      BY <2>1, <3>2, DifferenceExact
    <3>5. totalSolByDiff'[c] = AddTo(totalSolByDiff[c], New(c).sol - Old(c).sol)
      BY <1>2, <1>10, <3>3, <3>4
    <3>6. past[c][New(c).life] \in Nat BY <2>3, <2>4
    <3>7. totalSolByDiff'[c] <= past[c][New(c).life] + New(c).sol
      <4>1. totalSolByDiff[c] \in Nat /\ New(c).sol \in Nat /\ Old(c).sol \in Nat
        BY <2>1, <2>3
      <4>2. New(c).sol - Old(c).sol \in Nat BY <3>2, <4>1
      <4>3. totalSolByDiff[c] <= past[c][New(c).life] + Old(c).sol BY <2>6, <3>1
      <4>4. /\ totalSolByDiff'[c] \in Nat
            /\ totalSolByDiff'[c] <= totalSolByDiff[c] + (New(c).sol - Old(c).sol)
        BY <3>5, <4>1, <4>2, AddToBound
      <4> QED BY <3>6, <4>1, <4>3, <4>4
    <3>8. life[c] = 0 /\ masterRestarts = 0 => totalSolByDiff'[c] = New(c).sol
      BY <2>1, <2>3, <3>1, <3>2, <3>5 DEF AddTo
    <3> QED BY <2>1, <2>2, <3>7, <3>8, NoChipIsNone
  <2>7. CASE Old(c).of # NoChip /\ New(c).life # Old(c).life
    <3>1. /\ Old(c).of = c
          /\ totalSolByDiff[c] <= past[c][Old(c).life] + Old(c).sol
      BY <1>8, <2>7 DEF IInv, CountInv
    <3>2. Reset(c) BY <2>1, <2>3, <2>7 DEF ResetDetected
    <3>3. totalSolByDiff'[c] = totalSolByDiff[c] BY <1>2, <3>2
    <3>4. Old(c).life < New(c).life
      BY <2>1, <2>7, <3>1 DEF Before
    <3>5. New(c).life <= life[c] BY <2>1 DEF Known
    <3>6. past[c][Old(c).life] + Old(c).sol <= past[c][Old(c).life + 1]
      <4>1. Known(c, Old(c)) BY <2>7 DEF IInv, DataInv, Held
      <4>2. Old(c).life < life[c]
        <5>1. Old(c).life \in Nat /\ New(c).life \in Nat /\ life[c] \in Nat
          BY <2>3, <2>4 DEF Lives
        <5> QED BY <3>4, <3>5, <5>1
      <4> QED BY <3>1, <4>1, <4>2 DEF Known
    <3>7. Old(c).life + 1 \in Lives /\ Old(c).life + 1 <= New(c).life
      BY <2>3, <3>4, NextLife
    <3>8. past[c][Old(c).life + 1] <= past[c][New(c).life]
      BY <2>3, <3>7 DEF IInv, PastInv
    <3>9. /\ past[c][Old(c).life] \in Nat /\ past[c][New(c).life] \in Nat
          /\ past[c][Old(c).life + 1] \in Nat
      BY <2>3, <2>4, <3>7
    <3>10. totalSolByDiff'[c] <= past[c][New(c).life] + New(c).sol
      <4>1. totalSolByDiff[c] \in Nat /\ New(c).sol \in Nat /\ Old(c).sol \in Nat
        BY <2>1, <2>3
      <4>2. totalSolByDiff[c] <= past[c][New(c).life] BY <3>1, <3>6, <3>8, <3>9, <4>1
      <4> QED BY <3>3, <3>9, <4>1, <4>2
    <3>11. life[c] # 0 BY <2>3, <2>4, <3>4, <3>5 DEF Lives
    <3> QED BY <2>1, <2>2, <3>10, <3>11, NoChipIsNone
  <2> QED BY <2>5, <2>6, <2>7
<1> QED BY <1>9, <1>10

\* The master takes blocks that it may hold, and none older than what it holds.
LEMMA ProcessIInv ==
  ASSUME IInv, NEW array \in Seq(Items), OneBlockEach(array),
         ProcessPwcDataArray(array), rxBuffer' = array,
         UNCHANGED <<chipVars, currentSeq, items, reply, taken, masterRestarts>>,
         faults <= faults', faults' \in Lives,
         strayed' \subseteq Chips,
         \A c \in Chips \ Places(array) : c \in strayed => c \in strayed',
         \A i \in DOMAIN array :
           /\ Known(array[i].chip, array[i].data)
           /\ array[i].data.of \notin {array[i].chip, NoChip} =>
                array[i].chip \in taken \cup strayed'
           /\ Before(array[i].chip, pwcSharedData[array[i].chip], array[i].data),
         \A i \in DOMAIN array, j \in DOMAIN items : array[i].chip = items[j].chip =>
           Before(array[i].chip, array[i].data, items[j].data),
         \A i \in DOMAIN array, j \in DOMAIN reply : array[i].chip = reply[j].chip =>
           Before(array[i].chip, array[i].data, reply[j].data)
  PROVE  IInv'
PROOF
<1>1. Typed BY DEF IInv
<1>2. /\ pwcSharedData' \in [Chips -> Blocks] /\ totalSolByDiff' \in [Chips -> Nat]
      /\ mixed' \subseteq Chips
      /\ \A i \in DOMAIN array : pwcSharedData'[array[i].chip] = array[i].data
      /\ \A c \in Chips \ Places(array) : pwcSharedData'[c] = pwcSharedData[c]
  BY <1>1, ProcessEffect
<1>3. Typed'
  <2>1. \A c \in Chips : life'[c] <= faults'
    <3>1. \A c \in Chips : life[c] \in Lives /\ life[c] <= faults BY DEF IInv, Typed
    <3>2. faults \in Lives /\ MaxFaults \in Nat BY StatsAssumption DEF IInv, Typed
    <3> QED BY <3>1, <3>2 DEF chipVars, Lives
  <2> QED BY <1>1, <1>2, <2>1, StatsAssumption DEF chipVars, Typed
<1>4. ChipInv' /\ PastInv' BY DEF chipVars, IInv, ChipInv, PastInv
<1>5. RxInv' BY <1>2 DEF RxInv
<1>6. CountInv' BY ProcessCount
<1>7. \A c \in Chips : c \in Places(array) =>
        \E i \in DOMAIN array : array[i].chip = c /\ pwcSharedData'[c] = array[i].data
  BY <1>2 DEF Places
<1>8. DataInv'
  <2>1. \A i \in DOMAIN items : items[i].chip \in Chips /\ items[i].data \in Blocks
    BY ItemTypes DEF IInv, Typed
  <2>2. \A i \in DOMAIN reply : reply[i].chip \in Chips /\ reply[i].data \in Blocks
    BY ItemTypes DEF IInv, Typed
  <2>3. \A i \in DOMAIN items :
          Before(items[i].chip, pwcSharedData'[items[i].chip], items[i].data)
    <3> SUFFICES ASSUME NEW i \in DOMAIN items
                 PROVE  Before(items[i].chip, pwcSharedData'[items[i].chip], items[i].data)
      OBVIOUS
    <3>1. CASE items[i].chip \in Places(array) BY <1>7, <2>1, <3>1
    <3>2. CASE items[i].chip \notin Places(array)
      BY <1>2, <2>1, <3>2 DEF IInv, DataInv, SoundArray
    <3> QED BY <3>1, <3>2
  <2>4. \A i \in DOMAIN reply :
          Before(reply[i].chip, pwcSharedData'[reply[i].chip], reply[i].data)
    <3> SUFFICES ASSUME NEW i \in DOMAIN reply
                 PROVE  Before(reply[i].chip, pwcSharedData'[reply[i].chip], reply[i].data)
      OBVIOUS
    <3>1. CASE reply[i].chip \in Places(array) BY <1>7, <2>2, <3>1
    <3>2. CASE reply[i].chip \notin Places(array)
      BY <1>2, <2>2, <3>2 DEF IInv, DataInv, SoundArray
    <3> QED BY <3>1, <3>2
  <2>5. SoundArray(items)'
    BY <2>3 DEF chipVars, IInv, DataInv, SoundArray, OneBlockEach, Sound, Known, Before
  <2>6. SoundArray(reply)'
    BY <2>4 DEF chipVars, IInv, DataInv, SoundArray, OneBlockEach, Sound, Known, Before
  <2>7. ASSUME NEW c \in Chips
        PROVE  /\ Known(c, pwcSharedData'[c])
               /\ pwcSharedData'[c].of \notin {c, NoChip} => c \in taken \cup strayed'
    <3>1. CASE c \in Places(array) BY <1>7, <3>1
    <3>2. CASE c \notin Places(array) BY <1>2, <3>2 DEF IInv, DataInv, Held
    <3> QED BY <3>1, <3>2
  <2>8. (\A c \in Chips : Held(c, pwcSharedData[c]))'
    BY <2>7 DEF chipVars, Held, Known
  <2> QED BY <2>5, <2>6, <2>8 DEF IInv, DataInv, Before
<1> QED BY <1>3, <1>4, <1>5, <1>6, <1>8 DEF IInv

LEMMA BeforeItself ==
  \A c : \A b \in Blocks : Before(c, b, b)
BY StatsAssumption DEF Before, Blocks, Lives

LEMMA TransferIInv ==
  ASSUME IInv, NEW got \in BOOLEAN, Transfer(got)
  PROVE  IInv'
PROOF
<1>1. /\ UNCHANGED <<chipVars, currentSeq, items, reply, taken, masterRestarts, faults>>
      /\ rxBuffer' = reply \/ rxBuffer' = << >>
      /\ ProcessPwcDataArray(rxBuffer')
      /\ strayed' = strayed \ Places(rxBuffer')
  BY DEF Transfer, faultVars
<1>2. SUFFICES ASSUME NEW array, array = reply \/ array = << >>, rxBuffer' = array,
                      ProcessPwcDataArray(array), strayed' = strayed \ Places(array)
               PROVE  IInv'
  BY <1>1
<1>3. array \in Seq(Items)
  <2>1. << >> \in Seq(Items) /\ reply \in Seq(Items) BY DEF IInv, Typed
  <2> QED BY <1>2, <2>1
<1>4. OneBlockEach(array) BY <1>2 DEF IInv, DataInv, SoundArray, OneBlockEach
<1>5. faults \in Lives /\ faults <= faults
  BY StatsAssumption DEF IInv, Typed, Lives
<1>6. strayed' \subseteq Chips BY <1>2 DEF IInv, Typed
<1>7. \A i \in DOMAIN array :
        /\ Sound(array[i].chip, array[i].data)
        /\ Before(array[i].chip, pwcSharedData[array[i].chip], array[i].data)
        /\ \A j \in DOMAIN items : array[i].chip = items[j].chip =>
             Before(array[i].chip, array[i].data, items[j].data)
  BY <1>2 DEF IInv, DataInv, SoundArray
<1>8. ASSUME NEW i \in DOMAIN array, NEW j \in DOMAIN reply, array[i].chip = reply[j].chip
      PROVE  Before(array[i].chip, array[i].data, reply[j].data)
  <2>1. array = reply BY <1>2
  <2>2. array[i].data = reply[j].data BY <1>4, <1>8, <2>1 DEF OneBlockEach
  <2>3. array[i].data \in Blocks BY <1>3, ItemTypes
  <2> QED BY <2>2, <2>3, BeforeItself
<1>9. \A i \in DOMAIN array :
        /\ Known(array[i].chip, array[i].data)
        /\ array[i].data.of \notin {array[i].chip, NoChip} =>
             array[i].chip \in taken \cup strayed'
  BY <1>7 DEF Sound
<1>10. \A c \in Chips \ Places(array) : c \in strayed => c \in strayed' BY <1>2
<1> QED BY <1>1, <1>2, <1>3, <1>4, <1>5, <1>6, <1>7, <1>8, <1>9, <1>10, ProcessIInv

\* The buffer holds what was taken last, or blocks of which none is of a chip here.
LEMMA TransferThrowsIInv ==
  ASSUME IInv, NEW array \in {rxBuffer} \cup OtherArrays, TransferThrows(array)
  PROVE  IInv'
PROOF
<1>1. /\ UNCHANGED <<chipVars, currentSeq, items, reply, taken, masterRestarts>>
      /\ rxBuffer' = array /\ ProcessPwcDataArray(array)
      /\ faults < MaxFaults /\ faults' = faults + 1
      /\ array = rxBuffer => strayed' = strayed
      /\ array # rxBuffer => strayed' = strayed \cup Places(array)
  BY DEF TransferThrows, slaveVars, Fault
<1>2. faults <= faults' /\ faults' \in Lives
  <2>1. faults \in Lives /\ MaxFaults \in Nat BY StatsAssumption DEF IInv, Typed
  <2> QED BY <1>1, <2>1 DEF Lives
<1>3. CASE array = rxBuffer
  <2>1. array \in Seq(Items) BY <1>3 DEF IInv, Typed
  <2>2. OneBlockEach(array) BY <1>3 DEF IInv, RxInv, OneBlockEach
  <2>3. \A i \in DOMAIN array : array[i].chip \in Chips /\ array[i].data \in Blocks
    BY <2>1, ItemTypes
  <2>4. \A i \in DOMAIN array : array[i].data = pwcSharedData[array[i].chip]
    BY <1>3 DEF IInv, RxInv
  <2>5. \A i \in DOMAIN array :
          /\ Known(array[i].chip, array[i].data)
          /\ array[i].data.of \notin {array[i].chip, NoChip} =>
               array[i].chip \in taken \cup strayed'
    BY <1>1, <1>3, <2>3, <2>4 DEF IInv, DataInv, Held
  <2>6. \A i \in DOMAIN array :
          Before(array[i].chip, pwcSharedData[array[i].chip], array[i].data)
    BY <2>3, <2>4, BeforeItself
  <2>7. \A i \in DOMAIN array, j \in DOMAIN items : array[i].chip = items[j].chip =>
          Before(array[i].chip, array[i].data, items[j].data)
    BY <2>4 DEF IInv, DataInv, SoundArray
  <2>8. \A i \in DOMAIN array, j \in DOMAIN reply : array[i].chip = reply[j].chip =>
          Before(array[i].chip, array[i].data, reply[j].data)
    BY <2>4 DEF IInv, DataInv, SoundArray
  <2>9. strayed' \subseteq Chips BY <1>1, <1>3 DEF IInv, Typed
  <2>10. \A c \in Chips \ Places(array) : c \in strayed => c \in strayed' BY <1>1, <1>3
  <2> QED BY <1>1, <1>2, <2>1, <2>2, <2>5, <2>6, <2>7, <2>8, <2>9, <2>10, ProcessIInv
<1>4. CASE array # rxBuffer
  <2>1. /\ array \in Seq(Items) /\ OneEach(array)
        /\ \A i \in DOMAIN array : array[i].data.of = Stranger
    BY <1>4, OtherArrayTypes
  <2>2. OneBlockEach(array) BY <2>1 DEF OneEach, OneBlockEach
  <2>3. \A i \in DOMAIN array : array[i].chip \in Chips BY <2>1, ItemTypes
  <2>4. \A i \in DOMAIN array : array[i].data.of # array[i].chip
    BY <2>1, <2>3, StatsAssumption DEF Stranger, Chips
  <2>5. \A i \in DOMAIN array : array[i].chip \in strayed'
    BY <1>1, <1>4 DEF Places
  <2>6. \A i \in DOMAIN array :
          /\ Known(array[i].chip, array[i].data)
          /\ Before(array[i].chip, pwcSharedData[array[i].chip], array[i].data)
          /\ \A b : Before(array[i].chip, array[i].data, b)
    BY <2>4 DEF Known, Before
  <2>7. Places(array) \subseteq Chips BY <2>3 DEF Places
  <2>8. strayed' \subseteq Chips BY <1>1, <1>4, <2>7 DEF IInv, Typed
  <2>9. \A c \in Chips \ Places(array) : c \in strayed => c \in strayed' BY <1>1, <1>4
  <2> QED BY <1>1, <1>2, <2>1, <2>2, <2>5, <2>6, <2>8, <2>9, ProcessIInv
<1> QED BY <1>3, <1>4

LEMMA NextIInv ==
  IInv /\ [Next]_vars => IInv'
PROOF
<1> SUFFICES ASSUME IInv, [Next]_vars PROVE IInv' OBVIOUS
<1>1. CASE \E c \in Chips : Report(c) BY <1>1, ReportIInv
<1>2. CASE \E c \in Chips : ChipRestarts(c) BY <1>2, ChipRestartsIInv
<1>3. CASE CheckDataTransfer BY <1>3, CheckDataTransferIInv
<1>4. CASE ServiceFails BY <1>4, ServiceFailsIInv
<1>5. CASE \E a \in Chips, acked \in BOOLEAN : Service(currentSeq, a, acked)
  BY <1>5, ServiceIInv DEF IInv, Typed
<1>6. CASE SlaveRestarts BY <1>6, SlaveRestartsIInv
<1>7. CASE Exchange BY <1>7, TransferIInv DEF Exchange
<1>8. CASE MasterRestarts BY <1>8, MasterRestartsIInv
<1>10. CASE \E array \in {rxBuffer} \cup OtherArrays : TransferThrows(array)
  BY <1>10, TransferThrowsIInv
<1>9. CASE UNCHANGED vars
  BY <1>9 DEF vars, chipVars, slaveVars, masterVars, faultVars, IInv, Typed, ChipInv, PastInv,
              DataInv, RxInv, SoundArray, OneBlockEach, Sound, Held, Known, Before, CountInv
<1> QED BY <1>1, <1>2, <1>3, <1>4, <1>5, <1>6, <1>7, <1>8, <1>9, <1>10
       DEF Next, SlaveLoop

-----------------------------------------------------------------------------
(* The theorems. *)

\* The inductive invariant always holds.
THEOREM AlwaysIInv ==
  Spec => []IInv
BY InitIInv, NextIInv, PTL DEF Spec

\* What the master knows of a chip was written by that chip, unless another one was once
\* told that it stands in its place, or its last block was another slave's, left in the
\* buffer when an exchange failed (downloadStatsFrom, loadConfigTo, runTxRx).
THEOREM BlocksAlwaysOwn ==
  Spec => []BlocksAreOwn
PROOF
<1>1. IInv => BlocksAreOwn BY DEF IInv, DataInv, Held, BlocksAreOwn
<1> QED BY <1>1, AlwaysIInv, PTL

\* The master never counts more than a chip found, and what it reported if nothing
\* restarted, unless blocks of two lives or chips were mixed (PwcStat::onPwcBlock).
THEOREM CountsAlwaysTrue ==
  Spec => []CountsAreTrue
PROOF
<1>1. IInv => CountsAreTrue
  <2> SUFFICES ASSUME IInv, NEW c \in Chips \ mixed
               PROVE  /\ totalSolByDiff[c] <= past[c][life[c]] + block[c].sol
                      /\ life[c] = 0 /\ masterRestarts = 0 =>
                           totalSolByDiff[c] = pwcSharedData[c].sol
    BY DEF CountsAreTrue
  <2> DEFINE b == pwcSharedData[c]
  <2>1. /\ b.life \in Lives /\ b.sol \in Nat /\ block[c].sol \in Nat /\ life[c] \in Lives
        /\ past[c] \in [Lives -> Nat] /\ totalSolByDiff[c] \in Nat /\ MaxFaults \in Nat
    <3>1. b \in Blocks /\ block[c] \in Blocks BY DEF IInv, Typed
    <3> HIDE DEF b
    <3>2. b.life \in Lives /\ b.sol \in Nat /\ block[c].sol \in Nat /\ MaxFaults \in Nat
      BY <3>1, StatsAssumption DEF Blocks
    <3> QED BY <3>2 DEF IInv, Typed
  <2>2. past[c][life[c]] \in Nat /\ past[c][b.life] \in Nat BY <2>1
  <2>3. CASE b.of = NoChip
    <3>1. b = NoBlock /\ totalSolByDiff[c] = 0 BY <2>3 DEF IInv, CountInv
    <3> QED BY <2>1, <2>2, <3>1 DEF NoBlock
  <2>4. CASE b.of # NoChip
    <3>1. /\ b.of = c /\ Known(c, b)
          /\ totalSolByDiff[c] <= past[c][b.life] + b.sol
          /\ life[c] = 0 /\ masterRestarts = 0 => totalSolByDiff[c] = b.sol
      BY <2>4 DEF IInv, CountInv, DataInv, Held
    <3>2. CASE b.life = life[c]
      BY <2>1, <2>2, <3>1, <3>2 DEF Known
    <3>3. CASE b.life < life[c]
      <4>1. b.life + 1 \in Lives /\ b.life + 1 <= life[c] BY <2>1, <3>3, NextLife
      <4>2. past[c][b.life + 1] <= past[c][life[c]] BY <2>1, <4>1 DEF IInv, PastInv
      <4>3. past[c][b.life] + b.sol <= past[c][b.life + 1] BY <3>1, <3>3 DEF Known
      <4>4. past[c][b.life + 1] \in Nat BY <2>1, <4>1
      <4> QED BY <2>1, <2>2, <3>1, <4>2, <4>3, <4>4
    <3> QED BY <2>1, <3>1, <3>2, <3>3 DEF Known, Lives
  <2> QED BY <2>3, <2>4
<1> QED BY <1>1, AlwaysIInv, PTL

-----------------------------------------------------------------------------
(* Types, and what the proofs above do without. *)

\* The places of an array are enough, and no chip has two of them.
OnePlaceEach(array) ==
  Len(array) <= MaxItems /\ OneEach(array)

RestInv ==
  /\ checked \in BOOLEAN /\ spi \in {"idle", "armed", "done"}
  /\ OnePlaceEach(items) /\ OnePlaceEach(reply) /\ OnePlaceEach(rxBuffer)
  /\ toMasterTxId \in [Chips -> 0 .. NumChips]
  /\ \A c \in Chips : totalSolByDiff[c] <= MaxTotal
  /\ work \in 0 .. MaxWork /\ masterRestarts <= faults

\* sendPwcData appends only where there is a place left and the chip has none; a block
\* is put over another one of its chip, or over that of one chip when its own has none.
LEMMA SendKeepsPlaces ==
  ASSUME items \in Seq(Items), OnePlaceEach(items), NEW c \in Chips, NEW d,
         SendPwcData(c, d)
  PROVE  OnePlaceEach(items)'
PROOF
<1> DEFINE item == [chip |-> c, data |-> d]
<1>1. Len(items) \in Nat /\ DOMAIN items = 1 .. Len(items) OBVIOUS
<1>2. MaxItems \in Nat BY StatsAssumption
<1>3. item.chip = c OBVIOUS
<1>4. CASE PlacesOf(c) # {}
  <2>1. items' = [i \in DOMAIN items |-> IF i \in PlacesOf(c) THEN item ELSE items[i]]
    BY <1>4 DEF SendPwcData
  <2> HIDE DEF item
  <2>2. DOMAIN items' = DOMAIN items BY <2>1
  <2>3. Len(items') = Len(items) BY <1>1, <2>1
  <2>4. \A i \in DOMAIN items : items'[i].chip = items[i].chip
    BY <1>3, <2>1 DEF PlacesOf
  <2> QED BY <2>2, <2>3, <2>4 DEF OnePlaceEach, OneEach
<1>5. CASE PlacesOf(c) = {}
  <2>1. \A i \in DOMAIN items : items[i].chip # c BY <1>5 DEF PlacesOf
  <2>2. CASE Len(items) < MaxItems
    <3>1. items' = Append(items, item) BY <1>5, <2>2 DEF SendPwcData
    <3> HIDE DEF item
    <3>2. Len(items') = Len(items) + 1 BY <3>1
    <3>3. \A i \in DOMAIN items' : \/ i = Len(items) + 1 /\ items'[i] = item
                                   \/ i \in DOMAIN items /\ items'[i] = items[i]
      BY <1>1, <3>1
    <3>4. Len(items') <= MaxItems BY <1>1, <1>2, <2>2, <3>2
    <3>5. \A i, j \in DOMAIN items' : items'[i].chip = items'[j].chip => i = j
      BY <1>3, <2>1, <3>3 DEF OnePlaceEach, OneEach
    <3> QED BY <3>4, <3>5 DEF OnePlaceEach, OneEach
  <2>3. CASE ~(Len(items) < MaxItems) /\ MayReplace(c)
    <3> DEFINE h == HighestTxIdIndex
    <3>1. items' = [items EXCEPT ![h] = item] BY <1>5, <2>3 DEF SendPwcData
    <3> HIDE DEF h, item
    <3>2. DOMAIN items' = DOMAIN items BY <3>1
    <3>3. \A i \in DOMAIN items : \/ i = h /\ items'[i] = item
                                  \/ i # h /\ items'[i] = items[i]
      BY <3>1
    <3>4. Len(items') = Len(items) BY <1>1, <3>1
    <3>5. \A i, j \in DOMAIN items' : items'[i].chip = items'[j].chip => i = j
      BY <1>3, <2>1, <3>2, <3>3 DEF OnePlaceEach, OneEach
    <3> QED BY <3>4, <3>5 DEF OnePlaceEach, OneEach
  <2>4. CASE ~(Len(items) < MaxItems) /\ ~MayReplace(c)
    <3>1. items' = items BY <1>5, <2>4 DEF SendPwcData
    <3> QED BY <3>1
  <2> QED BY <2>2, <2>3, <2>4
<1> QED BY <1>4, <1>5

LEMMA ChipsFinite ==
  IsFiniteSet(Chips) /\ Cardinality(Chips) = NumChips
PROOF
<1>1. NumChips \in Nat /\ NumChips > 0 BY StatsAssumption
<1>2. 0 \in Int /\ NumChips - 1 \in Int BY <1>1
<1> QED BY <1>1, <1>2, FS_Interval DEF Chips

\* There are as many ranks as chips: one for those just sent, one for each id the others
\* still have.
LEMMA StampType ==
  ASSUME items \in Seq(Items), toMasterTxId \in [Chips -> 0 .. NumChips], Stamp
  PROVE  toMasterTxId' \in [Chips -> 0 .. NumChips]
PROOF
<1> DEFINE R == Chips \ Sent
           T == {toMasterTxId[c] : c \in R}
           left == T \ {0}
           f == [c \in R |-> toMasterTxId[c]]
<1>1. toMasterTxId' = [c \in Chips |-> IF c \in Sent THEN Cardinality(left) + 1
                                       ELSE Rank(toMasterTxId[c], left)]
  BY DEF Stamp
<1>2. NumChips \in Nat BY StatsAssumption
<1>3. IsFiniteSet(R) /\ Cardinality(R) <= NumChips
  BY ChipsFinite, FS_Subset
<1>4. f \in Surjection(R, T) BY DEF Surjection
<1> HIDE DEF f, R
<1>5. IsFiniteSet(T) /\ Cardinality(T) <= Cardinality(R) BY <1>3, <1>4, FS_Surjection
<1>6. Cardinality(R) \in Nat /\ Cardinality(T) \in Nat BY <1>3, <1>5, FS_CardinalityType
<1>7. IsFiniteSet(left) /\ Cardinality(left) <= Cardinality(T)
  BY <1>5, FS_Subset
<1> HIDE DEF left
<1>8. Cardinality(left) \in Nat BY <1>7, FS_CardinalityType
<1>9. Cardinality(left) <= NumChips BY <1>2, <1>3, <1>5, <1>6, <1>7, <1>8
<1>10. \A c \in Chips \cap Sent : Cardinality(left) + 1 \in 0 .. NumChips
  <2> SUFFICES ASSUME NEW c \in Chips \cap Sent
               PROVE  Cardinality(left) + 1 \in 0 .. NumChips
    OBVIOUS
  <2>1. IsFiniteSet(Chips \ {c}) /\ Cardinality(Chips \ {c}) = NumChips - 1
    BY ChipsFinite, FS_RemoveElement
  <2>2. R \subseteq Chips \ {c} BY DEF R
  <2>3. Cardinality(R) <= NumChips - 1 BY <2>1, <2>2, FS_Subset
  <2> QED BY <1>2, <1>5, <1>6, <1>7, <1>8, <2>3
<1>11. \A n : Rank(n, left) \in 0 .. NumChips
  <2> SUFFICES ASSUME NEW n PROVE Rank(n, left) \in 0 .. NumChips OBVIOUS
  <2> DEFINE low == {k \in left : 0 < k /\ k <= n}
  <2>1. low \in SUBSET left OBVIOUS
  <2>2. Rank(n, left) = Cardinality(low) BY DEF Rank
  <2> HIDE DEF low
  <2>3. IsFiniteSet(low) /\ Cardinality(low) <= Cardinality(left) BY <1>7, <2>1, FS_Subset
  <2>4. Cardinality(low) \in Nat BY <2>3, FS_CardinalityType
  <2> QED BY <1>2, <1>8, <1>9, <2>2, <2>3, <2>4
<1> QED BY <1>1, <1>10, <1>11

LEMMA InitRest ==
  Init => RestInv
PROOF
<1> SUFFICES ASSUME Init PROVE RestInv OBVIOUS
<1>1. NumChips \in Nat /\ NumChips > 0 /\ MaxTotal \in Nat /\ MaxWork \in Nat
      /\ MaxItems \in Nat
  BY StatsAssumption
<1>2. OnePlaceEach(<< >>) BY <1>1 DEF OnePlaceEach, OneEach
<1>3. OnePlaceEach(items) /\ OnePlaceEach(reply) /\ OnePlaceEach(rxBuffer) BY <1>2 DEF Init
<1>4. 0 \in Chips BY <1>1 DEF Chips
<1>5. toMasterTxId \in [Chips -> 0 .. NumChips] BY <1>1 DEF Init
<1>6. \A c \in Chips : totalSolByDiff[c] <= MaxTotal BY <1>1 DEF Init
<1>7. work \in 0 .. MaxWork /\ masterRestarts <= faults BY <1>1 DEF Init
<1>8. currentSeq \in Chips BY <1>4 DEF Init
<1>9. checked \in BOOLEAN /\ spi \in {"idle", "armed", "done"} BY DEF Init
<1> QED BY <1>3, <1>5, <1>6, <1>7, <1>8, <1>9 DEF RestInv

LEMMA ServiceRest ==
  ASSUME Typed, RestInv, NEW c \in Chips, NEW a \in Chips, NEW acked \in BOOLEAN,
         Service(c, a, acked)
  PROVE  RestInv'
PROOF
<1>1. checked' \in BOOLEAN
  BY NextChip DEF Service, Typed
<1>2. OnePlaceEach(items)'
  <2>1. CASE SendPwcData(c, block[a])
    BY <2>1, SendKeepsPlaces DEF Typed, RestInv
  <2>2. CASE items' = items BY <2>2 DEF RestInv, OnePlaceEach, OneEach
  <2> QED BY <2>1, <2>2 DEF Service, DownloadStatsFrom
<1>3. OnePlaceEach(reply)' /\ OnePlaceEach(rxBuffer)'
  BY DEF Service, masterVars, RestInv, OnePlaceEach, OneEach
<1>4. masterRestarts' <= faults'
  <2>1. masterRestarts \in Nat /\ faults \in Nat
    BY StatsAssumption DEF Typed, Lives
  <2>2. faults' = faults \/ faults' = faults + 1 BY DEF Service, LoadConfigTo, Fault
  <2>3. masterRestarts' = masterRestarts BY DEF Service
  <2> QED BY <2>1, <2>2, <2>3 DEF RestInv
<1> QED BY <1>1, <1>2, <1>3, <1>4 DEF Service, masterVars, RestInv

\* A total is capped in the model only.
LEMMA ProcessRest ==
  ASSUME Typed', RestInv, NEW array, ProcessPwcDataArray(array)
  PROVE  \A c \in Chips : totalSolByDiff'[c] <= MaxTotal
PROOF
<1>1. MaxTotal \in Nat BY StatsAssumption
<1>2. \A n, d : AddTo(n, d) = MaxTotal \/ ~(AddTo(n, d) > MaxTotal)
  BY DEF AddTo
<1>3. \A c \in Chips : \/ totalSolByDiff'[c] = totalSolByDiff[c]
                       \/ \E n, d : totalSolByDiff'[c] = AddTo(n, d)
  BY DEF ProcessPwcDataArray
<1>4. \A c \in Chips : totalSolByDiff'[c] \in Nat BY DEF Typed
<1> QED BY <1>1, <1>2, <1>3, <1>4 DEF RestInv

LEMMA TransferRest ==
  ASSUME Typed, Typed', RestInv, NEW got \in BOOLEAN, Transfer(got)
  PROVE  RestInv'
PROOF
<1>1. \A c \in Chips : totalSolByDiff'[c] <= MaxTotal BY ProcessRest DEF Transfer
<1>2. OnePlaceEach(items)' /\ OnePlaceEach(reply)'
  BY DEF Transfer, RestInv, OnePlaceEach, OneEach
<1>3. OnePlaceEach(rxBuffer)'
  <2>1. OnePlaceEach(<< >>) BY StatsAssumption DEF OnePlaceEach, OneEach
  <2>2. rxBuffer' = reply \/ rxBuffer' = << >> BY DEF Transfer
  <2> QED BY <2>1, <2>2 DEF RestInv, OnePlaceEach, OneEach
<1>4. spi' = "done" BY DEF Transfer
<1> QED BY <1>1, <1>2, <1>3, <1>4 DEF Transfer, RestInv, chipVars, faultVars

LEMMA TransferThrowsRest ==
  ASSUME Typed, Typed', RestInv, NEW array \in {rxBuffer} \cup OtherArrays,
         TransferThrows(array)
  PROVE  RestInv'
PROOF
<1>1. \A c \in Chips : totalSolByDiff'[c] <= MaxTotal BY ProcessRest DEF TransferThrows
<1>2. OnePlaceEach(items)' /\ OnePlaceEach(reply)'
  BY DEF TransferThrows, slaveVars, RestInv, OnePlaceEach, OneEach
<1>3. OnePlaceEach(array) BY OtherArrayTypes DEF RestInv, OnePlaceEach
<1>4. OnePlaceEach(rxBuffer)'
  BY <1>3 DEF TransferThrows, OnePlaceEach, OneEach
<1>5. masterRestarts' <= faults'
  <2>1. masterRestarts \in Nat /\ faults \in Nat BY StatsAssumption DEF Typed, Lives
  <2> QED BY <2>1 DEF TransferThrows, Fault, RestInv
<1> QED BY <1>1, <1>2, <1>4, <1>5 DEF TransferThrows, RestInv, chipVars, slaveVars

LEMMA CheckDataTransferRest ==
  ASSUME Typed, RestInv, CheckDataTransfer
  PROVE  RestInv'
PROOF
<1>1. OnePlaceEach(items)' /\ OnePlaceEach(reply)' /\ OnePlaceEach(rxBuffer)'
  BY DEF CheckDataTransfer, masterVars, RestInv, OnePlaceEach, OneEach
<1>2. toMasterTxId' \in [Chips -> 0 .. NumChips]
  BY StampType DEF CheckDataTransfer, Typed, RestInv
<1>3. spi' = "armed" /\ checked' = TRUE BY DEF CheckDataTransfer
<1> QED BY <1>1, <1>2, <1>3 DEF CheckDataTransfer, RestInv, chipVars, masterVars, faultVars

LEMMA RestartRest ==
  ASSUME Typed, RestInv, SlaveRestarts \/ MasterRestarts
  PROVE  RestInv'
PROOF
<1>1. /\ NumChips \in Nat /\ NumChips > 0 /\ MaxTotal \in Nat /\ MaxItems \in Nat
      /\ masterRestarts \in Nat /\ faults \in Nat
  BY StatsAssumption DEF Typed, Lives
<1>2. CASE SlaveRestarts
  <2>1. OnePlaceEach(<< >>) BY <1>1 DEF OnePlaceEach, OneEach
  <2>2. OnePlaceEach(items)' /\ OnePlaceEach(reply)' /\ OnePlaceEach(rxBuffer)'
    BY <1>2, <2>1 DEF SlaveRestarts, masterVars, RestInv, OnePlaceEach, OneEach
  <2>3. 0 \in Chips BY <1>1 DEF Chips
  <2>4. masterRestarts' <= faults'
    BY <1>1, <1>2 DEF SlaveRestarts, Fault, RestInv
  <2>5. toMasterTxId' \in [Chips -> 0 .. NumChips] BY <1>1, <1>2 DEF SlaveRestarts
  <2> QED BY <1>2, <2>2, <2>3, <2>4, <2>5 DEF SlaveRestarts, RestInv, chipVars, masterVars
<1>3. CASE MasterRestarts
  <2>1. OnePlaceEach(items)' /\ OnePlaceEach(reply)' /\ OnePlaceEach(rxBuffer)'
    BY <1>1, <1>3 DEF MasterRestarts, slaveVars, RestInv, OnePlaceEach, OneEach
  <2>2. masterRestarts' <= faults'
    BY <1>1, <1>3 DEF MasterRestarts, Fault, RestInv
  <2>3. \A c \in Chips : totalSolByDiff'[c] <= MaxTotal
    BY <1>1, <1>3 DEF MasterRestarts
  <2> QED BY <1>3, <2>1, <2>2, <2>3 DEF MasterRestarts, RestInv, chipVars, slaveVars
<1> QED BY <1>2, <1>3

LEMMA ChipRest ==
  ASSUME Typed, RestInv, NEW c \in Chips, Report(c) \/ ChipRestarts(c)
  PROVE  RestInv'
PROOF
<1>1. CASE Report(c)
  <2>1. OnePlaceEach(items)' /\ OnePlaceEach(reply)' /\ OnePlaceEach(rxBuffer)'
    BY <1>1 DEF Report, slaveVars, masterVars, RestInv, OnePlaceEach, OneEach
  <2>2. work' \in 0 .. MaxWork
    <3>1. MaxWork \in Nat /\ work \in 0 .. MaxWork BY StatsAssumption DEF RestInv
    <3>2. (work' = work \/ work' = work + 1) /\ work' <= MaxWork BY <1>1 DEF Report
    <3> QED BY <3>1, <3>2
  <2> QED BY <1>1, <2>1, <2>2 DEF Report, RestInv, slaveVars, masterVars, faultVars
<1>2. CASE ChipRestarts(c)
  <2>1. OnePlaceEach(items)' /\ OnePlaceEach(reply)' /\ OnePlaceEach(rxBuffer)'
    BY <1>2 DEF ChipRestarts, slaveVars, masterVars, RestInv, OnePlaceEach, OneEach
  <2>2. masterRestarts' <= faults'
    <3>1. masterRestarts \in Nat /\ faults \in Nat BY StatsAssumption DEF Typed, Lives
    <3> QED BY <1>2, <3>1 DEF ChipRestarts, Fault, RestInv
  <2> QED BY <1>2, <2>1, <2>2 DEF ChipRestarts, RestInv, slaveVars, masterVars
<1> QED BY <1>1, <1>2

LEMMA NextRest ==
  ASSUME IInv, IInv', RestInv, [Next]_vars
  PROVE  RestInv'
PROOF
<1> USE DEF IInv
<1>1. CASE \E c \in Chips : Report(c) \/ ChipRestarts(c) BY <1>1, ChipRest
<1>2. CASE CheckDataTransfer BY <1>2, CheckDataTransferRest
<1>3. CASE ServiceFails
  <2>1. OnePlaceEach(items)' /\ OnePlaceEach(reply)' /\ OnePlaceEach(rxBuffer)'
    BY <1>3 DEF ServiceFails, masterVars, RestInv, OnePlaceEach, OneEach
  <2>2. checked' \in BOOLEAN BY <1>3, NextChip DEF ServiceFails, Typed
  <2> QED BY <1>3, <2>1, <2>2 DEF ServiceFails, RestInv, chipVars, masterVars, faultVars
<1>4. CASE \E a \in Chips, acked \in BOOLEAN : Service(currentSeq, a, acked)
  BY <1>4, ServiceRest DEF Typed
<1>5. CASE SlaveRestarts \/ MasterRestarts BY <1>5, RestartRest
<1>6. CASE Exchange BY <1>6, TransferRest DEF Exchange
<1>8. CASE \E array \in {rxBuffer} \cup OtherArrays : TransferThrows(array)
  BY <1>8, TransferThrowsRest
<1>7. CASE UNCHANGED vars
  BY <1>7 DEF vars, chipVars, slaveVars, masterVars, faultVars, RestInv, OnePlaceEach, OneEach
<1> QED BY <1>1, <1>2, <1>3, <1>4, <1>5, <1>6, <1>7, <1>8 DEF Next, SlaveLoop

\* No array that goes up has two blocks of a chip or more than there is room for, and the
\* ids by which a place is chosen are the ranks of a set no larger than the chain, however
\* long the chain is and whatever restarts (sendPwcData, fillTx).
THEOREM TypeAlwaysCorrect ==
  Spec => []TypeOK
PROOF
<1>1. IInv /\ RestInv => TypeOK
  <2> SUFFICES ASSUME IInv, RestInv PROVE TypeOK OBVIOUS
  <2> USE DEF IInv
  <2>1. \A array \in Seq(Items) : Len(array) <= MaxItems => array \in Seqs(Items, MaxItems)
    <3> SUFFICES ASSUME NEW array \in Seq(Items), Len(array) <= MaxItems
                 PROVE  array \in Seqs(Items, MaxItems)
      OBVIOUS
    <3>1. Len(array) \in Nat /\ array \in [1 .. Len(array) -> Items] OBVIOUS
    <3>2. Len(array) \in 0 .. MaxItems BY <3>1, StatsAssumption
    <3> QED BY <3>1, <3>2 DEF Seqs
  <2>2. \A array \in {items, reply, rxBuffer} : array \in Seqs(Items, MaxItems)
    BY <2>1 DEF Typed, RestInv, OnePlaceEach
  <2>3. \A array \in {items, reply, rxBuffer} : OneEach(array)
    BY DEF RestInv, OnePlaceEach
  <2>4. totalSolByDiff \in [Chips -> 0 .. MaxTotal]
    <3>1. \A c \in Chips : totalSolByDiff[c] \in 0 .. MaxTotal
      BY StatsAssumption DEF Typed, RestInv
    <3> QED BY <3>1 DEF Typed
  <2>5. masterRestarts \in 0 .. MaxFaults /\ faults \in 0 .. MaxFaults
    BY StatsAssumption DEF Typed, RestInv, Lives
  <2> QED BY <2>2, <2>3, <2>4, <2>5 DEF TypeOK, Typed, RestInv
<1>2. Spec => [](IInv /\ RestInv)
  <2>1. IInv /\ RestInv /\ [Next]_vars => (IInv /\ RestInv)'
    BY NextIInv, NextRest
  <2> QED BY <2>1, InitIInv, InitRest, PTL DEF Spec
<1> QED BY <1>1, <1>2, PTL
=============================================================================
