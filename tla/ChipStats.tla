----------------------------- MODULE ChipStats -----------------------------
(***************************************************************************)
(* The way of a chip's counters to the master: the exchange zone of every   *)
(* chip of a chain, the slave that goes along the chain chip by chip        *)
(* (PwrChipChain::serviceNextLevel), its array of blocks with fewer places  *)
(* than there are chips (MasterGate::sendPwcData, fillTx), the frame that   *)
(* goes up, and the totals that the master makes of it (PwcStat).           *)
(* A chip that misses a command of the chain answers in the place of        *)
(* another one with the same address, an exchange that fails leaves the     *)
(* answer of the one before in the master's buffer, and chips, slave and    *)
(* master restart by themselves.  Of the other slaves only what they leave  *)
(* in that buffer is modelled.                                              *)
(***************************************************************************)
EXTENDS Integers, FiniteSets, Sequences

CONSTANTS
  NumChips,        \* spiLen: length of the chain
  Parities,        \* different addresses along it (parritySchema)
  MaxItems,        \* PwcDataArray::MAX_LEN
  Word,            \* 2^32: the counters of a chip are uint32
  MayRestart,      \* chips that may restart
  Watched,         \* chips of which fairness is assumed
  OtherCounters,   \* values of the counters of other slaves' chips
  MaxTime, MaxTotal, MaxWork, MaxFaults
                   \* bounds of the model: the counters of a chip, totals (all above are
                   \* one), reports of something new, restarts, failed exchanges and
                   \* chips given the place of another

Level == 2         \* chips serviced in one pass of the main loop

ASSUME StatsAssumption ==
  /\ NumChips \in Nat \ {0} /\ Parities \in Nat \ {0} /\ MaxItems \in Nat \ {0}
  /\ {MaxTime, MaxTotal, MaxWork, MaxFaults} \subseteq Nat
  /\ OtherCounters \subseteq 0 .. MaxTime
  /\ MayRestart \subseteq 0 .. NumChips - 1 /\ Watched \subseteq 0 .. NumChips - 1
  /\ Word \in Nat /\ Word > MaxTime /\ MaxTotal >= MaxTime

VARIABLES
  \* Each chip.
  conf,            \* the spiSeq of its PwcUniqConfig, or NoChip
  block,           \* pwcData in its exchange zone
  ready,           \* pwcSeq: tx differs from rx
  \* The slave.
  currentSeq,      \* the chip that is serviced next
  checked,         \* checkDataTransfer was called in this pass of the loop
  items,           \* pwcDataArray: [chip, data]
  toMasterTxId,    \* of each chip: the ranks of the ids, 0 if never sent
  spi,             \* "idle", "armed" or "done"
  reply,           \* the PwcDataArray in txBuffer
  \* The master.
  rxBuffer,        \* the PwcDataArray in it
  pwcSharedData,   \* of each PwcStat: the block it holds
  totalSolByDiff,
  \* What happened, for the properties.
  past,            \* solutions of a chip before each of its lives
  life,            \* restarts of a chip
  taken,           \* chips whose place in the chain another one was once given
  strayed,         \* chips whose last block came with the answer of another slave
  mixed,           \* chips of which a block was added to one of another life or chip
  work,            \* reports of something new
  masterRestarts,  \* restarts of the master
  faults           \* all that MaxFaults bounds

chipVars == <<conf, block, ready, past, life, work>>
slaveVars == <<currentSeq, checked, items, toMasterTxId, spi, reply>>
masterVars == <<rxBuffer, pwcSharedData, totalSolByDiff, strayed, mixed>>
faultVars == <<masterRestarts, faults>>
vars == <<chipVars, slaveVars, masterVars, taken, faultVars>>

Chips == 0 .. NumChips - 1
NoChip == -1
Stranger == -2     \* a chip of another slave
Lives == 0 .. MaxFaults

\* A block: PwcSharedData, and which life of which chip wrote it.
Blocks == [time : 0 .. MaxTime, sol : 0 .. MaxTime,
           of : Chips \cup {NoChip, Stranger}, life : Lives]
NoBlock == [time |-> 0, sol |-> 0, of |-> NoChip, life |-> 0]
Items == [chip : Chips, data : Blocks]

Fault == faults < MaxFaults /\ faults' = faults + 1

Seqs(S, n) == UNION {[1 .. k -> S] : k \in 0 .. n}

\* The places of a chain that an array speaks of, and that it speaks of each once.
Places(array) == {array[i].chip : i \in DOMAIN array}
OneEach(array) == \A i, j \in DOMAIN array : array[i].chip = array[j].chip => i = j

\* What another slave with such a chain may answer that is of consequence.
OtherArrays ==
  LET Others == [time : OtherCounters, sol : OtherCounters, of : {Stranger}, life : {0}]
  IN  {array \in Seqs([chip : Chips, data : Others], MaxItems) \ {<< >>} : OneEach(array)}

-----------------------------------------------------------------------------
(* A chip. *)

\* Its firmware puts its counters into the exchange zone.  Solutions take time.
Report(c) ==
  /\ conf[c] # NoChip
  /\ \E t \in block[c].time .. MaxTime : \E s \in block[c].sol .. t :
       /\ work' = IF t = block[c].time /\ s = block[c].sol THEN work ELSE work + 1
       /\ work' <= MaxWork
       /\ block' = [block EXCEPT ![c] = [time |-> t, sol |-> s, of |-> c, life |-> life[c]]]
  /\ ready' = [ready EXCEPT ![c] = TRUE]
  /\ UNCHANGED <<conf, past, life, slaveVars, masterVars, taken, faultVars>>

ChipRestarts(c) ==
  /\ c \in MayRestart
  /\ Fault
  /\ life' = [life EXCEPT ![c] = @ + 1]
  /\ past' = [past EXCEPT ![c] = [l \in Lives |->
        IF l > life[c] THEN past[c][life[c]] + block[c].sol ELSE past[c][l]]]
  /\ conf' = [conf EXCEPT ![c] = NoChip]
  /\ block' = [block EXCEPT ![c] = NoBlock]
  /\ ready' = [ready EXCEPT ![c] = FALSE]
  /\ UNCHANGED <<work, slaveVars, masterVars, taken, masterRestarts>>

-----------------------------------------------------------------------------
(* The slave. *)

\* A place of the chain is reached by counting CMD_NEXTs; the chip that answers has
\* its address.
Answers(c, a) == a % Parities = c % Parities

PlacesOf(c) == {i \in DOMAIN items : items[i].chip = c}

\* The first place with the highest id, of ids above 0; the first place if there is none.
HighestTxIdIndex ==
  LET IdAt(i) == toMasterTxId[items[i].chip]
  IN  CHOOSE i \in DOMAIN items :
        /\ \A j \in DOMAIN items : IdAt(j) <= IdAt(i)
        /\ \A j \in 1 .. i - 1 : IdAt(j) < IdAt(i)

MayReplace(c) == toMasterTxId[c] < toMasterTxId[items[HighestTxIdIndex].chip]

\* sendPwcData.
SendPwcData(c, b) ==
  LET item == [chip |-> c, data |-> b]
  IN  items' = IF PlacesOf(c) # {} THEN [i \in DOMAIN items |->
                                          IF i \in PlacesOf(c) THEN item ELSE items[i]]
               ELSE IF Len(items) < MaxItems THEN Append(items, item)
               ELSE IF MayReplace(c) THEN [items EXCEPT ![HighestTxIdIndex] = item]
               ELSE items

\* loadConfigTo place c, where chip a answers.  The sequence numbers of all chips are
\* equal, so that only a chip without a configuration is given one.
LoadConfigTo(c, a) ==
  /\ conf' = [conf EXCEPT ![a] = IF @ = NoChip THEN c ELSE @]
  /\ IF conf[a] = NoChip /\ a # c THEN Fault /\ taken' = taken \cup {c}
                                  ELSE UNCHANGED <<taken, faults>>

\* Mutant of IsOfPlace: the place in the block is not compared.
IsOfAnyPlace(c, a) == TRUE

\* The block of chip a says that it stands at place c.
IsOfPlace(c, a) == conf[a] = c

\* downloadStatsFrom.  The write to rx may be lost.
DownloadStatsFrom(c, a, acked) ==
  /\ IF ready[a] /\ IsOfPlace(c, a) THEN SendPwcData(c, block[a]) ELSE UNCHANGED items
  /\ IF ready[a] /\ acked THEN ready' = [ready EXCEPT ![a] = FALSE] ELSE UNCHANGED ready

\* Mutant of NextSeq: the end of the chain is missed.
NextSeqOnly(c) == c + 1

NextSeq(c) == (c + 1) % NumChips

\* The end of a level, or of the chain, is the end of a pass of the loop.
GotoNextChip ==
  /\ currentSeq' = NextSeq(currentSeq)
  /\ checked' = (currentSeq' # 0 /\ currentSeq' % Level # 0)

\* serviceNextLevel at place c.
Service(c, a, acked) ==
  /\ checked /\ c = currentSeq /\ Answers(c, a)
  /\ GotoNextChip
  /\ LoadConfigTo(c, a)
  /\ DownloadStatsFrom(c, a, acked)
  /\ UNCHANGED <<block, past, life, work, toMasterTxId, spi, reply, masterVars, masterRestarts>>

\* No chip answers, or not with good checksums.
ServiceFails ==
  /\ checked
  /\ GotoNextChip
  /\ UNCHANGED <<chipVars, items, toMasterTxId, spi, reply, masterVars, taken, faultVars>>

\* txId is higher than all ids given out: chips of items get the highest rank.
Rank(n, S) == Cardinality({k \in S : 0 < k /\ k <= n})
Sent == Places(items)

\* Mutant of Stamp: chips do not keep when they were sent.
StampNothing == UNCHANGED toMasterTxId

Stamp ==
  LET left == {toMasterTxId[c] : c \in Chips \ Sent} \ {0}
  IN  toMasterTxId' = [c \in Chips |-> IF c \in Sent THEN Cardinality(left) + 1
                                       ELSE Rank(toMasterTxId[c], left)]

\* checkDataTransfer: after a transfer, or a start, the buffer is filled and the driver
\* waits for the next one.  The array is not cleared.
CheckDataTransfer ==
  /\ ~checked
  /\ checked' = TRUE
  /\ IF spi = "armed"
     THEN UNCHANGED <<spi, reply, toMasterTxId>>
     ELSE /\ spi' = "armed"
          /\ IF spi = "done" THEN reply' = items /\ Stamp
                             ELSE UNCHANGED <<reply, toMasterTxId>>
  /\ UNCHANGED <<chipVars, currentSeq, items, masterVars, taken, faultVars>>

\* The slave is reset; the chips may go on.
SlaveRestarts ==
  /\ Fault
  /\ currentSeq' = 0 /\ checked' = FALSE
  /\ items' = << >> /\ toMasterTxId' = [c \in Chips |-> 0]
  /\ spi' = "idle" /\ reply' = << >>
  /\ UNCHANGED <<chipVars, masterVars, taken, masterRestarts>>

-----------------------------------------------------------------------------
(* The master. *)

\* Mutant of ResetDetected: none is.
ResetNever(b1, b2) == FALSE

ResetDetected(b1, b2) == b2.time < b1.time

\* uint32 differences are added to uint64 counters.
Difference(b1, b2) == (b2.sol - b1.sol) % Word

AddTo(n, d) == IF n + d > MaxTotal THEN MaxTotal ELSE n + d

\* onPwcBlock for every item of the array.
ProcessPwcDataArray(array) ==
  LET InArray == Places(array)
      New(c) == array[CHOOSE i \in DOMAIN array : array[i].chip = c].data
      Old(c) == pwcSharedData[c]
      Reset(c) == ResetDetected(Old(c), New(c))
  IN  /\ pwcSharedData' = [c \in Chips |-> IF c \in InArray THEN New(c) ELSE Old(c)]
      /\ totalSolByDiff' = [c \in Chips |->
           IF c \in InArray /\ ~Reset(c)
           THEN AddTo(totalSolByDiff[c], Difference(Old(c), New(c)))
           ELSE totalSolByDiff[c]]
      /\ mixed' = mixed \cup {c \in InArray :
           \/ New(c).of # c
           \/ Old(c).of # NoChip /\ New(c).life # Old(c).life
                /\ New(c).time >= Old(c).time}

\* An exchange with the slave.  Its answer may be spoilt on the way: it is ignored.
Transfer(got) ==
  /\ spi = "armed" /\ spi' = "done"
  /\ rxBuffer' = IF got THEN reply ELSE << >>
  /\ ProcessPwcDataArray(rxBuffer')
  /\ strayed' = strayed \ Places(rxBuffer')
  /\ UNCHANGED <<chipVars, currentSeq, checked, items, toMasterTxId, reply, taken, faultVars>>

\* SpiTransmitter throws before the slave saw the frame: rxBuffer holds the answer of the
\* exchange before, with this slave or with another one since, and it is taken for the
\* answer of this one.
TransferThrows(array) ==
  /\ Fault
  /\ rxBuffer' = array
  /\ ProcessPwcDataArray(array)
  /\ strayed' = IF array = rxBuffer THEN strayed ELSE strayed \cup Places(array)
  /\ UNCHANGED <<chipVars, slaveVars, taken, masterRestarts>>

MasterRestarts ==
  /\ Fault
  /\ masterRestarts' = masterRestarts + 1
  /\ pwcSharedData' = [c \in Chips |-> NoBlock]
  /\ totalSolByDiff' = [c \in Chips |-> 0]
  /\ rxBuffer' = << >> /\ strayed' = {} /\ mixed' = {}
  /\ UNCHANGED <<chipVars, slaveVars, taken>>

-----------------------------------------------------------------------------

Init ==
  /\ conf = [c \in Chips |-> NoChip] /\ block = [c \in Chips |-> NoBlock]
  /\ ready = [c \in Chips |-> FALSE]
  /\ currentSeq = 0 /\ checked = FALSE
  /\ items = << >> /\ toMasterTxId = [c \in Chips |-> 0]
  /\ spi = "idle" /\ reply = << >>
  /\ rxBuffer = << >>
  /\ pwcSharedData = [c \in Chips |-> NoBlock] /\ totalSolByDiff = [c \in Chips |-> 0]
  /\ past = [c \in Chips |-> [l \in Lives |-> 0]] /\ life = [c \in Chips |-> 0]
  /\ taken = {} /\ strayed = {} /\ mixed = {} /\ work = 0
  /\ masterRestarts = 0 /\ faults = 0

SlaveLoop ==
  \/ CheckDataTransfer
  \/ ServiceFails
  \/ \E a \in Chips, acked \in BOOLEAN : Service(currentSeq, a, acked)

Exchange == \E got \in BOOLEAN : Transfer(got)

Next ==
  \/ \E c \in Chips : Report(c) \/ ChipRestarts(c)
  \/ SlaveLoop \/ SlaveRestarts
  \/ Exchange \/ MasterRestarts
  \/ \E array \in {rxBuffer} \cup OtherArrays : TransferThrows(array)

Spec == Init /\ [][Next]_vars

\* The loops of the slave and of the master go on; a chip that has a report is read well
\* now and then, as are the frames with its block.  A chip's clock is its own: some of
\* its reports come just before it is serviced, not all are taken by a misled read.
FairSpec ==
  /\ Spec
  /\ WF_vars(SlaveLoop) /\ WF_vars(Exchange)
  /\ \A c \in Watched :
       /\ SF_vars(checked /\ currentSeq = c /\ Report(c))
       /\ SF_vars(ready[c] /\ Service(c, c, TRUE))
       /\ SF_vars(c \in Places(reply) /\ Transfer(TRUE))

-----------------------------------------------------------------------------
(* Properties. *)

\* Types, and that no array has two blocks of a chip (sendPwcData, fillTx).
TypeOK ==
  /\ conf \in [Chips -> Chips \cup {NoChip}]
  /\ block \in [Chips -> Blocks] /\ ready \in [Chips -> BOOLEAN]
  /\ currentSeq \in Chips /\ checked \in BOOLEAN
  /\ \A array \in {items, reply, rxBuffer} :
       array \in Seqs(Items, MaxItems) /\ OneEach(array)
  /\ toMasterTxId \in [Chips -> 0 .. NumChips]
  /\ spi \in {"idle", "armed", "done"}
  /\ pwcSharedData \in [Chips -> Blocks] /\ totalSolByDiff \in [Chips -> 0 .. MaxTotal]
  /\ past \in [Chips -> [Lives -> Nat]] /\ life \in [Chips -> Lives]
  /\ {taken, strayed, mixed} \subseteq SUBSET Chips
  /\ work \in 0 .. MaxWork
  /\ masterRestarts \in 0 .. MaxFaults /\ faults \in 0 .. MaxFaults

\* What the master knows of a chip was written by that chip, whichever chips answered
\* for it, unless another one was once told that it stands in its place, or the last of
\* its blocks was another slave's, left in the buffer when an exchange failed: the next
\* good one sets it right (downloadStatsFrom, loadConfigTo, runTxRx).
BlocksAreOwn ==
  \A c \in Chips \ (taken \cup strayed) : pwcSharedData[c].of \in {c, NoChip}

\* The master never counts more solutions for a chip than the chip found, in all its
\* lives, and exactly those it reported if neither restarted: blocks sent again and
\* again, late frames, answers processed twice and restarts included.  Excepted is a
\* chip of which a block of another life, or of another chip, was taken for a later one
\* of the same (PwcStat::onPwcBlock).
CountsAreTrue ==
  \A c \in Chips \ mixed :
    /\ totalSolByDiff[c] <= past[c][life[c]] + block[c].sol
    /\ life[c] = 0 /\ masterRestarts = 0 => totalSolByDiff[c] = pwcSharedData[c].sol

\* Though the array has fewer places than there are chips, the master learns the
\* counters of every chip that knows its place (the choice by toMasterTxId in
\* sendPwcData).
EveryChipIsHeard ==
  \A c \in Watched :
    []<>(\/ pwcSharedData[c] = block[c] \/ conf[c] # c
         \/ \E a \in Chips \ {c} : conf[a] = c)
=============================================================================
