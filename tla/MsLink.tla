------------------------------- MODULE MsLink -------------------------------
(***************************************************************************)
(* The exchange of the master with its slaves over SPI: SlaveGate on the    *)
(* master, MasterGate and the SPI driver on a slave, the packet of blocks   *)
(* in between.  In one exchange each side shifts out the frame it prepared  *)
(* before: the slave's answer is as old as its last completed exchange.     *)
(* Jobs and settings go down, nonces come up.  Nothing is acknowledged and  *)
(* nothing is repeated on purpose: both sides send all they have and the    *)
(* receiver finds out what is new.                                          *)
(***************************************************************************)
EXTENDS Naturals, FiniteSets

CONSTANTS
  NumSlaves,        \* slaves that slaveMask selects
  Slots,            \* NonceContainer::SIZE
  Settings,         \* values of an oscillator; 0 switches the board off
  TransfersThrow,   \* the SPI device may report an error
  MaxJobs, MaxFound, MaxEntries, MaxThrows, MaxRestarts, MaxResets, MaxEdits
                    \* bounds of the model: jobs, nonces found, times a nonce enters
                    \* a container, failed transfers, restarts of the master, of
                    \* slaves, edits of the setting

DefaultSetting == 1              \* what a board starts with

ASSUME LinkAssumption ==
  /\ NumSlaves \in Nat \ {0} /\ Slots \in Nat \ {0}
  /\ {0, DefaultSetting} \subseteq Settings
  /\ TransfersThrow \in BOOLEAN
  /\ {MaxJobs, MaxFound, MaxEntries, MaxThrows, MaxRestarts, MaxResets, MaxEdits}
       \subseteq Nat

VARIABLES
  \* The master.
  job, jobIdCounter, works,  \* see JobSource
  turn,           \* the slave runTxRx comes to next
  rxBuffer,       \* the nonces in rxBuffer, or NoNonces
  noncesContainer,  \* SlaveStat::noncesContainer of each slave
  osc, changedFlag, \* g_webgate.hstboardOSC of one board
  \* Each slave.
  spi,            \* state of the SPI driver: "idle", "armed" or "done"
  inbox,          \* the blocks in the slave's rxBuffer that can be dispatched
  reply,          \* the nonces in its txBuffer, or NoNonces
  ring, tx,       \* foundNoncesContainer.nonces and RoundBuffer::tx
  miningData,     \* miningData: [id, work]
  boardOsc,       \* the setting in use, or 0: hashBoardPowerDownFlag is set
  chips,          \* nonces in the slots of its chips
  \* What happened, for the properties.
  found,          \* nonces found so far
  entries,        \* how often a nonce entered a container
  submits,        \* how often it was handed to submitShare
  heard,          \* nonces of a container that reached the master
  overrun,        \* nonces that left a container unheard
  since, replySince, \* nonces added since the newest container heard was copied out,
                  \* since the one in txBuffer was
  throws, restarts, resets, edits

poolVars == <<job, jobIdCounter, works>>
gateVars == <<turn, rxBuffer, noncesContainer>>
webVars == <<osc, changedFlag, edits>>
spiVars == <<spi, inbox, reply>>
ringVars == <<ring, tx>>
slaveVars == <<miningData, boardOsc>>
nonceHist == <<found, entries, submits, heard, overrun, since, replySince>>
faults == <<throws, restarts, resets>>
vars == <<poolVars, gateVars, webVars, spiVars, ringVars, slaveVars, chips, nonceHist,
          faults>>

Slaves == 0 .. NumSlaves - 1
Nonces == 1 .. MaxFound
NoNonce == 0                     \* a slot of zeros: masterJobId is 0
Containers == [1 .. Slots -> Nonces \cup {NoNonce}]
EmptyContainer == [i \in 1 .. Slots |-> NoNonce]
NoNonces == << >>                 \* zeros, or a frame without a good NonceContainer

NoJob == [id |-> 0, work |-> 0]
DefaultJob == [id |-> 1, work |-> 0]   \* PwcMiningData::initDefault
FirstId == 100                   \* c_firstJobIdCounter
Contents(c) == {c[i] : i \in 1 .. Slots} \ {NoNonce}

\* What a frame of the master holds: the setting of MasterData, PwcMiningData.
NoFrame == [osc |-> 0, changed |-> FALSE, job |-> NoJob]

-----------------------------------------------------------------------------
(* The master. *)

\* The pool beside the gate.
Source == INSTANCE JobSource

NewJob ==
  /\ works < MaxJobs
  /\ Source!NewJob
  /\ UNCHANGED <<gateVars, webVars, spiVars, ringVars, slaveVars, chips, nonceHist, faults>>

JobsCleared ==
  /\ Source!JobsCleared
  /\ UNCHANGED <<gateVars, webVars, spiVars, ringVars, slaveVars, chips, nonceHist, faults>>

\* PullOscConfig: the file is read once and removed.  Between two calls the main loop
\* has at least a round of runTxRx, which clears the flag: a call that finds no file
\* changes nothing.
PullOscConfig ==
  /\ turn = 0 /\ ~changedFlag
  /\ edits < MaxEdits
  /\ edits' = edits + 1
  /\ \E v \in Settings :
       /\ osc' = v
       /\ changedFlag' = (v = 0 \/ v # osc)
  /\ UNCHANGED <<poolVars, gateVars, spiVars, ringVars, slaveVars, chips, nonceHist, faults>>

\* Mutant of Frame: a job is only sent along with a change.
FrameOnChange(s) ==
  [osc |-> osc, changed |-> changedFlag, job |-> IF changedFlag THEN job ELSE NoJob]

\* prepareTxBuffer.
Frame(s) == [osc |-> osc, changed |-> changedFlag, job |-> job]

\* processMsg(NonceContainer) of container c for slave s: every slot that differs from
\* the one seen last is a new nonce.
NewIn(s, c) == {c[i] : i \in {j \in 1 .. Slots : c[j] # noncesContainer[s][j]}} \ {NoNonce}

\* Mutant of StoreContainer: what was seen is not kept.
StoreNothing(s, c) == UNCHANGED noncesContainer

StoreContainer(s, c) == noncesContainer' = [noncesContainer EXCEPT ![s] = c]

ProcessResponse(s, c) ==
  IF c = NoNonces
  THEN UNCHANGED <<submits, noncesContainer>>
  ELSE /\ submits' = [n \in Nonces |-> IF n \in NewIn(s, c) THEN submits[n] + 1
                                                             ELSE submits[n]]
       /\ StoreContainer(s, c)

NextTurn == turn' = (turn + 1) % NumSlaves

\* The slave's driver takes part.  Any blocks of a frame may be spoilt on the way.
Transfer(s, data, mining, answer) ==
  /\ turn = s /\ spi[s] = "armed"
  /\ NextTurn
  /\ changedFlag' = FALSE
  /\ spi' = [spi EXCEPT ![s] = "done"]
  /\ inbox' = [inbox EXCEPT ![s] =
        [Frame(s) EXCEPT !.changed = data /\ @,
                         !.job = IF mining THEN @ ELSE NoJob]]
  /\ rxBuffer' = IF answer THEN reply[s] ELSE NoNonces
  /\ ProcessResponse(s, rxBuffer')
  /\ IF answer /\ reply[s] # NoNonces
     THEN /\ heard' = heard \cup Contents(reply[s])
          /\ since' = [since EXCEPT ![s] = replySince[s]]
     ELSE UNCHANGED <<heard, since>>
  /\ UNCHANGED <<poolVars, osc, edits, reply, ringVars, slaveVars, chips, found, entries,
                 overrun, replySince, faults>>

\* The slave is busy: the master shifts in noise.
TransferToBusy(s) ==
  /\ turn = s /\ spi[s] # "armed"
  /\ NextTurn
  /\ changedFlag' = FALSE
  /\ rxBuffer' = NoNonces
  /\ UNCHANGED <<poolVars, noncesContainer, osc, edits, spiVars, ringVars, slaveVars, chips,
                 nonceHist, faults>>

\* SpiTransmitter throws: rxBuffer holds the answer of the exchange before.
TransferThrows(s) ==
  /\ TransfersThrow /\ throws < MaxThrows
  /\ turn = s
  /\ throws' = throws + 1
  /\ NextTurn
  /\ changedFlag' = FALSE
  /\ ProcessResponse(s, rxBuffer)
  /\ UNCHANGED <<poolVars, rxBuffer, osc, edits, spiVars, ringVars, slaveVars, chips, found,
                 entries, heard, overrun, since, replySince, restarts, resets>>

\* The process ends and starts again.
MasterRestarts ==
  /\ restarts < MaxRestarts
  /\ restarts' = restarts + 1
  /\ Source!Restart
  /\ turn' = 0 /\ rxBuffer' = NoNonces
  /\ noncesContainer' = [s \in Slaves |-> EmptyContainer]
  /\ osc' = 0 /\ changedFlag' = FALSE
  /\ UNCHANGED <<edits, spiVars, ringVars, slaveVars, chips, nonceHist, throws, resets>>

-----------------------------------------------------------------------------
(* A slave. *)

\* Mutant of FillTx: the container is emptied once it is sent.
FillTxAndClear(s) ==
  /\ reply' = [reply EXCEPT ![s] = ring[s]]
  /\ replySince' = [replySince EXCEPT ![s] = 0]
  /\ ring' = [ring EXCEPT ![s] = EmptyContainer]

FillTx(s) ==
  /\ reply' = [reply EXCEPT ![s] = ring[s]]
  /\ replySince' = [replySince EXCEPT ![s] = 0]
  /\ UNCHANGED ring

\* checkDataTransfer after a transfer: dispatch its blocks, fill txBuffer, wait for the
\* next one.
CheckDataTransfer(s) ==
  /\ spi[s] = "done"
  /\ spi' = [spi EXCEPT ![s] = "armed"]
  /\ inbox' = [inbox EXCEPT ![s] = NoFrame]
  /\ boardOsc' = IF inbox[s].changed THEN [boardOsc EXCEPT ![s] = inbox[s].osc]
                                     ELSE boardOsc
  /\ miningData' = IF inbox[s].job # NoJob /\ inbox[s].job.id # miningData[s].id
                   THEN [miningData EXCEPT ![s] = inbox[s].job]
                   ELSE miningData
  /\ FillTx(s)
  /\ UNCHANGED <<poolVars, gateVars, webVars, tx, chips, found, entries, submits, heard,
                 overrun, since, faults>>

\* The first call after a start.
FirstTransfer(s) ==
  /\ spi[s] = "idle"
  /\ spi' = [spi EXCEPT ![s] = "armed"]
  /\ UNCHANGED <<poolVars, gateVars, webVars, inbox, reply, ringVars, slaveVars, chips,
                 nonceHist, faults>>

\* A chip puts a solution into one of its slots.
ChipFinds(s) ==
  /\ found < MaxFound
  /\ found' = found + 1
  /\ chips' = [chips EXCEPT ![s] = @ \cup {found'}]
  /\ UNCHANGED <<poolVars, gateVars, webVars, spiVars, ringVars, slaveVars, entries, submits,
                 heard, overrun, since, replySince, faults>>

\* Mutant of NextTx: the last slot is not used.
NextTxEarly(i) == IF i + 1 >= Slots THEN 1 ELSE i + 1

\* Mutant of NextTx: no wrap.
NextTxOnly(i) == i + 1

\* tx counts from 0 in the code.
NextTx(i) == IF i >= Slots THEN 1 ELSE i + 1

\* RoundBuffer::add.
AddNonce(s, n) ==
  /\ entries[n] < MaxEntries
  /\ entries' = [entries EXCEPT ![n] = @ + 1]
  /\ ring' = [ring EXCEPT ![s][tx[s]] = n]
  /\ tx' = [tx EXCEPT ![s] = NextTx(@)]
  /\ overrun' = IF ring[s][tx[s]] \in Nonces \ heard THEN overrun \cup {ring[s][tx[s]]}
                                                      ELSE overrun
  /\ since' = [since EXCEPT ![s] = @ + 1]
  /\ replySince' = [replySince EXCEPT ![s] = @ + 1]

\* sendNonce: a nonce that is still in the container is a duplicate.
SendNonce(s, n) ==
  IF n \in Contents(ring[s])
  THEN UNCHANGED <<ringVars, entries, overrun, since, replySince>>
  ELSE AddNonce(s, n)

\* downloadNoncesFrom one chip.  The write that clears its slot may be lost.
DownloadNonce(s, n, cleared) ==
  /\ n \in chips[s]
  /\ SendNonce(s, n)
  /\ chips' = IF cleared THEN [chips EXCEPT ![s] = @ \ {n}] ELSE chips
  /\ UNCHANGED <<poolVars, gateVars, webVars, spiVars, slaveVars, found, submits, heard,
                 faults>>

\* A reset of the slave.  Its chips may keep their slots.
SlaveRestarts(s, kept) ==
  /\ resets < MaxResets
  /\ resets' = resets + 1
  /\ spi' = [spi EXCEPT ![s] = "idle"]
  /\ inbox' = [inbox EXCEPT ![s] = NoFrame]
  /\ reply' = [reply EXCEPT ![s] = NoNonces]
  /\ ring' = [ring EXCEPT ![s] = EmptyContainer]
  /\ tx' = [tx EXCEPT ![s] = 1]
  /\ miningData' = [miningData EXCEPT ![s] = DefaultJob]
  /\ boardOsc' = [boardOsc EXCEPT ![s] = DefaultSetting]
  /\ chips' = IF kept THEN chips ELSE [chips EXCEPT ![s] = {}]
  /\ overrun' = overrun \cup (Contents(ring[s]) \ heard)
  /\ since' = [since EXCEPT ![s] = 0] /\ replySince' = [replySince EXCEPT ![s] = 0]
  /\ UNCHANGED <<poolVars, gateVars, webVars, found, entries, submits, heard, throws,
                 restarts>>

-----------------------------------------------------------------------------

Init ==
  /\ Source!Init
  /\ turn = 0 /\ rxBuffer = NoNonces
  /\ noncesContainer = [s \in Slaves |-> EmptyContainer]
  /\ osc = 0 /\ changedFlag = FALSE /\ edits = 0
  /\ spi = [s \in Slaves |-> "idle"]
  /\ inbox = [s \in Slaves |-> NoFrame]
  /\ reply = [s \in Slaves |-> NoNonces]
  /\ ring = [s \in Slaves |-> EmptyContainer]
  /\ tx = [s \in Slaves |-> 1]
  /\ miningData = [s \in Slaves |-> DefaultJob]
  /\ boardOsc = [s \in Slaves |-> DefaultSetting]
  /\ chips = [s \in Slaves |-> {}]
  /\ found = 0
  /\ entries = [n \in Nonces |-> 0] /\ submits = [n \in Nonces |-> 0]
  /\ heard = {} /\ overrun = {}
  /\ since = [s \in Slaves |-> 0] /\ replySince = [s \in Slaves |-> 0]
  /\ throws = 0 /\ restarts = 0 /\ resets = 0

Exchange(s) ==
  \/ \E data, mining, answer \in BOOLEAN : Transfer(s, data, mining, answer)
  \/ TransferToBusy(s)
  \/ TransferThrows(s)

Slave(s) == CheckDataTransfer(s) \/ FirstTransfer(s)

Download(s) == \E n \in chips[s], cleared \in BOOLEAN : DownloadNonce(s, n, cleared)

Next ==
  \/ NewJob \/ JobsCleared \/ PullOscConfig \/ MasterRestarts
  \/ \E s \in Slaves :
       \/ Exchange(s) \/ Slave(s) \/ ChipFinds(s) \/ Download(s)
       \/ \E kept \in BOOLEAN : SlaveRestarts(s, kept)

Spec == Init /\ [][Next]_vars

\* The loops of the master and of the slaves go on, and of the exchanges with a slave
\* that is ready some come through whole.
FairSpec ==
  /\ Spec
  /\ WF_vars(\E s \in Slaves : Exchange(s))
  /\ \A s \in Slaves : WF_vars(Slave(s)) /\ SF_vars(Transfer(s, TRUE, TRUE, TRUE))

-----------------------------------------------------------------------------
(* Properties. *)

Jobs == [id : Nat, work : 0 .. MaxJobs]

TypeOK ==
  /\ job \in Jobs /\ jobIdCounter \in 0 .. MaxJobs /\ works \in 0 .. MaxJobs
  /\ turn \in Slaves
  /\ rxBuffer \in Containers \cup {NoNonces}
  /\ noncesContainer \in [Slaves -> Containers]
  /\ osc \in Settings /\ changedFlag \in BOOLEAN /\ edits \in 0 .. MaxEdits
  /\ spi \in [Slaves -> {"idle", "armed", "done"}]
  /\ inbox \in [Slaves -> [osc : Settings, changed : BOOLEAN, job : Jobs]]
  /\ reply \in [Slaves -> Containers \cup {NoNonces}]
  /\ ring \in [Slaves -> Containers] /\ tx \in [Slaves -> 1 .. Slots]
  /\ miningData \in [Slaves -> Jobs] /\ boardOsc \in [Slaves -> Settings]
  /\ chips \in [Slaves -> SUBSET Nonces]
  /\ found \in 0 .. MaxFound
  /\ entries \in [Nonces -> 0 .. MaxEntries] /\ submits \in [Nonces -> Nat]
  /\ heard \subseteq Nonces /\ overrun \subseteq Nonces
  /\ since \in [Slaves -> Nat] /\ replySince \in [Slaves -> Nat]
  /\ throws \in 0 .. MaxThrows /\ restarts \in 0 .. MaxRestarts
  /\ resets \in 0 .. MaxResets

\* A nonce that entered a container is submitted, or still there to be sent, or it was
\* overrun or reset before any answer with it reached the master: no exchange that
\* fails, no slave that restarts and no comparison of containers loses one
\* (sendNonce, fillTx, processMsg(NonceContainer)).
NoncesAreKept ==
  \A n \in Nonces : entries[n] > 0 =>
    \/ submits[n] > 0
    \/ \E s \in Slaves : n \in Contents(ring[s])
    \/ n \in overrun

\* A nonce is submitted again only because it entered a container again, or for a
\* failed transfer or a restart of the master, once for each: containers sent again and
\* again and those of another slave in rxBuffer included (processMsg(NonceContainer)).
RepeatsHaveCauses ==
  \A n \in Nonces : submits[n] <= entries[n] + throws + restarts

\* Over all failures no nonce of a container is lost silently and none is submitted
\* more often than there are causes (sendNonce, fillTx, processMsg(NonceContainer)).
NoncesAreAccounted == NoncesAreKept /\ RepeatsHaveCauses

\* A nonce is overrun only by as many younger ones as the container has slots, counted
\* from the container that the master heard last, or lost by a reset of the slave
\* (RoundBuffer::add, and the age of an answer).
OverrunTakesAWhole ==
  [][overrun' # overrun => \/ resets' # resets
                           \/ \E s \in Slaves : ring'[s] # ring[s] /\ since'[s] > Slots]_vars

\* A slave ends up with a job of the id of the master's, if there are no more new ones,
\* and with that very job if the master never restarted: a slave knows jobs by their ids,
\* which start again with the master (prepareTxBuffer, processMsg(PwcMiningData)).
JobArrives ==
  \A s \in Slaves :
    <>[](job # NoJob => /\ miningData[s].id = job.id
                        /\ (restarts = 0 => miningData[s] = job))

\* A nonce in a container reaches the pool, unless it is overrun (runTxRx).
NoncesArrive ==
  \A n \in Nonces : entries[n] > 0 ~> submits[n] > 0 \/ n \in overrun

\* "Set power down flag to slave": a board that is to be switched off is, unless another
\* setting follows (PullOscConfig, prepareTxBuffer).
PowerDownArrives ==
  changedFlag /\ osc = 0 ~> osc # 0 \/ \A s \in Slaves : boardOsc[s] = 0
=============================================================================
