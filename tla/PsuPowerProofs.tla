--------------------------- MODULE PsuPowerProofs ---------------------------
(***************************************************************************)
(* Proofs about PsuPower, for any rectifiers, any settings that fit in their *)
(* fields, and any width: the voltage asked for keeps within what was        *)
(* configured, even while the settings are stored half way; a rectifier over *)
(* its limit has it lowered, and never raised if the settings leave room for *)
(* a step; and the boards get what PsuContract promises.                     *)
(***************************************************************************)
EXTENDS PsuPower, FiniteSetTheorems, TLAPS

-----------------------------------------------------------------------------
(* The inductive invariant. *)

\* Torn or not, each word of the settings comes from one the master sent.
CfgInv ==
  /\ cfg \in PsuConfig
  /\ \E c \in Configs : cfg.voltage = c.voltage
  /\ \E c \in Configs : cfg.minimalVoltage = c.minimalVoltage
  /\ \E c \in Configs : cfg.initialVoltage = c.initialVoltage
  /\ \E c \in Configs : /\ cfg.voltageStepUp = c.voltageStepUp
                       /\ cfg.voltageStepDown = c.voltageStepDown

\* Until the type is found nothing is polled; the manager of Huawei polls both or none.
CheckInv ==
  /\ autoCheckFlag <=> ~pHBWorkCond
  /\ autoCheckFlag => state = "INITIAL"
  /\ moduleIndex = Huawei /\ state # "INITIAL" => ~(Cardinality(registered) < MaxPsuPerSlave)

IInv == TypeOK /\ CfgInv /\ VoltageInBounds /\ CheckInv

\* The settings in force, torn or not.
LEMMA CfgFacts ==
  ASSUME CfgInv
  PROVE  /\ cfg.voltage \in Word /\ cfg.minimalVoltage \in Word
         /\ cfg.initialVoltage \in Word
         /\ cfg.voltageStepUp \in Word /\ cfg.voltageStepDown \in Word
BY DEF CfgInv, PsuConfig

-----------------------------------------------------------------------------
(* The voltage asked for at full power. *)

LEMMA SteppedDownType ==
  ASSUME CfgInv, setVoltage \in Word
  PROVE  SteppedDown \in Word
PROOF
<1>1. Width \in Nat /\ Width > 0 BY PsuAssumption
<1>2. setVoltage + Width - cfg.voltageStepDown \in Int BY <1>1, CfgFacts DEF Word
<1>3. \A x \in Int : x % Width \in 0 .. Width - 1 BY <1>1
<1> QED BY <1>2, <1>3 DEF SteppedDown, Word

\* A step down that is not more than what there is does not wrap.
LEMMA SteppedDownExact ==
  ASSUME CfgInv, setVoltage \in Word, cfg.voltageStepDown <= setVoltage
  PROVE  SteppedDown = setVoltage - cfg.voltageStepDown
PROOF
<1> DEFINE d == setVoltage - cfg.voltageStepDown
<1>1. Width \in Nat /\ Width > 0 BY PsuAssumption
<1>2. d \in 0 .. Width - 1 BY <1>1, CfgFacts DEF Word
<1>3. setVoltage + Width - cfg.voltageStepDown = d + Width BY <1>1, CfgFacts DEF Word
<1> HIDE DEF d
<1>4. (d + Width) % Width = d BY <1>1, <1>2
<1> QED BY <1>3, <1>4 DEF SteppedDown, d

LEMMA FullPowerType ==
  ASSUME CfgInv, setVoltage \in Word, NEW regs, NEW inf
  PROVE  FullPowerVoltage(regs, inf) \in Word
PROOF
<1>1. SteppedDown \in Word BY SteppedDownType
<1>2. StepsUp => setVoltage + cfg.voltageStepUp \in Word
  BY CfgFacts, PsuAssumption DEF StepsUp, Word
<1> QED BY <1>1, <1>2 DEF FullPowerVoltage

\* Clamped, a voltage is within the settings in force, or the minimal one if they are torn.
LEMMA ClampFacts ==
  ASSUME CfgInv, NEW v \in Word
  PROVE  /\ Clamp(v) \in Word
         /\ Clamp(v) # 0 => cfg.minimalVoltage <= Clamp(v)
         /\ Clamp(v) <= cfg.voltage \/ Clamp(v) = cfg.minimalVoltage
         /\ Clamp(v) <= v \/ Clamp(v) = cfg.minimalVoltage
BY CfgFacts, PsuAssumption DEF Clamp, AtMost, AtLeast, Word

LEMMA ClampInBounds ==
  ASSUME CfgInv, NEW v \in Word, Clamp(v) # 0
  PROVE  /\ \E c \in Configs : c.minimalVoltage <= Clamp(v)
         /\ \E c \in Configs : Clamp(v) <= AtLeast(c.voltage, c.minimalVoltage)
PROOF
<1> DEFINE w == Clamp(v)
<1>1. /\ w \in Word /\ cfg.minimalVoltage <= w
      /\ w <= cfg.voltage \/ w = cfg.minimalVoltage
  BY ClampFacts
<1> HIDE DEF w
<1>2. PICK b \in Configs : cfg.minimalVoltage = b.minimalVoltage BY DEF CfgInv
<1>3. PICK a \in Configs : cfg.voltage = a.voltage BY DEF CfgInv
<1>4. /\ a.voltage \in Word /\ a.minimalVoltage \in Word
      /\ b.voltage \in Word /\ b.minimalVoltage \in Word
  BY PsuAssumption DEF PsuConfig
<1>5. \E c \in Configs : w <= AtLeast(c.voltage, c.minimalVoltage)
  <2>1. CASE w <= cfg.voltage
    <3>1. w <= AtLeast(a.voltage, a.minimalVoltage)
      BY <1>1, <1>3, <1>4, <2>1, PsuAssumption DEF AtLeast, Word
    <3> QED BY <3>1
  <2>2. CASE w = cfg.minimalVoltage
    <3>1. w <= AtLeast(b.voltage, b.minimalVoltage)
      BY <1>2, <1>4, <2>2, PsuAssumption DEF AtLeast, Word
    <3> QED BY <3>1
  <2> QED BY <1>1, <2>1, <2>2
<1> QED BY <1>1, <1>2, <1>5 DEF w

-----------------------------------------------------------------------------
(* The steps. *)

LEMMA InitIInv ==
  Init => IInv
PROOF
<1> SUFFICES ASSUME Init PROVE IInv OBVIOUS
<1>1. TypeOK
  <2>1. NoReport \in Reports BY PsuAssumption DEF NoReport, Reports, Loads
  <2>2. Cardinality({}) = 0 BY FS_EmptySet
  <2>3. DefaultConfig \in PsuConfig BY PsuAssumption
  <2>4. info \in [Rectifiers -> Reports] BY <2>1 DEF Init
  <2>5. registered \subseteq Rectifiers /\ Cardinality(registered) <= MaxPsuPerSlave
    BY <2>2 DEF Init, MaxPsuPerSlave
  <2>6. /\ checkcnt \in 0 .. Tries + 1 /\ moduleIndex \in 0 .. 3
        /\ setVoltage \in Word /\ age \in 0 .. MaxHold
        /\ toCopy \in 0 .. Words
    BY PsuAssumption DEF Init, Words, Word
  <2> QED BY <2>3, <2>4, <2>5, <2>6, PsuAssumption DEF Init, TypeOK
<1>2. CfgInv
  BY PsuAssumption DEF Init, CfgInv
<1>3. VoltageInBounds /\ CheckInv
  BY DEF Init, VoltageInBounds, CheckInv
<1> QED BY <1>1, <1>2, <1>3 DEF IInv

\* A word of another setting of the master leaves the settings a mix of his.
LEMMA StoreWordCfg ==
  ASSUME IInv, StoreWord PROVE CfgInv'
PROOF
<1>1. incoming \in Configs /\ incoming \in PsuConfig /\ cfg \in PsuConfig
  BY PsuAssumption DEF IInv, TypeOK
<1>2. toCopy \in 1 .. 5 BY DEF IInv, TypeOK, StoreWord, Words
<1>3. CASE toCopy = 5
  <2>1. cfg' = [cfg EXCEPT !.powerOn = incoming.powerOn]
    BY <1>3 DEF StoreWord
  <2> QED BY <1>1, <2>1 DEF CfgInv, IInv, PsuConfig
<1>4. CASE toCopy = 4
  <2>1. cfg' = [cfg EXCEPT !.voltage = incoming.voltage]
    BY <1>4 DEF StoreWord
  <2> QED BY <1>1, <2>1 DEF CfgInv, IInv, PsuConfig
<1>5. CASE toCopy = 3
  <2>1. cfg' = [cfg EXCEPT !.minimalVoltage = incoming.minimalVoltage]
    BY <1>5 DEF StoreWord
  <2> QED BY <1>1, <2>1 DEF CfgInv, IInv, PsuConfig
<1>6. CASE toCopy = 2
  <2>1. cfg' = [cfg EXCEPT !.initialVoltage = incoming.initialVoltage,
                           !.lowPowerTime = incoming.lowPowerTime]
    BY <1>6 DEF StoreWord
  <2> QED BY <1>1, <2>1 DEF CfgInv, IInv, PsuConfig
<1>7. CASE toCopy = 1
  <2>1. cfg' = [cfg EXCEPT !.voltageStepUp = incoming.voltageStepUp,
                           !.voltageStepDown = incoming.voltageStepDown]
    BY <1>7 DEF StoreWord
  <2> QED BY <1>1, <2>1 DEF CfgInv, IInv, PsuConfig
<1> QED BY <1>2, <1>3, <1>4, <1>5, <1>6, <1>7

\* The state a poll leads to, and the voltage with it.
LEMMA PollVoltage ==
  ASSUME IInv, NEW regs \in SUBSET Rectifiers, NEW inf \in [Rectifiers -> Reports],
         state' = NextState(regs, inf),
         setVoltage' = SetVoltageIn(state', regs, inf)
  PROVE  /\ state' \in {"INITIAL", "FULL", "OFF"}
         /\ setVoltage' \in Word
         /\ VoltageInBounds'
PROOF
<1>1. state \in {"INITIAL", "FULL", "OFF"} /\ setVoltage \in Word /\ cfg.powerOn \in BOOLEAN
  BY DEF IInv, TypeOK, CfgInv, PsuConfig
<1>2. state' \in {"INITIAL", "FULL", "OFF"}
  BY <1>1 DEF NextState
<1>3. CASE state' = "INITIAL"
  <2>1. setVoltage' = cfg.initialVoltage BY <1>3 DEF SetVoltageIn
  <2> QED BY <1>3, <2>1, CfgFacts DEF VoltageInBounds, IInv
<1>4. CASE state' = "OFF"
  <2>1. setVoltage' = 0 BY <1>4 DEF SetVoltageIn
  <2> QED BY <1>4, <2>1, PsuAssumption DEF VoltageInBounds, Word
<1>5. CASE state' = "FULL"
  <2>1. setVoltage' = Clamp(FullPowerVoltage(regs, inf)) BY <1>5 DEF SetVoltageIn
  <2>2. FullPowerVoltage(regs, inf) \in Word BY <1>1, FullPowerType DEF IInv
  <2>3. setVoltage' \in Word BY <2>1, <2>2, ClampFacts DEF IInv
  <2>4. setVoltage' # 0 =>
          /\ \E c \in Configs : c.minimalVoltage <= setVoltage'
          /\ \E c \in Configs : setVoltage' <= AtLeast(c.voltage, c.minimalVoltage)
    BY <2>1, <2>2, ClampInBounds DEF IInv
  <2> QED BY <1>5, <2>3, <2>4 DEF VoltageInBounds
<1> QED BY <1>2, <1>3, <1>4, <1>5

\* More rectifiers are not fewer.
LEMMA RegisteredGrow ==
  ASSUME NEW regs \in SUBSET Rectifiers, registered \subseteq regs,
         Cardinality(regs) < MaxPsuPerSlave
  PROVE  Cardinality(registered) < MaxPsuPerSlave
PROOF
<1>1. IsFiniteSet(regs) BY PsuAssumption, FS_Subset
<1>2. /\ IsFiniteSet(registered) /\ Cardinality(registered) <= Cardinality(regs)
  BY <1>1, FS_Subset
<1>3. Cardinality(regs) \in Nat /\ Cardinality(registered) \in Nat
  BY <1>1, <1>2, FS_CardinalityType
<1> QED BY <1>2, <1>3 DEF MaxPsuPerSlave

LEMMA PollType ==
  ASSUME IInv, Poll PROVE TypeOK' /\ VoltageInBounds' /\ CheckInv'
PROOF
<1>1. PICK regs \in SUBSET Rectifiers, inf \in [Rectifiers -> Reports] :
         /\ registered \subseteq regs /\ Cardinality(regs) <= MaxPsuPerSlave
         /\ registered' = regs /\ info' = inf
         /\ IF moduleIndex = Huawei /\ Cardinality(regs) < MaxPsuPerSlave
            THEN Pass /\ UNCHANGED powerVars
            ELSE /\ state' = NextState(regs, inf)
                 /\ setVoltage' = SetVoltageIn(state', regs, inf)
                 /\ age' = AgeNow(regs, inf)
  BY DEF Poll
<1>2. UNCHANGED <<cfg, incoming, toCopy, enabled, autoCheckFlag, checkcnt, moduleIndex,
                  pHBWorkCond, up, supply>>
  BY DEF Poll, cfgVars, checkVars
<1>3. age' \in 0 .. MaxHold
  BY <1>1, PsuAssumption DEF Pass, AgeNow, IInv, TypeOK, powerVars
<1>4. /\ state' \in {"INITIAL", "FULL", "OFF"} /\ setVoltage' \in Word
      /\ VoltageInBounds'
  <2>1. CASE moduleIndex = Huawei /\ Cardinality(regs) < MaxPsuPerSlave
    BY <1>1, <2>1 DEF powerVars, IInv, TypeOK, VoltageInBounds
  <2>2. CASE ~(moduleIndex = Huawei /\ Cardinality(regs) < MaxPsuPerSlave)
    <3>1. state' = NextState(regs, inf) /\ setVoltage' = SetVoltageIn(state', regs, inf)
      BY <1>1, <2>2
    <3> QED BY <3>1, PollVoltage
  <2> QED BY <2>1, <2>2
<1>5. TypeOK'
  BY <1>1, <1>2, <1>3, <1>4 DEF IInv, TypeOK
<1>6. CheckInv'
  <2>1. ~autoCheckFlag BY DEF Poll
  <2>2. CASE moduleIndex = Huawei /\ Cardinality(regs) < MaxPsuPerSlave
    <3>1. Cardinality(registered) < MaxPsuPerSlave BY <1>1, <2>2, RegisteredGrow
    <3>2. state' = state BY <1>1, <2>2 DEF powerVars
    <3> QED BY <1>2, <2>1, <2>2, <3>1, <3>2 DEF IInv, CheckInv
  <2>3. CASE ~(moduleIndex = Huawei /\ Cardinality(regs) < MaxPsuPerSlave)
    BY <1>1, <1>2, <2>1, <2>3 DEF IInv, CheckInv
  <2> QED BY <2>2, <2>3
<1> QED BY <1>4, <1>5, <1>6

LEMMA NextIInv ==
  IInv /\ [Next]_vars => IInv'
PROOF
<1> SUFFICES ASSUME IInv, [Next]_vars PROVE IInv' OBVIOUS
<1> USE DEF IInv
<1>1. ASSUME NEW c \in Configs, ReceiveConfig(c) PROVE IInv'
  BY <1>1 DEF ReceiveConfig, TypeOK, CfgInv, VoltageInBounds, CheckInv, Words,
    checkVars, moduleVars, powerVars
<1>2. CASE StoreWord
  <2>1. CfgInv' BY <1>2, StoreWordCfg
  <2>2. TypeOK'
    BY <1>2, <2>1 DEF StoreWord, TypeOK, CfgInv, Words, checkVars, moduleVars,
      powerVars
  <2>3. VoltageInBounds' /\ CheckInv'
    BY <1>2 DEF StoreWord, VoltageInBounds, CheckInv, checkVars,
      moduleVars, powerVars
  <2> QED BY <2>1, <2>2, <2>3
<1>3. CASE SetEnable
  BY <1>3 DEF SetEnable, TypeOK, CfgInv, VoltageInBounds, CheckInv,
    checkVars, moduleVars, powerVars
<1>4. CASE Disabled
  BY <1>4, PsuAssumption DEF Disabled, Pass, TypeOK, CfgInv, VoltageInBounds,
    CheckInv, cfgVars, checkVars, moduleVars, powerVars
<1>5. CASE CheckFails
  <2>1. checkcnt' \in 0 .. Tries + 1 /\ moduleIndex' \in 0 .. 3
    BY <1>5, PsuAssumption DEF CheckFails, TypeOK, Types
  <2> QED
    BY <1>5, <2>1, PsuAssumption DEF CheckFails, Pass, TypeOK, CfgInv,
      VoltageInBounds, CheckInv, cfgVars, moduleVars, powerVars
<1>6. CASE CheckSucceeds
  <2>1. NoReport \in Reports BY PsuAssumption DEF NoReport, Reports, Loads
  <2>2. info' \in [Rectifiers -> Reports] BY <1>6, <2>1 DEF CheckSucceeds
  <2>3. registered' \subseteq Rectifiers /\ Cardinality(registered') <= MaxPsuPerSlave
    BY <1>6, FS_EmptySet DEF CheckSucceeds, MaxPsuPerSlave
  <2>4. age' \in 0 .. MaxHold BY <1>6, PsuAssumption DEF CheckSucceeds, Pass, TypeOK
  <2>5. TypeOK'
    BY <1>6, <2>2, <2>3, <2>4 DEF CheckSucceeds, TypeOK, cfgVars, powerVars
  <2>6. CfgInv' /\ VoltageInBounds' /\ CheckInv'
    BY <1>6 DEF CheckSucceeds, CfgInv, VoltageInBounds, CheckInv,
      cfgVars, powerVars
  <2> QED BY <2>5, <2>6
<1>7. CASE CheckOfNothing
  BY <1>7 DEF CheckOfNothing, TypeOK, CfgInv, VoltageInBounds, CheckInv,
    cfgVars, checkVars, moduleVars, powerVars
<1>8. CASE Poll
  <2>1. TypeOK' /\ VoltageInBounds' /\ CheckInv' BY <1>8, PollType
  <2>2. CfgInv' BY <1>8 DEF Poll, CfgInv, cfgVars
  <2> QED BY <2>1, <2>2
<1>9. CASE WatchdogReset
  <2>1. Init'
    BY <1>9 DEF WatchdogReset, TypeOK, Init
  <2>2. (Init => IInv)'
    BY InitIInv, PTL
  <2> QED BY <2>1, <2>2
<1>10. CASE UNCHANGED vars
  BY <1>10 DEF vars, TypeOK, CfgInv, VoltageInBounds, CheckInv,
    cfgVars, checkVars, moduleVars, powerVars
<1> QED
  BY <1>1, <1>2, <1>3, <1>4, <1>5, <1>6, <1>7, <1>8, <1>9, <1>10 DEF Next, Tick

THEOREM AlwaysIInv == Spec => []IInv
BY InitIInv, NextIInv, PTL DEF Spec

\* In every reachable state the voltage is a uint16_t, the index of the type within its
\* array, and everything else of its type.
THEOREM AlwaysTyped == Spec => []TypeOK
PROOF
<1>1. IInv => TypeOK BY DEF IInv
<1> QED BY <1>1, AlwaysIInv, PTL

\* With any settings, torn in any way, full power is asked for within the limits.
THEOREM AlwaysInBounds == Spec => []VoltageInBounds
PROOF
<1>1. IInv => VoltageInBounds BY DEF IInv
<1> QED BY <1>1, AlwaysIInv, PTL

\* In a poll with power, the manager steps PowerMgr.
LEMMA FullPoll ==
  ASSUME IInv, NEW loads, PollWith(loads)
  PROVE  /\ setVoltage' = Clamp(FullPowerVoltage(registered', info'))
         /\ UNCHANGED cfg
PROOF
<1>1. PICK regs \in SUBSET Rectifiers, inf \in [Rectifiers -> Reports] :
         /\ Cardinality(regs) <= MaxPsuPerSlave
         /\ registered \subseteq regs
         /\ registered' = regs /\ info' = inf
         /\ IF moduleIndex = Huawei /\ Cardinality(regs) < MaxPsuPerSlave
            THEN Pass /\ UNCHANGED powerVars
            ELSE /\ state' = NextState(regs, inf)
                 /\ setVoltage' = SetVoltageIn(state', regs, inf)
  BY DEF PollWith, Poll
<1>2. state = "FULL" /\ state' = "FULL" /\ UNCHANGED cfg BY DEF PollWith, Poll, cfgVars
<1>3. ~(moduleIndex = Huawei /\ Cardinality(regs) < MaxPsuPerSlave)
  BY <1>1, <1>2, RegisteredGrow DEF IInv, CheckInv
<1> QED BY <1>1, <1>2, <1>3 DEF SetVoltageIn

\* With any settings at all a rectifier over its limit has the voltage lowered, unless the
\* step is larger than the voltage, and one at its limit does not have it raised.
THEOREM AlwaysLowered == Spec => OvercurrentLowers
PROOF
<1>1. ASSUME IInv, PollWith({"over"}), cfg.voltageStepDown \in 1 .. setVoltage
      PROVE  setVoltage' < setVoltage \/ setVoltage' = cfg.minimalVoltage
  <2>1. CfgInv /\ setVoltage \in Word BY <1>1 DEF IInv, TypeOK
  <2>2. FullPowerVoltage(registered', info') = SteppedDown
    BY <1>1 DEF PollWith, FullPowerVoltage
  <2>3. SteppedDown = setVoltage - cfg.voltageStepDown /\ SteppedDown \in Word
    BY <1>1, <2>1, SteppedDownExact, SteppedDownType
  <2>4. /\ Clamp(SteppedDown) \in Word
        /\ Clamp(SteppedDown) <= SteppedDown \/ Clamp(SteppedDown) = cfg.minimalVoltage
    BY <2>1, <2>3, ClampFacts
  <2>5. setVoltage' = Clamp(SteppedDown) BY <1>1, <2>2, FullPoll
  <2> QED BY <1>1, <2>1, <2>3, <2>4, <2>5, CfgFacts DEF Word
<1>2. ASSUME IInv, PollWith({"limit"}), ~PollWith({"over"})
      PROVE  setVoltage' <= setVoltage \/ setVoltage' = cfg.minimalVoltage
  <2>1. CfgInv /\ setVoltage \in Word BY <1>2 DEF IInv, TypeOK
  <2>2. FullPowerVoltage(registered', info') = setVoltage
    BY <1>2 DEF PollWith, FullPowerVoltage
  <2>3. setVoltage' = Clamp(setVoltage) BY <1>2, <2>2, FullPoll
  <2> QED BY <2>1, <2>3, ClampFacts
<1> QED BY <1>1, <1>2, AlwaysIInv, PTL DEF OvercurrentLowers

-----------------------------------------------------------------------------
(* Settings that leave room for a step. *)

\* voltageStepDown is a decrement (ms_data_psu.h:32): a rectifier over its limit never has
\* the voltage raised, but to the minimum.  Not so for a step larger than the voltage: it
\* wraps round to a high one, which is clamped to the full voltage.
OvercurrentNeverRaises ==
  [][PollWith({"over"})
       => setVoltage' <= setVoltage \/ setVoltage' = cfg.minimalVoltage]_vars

\* Every step down is smaller than every voltage there is to step down from, and there is
\* a step up from nothing; the values of PsuConfig::PsuConfig() are such.
LeaveRoom ==
  \A c, d \in Configs :
    /\ d.voltageStepDown < c.minimalVoltage /\ d.voltageStepDown < c.initialVoltage
    /\ 0 < d.voltageStepUp /\ d.voltageStepUp < c.voltage

\* There is always room for the step down that is set, or no voltage was asked for yet.
Room(v) == \A c \in Configs : c.voltageStepDown < v

RoomInv ==
  /\ state = "INITIAL" => setVoltage = 0 \/ Room(setVoltage)
  /\ state = "FULL" => Room(setVoltage)

LEMMA CfgRoom ==
  ASSUME LeaveRoom, CfgInv
  PROVE  /\ Room(cfg.minimalVoltage) /\ Room(cfg.initialVoltage)
         /\ 0 < cfg.voltageStepUp /\ cfg.voltageStepUp < cfg.voltage
         /\ \A v : Room(v) => cfg.voltageStepDown < v
BY DEF LeaveRoom, CfgInv, Room

\* The first step, from nothing: rectifiers that are stable without a voltage carry no
\* current, so it leads upwards.
LEMMA StepFromNothing ==
  ASSUME LeaveRoom, CfgInv, setVoltage = 0, NEW regs \in SUBSET Rectifiers,
         NEW inf \in [Rectifiers -> Reports], VoltageStable(regs, inf)
  PROVE  FullPowerVoltage(regs, inf) # 0
PROOF
<1>1. \A r \in regs : inf[r].load = "low"
  <2> SUFFICES ASSUME NEW r \in regs PROVE inf[r].load = "low" OBVIOUS
  <2>1. inf[r] \in Reports OBVIOUS
  <2>2. inf[r].voltage <= 0 + Tolerance BY DEF VoltageStable
  <2>3. inf[r].voltage <= Tolerance BY <2>2, PsuAssumption
  <2> QED BY <2>1, <2>3 DEF Reports
<1>2. FullPowerVoltage(regs, inf) = 0 + cfg.voltageStepUp
  BY <1>1, CfgRoom, CfgFacts, PsuAssumption DEF FullPowerVoltage, StepsUp, Word
<1> QED BY <1>2, CfgRoom, CfgFacts, PsuAssumption DEF Word

LEMMA StepFromRoom ==
  ASSUME LeaveRoom, CfgInv, setVoltage \in Word, Room(setVoltage), NEW regs, NEW inf
  PROVE  FullPowerVoltage(regs, inf) # 0
PROOF
<1>1. cfg.voltageStepDown < setVoltage BY CfgRoom
<1>2. SteppedDown = setVoltage - cfg.voltageStepDown
  BY <1>1, SteppedDownExact, CfgFacts, PsuAssumption DEF Word
<1>3. SteppedDown # 0 /\ setVoltage # 0 /\ setVoltage + cfg.voltageStepUp # 0
  BY <1>1, <1>2, CfgFacts, PsuAssumption DEF Word
<1> QED BY <1>3 DEF FullPowerVoltage

LEMMA PollRoom ==
  ASSUME LeaveRoom, IInv, IInv', RoomInv, Poll
  PROVE  RoomInv'
PROOF
<1>1. PICK regs \in SUBSET Rectifiers, inf \in [Rectifiers -> Reports] :
         \/ UNCHANGED powerVars
         \/ /\ state' = NextState(regs, inf)
            /\ setVoltage' = SetVoltageIn(state', regs, inf)
  BY DEF Poll
<1>2. CASE UNCHANGED powerVars BY <1>2 DEF powerVars, RoomInv
<1>3. CASE /\ state' = NextState(regs, inf)
           /\ setVoltage' = SetVoltageIn(state', regs, inf)
  <2>1. CASE state' = "INITIAL"
    <3>1. setVoltage' = cfg.initialVoltage BY <1>3, <2>1 DEF SetVoltageIn
    <3> QED BY <2>1, <3>1, CfgRoom DEF RoomInv, IInv
  <2>2. CASE state' = "FULL"
    <3>1. setVoltage' = Clamp(FullPowerVoltage(regs, inf)) BY <1>3, <2>2 DEF SetVoltageIn
    <3>2. state = "FULL" \/ (state = "INITIAL" /\ VoltageStable(regs, inf))
      BY <1>3, <2>2 DEF NextState, IInv, TypeOK, PsuConfig
    <3>3. setVoltage \in Word /\ CfgInv BY DEF IInv, TypeOK
    <3>4. FullPowerVoltage(regs, inf) # 0
      BY <3>2, <3>3, StepFromNothing, StepFromRoom DEF RoomInv
    <3>5. FullPowerVoltage(regs, inf) \in Word BY <3>3, FullPowerType
    <3>6. Clamp(FullPowerVoltage(regs, inf)) # 0
      <4>1. cfg.minimalVoltage # 0 /\ cfg.voltage # 0
        <5>1. cfg.voltageStepDown < cfg.minimalVoltage BY <3>3, CfgRoom
        <5> QED BY <3>3, <5>1, CfgRoom, CfgFacts, PsuAssumption DEF Word
      <4> QED BY <3>4, <4>1 DEF Clamp, AtMost, AtLeast
    <3>7. setVoltage' \in Word /\ cfg.minimalVoltage <= setVoltage'
      BY <3>1, <3>3, <3>5, <3>6, ClampFacts
    <3>8. \A c \in Configs : c.voltageStepDown \in Word BY PsuAssumption DEF PsuConfig
    <3>9. Room(setVoltage')
      BY <3>3, <3>7, <3>8, CfgRoom, CfgFacts, PsuAssumption DEF Room, Word
    <3> QED BY <2>2, <3>9 DEF RoomInv
  <2> QED BY <2>1, <2>2 DEF RoomInv
<1> QED BY <1>1, <1>2, <1>3

\* For settings that leave room a rectifier over its limit never has the voltage raised
\* but to the minimum: no step down wraps round, and none leads to nothing, which would
\* not be clamped and from which the next one would wrap.
THEOREM NeverRaisedWithRoom ==
  ASSUME LeaveRoom
  PROVE  Spec => OvercurrentNeverRaises
PROOF
<1>1. Init => RoomInv BY DEF Init, RoomInv
<1>2. ASSUME IInv, IInv', RoomInv, [Next]_vars PROVE RoomInv'
  <2>1. CASE Poll BY <1>2, <2>1, PollRoom
  <2>2. CASE WatchdogReset BY <2>2 DEF WatchdogReset, RoomInv
  <2>3. CASE UNCHANGED powerVars BY <1>2, <2>3 DEF powerVars, RoomInv
  <2> QED
    BY <1>2, <2>1, <2>2, <2>3 DEF Next, Tick, ReceiveConfig, StoreWord, SetEnable, Disabled,
      CheckFails, CheckSucceeds, CheckOfNothing, vars
<1>3. ASSUME IInv, RoomInv, PollWith({"over"})
      PROVE  setVoltage' <= setVoltage \/ setVoltage' = cfg.minimalVoltage
  <2>1. CfgInv /\ setVoltage \in Word BY <1>3 DEF IInv, TypeOK
  <2>2. cfg.voltageStepDown < setVoltage
    BY <1>3, <2>1, CfgRoom DEF PollWith, RoomInv
  <2>3. FullPowerVoltage(registered', info') = SteppedDown
    BY <1>3 DEF PollWith, FullPowerVoltage
  <2>4. cfg.voltageStepDown \in Word BY <2>1, CfgFacts
  <2>5. SteppedDown = setVoltage - cfg.voltageStepDown /\ SteppedDown \in Word
    BY <2>1, <2>2, <2>4, SteppedDownExact, SteppedDownType, PsuAssumption DEF Word
  <2>6. /\ Clamp(SteppedDown) \in Word
        /\ Clamp(SteppedDown) <= SteppedDown \/ Clamp(SteppedDown) = cfg.minimalVoltage
    BY <2>1, <2>5, ClampFacts
  <2>7. setVoltage' = Clamp(SteppedDown) BY <1>3, <2>3, FullPoll
  <2> QED BY <2>1, <2>2, <2>4, <2>5, <2>6, <2>7, PsuAssumption DEF Word
<1> QED BY <1>1, <1>2, <1>3, AlwaysIInv, PTL DEF Spec, OvercurrentNeverRaises

-----------------------------------------------------------------------------
(* The contract. *)

\* Each step of the managers and of the watchdog is one of the contract, or none.
LEMMA StepContract ==
  ASSUME IInv, [Next]_vars PROVE [Contract!Next]_(Contract!vars)
PROOF
<1>1. CASE UNCHANGED <<state, pHBWorkCond, up>>
  BY <1>1 DEF Contract!vars
<1>2. CASE CheckSucceeds
  BY <1>2 DEF IInv, TypeOK, CheckInv, CheckSucceeds, powerVars, Contract!Next, Contract!Found
<1>3. CASE CheckOfNothing
  BY <1>3 DEF IInv, TypeOK, CheckInv, CheckOfNothing, powerVars, checkVars,
    Contract!Next, Contract!Fault
<1>4. CASE Poll
  <2>1. up = TRUE /\ pHBWorkCond = TRUE /\ UNCHANGED <<up, pHBWorkCond>>
    BY <1>4 DEF Poll, IInv, TypeOK, CheckInv, checkVars
  <2>2. \/ state' = state
        \/ state = "INITIAL" /\ state' = "FULL"
        \/ state # "OFF" /\ state' = "OFF"
    <3>1. \/ UNCHANGED powerVars
          \/ \E regs, inf : state' = NextState(regs, inf)
      BY <1>4 DEF Poll
    <3>2. state \in {"INITIAL", "FULL", "OFF"} /\ cfg.powerOn \in BOOLEAN
      BY DEF IInv, TypeOK, PsuConfig
    <3>3. ASSUME NEW regs, NEW inf, state' = NextState(regs, inf)
          PROVE  \/ state' = state
                 \/ state = "INITIAL" /\ state' = "FULL"
                 \/ state # "OFF" /\ state' = "OFF"
      BY <3>2, <3>3 DEF NextState
    <3> QED BY <3>1, <3>3 DEF powerVars
  <2>3. state \in {"INITIAL", "FULL", "OFF"} BY DEF IInv, TypeOK
  <2>4. CASE state' = state BY <2>1, <2>4 DEF Contract!vars
  <2>5. CASE state = "INITIAL" /\ state' = "FULL"
    BY <2>1, <2>5 DEF Contract!Next, Contract!PowerUp
  <2>6. CASE state # "OFF" /\ state' = "OFF"
    BY <2>1, <2>3, <2>6 DEF Contract!Next, Contract!PowerOff
  <2> QED BY <2>2, <2>4, <2>5, <2>6
<1>5. CASE WatchdogReset
  BY <1>5 DEF WatchdogReset, IInv, TypeOK, Contract!Next, Contract!Restart
<1> QED
  BY <1>1, <1>2, <1>3, <1>4, <1>5 DEF Next, Tick, ReceiveConfig, StoreWord, SetEnable,
    Disabled, CheckFails, checkVars, powerVars, vars

\* The boards get what the contract promises, for any rectifiers and settings.
THEOREM KeepsContract == Spec => ImplementsContract
PROOF
<1>1. Init => Contract!Init BY DEF Init, Contract!Init
<1>2. IInv /\ [Next]_vars => [Contract!Next]_(Contract!vars) BY StepContract
<1> QED BY <1>1, <1>2, AlwaysIInv, PTL DEF Spec, ImplementsContract, Contract!Spec
=============================================================================
