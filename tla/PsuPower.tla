------------------------------ MODULE PsuPower ------------------------------
(***************************************************************************)
(* The power supplies of slave 0: pwrModuleMgr, which finds out the type of *)
(* the rectifiers on the CAN bus, the three managers that poll them, and    *)
(* PowerMgr, which decides when the boards have power and which voltage is  *)
(* asked for.  All of it runs every 100 ms in the system tick interrupt;    *)
(* the main loop stores the settings of the master under it, word by word.  *)
(***************************************************************************)
EXTENDS Naturals, FiniteSets

CONSTANTS
  Rectifiers,       \* rectifiers on the bus, at most MAX_PSU_PER_SLAVE are taken
  Configs,          \* values of PsuConfig the master may send
  DefaultConfig,    \* PsuConfig::PsuConfig()
  Volts,            \* measured voltages, with 0 for none
  Tolerance,        \* a voltage nearer to the one asked for is stable: 1 V
  Width,            \* 2^16: the values of uint16_t
  Tries,            \* failed detections of one type, less one: 5
  MaxHold,          \* no lowPowerTime is longer, in ticks
  Supplies          \* types of rectifiers that may be on the bus, NoSupply for none

Types == 0 .. 2                  \* eltek, huawei, sag
Huawei == 1
NoSupply == 3
MaxPsuPerSlave == 2
Words == 5                       \* of a PsuConfig that hold the fields of the model
Loads == {"low", "limit", "over"} \* a current up to limit1, up to limit2, above

Reports == {x \in [voltage : Volts, load : Loads] : x.voltage <= Tolerance => x.load = "low"}
NoReport == [voltage |-> 0, load |-> "low"]

Word == 0 .. Width - 1

\* The program does not compare one setting with another: every value fits.
PsuConfig == [powerOn : BOOLEAN, voltage : Word, minimalVoltage : Word,
              initialVoltage : Word, lowPowerTime : 0 .. MaxHold,
              voltageStepUp : Word, voltageStepDown : Word]

ASSUME PsuAssumption ==
  /\ IsFiniteSet(Rectifiers)
  /\ Supplies \subseteq Types \cup {NoSupply}
  /\ Width \in Nat \ {0} /\ {Tolerance, Tries, MaxHold} \subseteq Nat
  /\ Volts \subseteq Word /\ 0 \in Volts
  /\ Configs \subseteq PsuConfig /\ DefaultConfig \in Configs

VARIABLES
  \* Stored by the main loop.
  cfg,            \* g_psuConfig
  incoming,       \* the PsuConfig of a frame being assigned to it
  toCopy,         \* how many of its words are not stored yet
  enabled,        \* pwrModuleMgr::enabled
  \* The interrupt: pwrModuleMgr.
  autoCheckFlag, checkcnt, moduleIndex,
  pHBWorkCond,    \* the pointer is set
  \* The manager of the type found.
  registered,     \* its rectifiers
  info,           \* measuredVoltage and measuredCurrent of each
  \* PowerMgr.
  state, setVoltage,
  age,            \* ticks since stableVOutTime, no more than MaxHold
  \* The slave.
  up,             \* it runs
  supply          \* the type of its rectifiers

cfgVars == <<cfg, incoming, toCopy, enabled>>
checkVars == <<autoCheckFlag, checkcnt, moduleIndex, pHBWorkCond>>
moduleVars == <<registered, info>>
powerVars == <<state, setVoltage>>
vars == <<cfgVars, checkVars, moduleVars, powerVars, age, up, supply>>

Init ==
  /\ cfg = DefaultConfig /\ incoming = DefaultConfig /\ toCopy = 0
  /\ enabled = FALSE
  /\ autoCheckFlag = TRUE /\ checkcnt = 0 /\ moduleIndex = 0 /\ pHBWorkCond = FALSE
  /\ registered = {} /\ info = [r \in Rectifiers |-> NoReport]
  /\ state = "INITIAL" /\ setVoltage = 0 /\ age = 0
  /\ up = TRUE /\ supply \in Supplies

-----------------------------------------------------------------------------
(* The main loop. *)

\* processMsg(PsuConfig): the assignment begins.
ReceiveConfig(c) ==
  /\ up /\ toCopy = 0
  /\ c # cfg
  /\ incoming' = c /\ toCopy' = Words
  /\ UNCHANGED <<cfg, enabled, checkVars, moduleVars, powerVars, age, up, supply>>

StoreWord ==
  /\ up /\ toCopy > 0
  /\ cfg' = CASE toCopy = 5 -> [cfg EXCEPT !.powerOn = incoming.powerOn]
              [] toCopy = 4 -> [cfg EXCEPT !.voltage = incoming.voltage]
              [] toCopy = 3 -> [cfg EXCEPT !.minimalVoltage = incoming.minimalVoltage]
              [] toCopy = 2 -> [cfg EXCEPT !.initialVoltage = incoming.initialVoltage,
                                           !.lowPowerTime = incoming.lowPowerTime]
              [] toCopy = 1 -> [cfg EXCEPT !.voltageStepUp = incoming.voltageStepUp,
                                           !.voltageStepDown = incoming.voltageStepDown]
  /\ toCopy' = toCopy - 1
  /\ UNCHANGED <<incoming, enabled, checkVars, moduleVars, powerVars, age, up, supply>>

\* activateCan, once MasterData has made this slave 0.
SetEnable ==
  /\ up /\ toCopy = 0 /\ ~enabled
  /\ enabled' = TRUE
  /\ UNCHANGED <<cfg, incoming, toCopy, checkVars, moduleVars, powerVars, age, up, supply>>

-----------------------------------------------------------------------------
(* The interrupt: detection of the type. *)

Pass == age' = IF age < MaxHold THEN age + 1 ELSE age

Disabled ==
  /\ up /\ ~enabled
  /\ Pass
  /\ UNCHANGED <<cfgVars, checkVars, moduleVars, powerVars, up, supply>>

\* Mutant of CheckFails: the failures are counted on over the types.
CheckFailsNoReset ==
  /\ up /\ enabled /\ autoCheckFlag /\ moduleIndex \in Types
  /\ moduleIndex' = IF checkcnt > Tries THEN moduleIndex + 1 ELSE moduleIndex
  /\ checkcnt' = checkcnt + 1
  /\ Pass
  /\ UNCHANGED <<cfgVars, autoCheckFlag, pHBWorkCond, moduleVars, powerVars, up, supply>>

\* Mutant of CheckFails: the search begins anew before the last type.
CheckFailsWraps ==
  /\ up /\ enabled /\ autoCheckFlag /\ moduleIndex \in Types
  /\ IF checkcnt > Tries
     THEN moduleIndex' = (moduleIndex + 1) % (Cardinality(Types) - 1) /\ checkcnt' = 1
     ELSE checkcnt' = checkcnt + 1 /\ UNCHANGED moduleIndex
  /\ Pass
  /\ UNCHANGED <<cfgVars, autoCheckFlag, pHBWorkCond, moduleVars, powerVars, up, supply>>

\* autoCheckModule: the last of the messages popped was not one of this type, or
\* there was none.
CheckFails ==
  /\ up /\ enabled /\ autoCheckFlag /\ moduleIndex \in Types
  /\ IF checkcnt > Tries
     THEN moduleIndex' = moduleIndex + 1 /\ checkcnt' = 1
     ELSE checkcnt' = checkcnt + 1 /\ UNCHANGED moduleIndex
  /\ Pass
  /\ UNCHANGED <<cfgVars, autoCheckFlag, pHBWorkCond, moduleVars, powerVars, up, supply>>

CheckSucceeds ==
  /\ up /\ enabled /\ autoCheckFlag /\ moduleIndex = supply
  /\ supply \in Types
  /\ autoCheckFlag' = FALSE /\ pHBWorkCond' = TRUE
  /\ registered' = {} /\ info' = [r \in Rectifiers |-> NoReport]
  /\ Pass
  /\ UNCHANGED <<cfgVars, checkcnt, moduleIndex, powerVars, up, supply>>

\* The fourth type is a null pointer: its call ends in the handler of hard faults,
\* which loops until the watchdog resets the slave.
CheckOfNothing ==
  /\ up /\ enabled /\ autoCheckFlag /\ moduleIndex \notin Types
  /\ up' = FALSE
  /\ UNCHANGED <<cfgVars, checkVars, moduleVars, powerVars, age, supply>>

WatchdogReset ==
  /\ ~up
  /\ cfg' = DefaultConfig /\ incoming' = DefaultConfig /\ toCopy' = 0
  /\ enabled' = FALSE
  /\ autoCheckFlag' = TRUE /\ checkcnt' = 0 /\ moduleIndex' = 0 /\ pHBWorkCond' = FALSE
  /\ registered' = {} /\ info' = [r \in Rectifiers |-> NoReport]
  /\ state' = "INITIAL" /\ setVoltage' = 0 /\ age' = 0
  /\ up' = TRUE
  /\ UNCHANGED supply

-----------------------------------------------------------------------------
(* The interrupt: PowerMgr. *)

\* |measuredVoltage - setVoltage| is no more than the tolerance, for every rectifier.
VoltageStable(regs, inf) ==
  \A r \in regs : /\ inf[r].voltage <= setVoltage + Tolerance
                  /\ setVoltage <= inf[r].voltage + Tolerance

\* The ticks since stableVOutTime when nextState compares them.
AgeNow(regs, inf) ==
  IF state = "INITIAL" /\ cfg.powerOn /\ regs # {} /\ ~VoltageStable(regs, inf)
  THEN 0
  ELSE IF age < MaxHold THEN age + 1 ELSE age

\* Mutant of NextState: switched on again.
NextStateReturns(regs, inf) ==
  CASE ~cfg.powerOn -> "OFF"
    [] cfg.powerOn /\ state = "INITIAL" ->
         IF \/ regs = {}
            \/ AgeNow(regs, inf) < cfg.lowPowerTime
            \/ ~VoltageStable(regs, inf)
         THEN "INITIAL" ELSE "FULL"
    [] cfg.powerOn /\ state = "OFF" -> "INITIAL"
    [] OTHER -> state

NextState(regs, inf) ==
  CASE ~cfg.powerOn -> "OFF"
    [] cfg.powerOn /\ state = "INITIAL" ->
         IF \/ regs = {}
            \/ AgeNow(regs, inf) < cfg.lowPowerTime
            \/ ~VoltageStable(regs, inf)
         THEN "INITIAL" ELSE "FULL"
    [] OTHER -> state

\* The difference is returned as a uint16_t: below zero it wraps.
SteppedDown == (setVoltage + Width - cfg.voltageStepDown) % Width

\* The sum is compared as an int, and does not.
StepsUp == setVoltage + cfg.voltageStepUp < cfg.voltage

\* Mutant of FullPowerVoltage: a rectifier at its limit hides one above.
FullPowerVoltageLimitFirst(regs, inf) ==
  IF \E r \in regs : inf[r].load = "limit" THEN setVoltage
  ELSE IF \E r \in regs : inf[r].load = "over"
  THEN SteppedDown
  ELSE IF StepsUp THEN setVoltage + cfg.voltageStepUp ELSE setVoltage

\* calcFullPowerVoltage.
FullPowerVoltage(regs, inf) ==
  IF \E r \in regs : inf[r].load = "over"
  THEN SteppedDown
  ELSE IF (\A r \in regs : inf[r].load # "limit") /\ StepsUp
  THEN setVoltage + cfg.voltageStepUp
  ELSE setVoltage

AtMost(v, limit) == IF v > limit THEN limit ELSE v
AtLeast(v, limit) == IF v < limit THEN limit ELSE v

\* Mutant of Clamp: no lower limit.
ClampAbove(v) == AtMost(v, cfg.voltage)

\* Nothing is no voltage to be clamped.
Clamp(v) == IF v = 0 THEN 0 ELSE AtLeast(AtMost(v, cfg.voltage), cfg.minimalVoltage)

\* calcSetVoltage, in state s.
SetVoltageIn(s, regs, inf) ==
  CASE s = "INITIAL" -> cfg.initialVoltage
    [] s = "FULL" -> Clamp(FullPowerVoltage(regs, inf))
    [] s = "OFF" -> 0

\* process100ms of the manager: the messages first, then a step of PowerMgr.  That of
\* Huawei steps once both rectifiers are known.
Poll ==
  /\ up /\ enabled /\ ~autoCheckFlag
  /\ \E regs \in SUBSET Rectifiers :
       /\ registered \subseteq regs /\ Cardinality(regs) <= MaxPsuPerSlave
       /\ \E inf \in [Rectifiers -> Reports] :
            /\ \A r \in Rectifiers \ regs : inf[r] = info[r]
            /\ registered' = regs /\ info' = inf
            /\ IF moduleIndex = Huawei /\ Cardinality(regs) < MaxPsuPerSlave
               THEN Pass /\ UNCHANGED powerVars
               ELSE /\ state' = NextState(regs, inf)
                    /\ setVoltage' = SetVoltageIn(state', regs, inf)
                    /\ age' = AgeNow(regs, inf)
  /\ UNCHANGED <<cfgVars, checkVars, up, supply>>

Tick == Disabled \/ CheckFails \/ CheckSucceeds \/ CheckOfNothing \/ Poll

Next ==
  \/ \E c \in Configs : ReceiveConfig(c)
  \/ StoreWord
  \/ SetEnable
  \/ Tick
  \/ WatchdogReset

Spec == Init /\ [][Next]_vars

\* The tick comes again, the main loop runs, the watchdog resets, and the rectifiers
\* answer the requests of their type now and then.
FairSpec ==
  /\ Spec
  /\ WF_vars(Tick) /\ SF_vars(SetEnable) /\ WF_vars(WatchdogReset)
  /\ WF_vars(StoreWord)
  /\ SF_vars(CheckSucceeds)

-----------------------------------------------------------------------------
(* Properties. *)

\* Every variable has its type; the voltage stays within a uint16_t, the index of the
\* type never passes the first null pointer.
TypeOK ==
  /\ cfg \in PsuConfig
  /\ incoming \in Configs /\ toCopy \in 0 .. Words
  /\ enabled \in BOOLEAN /\ autoCheckFlag \in BOOLEAN /\ pHBWorkCond \in BOOLEAN
  /\ checkcnt \in 0 .. Tries + 1 /\ moduleIndex \in 0 .. 3
  /\ registered \subseteq Rectifiers /\ Cardinality(registered) <= MaxPsuPerSlave
  /\ info \in [Rectifiers -> Reports]
  /\ state \in {"INITIAL", "FULL", "OFF"}
  /\ setVoltage \in Word
  /\ age \in 0 .. MaxHold
  /\ up \in BOOLEAN /\ supply \in Supplies

\* While the boards have power the supply is asked for no less than some minimal
\* voltage the master configured and no more than some full voltage, or than a minimal one
\* above it: neither stepping down below zero nor settings stored half way leads out of
\* the limits.  Excepted is a step to nothing, which is not clamped (calcSetVoltage).
VoltageInBounds ==
  state = "FULL" /\ setVoltage # 0 =>
    /\ \E c \in Configs : c.minimalVoltage <= setVoltage
    /\ \E c \in Configs : setVoltage <= AtLeast(c.voltage, c.minimalVoltage)

\* In a poll with some rectifier that carries a load of these.
PollWith(loads) ==
  Poll /\ state = "FULL" /\ state' = "FULL" /\ \E r \in registered' : info'[r].load \in loads

\* A rectifier over its current limit has the voltage lowered in that very poll, down
\* to the minimum, if the step down is not more than what there is; one at its limit has
\* it raised no further (calcFullPowerVoltage, calcSetVoltage).
OvercurrentLowers ==
  [][/\ PollWith({"over"}) /\ cfg.voltageStepDown \in 1 .. setVoltage
          => setVoltage' < setVoltage \/ setVoltage' = cfg.minimalVoltage
     /\ PollWith({"limit"}) /\ ~PollWith({"over"})
          => setVoltage' <= setVoltage \/ setVoltage' = cfg.minimalVoltage]_vars

\* What the boards rely on: power comes once, after detection, and goes for good; only
\* a slave without a supply faults.
Contract == INSTANCE PsuContract WITH
  power <- CASE state = "INITIAL" -> "waiting" [] state = "FULL" -> "full"
             [] state = "OFF" -> "off",
  workCond <- pHBWorkCond
ImplementsContract == Contract!Spec

\* All rectifiers needed are known and keep their voltage near to the one asked for.
SteadySupply ==
  /\ ~autoCheckFlag /\ cfg.powerOn /\ toCopy = 0
  /\ registered # {} /\ (moduleIndex = Huawei => Cardinality(registered) = MaxPsuPerSlave)
  /\ VoltageStable(registered, info)

\* A supply that answers is found, whichever type it is: the search that runs past the
\* last type begins anew after the reset.  And one that is steady gives the boards power.
BoardsGetPower ==
  /\ (supply \in Types) ~> pHBWorkCond
  /\ <>[]SteadySupply => <>[](state # "INITIAL")
=============================================================================
