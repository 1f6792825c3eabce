----------------------------- MODULE BoardPower -----------------------------
(***************************************************************************)
(* How slave 0 switches the power of its hash boards: the main loop of      *)
(* MultyBoardMgr reads the sensors of all boards, then decides board by     *)
(* board in processPwrSw; a switch is a flip-flop that takes half a second  *)
(* to set and outlives the slave's program.  The power supply of            *)
(* PsuContract runs beside it in an interrupt, the hardware trips a         *)
(* board's switch by itself, and the watchdog resets a slave that faults.   *)
(***************************************************************************)
EXTENDS Naturals

CONSTANTS
  NumBoards,        \* boards found on this slave
  LowPasses         \* passes of low current before a switch is set again

ASSUME BoardAssumption == NumBoards \in Nat \ {0} /\ LowPasses \in Nat

Boards == 1 .. NumBoards

\* What a board's sensors say: no more than maxTempLo, up to HashTempHi, above; or the
\* pin of the heatsink reports an error.
Classes == {"cool", "warm", "hot", "err"}

VARIABLES
  \* The boards.
  temp,           \* what their sensors would say
  latch,          \* the flip-flop of PwrSwitch
  \* MultyBoardMgr and BoardMgr.
  pc,             \* where the main loop is
  b,              \* the board it is at
  val,            \* what PwrSwitch::set stores
  read,           \* info.boardTemperature and info.heaterErr
  low,            \* info.currents is below psLowCurrent
  isOn,           \* PwrSwitch::isOn
  psLowNum,
  \* What the master asks for.
  powerOn,        \* config.powerOn of the boards
  powerDown,      \* hashBoardPowerDownFlag
  testMode,       \* g_slaveCfg.testMode is set
  lost,           \* getPingTime() is above 240 seconds
  \* The machine.
  plantOk,        \* rectifiers and fans are within limits
  power, workCond, up  \* see PsuContract

boardVars == <<temp, latch>>
loopVars == <<pc, b, val>>
infoVars == <<read, low>>
switchVars == <<isOn, psLowNum>>
masterVars == <<powerOn, powerDown, testMode, lost>>
psuVars == <<power, workCond, up>>
vars == <<boardVars, loopVars, infoVars, switchVars, masterVars, plantOk, psuVars>>

Psu == INSTANCE PsuContract

Init ==
  /\ temp \in [Boards -> Classes] /\ latch \in [Boards -> BOOLEAN]
  /\ pc = "init" /\ b = 1 /\ val = FALSE
  /\ read = [i \in Boards |-> "cool"] /\ low = [i \in Boards |-> FALSE]
  /\ isOn = [i \in Boards |-> FALSE] /\ psLowNum = [i \in Boards |-> 0]
  /\ powerOn = [i \in Boards |-> FALSE] /\ powerDown = FALSE /\ testMode = FALSE
  /\ lost = TRUE /\ plantOk \in BOOLEAN
  /\ Psu!Init

-----------------------------------------------------------------------------
(* The main loop. *)

\* On to the next board, or to the next part of the loop.
NextBoard(part, next) ==
  IF b < NumBoards THEN pc' = part /\ b' = b + 1 ELSE pc' = next /\ b' = 1

\* Mutant of InitSwitch: the flip-flop keeps what it had.
InitSwitchBare ==
  /\ up /\ pc = "init"
  /\ isOn' = [isOn EXCEPT ![b] = FALSE]
  /\ NextBoard("init", "top")
  /\ UNCHANGED <<boardVars, val, infoVars, psLowNum, masterVars, plantOk, psuVars>>

\* PwrSwitch::init.
InitSwitch ==
  /\ up /\ pc = "init"
  /\ latch' = [latch EXCEPT ![b] = FALSE] /\ isOn' = [isOn EXCEPT ![b] = FALSE]
  /\ NextBoard("init", "top")
  /\ UNCHANGED <<temp, val, infoVars, psLowNum, masterVars, plantOk, psuVars>>

\* checkDataTransfer with a MasterData: the configuration of the boards, the power down
\* flag, the test mode.
MasterDataReceived ==
  /\ up /\ pc = "top"
  /\ pc' = "mode"
  /\ lost' = FALSE
  /\ \/ \E i \in Boards : powerOn' = [powerOn EXCEPT ![i] = ~@]
        /\ UNCHANGED <<powerDown, testMode>>
     \/ powerDown' = ~powerDown /\ UNCHANGED <<powerOn, testMode>>
     \/ testMode' = ~testMode /\ UNCHANGED <<powerOn, powerDown>>
     \/ UNCHANGED <<powerOn, powerDown, testMode>>
  /\ UNCHANGED <<boardVars, b, val, infoVars, switchVars, plantOk, psuVars>>

NothingReceived ==
  /\ up /\ pc = "top"
  /\ pc' = "mode"
  /\ UNCHANGED <<boardVars, b, val, infoVars, switchVars, masterVars, plantOk, psuVars>>

\* HbtMgr::poll: a command switches the boards of a mask, a test switches them on and off.
\* Nothing is checked.
HbtPoll ==
  /\ up /\ pc = "mode" /\ testMode
  /\ pc' = "top"
  /\ \E mask \in SUBSET Boards, on \in BOOLEAN :
       /\ latch' = [i \in Boards |-> IF i \in mask THEN on ELSE latch[i]]
       /\ isOn' = [i \in Boards |-> IF i \in mask THEN on ELSE isOn[i]]
  /\ UNCHANGED <<temp, b, val, infoVars, psLowNum, masterVars, plantOk, psuVars>>

\* updateBoardsInfo, for a board whose thermometers answer, and for one whose do not:
\* getBoardTemp takes that for 0 degrees.
Measured(i) == temp[i]
Failed(i) == IF temp[i] = "err" THEN "err" ELSE "cool"

Update(failed) ==
  /\ up /\ pc = "mode" /\ ~testMode
  /\ pc' = "switch" /\ b' = 1
  /\ read' = [i \in Boards |-> IF i \in failed THEN Failed(i) ELSE Measured(i)]
  /\ low' = [i \in Boards |-> ~latch[i]]
  /\ UNCHANGED <<boardVars, val, switchVars, masterVars, plantOk, psuVars>>

\* isPowerDetected, of the slave with the supply.
IsPowerDetected == power = "full"

\* Mutant of TargetOn: a lost master does not matter.
TargetOnAlone(i) == IsPowerDetected /\ powerOn[i] /\ read[i] # "err"

TargetOn(i) == IsPowerDetected /\ powerOn[i] /\ read[i] # "err" /\ ~lost

\* Mutant of WorkCond: no other limit for a board that is off.
OneLimit(i, initFlag) == workCond /\ plantOk /\ read[i] # "hot"

\* Mutant of WorkCond: the temperature matters for a board that is off alone.
NoUpperLimit(i, initFlag) ==
  workCond /\ plantOk /\ (initFlag => read[i] # "warm" /\ read[i] # "hot")

\* checkBoardWorkCond: a lower limit for a board that is off.
WorkCond(i, initFlag) ==
  /\ workCond /\ plantOk
  /\ IF initFlag THEN read[i] # "warm" /\ read[i] # "hot" ELSE read[i] # "hot"

\* Mutant of LowAfter: the pass is not counted.
LowNotCounted(i) == IF ~low[i] THEN 0 ELSE psLowNum[i]

\* Mutant of LowAfter: a restart of the switch leaves the count.
LowCountsOn(i) == IF ~low[i] THEN 0 ELSE psLowNum[i] + 1

\* The count of passes with low current, starting anew with each restart of the switch.
LowAfter(i) ==
  IF ~low[i] \/ psLowNum[i] >= LowPasses THEN 0 ELSE psLowNum[i] + 1

Set(on) ==
  /\ pc' = "clock" /\ val' = on
  /\ UNCHANGED b

Leave ==
  /\ NextBoard("switch", "run")
  /\ UNCHANGED val

\* Mutant of MustTurnOff: a board that is wanted is not looked at again.
MustTurnOffUnwanted(i) == powerDown \/ (isOn[i] /\ ~TargetOn(i))

\* What processPwrSw does with board i: sets its switch, or nothing.
MustTurnOff(i) ==
  \/ powerDown
  \/ ~powerDown /\ isOn[i] /\ ~TargetOn(i)
  \/ ~powerDown /\ isOn[i] /\ TargetOn(i) /\ ~WorkCond(i, FALSE)
MayTurnOn(i) == ~powerDown /\ ~isOn[i] /\ TargetOn(i) /\ WorkCond(i, TRUE)
Runs(i) == ~powerDown /\ isOn[i] /\ TargetOn(i) /\ WorkCond(i, FALSE)

\* The current is watched while the board runs; too low for too long has its switch set
\* once more.
Watch(i) ==
  /\ psLowNum' = [psLowNum EXCEPT ![i] = LowAfter(i)]
  /\ IF low[i] /\ psLowNum[i] >= LowPasses THEN Set(TRUE) ELSE Leave

ProcessPwrSw ==
  /\ up /\ pc = "switch"
  /\ \/ MustTurnOff(b) /\ Set(FALSE) /\ UNCHANGED psLowNum
     \/ MayTurnOn(b) /\ Set(TRUE) /\ UNCHANGED psLowNum
     \/ Runs(b) /\ Watch(b)
     \/ ~MustTurnOff(b) /\ ~MayTurnOn(b) /\ ~Runs(b) /\ Leave /\ UNCHANGED psLowNum
  /\ UNCHANGED <<boardVars, infoVars, isOn, masterVars, plantOk, psuVars>>

\* PwrSwitch::set, half way: the clock rises.
Clock ==
  /\ up /\ pc = "clock"
  /\ pc' = "done"
  /\ latch' = [latch EXCEPT ![b] = val]
  /\ UNCHANGED <<temp, b, val, infoVars, switchVars, masterVars, plantOk, psuVars>>

SetDone ==
  /\ up /\ pc = "done"
  /\ isOn' = [isOn EXCEPT ![b] = val]
  /\ NextBoard("switch", "run")
  /\ UNCHANGED <<boardVars, val, infoVars, psLowNum, masterVars, plantOk, psuVars>>

\* runLoop and what follows: the chips are served, no switch is touched.
RunLoop ==
  /\ up /\ pc = "run"
  /\ pc' = "top"
  /\ UNCHANGED <<boardVars, b, val, infoVars, switchVars, masterVars, plantOk, psuVars>>

MainLoop ==
  \/ InitSwitch \/ MasterDataReceived \/ NothingReceived \/ HbtPoll
  \/ \E failed \in SUBSET Boards : Update(failed)
  \/ ProcessPwrSw \/ Clock \/ SetDone \/ RunLoop

-----------------------------------------------------------------------------
(* The machine. *)

PsuStep ==
  /\ \/ Psu!Found \/ Psu!PowerUp \/ Psu!PowerOff \/ Psu!Fault
  /\ UNCHANGED <<boardVars, loopVars, infoVars, switchVars, masterVars, plantOk>>

\* The watchdog: the program begins anew, the flip-flops stay.
Reset ==
  /\ Psu!Restart
  /\ pc' = "init" /\ b' = 1 /\ val' = FALSE
  /\ read' = [i \in Boards |-> "cool"] /\ low' = [i \in Boards |-> FALSE]
  /\ isOn' = [i \in Boards |-> FALSE] /\ psLowNum' = [i \in Boards |-> 0]
  /\ powerOn' = [i \in Boards |-> FALSE] /\ powerDown' = FALSE /\ testMode' = FALSE
  /\ lost' = TRUE
  /\ UNCHANGED <<boardVars, plantOk>>

TempChanges(i) ==
  /\ \E t \in Classes \ {temp[i]} : temp' = [temp EXCEPT ![i] = t]
  /\ UNCHANGED <<latch, loopVars, infoVars, switchVars, masterVars, plantOk, psuVars>>

\* The current limit or the alert of a thermometer.
Trip(i) ==
  /\ latch[i]
  /\ latch' = [latch EXCEPT ![i] = FALSE]
  /\ UNCHANGED <<temp, loopVars, infoVars, switchVars, masterVars, plantOk, psuVars>>

PlantChanges ==
  /\ plantOk' = ~plantOk
  /\ UNCHANGED <<boardVars, loopVars, infoVars, switchVars, masterVars, psuVars>>

MasterLost ==
  /\ up /\ ~lost
  /\ lost' = TRUE
  /\ UNCHANGED <<boardVars, loopVars, infoVars, switchVars, powerOn, powerDown, testMode,
                 plantOk, psuVars>>

Machine ==
  \/ PsuStep \/ Reset \/ PlantChanges \/ MasterLost
  \/ \E i \in Boards : TempChanges(i) \/ Trip(i)

Next == MainLoop \/ Machine

Spec == Init /\ [][Next]_vars

\* The main loop turns, the watchdog resets, the thermometers answer now and then.
FairSpec ==
  /\ Spec
  /\ WF_vars(MainLoop) /\ WF_vars(Reset) /\ SF_vars(Update({}))

-----------------------------------------------------------------------------
(* Properties. *)

\* Every variable has its type.
TypeOK ==
  /\ temp \in [Boards -> Classes] /\ latch \in [Boards -> BOOLEAN]
  /\ pc \in {"init", "top", "mode", "switch", "clock", "done", "run"}
  /\ b \in Boards /\ val \in BOOLEAN
  /\ read \in [Boards -> Classes] /\ low \in [Boards -> BOOLEAN]
  /\ isOn \in [Boards -> BOOLEAN] /\ psLowNum \in [Boards -> 0 .. LowPasses]
  /\ powerOn \in [Boards -> BOOLEAN]
  /\ powerDown \in BOOLEAN /\ testMode \in BOOLEAN /\ lost \in BOOLEAN
  /\ plantOk \in BOOLEAN
  /\ power \in {"waiting", "full", "off"} /\ workCond \in BOOLEAN /\ up \in BOOLEAN

\* A flip-flop that is on is known to be: the program can switch it off again.  Only a
\* reset makes it unknown, until the switches are initialised.
SwitchIsKnown ==
  pc # "init" => \A i \in Boards : latch[i] => isOn[i] \/ (pc = "done" /\ b = i /\ val)

\* After a pass over the boards none is on that the pass found hot or broken, or that the
\* master wants off; however long the switches of the other boards took.
PassLeavesSafe ==
  pc = "run" => \A i \in Boards : isOn[i] => /\ ~powerDown /\ powerOn[i]
                                             /\ read[i] \notin {"hot", "err"}

\* A board that the program had switched off is switched on only from below the lower
\* limit; one that its hardware tripped, only from below the upper.
StartsCool ==
  [][\A i \in Boards : ~testMode /\ ~latch[i] /\ latch'[i]
       => read[i] = "cool" \/ (isOn[i] /\ read[i] = "warm")]_vars

\* A master that stays away, switches the boards off or has no power for them finds them
\* off in the end, for good; and a board that stays hot does not stay on.
BoardsStop ==
  /\ <>[](up /\ ~testMode /\ (lost \/ powerDown \/ power # "full"))
       => <>[](\A i \in Boards : ~latch[i])
  /\ \A i \in Boards : <>[](up /\ ~testMode /\ temp[i] = "hot") => []<>~latch[i]

\* A board whose switch the hardware tripped is switched on again, or known to be off.
TrippedReturns ==
  \A i \in Boards : (isOn[i] /\ ~latch[i]) ~> (latch[i] \/ ~isOn[i] \/ testMode)
=============================================================================
