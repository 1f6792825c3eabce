-------------------------- MODULE BoardPowerProofs --------------------------
(***************************************************************************)
(* For any number of boards: the program knows which flip-flops are on, a   *)
(* pass over the boards leaves none on that it found hot, broken or         *)
(* unwanted, and a board that is off is switched on only when cool.         *)
(***************************************************************************)
EXTENDS BoardPower, TLAPS

\* The boards initialised since the reset are off.
InitInv == pc = "init" => \A i \in Boards : i < b => ~latch[i]

\* A flip-flop that has just been clocked does not hold what it did not store.
DoneInv == pc = "done" /\ latch[b] => val

\* What a pass makes sure of for a board it leaves on.
Wanted(i) == ~powerDown /\ powerOn[i] /\ read[i] \notin {"hot", "err"}
PassInv ==
  /\ pc \in {"switch", "clock", "done"} => \A i \in Boards : i < b /\ isOn[i] => Wanted(i)
  /\ pc \in {"clock", "done"} /\ val => Wanted(b)

\* A switch about to be set is one of a board cool enough.
ClockInv ==
  pc = "clock" /\ val => read[b] = "cool" \/ (isOn[b] /\ read[b] = "warm")

\* The inductive invariant.
IInv == TypeOK /\ SwitchIsKnown /\ PassLeavesSafe /\ InitInv /\ DoneInv /\ PassInv /\ ClockInv

-----------------------------------------------------------------------------
(* The operators. *)

LEMMA NextBoardType ==
  ASSUME TypeOK, NEW part, NEW next, NextBoard(part, next)
  PROVE  b' \in Boards /\ pc' \in {part, next}
BY BoardAssumption DEF TypeOK, NextBoard, Boards

\* The boards before the next one are those before this one and this one.
LEMMA NextBoardBefore ==
  ASSUME TypeOK, NEW part, NEW next, part # next, NextBoard(part, next)
  PROVE  /\ pc' = part => \A i \in Boards : i < b' => i < b \/ i = b
         /\ pc' = next => b' = 1 /\ \A i \in Boards : i < b \/ i = b
BY BoardAssumption DEF TypeOK, NextBoard, Boards

LEMMA LowAfterType ==
  ASSUME TypeOK, NEW i \in Boards
  PROVE  LowAfter(i) \in 0 .. LowPasses
BY BoardAssumption DEF TypeOK, LowAfter

\* What processPwrSw does: it is about to set the switch of a board off, or on if it is
\* wanted and cool enough, or it leaves a board that is off or wanted.
LEMMA ProcessCases ==
  ASSUME TypeOK, ProcessPwrSw
  PROVE  \/ Set(FALSE)
         \/ Set(TRUE) /\ Wanted(b) /\ (read[b] = "cool" \/ (isOn[b] /\ read[b] = "warm"))
         \/ Leave /\ (isOn[b] => Wanted(b))
PROOF
<1>1. b \in Boards /\ read[b] \in Classes BY DEF TypeOK
<1>2. isOn[b] \in BOOLEAN BY <1>1 DEF TypeOK
<1>3. CASE MustTurnOff(b) /\ Set(FALSE) BY <1>3
<1>4. CASE MayTurnOn(b) /\ Set(TRUE)
  BY <1>4, <1>1, <1>2 DEF MayTurnOn, TargetOn, WorkCond, Wanted, Classes
<1>5. CASE Runs(b) /\ Watch(b)
  <2>1. isOn[b] /\ Wanted(b) /\ (read[b] = "cool" \/ read[b] = "warm")
    BY <1>5, <1>1, <1>2 DEF Runs, TargetOn, WorkCond, Wanted, Classes
  <2> QED BY <2>1, <1>5 DEF Watch
<1>6. CASE ~MustTurnOff(b) /\ ~MayTurnOn(b) /\ ~Runs(b) /\ Leave
  BY <1>6, <1>1, <1>2 DEF MustTurnOff, MayTurnOn, Runs
<1> QED BY <1>3, <1>4, <1>5, <1>6 DEF ProcessPwrSw

-----------------------------------------------------------------------------
(* The steps. *)

LEMMA InitIInv ==
  Init => IInv
PROOF
<1> SUFFICES ASSUME Init PROVE IInv OBVIOUS
<1>1. TypeOK
  <2>1. 1 \in Boards /\ 0 \in 0 .. LowPasses /\ "cool" \in Classes
    BY BoardAssumption DEF Boards, Classes
  <2>2. read \in [Boards -> Classes] /\ psLowNum \in [Boards -> 0 .. LowPasses]
    BY <2>1 DEF Init
  <2>3. power \in {"waiting", "full", "off"} /\ workCond \in BOOLEAN /\ up \in BOOLEAN
    BY DEF Init, Psu!Init
  <2> QED BY <2>1, <2>2, <2>3 DEF Init, TypeOK
<1>2. InitInv
  BY BoardAssumption DEF Init, InitInv, Boards
<1> QED
  BY <1>1, <1>2 DEF Init, IInv, SwitchIsKnown, PassLeavesSafe, DoneInv, PassInv, ClockInv

\* No step of the machine, a reset aside, moves the main loop or switches a board on.
LEMMA MachineStep ==
  ASSUME IInv,
         UNCHANGED <<loopVars, infoVars, isOn, powerOn, powerDown>>,
         \A i \in Boards : latch'[i] => latch[i],
         TypeOK'
  PROVE  IInv'
BY DEF IInv, TypeOK, SwitchIsKnown, PassLeavesSafe, InitInv, DoneInv, PassInv, ClockInv,
  Wanted, loopVars, infoVars

LEMMA NextIInv ==
  IInv /\ [Next]_vars => IInv'
PROOF
<1> SUFFICES ASSUME IInv, [Next]_vars PROVE IInv' OBVIOUS
<1>0. TypeOK BY DEF IInv
<1> USE DEF boardVars, loopVars, infoVars, switchVars, masterVars, psuVars
<1>1. CASE InitSwitch
  <2>1. NextBoard("init", "top") /\ b \in Boards BY <1>1, <1>0 DEF InitSwitch, TypeOK
  <2>2. b' \in Boards /\ pc' \in {"init", "top"} BY <2>1, <1>0, NextBoardType
  <2>3. TypeOK' BY <1>1, <1>0, <2>1, <2>2 DEF InitSwitch, TypeOK
  <2>4. \A i \in Boards : i < b \/ i = b => ~latch'[i]
    BY <1>1, <1>0, <2>1 DEF InitSwitch, IInv, TypeOK, InitInv
  <2>5. /\ pc' = "init" => \A i \in Boards : i < b' => i < b \/ i = b
        /\ pc' = "top" => \A i \in Boards : i < b \/ i = b
    BY <2>1, <1>0, NextBoardBefore
  <2>6. InitInv' /\ SwitchIsKnown' BY <2>2, <2>4, <2>5 DEF InitInv, SwitchIsKnown
  <2>7. PassLeavesSafe' /\ DoneInv' /\ PassInv' /\ ClockInv'
    BY <2>2 DEF PassLeavesSafe, DoneInv, PassInv, ClockInv
  <2> QED BY <2>3, <2>6, <2>7 DEF IInv
<1>2. CASE MasterDataReceived
  <2>1. TypeOK' BY <1>2, <1>0 DEF MasterDataReceived, TypeOK
  <2>2. pc = "top" /\ pc' = "mode" /\ UNCHANGED <<latch, isOn>>
    BY <1>2 DEF MasterDataReceived
  <2> QED BY <2>1, <2>2 DEF IInv, SwitchIsKnown, PassLeavesSafe, InitInv, DoneInv, PassInv,
    ClockInv
<1>3. CASE NothingReceived
  <2>1. TypeOK' BY <1>3, <1>0 DEF NothingReceived, TypeOK
  <2>2. pc = "top" /\ pc' = "mode" /\ UNCHANGED <<latch, isOn>>
    BY <1>3 DEF NothingReceived
  <2> QED BY <2>1, <2>2 DEF IInv, SwitchIsKnown, PassLeavesSafe, InitInv, DoneInv, PassInv,
    ClockInv
<1>4. CASE HbtPoll
  <2>1. PICK mask \in SUBSET Boards, on \in BOOLEAN :
          /\ latch' = [i \in Boards |-> IF i \in mask THEN on ELSE latch[i]]
          /\ isOn' = [i \in Boards |-> IF i \in mask THEN on ELSE isOn[i]]
    BY <1>4 DEF HbtPoll
  <2>2. TypeOK' BY <1>4, <1>0, <2>1 DEF HbtPoll, TypeOK
  <2>3. pc = "mode" /\ pc' = "top" BY <1>4 DEF HbtPoll
  <2>4. SwitchIsKnown' BY <2>1, <2>3 DEF IInv, SwitchIsKnown
  <2> QED BY <2>2, <2>3, <2>4 DEF IInv, PassLeavesSafe, InitInv, DoneInv, PassInv, ClockInv
<1>5. ASSUME NEW failed \in SUBSET Boards, Update(failed) PROVE IInv'
  <2>1. \A i \in Boards : Failed(i) \in Classes /\ Measured(i) \in Classes
    BY <1>0 DEF TypeOK, Failed, Measured, Classes
  <2>2. read' \in [Boards -> Classes] /\ low' \in [Boards -> BOOLEAN]
    BY <1>5, <2>1, <1>0 DEF Update, TypeOK
  <2>3. b' = 1 /\ 1 \in Boards BY <1>5, BoardAssumption DEF Update, Boards
  <2>4. TypeOK' BY <1>5, <1>0, <2>2, <2>3 DEF Update, TypeOK
  <2>5. pc = "mode" /\ pc' = "switch" /\ UNCHANGED <<latch, isOn>> BY <1>5 DEF Update
  <2>6. PassInv' BY <2>3, <2>5 DEF PassInv, Boards
  <2> QED BY <2>4, <2>5, <2>6 DEF IInv, SwitchIsKnown, PassLeavesSafe, InitInv, DoneInv,
    ClockInv
<1>6. CASE ProcessPwrSw
  <2>1. /\ pc = "switch" /\ b \in Boards
        /\ UNCHANGED <<boardVars, infoVars, isOn, masterVars, plantOk, psuVars>>
    BY <1>6, <1>0 DEF ProcessPwrSw, TypeOK
  <2>2. psLowNum' \in [Boards -> 0 .. LowPasses]
    <3>1. LowAfter(b) \in 0 .. LowPasses BY <2>1, <1>0, LowAfterType
    <3> QED BY <1>6, <1>0, <3>1 DEF ProcessPwrSw, Watch, TypeOK
  <2>3. SwitchIsKnown' /\ InitInv' /\ DoneInv' /\ ClockInv' /\ PassInv' /\ PassLeavesSafe'
          /\ TypeOK'
    <3>1. CASE Set(FALSE)
      BY <3>1, <2>1, <2>2, <1>0 DEF Set, TypeOK, IInv, SwitchIsKnown, InitInv, DoneInv,
        ClockInv, PassInv, PassLeavesSafe, Wanted
    <3>2. CASE Set(TRUE) /\ Wanted(b)
                 /\ (read[b] = "cool" \/ (isOn[b] /\ read[b] = "warm"))
      BY <3>2, <2>1, <2>2, <1>0 DEF Set, TypeOK, IInv, SwitchIsKnown, InitInv, DoneInv,
        ClockInv, PassInv, PassLeavesSafe, Wanted
    <3>3. CASE Leave /\ (isOn[b] => Wanted(b))
      <4>1. NextBoard("switch", "run") /\ val' = val BY <3>3 DEF Leave
      <4>2. b' \in Boards /\ pc' \in {"switch", "run"} BY <4>1, <1>0, NextBoardType
      <4>3. TypeOK' BY <2>1, <2>2, <4>1, <4>2, <1>0 DEF TypeOK
      <4>4. \A i \in Boards : (i < b \/ i = b) /\ isOn'[i] => Wanted(i)'
        BY <2>1, <3>3 DEF IInv, PassInv, Wanted
      <4>5. PassInv' /\ PassLeavesSafe'
        <5>1. /\ pc' = "switch" => \A i \in Boards : i < b' => i < b \/ i = b
              /\ pc' = "run" => \A i \in Boards : i < b \/ i = b
          BY <4>1, <1>0, NextBoardBefore
        <5> QED BY <5>1, <4>2, <4>4 DEF PassInv, PassLeavesSafe, Wanted
      <4>6. SwitchIsKnown' /\ InitInv' /\ DoneInv' /\ ClockInv'
        BY <4>2, <2>1 DEF IInv, SwitchIsKnown, InitInv, DoneInv, ClockInv
      <4> QED BY <4>3, <4>5, <4>6
    <3> QED BY <3>1, <3>2, <3>3, <1>6, <1>0, ProcessCases
  <2> QED BY <2>3 DEF IInv
<1>7. CASE Clock
  <2>1. /\ pc = "clock" /\ pc' = "done" /\ b \in Boards /\ val \in BOOLEAN
        /\ latch' = [latch EXCEPT ![b] = val]
        /\ UNCHANGED <<temp, b, val, infoVars, switchVars, masterVars, plantOk, psuVars>>
    BY <1>7, <1>0 DEF Clock, TypeOK
  <2>2. TypeOK' BY <2>1, <1>0 DEF TypeOK
  <2>3. SwitchIsKnown' /\ DoneInv' BY <2>1, <1>0 DEF IInv, SwitchIsKnown, DoneInv, TypeOK
  <2>4. PassInv' BY <2>1 DEF IInv, PassInv, Wanted
  <2> QED BY <2>1, <2>2, <2>3, <2>4 DEF IInv, PassLeavesSafe, InitInv, ClockInv
<1>8. CASE SetDone
  <2>1. /\ pc = "done" /\ b \in Boards /\ val \in BOOLEAN
        /\ isOn' = [isOn EXCEPT ![b] = val]
        /\ NextBoard("switch", "run")
        /\ UNCHANGED <<boardVars, val, infoVars, psLowNum, masterVars, plantOk, psuVars>>
    BY <1>8, <1>0 DEF SetDone, TypeOK
  <2>2. b' \in Boards /\ pc' \in {"switch", "run"} BY <2>1, <1>0, NextBoardType
  <2>3. TypeOK' BY <2>1, <2>2, <1>0 DEF TypeOK
  <2>4. SwitchIsKnown' BY <2>1, <2>2, <1>0 DEF IInv, SwitchIsKnown, DoneInv, TypeOK
  <2>5. \A i \in Boards : (i < b \/ i = b) /\ isOn'[i] => Wanted(i)'
    BY <2>1, <1>0 DEF IInv, PassInv, Wanted, TypeOK
  <2>6. PassInv' /\ PassLeavesSafe'
    <3>1. /\ pc' = "switch" => \A i \in Boards : i < b' => i < b \/ i = b
          /\ pc' = "run" => \A i \in Boards : i < b \/ i = b
      BY <2>1, <1>0, NextBoardBefore
    <3> QED BY <3>1, <2>2, <2>5 DEF PassInv, PassLeavesSafe, Wanted
  <2> QED BY <2>2, <2>3, <2>4, <2>6 DEF IInv, InitInv, DoneInv, ClockInv
<1>9. CASE RunLoop
  <2>1. TypeOK' BY <1>9, <1>0 DEF RunLoop, TypeOK
  <2>2. pc = "run" /\ pc' = "top" /\ UNCHANGED <<latch, isOn>> BY <1>9 DEF RunLoop
  <2> QED BY <2>1, <2>2 DEF IInv, SwitchIsKnown, PassLeavesSafe, InitInv, DoneInv, PassInv,
    ClockInv
<1>10. CASE PsuStep
  <2>1. TypeOK'
    BY <1>10, <1>0 DEF PsuStep, TypeOK, Psu!Found, Psu!PowerUp, Psu!PowerOff, Psu!Fault
  <2>2. /\ UNCHANGED <<loopVars, infoVars, isOn, powerOn, powerDown>>
        /\ \A i \in Boards : latch'[i] => latch[i]
    BY <1>10 DEF PsuStep
  <2> QED BY <2>1, <2>2, MachineStep
<1>11. CASE Reset
  <2>1. TypeOK'
    <3>1. 1 \in Boards /\ 0 \in 0 .. LowPasses /\ "cool" \in Classes
      BY BoardAssumption DEF Boards, Classes
    <3>2. read' \in [Boards -> Classes] /\ psLowNum' \in [Boards -> 0 .. LowPasses]
      BY <1>11, <3>1 DEF Reset
    <3>3. power' \in {"waiting", "full", "off"} /\ workCond' \in BOOLEAN /\ up' \in BOOLEAN
      BY <1>11 DEF Reset, Psu!Restart
    <3> QED BY <1>11, <1>0, <3>1, <3>2, <3>3 DEF Reset, TypeOK
  <2>2. pc' = "init" /\ b' = 1 BY <1>11 DEF Reset
  <2>3. InitInv' BY <2>2 DEF InitInv, Boards
  <2> QED BY <2>1, <2>2, <2>3 DEF IInv, SwitchIsKnown, PassLeavesSafe, DoneInv, PassInv,
    ClockInv
<1>12. CASE PlantChanges
  <2>1. TypeOK' BY <1>12, <1>0 DEF PlantChanges, TypeOK
  <2>2. /\ UNCHANGED <<loopVars, infoVars, isOn, powerOn, powerDown>>
        /\ \A i \in Boards : latch'[i] => latch[i]
    BY <1>12 DEF PlantChanges
  <2> QED BY <2>1, <2>2, MachineStep
<1>13. CASE MasterLost
  <2>1. TypeOK' BY <1>13, <1>0 DEF MasterLost, TypeOK
  <2>2. /\ UNCHANGED <<loopVars, infoVars, isOn, powerOn, powerDown>>
        /\ \A i \in Boards : latch'[i] => latch[i]
    BY <1>13 DEF MasterLost
  <2> QED BY <2>1, <2>2, MachineStep
<1>14. ASSUME NEW j \in Boards, TempChanges(j) PROVE IInv'
  <2>1. TypeOK' BY <1>14, <1>0 DEF TempChanges, TypeOK
  <2>2. /\ UNCHANGED <<loopVars, infoVars, isOn, powerOn, powerDown>>
        /\ \A i \in Boards : latch'[i] => latch[i]
    BY <1>14 DEF TempChanges
  <2> QED BY <2>1, <2>2, MachineStep
<1>15. ASSUME NEW j \in Boards, Trip(j) PROVE IInv'
  <2>1. TypeOK' BY <1>15, <1>0 DEF Trip, TypeOK
  <2>2. /\ UNCHANGED <<loopVars, infoVars, isOn, powerOn, powerDown>>
        /\ \A i \in Boards : latch'[i] => latch[i]
    BY <1>15, <1>0 DEF Trip, TypeOK
  <2> QED BY <2>1, <2>2, MachineStep
<1>16. CASE UNCHANGED vars
  <2>1. TypeOK' BY <1>16, <1>0 DEF vars, TypeOK
  <2>2. /\ UNCHANGED <<loopVars, infoVars, isOn, powerOn, powerDown>>
        /\ \A i \in Boards : latch'[i] => latch[i]
    BY <1>16 DEF vars
  <2> QED BY <2>1, <2>2, MachineStep
<1> QED
  BY <1>1, <1>2, <1>3, <1>4, <1>5, <1>6, <1>7, <1>8, <1>9, <1>10, <1>11, <1>12, <1>13,
    <1>14, <1>15, <1>16 DEF Next, MainLoop, Machine

\* The inductive invariant holds throughout.
THEOREM AlwaysIInv ==
  Spec => []IInv
BY InitIInv, NextIInv, PTL DEF Spec

\* Every variable keeps its type: the count of passes with low current never exceeds the
\* number after which processPwrSw restarts the switch.
THEOREM AlwaysTyped ==
  Spec => []TypeOK
PROOF
<1>1. IInv => TypeOK BY DEF IInv
<1> QED BY <1>1, AlwaysIInv, PTL

\* Once the switches are initialised, the program knows of each flip-flop that is on:
\* PwrSwitch::set, interrupted by trips and resets, never leaves one it takes to be off.
THEOREM SwitchesKnown ==
  Spec => []SwitchIsKnown
PROOF
<1>1. IInv => SwitchIsKnown BY DEF IInv
<1> QED BY <1>1, AlwaysIInv, PTL

\* processPwrSw, over all boards, leaves none on that is hot, broken or not wanted.
THEOREM PassesLeaveSafe ==
  Spec => []PassLeavesSafe
PROOF
<1>1. IInv => PassLeavesSafe BY DEF IInv
<1> QED BY <1>1, AlwaysIInv, PTL

\* processPwrSw sets a switch that is off only for a board that is cool, or one it knew
\* to be on and still below the upper limit.
THEOREM StartsAreCool ==
  Spec => StartsCool
PROOF
<1>1. ASSUME IInv, [Next]_vars
      PROVE  [\A i \in Boards : ~testMode /\ ~latch[i] /\ latch'[i]
                => read[i] = "cool" \/ (isOn[i] /\ read[i] = "warm")]_vars
  <2> SUFFICES ASSUME NEW i \in Boards, ~testMode, ~latch[i], latch'[i]
               PROVE  read[i] = "cool" \/ (isOn[i] /\ read[i] = "warm")
    OBVIOUS
  <2>1. TypeOK BY <1>1 DEF IInv
  <2> USE DEF boardVars
  <2>2. CASE Clock
    <3>1. i = b /\ val BY <2>2, <2>1 DEF Clock, TypeOK
    <3> QED BY <3>1, <2>2, <1>1 DEF Clock, IInv, ClockInv
  <2>3. CASE InitSwitch BY <2>3, <2>1 DEF InitSwitch, TypeOK
  <2>4. CASE HbtPoll BY <2>4 DEF HbtPoll
  <2>5. ASSUME NEW j \in Boards, Trip(j) PROVE FALSE BY <2>5, <2>1 DEF Trip, TypeOK
  <2>6. CASE UNCHANGED latch BY <2>6
  <2>7. \/ Clock \/ InitSwitch \/ HbtPoll \/ (\E j \in Boards : Trip(j)) \/ UNCHANGED latch
    BY <1>1 DEF Next, MainLoop, Machine, MasterDataReceived, NothingReceived, Update,
      ProcessPwrSw, SetDone, RunLoop, PsuStep, Reset, TempChanges, PlantChanges, MasterLost,
      vars
  <2> QED BY <2>2, <2>3, <2>4, <2>5, <2>6, <2>7
<1> QED BY <1>1, AlwaysIInv, PTL DEF Spec, StartsCool
=============================================================================
