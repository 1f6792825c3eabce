----------------------------- MODULE PsuContract -----------------------------
(***************************************************************************)
(* What the boards of a slave may rely on of its power supply: PowerMgr and *)
(* pwrModuleMgr seen from isPowerDetected() and pHBWorkCond.  Power is      *)
(* promised once, after the type of the supply has been found; once         *)
(* withdrawn it stays withdrawn until the slave restarts; and a slave whose *)
(* supply has been found is not brought down by its supply any more.        *)
(***************************************************************************)
VARIABLES
  power,          \* PowerMgr::state: "waiting", "full" or "off"
  workCond,       \* pHBWorkCond is set
  up              \* the slave runs; otherwise its watchdog is about to reset it

vars == <<power, workCond, up>>

TypeOK ==
  /\ power \in {"waiting", "full", "off"}
  /\ workCond \in BOOLEAN
  /\ up \in BOOLEAN

Init == power = "waiting" /\ workCond = FALSE /\ up = TRUE

Found ==
  /\ up = TRUE /\ workCond = FALSE
  /\ workCond' = TRUE
  /\ UNCHANGED <<power, up>>

PowerUp ==
  /\ up = TRUE /\ workCond = TRUE /\ power = "waiting"
  /\ power' = "full"
  /\ UNCHANGED <<workCond, up>>

PowerOff ==
  /\ up = TRUE /\ workCond = TRUE /\ power # "off"
  /\ power' = "off"
  /\ UNCHANGED <<workCond, up>>

Fault ==
  /\ up = TRUE /\ workCond = FALSE
  /\ up' = FALSE
  /\ UNCHANGED <<power, workCond>>

Restart ==
  /\ up = FALSE
  /\ power' = "waiting" /\ workCond' = FALSE /\ up' = TRUE

Next == Found \/ PowerUp \/ PowerOff \/ Fault \/ Restart

Spec == Init /\ [][Next]_vars
=============================================================================
