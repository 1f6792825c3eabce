------------------------- MODULE PoolSelectionProofs -------------------------
(***************************************************************************)
(* Proofs about PoolSelection: the choice among the pools is fresh and      *)
(* nothing is given up early, whatever the main thread does; and, when the  *)
(* configuration changes no faster than the network thread picks changes    *)
(* up, the configuration in force is the one the network thread works with. *)
(***************************************************************************)
EXTENDS PoolSelection, TLAPS

-----------------------------------------------------------------------------
(* Operators. *)

LEMMA NextEnabledIsEnabled ==
  ASSUME 0 \in info.enabled, NEW p \in Pools
  PROVE  /\ NextEnabled(p) \in info.enabled
         /\ NextEnabled(p) \in Pools
PROOF
<1> DEFINE R(k) == /\ k \in 1 .. 3
                   /\ After(p, k) \in info.enabled
                   /\ \A l \in 1 .. k - 1 : After(p, l) \notin info.enabled
<1>1. \A k \in 1 .. 3 : After(p, k) \in Pools
  BY DEF After, Pools
<1>2. \E k \in 1 .. 3 : After(p, k) \in info.enabled
  BY DEF After, Pools
<1>3. \E k \in 1 .. 3 : R(k)
  <2>1. CASE After(p, 1) \in info.enabled
    <3>1. R(1) BY <2>1
    <3> QED BY <3>1
  <2>2. CASE After(p, 1) \notin info.enabled /\ After(p, 2) \in info.enabled
    <3>1. \A l \in 1 .. 2 - 1 : l = 1 OBVIOUS
    <3>2. R(2) BY <2>2, <3>1
    <3> QED BY <3>2
  <2>3. CASE After(p, 1) \notin info.enabled /\ After(p, 2) \notin info.enabled
    <3>1. After(p, 3) \in info.enabled
      <4>1. PICK k \in 1 .. 3 : After(p, k) \in info.enabled BY <1>2
      <4>2. k = 1 \/ k = 2 \/ k = 3 OBVIOUS
      <4> QED BY <4>1, <4>2, <2>3
    <3>2. \A l \in 1 .. 3 - 1 : l = 1 \/ l = 2 OBVIOUS
    <3>3. R(3) BY <2>3, <3>1, <3>2
    <3> QED BY <3>3
  <2> QED BY <2>1, <2>2, <2>3
<1> DEFINE K == CHOOSE k \in 1 .. 3 :
                  /\ After(p, k) \in info.enabled
                  /\ \A l \in 1 .. k - 1 : After(p, l) \notin info.enabled
<1>4. K \in 1 .. 3 /\ After(p, K) \in info.enabled
  BY <1>3
<1>5. NextEnabled(p) = After(p, K)
  BY DEF NextEnabled
<1> QED BY <1>1, <1>4, <1>5

\* A configuration put together from two is one.
LEMMA FirstHalfConfig ==
  ASSUME NEW c \in Config, NEW d \in Config
  PROVE  FirstHalf(c, d) \in Config
BY DEF FirstHalf, Config

InfoType == [address : Addresses, enabled : {{0} \cup B : B \in SUBSET Backups}]

LEMMA InfoTyped ==
  ASSUME NEW c \in Config
  PROVE  /\ InfoOf(c) \in InfoType
         /\ InfoOf(c).enabled \subseteq Pools /\ 0 \in InfoOf(c).enabled
BY DEF InfoOf, Config, InfoType, Pools, Backups

LEMMA InfoEnabled ==
  ASSUME info \in InfoType
  PROVE  info.enabled \subseteq Pools /\ 0 \in info.enabled
PROOF
<1>1. PICK B \in SUBSET Backups : info.enabled = {0} \cup B
  BY DEF InfoType
<1> QED BY <1>1 DEF Pools, Backups

LEMMA EndpointTyped ==
  ASSUME info \in InfoType, NEW p \in Pools
  PROVE  Endpoint(p) \in Endpoints
PROOF
<1>1. CASE p = 0
  <2>1. info.address \in Addresses BY DEF InfoType
  <2>2. Endpoint(p) = <<0, info.address>> BY <1>1 DEF Endpoint
  <2>3. <<0, info.address>> \in {0} \X Addresses BY <2>1
  <2> QED BY <2>2, <2>3 DEF Endpoints
<1>2. CASE p # 0
  <2>1. p \in Backups BY <1>2 DEF Pools, Backups
  <2> QED BY <1>2, <2>1 DEF Endpoint, Endpoints
<1> QED BY <1>1, <1>2

-----------------------------------------------------------------------------
(* Types and the choice. *)

\* No failure is forgotten that a count remembers, and nothing is counted while
\* connected.
CountInv ==
  /\ retryCount[current] <= failures
  /\ conn # NoConn => retryCount[current] = 0
  /\ pc = "io" => conn # NoConn
  /\ pc = "connect" => conn = NoConn

ChoiceInv == TypeOK /\ ChoiceIsFresh /\ CountInv

LEMMA NoEndpointIsNoConn == \A e \in Endpoints : e # NoConn
BY DEF Endpoints, NoConn

LEMMA InitChoice == Init => ChoiceInv
PROOF
<1> SUFFICES ASSUME Init PROVE ChoiceInv
  OBVIOUS
<1> USE SelectionAssumption
<1>1. webConfig \in Config BY DEF Init
<1>2. info = InfoOf(webConfig) BY DEF Init
<1>3. info \in InfoType /\ 0 \in info.enabled BY <1>1, <1>2, InfoTyped
<1>4. TypeOK
  <2>1. info \in [address : Addresses, enabled : {{0} \cup B : B \in SUBSET Backups}]
    BY <1>3 DEF InfoType
  <2>2. retryCount \in [Pools -> Nat] /\ current \in Pools BY DEF Init, Pools
  <2>3. conn \in Endpoints \cup {NoConn} BY DEF Init
  <2>4. {webConfig, appConfig, newConfig, poolConfig} \subseteq Config
    BY <1>1 DEF Init
  <2>5. /\ main \in MainPlaces /\ pc \in NetPlaces
        /\ checkTimer \in {"running", "elapsed"}
    BY DEF Init, MainPlaces, NetPlaces
  <2>6. edits \in 0 .. MaxEdits /\ failures \in Nat
    BY DEF Init
  <2>7. configChanged \in BOOLEAN /\ cancelled \in BOOLEAN
    BY Zenon DEF Init
  <2>8. outlook \in Outlook
    BY DEF Init, Unsettled, Outlook
  <2> QED BY <2>1, <2>2, <2>3, <2>4, <2>5, <2>6, <2>7, <2>8 DEF TypeOK
<1>5. ChoiceIsFresh
  <2>1. info.enabled \subseteq Pools BY <1>1, <1>2, InfoTyped
  <2> QED BY <1>3, <2>1 DEF Init, ChoiceIsFresh
<1>6. CountInv BY DEF Init, CountInv, Pools
<1> QED BY <1>4, <1>5, <1>6 DEF ChoiceInv

LEMMA MainChoice ==
  ASSUME ChoiceInv, Edit \/ OnConfigChange \/ MainThread
  PROVE  ChoiceInv'
PROOF
<1> USE SelectionAssumption DEF ChoiceInv
<1>1. CASE Edit
  <2>1. TypeOK' BY <1>1 DEF Edit, TypeOK, sharedVars, poolVars
  <2>2. ChoiceIsFresh' /\ CountInv'
    BY <1>1 DEF Edit, sharedVars, poolVars, ChoiceIsFresh, CountInv
  <2> QED BY <2>1, <2>2
<1>2. CASE OnConfigChange
  <2>1. TypeOK'
    BY <1>2, FirstHalfConfig DEF OnConfigChange, TypeOK, poolVars, MainPlaces
  <2>2. ChoiceIsFresh' /\ CountInv'
    BY <1>2 DEF OnConfigChange, poolVars, ChoiceIsFresh, CountInv
  <2> QED BY <2>1, <2>2
<1>3. CASE WriteConfig
  <2>1. TypeOK' BY <1>3 DEF WriteConfig, TypeOK, poolVars, MainPlaces
  <2>2. ChoiceIsFresh' /\ CountInv'
    BY <1>3 DEF WriteConfig, poolVars, ChoiceIsFresh, CountInv
  <2> QED BY <2>1, <2>2
<1>4. CASE SetConfigChanged
  <2>1. TypeOK' BY <1>4 DEF SetConfigChanged, TypeOK, poolVars, MainPlaces
  <2>2. ChoiceIsFresh' /\ CountInv'
    BY <1>4 DEF SetConfigChanged, poolVars, ChoiceIsFresh, CountInv
  <2> QED BY <2>1, <2>2
<1>5. CASE RestartStops
  <2>1. TypeOK' BY <1>5 DEF RestartStops, TypeOK, poolVars, MainPlaces
  <2>2. ChoiceIsFresh' /\ CountInv'
    BY <1>5 DEF RestartStops, poolVars, ChoiceIsFresh, CountInv
  <2> QED BY <2>1, <2>2
<1>6. CASE RestartJoined
  <2>1. TypeOK' BY <1>6 DEF RestartJoined, TypeOK, sharedVars, poolVars, MainPlaces
  <2>2. ChoiceIsFresh' /\ CountInv'
    BY <1>6 DEF RestartJoined, sharedVars, poolVars, ChoiceIsFresh, CountInv
  <2> QED BY <2>1, <2>2
<1>7. CASE RestartStarts
  <2>1. TypeOK' BY <1>7 DEF RestartStarts, TypeOK, poolVars, MainPlaces, NetPlaces
  <2>2. ChoiceIsFresh' /\ CountInv'
    BY <1>7 DEF RestartStarts, poolVars, ChoiceIsFresh, CountInv
  <2> QED BY <2>1, <2>2
<1> QED BY <1>1, <1>2, <1>3, <1>4, <1>5, <1>6, <1>7 DEF MainThread

LEMMA CopyChoice ==
  ASSUME ChoiceInv, CheckNewConfig \/ TakeConfig \/ ConfigTaken
  PROVE  ChoiceInv'
PROOF
<1> USE SelectionAssumption DEF ChoiceInv
<1>1. CASE CheckNewConfig
  <2>1. TypeOK'
    BY <1>1, FirstHalfConfig DEF CheckNewConfig, TypeOK, mainVars, sharedVars, NetPlaces
  <2>2. ChoiceIsFresh' /\ CountInv'
    BY <1>1 DEF CheckNewConfig, ChoiceIsFresh, CountInv
  <2> QED BY <2>1, <2>2
<1>2. CASE TakeConfig
  <2>1. poolConfig' \in Config BY <1>2 DEF TakeConfig, TypeOK, Config
  <2>2. TypeOK' BY <1>2, <2>1 DEF TakeConfig, TypeOK, mainVars, sharedVars, NetPlaces
  <2>3. ChoiceIsFresh' /\ CountInv'
    BY <1>2 DEF TakeConfig, ChoiceIsFresh, CountInv
  <2> QED BY <2>2, <2>3
<1>3. CASE ConfigTaken
  <2>1. info' = InfoOf(poolConfig)
    BY <1>3 DEF ConfigTaken, PoolConfigToPoolInfoArray
  <2>2. poolConfig \in Config BY DEF TypeOK
  <2>3. info' \in InfoType /\ info'.enabled \subseteq Pools /\ 0 \in info'.enabled
    BY <2>1, <2>2, InfoTyped
  <2>4. /\ retryCount' = [p \in Pools |-> IF p \in info'.enabled THEN 0 ELSE retryCount[p]]
        /\ current' = 0 /\ failures' = 0 /\ conn' = conn /\ pc' = "default"
    BY <1>3 DEF ConfigTaken, PoolConfigToPoolInfoArray
  <2>5. \A p \in info'.enabled : retryCount'[p] = 0 BY <2>3, <2>4
  <2>6. retryCount' \in [Pools -> Nat] /\ current' \in Pools
    BY <2>4 DEF TypeOK, Pools
  <2>7. TypeOK'
    BY <1>3, <2>3, <2>4, <2>6
    DEF ConfigTaken, TypeOK, mainVars, InfoType, NetPlaces
  <2>8. ChoiceIsFresh' /\ CountInv'
    BY <2>3, <2>4, <2>5 DEF ChoiceIsFresh, CountInv
  <2> QED BY <2>7, <2>8
<1> QED BY <1>1, <1>2, <1>3

LEMMA DefaultChoice ==
  ASSUME ChoiceInv,
         NetThreadEnds \/ DefaultNotChecked \/ DefaultIsDown \/ BackToDefault
  PROVE  ChoiceInv'
PROOF
<1> USE SelectionAssumption DEF ChoiceInv
<1>1. CASE NetThreadEnds
  <2>1. TypeOK'
    BY <1>1 DEF NetThreadEnds, TypeOK, mainVars, sharedVars, poolVars, NetPlaces
  <2>2. ChoiceIsFresh' /\ CountInv'
    BY <1>1 DEF NetThreadEnds, poolVars, ChoiceIsFresh, CountInv
  <2> QED BY <2>1, <2>2
<1>2. CASE DefaultNotChecked
  <2>1. TypeOK'
    BY <1>2 DEF DefaultNotChecked, TypeOK, mainVars, sharedVars, poolVars, NetPlaces
  <2>2. ChoiceIsFresh' /\ CountInv'
    BY <1>2 DEF DefaultNotChecked, poolVars, ChoiceIsFresh, CountInv
  <2> QED BY <2>1, <2>2
<1>3. CASE DefaultIsDown
  <2>1. TypeOK'
    BY <1>3 DEF DefaultIsDown, TypeOK, mainVars, sharedVars, NetPlaces
  <2>2. ChoiceIsFresh' /\ CountInv'
    BY <1>3 DEF DefaultIsDown, ChoiceIsFresh, CountInv
  <2> QED BY <2>1, <2>2
<1>4. CASE BackToDefault
  <2>1. 0 \in info.enabled /\ info.enabled \subseteq Pools
    BY InfoEnabled DEF TypeOK, InfoType
  <2>2. /\ retryCount' = [retryCount EXCEPT ![current] = 0]
        /\ current # 0 /\ current' = 0 /\ failures' = 0
        /\ UNCHANGED info /\ conn' = NoConn
        /\ pc' \in {"connect", "config"}
    BY <1>4 DEF BackToDefault
  <2>3. retryCount[0] = 0
    BY <2>1, <2>2 DEF ChoiceIsFresh, TypeOK, Pools
  <2>4. TypeOK'
    BY <1>4, <2>2 DEF BackToDefault, TypeOK, mainVars, sharedVars, NetPlaces, Pools
  <2>5. ChoiceIsFresh' /\ CountInv'
    BY <2>1, <2>2, <2>3 DEF ChoiceIsFresh, CountInv, TypeOK, Pools
  <2> QED BY <2>4, <2>5
<1> QED BY <1>1, <1>2, <1>3, <1>4

LEMMA ReselectChoice ==
  ASSUME TypeOK, ChoiceIsFresh, retryCount[current] <= failures, ReselectPoolInfo,
         UNCHANGED info
  PROVE  /\ retryCount' \in [Pools -> Nat] /\ current' \in Pools /\ failures' \in Nat
         /\ checkTimer' \in {"running", "elapsed"}
         /\ ChoiceIsFresh'
         /\ retryCount'[current'] <= failures'
PROOF
<1> USE SelectionAssumption
<1>1. /\ 0 \in info.enabled /\ info.enabled \subseteq Pools
      /\ current \in info.enabled /\ current \in Pools
      /\ retryCount \in [Pools -> Nat] /\ failures \in Nat
      /\ checkTimer \in {"running", "elapsed"}
  BY InfoEnabled DEF TypeOK, InfoType, ChoiceIsFresh
<1>2. OneMoreFailure \in Nat
  BY <1>1 DEF OneMoreFailure
<1>3. CASE retryCount[current] < RetryNTimes
  <2>1. /\ retryCount' = [retryCount EXCEPT ![current] = @ + 1]
        /\ failures' = OneMoreFailure /\ current' = current /\ checkTimer' = checkTimer
    BY <1>3 DEF ReselectPoolInfo
  <2>2. retryCount'[current] = retryCount[current] + 1
    BY <1>1, <2>1
  <2>3. retryCount'[current] <= failures'
    BY <1>1, <1>3, <2>1, <2>2 DEF OneMoreFailure
  <2>4. \A p \in Pools \ {current} : retryCount'[p] = retryCount[p]
    BY <1>1, <2>1
  <2>5. ChoiceIsFresh'
    BY <1>1, <1>3, <2>1, <2>2, <2>4 DEF ChoiceIsFresh
  <2>6. retryCount' \in [Pools -> Nat] BY <1>1, <2>1
  <2> QED BY <1>1, <1>2, <2>1, <2>3, <2>5, <2>6
<1>4. CASE ~(retryCount[current] < RetryNTimes)
  <2>1. /\ retryCount' = [retryCount EXCEPT ![current] = 0]
        /\ current' = NextEnabled(current)
        /\ failures' = IF current' = current THEN OneMoreFailure ELSE 0
        /\ checkTimer' = IF current' > 0 THEN "running" ELSE checkTimer
    BY <1>4 DEF ReselectPoolInfo
  <2>2. current' \in info.enabled /\ current' \in Pools
    BY <1>1, <2>1, NextEnabledIsEnabled
  <2>3. \A p \in info.enabled : retryCount'[p] = 0
    BY <1>1, <2>1 DEF ChoiceIsFresh
  <2>4. retryCount' \in [Pools -> Nat] BY <1>1, <2>1
  <2>5. failures' \in Nat BY <1>2, <2>1
  <2>6. ChoiceIsFresh' BY <2>2, <2>3 DEF ChoiceIsFresh
  <2> QED BY <1>1, <2>1, <2>2, <2>3, <2>4, <2>5, <2>6
<1> QED BY <1>3, <1>4

LEMMA SessionChoice ==
  ASSUME ChoiceInv, ConnectSucceeds \/ ConnectFails \/ SessionGoesOn \/ SessionFails
  PROVE  ChoiceInv'
PROOF
<1> USE SelectionAssumption DEF ChoiceInv
<1>1. CASE ConnectSucceeds
  <2>1. /\ conn' = Endpoint(current) /\ retryCount' = [retryCount EXCEPT ![current] = 0]
        /\ pc' = "config" /\ UNCHANGED <<info, current, failures>>
    BY <1>1 DEF ConnectSucceeds
  <2>2. Endpoint(current) \in Endpoints
    BY EndpointTyped DEF TypeOK, InfoType
  <2>3. TypeOK'
    BY <1>1, <2>1, <2>2 DEF ConnectSucceeds, TypeOK, mainVars, sharedVars, NetPlaces
  <2>4. retryCount'[current] = 0 /\ \A p \in Pools \ {current} : retryCount'[p] = retryCount[p]
    BY <2>1 DEF TypeOK
  <2>5. info.enabled \subseteq Pools BY InfoEnabled DEF TypeOK, InfoType
  <2>6. ChoiceIsFresh' /\ CountInv'
    BY <2>1, <2>4, <2>5 DEF ChoiceIsFresh, CountInv, TypeOK
  <2> QED BY <2>3, <2>6
<1>2. CASE ConnectFails
  <2>1. /\ ReselectPoolInfo /\ pc' = "config" /\ conn' = conn /\ UNCHANGED info
        /\ conn = NoConn
    BY <1>2 DEF ConnectFails, CountInv
  <2>2. /\ retryCount' \in [Pools -> Nat] /\ current' \in Pools /\ failures' \in Nat
        /\ checkTimer' \in {"running", "elapsed"}
        /\ ChoiceIsFresh' /\ retryCount'[current'] <= failures'
    BY <2>1, ReselectChoice DEF CountInv
  <2>3. TypeOK'
    BY <1>2, <2>1, <2>2 DEF ConnectFails, TypeOK, mainVars, sharedVars, NetPlaces
  <2>4. CountInv' BY <2>1, <2>2 DEF CountInv
  <2> QED BY <2>2, <2>3, <2>4
<1>3. CASE SessionGoesOn
  <2>1. /\ failures' = 0 /\ pc' = "config" /\ conn' = conn
        /\ UNCHANGED <<retryCount, current, info>> /\ retryCount[current] = 0
    BY <1>3 DEF SessionGoesOn, poolVars, CountInv
  <2>2. TypeOK'
    BY <1>3, <2>1 DEF SessionGoesOn, TypeOK, mainVars, sharedVars, poolVars, NetPlaces
  <2>3. ChoiceIsFresh' /\ CountInv' BY <2>1 DEF ChoiceIsFresh, CountInv
  <2> QED BY <2>2, <2>3
<1>4. CASE SessionFails
  <2>1. ReselectPoolInfo /\ pc' = "config" /\ conn' = NoConn /\ UNCHANGED info
    BY <1>4 DEF SessionFails
  <2>2. /\ retryCount' \in [Pools -> Nat] /\ current' \in Pools /\ failures' \in Nat
        /\ checkTimer' \in {"running", "elapsed"}
        /\ ChoiceIsFresh' /\ retryCount'[current'] <= failures'
    BY <2>1, ReselectChoice DEF CountInv
  <2>3. TypeOK'
    BY <1>4, <2>1, <2>2 DEF SessionFails, TypeOK, mainVars, sharedVars, NetPlaces
  <2>4. CountInv' BY <2>1, <2>2 DEF CountInv
  <2> QED BY <2>2, <2>3, <2>4
<1> QED BY <1>1, <1>2, <1>3, <1>4

LEMMA TimeChoice ==
  ASSUME ChoiceInv, Elapse \/ Settle \/ UNCHANGED vars
  PROVE  ChoiceInv'
PROOF
<1> USE SelectionAssumption DEF ChoiceInv
<1>1. CASE Elapse
  <2>1. TypeOK' BY <1>1 DEF Elapse, TypeOK, mainVars, sharedVars
  <2>2. ChoiceIsFresh' /\ CountInv' BY <1>1 DEF Elapse, ChoiceIsFresh, CountInv
  <2> QED BY <2>1, <2>2
<1>2. CASE Settle
  <2>1. TypeOK' BY <1>2 DEF Settle, TypeOK, mainVars, sharedVars, poolVars
  <2>2. ChoiceIsFresh' /\ CountInv' BY <1>2 DEF Settle, poolVars, ChoiceIsFresh, CountInv
  <2> QED BY <2>1, <2>2
<1>3. CASE UNCHANGED vars
  <2>1. TypeOK' BY <1>3 DEF vars, TypeOK, mainVars, sharedVars, poolVars
  <2>2. ChoiceIsFresh' /\ CountInv' BY <1>3 DEF vars, poolVars, ChoiceIsFresh, CountInv
  <2> QED BY <2>1, <2>2
<1> QED BY <1>1, <1>2, <1>3

LEMMA StepChoice ==
  ASSUME ChoiceInv, [Next]_vars
  PROVE  ChoiceInv'
BY MainChoice, CopyChoice, DefaultChoice, SessionChoice, TimeChoice DEF Next, NetThread

\* Types, and the chosen pool is one of the configured ones with nothing counted
\* against it from before (reselectPoolInfo, checkDefaultPoolInfo,
\* poolConfigToPoolInfoArray).
THEOREM ChoiceAlwaysFresh == Spec => [](TypeOK /\ ChoiceIsFresh)
PROOF
<1>1. Spec => []ChoiceInv BY InitChoice, StepChoice, PTL DEF Spec
<1>2. ChoiceInv => TypeOK /\ ChoiceIsFresh BY DEF ChoiceInv
<1> QED BY <1>1, <1>2, PTL

\* Types: whatever is edited and restarted meanwhile, the pool at hand is one of the list,
\* and the list is never without the default pool (poolConfigToPoolInfoArray).
THEOREM TypeAlwaysCorrect == Spec => []TypeOK
PROOF
<1>1. TypeOK /\ ChoiceIsFresh => TypeOK OBVIOUS
<1> QED BY <1>1, ChoiceAlwaysFresh, PTL

\* No pool is given up for another before RetryNTimes + 1 sessions in a row failed on
\* it, however the main thread and the pools behave (reselectPoolInfo).
THEOREM NeverGivenUpEarly == Spec => NotGivenUpEarly
PROOF
<1>1. Spec => []ChoiceInv BY InitChoice, StepChoice, PTL DEF Spec
<1>2. ASSUME ChoiceInv, [Next]_vars
      PROVE  [current' # current /\ pc' = "config" /\ pc # "default"
                => failures >= RetryNTimes]_vars
  <2> SUFFICES ASSUME Next, current' # current, pc' = "config", pc # "default"
               PROVE  failures >= RetryNTimes
    BY <1>2
  <2>1. ReselectPoolInfo
    BY DEF Next, MainThread, NetThread, Edit, OnConfigChange, WriteConfig,
           SetConfigChanged, RestartStops, RestartJoined, RestartStarts, NetThreadEnds,
           CheckNewConfig, TakeConfig, ConfigTaken, DefaultNotChecked, DefaultIsDown,
           BackToDefault, ConnectSucceeds, ConnectFails, SessionGoesOn, SessionFails,
           Elapse, Settle, poolVars
  <2>2. ~(retryCount[current] < RetryNTimes) BY <2>1 DEF ReselectPoolInfo
  <2> QED
    BY <1>2, <2>2, SelectionAssumption DEF ChoiceInv, CountInv, TypeOK
<1> QED BY <1>1, <1>2, PTL DEF Spec, NotGivenUpEarly

-----------------------------------------------------------------------------
(* The configuration in force. *)

Busy == main \in {"writing", "written"}
Taking == pc \in {"taking", "taken"}

\* Where a change is on its way, and what is copied of it.
ChangeInv ==
  /\ Busy => ~configChanged /\ ~Taking
  /\ configChanged => newConfig = appConfig
  /\ main = "writing" => newConfig.address = appConfig.address
  /\ main = "written" => newConfig = appConfig
  /\ Taking => configChanged
  /\ main \in {"restart", "joining", "start"} => newConfig = appConfig
  /\ pc = "taking" => poolConfig.address = newConfig.address
  /\ pc = "taken" => poolConfig = newConfig

\* What the network thread works with.
InForceInv ==
  /\ ~configChanged /\ ~Busy => poolConfig = appConfig
  /\ ~Taking => info = InfoOf(poolConfig)

\* What it is connected to: after a change it was stopped before it goes on.
ConnInv ==
  /\ pc = "stopped" => conn = NoConn
  /\ main = "start" => pc = "stopped"
  /\ main = "idle" /\ configChanged =>
       conn = NoConn /\ pc \in {"config", "taking", "taken", "stopped"}
  /\ main = "idle" /\ ~configChanged /\ conn # NoConn
       => conn \in {Endpoint(p) : p \in info.enabled}

ForceInv == ChangeInv /\ InForceInv /\ ConnInv

LEMMA InitForce == Init => ForceInv
BY DEF Init, ForceInv, ChangeInv, InForceInv, ConnInv, Busy, Taking

LEMMA MainForce ==
  ASSUME ~Hurried, ChoiceInv, ForceInv, Edit \/ OnConfigChange \/ MainThread
  PROVE  ForceInv'
PROOF
<1> USE DEF ForceInv, ChangeInv, InForceInv, Busy, Taking
<1>1. CASE Edit
  BY <1>1 DEF Edit, ConnInv, Endpoint, sharedVars, poolVars
<1>2. CASE OnConfigChange
  <2>1. CASE IsChanged(webConfig, appConfig)
    <3>1. /\ main = "idle" /\ main' = "writing" /\ ~configChanged /\ ~Taking
          /\ appConfig' = webConfig /\ newConfig' = FirstHalf(webConfig, newConfig)
          /\ UNCHANGED <<configChanged, pc, poolConfig, info, conn>>
      BY <1>2, <2>1 DEF OnConfigChange, poolVars
    <3>2. newConfig'.address = appConfig'.address
      BY <3>1 DEF FirstHalf, ChoiceInv, TypeOK, Config
    <3>3. ChangeInv' BY <3>1, <3>2
    <3>4. InForceInv' BY <3>1 DEF InfoOf
    <3>5. ConnInv' BY <3>1 DEF ConnInv
    <3> QED BY <3>3, <3>4, <3>5
  <2>2. CASE ~IsChanged(webConfig, appConfig)
    BY <1>2, <2>2 DEF OnConfigChange, ConnInv, Endpoint, poolVars
  <2> QED BY <2>1, <2>2
<1>3. CASE WriteConfig
  BY <1>3 DEF WriteConfig, ConnInv, Endpoint, poolVars
<1>4. CASE SetConfigChanged
  BY <1>4 DEF SetConfigChanged, ConnInv, Endpoint, poolVars
<1>5. CASE RestartStops
  BY <1>5 DEF RestartStops, ConnInv, Endpoint, poolVars
<1>6. CASE RestartJoined
  BY <1>6 DEF RestartJoined, ConnInv, Endpoint, sharedVars, poolVars
<1>7. CASE RestartStarts
  BY <1>7 DEF RestartStarts, ConnInv, Endpoint, poolVars
<1> QED BY <1>1, <1>2, <1>3, <1>4, <1>5, <1>6, <1>7 DEF MainThread

LEMMA CopyForce ==
  ASSUME ChoiceInv, ForceInv, CheckNewConfig \/ TakeConfig \/ ConfigTaken
  PROVE  ForceInv'
PROOF
<1> USE DEF ForceInv, ChangeInv, InForceInv, Busy, Taking
<1>1. CASE CheckNewConfig
  <2>1. CASE configChanged
    <3>1. /\ pc = "config" /\ pc' = "taking" /\ poolConfig' = FirstHalf(newConfig, poolConfig)
          /\ UNCHANGED <<main, appConfig, newConfig, configChanged, info, conn>>
      BY <1>1, <2>1 DEF CheckNewConfig, mainVars, sharedVars
    <3>2. poolConfig'.address = newConfig.address
      BY <3>1 DEF FirstHalf, ChoiceInv, TypeOK, Config
    <3>3. ChangeInv' BY <2>1, <3>1, <3>2
    <3>4. InForceInv' BY <2>1, <3>1
    <3>5. ConnInv' BY <2>1, <3>1 DEF ConnInv
    <3> QED BY <3>3, <3>4, <3>5
  <2>2. CASE ~configChanged
    BY <1>1, <2>2 DEF CheckNewConfig, ConnInv, Endpoint, mainVars, sharedVars
  <2> QED BY <2>1, <2>2
<1>2. CASE TakeConfig
  <2>1. /\ pc = "taking" /\ pc' = "taken" /\ configChanged
        /\ poolConfig' = [newConfig EXCEPT !.address = poolConfig.address]
        /\ UNCHANGED <<main, appConfig, newConfig, configChanged, info, conn>>
    BY <1>2 DEF TakeConfig, mainVars, sharedVars
  <2>2. poolConfig' = newConfig
    BY <2>1 DEF ChoiceInv, TypeOK, Config
  <2>3. ChangeInv' BY <2>1, <2>2
  <2>4. InForceInv' BY <2>1
  <2>5. ConnInv' BY <2>1 DEF ConnInv
  <2> QED BY <2>3, <2>4, <2>5
<1>3. CASE ConfigTaken
  <2>1. /\ pc = "taken" /\ pc' = "default" /\ configChanged /\ ~configChanged'
        /\ info' = InfoOf(poolConfig) /\ poolConfig = newConfig
        /\ UNCHANGED <<main, appConfig, newConfig, poolConfig, conn>>
    BY <1>3 DEF ConfigTaken, PoolConfigToPoolInfoArray, mainVars
  <2>2. ChangeInv' BY <2>1
  <2>3. InForceInv' BY <2>1
  <2>4. ConnInv' BY <2>1 DEF ConnInv
  <2> QED BY <2>2, <2>3, <2>4
<1> QED BY <1>1, <1>2, <1>3

LEMMA OtherForce ==
  ASSUME ChoiceInv, ForceInv,
         \/ NetThreadEnds \/ DefaultNotChecked \/ DefaultIsDown \/ BackToDefault
         \/ ConnectSucceeds \/ ConnectFails \/ SessionGoesOn \/ SessionFails
         \/ Elapse \/ Settle \/ UNCHANGED vars
  PROVE  ForceInv'
PROOF
<1> USE DEF ForceInv, ChangeInv, InForceInv, Busy, Taking
<1>1. CASE NetThreadEnds
  BY <1>1 DEF NetThreadEnds, ConnInv, mainVars, sharedVars, poolVars
<1>2. CASE DefaultNotChecked
  BY <1>2 DEF DefaultNotChecked, ConnInv, Endpoint, mainVars, sharedVars, poolVars
<1>3. CASE DefaultIsDown
  BY <1>3 DEF DefaultIsDown, ConnInv, Endpoint, mainVars, sharedVars
<1>4. CASE BackToDefault
  BY <1>4 DEF BackToDefault, ConnInv, mainVars, sharedVars
<1>5. CASE ConnectSucceeds
  <2>1. /\ pc = "connect" /\ pc' = "config" /\ conn' = Endpoint(current)
        /\ UNCHANGED <<main, appConfig, newConfig, configChanged, poolConfig, info>>
    BY <1>5 DEF ConnectSucceeds, mainVars, sharedVars
  <2>2. current \in info.enabled BY DEF ChoiceInv, ChoiceIsFresh
  <2>3. conn' \in {Endpoint(p)' : p \in info'.enabled}
    BY <2>1, <2>2 DEF Endpoint
  <2>4. ConnInv' BY <2>1, <2>3 DEF ConnInv
  <2> QED BY <2>1, <2>4
<1>6. CASE ConnectFails
  BY <1>6 DEF ConnectFails, ConnInv, Endpoint, mainVars, sharedVars
<1>7. CASE SessionGoesOn
  BY <1>7 DEF SessionGoesOn, ConnInv, Endpoint, mainVars, sharedVars, poolVars
<1>8. CASE SessionFails
  BY <1>8 DEF SessionFails, ConnInv, mainVars, sharedVars
<1>9. CASE Elapse
  BY <1>9 DEF Elapse, ConnInv, Endpoint, mainVars, sharedVars
<1>10. CASE Settle
  BY <1>10 DEF Settle, ConnInv, Endpoint, mainVars, sharedVars, poolVars
<1>11. CASE UNCHANGED vars
  BY <1>11 DEF vars, ConnInv, Endpoint, mainVars, sharedVars, poolVars
<1> QED
  BY <1>1, <1>2, <1>3, <1>4, <1>5, <1>6, <1>7, <1>8, <1>9, <1>10, <1>11

\* When a change is picked up before the next one is made, the network thread works
\* with the whole of the configuration in force and is connected to a pool that it
\* names, unless a change is on its way (onConfigChange, reconfigure, checkNewConfig).
THEOREM ConfigAlwaysInForce ==
  ASSUME ~Hurried
  PROVE  Spec => []ConfigIsInForce
PROOF
<1>1. ChoiceInv /\ ForceInv /\ [Next]_vars => (ChoiceInv /\ ForceInv)'
  BY StepChoice, MainForce, CopyForce, OtherForce DEF Next, NetThread
<1>2. ForceInv => ConfigIsInForce
  BY DEF ForceInv, ChangeInv, InForceInv, ConnInv, ConfigIsInForce, Busy, Taking
<1> QED BY <1>1, <1>2, InitChoice, InitForce, PTL DEF Spec
=============================================================================
