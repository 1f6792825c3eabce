---------------------------- MODULE PoolSelection ----------------------------
(***************************************************************************)
(* Which pool the network thread of StratumPool talks to: the choice among *)
(* the default pool and two backups (built with MULTI_POOL_SUPPORT), and   *)
(* the way a changed configuration reaches the thread: the main thread     *)
(* copies it into m_newPoolConfig, sets m_configChanged and restarts the   *)
(* thread (ApplicationImpl::onConfigChange, StratumPool::reconfigure).     *)
(* No lock protects the copies, so each is two steps here.                 *)
(*                                                                         *)
(* What happens on a connection is StratumPool; here a session is served,  *)
(* or it fails.                                                            *)
(***************************************************************************)
EXTENDS Naturals

CONSTANTS
  Addresses,        \* host, port and user of a default pool
  Outlooks,         \* what the pools may settle for: see Outlook
  RetryNTimes,      \* m_poolConfig.retryNTimes
  Hurried,          \* a configuration may change before the last one was picked up
  MaxEdits          \* bound of the model: edits of the configuration

Backups == 1 .. 2
Pools == 0 .. 2     \* 0: the default pool

Config == [address : Addresses, backups : SUBSET Backups]

\* A pool as seen from outside: <<0, a>> is a default pool, <<b, b>> is backup b.
Endpoints == ({0} \X Addresses) \cup {<<b, b>> : b \in Backups}
NoConn == <<>>

\* Pools that accept and serve every session, and pools that refuse every one.
Outlook == [reliable : SUBSET Endpoints, dead : SUBSET Endpoints]
Unsettled == [reliable |-> {}, dead |-> {}]

ASSUME SelectionAssumption ==
  /\ RetryNTimes \in Nat /\ MaxEdits \in Nat
  /\ Hurried \in BOOLEAN
  /\ Outlooks \subseteq Outlook

VARIABLES
  \* The main thread.
  main,           \* where it is in onConfigChange: see MainPlaces
  webConfig,      \* what the user has edited (read by GetMinerConfig)
  appConfig,      \* ApplicationImpl::m_config, as far as the pools are concerned
  edits,
  \* Shared.
  newConfig, configChanged,     \* m_newPoolConfig, m_configChanged
  cancelled,                    \* the thread is being cancelled
  \* The network thread.
  pc,             \* where it is: see NetPlaces
  poolConfig,     \* m_poolConfig
  info,           \* m_poolInfoArray: [address, enabled]
  retryCount,     \* m_poolInfoArray[].retryCount
  current,        \* m_currentPoolInfoCount
  checkTimer,     \* m_checkDefaultPoolInfoTimer
  conn,           \* the pool the session is connected to
  failures,       \* sessions that failed in a row on the current pool
  \* The environment.
  outlook         \* how the pools behave from now on

mainVars == <<main, webConfig, appConfig, edits>>
sharedVars == <<newConfig, configChanged, cancelled>>
poolVars == <<poolConfig, info, retryCount, current, checkTimer>>
vars == <<mainVars, sharedVars, pc, poolVars, conn, failures, outlook>>

\* "writing": the first half of m_newPoolConfig is copied; "written": all of it.
MainPlaces == {"idle", "writing", "written", "restart", "joining", "start"}

\* "config": about to call checkNewConfig, before a session or in its loop;
\* "taking": it has copied the first half; "taken": all, the flag is still set;
\* "default": about to call checkDefaultPoolInfo; "io": the rest of an iteration.
NetPlaces == {"stopped", "config", "taking", "taken", "default", "connect", "io"}

-----------------------------------------------------------------------------
(* The main thread. *)

\* The user changes the configuration file.
Edit ==
  /\ edits < MaxEdits
  /\ edits' = edits + 1
  /\ webConfig' \in Config \ {webConfig}
  /\ UNCHANGED <<main, appConfig, sharedVars, pc, poolVars,
                 conn, failures, outlook>>

\* analyzeConfigChange.  (It passes over passwords, which are not modelled.)
IsChanged(c, old) == c.address # old.address \/ c.backups # old.backups

FirstHalf(new, old) == [old EXCEPT !.address = new.address]

\* onConfigChange up to the first half of the copy in reconfigure.
OnConfigChange ==
  /\ main = "idle"
  /\ Hurried \/ (~configChanged /\ pc \notin {"taking", "taken"})
  /\ IF IsChanged(webConfig, appConfig)
     THEN /\ appConfig' = webConfig
          /\ newConfig' = FirstHalf(webConfig, newConfig)
          /\ main' = "writing"
     ELSE UNCHANGED <<main, appConfig, newConfig>>
  /\ UNCHANGED <<webConfig, edits, configChanged, cancelled, pc, poolVars, conn, failures,
                 outlook>>

WriteConfig ==
  /\ main = "writing"
  /\ newConfig' = appConfig
  /\ main' = "written"
  /\ UNCHANGED <<webConfig, appConfig, edits, configChanged, cancelled, pc, poolVars,
                 conn, failures, outlook>>

SetConfigChanged ==
  /\ main = "written"
  /\ configChanged' = TRUE
  /\ main' = "restart"
  /\ UNCHANGED <<webConfig, appConfig, edits, newConfig, cancelled, pc, poolVars,
                 conn, failures, outlook>>

\* Mutant of RestartStops: the thread goes on, it will see the flag.
RestartNot ==
  /\ main = "restart"
  /\ main' = "idle"
  /\ UNCHANGED <<webConfig, appConfig, edits, sharedVars,
                 pc, poolVars, conn, failures, outlook>>

\* restart: stop, that is cancel and join, then start.
RestartStops ==
  /\ main = "restart"
  /\ cancelled' = TRUE
  /\ main' = "joining"
  /\ UNCHANGED <<webConfig, appConfig, edits, newConfig, configChanged, pc, poolVars,
                 conn, failures, outlook>>

RestartJoined ==
  /\ main = "joining"
  /\ pc = "stopped"
  /\ main' = "start"
  /\ UNCHANGED <<webConfig, appConfig, edits, sharedVars,
                 pc, poolVars, conn, failures, outlook>>

RestartStarts ==
  /\ main = "start"
  /\ main' = "idle"
  /\ cancelled' = FALSE
  /\ pc' = "config"
  /\ UNCHANGED <<webConfig, appConfig, edits, newConfig, configChanged, poolVars,
                 conn, failures, outlook>>

-----------------------------------------------------------------------------
(* The network thread: the configuration. *)

\* The loop condition, or a cancellation point: copying has none.
NetThreadEnds ==
  /\ cancelled
  /\ pc \in {"config", "default", "connect", "io"}
  /\ pc' = "stopped"
  /\ conn' = NoConn
  /\ UNCHANGED <<mainVars, sharedVars, poolVars, failures, outlook>>

CheckNewConfig ==
  /\ pc = "config"
  /\ IF configChanged
     THEN /\ pc' = "taking"
          /\ poolConfig' = FirstHalf(newConfig, poolConfig)
     ELSE pc' = "default" /\ UNCHANGED poolConfig
  /\ UNCHANGED <<mainVars, sharedVars, info, retryCount, current,
                 checkTimer, conn, failures, outlook>>

TakeConfig ==
  /\ pc = "taking"
  /\ pc' = "taken"
  /\ poolConfig' = [newConfig EXCEPT !.address = poolConfig.address]
  /\ UNCHANGED <<mainVars, sharedVars, info, retryCount, current,
                 checkTimer, conn, failures, outlook>>

InfoOf(c) == [address |-> c.address, enabled |-> {0} \cup c.backups]

\* Mutant of PoolConfigToPoolInfoArray: the choice among the pools is kept.
InfoOnly ==
  /\ info' = InfoOf(poolConfig)
  /\ retryCount' = [p \in Pools |-> IF p \in info'.enabled THEN 0 ELSE retryCount[p]]
  /\ UNCHANGED current

PoolConfigToPoolInfoArray ==
  /\ info' = InfoOf(poolConfig)
  /\ retryCount' = [p \in Pools |-> IF p \in info'.enabled THEN 0 ELSE retryCount[p]]
  /\ current' = 0

ConfigTaken ==
  /\ pc = "taken"
  /\ pc' = "default"
  /\ configChanged' = FALSE
  /\ PoolConfigToPoolInfoArray
  /\ failures' = 0
  /\ UNCHANGED <<mainVars, newConfig, cancelled, poolConfig, checkTimer, conn, outlook>>

-----------------------------------------------------------------------------
(* The network thread: the choice. *)

Endpoint(p) == IF p = 0 THEN <<0, info.address>> ELSE <<p, p>>

\* The pool k places behind p in the array.
After(p, k) == (p + k) % 3

\* Mutant of NextEnabled: the search does not start over at the default pool.
NextNotWrapped(p) ==
  IF \E q \in info.enabled : q > p
  THEN CHOOSE q \in info.enabled : q > p /\ \A r \in info.enabled : r > p => q <= r
  ELSE 3

\* Mutant of NextEnabled: after a backup it is the default pool's turn.
NextOrDefault(p) ==
  IF p = 0 /\ info.enabled # {0}
  THEN CHOOSE q \in info.enabled \ {0} : \A r \in info.enabled \ {0} : q <= r
  ELSE 0

NextEnabled(p) ==
  After(p, CHOOSE k \in 1 .. 3 :
              /\ After(p, k) \in info.enabled
              /\ \A l \in 1 .. k - 1 : After(p, l) \notin info.enabled)

\* One more failure on the same pool; the count stops where it makes no difference.
OneMoreFailure == IF failures > RetryNTimes THEN failures ELSE failures + 1

\* Mutant of ReselectPoolInfo: one retry less.
ReselectOneEarly ==
  IF retryCount[current] + 1 < RetryNTimes
  THEN /\ retryCount' = [retryCount EXCEPT ![current] = @ + 1]
       /\ failures' = OneMoreFailure
       /\ UNCHANGED <<current, checkTimer>>
  ELSE /\ retryCount' = [retryCount EXCEPT ![current] = 0]
       /\ current' = NextEnabled(current)
       /\ failures' = IF current' = current THEN OneMoreFailure ELSE 0
       /\ checkTimer' = IF current' > 0 THEN "running" ELSE checkTimer

\* reselectPoolInfo, called for every exception that ends a session.
ReselectPoolInfo ==
  IF retryCount[current] < RetryNTimes
  THEN /\ retryCount' = [retryCount EXCEPT ![current] = @ + 1]
       /\ failures' = OneMoreFailure
       /\ UNCHANGED <<current, checkTimer>>
  ELSE /\ retryCount' = [retryCount EXCEPT ![current] = 0]
       /\ current' = NextEnabled(current)
       /\ failures' = IF current' = current THEN OneMoreFailure ELSE 0
       /\ checkTimer' = IF current' > 0 THEN "running" ELSE checkTimer

Accepts(e, ok) == e \notin IF ok THEN outlook.dead ELSE outlook.reliable

\* checkDefaultPoolInfo found nothing to do.
DefaultNotChecked ==
  /\ pc = "default"
  /\ current = 0 \/ checkTimer # "elapsed"
  /\ pc' = IF conn = NoConn THEN "connect" ELSE "io"
  /\ UNCHANGED <<mainVars, sharedVars, poolVars, conn, failures, outlook>>

DefaultIsDown ==
  /\ pc = "default"
  /\ current # 0 /\ checkTimer = "elapsed"
  /\ Accepts(Endpoint(0), FALSE)
  /\ checkTimer' = "running"
  /\ pc' = IF conn = NoConn THEN "connect" ELSE "io"
  /\ UNCHANGED <<mainVars, sharedVars, poolConfig, info, retryCount,
                 current, conn, failures, outlook>>

\* The default pool accepts a connection again: a session ends without an error.
BackToDefault ==
  /\ pc = "default"
  /\ current # 0 /\ checkTimer = "elapsed"
  /\ Accepts(Endpoint(0), TRUE)
  /\ retryCount' = [retryCount EXCEPT ![current] = 0]
  /\ current' = 0
  /\ failures' = 0
  /\ pc' = IF conn = NoConn THEN "connect" ELSE "config"
  /\ conn' = NoConn
  /\ UNCHANGED <<mainVars, sharedVars, poolConfig, info, checkTimer, outlook>>

\* connectToPool, subscribeToPool, resetCurrentPoolRetryInfo.
ConnectSucceeds ==
  /\ pc = "connect"
  /\ Accepts(Endpoint(current), TRUE)
  /\ conn' = Endpoint(current)
  /\ retryCount' = [retryCount EXCEPT ![current] = 0]
  /\ pc' = "config"
  /\ UNCHANGED <<mainVars, sharedVars, poolConfig, info, current,
                 checkTimer, failures, outlook>>

\* Refused, or the subscription cannot be sent.  (The exit of the program after too
\* many attempts is in StratumPool.)
ConnectFails ==
  /\ pc = "connect"
  /\ Accepts(Endpoint(current), FALSE)
  /\ ReselectPoolInfo
  /\ pc' = "config"
  /\ UNCHANGED <<mainVars, sharedVars, poolConfig, info, conn, outlook>>

\* An iteration of the loop that goes well: the session is in service.
SessionGoesOn ==
  /\ pc = "io"
  /\ conn \notin outlook.dead
  /\ pc' = "config"
  /\ failures' = 0
  /\ UNCHANGED <<mainVars, sharedVars, poolVars, conn, outlook>>

\* An exception: no answer, no authorisation, no job, or the connection is lost.
SessionFails ==
  /\ pc = "io"
  /\ conn \notin outlook.reliable
  /\ ReselectPoolInfo
  /\ pc' = "config"
  /\ conn' = NoConn
  /\ UNCHANGED <<mainVars, sharedVars, poolConfig, info, outlook>>

\* Ten seconds go by.  Nothing but checkDefaultPoolInfo looks at the timer.
Elapse ==
  /\ pc = "default" /\ current # 0
  /\ checkTimer = "running"
  /\ checkTimer' = "elapsed"
  /\ UNCHANGED <<mainVars, sharedVars, pc, poolConfig, info,
                 retryCount, current, conn, failures, outlook>>

\* The pools do no longer change their ways.
Settle ==
  /\ outlook = Unsettled
  /\ outlook' \in Outlooks
  /\ UNCHANGED <<mainVars, sharedVars, pc, poolVars, conn, failures>>

-----------------------------------------------------------------------------

\* What m_newPoolConfig holds at first is never read.
Init ==
  /\ main = "idle"
  /\ webConfig \in Config
  /\ appConfig = webConfig /\ edits = 0
  /\ newConfig = webConfig /\ configChanged = FALSE /\ cancelled = FALSE
  /\ pc = "config"
  /\ poolConfig = webConfig
  /\ info = InfoOf(poolConfig)
  /\ retryCount = [p \in Pools |-> 0]
  /\ current = 0
  /\ checkTimer = "running"
  /\ conn = NoConn
  /\ failures = 0
  /\ outlook = Unsettled

MainThread == WriteConfig \/ SetConfigChanged \/ RestartStops \/ RestartJoined \/ RestartStarts

NetThread ==
  \/ NetThreadEnds \/ CheckNewConfig \/ TakeConfig \/ ConfigTaken
  \/ DefaultNotChecked \/ DefaultIsDown \/ BackToDefault
  \/ ConnectSucceeds \/ ConnectFails \/ SessionGoesOn \/ SessionFails

Next == Edit \/ OnConfigChange \/ MainThread \/ NetThread \/ Elapse \/ Settle

Spec == Init /\ [][Next]_vars

\* Both threads run, the main thread comes back to onConfigChange, a cancelled thread
\* reaches its loop condition, and time goes on: a timer that is looked at again and
\* again does not run for ever.
FairSpec ==
  /\ Spec
  /\ WF_vars(OnConfigChange) /\ WF_vars(MainThread)
  /\ WF_vars(NetThread) /\ WF_vars(NetThreadEnds)
  /\ SF_vars(Elapse) /\ WF_vars(Settle)

-----------------------------------------------------------------------------
(* Properties. *)

TypeOK ==
  /\ main \in MainPlaces /\ pc \in NetPlaces
  /\ {webConfig, appConfig, newConfig, poolConfig} \subseteq Config
  /\ edits \in 0 .. MaxEdits
  /\ configChanged \in BOOLEAN /\ cancelled \in BOOLEAN
  /\ info \in [address : Addresses, enabled : {{0} \cup B : B \in SUBSET Backups}]
  /\ retryCount \in [Pools -> Nat]
  /\ current \in Pools
  /\ checkTimer \in {"running", "elapsed"}
  /\ conn \in Endpoints \cup {NoConn}
  /\ failures \in Nat /\ outlook \in Outlook

\* The chosen pool is one the configuration names, and no retry of an earlier time
\* on a pool counts when it is chosen again: over reselections, returns to the
\* default pool and configurations that drop the current pool and bring it back
\* (reselectPoolInfo, checkDefaultPoolInfo, poolConfigToPoolInfoArray).
ChoiceIsFresh ==
  /\ current \in info.enabled
  /\ \A p \in info.enabled : retryCount[p] <= (IF p = current THEN RetryNTimes ELSE 0)

\* Unless a configuration is on its way, the network thread works with the whole of
\* the configuration in force, and is connected to a pool that it names
\* (reconfigure, checkNewConfig, restart).
ConfigIsInForce ==
  main = "idle" /\ ~configChanged /\ pc \notin {"taking", "taken"} =>
    /\ poolConfig = appConfig /\ info = InfoOf(appConfig)
    /\ conn # NoConn => conn \in {Endpoint(p) : p \in info.enabled}

\* A pool is given up for another one only after RetryNTimes + 1 sessions in a row
\* failed on it (reselectPoolInfo).
NotGivenUpEarly ==
  [][current' # current /\ pc' = "config" /\ pc # "default" => failures >= RetryNTimes]_vars

\* Once the default pool is reliable, or a backup is and the other pools refuse every
\* connection, a reliable pool is found and kept if the configuration names one,
\* whatever pool and count the search begins with (netHandler).
ServiceIsFound ==
  <>[]((\E p \in info.enabled : Endpoint(p) \in outlook.reliable)
         => conn \in outlook.reliable)
=============================================================================
