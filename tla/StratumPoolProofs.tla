-------------------------- MODULE StratumPoolProofs --------------------------
(***************************************************************************)
(* Proofs about StratumPool, for every value of its constants.             *)
(***************************************************************************)
EXTENDS StratumPool, FiniteSetTheorems, SequenceTheorems, TLAPS

-----------------------------------------------------------------------------
(* Lemmas about the helpers. *)

\* A clean-up of the request records only removes records.
LEMMA CleanupRemoves ==
  ASSUME NEW rs, NEW qs \in CleanupOldRecords(rs)
  PROVE  qs \subseteq rs
BY DEF CleanupOldRecords

\* A request manager step keeps the records well-formed.
LEMMA ShareSentType ==
  ASSUME records \in SUBSET [id : Nat, share : Share],
         NEW id \in Nat, NEW share \in Share, ShareSent(id, share)
  PROVE  records' \in SUBSET [id : Nat, share : Share]
BY CleanupRemoves DEF ShareSent

LEMMA RemoveRecordType ==
  ASSUME records \in SUBSET [id : Nat, share : Share],
         NEW id, NEW rejected \in BOOLEAN, RemoveRecord(id, rejected)
  PROVE  records' \in SUBSET [id : Nat, share : Share]
<1>1. PICK rs \in IF rejected THEN CleanupOldRecords(records) ELSE {records} :
        records' \in CleanupOldRecords({r \in rs : r.id # id})
  BY DEF RemoveRecord
<1>2. rs \subseteq records
  BY <1>1, CleanupRemoves
<1>3. records' \subseteq {r \in rs : r.id # id}
  BY <1>1, CleanupRemoves
<1> QED
  BY <1>2, <1>3

\* A full share queue stays within its capacity and drops its oldest share.
LEMMA EnqueueType ==
  ASSUME NEW S, NEW queue \in Seq(S), NEW x \in S, NEW capacity \in Nat \ {0},
         Len(queue) <= capacity
  PROVE  /\ Enqueue(queue, x, capacity) \in Seq(S)
         /\ Len(Enqueue(queue, x, capacity)) <= capacity
BY DEF Enqueue

\* Setting a timer keeps the timers well-formed.
LEMMA TimerType ==
  ASSUME NEW tm \in [Timers -> TimerValues], NEW t \in Timers
  PROVE  /\ StartTimer(tm, t) \in [Timers -> TimerValues]
         /\ StopTimer(tm, t) \in [Timers -> TimerValues]
BY DEF StartTimer, StopTimer, TimerValues

\* The end of a session keeps the session variables well-formed.
LEMMA SessionEndsType ==
  ASSUME NEW st, NEW tm \in [Timers -> TimerValues], NEW e, SessionEnds(st, tm, e)
  PROVE  /\ pc' \in {"session", "exited"}
         /\ protocolState' = "OFFLINE"
         /\ timers' \in [Timers -> TimerValues]
         /\ inputBuffer' = "empty"
         /\ pending' = {}
         /\ conn' = NoConn
BY TimerType DEF SessionEnds, Timers

LEMMA EndedSessionType ==
  ASSUME TypeOK, NEW e, SessionEnds(protocolState, timers, e)
  PROVE  /\ pc' \in {"session", "exited"}
         /\ protocolState' \in States
         /\ timers' \in [Timers -> TimerValues]
         /\ inputBuffer' \in {"empty", "partial", "stale"}
         /\ pending' \in SUBSET Request
         /\ conn' \in [extraNonce : ExtraNonces \cup {NoExtraNonce}, authorized : BOOLEAN]
<1>1. timers \in [Timers -> TimerValues]
  BY DEF TypeOK
<1>2. /\ pc' \in {"session", "exited"}
      /\ protocolState' = "OFFLINE"
      /\ timers' \in [Timers -> TimerValues]
      /\ inputBuffer' = "empty"
      /\ pending' = {}
      /\ conn' = NoConn
  BY <1>1, SessionEndsType
<1>3. NoConn \in [extraNonce : ExtraNonces \cup {NoExtraNonce}, authorized : BOOLEAN]
  BY DEF NoConn
<1> QED
  BY <1>2, <1>3 DEF States

\* Empty queues are well-formed.
LEMMA EmptyQueues ==
  /\ <<>> \in Seq(Job) /\ <<>> \in Seq(Share)
  /\ Len(<<>>) <= MaxShares
BY ConstantsAssumption

\* A handshake request keeps the session variables well-formed.
LEMMA SendHandshakeType ==
  ASSUME TypeOK, NEW kind \in {"subscribe", "authorize"}, NEW st \in States,
         NEW tm \in [Timers -> TimerValues], NEW answered,
         NEW c \in [extraNonce : ExtraNonces \cup {NoExtraNonce}, authorized : BOOLEAN],
         SendHandshake(kind, st, tm, c, answered)
  PROVE  /\ pc' \in {"session", "exited", "send", "input"}
         /\ protocolState' \in States
         /\ timers' \in [Timers -> TimerValues]
         /\ inputBuffer' \in {"empty", "partial", "stale"}
         /\ pending' \in SUBSET Request
         /\ conn' \in [extraNonce : ExtraNonces \cup {NoExtraNonce}, authorized : BOOLEAN]
         /\ lastRequestId' \in Nat
<1>1. lastRequestId' \in Nat
  BY DEF SendHandshake, NextRequestId, TypeOK
<1>2. CASE SessionEnds(st, tm, TRUE)
  <2>1. /\ pc' \in {"session", "exited"}
        /\ protocolState' = "OFFLINE"
        /\ timers' \in [Timers -> TimerValues]
        /\ inputBuffer' = "empty"
        /\ pending' = {}
        /\ conn' = NoConn
    BY <1>2, SessionEndsType
  <2> QED
    BY <1>1, <2>1 DEF NoConn, States
<1>3. CASE ~SessionEnds(st, tm, TRUE)
  <2>1. /\ pc' = IF pc = "resend" THEN "send" ELSE "input"
        /\ protocolState' = st
        /\ timers' = StartTimer(tm, "state")
        /\ inputBuffer' = IF pc = "input" THEN "empty" ELSE inputBuffer
        /\ conn' = c
        /\ pending' = (pending \ answered) \cup
                        {[id |-> NextRequestId, kind |-> kind, share |-> NoShare]}
    BY <1>3 DEF SendHandshake
  <2>2. [id |-> NextRequestId, kind |-> kind, share |-> NoShare] \in Request
    BY DEF Request, NextRequestId, TypeOK
  <2> QED
    BY <1>1, <2>1, <2>2, TimerType DEF TypeOK, Timers
<1> QED
  BY <1>2, <1>3

-----------------------------------------------------------------------------
(* Type correctness: TypeOK is inductive. *)

LEMMA InitType == Init => TypeOK
<1> SUFFICES ASSUME Init PROVE TypeOK
  OBVIOUS
<1>1. timers \in [Timers -> TimerValues]
  BY DEF Init, TimerValues
<1>2. /\ jobs \in Seq(Job) /\ shares \in Seq(Share)
      /\ Len(shares) <= MaxShares
  BY ConstantsAssumption DEF Init
<1>3. jobIdCounter \in Nat /\ jobIdCounter >= FirstJobIdCounter
  BY ConstantsAssumption DEF Init
<1>4. conn \in [extraNonce : ExtraNonces \cup {NoExtraNonce}, authorized : BOOLEAN]
  BY DEF Init, NoConn
<1>5. /\ records \in SUBSET [id : Nat, share : Share] /\ pending \in SUBSET Request
      /\ handedOut \in SUBSET Job /\ oldJobs \in SUBSET Job
  BY DEF Init
<1> QED
  BY <1>1, <1>2, <1>3, <1>4, <1>5 DEF Init, TypeOK, States, InLoop

\* What a handler of a response does to the session variables.
LEMMA LineUsedType ==
  ASSUME TypeOK, NEW r \in pending, NEW reply \in Replies(r.kind), LineUsed(r, reply)
  PROVE  /\ pc' = "input"
         /\ inputBuffer' = "empty"
         /\ pending' \in SUBSET Request
         /\ conn' \in [extraNonce : ExtraNonces \cup {NoExtraNonce}, authorized : BOOLEAN]
BY DEF TypeOK, LineUsed, ConnAfter, Replies

LEMMA ConnAfterType ==
  ASSUME TypeOK, NEW r \in pending, NEW reply \in Replies(r.kind)
  PROVE  ConnAfter(r, reply)
           \in [extraNonce : ExtraNonces \cup {NoExtraNonce}, authorized : BOOLEAN]
BY DEF TypeOK, ConnAfter, Replies

LEMMA ProcessBootstrapType ==
  ASSUME NEW tm \in [Timers -> TimerValues], NEW js, NEW received,
         ProcessBootstrap(js, received, tm)
  PROVE  /\ protocolState' \in {"BOOTSTRAP", "IN_SERVICE"}
         /\ timers' \in [Timers -> TimerValues]
BY TimerType DEF ProcessBootstrap, Timers

LEMMA NewJobType ==
  ASSUME TypeOK, difficulty \in Difficulties
  PROVE  /\ NextJobId \in Nat
         /\ NextJobId > FirstJobIdCounter
         /\ [id |-> NextJobId, work |-> nextWork, extraNonce |-> extraNonce,
             difficulty |-> difficulty] \in Job
BY ConstantsAssumption DEF TypeOK, NextJobId, Job, JobIds

LEMMA OnResponseType ==
  ASSUME TypeOK, OnResponse
  PROVE  TypeOK'
<1> DEFINE Conns == [extraNonce : ExtraNonces \cup {NoExtraNonce}, authorized : BOOLEAN]
<1> DEFINE Dispatch(r, reply) ==
      /\ initialisings' = initialisings + (IF reply.text = "Initialising" THEN 1 ELSE 0)
      /\ IF r.id = authorizeRequestId THEN OnResponseToAuthorize(r, reply)
         ELSE IF r.id = subscribeRequestId THEN OnResponseToSubscribe(r, reply)
         ELSE OnResponseToSubmit(r, reply)
<1>0. PICK r \in pending : \E reply \in Replies(r.kind) : Dispatch(r, reply)
  BY DEF OnResponse
<1>1. PICK reply \in Replies(r.kind) : Dispatch(r, reply)
  BY <1>0
<1>2. /\ pc = "input"
      /\ UNCHANGED <<connectionAttempts, slaveVars>>
  BY DEF OnResponse
<1>3. initialisings' \in Nat
  BY <1>1 DEF TypeOK
<1>4. difficulty \in Difficulties
  BY <1>2 DEF TypeOK, InLoop
<1> USE DEF TypeOK, requestVars, jobDataVars, slaveVars
<1>5. CASE OnResponseToAuthorize(r, reply)
  <2>1. /\ UNCHANGED <<requestVars, jobs, shares, jobDataVars, successiveRejects, records>>
        /\ \/ LineUsed(r, reply) /\ UNCHANGED <<protocolState, timers>>
           \/ /\ LineUsed(r, reply)
              /\ ProcessBootstrap(jobs, difficultyReceived, StartTimer(timers, "state"))
           \/ SessionEnds(protocolState, timers, TRUE)
    BY <1>5 DEF OnResponseToAuthorize
  <2>2. CASE LineUsed(r, reply) /\ UNCHANGED <<protocolState, timers>>
    BY <1>2, <1>3, <1>4, <2>1, <2>2, LineUsedType
  <2>3. CASE /\ LineUsed(r, reply)
             /\ ProcessBootstrap(jobs, difficultyReceived, StartTimer(timers, "state"))
    <3>1. StartTimer(timers, "state") \in [Timers -> TimerValues]
      BY TimerType DEF Timers
    <3> QED
      BY <1>2, <1>3, <1>4, <2>1, <2>3, <3>1, LineUsedType, ProcessBootstrapType DEF States
  <2>4. CASE SessionEnds(protocolState, timers, TRUE)
    BY <1>2, <1>3, <1>4, <2>1, <2>4, EndedSessionType
  <2> QED
    BY <2>1, <2>2, <2>3, <2>4
<1>6. CASE OnResponseToSubscribe(r, reply)
  <2>1. UNCHANGED <<jobIdCounter, difficulty, difficultyReceived, successiveRejects, records>>
    BY <1>6 DEF OnResponseToSubscribe
  <2>2. CASE protocolState # "SUBSCRIPTION"
    <3>1. /\ LineUsed(r, reply)
          /\ UNCHANGED <<protocolState, timers, requestVars, jobs, shares, extraNonce>>
      BY <1>6, <2>2 DEF OnResponseToSubscribe
    <3> QED
      BY <1>2, <1>3, <1>4, <2>1, <3>1, LineUsedType
  <2>3. CASE protocolState = "SUBSCRIPTION" /\ reply.text = "Initialising"
    <3>1. /\ LineUsed(r, reply)
          /\ timers' = StartTimer(timers, "resend")
          /\ UNCHANGED <<protocolState, requestVars, jobs, shares, extraNonce>>
      BY <1>6, <2>3 DEF OnResponseToSubscribe
    <3> QED
      BY <1>2, <1>3, <1>4, <2>1, <3>1, LineUsedType, TimerType DEF Timers
  <2>4. CASE protocolState = "SUBSCRIPTION" /\ reply.text = "subscribed"
    <3>1. /\ OnNewExtranonce(reply.extraNonce)
          /\ AuthorizeWorker(ConnAfter(r, reply), {r})
      BY <1>6, <2>4 DEF OnResponseToSubscribe
    <3>2. reply.extraNonce \in ExtraNonces \cup {NoExtraNonce}
      BY DEF Replies
    <3>3. /\ extraNonce' \in ExtraNonces \cup {NoExtraNonce}
          /\ jobs' = <<>> /\ shares' = <<>>
      BY <3>1, <3>2 DEF OnNewExtranonce, ClearQueues
    <3>4. /\ authorizeRequestId' = NextRequestId
          /\ UNCHANGED subscribeRequestId
          /\ SendHandshake("authorize", "AUTHORIZATION", timers, ConnAfter(r, reply), {r})
      BY <3>1 DEF AuthorizeWorker
    <3>5. /\ pc' \in {"session", "exited", "send", "input"}
          /\ protocolState' \in States
          /\ timers' \in [Timers -> TimerValues]
          /\ inputBuffer' \in {"empty", "partial", "stale"}
          /\ pending' \in SUBSET Request
          /\ conn' \in Conns
          /\ lastRequestId' \in Nat
      <4>1. "AUTHORIZATION" \in States
        BY DEF States
      <4> QED
        BY <3>4, <4>1, ConnAfterType, SendHandshakeType
    <3>6. authorizeRequestId' \in Nat /\ subscribeRequestId' \in Nat
      BY <3>4 DEF NextRequestId
    <3> QED
      BY ConstantsAssumption, <1>2, <1>3, <1>4, <2>1, <3>3, <3>5, <3>6, EmptyQueues
  <2>5. CASE protocolState = "SUBSCRIPTION" /\ reply.text \notin {"Initialising", "subscribed"}
    <3>1. /\ SessionEnds(protocolState, timers, TRUE)
          /\ UNCHANGED <<requestVars, jobs, shares, extraNonce>>
      BY <1>6, <2>5 DEF OnResponseToSubscribe
    <3> QED
      BY <1>2, <1>3, <1>4, <2>1, <3>1, EndedSessionType
  <2> QED
    BY <2>2, <2>3, <2>4, <2>5
<1>7. CASE OnResponseToSubmit(r, reply)
  <2> DEFINE accepted == reply.text \notin {"false", "error"}
             tooMany  == ~accepted /\ successiveRejects + 1 > MaxSuccessiveRejects
  <2>1. /\ LineUsed(r, reply)
        /\ timers' = IF accepted THEN StartTimer(timers, "nonacceptance") ELSE timers
        /\ successiveRejects' = IF accepted \/ tooMany THEN 0 ELSE successiveRejects + 1
        /\ IF tooMany THEN ClearQueues ELSE UNCHANGED <<jobs, shares>>
        /\ RemoveRecord(r.id, ~accepted)
        /\ UNCHANGED <<protocolState, requestVars, jobDataVars>>
    BY <1>7 DEF OnResponseToSubmit
  <2>2. records' \in SUBSET [id : Nat, share : Share]
    BY <2>1, RemoveRecordType
  <2>3. timers' \in [Timers -> TimerValues]
    BY <2>1, TimerType DEF Timers
  <2>4. successiveRejects' \in Nat
    BY <2>1
  <2>5. jobs' \in Seq(Job) /\ shares' \in Seq(Share) /\ Len(shares') <= MaxShares
    BY <2>1, EmptyQueues DEF ClearQueues
  <2> HIDE DEF accepted, tooMany
  <2> QED
    BY <1>2, <1>3, <1>4, <2>1, <2>2, <2>3, <2>4, <2>5, LineUsedType
<1> QED
  BY <1>1, <1>5, <1>6, <1>7

LEMMA StartThreadType == TypeOK /\ StartThread => TypeOK'
BY TimerType DEF StartThread, TypeOK, Timers, States, InLoop,
                 requestVars, jobDataVars, slaveVars

LEMMA StopThreadType == TypeOK /\ StopThread => TypeOK'
<1> SUFFICES ASSUME TypeOK, StopThread PROVE TypeOK'
  OBVIOUS
<1>1. /\ pc' = "stopped"
      /\ protocolState' \in States
      /\ timers' \in [Timers -> TimerValues]
      /\ inputBuffer' \in {"empty", "partial", "stale"}
  BY TimerType DEF StopThread, TypeOK, Timers, States
<1>2. pending' = {} /\ conn' = NoConn
  BY DEF StopThread
<1>3. conn' \in [extraNonce : ExtraNonces \cup {NoExtraNonce}, authorized : BOOLEAN]
  BY <1>2 DEF NoConn
<1>4. UNCHANGED <<requestVars, jobs, shares, jobDataVars, connectionAttempts,
                  successiveRejects, records, initialisings, slaveVars>>
  BY DEF StopThread
<1> QED
  BY <1>1, <1>2, <1>3, <1>4 DEF TypeOK, InLoop, requestVars, jobDataVars, slaveVars

LEMMA BeginSessionType == TypeOK /\ BeginSession => TypeOK'
<1> SUFFICES ASSUME TypeOK, BeginSession PROVE TypeOK'
  OBVIOUS
<1>1. timers' \in [Timers -> TimerValues]
  BY TimerType DEF BeginSession, TypeOK, Timers
<1>2. /\ jobs' \in Seq(Job) /\ shares' \in Seq(Share)
      /\ Len(shares') <= MaxShares
  BY EmptyQueues DEF BeginSession, ClearQueues
<1>3. difficulty' \in Nat /\ difficulty' \in Difficulties
  BY ConstantsAssumption DEF BeginSession, Difficulties
<1>4. /\ protocolState' \in States
      /\ inputBuffer' \in {"empty", "partial", "stale"}
  BY DEF BeginSession, States
<1>5. /\ pc' = "connecting"
      /\ lastRequestId' = 0 /\ subscribeRequestId' = 0 /\ authorizeRequestId' = 0
      /\ difficultyReceived' = FALSE /\ initialisings' = 0
      /\ connectionAttempts' = connectionAttempts + 1 /\ successiveRejects' = 0
      /\ UNCHANGED <<pending, conn, jobIdCounter, extraNonce, records, slaveVars>>
  BY DEF BeginSession
<1>6. /\ pc' = "connecting"
      /\ lastRequestId' \in Nat /\ subscribeRequestId' \in Nat /\ authorizeRequestId' \in Nat
      /\ difficultyReceived' \in BOOLEAN /\ ~difficultyReceived' /\ initialisings' \in Nat
      /\ connectionAttempts' \in Nat /\ successiveRejects' \in Nat
  <2>1. connectionAttempts \in Nat
    BY DEF TypeOK
  <2>2. connectionAttempts' \in Nat
    BY <2>1 DEF BeginSession
  <2>3. difficultyReceived' \in BOOLEAN
    BY DEF BeginSession
  <2>4. lastRequestId' \in Nat
    BY DEF BeginSession
  <2>5. successiveRejects' \in Nat
    BY DEF BeginSession
  <2>6. pc' = "connecting"
    BY DEF BeginSession
  <2> QED
    BY <1>5, <2>2, <2>3, <2>4, <2>5, <2>6
<1>7. /\ jobIdCounter' \in Nat /\ jobIdCounter' >= FirstJobIdCounter
      /\ extraNonce' \in ExtraNonces \cup {NoExtraNonce}
      /\ records' \in SUBSET [id : Nat, share : Share]
      /\ pending' \in SUBSET Request
      /\ conn' \in [extraNonce : ExtraNonces \cup {NoExtraNonce}, authorized : BOOLEAN]
  BY <1>5 DEF TypeOK
<1>8. /\ handedOut' \in SUBSET Job /\ oldJobs' \in SUBSET Job
      /\ nextWork' \in Nat /\ restarts' \in Nat
  BY <1>5 DEF TypeOK, slaveVars
<1> QED
  BY <1>1, <1>2, <1>3, <1>4, <1>6, <1>7, <1>8 DEF TypeOK

LEMMA SubscribeType ==
  ASSUME TypeOK, difficulty \in Difficulties, NEW tm \in [Timers -> TimerValues], SubscribeToPool(tm),
         connectionAttempts' \in Nat,
         UNCHANGED <<jobs, shares, jobDataVars, successiveRejects, records,
                     initialisings, slaveVars>>
  PROVE  TypeOK'
<1>1. /\ pc' \in {"session", "exited", "send", "input"}
      /\ protocolState' \in States
      /\ timers' \in [Timers -> TimerValues]
      /\ inputBuffer' \in {"empty", "partial", "stale"}
      /\ pending' \in SUBSET Request
      /\ conn' \in [extraNonce : ExtraNonces \cup {NoExtraNonce}, authorized : BOOLEAN]
      /\ lastRequestId' \in Nat
  <2>1. "SUBSCRIPTION" \in States
    BY DEF States
  <2>2. conn \in [extraNonce : ExtraNonces \cup {NoExtraNonce}, authorized : BOOLEAN]
    BY DEF TypeOK
  <2>3. SendHandshake("subscribe", "SUBSCRIPTION", tm, conn, {})
    BY DEF SubscribeToPool
  <2> QED
    BY <2>1, <2>2, <2>3, SendHandshakeType
<1>2. subscribeRequestId' \in Nat /\ authorizeRequestId' \in Nat
  BY DEF SubscribeToPool, NextRequestId, TypeOK
<1> QED
  BY <1>1, <1>2 DEF TypeOK, jobDataVars, slaveVars

LEMMA ConnectSucceedsType == TypeOK /\ ConnectSucceeds => TypeOK'
<1> SUFFICES ASSUME TypeOK, ConnectSucceeds PROVE TypeOK'
  OBVIOUS
<1>1. timers \in [Timers -> TimerValues] /\ difficulty \in Difficulties
  BY DEF TypeOK, ConnectSucceeds
<1>2. /\ SubscribeToPool(timers) /\ connectionAttempts' \in Nat
      /\ UNCHANGED <<jobs, shares, jobDataVars, successiveRejects, records,
                     initialisings, slaveVars>>
  BY DEF ConnectSucceeds
<1> QED
  BY <1>1, <1>2, SubscribeType

LEMMA ResendSubscribeType == TypeOK /\ ResendSubscribe => TypeOK'
<1> SUFFICES ASSUME TypeOK, ResendSubscribe PROVE TypeOK'
  OBVIOUS
<1>1. StopTimer(timers, "resend") \in [Timers -> TimerValues] /\ difficulty \in Difficulties
  BY TimerType DEF TypeOK, ResendSubscribe, InLoop, Timers
<1>2. /\ SubscribeToPool(StopTimer(timers, "resend")) 
      /\ UNCHANGED connectionAttempts
      /\ UNCHANGED <<jobs, shares, jobDataVars, successiveRejects, records,
                     initialisings, slaveVars>>
  BY DEF ResendSubscribe
<1>3. connectionAttempts' \in Nat
  BY <1>2 DEF TypeOK
<1> QED
  BY <1>1, <1>2, <1>3, SubscribeType

LEMMA ConnectFailsType == TypeOK /\ ConnectFails => TypeOK'
<1> SUFFICES ASSUME TypeOK, ConnectFails PROVE TypeOK'
  OBVIOUS
<1>1. UNCHANGED <<requestVars, jobs, shares, jobDataVars, connectionAttempts,
                  successiveRejects, records, initialisings, slaveVars>>
  BY DEF ConnectFails
<1>2. CASE /\ pc' = "exited"
           /\ UNCHANGED <<protocolState, timers, inputBuffer, pending, conn>>
  BY <1>1, <1>2 DEF TypeOK, InLoop, requestVars, jobDataVars, slaveVars
<1>3. CASE SessionEnds("CONNECTING", timers, TRUE)
  <2>1. timers \in [Timers -> TimerValues]
    BY DEF TypeOK
  <2>2. /\ pc' \in {"session", "exited"} /\ protocolState' = "OFFLINE"
        /\ timers' \in [Timers -> TimerValues]
        /\ inputBuffer' = "empty" /\ pending' = {} /\ conn' = NoConn
    BY <1>3, <2>1, SessionEndsType
  <2>3. conn' \in [extraNonce : ExtraNonces \cup {NoExtraNonce}, authorized : BOOLEAN]
    BY <2>2 DEF NoConn
  <2> QED
    BY <1>1, <2>2, <2>3 DEF TypeOK, InLoop, States, requestVars, jobDataVars, slaveVars
<1> QED
  BY <1>2, <1>3 DEF ConnectFails


LEMMA OnMiningSetExtranonceType == TypeOK /\ OnMiningSetExtranonce => TypeOK'
<1> SUFFICES ASSUME TypeOK, OnMiningSetExtranonce PROVE TypeOK'
  OBVIOUS
<1>1. PICK e \in ExtraNonces :
        /\ OnNewExtranonce(e)
        /\ conn' = [conn EXCEPT !.extraNonce = e]
  BY DEF OnMiningSetExtranonce
<1>2. /\ jobs' \in Seq(Job) /\ shares' \in Seq(Share)
      /\ Len(shares') <= MaxShares
  BY <1>1, EmptyQueues DEF OnNewExtranonce, ClearQueues
<1>3. /\ extraNonce' \in ExtraNonces
      /\ conn' \in [extraNonce : ExtraNonces \cup {NoExtraNonce}, authorized : BOOLEAN]
  BY <1>1 DEF OnNewExtranonce, TypeOK
<1>4. /\ inputBuffer' = "empty"
      /\ UNCHANGED <<pc, pending, requestVars, connectionAttempts, successiveRejects,
                     records, initialisings, handedOut, oldJobs, restarts>>
      /\ UNCHANGED <<protocolState, timers, jobIdCounter, difficulty, difficultyReceived,
                     nextWork>>
  BY DEF OnMiningSetExtranonce, OnNotifyFromPool
<1> QED
  BY <1>2, <1>3, <1>4 DEF TypeOK, InLoop, requestVars

LEMMA OnSetDifficultyType == TypeOK /\ OnSetDifficulty => TypeOK'
<1> SUFFICES ASSUME TypeOK, OnSetDifficulty PROVE TypeOK'
  OBVIOUS
<1>1. /\ inputBuffer' = "empty"
      /\ UNCHANGED <<pc, pending, requestVars, connectionAttempts, successiveRejects,
                     records, initialisings, handedOut, oldJobs, restarts>>
      /\ UNCHANGED <<conn, jobs, shares, jobIdCounter, extraNonce, nextWork>>
  BY DEF OnSetDifficulty, OnNotifyFromPool
<1>2. /\ protocolState' \in States
      /\ timers' \in [Timers -> TimerValues]
      /\ difficulty' \in Nat /\ (difficulty \in Difficulties => difficulty' \in Difficulties)
      /\ difficultyReceived' \in BOOLEAN /\ (difficultyReceived' => difficulty' > 0)
  <2>0. timers \in [Timers -> TimerValues] /\ protocolState \in States
        /\ difficulty \in Nat /\ difficultyReceived \in BOOLEAN
    BY DEF TypeOK
  <2>1. PICK d \in PoolDifficulties :
          IF ValidDifficulty(d)
          THEN /\ difficulty' = d
               /\ difficultyReceived' = TRUE
               /\ IF protocolState = "BOOTSTRAP"
                  THEN ProcessBootstrap(jobs, TRUE, timers)
                  ELSE UNCHANGED <<protocolState, timers>>
          ELSE UNCHANGED <<protocolState, timers, difficulty, difficultyReceived>>
    BY DEF OnSetDifficulty
  <2>2. d \in Nat
    BY ConstantsAssumption
  <2>3. CASE ValidDifficulty(d)
    <3>1. d > 0 /\ d \in Difficulties
      BY <2>2, <2>3 DEF ValidDifficulty, Difficulties
    <3>2. difficulty' = d /\ difficultyReceived' = TRUE
      BY <2>1, <2>3
    <3>3. protocolState' \in States /\ timers' \in [Timers -> TimerValues]
      BY <2>0, <2>1, <2>3, ProcessBootstrapType DEF States
    <3> QED
      BY <2>2, <3>1, <3>2, <3>3
  <2>4. CASE ~ValidDifficulty(d)
    BY <2>0, <2>1, <2>4 DEF TypeOK
  <2> QED
    BY <2>3, <2>4
<1> QED
  BY <1>1, <1>2 DEF TypeOK, InLoop, requestVars

LEMMA OnNewMiningJobType == TypeOK /\ OnNewMiningJob => TypeOK'
<1> SUFFICES ASSUME TypeOK, OnNewMiningJob PROVE TypeOK'
  OBVIOUS
<1>1. /\ inputBuffer' = "empty"
      /\ UNCHANGED <<pc, pending, requestVars, connectionAttempts, successiveRejects,
                     records, initialisings, handedOut, oldJobs, restarts>>
      /\ UNCHANGED <<conn, extraNonce, difficulty, difficultyReceived>>
      /\ nextWork' = nextWork + 1
  BY DEF OnNewMiningJob, OnNotifyFromPool
<1>2. difficulty \in Difficulties
  BY DEF OnNewMiningJob, OnNotifyFromPool, TypeOK, InLoop
<1>3. /\ jobs' \in Seq(Job) /\ shares' \in Seq(Share)
      /\ Len(shares') <= MaxShares
  <2>1. jobs' = <<[id |-> NextJobId, work |-> nextWork, extraNonce |-> extraNonce,
                   difficulty |-> difficulty]>> /\ shares' = <<>>
    BY DEF OnNewMiningJob, QueueJob
  <2> QED
    BY <1>2, <2>1, EmptyQueues, NewJobType
<1>4. jobIdCounter' \in Nat /\ jobIdCounter' >= FirstJobIdCounter
  BY <1>2, NewJobType, ConstantsAssumption DEF OnNewMiningJob, QueueJob
<1>5. /\ protocolState' \in States
      /\ timers' \in [Timers -> TimerValues]
  <2>0. timers \in [Timers -> TimerValues] /\ protocolState \in States
    BY DEF TypeOK
  <2>1. CASE protocolState = "BOOTSTRAP"
    BY <2>0, <2>1, ProcessBootstrapType DEF OnNewMiningJob, States
  <2>2. CASE protocolState # "BOOTSTRAP"
    BY <2>0, <2>2, TimerType DEF OnNewMiningJob, Timers
  <2> QED
    BY <2>1, <2>2
<1> QED
  BY <1>1, <1>3, <1>4, <1>5 DEF TypeOK, InLoop, requestVars

LEMMA InputThrowsType == TypeOK /\ InputThrows => TypeOK'
<1> SUFFICES ASSUME TypeOK, InputThrows PROVE TypeOK'
  OBVIOUS
<1>1. UNCHANGED <<requestVars, jobs, shares, jobIdCounter, difficulty, difficultyReceived,
                 connectionAttempts, successiveRejects, records, initialisings, slaveVars>>
  BY DEF InputThrows
<1>2. extraNonce' \in ExtraNonces \cup {NoExtraNonce}
  BY DEF InputThrows, TypeOK
<1>3. SessionEnds(protocolState, timers, TRUE)
  BY DEF InputThrows
<1> QED
  BY <1>1, <1>2, <1>3, EndedSessionType DEF TypeOK, InLoop, requestVars, slaveVars

LEMMA OnGarbledLineType == TypeOK /\ OnGarbledLine => TypeOK'
BY DEF OnGarbledLine, TypeOK, InLoop, requestVars, jobDataVars, slaveVars

LEMMA InputDoneType == TypeOK /\ InputDone => TypeOK'
BY DEF InputDone, TypeOK, InLoop, requestVars, jobDataVars, slaveVars

LEMMA NoResendType == TypeOK /\ NoResend => TypeOK'
BY DEF NoResend, TypeOK, InLoop, requestVars, jobDataVars, slaveVars

LEMMA SendShareType == TypeOK /\ SendShare => TypeOK'
<1> SUFFICES ASSUME TypeOK, SendShare PROVE TypeOK'
  OBVIOUS
<1> DEFINE share == Head(shares)
<1>1. UNCHANGED <<subscribeRequestId, authorizeRequestId, jobs, jobDataVars,
                 connectionAttempts, successiveRejects, initialisings, slaveVars>>
  BY DEF SendShare
<1>2. /\ share \in Share /\ shares' \in Seq(Share) /\ Len(shares') <= MaxShares
  BY ConstantsAssumption DEF SendShare, TypeOK
<1>3. CASE Submittable(share)
  <2>1. lastRequestId' = NextRequestId /\ ShareSent(NextRequestId, share)
    BY <1>3 DEF SendShare
  <2>2. NextRequestId \in Nat
    BY DEF NextRequestId, TypeOK
  <2>3. records' \in SUBSET [id : Nat, share : Share]
    <3>1. records \in SUBSET [id : Nat, share : Share]
      BY DEF TypeOK
    <3> HIDE DEF share
    <3> QED
      BY <1>2, <2>1, <2>2, <3>1, ShareSentType
  <2>4. CASE SessionEnds("IN_SERVICE", timers, TRUE)
    <3>1. SessionEnds(protocolState, timers, TRUE)
      BY <2>4 DEF SendShare
    <3> QED
      BY <1>1, <1>2, <2>1, <2>2, <2>3, <3>1, EndedSessionType
         DEF TypeOK, InLoop, jobDataVars, slaveVars
  <2>5. CASE /\ pending' = pending \cup
                   {[id |-> NextRequestId, kind |-> "submit", share |-> share]}
             /\ UNCHANGED <<pc, protocolState, timers, inputBuffer, conn>>
    <3>1. [id |-> NextRequestId, kind |-> "submit", share |-> share] \in Request
      BY <1>2, <2>2 DEF Request
    <3>2. pending' \in SUBSET Request
      BY <2>5, <3>1 DEF TypeOK
    <3> QED
      BY <1>1, <1>2, <2>1, <2>2, <2>3, <2>5, <3>2 DEF TypeOK, InLoop, jobDataVars, slaveVars
  <2> QED
    BY <1>3, <2>4, <2>5 DEF SendShare
<1>4. CASE ~Submittable(share)
  <2>1. UNCHANGED <<sessionVars, lastRequestId, records>>
    BY <1>4 DEF SendShare
  <2> QED
    BY <1>1, <1>2, <2>1 DEF TypeOK, InLoop, sessionVars, jobDataVars, slaveVars
<1> QED
  BY <1>3, <1>4

LEMMA SendDoneType == TypeOK /\ SendDone => TypeOK'
BY DEF SendDone, TypeOK, InLoop, requestVars, jobDataVars, slaveVars

LEMMA CheckTimeoutsType == TypeOK /\ CheckTimeouts => TypeOK'
<1> SUFFICES ASSUME TypeOK, CheckTimeouts PROVE TypeOK'
  OBVIOUS
<1>1. UNCHANGED <<requestVars, jobs, shares, jobDataVars, connectionAttempts,
                 successiveRejects, records, initialisings, slaveVars>>
  BY DEF CheckTimeouts
<1>2. CASE SessionEnds(protocolState, timers, TRUE)
  BY <1>1, <1>2, EndedSessionType DEF TypeOK, InLoop, requestVars, jobDataVars, slaveVars
<1>3. CASE /\ pc' = "input"
           /\ UNCHANGED <<protocolState, timers, inputBuffer, pending, conn>>
  BY <1>1, <1>3 DEF CheckTimeouts, TypeOK, InLoop, requestVars, jobDataVars, slaveVars
<1> QED
  BY <1>2, <1>3 DEF CheckTimeouts

LEMMA ElapseType == ASSUME TypeOK, NEW t \in Timers, Elapse(t) PROVE TypeOK'
<1>1. timers' \in [Timers -> TimerValues]
  BY DEF Elapse, TypeOK, TimerValues
<1> QED
  BY <1>1 DEF Elapse, TypeOK, InLoop, requestVars, jobDataVars, slaveVars

LEMMA GetCurrentJobType == TypeOK /\ GetCurrentJob => TypeOK'
<1> SUFFICES ASSUME TypeOK, GetCurrentJob PROVE TypeOK'
  OBVIOUS
<1>1. jobs[Len(jobs)] \in Job
  BY DEF GetCurrentJob, TypeOK
<1>2. handedOut' \in SUBSET Job
  BY <1>1 DEF GetCurrentJob, TypeOK
<1> QED
  BY <1>2 DEF GetCurrentJob, TypeOK, InLoop, sessionVars, requestVars, jobDataVars

LEMMA SubmitShareType == TypeOK /\ SubmitShare => TypeOK'
<1> SUFFICES ASSUME TypeOK, SubmitShare PROVE TypeOK'
  OBVIOUS
<1>1. PICK share \in Reportable : shares' = Enqueue(shares, share, MaxShares)
  BY DEF SubmitShare
<1>2. Reportable \subseteq Share
  <2>1. \A d \in ShareDiffs : d[1] \in Nat /\ d[2] \in Nat
    BY ConstantsAssumption
  <2>2. \A j \in handedOut \cup oldJobs : j.id \in JobIds /\ j.work \in Nat
    BY DEF TypeOK, Job
  <2>3. DefaultJobId \in JobIds
    BY DEF JobIds
  <2> QED
    BY <2>1, <2>2, <2>3 DEF Reportable, Share
<1>3. shares' \in Seq(Share) /\ Len(shares') <= MaxShares
  BY <1>1, <1>2, EnqueueType, ConstantsAssumption DEF TypeOK
<1> QED
  BY <1>3 DEF SubmitShare, TypeOK, InLoop, sessionVars, requestVars, jobDataVars, slaveVars

LEMMA ProcessRestartType == TypeOK /\ ProcessRestart => TypeOK'
<1> SUFFICES ASSUME TypeOK, ProcessRestart PROVE TypeOK'
  OBVIOUS
<1>1. timers' \in [Timers -> TimerValues]
  BY DEF ProcessRestart, TimerValues
<1>2. /\ jobs' \in Seq(Job) /\ shares' \in Seq(Share)
      /\ Len(shares') <= MaxShares
  BY EmptyQueues DEF ProcessRestart
<1>3. jobIdCounter' \in Nat /\ jobIdCounter' >= FirstJobIdCounter
  BY ConstantsAssumption DEF ProcessRestart
<1>4. conn' \in [extraNonce : ExtraNonces \cup {NoExtraNonce}, authorized : BOOLEAN]
  BY DEF ProcessRestart, NoConn
<1>5. handedOut' \in SUBSET Job /\ oldJobs' \in SUBSET Job
  BY DEF ProcessRestart, TypeOK
<1>6. restarts' \in Nat /\ nextWork' \in Nat
  BY DEF ProcessRestart, TypeOK
<1> QED
  BY <1>1, <1>2, <1>3, <1>4, <1>5, <1>6 DEF ProcessRestart, TypeOK, InLoop, States

LEMMA TypeInvariant == TypeOK /\ [Next]_vars => TypeOK'
<1> SUFFICES ASSUME TypeOK, [Next]_vars PROVE TypeOK'
  OBVIOUS
<1>1. CASE NetThread
  BY <1>1, BeginSessionType, ConnectSucceedsType, ConnectFailsType, OnResponseType,
     OnMiningSetExtranonceType, OnSetDifficultyType, OnNewMiningJobType, InputThrowsType,
     OnGarbledLineType, InputDoneType, ResendSubscribeType, NoResendType, SendShareType,
     SendDoneType, CheckTimeoutsType DEF NetThread
<1>2. CASE MainThread
  BY <1>2, StartThreadType, StopThreadType, GetCurrentJobType, SubmitShareType
     DEF MainThread
<1>3. CASE \E t \in Timers : Elapse(t)
  BY <1>3, ElapseType
<1>4. CASE ProcessRestart
  BY <1>4, ProcessRestartType
<1>5. CASE UNCHANGED vars
  BY <1>5 DEF vars, TypeOK, InLoop, sessionVars, requestVars, jobDataVars, slaveVars
<1> QED
  BY <1>1, <1>2, <1>3, <1>4, <1>5 DEF Next

\* Every variable keeps its range: in particular no job of difficulty zero is ever
\* queued or handed to the slaves, whatever the pool sends (onSetDifficulty), and
\* the share queue never exceeds c_maxShares (RingQueue::enqueue).
THEOREM TypeCorrect == Spec => []TypeOK
BY InitType, TypeInvariant, PTL DEF Spec

-----------------------------------------------------------------------------
(* Safety: an inductive invariant that relates the client's state to what the *)
(* pool of the connection has promised.                                       *)
(*                                                                            *)
(* QueueIsCurrent is not inductive: a late answer to a subscription changes   *)
(* the extranonce of the connection without a word to the queue.  It is       *)
(* excluded because the client leaves SUBSCRIPTION with the answer to its     *)
(* last subscription, which the pool gives last, and because an id answers    *)
(* one request: what HandshakeInv says.                                       *)

Served == {"AUTHORIZATION", "BOOTSTRAP", "IN_SERVICE"}

\* Without a connection nothing is pending and nothing is promised.
DisconnectedInv == ~InLoop => pending = {} /\ conn = NoConn

\* Every pending request has an id of this session, no subscription is younger
\* than m_subscribeRequestId, and m_authorizeRequestId belongs to an authorization.
RequestInv ==
  /\ subscribeRequestId <= lastRequestId
  /\ authorizeRequestId <= lastRequestId
  /\ \A r \in pending :
       /\ 1 <= r.id /\ r.id <= lastRequestId
       /\ r.kind = "subscribe" => r.id <= subscribeRequestId /\ r.share = NoShare
       /\ r.id = authorizeRequestId => r.kind = "authorize"

\* The states of a connection, and what has been answered when it reaches them.
HandshakeInv ==
  /\ InLoop => protocolState \in Served \cup {"SUBSCRIPTION"}
  /\ InLoop /\ protocolState \in Served => \A r \in pending : r.kind # "subscribe"
  /\ InLoop /\ protocolState \in {"BOOTSTRAP", "IN_SERVICE"} => conn.authorized

SafeInv == /\ DisconnectedInv /\ RequestInv /\ HandshakeInv
           /\ QueueIsCurrent /\ ServiceIsReady

IInv == TypeOK /\ SafeInv

\* The types the proofs below use.
LEMMA UsedTypes ==
  ASSUME TypeOK
  PROVE  /\ lastRequestId \in Nat /\ subscribeRequestId \in Nat /\ authorizeRequestId \in Nat
         /\ \A r \in pending : r \in Request /\ r.id \in Nat
         /\ timers \in [Timers -> TimerValues]
         /\ jobs \in Seq(Job)
         /\ conn \in [extraNonce : ExtraNonces \cup {NoExtraNonce}, authorized : BOOLEAN]
BY DEF TypeOK, Request

LEMMA NextRequestIdType ==
  ASSUME TypeOK
  PROVE  NextRequestId \in Nat /\ NextRequestId > lastRequestId /\ NextRequestId >= 1
BY DEF TypeOK, NextRequestId

\* A step after which there is no connection.
LEMMA Disconnection ==
  ASSUME pc' \notin {"input", "resend", "send", "checks"}, pending' = {}, conn' = NoConn,
         subscribeRequestId' <= lastRequestId', authorizeRequestId' <= lastRequestId'
  PROVE  SafeInv'
BY DEF SafeInv, DisconnectedInv, RequestInv, HandshakeInv, QueueIsCurrent, ServiceIsReady, InLoop

\* The end of a session.
LEMMA SessionOver ==
  ASSUME NEW st, NEW tm \in [Timers -> TimerValues], NEW e, SessionEnds(st, tm, e),
         subscribeRequestId' <= lastRequestId', authorizeRequestId' <= lastRequestId'
  PROVE  SafeInv'
<1>1. pc' \in {"session", "exited"} /\ pending' = {} /\ conn' = NoConn
  BY SessionEndsType
<1> QED
  BY <1>1, Disconnection

\* A step that stays on the connection, may use up answers, and may start timers.
LEMMA Steady ==
  ASSUME SafeInv, InLoop, pc' \in {"input", "resend", "send", "checks"},
         UNCHANGED <<protocolState, requestVars, extraNonce, difficultyReceived, conn>>,
         pending' \subseteq pending,
         timers["noNewJob"] # "stopped" => timers'["noNewJob"] # "stopped",
         jobs' = jobs \/ jobs' = <<>>
  PROVE  SafeInv'
<1> USE DEF InLoop, requestVars
<1>1. DisconnectedInv'
  BY DEF DisconnectedInv
<1>2. RequestInv'
  BY DEF SafeInv, RequestInv
<1>3. HandshakeInv'
  BY DEF SafeInv, HandshakeInv
<1>4. QueueIsCurrent'
  BY DEF SafeInv, QueueIsCurrent
<1>5. ServiceIsReady'
  BY DEF SafeInv, ServiceIsReady
<1> QED
  BY <1>1, <1>2, <1>3, <1>4, <1>5 DEF SafeInv

\* A handshake request that is sent: subscribe leads to SUBSCRIPTION, where nothing
\* is promised; authorize must find no subscription open.
LEMMA Subscribed ==
  ASSUME IInv, NEW tm \in [Timers -> TimerValues], SubscribeToPool(tm),
         pc = "connecting" \/ InLoop
  PROVE  SafeInv'
<1>1. /\ lastRequestId' = NextRequestId /\ subscribeRequestId' = NextRequestId
      /\ authorizeRequestId' = authorizeRequestId
      /\ SendHandshake("subscribe", "SUBSCRIPTION", tm, conn, {})
  BY DEF SubscribeToPool, SendHandshake
<1>2. /\ lastRequestId \in Nat /\ authorizeRequestId \in Nat
      /\ authorizeRequestId <= lastRequestId /\ subscribeRequestId <= lastRequestId
      /\ subscribeRequestId \in Nat
  BY UsedTypes DEF IInv, SafeInv, RequestInv
<1>3. NextRequestId \in Nat /\ NextRequestId > lastRequestId /\ NextRequestId >= 1
  BY NextRequestIdType DEF IInv
<1>4. subscribeRequestId' <= lastRequestId' /\ authorizeRequestId' <= lastRequestId'
  BY <1>1, <1>2, <1>3
<1>5. CASE SessionEnds("SUBSCRIPTION", tm, TRUE)
  BY <1>4, <1>5, SessionOver
<1>6. CASE ~SessionEnds("SUBSCRIPTION", tm, TRUE)
  <2>1. /\ pc' \in {"input", "send"}
        /\ protocolState' = "SUBSCRIPTION"
        /\ conn' = conn
        /\ pending' = pending \cup
                        {[id |-> NextRequestId, kind |-> "subscribe", share |-> NoShare]}
    BY <1>1, <1>6 DEF SendHandshake
  <2>2. RequestInv'
    <3>1. \A r \in pending : r.id \in Nat /\ 1 <= r.id /\ r.id <= lastRequestId
      BY UsedTypes DEF IInv, SafeInv, RequestInv
    <3>2. \A r \in pending : r.kind = "subscribe" => r.share = NoShare
      BY DEF IInv, SafeInv, RequestInv
    <3>3. \A r \in pending : r.id = authorizeRequestId => r.kind = "authorize"
      BY DEF IInv, SafeInv, RequestInv
    <3> QED
      BY <1>1, <1>2, <1>3, <2>1, <3>1, <3>2, <3>3 DEF RequestInv
  <2> QED
    BY <2>1, <2>2 DEF SafeInv, DisconnectedInv, HandshakeInv, QueueIsCurrent,
                      ServiceIsReady, InLoop, Served
<1> QED
  BY <1>5, <1>6

\* processBootstrap on a connection whose worker was accepted.
LEMMA Bootstrapped ==
  ASSUME SafeInv, InLoop, protocolState \in {"AUTHORIZATION", "BOOTSTRAP"},
         pc' \in {"input", "resend", "send", "checks"},
         NEW js, NEW received, NEW tm \in [Timers -> TimerValues],
         ProcessBootstrap(js, received, tm), received => difficultyReceived',
         UNCHANGED <<requestVars, extraNonce>>,
         pending' \subseteq pending,
         conn'.authorized, conn'.extraNonce = conn.extraNonce,
         \A i \in 1 .. Len(jobs') : jobs'[i].extraNonce = extraNonce
  PROVE  SafeInv'
<1> USE DEF InLoop, requestVars
<1>1. DisconnectedInv'
  BY DEF DisconnectedInv
<1>2. RequestInv'
  BY DEF SafeInv, RequestInv
<1>3. protocolState' \in {"BOOTSTRAP", "IN_SERVICE"}
  BY DEF ProcessBootstrap
<1>4. HandshakeInv'
  <2>1. \A r \in pending : r.kind # "subscribe"
    BY DEF SafeInv, HandshakeInv, Served
  <2> QED
    BY <1>3, <2>1 DEF HandshakeInv, Served
<1>5. QueueIsCurrent'
  <2>1. extraNonce = conn.extraNonce
    BY DEF SafeInv, QueueIsCurrent
  <2> QED
    BY <2>1 DEF QueueIsCurrent
<1>6. ServiceIsReady'
  <2>1. CASE protocolState' = "IN_SERVICE"
    <3>1. received /\ timers' = StartTimer(StartTimer(tm, "state"), "noNewJob")
      BY <2>1 DEF ProcessBootstrap
    <3>2. timers'["noNewJob"] = "running"
      BY <3>1, TimerType DEF StartTimer, Timers
    <3> QED
      BY <3>1, <3>2 DEF ServiceIsReady
  <2> QED
    BY <2>1 DEF ServiceIsReady
<1> QED
  BY <1>1, <1>2, <1>4, <1>5, <1>6 DEF SafeInv

\* What the answer to a request tells of the connection.
LEMMA Answer ==
  ASSUME IInv, NEW r \in pending, NEW reply \in Replies(r.kind)
  PROVE  /\ r.kind # "subscribe" => ConnAfter(r, reply).extraNonce = conn.extraNonce
         /\ conn.authorized => ConnAfter(r, reply).authorized
         /\ r.kind = "authorize" /\ reply.text = "true" => ConnAfter(r, reply).authorized
BY UsedTypes DEF IInv, ConnAfter, Replies, Request

\* An answer that changes nothing but the connection, the timers and the queues:
\* in a Served state it is no answer to a subscription.
LEMMA PlainAnswer ==
  ASSUME IInv, InLoop, NEW r \in pending, NEW reply \in Replies(r.kind), LineUsed(r, reply),
         UNCHANGED <<protocolState, requestVars, extraNonce, difficultyReceived>>,
         timers["noNewJob"] # "stopped" => timers'["noNewJob"] # "stopped",
         jobs' = jobs \/ jobs' = <<>>
  PROVE  SafeInv'
<1>1. /\ pc' = "input" /\ pending' = pending \ {r} /\ conn' = ConnAfter(r, reply)
  BY DEF LineUsed
<1>2. conn.authorized => conn'.authorized
  BY <1>1, Answer
<1>3. protocolState \in Served => conn'.extraNonce = conn.extraNonce
  BY <1>1, Answer DEF IInv, SafeInv, HandshakeInv
<1> USE DEF InLoop, requestVars, IInv
<1>4. DisconnectedInv'
  BY <1>1 DEF DisconnectedInv
<1>5. RequestInv'
  BY <1>1 DEF SafeInv, RequestInv
<1>6. HandshakeInv'
  BY <1>1, <1>2 DEF SafeInv, HandshakeInv
<1>7. QueueIsCurrent'
  BY <1>1, <1>3 DEF SafeInv, QueueIsCurrent, Served
<1>8. ServiceIsReady'
  BY <1>1, <1>2 DEF SafeInv, ServiceIsReady
<1> QED
  BY <1>4, <1>5, <1>6, <1>7, <1>8 DEF SafeInv

\* The answer to the last subscription: it is the last answer to any.
LEMMA SubscribedAnswer ==
  ASSUME IInv, pc = "input", NEW r \in pending, NEW reply \in Replies(r.kind),
         r.id = subscribeRequestId, r.id # authorizeRequestId,
         reply.text = "subscribed",
         \A q \in pending : q.kind = "subscribe" => r.id <= q.id,
         OnNewExtranonce(reply.extraNonce), AuthorizeWorker(ConnAfter(r, reply), {r})
  PROVE  SafeInv'
<1>1. /\ lastRequestId' = NextRequestId /\ authorizeRequestId' = NextRequestId
      /\ subscribeRequestId' = subscribeRequestId
      /\ SendHandshake("authorize", "AUTHORIZATION", timers, ConnAfter(r, reply), {r})
  BY DEF AuthorizeWorker, SendHandshake
<1>2. /\ lastRequestId \in Nat /\ subscribeRequestId \in Nat
      /\ subscribeRequestId <= lastRequestId
  BY UsedTypes DEF IInv, SafeInv, RequestInv
<1>3. NextRequestId \in Nat /\ NextRequestId > lastRequestId /\ NextRequestId >= 1
  BY NextRequestIdType DEF IInv
<1>4. subscribeRequestId' <= lastRequestId' /\ authorizeRequestId' <= lastRequestId'
  BY <1>1, <1>2, <1>3
<1>5. timers \in [Timers -> TimerValues]
  BY UsedTypes DEF IInv
<1>6. r.kind = "subscribe" /\ r.share = NoShare
  <2>1. r.kind = "subscribe"
    BY DEF Replies
  <2> QED
    BY <2>1 DEF IInv, SafeInv, RequestInv
<1>7. CASE SessionEnds("AUTHORIZATION", timers, TRUE)
  BY <1>4, <1>5, <1>7, SessionOver
<1>8. CASE ~SessionEnds("AUTHORIZATION", timers, TRUE)
  <2>1. /\ pc' = "input"
        /\ protocolState' = "AUTHORIZATION"
        /\ conn' = ConnAfter(r, reply)
        /\ pending' = (pending \ {r}) \cup
                        {[id |-> NextRequestId, kind |-> "authorize", share |-> NoShare]}
    BY <1>1, <1>8 DEF SendHandshake
  <2>2. \A q \in pending : q.kind = "subscribe" => q = r
    <3> SUFFICES ASSUME NEW q \in pending, q.kind = "subscribe" PROVE q = r
      OBVIOUS
    <3>1. q.id <= subscribeRequestId /\ q.share = NoShare
      BY DEF IInv, SafeInv, RequestInv
    <3>2. q.id = r.id
      BY <1>2, <3>1, UsedTypes DEF IInv
    <3>3. q \in Request /\ r \in Request
      BY UsedTypes DEF IInv
    <3> QED
      BY <1>6, <3>1, <3>2, <3>3 DEF Request
  <2>3. RequestInv'
    <3>1. \A q \in pending : q.id \in Nat /\ 1 <= q.id /\ q.id <= lastRequestId
      BY UsedTypes DEF IInv, SafeInv, RequestInv
    <3> QED
      BY <1>1, <1>2, <1>3, <2>1, <2>2, <3>1 DEF RequestInv
  <2>4. HandshakeInv'
    BY <2>1, <2>2 DEF HandshakeInv, Served, InLoop
  <2>5. QueueIsCurrent'
    <3>1. extraNonce' = reply.extraNonce /\ jobs' = <<>>
      BY DEF OnNewExtranonce, ClearQueues
    <3>2. conn'.extraNonce = reply.extraNonce
      BY <2>1, UsedTypes DEF ConnAfter, IInv
    <3> QED
      BY <3>1, <3>2 DEF QueueIsCurrent
  <2> QED
    BY <2>1, <2>3, <2>4, <2>5 DEF SafeInv, DisconnectedInv, ServiceIsReady, InLoop
<1> QED
  BY <1>7, <1>8

-----------------------------------------------------------------------------
(* One lemma per action. *)

LEMMA OnResponseSafe == IInv /\ OnResponse => SafeInv'
<1> SUFFICES ASSUME IInv, OnResponse PROVE SafeInv'
  OBVIOUS
<1> DEFINE Dispatch(r, reply) ==
      /\ r.kind = "subscribe" => \A q \in pending : q.kind = "subscribe" => r.id <= q.id
      /\ IF r.id = authorizeRequestId THEN OnResponseToAuthorize(r, reply)
         ELSE IF r.id = subscribeRequestId THEN OnResponseToSubscribe(r, reply)
         ELSE OnResponseToSubmit(r, reply)
<1>0. PICK r \in pending : \E reply \in Replies(r.kind) : Dispatch(r, reply)
  BY DEF OnResponse
<1>1. PICK reply \in Replies(r.kind) : Dispatch(r, reply)
  BY <1>0
<1>2. pc = "input" /\ InLoop
  BY DEF OnResponse, InLoop
<1>3. timers \in [Timers -> TimerValues] /\ jobs \in Seq(Job)
  BY UsedTypes DEF IInv
<1>4. subscribeRequestId <= lastRequestId /\ authorizeRequestId <= lastRequestId
  BY DEF IInv, SafeInv, RequestInv
<1>5. CASE r.id = authorizeRequestId
  <2>1. /\ OnResponseToAuthorize(r, reply)
        /\ UNCHANGED <<requestVars, jobs, shares, jobDataVars, successiveRejects, records>>
    BY <1>1, <1>5 DEF OnResponseToAuthorize
  <2>2. UNCHANGED <<requestVars, extraNonce, difficultyReceived, jobs>>
    BY <2>1 DEF jobDataVars
  <2>3. CASE LineUsed(r, reply) /\ UNCHANGED <<protocolState, timers>>
    BY <1>2, <2>2, <2>3, PlainAnswer
  <2>4. CASE /\ protocolState = "AUTHORIZATION"
             /\ reply.text \in {"true", "subscribed", "Initialising"}
             /\ LineUsed(r, reply)
             /\ ProcessBootstrap(jobs, difficultyReceived, StartTimer(timers, "state"))
    <3>1. r.kind = "authorize"
      BY <1>5 DEF IInv, SafeInv, RequestInv
    <3>2. reply.text = "true"
      BY <2>4, <3>1 DEF Replies
    <3>3. /\ pc' = "input" /\ pending' = pending \ {r}
          /\ conn'.authorized /\ conn'.extraNonce = conn.extraNonce
      BY <2>4, <3>1, <3>2, Answer DEF LineUsed
    <3>4. StartTimer(timers, "state") \in [Timers -> TimerValues]
      BY <1>3, TimerType DEF Timers
    <3>5. \A i \in 1 .. Len(jobs') : jobs'[i].extraNonce = extraNonce
      BY <1>2, <2>2, <2>4 DEF IInv, SafeInv, QueueIsCurrent
    <3> QED
      BY <1>2, <2>2, <2>4, <3>3, <3>4, <3>5, Bootstrapped DEF IInv
  <2>5. CASE SessionEnds(protocolState, timers, TRUE)
    BY <1>3, <1>4, <2>2, <2>5, SessionOver DEF requestVars
  <2> QED
    BY <2>1, <2>3, <2>4, <2>5 DEF OnResponseToAuthorize
<1>6. CASE r.id # authorizeRequestId /\ r.id = subscribeRequestId
  <2>1. OnResponseToSubscribe(r, reply) /\ UNCHANGED difficultyReceived
    BY <1>1, <1>6 DEF OnResponseToSubscribe
  <2>2. CASE protocolState # "SUBSCRIPTION"
    <3>1. /\ LineUsed(r, reply)
          /\ UNCHANGED <<protocolState, timers, requestVars, jobs, shares, extraNonce>>
      BY <2>1, <2>2 DEF OnResponseToSubscribe
    <3> QED
      BY <1>2, <2>1, <3>1, PlainAnswer
  <2>3. CASE protocolState = "SUBSCRIPTION" /\ reply.text = "Initialising"
    <3>1. /\ LineUsed(r, reply)
          /\ timers' = StartTimer(timers, "resend")
          /\ UNCHANGED <<protocolState, requestVars, jobs, shares, extraNonce>>
      BY <2>1, <2>3 DEF OnResponseToSubscribe
    <3>2. timers'["noNewJob"] = timers["noNewJob"]
      BY <1>3, <3>1 DEF StartTimer, Timers
    <3> QED
      BY <1>2, <2>1, <3>1, <3>2, PlainAnswer
  <2>4. CASE protocolState = "SUBSCRIPTION" /\ reply.text = "subscribed"
    <3>1. /\ OnNewExtranonce(reply.extraNonce)
          /\ AuthorizeWorker(ConnAfter(r, reply), {r})
      BY <2>1, <2>4 DEF OnResponseToSubscribe
    <3>2. r.kind = "subscribe"
      BY <2>4 DEF Replies
    <3> QED
      BY <1>1, <1>2, <1>6, <2>4, <3>1, <3>2, SubscribedAnswer
  <2>5. CASE protocolState = "SUBSCRIPTION" /\ reply.text \notin {"Initialising", "subscribed"}
    <3>1. /\ SessionEnds(protocolState, timers, TRUE)
          /\ UNCHANGED <<requestVars, jobs, shares, extraNonce>>
      BY <2>1, <2>5 DEF OnResponseToSubscribe
    <3> QED
      BY <1>3, <1>4, <3>1, SessionOver DEF requestVars
  <2> QED
    BY <2>2, <2>3, <2>4, <2>5
<1>7. CASE r.id # authorizeRequestId /\ r.id # subscribeRequestId
  <2>1. OnResponseToSubmit(r, reply)
    BY <1>1, <1>7
  <2>2. /\ LineUsed(r, reply)
        /\ \/ timers' = StartTimer(timers, "nonacceptance")
           \/ timers' = timers
        /\ jobs' = jobs \/ jobs' = <<>>
        /\ UNCHANGED <<protocolState, requestVars, jobDataVars>>
    BY <2>1 DEF OnResponseToSubmit, ClearQueues
  <2>3. timers'["noNewJob"] = timers["noNewJob"]
    BY <1>3, <2>2 DEF StartTimer, Timers
  <2> QED
    BY <1>2, <2>2, <2>3, PlainAnswer DEF jobDataVars
<1> QED
  BY <1>5, <1>6, <1>7

LEMMA OnMiningSetExtranonceSafe == IInv /\ OnMiningSetExtranonce => SafeInv'
<1> SUFFICES ASSUME IInv, OnMiningSetExtranonce PROVE SafeInv'
  OBVIOUS
<1>1. PICK e \in ExtraNonces :
        /\ OnNewExtranonce(e)
        /\ conn' = [conn EXCEPT !.extraNonce = e]
  BY DEF OnMiningSetExtranonce
<1>2. /\ pc = "input"
      /\ UNCHANGED <<pc, pending, requestVars>>
      /\ UNCHANGED <<protocolState, timers, difficultyReceived>>
  BY DEF OnMiningSetExtranonce, OnNotifyFromPool
<1>3. extraNonce' = e /\ jobs' = <<>>
  BY <1>1 DEF OnNewExtranonce, ClearQueues
<1>4. conn'.extraNonce = e /\ conn'.authorized = conn.authorized
  BY <1>1, UsedTypes DEF IInv
<1> QED
  BY <1>2, <1>3, <1>4 DEF IInv, SafeInv, DisconnectedInv, RequestInv, HandshakeInv,
                          QueueIsCurrent, ServiceIsReady, InLoop, requestVars

LEMMA OnSetDifficultySafe == IInv /\ OnSetDifficulty => SafeInv'
<1> SUFFICES ASSUME IInv, OnSetDifficulty PROVE SafeInv'
  OBVIOUS
<1>1. /\ pc = "input" /\ InLoop
      /\ UNCHANGED <<pc, pending, requestVars>>
      /\ UNCHANGED <<conn, jobs, extraNonce>>
  BY DEF OnSetDifficulty, OnNotifyFromPool, InLoop
<1>2. CASE UNCHANGED <<protocolState, timers>> /\ (difficultyReceived' = difficultyReceived \/ difficultyReceived')
  BY <1>1, <1>2 DEF IInv, SafeInv, DisconnectedInv, RequestInv, HandshakeInv,
                    QueueIsCurrent, ServiceIsReady, InLoop, requestVars
<1>3. CASE /\ protocolState = "BOOTSTRAP" /\ difficultyReceived'
           /\ ProcessBootstrap(jobs, TRUE, timers)
  <2>1. conn.authorized
    BY <1>1, <1>3 DEF IInv, SafeInv, HandshakeInv
  <2>2. \A i \in 1 .. Len(jobs') : jobs'[i].extraNonce = extraNonce
    BY <1>1, <1>3 DEF IInv, SafeInv, QueueIsCurrent
  <2> QED
    BY <1>1, <1>3, <2>1, <2>2, Bootstrapped, UsedTypes DEF IInv, InLoop
<1> QED
  BY <1>2, <1>3 DEF OnSetDifficulty

LEMMA OnNewMiningJobSafe == IInv /\ OnNewMiningJob => SafeInv'
<1> SUFFICES ASSUME IInv, OnNewMiningJob PROVE SafeInv'
  OBVIOUS
<1>1. /\ pc = "input" /\ InLoop
      /\ UNCHANGED <<pc, pending, requestVars>>
      /\ UNCHANGED <<conn, extraNonce, difficultyReceived>>
  BY DEF OnNewMiningJob, OnNotifyFromPool, InLoop
<1>2. /\ Len(jobs') = 1 /\ jobs'[1].extraNonce = extraNonce
  BY DEF OnNewMiningJob, QueueJob
<1>3. CASE protocolState = "BOOTSTRAP"
  <2>1. ProcessBootstrap(jobs', difficultyReceived, timers)
    BY <1>3 DEF OnNewMiningJob
  <2>2. conn.authorized
    BY <1>1, <1>3 DEF IInv, SafeInv, HandshakeInv
  <2> QED
    BY <1>1, <1>2, <1>3, <2>1, <2>2, Bootstrapped, UsedTypes DEF IInv, InLoop
<1>4. CASE protocolState # "BOOTSTRAP"
  <2>1. timers' = StartTimer(timers, "noNewJob") /\ protocolState' = protocolState
    BY <1>4 DEF OnNewMiningJob
  <2>2. timers'["noNewJob"] = "running"
    BY <2>1, UsedTypes DEF IInv, StartTimer, Timers
  <2> QED
    BY <1>1, <1>2, <2>1, <2>2 DEF IInv, SafeInv, DisconnectedInv, RequestInv, HandshakeInv,
                                  QueueIsCurrent, ServiceIsReady, InLoop, requestVars
<1> QED
  BY <1>3, <1>4

LEMMA SendShareSafe == IInv /\ SendShare => SafeInv'
<1> SUFFICES ASSUME IInv, SendShare PROVE SafeInv'
  OBVIOUS
<1> DEFINE share == Head(shares)
<1>1. /\ pc = "send" /\ InLoop /\ protocolState = "IN_SERVICE"
      /\ UNCHANGED <<subscribeRequestId, authorizeRequestId, jobs, extraNonce,
                     difficultyReceived>>
  BY DEF SendShare, InLoop, jobDataVars
<1>2. /\ lastRequestId \in Nat /\ subscribeRequestId \in Nat /\ authorizeRequestId \in Nat
      /\ subscribeRequestId <= lastRequestId /\ authorizeRequestId <= lastRequestId
      /\ NextRequestId \in Nat /\ NextRequestId > lastRequestId /\ NextRequestId >= 1
  BY UsedTypes, NextRequestIdType DEF IInv, SafeInv, RequestInv
<1>3. CASE Submittable(share)
  <2>1. lastRequestId' = NextRequestId
    BY <1>3 DEF SendShare
  <2>2. subscribeRequestId' <= lastRequestId' /\ authorizeRequestId' <= lastRequestId'
    BY <1>1, <1>2, <2>1
  <2>3. CASE SessionEnds("IN_SERVICE", timers, TRUE)
    BY <2>2, <2>3, SessionOver, UsedTypes DEF IInv
  <2>4. CASE /\ pending' = pending \cup
                   {[id |-> NextRequestId, kind |-> "submit", share |-> share]}
             /\ UNCHANGED <<pc, protocolState, timers, inputBuffer, conn>>
    <3>1. RequestInv'
      <4>1. \A r \in pending : r.id \in Nat /\ 1 <= r.id /\ r.id <= lastRequestId
        BY UsedTypes DEF IInv, SafeInv, RequestInv
      <4>2. \A r \in pending' \ pending : r.id = NextRequestId /\ r.kind = "submit"
        BY <2>4
      <4>3. \A r \in pending' : 1 <= r.id /\ r.id <= lastRequestId'
        BY <1>2, <2>1, <4>1, <4>2
      <4>4. \A r \in pending' : r.kind = "subscribe" =>
              r.id <= subscribeRequestId' /\ r.share = NoShare
        BY <1>1, <4>2 DEF IInv, SafeInv, RequestInv
      <4>5. \A r \in pending' : r.id = authorizeRequestId' => r.kind = "authorize"
        BY <1>1, <1>2, <4>2 DEF IInv, SafeInv, RequestInv
      <4> QED
        BY <2>2, <4>3, <4>4, <4>5 DEF RequestInv
    <3>2. HandshakeInv'
      BY <1>1, <2>4 DEF IInv, SafeInv, HandshakeInv, InLoop
    <3> QED
      BY <1>1, <2>4, <3>1, <3>2 DEF IInv, SafeInv, DisconnectedInv, QueueIsCurrent,
                                    ServiceIsReady, InLoop
  <2> QED
    BY <1>3, <2>3, <2>4 DEF SendShare
<1>4. CASE ~Submittable(share)
  <2>1. UNCHANGED <<sessionVars, lastRequestId>>
    BY <1>4 DEF SendShare
  <2> QED
    BY <1>1, <2>1, Steady DEF IInv, InLoop, sessionVars, requestVars
<1> QED
  BY <1>3, <1>4

\* The steps of the loop that only move the thread.
LEMMA LoopStepSafe ==
  ASSUME IInv, OnGarbledLine \/ InputDone \/ NoResend \/ SendDone
  PROVE  SafeInv'
<1>1. /\ InLoop /\ pc' \in {"input", "resend", "send", "checks"}
      /\ UNCHANGED <<protocolState, requestVars, extraNonce, difficultyReceived, conn>>
      /\ pending' \subseteq pending /\ timers' = timers /\ jobs' = jobs
  BY DEF OnGarbledLine, InputDone, NoResend, SendDone, InLoop, jobDataVars
<1> QED
  BY <1>1, Steady DEF IInv

LEMMA InputThrowsSafe == IInv /\ InputThrows => SafeInv'
<1> SUFFICES ASSUME IInv, InputThrows PROVE SafeInv'
  OBVIOUS
<1>1. SessionEnds(protocolState, timers, TRUE) /\ UNCHANGED requestVars
  BY DEF InputThrows
<1> QED
  BY <1>1, SessionOver, UsedTypes DEF IInv, SafeInv, RequestInv, requestVars

LEMMA CheckTimeoutsSafe == IInv /\ CheckTimeouts => SafeInv'
<1> SUFFICES ASSUME IInv, CheckTimeouts PROVE SafeInv'
  OBVIOUS
<1>1. /\ InLoop
      /\ UNCHANGED <<requestVars, jobs, extraNonce, difficultyReceived>>
  BY DEF CheckTimeouts, InLoop, jobDataVars
<1>2. CASE SessionEnds(protocolState, timers, TRUE)
  BY <1>1, <1>2, SessionOver, UsedTypes DEF IInv, SafeInv, RequestInv, requestVars
<1>3. CASE /\ pc' = "input"
           /\ UNCHANGED <<protocolState, timers, inputBuffer, pending, conn>>
  BY <1>1, <1>3, Steady DEF IInv
<1> QED
  BY <1>2, <1>3 DEF CheckTimeouts

LEMMA ConnectFailsSafe == IInv /\ ConnectFails => SafeInv'
<1> SUFFICES ASSUME IInv, ConnectFails PROVE SafeInv'
  OBVIOUS
<1>1. UNCHANGED requestVars /\ pc = "connecting"
  BY DEF ConnectFails
<1>2. subscribeRequestId' <= lastRequestId' /\ authorizeRequestId' <= lastRequestId'
  BY <1>1 DEF IInv, SafeInv, RequestInv, requestVars
<1>3. pending = {} /\ conn = NoConn
  BY <1>1 DEF IInv, SafeInv, DisconnectedInv, InLoop
<1>4. CASE SessionEnds("CONNECTING", timers, TRUE)
  BY <1>2, <1>4, SessionOver, UsedTypes DEF IInv
<1>5. CASE pc' = "exited" /\ UNCHANGED <<protocolState, timers, inputBuffer, pending, conn>>
  BY <1>2, <1>3, <1>5, Disconnection
<1> QED
  BY <1>4, <1>5 DEF ConnectFails

\* The starts and ends of threads, sessions and processes.
LEMMA NoConnectionSafe ==
  ASSUME IInv, StartThread \/ StopThread \/ BeginSession \/ ProcessRestart
  PROVE  SafeInv'
<1>1. CASE StartThread
  <2>1. /\ pc = "stopped" /\ pc' = "session"
        /\ UNCHANGED <<pending, conn, requestVars>>
    BY <1>1 DEF StartThread
  <2> QED
    BY <2>1, Disconnection DEF IInv, SafeInv, DisconnectedInv, RequestInv, InLoop, requestVars
<1>2. CASE StopThread
  <2>1. pc' = "stopped" /\ pending' = {} /\ conn' = NoConn /\ UNCHANGED requestVars
    BY <1>2 DEF StopThread
  <2> QED
    BY <2>1, Disconnection DEF IInv, SafeInv, RequestInv, requestVars
<1>3. CASE BeginSession
  <2>1. /\ pc = "session" /\ pc' = "connecting"
        /\ lastRequestId' = 0 /\ subscribeRequestId' = 0 /\ authorizeRequestId' = 0
        /\ UNCHANGED <<pending, conn>>
    BY <1>3 DEF BeginSession
  <2> QED
    BY <2>1, Disconnection DEF IInv, SafeInv, DisconnectedInv, InLoop
<1>4. CASE ProcessRestart
  <2>1. /\ pc' = "session" /\ pending' = {} /\ conn' = NoConn
        /\ lastRequestId' = 0 /\ subscribeRequestId' = 0 /\ authorizeRequestId' = 0
    BY <1>4 DEF ProcessRestart
  <2> QED
    BY <2>1, Disconnection
<1> QED
  BY <1>1, <1>2, <1>3, <1>4

\* A step of the main thread or of time, which touches no session variable but
\* one timer.
LEMMA BesideSafe ==
  ASSUME IInv,
         UNCHANGED <<pc, protocolState, pending, conn, requestVars, jobs, extraNonce,
                     difficultyReceived>>,
         timers["noNewJob"] # "stopped" => timers'["noNewJob"] # "stopped"
  PROVE  SafeInv'
BY DEF IInv, SafeInv, DisconnectedInv, RequestInv, HandshakeInv, QueueIsCurrent,
       ServiceIsReady, InLoop, requestVars

LEMMA ElapseSafe == ASSUME IInv, NEW t \in Timers, Elapse(t) PROVE SafeInv'
<1>1. timers["noNewJob"] # "stopped" => timers'["noNewJob"] # "stopped"
  BY UsedTypes DEF IInv, Elapse, Timers
<1> QED
  BY <1>1, BesideSafe DEF Elapse, jobDataVars

LEMMA MainThreadSafe == ASSUME IInv, GetCurrentJob \/ SubmitShare PROVE SafeInv'
BY BesideSafe DEF GetCurrentJob, SubmitShare, sessionVars, jobDataVars

-----------------------------------------------------------------------------
(* The theorems. *)

LEMMA InitSafe == Init => IInv
<1> SUFFICES ASSUME Init PROVE IInv
  OBVIOUS
<1>1. TypeOK
  BY InitType
<1>2. /\ pc = "session" /\ pending = {} /\ conn = NoConn
      /\ lastRequestId = 0 /\ subscribeRequestId = 0 /\ authorizeRequestId = 0
  BY DEF Init
<1> QED
  BY <1>1, <1>2 DEF IInv, SafeInv, DisconnectedInv, RequestInv, HandshakeInv,
                    QueueIsCurrent, ServiceIsReady, InLoop

LEMMA SafetyInvariant == IInv /\ [Next]_vars => IInv'
<1> SUFFICES ASSUME IInv, [Next]_vars PROVE SafeInv'
  BY TypeInvariant DEF IInv
<1>1. CASE NetThread
  <2>1. CASE ConnectSucceeds
    BY <2>1, Subscribed, UsedTypes DEF ConnectSucceeds, IInv
  <2>2. CASE ResendSubscribe
    <3>1. StopTimer(timers, "resend") \in [Timers -> TimerValues]
      BY UsedTypes, TimerType DEF IInv, Timers
    <3> QED
      BY <2>2, <3>1, Subscribed DEF ResendSubscribe, InLoop
  <2> QED
    BY <1>1, <2>1, <2>2, NoConnectionSafe, ConnectFailsSafe, OnResponseSafe,
       OnMiningSetExtranonceSafe, OnSetDifficultySafe, OnNewMiningJobSafe, InputThrowsSafe,
       LoopStepSafe, SendShareSafe, CheckTimeoutsSafe DEF NetThread
<1>2. CASE MainThread
  BY <1>2, NoConnectionSafe, MainThreadSafe DEF MainThread
<1>3. CASE \E t \in Timers : Elapse(t)
  BY <1>3, ElapseSafe
<1>4. CASE ProcessRestart
  BY <1>4, NoConnectionSafe
<1>5. CASE UNCHANGED vars
  BY <1>5, BesideSafe DEF vars, sessionVars, jobDataVars
<1> QED
  BY <1>1, <1>2, <1>3, <1>4, <1>5 DEF Next

LEMMA AlwaysSafe == Spec => []IInv
BY InitSafe, SafetyInvariant, PTL DEF Spec

\* No queued job was built with an extranonce other than the one the pool holds for
\* this connection, whatever is reconnected, resubscribed or answered late
\* (processNetSession, onNewExtranonce).
THEOREM QueueAlwaysCurrent == Spec => []QueueIsCurrent
<1>1. IInv => QueueIsCurrent
  BY DEF IInv, SafeInv
<1> QED
  BY <1>1, AlwaysSafe, PTL

\* The client is IN_SERVICE only on a connection whose pool accepted the worker and
\* sent a difficulty, with the job timer running (processBootstrap).
THEOREM ServiceAlwaysReady == Spec => []ServiceIsReady
<1>1. IInv => ServiceIsReady
  BY DEF IInv, SafeInv
<1> QED
  BY <1>1, AlwaysSafe, PTL

\* A handshake sends no submit.
LEMMA HandshakeSends ==
  ASSUME NEW kind \in {"subscribe", "authorize"}, NEW st, NEW tm, NEW c, NEW answered,
         SendHandshake(kind, st, tm, c, answered)
  PROVE  \A p \in pending' \ pending : p.kind # "submit"
BY DEF SendHandshake, SessionEnds

\* Only SendShare adds a submit to the requests of a connection.
LEMMA SubmitsAreShares ==
  ASSUME [Next]_vars, NEW p \in pending' \ pending, p.kind = "submit"
  PROVE  SendShare
<1> SUFFICES ASSUME ~SendShare PROVE FALSE
  OBVIOUS
<1>1. ASSUME NEW tm, SubscribeToPool(tm) PROVE FALSE
  BY <1>1, HandshakeSends DEF SubscribeToPool
<1>2. ASSUME NEW c, NEW answered, AuthorizeWorker(c, answered) PROVE FALSE
  BY <1>2, HandshakeSends DEF AuthorizeWorker
<1>3. ASSUME NEW st, NEW tm, NEW e, SessionEnds(st, tm, e) PROVE FALSE
  BY <1>3 DEF SessionEnds
<1>4. ASSUME NEW r, NEW reply, LineUsed(r, reply) PROVE FALSE
  BY <1>4 DEF LineUsed
<1>5. CASE OnResponse
  <2>1. PICK r \in pending : \E reply \in Replies(r.kind) :
          \/ OnResponseToAuthorize(r, reply)
          \/ OnResponseToSubscribe(r, reply)
          \/ OnResponseToSubmit(r, reply)
    BY <1>5 DEF OnResponse
  <2>2. PICK reply \in Replies(r.kind) :
          \/ OnResponseToAuthorize(r, reply)
          \/ OnResponseToSubscribe(r, reply)
          \/ OnResponseToSubmit(r, reply)
    BY <2>1
  <2>3. CASE OnResponseToAuthorize(r, reply)
    BY <2>3, <1>3, <1>4 DEF OnResponseToAuthorize
  <2>4. CASE OnResponseToSubscribe(r, reply)
    BY <2>4, <1>2, <1>3, <1>4 DEF OnResponseToSubscribe
  <2>5. CASE OnResponseToSubmit(r, reply)
    BY <2>5, <1>4 DEF OnResponseToSubmit
  <2> QED
    BY <2>2, <2>3, <2>4, <2>5
<1>6. CASE OnMiningSetExtranonce \/ OnSetDifficulty \/ OnNewMiningJob
  BY <1>6 DEF OnMiningSetExtranonce, OnSetDifficulty, OnNewMiningJob, OnNotifyFromPool
<1>7. CASE ConnectSucceeds \/ ResendSubscribe
  BY <1>1, <1>7 DEF ConnectSucceeds, ResendSubscribe
<1>8. CASE ConnectFails \/ InputThrows \/ CheckTimeouts
  BY <1>3, <1>8 DEF ConnectFails, InputThrows, CheckTimeouts
<1>9. CASE BeginSession \/ OnGarbledLine \/ InputDone \/ NoResend \/ SendDone
  BY <1>9 DEF BeginSession, OnGarbledLine, InputDone, NoResend, SendDone
<1>10. CASE MainThread \/ ProcessRestart
  BY <1>10 DEF MainThread, StartThread, StopThread, GetCurrentJob, SubmitShare,
               ProcessRestart, sessionVars
<1>11. CASE (\E t \in Timers : Elapse(t)) \/ UNCHANGED vars
  BY <1>11 DEF Elapse, vars, sessionVars
<1> QED
  BY <1>5, <1>6, <1>7, <1>8, <1>9, <1>10, <1>11 DEF Next, NetThread

\* Whatever the slaves report and however late, a submit goes out only on a
\* connection whose pool accepted the worker, for a job of its current extranonce,
\* with a solution of that job that reaches the job's difficulty (sendShare).
THEOREM GoodSubmits == Spec => SubmitsAreGood
<1> DEFINE Good(p) ==
      /\ conn.authorized
      /\ \E i \in 1 .. Len(jobs) :
           /\ jobs[i].id = p.share.jobId
           /\ jobs[i].work = p.share.work
           /\ jobs[i].extraNonce = conn.extraNonce
           /\ p.share.actual >= jobs[i].difficulty
<1>1. ASSUME IInv, [Next]_vars, NEW p \in pending' \ pending, p.kind = "submit"
      PROVE  Good(p)
  <2>1. SendShare
    BY <1>1, SubmitsAreShares
  <2>2. InLoop /\ protocolState = "IN_SERVICE"
    BY <2>1 DEF SendShare, InLoop
  <2>3. Submittable(Head(shares)) /\ p.share = Head(shares)
    BY <1>1, <2>1 DEF SendShare, sessionVars, SessionEnds
  <2>4. \A i \in 1 .. Len(jobs) : jobs[i].extraNonce = conn.extraNonce
    BY <1>1, <2>2 DEF IInv, SafeInv, QueueIsCurrent
  <2>5. conn.authorized
    BY <1>1, <2>2 DEF IInv, SafeInv, ServiceIsReady
  <2> QED
    BY <2>3, <2>4, <2>5 DEF Submittable
<1>2. IInv /\ [Next]_vars =>
        [\A p \in pending' \ pending : p.kind = "submit" => Good(p)]_vars
  BY <1>1
<1> QED
  BY <1>2, AlwaysSafe, PTL DEF Spec, SubmitsAreGood

-----------------------------------------------------------------------------
(* The ids of the jobs the slaves get. *)

\* At most one job is queued (queueJob and its callers), it has the last id given
\* out, and no job given to the slaves has a larger id or shares its id.
JobIdInv ==
  /\ Len(jobs) <= 1
  /\ \A i \in 1 .. Len(jobs) : jobs[i].id = jobIdCounter
  /\ \A k \in handedOut :
       /\ k.id <= jobIdCounter
       /\ \A i \in 1 .. Len(jobs) : k.id = jobIdCounter => k = jobs[i]

LEMMA OneJob ==
  ASSUME jobs \in Seq(Job), jobs # <<>>, Len(jobs) <= 1
  PROVE  Len(jobs) = 1
<1>1. Len(jobs) \in Nat \ {0}
  BY EmptySeq
<1> QED
  BY <1>1

\* Every step but three leaves ids and contents alone and at most empties the queue.
LEMMA IdsUntouched ==
  ASSUME [Next]_vars, ~OnNewMiningJob, ~GetCurrentJob, ~ProcessRestart
  PROVE  /\ jobs' = jobs \/ jobs' = <<>>
         /\ UNCHANGED <<jobIdCounter, handedOut, nextWork>>
<1> USE DEF jobDataVars, slaveVars, ClearQueues, OnNewExtranonce
<1>1. CASE OnResponse
  <2>1. UNCHANGED <<handedOut, nextWork>>
    BY <1>1 DEF OnResponse
  <2>2. PICK r \in pending : \E reply \in Replies(r.kind) :
          \/ OnResponseToAuthorize(r, reply)
          \/ OnResponseToSubscribe(r, reply)
          \/ OnResponseToSubmit(r, reply)
    BY <1>1 DEF OnResponse
  <2>3. PICK reply \in Replies(r.kind) :
          \/ OnResponseToAuthorize(r, reply)
          \/ OnResponseToSubscribe(r, reply)
          \/ OnResponseToSubmit(r, reply)
    BY <2>2
  <2>4. CASE OnResponseToAuthorize(r, reply)
    BY <2>1, <2>4 DEF OnResponseToAuthorize
  <2>5. CASE OnResponseToSubscribe(r, reply)
    BY <2>1, <2>5 DEF OnResponseToSubscribe
  <2>6. CASE OnResponseToSubmit(r, reply)
    BY <2>1, <2>6 DEF OnResponseToSubmit
  <2> QED
    BY <2>3, <2>4, <2>5, <2>6
<1>2. CASE OnMiningSetExtranonce \/ OnSetDifficulty
  BY <1>2 DEF OnMiningSetExtranonce, OnSetDifficulty, OnNotifyFromPool
<1>3. CASE ConnectSucceeds \/ ConnectFails \/ InputThrows \/ ResendSubscribe \/ CheckTimeouts
  BY <1>3 DEF ConnectSucceeds, ConnectFails, InputThrows, ResendSubscribe, CheckTimeouts
<1>4. CASE BeginSession \/ OnGarbledLine \/ InputDone \/ NoResend \/ SendDone \/ SendShare
  BY <1>4 DEF BeginSession, OnGarbledLine, InputDone, NoResend, SendDone, SendShare
<1>5. CASE StartThread \/ StopThread \/ SubmitShare
  BY <1>5 DEF StartThread, StopThread, SubmitShare
<1>6. CASE (\E t \in Timers : Elapse(t)) \/ UNCHANGED vars
  BY <1>6 DEF Elapse, vars
<1> QED
  BY <1>1, <1>2, <1>3, <1>4, <1>5, <1>6 DEF Next, NetThread, MainThread

LEMMA JobIdStep == TypeOK /\ JobIdInv /\ [Next]_vars => JobIdInv'
<1> SUFFICES ASSUME TypeOK, JobIdInv, [Next]_vars PROVE JobIdInv'
  OBVIOUS
<1>1. /\ jobIdCounter \in Nat /\ jobs \in Seq(Job)
      /\ \A k \in handedOut : k.id \in Nat
  BY ConstantsAssumption DEF TypeOK, Job, JobIds
<1>2. CASE OnNewMiningJob
  <2>1. /\ Len(jobs') = 1 /\ jobs'[1].id = NextJobId /\ jobIdCounter' = NextJobId
        /\ handedOut' = handedOut
    BY <1>2 DEF OnNewMiningJob, QueueJob, OnNotifyFromPool
  <2>2. NextJobId \in Nat /\ NextJobId > jobIdCounter
    BY <1>1, ConstantsAssumption DEF NextJobId
  <2> QED
    BY <1>1, <2>1, <2>2 DEF JobIdInv
<1>3. CASE GetCurrentJob
  <2>0. Len(jobs) = 1
    BY <1>1, <1>3, OneJob DEF GetCurrentJob, JobIdInv
  <2>1. UNCHANGED <<jobs, jobIdCounter>> /\ Len(jobs) = 1
        /\ handedOut' = handedOut \cup {jobs[1]}
    BY <1>3, <2>0 DEF GetCurrentJob, jobDataVars
  <2> QED
    BY <1>1, <2>1 DEF JobIdInv
<1>4. CASE ProcessRestart
  BY <1>4 DEF ProcessRestart, JobIdInv
<1>5. CASE ~OnNewMiningJob /\ ~GetCurrentJob /\ ~ProcessRestart
  BY <1>5, IdsUntouched DEF JobIdInv
<1> QED
  BY <1>2, <1>3, <1>4, <1>5

\* A job given to the slaves has a larger id than every other job this process gave
\* them, over all its sessions: a slave recognises a new job by its id, and a late
\* share names one job (queueJob, m_jobIdCounter).
NewJobsGetNewIds ==
  [][\A j \in handedOut' \ handedOut : \A k \in handedOut : k.id < j.id]_vars

\* Over all its sessions, every job this process gives to the slaves has a larger id
\* than all it gave before (queueJob): m_jobIdCounter is reset by no session.
THEOREM JobIdsIncrease == Spec => NewJobsGetNewIds
<1>1. Init => JobIdInv
  BY DEF Init, JobIdInv
<1>2. ASSUME TypeOK, JobIdInv, [Next]_vars, NEW j \in handedOut' \ handedOut,
             NEW k \in handedOut
      PROVE  k.id < j.id
  <2>1. GetCurrentJob
    <3>1. ~ProcessRestart /\ ~OnNewMiningJob
      BY <1>2 DEF ProcessRestart, OnNewMiningJob, OnNotifyFromPool
    <3> QED
      BY <1>2, <3>1, IdsUntouched
  <2>0. jobs \in Seq(Job)
    BY <1>2 DEF TypeOK
  <2>2. Len(jobs) = 1 /\ j = jobs[1]
    <3>1. Len(jobs) = 1
      BY <1>2, <2>0, <2>1, OneJob DEF GetCurrentJob, JobIdInv
    <3> QED
      BY <1>2, <2>1, <3>1 DEF GetCurrentJob
  <2>3. j.id = jobIdCounter /\ k.id <= jobIdCounter /\ k.id # jobIdCounter
    BY <1>2, <2>2 DEF JobIdInv
  <2>4. k.id \in Nat /\ jobIdCounter \in Nat
    BY <1>2, ConstantsAssumption DEF TypeOK, Job, JobIds
  <2> QED
    BY <2>3, <2>4
<1>3. TypeOK /\ JobIdInv /\ [Next]_vars =>
        [\A j \in handedOut' \ handedOut : \A k \in handedOut : k.id < j.id]_vars
  BY <1>2
<1> QED
  BY <1>1, <1>3, JobIdStep, TypeCorrect, PTL DEF Spec, NewJobsGetNewIds

-----------------------------------------------------------------------------
(* The jobs as the slave gate sees them. *)

\* A new job has the next id; a restart begins anew; every other step clears the queue
\* or leaves what getCurrentJob returns as it is.
LEMMA SourceStep == TypeOK /\ JobIdInv /\ [Next]_vars => [Source!Next]_(Source!vars)
<1> SUFFICES ASSUME TypeOK, JobIdInv, [Next]_vars PROVE [Source!Next]_(Source!vars)
  OBVIOUS
<1>1. /\ jobIdCounter \in Nat /\ jobIdCounter >= FirstJobIdCounter /\ FirstJobIdCounter \in Nat
      /\ jobs \in Seq(Job) /\ nextWork \in Nat
  BY ConstantsAssumption DEF TypeOK
<1>2. CASE OnNewMiningJob
  <2>1. jobIdCounter' = jobIdCounter + 1
    BY <1>1, <1>2 DEF OnNewMiningJob, QueueJob, NextJobId
  <2>2. Len(jobs') = 1 /\ jobs' # <<>> /\ jobs'[1].id = jobIdCounter' /\ jobs'[1].work = nextWork
    BY <1>2 DEF OnNewMiningJob, QueueJob
  <2>3. nextWork' = nextWork + 1
    BY <1>2 DEF OnNewMiningJob
  <2>4. CurrentJob' = [id |-> jobIdCounter', work |-> nextWork]
    BY <2>2 DEF CurrentJob
  <2>5. /\ nextWork' - 1 = (nextWork - 1) + 1 /\ nextWork' - 1 = nextWork
        /\ jobIdCounter' - FirstJobIdCounter = (jobIdCounter - FirstJobIdCounter) + 1
        /\ FirstJobIdCounter + (jobIdCounter' - FirstJobIdCounter) = jobIdCounter'
    BY <1>1, <2>1, <2>3
  <2>6. Source!NewJob
    BY <2>4, <2>5 DEF Source!NewJob
  <2> QED
    BY <2>6 DEF Source!Next
<1>3. CASE ProcessRestart
  <2>1. jobs' = <<>> /\ jobIdCounter' = FirstJobIdCounter /\ nextWork' = nextWork
    BY <1>3 DEF ProcessRestart
  <2>2. CurrentJob' = NoJob
    BY <2>1 DEF CurrentJob
  <2>3. jobIdCounter' - FirstJobIdCounter = 0
    BY <1>1, <2>1
  <2>4. Source!Restart
    BY <2>1, <2>2, <2>3 DEF Source!Restart
  <2> QED
    BY <2>4 DEF Source!Next
<1>4. CASE ~OnNewMiningJob /\ ~ProcessRestart
  <2>1. (jobs' = jobs \/ jobs' = <<>>) /\ UNCHANGED <<jobIdCounter, nextWork>>
    <3>1. CASE GetCurrentJob
      BY <3>1 DEF GetCurrentJob, jobDataVars
    <3> QED
      BY <1>4, <3>1, IdsUntouched
  <2>3. CASE CurrentJob' = CurrentJob
    BY <2>1, <2>3 DEF Source!vars
  <2>4. CASE CurrentJob' # CurrentJob
    <3>1. CurrentJob' = NoJob
      BY <2>1, <2>4 DEF CurrentJob
    <3>2. Source!JobsCleared
      BY <2>1, <2>4, <3>1 DEF Source!JobsCleared
    <3> QED
      BY <3>2 DEF Source!Next
  <2> QED
    BY <2>3, <2>4
<1> QED
  BY <1>2, <1>3, <1>4

\* The slave gate gets its jobs from the pool as from a source that gives every job the
\* next id, over all sessions and whatever ends them (queueJob, clearQueues): what is
\* proved of MsLink with JobSource holds with StratumPool.
THEOREM ImplementsSource == Spec => ImplementsJobSource
<1>1. Init => JobIdInv
  BY DEF Init, JobIdInv
<1>2. Init => Source!Init
  <2> SUFFICES ASSUME Init PROVE Source!Init
    OBVIOUS
  <2>1. jobs = <<>> /\ jobIdCounter = FirstJobIdCounter /\ nextWork = 1
    BY DEF Init
  <2>2. jobIdCounter - FirstJobIdCounter = 0 /\ nextWork - 1 = 0
    BY <2>1, ConstantsAssumption
  <2> QED
    BY <2>1, <2>2 DEF Source!Init, CurrentJob
<1> QED
  BY <1>1, <1>2, JobIdStep, SourceStep, TypeCorrect, PTL
  DEF Spec, ImplementsJobSource, Source!Spec

-----------------------------------------------------------------------------
(* The records of StratumReqMgr. *)

\* A set of natural numbers has a least one.
LEMMA LeastOf ==
  ASSUME NEW S \in SUBSET Nat, S # {}
  PROVE  \E m \in S : \A k \in S : m <= k
<1> DEFINE Below(m) == {k \in S : k < m}
           T == {Below(m) : m \in S}
<1>1. T \subseteq FiniteSubsetsOf(Nat) /\ T # {}
  <2>1. ASSUME NEW m \in S
        PROVE  IsFiniteSet(Below(m))
    <3>0. \A k \in S : k \in Nat
      OBVIOUS
    <3>1. \A k \in Below(m) : k <= m
      BY <3>0
    <3>2. m \in Nat /\ Below(m) \subseteq Nat
      BY <3>0
    <3> HIDE DEF Below
    <3> QED
      BY <3>1, <3>2, FS_BoundedSetOfNaturals
  <2> QED
    BY <2>1 DEF FiniteSubsetsOf
<1>2. PICK A \in T : \A B \in T : <<B, A>> \notin StrictSubsetOrdering(Nat)
  <2> HIDE DEF T
  <2> QED
    BY <1>1, FS_StrictSubsetOrderingWellFounded, WFMin
<1>3. PICK m \in S : A = Below(m)
  OBVIOUS
<1>4. ASSUME NEW k \in S, k < m
      PROVE  FALSE
  <2>1. Below(k) \subseteq Below(m) /\ Below(k) # Below(m)
    <3>1. k \in Below(m) /\ k \notin Below(k)
      BY <1>4
    <3>2. ASSUME NEW j \in S, j < k PROVE j < m
      <4>1. j \in Nat /\ k \in Nat /\ m \in Nat
        OBVIOUS
      <4> QED
        BY <1>4, <3>2, <4>1
    <3> QED
      BY <3>1, <3>2
  <2>2. <<Below(k), Below(m)>> \in StrictSubsetOrdering(Nat)
    BY <2>1 DEF StrictSubsetOrdering
  <2> QED
    BY <1>2, <1>3, <2>2
<1> QED
  BY <1>4

Record == [id : Nat, share : Share]

\* A clean-up of a set of records that is too large makes room for one more.
LEMMA CleanupMakesRoom ==
  ASSUME NEW rs \in SUBSET Record, IsFiniteSet(rs), Cardinality(rs) <= MaxReqRecords + 1,
         NEW qs \in CleanupOldRecords(rs)
  PROVE  qs \subseteq rs /\ IsFiniteSet(qs) /\ Cardinality(qs) <= MaxReqRecords
<1> DEFINE oldest == {r \in rs : \A q \in rs : r.id <= q.id}
<1>1. (qs = rs /\ ~(Cardinality(rs) > MaxReqRecords)) \/ qs = rs \ oldest
  BY DEF CleanupOldRecords
<1>2. qs \subseteq rs
  BY <1>1
<1>3. IsFiniteSet(qs) /\ Cardinality(qs) <= Cardinality(rs)
      /\ (Cardinality(qs) = Cardinality(rs) => qs = rs)
  BY <1>2, FS_Subset
<1>4. Cardinality(qs) \in Nat /\ Cardinality(rs) \in Nat /\ MaxReqRecords \in Nat
  BY <1>3, FS_CardinalityType, ConstantsAssumption
<1>5. CASE ~(Cardinality(rs) > MaxReqRecords)
  BY <1>2, <1>3, <1>4, <1>5
<1>6. CASE Cardinality(rs) > MaxReqRecords
  <2>1. rs # {}
    BY <1>4, <1>6, FS_EmptySet
  <2>2. PICK r \in rs : \A q \in rs : r.id <= q.id
    <3> DEFINE ids == {q.id : q \in rs}
    <3>1. ids \in SUBSET Nat /\ ids # {}
      BY <2>1 DEF Record
    <3>2. PICK m \in ids : \A k \in ids : m <= k
      <4> HIDE DEF ids
      <4> QED
        BY <3>1, LeastOf
    <3> QED
      BY <3>2
  <2>3. r \notin qs
    BY <1>1, <1>6, <2>2
  <2> QED
    BY <1>2, <1>3, <1>4, <1>6, <2>3
<1> QED
  BY <1>5, <1>6

\* Only SendShare remembers anything.
LEMMA RecordsShrink ==
  ASSUME [Next]_vars, ~SendShare
  PROVE  records' \subseteq records
<1>1. CASE OnResponse
  <2>1. PICK r \in pending : \E reply \in Replies(r.kind) :
          \/ OnResponseToAuthorize(r, reply)
          \/ OnResponseToSubscribe(r, reply)
          \/ OnResponseToSubmit(r, reply)
    BY <1>1 DEF OnResponse
  <2>2. PICK reply \in Replies(r.kind) :
          \/ OnResponseToAuthorize(r, reply)
          \/ OnResponseToSubscribe(r, reply)
          \/ OnResponseToSubmit(r, reply)
    BY <2>1
  <2>3. CASE OnResponseToAuthorize(r, reply) \/ OnResponseToSubscribe(r, reply)
    BY <2>3 DEF OnResponseToAuthorize, OnResponseToSubscribe
  <2>4. CASE OnResponseToSubmit(r, reply)
    <3>1. PICK rejected \in BOOLEAN : RemoveRecord(r.id, rejected)
      BY <2>4 DEF OnResponseToSubmit
    <3>2. PICK rs \in IF rejected THEN CleanupOldRecords(records) ELSE {records} :
            records' \in CleanupOldRecords({q \in rs : q.id # r.id})
      BY <3>1 DEF RemoveRecord
    <3>3. rs \subseteq records
      BY <3>2, CleanupRemoves
    <3>4. records' \subseteq {q \in rs : q.id # r.id}
      BY <3>2, CleanupRemoves
    <3> QED
      BY <3>3, <3>4
  <2> QED
    BY <2>2, <2>3, <2>4
<1>2. CASE OnMiningSetExtranonce \/ OnSetDifficulty \/ OnNewMiningJob
  BY <1>2 DEF OnMiningSetExtranonce, OnSetDifficulty, OnNewMiningJob, OnNotifyFromPool
<1>3. CASE ConnectSucceeds \/ ConnectFails \/ InputThrows \/ ResendSubscribe \/ CheckTimeouts
  BY <1>3 DEF ConnectSucceeds, ConnectFails, InputThrows, ResendSubscribe, CheckTimeouts
<1>4. CASE BeginSession \/ OnGarbledLine \/ InputDone \/ NoResend \/ SendDone
  BY <1>4 DEF BeginSession, OnGarbledLine, InputDone, NoResend, SendDone
<1>5. CASE MainThread \/ ProcessRestart
  BY <1>5 DEF MainThread, StartThread, StopThread, GetCurrentJob, SubmitShare, ProcessRestart
<1>6. CASE (\E t \in Timers : Elapse(t)) \/ UNCHANGED vars
  BY <1>6 DEF Elapse, vars
<1> QED
  BY <1>1, <1>2, <1>3, <1>4, <1>5, <1>6 DEF Next, NetThread

\* The records are finitely many, and sound.
RecordInv == IsFiniteSet(records) /\ RecordsAreSound

\* A share that is sent: its id is above every id of the connection, what is remembered
\* under that id goes, and no record has its solution.
LEMMA SentRecordSound ==
  ASSUME IInv, RecordInv, SendShare
  PROVE  RecordInv'
<1> DEFINE share == Head(shares)
           id    == NextRequestId
           new   == [id |-> id, share |-> share]
<1>1. CASE ~Submittable(share)
  <2>1. UNCHANGED <<records, pending>>
    BY <1>1 DEF SendShare, sessionVars
  <2> QED
    BY <2>1 DEF RecordInv, RecordsAreSound
<1>2. CASE Submittable(share)
  <2>1. /\ ShareSent(id, share) /\ ~IsDuplicate(share)
        /\ pending' \subseteq pending \cup {[id |-> id, kind |-> "submit", share |-> share]}
    BY <1>2 DEF SendShare, Submittable, SessionEnds
  <2>2. PICK rs \in CleanupOldRecords(records) :
          records' = {r \in rs : r.id # id} \cup {new}
    BY <2>1 DEF ShareSent
  <2>3. /\ records \in SUBSET Record /\ IsFiniteSet(records)
        /\ Cardinality(records) <= MaxReqRecords + 1
    BY DEF IInv, TypeOK, Record, RecordInv, RecordsAreSound
  <2>4. rs \subseteq records /\ IsFiniteSet(rs) /\ Cardinality(rs) <= MaxReqRecords
    BY <2>2, <2>3, CleanupMakesRoom
  <2>5. IsFiniteSet(records') /\ Cardinality(records') <= MaxReqRecords + 1
    <3> DEFINE kept == {r \in rs : r.id # id}
    <3>1. IsFiniteSet(kept) /\ Cardinality(kept) <= Cardinality(rs)
      BY <2>4, FS_Subset
    <3>2. Cardinality(kept) \in Nat /\ Cardinality(rs) \in Nat /\ MaxReqRecords \in Nat
      BY <2>4, <3>1, FS_CardinalityType, ConstantsAssumption
    <3>3. /\ IsFiniteSet(kept \cup {new})
          /\ Cardinality(kept \cup {new}) = IF new \in kept THEN Cardinality(kept)
                                                             ELSE Cardinality(kept) + 1
      <4> HIDE DEF kept, new
      <4> QED
        BY <3>1, FS_AddElement
    <3>4. Cardinality(kept \cup {new}) <= MaxReqRecords + 1
      <4> HIDE DEF kept, new
      <4> QED
        BY <2>4, <3>1, <3>2, <3>3
    <3> QED
      BY <2>2, <3>3, <3>4
  <2>6. ASSUME NEW q \in records', NEW r \in records',
               \/ q.id = r.id
               \/ <<q.share.jobId, q.share.nonce>> = <<r.share.jobId, r.share.nonce>>
        PROVE  q = r
    <3>1. /\ q = new \/ (q \in records /\ q.id # id)
          /\ r = new \/ (r \in records /\ r.id # id)
      BY <2>2, <2>4
    <3>2. \A o \in records : <<o.share.jobId, o.share.nonce>> # <<share.jobId, share.nonce>>
      BY <2>1 DEF IsDuplicate, SameShare
    <3> QED
      BY <2>6, <3>1, <3>2 DEF RecordInv, RecordsAreSound
  <2>7. ASSUME NEW p \in pending', NEW r \in records', p.kind = "submit", p.id = r.id
        PROVE  r.share = p.share
    <3>1. r = new \/ (r \in records /\ r.id # id)
      BY <2>2, <2>4
    <3>2. CASE p \in pending
      <4>1. p.id \in Nat /\ p.id <= lastRequestId
        BY <3>2, UsedTypes DEF IInv, SafeInv, RequestInv
      <4>2. p.id # id
        BY <4>1, NextRequestIdType, UsedTypes DEF IInv
      <4> QED
        BY <2>7, <3>1, <3>2, <4>2 DEF RecordInv, RecordsAreSound
    <3>3. CASE p = [id |-> id, kind |-> "submit", share |-> share]
      BY <2>7, <3>1, <3>3
    <3> QED
      BY <2>1, <3>2, <3>3
  <2> QED
    BY <2>5, <2>6, <2>7 DEF RecordInv, RecordsAreSound
<1> QED
  BY <1>1, <1>2

LEMMA RecordStep == IInv /\ RecordInv /\ [Next]_vars => RecordInv'
<1> SUFFICES ASSUME IInv, RecordInv, [Next]_vars, ~SendShare PROVE RecordInv'
  BY SentRecordSound
<1>1. records' \subseteq records
  BY RecordsShrink
<1>2. \A p \in pending' : p.kind = "submit" => p \in pending
  BY SubmitsAreShares
<1>3. IsFiniteSet(records') /\ Cardinality(records') <= Cardinality(records)
  BY <1>1, FS_Subset DEF RecordInv
<1>4. Cardinality(records') <= MaxReqRecords + 1
  <2>1. /\ Cardinality(records) \in Nat /\ Cardinality(records') \in Nat
        /\ MaxReqRecords \in Nat /\ Cardinality(records) <= MaxReqRecords + 1
    BY <1>3, FS_CardinalityType, ConstantsAssumption DEF RecordInv, RecordsAreSound
  <2> QED
    BY <1>3, <2>1
<1> QED
  BY <1>1, <1>2, <1>3, <1>4 DEF RecordInv, RecordsAreSound

\* However many sessions a process has, with ids that start again in each, the records
\* never hold a solution or an id twice, nor too many, and the record of a pending
\* submit is that of its share (StratumReqMgr: shareSent, remove, clenupOldRecords).
THEOREM RecordsAlwaysSound == Spec => []RecordsAreSound
<1>1. Init => RecordInv
  <2> SUFFICES ASSUME Init PROVE RecordInv
    OBVIOUS
  <2>1. records = {} /\ MaxReqRecords \in Nat
    BY ConstantsAssumption DEF Init
  <2> QED
    BY <2>1, FS_EmptySet DEF RecordInv, RecordsAreSound
<1>2. RecordInv => RecordsAreSound
  BY DEF RecordInv
<1> QED
  BY <1>1, <1>2, RecordStep, AlwaysSafe, PTL DEF Spec
=============================================================================
