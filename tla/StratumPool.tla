----------------------------- MODULE StratumPool -----------------------------
(***************************************************************************)
(* The Stratum client of the master (sm-miner-master/src/pool).            *)
(*                                                                         *)
(* Two threads share the object: the network thread runs netHandler(), the *)
(* main thread hands the current job to the slaves (getCurrentJob) and     *)
(* queues the shares they find (submitShare).  The pool at the other end   *)
(* of the connection and the slaves are the environment.                   *)
(*                                                                         *)
(* The variable pc is the position of the network thread in its loop:      *)
(*   "session"     about to call processNetSession (sleeping or not)       *)
(*   "connecting"  inside connectToPool                                    *)
(*   "input" "resend" "send" "checks"   the parts of one loop iteration    *)
(*   "stopped"     no thread;   "exited"  the thread requested the exit    *)
(* Every mutex of the code protects a section that is one step here.  Two  *)
(* sections that follow each other (both queues cleared, a share taken out *)
(* and submitted, the queue cleared and the job put in) are one step where *)
(* the steps of the main thread that fit between them commute with them.   *)
(***************************************************************************)
EXTENDS Naturals, Sequences, FiniteSets

CONSTANTS
  Nonces,                \* solutions the chips find in one job
  ExtraNonces,           \* values of extranonce1 a pool hands out
  NoExtraNonce,          \* m_extraNonce1Size = 0
  PoolDifficulties,      \* values in mining.set_difficulty, zero included
  InitialDifficulty,     \* m_poolConfig.initialDifficulty (-start_diff), zero or not
  ShareDiffs,            \* pairs <<shareDiff the chip reports, real difficulty>>
  NoShare,               \* the share of a request that is no submit
  FirstJobIdCounter,     \* c_firstJobIdCounter
  DefaultJobId,          \* the id of the built-in job of the chips
  MaxShares,             \* c_maxShares
  MaxSuccessiveRejects,  \* c_maxSuccessiveRejects
  MaxReqRecords,         \* 128 in clenupOldRecords
  MaxConnectionAttempts, \* m_poolConfig.maxConnectionAttempts
  ExitOnError,           \* m_poolConfig.exitOnError
  \* Bounds of the model, not of the code.
  MaxWork,               \* mining.notify messages in a behaviour
  MaxInitialising,       \* "Initialising" replies on one connection
  MaxRequests,           \* requests of a session before the slaves fall silent
  MaxRestarts            \* restarts of the master process

ASSUME ConstantsAssumption ==
  /\ PoolDifficulties \subseteq Nat
  /\ InitialDifficulty \in Nat
  /\ ShareDiffs \subseteq Nat \X Nat
  /\ NoExtraNonce \notin ExtraNonces
  /\ {FirstJobIdCounter, DefaultJobId} \subseteq Nat
  /\ DefaultJobId <= FirstJobIdCounter
  /\ MaxShares \in Nat \ {0}
  /\ {MaxSuccessiveRejects, MaxReqRecords, MaxConnectionAttempts} \subseteq Nat
  /\ ExitOnError \in BOOLEAN
  /\ {MaxWork, MaxInitialising, MaxRequests, MaxRestarts} \subseteq Nat

VARIABLES
  pc,                  \* where the network thread is
  protocolState,       \* m_protocolState
  timers,              \* m_stateTimer, m_noNewJobTimer, ...: see Timers
  lastRequestId, subscribeRequestId, authorizeRequestId,
  jobs, shares,        \* m_jobs, m_shares
  jobIdCounter, extraNonce, difficulty, difficultyReceived,
  connectionAttempts, successiveRejects,
  records,             \* m_reqMgr.records: set of [id, share]
  inputBuffer,         \* "empty", "partial": an unfinished line,
                       \* "stale": an unfinished line of an earlier connection
  \* The environment.
  pending,             \* requests the pool of this connection has not answered
  conn,                \* what that pool did: extranonce given, worker accepted
  handedOut,           \* jobs this process gave to the slaves
  oldJobs,             \* jobs earlier processes gave to the slaves
  nextWork,            \* number of jobs the pools made: identifies their content
  initialisings,       \* "Initialising" replies on this connection
  restarts             \* restarts of the process

requestVars == <<lastRequestId, subscribeRequestId, authorizeRequestId>>
jobDataVars == <<jobIdCounter, extraNonce, difficulty, difficultyReceived>>
slaveVars   == <<handedOut, oldJobs, nextWork, restarts>>
sessionVars == <<pc, protocolState, timers, inputBuffer, pending, conn>>
vars == <<sessionVars, requestVars, jobs, shares, jobDataVars,
          connectionAttempts, successiveRejects, records, initialisings,
          slaveVars>>

-----------------------------------------------------------------------------
(* Data. *)

Timers == {"state", "noNewJob", "nonacceptance", "resend"}
TimerValues == {"stopped", "running", "elapsed"}

States == {"OFFLINE", "CONNECTING", "CONNECTED", "SUBSCRIPTION",
           "AUTHORIZATION", "BOOTSTRAP", "IN_SERVICE"}

InLoop == pc \in {"input", "resend", "send", "checks"}

JobIds == {DefaultJobId} \cup {n \in Nat : n > FirstJobIdCounter}

\* What m_difficulty may be in a session.
Difficulties == {InitialDifficulty} \cup (Nat \ {0})

\* `work' stands for everything the pool put into the job (name, previous hash,
\* coinbase, merkle branch, nbits, ntime): two jobs have the same content only
\* when they are the same job.
Job == [id : JobIds, work : Nat, extraNonce : ExtraNonces \cup {NoExtraNonce},
        difficulty : Difficulties]

\* A share is a solution found in the job with the content `work', reported
\* under the job id the slave was given.  `nonce' stands for nonce, ntime and
\* extranonce2; `actual' is the difficulty of the solution in that job.
Share == [jobId : JobIds, work : Nat, nonce : Nonces, claimed : Nat, actual : Nat]

\* StratumShare::operator== does not look at the difficulty.
SameShare(a, b) == a.jobId = b.jobId /\ a.nonce = b.nonce

Request == [id : Nat, kind : {"subscribe", "authorize", "submit"},
            share : Share \cup {NoShare}]

NoConn == [extraNonce |-> NoExtraNonce, authorized |-> FALSE]

StartTimer(tm, t) == [tm EXCEPT ![t] = "running"]
StopTimer(tm, t)  == [tm EXCEPT ![t] = "stopped"]

\* RingQueue::enqueue: a full queue drops its oldest element.
Enqueue(queue, x, capacity) ==
  IF Len(queue) < capacity THEN Append(queue, x) ELSE Append(Tail(queue), x)

NextRequestId == lastRequestId + 1

-----------------------------------------------------------------------------
(* The bookkeeping of requests: StratumReqMgr. *)

\* clenupOldRecords: at most the record with the smallest id goes; it must go
\* when there are too many records, it may go when it is older than 36 seconds.
CleanupOldRecords(rs) ==
  LET oldest == {r \in rs : \A q \in rs : r.id <= q.id}
  IN  IF Cardinality(rs) > MaxReqRecords THEN {rs \ oldest} ELSE {rs, rs \ oldest}

\* Mutant of IsDuplicate: only a share that waits once more is recognised.
IsQueuedTwice(share) == \E i \in 2 .. Len(shares) : SameShare(shares[i], share)

IsDuplicate(share) == \E r \in records : SameShare(r.share, share)

\* Mutant of ShareSent: map::insert, which keeps an older record of that id.
ShareInserted(id, share) ==
  \E rs \in CleanupOldRecords(records) :
    records' = IF \E r \in rs : r.id = id THEN rs
               ELSE rs \cup {[id |-> id, share |-> share]}

\* shareSent: records[reqId] = r, after a clean-up.
ShareSent(id, share) ==
  \E rs \in CleanupOldRecords(records) :
    records' = {r \in rs : r.id # id} \cup {[id |-> id, share |-> share]}

\* remove, preceded by getShare when the share was rejected: both clean up.
RemoveRecord(id, rejected) ==
  \E rs \in IF rejected THEN CleanupOldRecords(records) ELSE {records} :
    records' \in CleanupOldRecords({r \in rs : r.id # id})

-----------------------------------------------------------------------------
(* Pieces of the network thread. *)

\* The end of an iteration of netHandler, after processNetSession returned or
\* threw in the state st with the timers tm: the socket is closed, the state goes
\* OFFLINE, the input buffer is cleared.
SessionEnds(st, tm, errorOccurred) ==
  /\ pc' = IF errorOccurred /\ st = "IN_SERVICE" /\ ExitOnError
           THEN "exited" ELSE "session"
  /\ protocolState' = "OFFLINE"
  /\ timers' = StartTimer(tm, "state")
  /\ inputBuffer' = "empty"
  /\ pending' = {}
  /\ conn' = NoConn

\* setState(st), getNextRequestId, formatOutput, sendOutputData: the request
\* reaches the pool, or the send throws and ends the session.  An input line
\* (pc = "input") is used up by now; connection and answered say what that line
\* changed at the pool.
SendHandshake(kind, st, tm, connection, answered) ==
  /\ lastRequestId' = NextRequestId
  /\ \/ /\ pc' = IF pc = "resend" THEN "send" ELSE "input"
        /\ protocolState' = st
        /\ timers' = StartTimer(tm, "state")
        /\ inputBuffer' = IF pc = "input" THEN "empty" ELSE inputBuffer
        /\ conn' = connection
        /\ pending' = (pending \ answered) \cup
                        {[id |-> NextRequestId, kind |-> kind, share |-> NoShare]}
     \/ SessionEnds(st, tm, TRUE)

SubscribeToPool(tm) ==
  /\ subscribeRequestId' = NextRequestId
  /\ SendHandshake("subscribe", "SUBSCRIPTION", tm, conn, {})
  /\ UNCHANGED authorizeRequestId

AuthorizeWorker(connection, answered) ==
  /\ authorizeRequestId' = NextRequestId
  /\ SendHandshake("authorize", "AUTHORIZATION", timers, connection, answered)
  /\ UNCHANGED subscribeRequestId

ClearQueues == jobs' = <<>> /\ shares' = <<>>

\* onNewExtranonce, once its arguments have been checked.
NewExtranonceOnly(e) ==            \* mutant: the old jobs stay
  /\ extraNonce' = e
  /\ UNCHANGED <<jobs, shares>>

OnNewExtranonce(e) == extraNonce' = e /\ ClearQueues

\* Mutants of ProcessBootstrap: a job is enough; the job timer is not restarted.
BootstrapOnJob(js, received, tm) ==
  IF js # <<>>
  THEN /\ protocolState' = "IN_SERVICE"
       /\ timers' = StartTimer(StartTimer(tm, "state"), "noNewJob")
  ELSE /\ protocolState' = "BOOTSTRAP"
       /\ timers' = tm

BootstrapNoTimer(js, received, tm) ==
  IF js # <<>> /\ received
  THEN /\ protocolState' = "IN_SERVICE"
       /\ timers' = StartTimer(tm, "state")
  ELSE /\ protocolState' = "BOOTSTRAP"
       /\ timers' = tm

\* processBootstrap in the BOOTSTRAP state, with the jobs js and the flag received.
ProcessBootstrap(js, received, tm) ==
  IF js # <<>> /\ received
  THEN /\ protocolState' = "IN_SERVICE"
       /\ timers' = StartTimer(StartTimer(tm, "state"), "noNewJob")
  ELSE /\ protocolState' = "BOOTSTRAP"
       /\ timers' = tm

-----------------------------------------------------------------------------
(* The life of the network thread. *)

\* doStart: a new thread enters netHandler.  What an earlier thread left behind
\* stays, the input buffer included.
StartThread ==
  /\ pc = "stopped"
  /\ pc' = "session"
  /\ protocolState' = "OFFLINE"
  /\ timers' = StartTimer(timers, "state")
  /\ connectionAttempts' = 0
  /\ UNCHANGED <<inputBuffer, pending, conn, requestVars, jobs, shares, jobDataVars,
                 successiveRejects, records, initialisings, slaveVars>>

\* doStop: cancel(true) and join.  The thread either sees the request in its loop
\* condition and leaves in order, or pthread_cancel unwinds it where it is: the
\* socket is closed by its destructor and nothing else is tidied up.
StopThread ==
  /\ pc \notin {"stopped", "exited"}
  /\ pc' = "stopped"
  /\ pending' = {}
  /\ conn' = NoConn
  /\ \/ /\ protocolState' = "OFFLINE"
        /\ timers' = StartTimer(timers, "state")
        /\ inputBuffer' = "empty"
     \/ UNCHANGED <<protocolState, timers, inputBuffer>>
  /\ UNCHANGED <<requestVars, jobs, shares, jobDataVars, connectionAttempts,
                 successiveRejects, records, initialisings, slaveVars>>

\* processNetSession up to the connect call.
BeginSession ==
  /\ pc = "session"
  /\ ClearQueues
  /\ successiveRejects' = 0
  /\ lastRequestId' = 0
  /\ subscribeRequestId' = 0
  /\ authorizeRequestId' = 0
  /\ difficulty' = InitialDifficulty
  /\ difficultyReceived' = FALSE
  /\ connectionAttempts' = connectionAttempts + 1
  /\ protocolState' = "CONNECTING"
  /\ timers' = StartTimer(StopTimer(timers, "nonacceptance"), "state")
  /\ inputBuffer' = IF inputBuffer = "empty" THEN "empty" ELSE "stale"
  /\ initialisings' = 0
  /\ pc' = "connecting"
  /\ UNCHANGED <<pending, conn, jobIdCounter, extraNonce, records, slaveVars>>

\* connect returns; the client subscribes at once.
ConnectSucceeds ==
  /\ pc = "connecting"
  /\ connectionAttempts' = 0
  /\ SubscribeToPool(timers)
  /\ UNCHANGED <<jobs, shares, jobDataVars, successiveRejects, records,
                 initialisings, slaveVars>>

\* connect throws: ConnectionException.
ConnectFails ==
  /\ pc = "connecting"
  /\ IF connectionAttempts >= MaxConnectionAttempts
     THEN pc' = "exited"
          /\ UNCHANGED <<protocolState, timers, inputBuffer, pending, conn>>
     ELSE SessionEnds("CONNECTING", timers, TRUE)
  /\ UNCHANGED <<requestVars, jobs, shares, jobDataVars, connectionAttempts,
                 successiveRejects, records, initialisings, slaveVars>>

-----------------------------------------------------------------------------
(* Input from the pool: onInputData and onInputMessage. *)

Replies(kind) ==
  IF kind = "subscribe"
  THEN [text : {"subscribed"}, extraNonce : ExtraNonces]
         \cup [text : {"Initialising", "error"}, extraNonce : {NoExtraNonce}]
  ELSE [text : {"true", "false"}, extraNonce : {NoExtraNonce}]

\* What a reply means to the pool that sends it.
ConnAfter(r, reply) ==
  CASE reply.text = "subscribed" -> [conn EXCEPT !.extraNonce = reply.extraNonce]
    [] reply.text = "true" /\ r.kind = "authorize" -> [conn EXCEPT !.authorized = TRUE]
    [] OTHER -> conn

\* A complete line that does not end the session: the thread stays in its input
\* loop, the line leaves the buffer.
LineUsed(r, reply) ==
  /\ pc' = "input"
  /\ inputBuffer' = "empty"
  /\ pending' = pending \ {r}
  /\ conn' = ConnAfter(r, reply)

OnResponseToSubscribe(r, reply) ==
  /\ UNCHANGED <<jobIdCounter, difficulty, difficultyReceived, successiveRejects, records>>
  /\ CASE protocolState # "SUBSCRIPTION" ->
            /\ LineUsed(r, reply)
            /\ UNCHANGED <<protocolState, timers, requestVars, jobs, shares, extraNonce>>
       [] protocolState = "SUBSCRIPTION" /\ reply.text = "Initialising" ->
            /\ LineUsed(r, reply)
            /\ timers' = StartTimer(timers, "resend")
            /\ UNCHANGED <<protocolState, requestVars, jobs, shares, extraNonce>>
       [] protocolState = "SUBSCRIPTION" /\ reply.text = "subscribed" ->
            /\ OnNewExtranonce(reply.extraNonce)
            /\ AuthorizeWorker(ConnAfter(r, reply), {r})
       [] OTHER ->
            /\ SessionEnds(protocolState, timers, TRUE)
            /\ UNCHANGED <<requestVars, jobs, shares, extraNonce>>

OnResponseToAuthorize(r, reply) ==
  /\ CASE protocolState # "AUTHORIZATION" ->
            LineUsed(r, reply) /\ UNCHANGED <<protocolState, timers>>
       [] protocolState = "AUTHORIZATION" /\ reply.text \in {"true", "subscribed", "Initialising"} ->
            /\ LineUsed(r, reply)
            /\ ProcessBootstrap(jobs, difficultyReceived, StartTimer(timers, "state"))
       [] OTHER -> SessionEnds(protocolState, timers, TRUE)
  /\ UNCHANGED <<requestVars, jobs, shares, jobDataVars, successiveRejects, records>>

\* Every other response is taken for the answer to a mining.submit.
OnResponseToSubmit(r, reply) ==
  LET accepted == reply.text \notin {"false", "error"}
      tooMany  == ~accepted /\ successiveRejects + 1 > MaxSuccessiveRejects
  IN  /\ LineUsed(r, reply)
      /\ timers' = IF accepted THEN StartTimer(timers, "nonacceptance") ELSE timers
      /\ successiveRejects' = IF accepted \/ tooMany THEN 0 ELSE successiveRejects + 1
      /\ IF tooMany THEN ClearQueues ELSE UNCHANGED <<jobs, shares>>
      /\ RemoveRecord(r.id, ~accepted)
      /\ UNCHANGED <<protocolState, requestVars, jobDataVars>>

\* A pool answers subscriptions in the order it received them, and repeats
\* "Initialising" a bounded number of times.
OnResponse ==
  /\ pc = "input"
  /\ inputBuffer # "stale"
  /\ \E r \in pending : \E reply \in Replies(r.kind) :
       /\ r.kind = "subscribe" => \A q \in pending : q.kind = "subscribe" => r.id <= q.id
       /\ reply.text = "Initialising" => initialisings < MaxInitialising
       /\ initialisings' = initialisings + (IF reply.text = "Initialising" THEN 1 ELSE 0)
       /\ IF r.id = authorizeRequestId THEN OnResponseToAuthorize(r, reply)
          ELSE IF r.id = subscribeRequestId THEN OnResponseToSubscribe(r, reply)
          ELSE OnResponseToSubmit(r, reply)
  /\ UNCHANGED <<connectionAttempts, slaveVars>>

\* A notification: a complete line that answers no request.
OnNotifyFromPool ==
  /\ pc = "input"
  /\ inputBuffer # "stale"
  /\ inputBuffer' = "empty"
  /\ UNCHANGED <<pc, pending, requestVars, connectionAttempts, successiveRejects,
                 records, initialisings, handedOut, oldJobs, restarts>>

\* mining.set_extranonce: onNewExtranonce.
OnMiningSetExtranonce ==
  /\ OnNotifyFromPool
  /\ \E e \in ExtraNonces :
       /\ OnNewExtranonce(e)
       /\ conn' = [conn EXCEPT !.extraNonce = e]
  /\ UNCHANGED <<protocolState, timers, jobIdCounter, difficulty, difficultyReceived,
                 nextWork>>

ValidDifficultyOrZero(d) == d >= 0    \* mutant: off by one
ValidDifficulty(d) == d > 0

OnSetDifficulty ==
  /\ OnNotifyFromPool
  /\ \E d \in PoolDifficulties :
       IF ValidDifficulty(d)
       THEN /\ difficulty' = d
            /\ difficultyReceived' = TRUE
            /\ IF protocolState = "BOOTSTRAP"
               THEN ProcessBootstrap(jobs, TRUE, timers)
               ELSE UNCHANGED <<protocolState, timers>>
       ELSE UNCHANGED <<protocolState, timers, difficulty, difficultyReceived>>
  /\ UNCHANGED <<conn, jobs, shares, jobIdCounter, extraNonce, nextWork>>

\* queueJob: the queue is emptied whatever clean_jobs says, so the search for a
\* job of the same name finds nothing.
NextJobIdNotStored == jobIdCounter + 1 - 1   \* mutant: the increment is lost

NextJobId ==
  IF jobIdCounter + 1 < FirstJobIdCounter THEN FirstJobIdCounter ELSE jobIdCounter + 1

QueueJob ==
  /\ jobIdCounter' = NextJobId
  /\ jobs' = <<[id |-> NextJobId, work |-> nextWork, extraNonce |-> extraNonce,
                difficulty |-> difficulty]>>
  /\ shares' = <<>>

OnNewMiningJob ==
  /\ OnNotifyFromPool
  /\ nextWork <= MaxWork
  /\ nextWork' = nextWork + 1
  /\ QueueJob
  /\ IF protocolState = "BOOTSTRAP"
     THEN ProcessBootstrap(jobs', difficultyReceived, timers)
     ELSE /\ timers' = StartTimer(timers, "noNewJob")
          /\ UNCHANGED protocolState
  /\ UNCHANGED <<conn, extraNonce, difficulty, difficultyReceived>>

\* A line or a receive call that throws.  A bad extranonce2 size is found after
\* the new extranonce1 has been stored.
InputThrows ==
  /\ pc = "input"
  /\ SessionEnds(protocolState, timers, TRUE)
  /\ extraNonce' \in ExtraNonces \cup {extraNonce}
  /\ UNCHANGED <<requestVars, jobs, shares, jobIdCounter, difficulty, difficultyReceived,
                 connectionAttempts, successiveRejects, records, initialisings, slaveVars>>

\* The first line of a connection is glued to what an earlier connection left in
\* the buffer: the text is no JSON and is ignored.
OnGarbledLine ==
  /\ pc = "input"
  /\ inputBuffer = "stale"
  /\ inputBuffer' = "empty"
  /\ pending' \in {pending} \cup {pending \ {r} : r \in pending}
  /\ UNCHANGED <<pc, protocolState, timers, conn, requestVars, jobs, shares, jobDataVars,
                 connectionAttempts, successiveRejects, records, initialisings, slaveVars>>

\* No complete line is left in the buffer; an unfinished one may be.
InputDone ==
  /\ pc = "input"
  /\ pc' = "resend"
  /\ inputBuffer' \in {inputBuffer, IF inputBuffer = "empty" THEN "partial" ELSE inputBuffer}
  /\ UNCHANGED <<protocolState, timers, pending, conn, requestVars, jobs, shares,
                 jobDataVars, connectionAttempts, successiveRejects, records,
                 initialisings, slaveVars>>

-----------------------------------------------------------------------------
(* The rest of a loop iteration. *)

\* m_subscribeResendTimer has run for five seconds.  It is looked at in every
\* state and no session stops it.
ResendSubscribe ==
  /\ pc = "resend"
  /\ timers["resend"] = "elapsed"
  /\ SubscribeToPool(StopTimer(timers, "resend"))
  /\ UNCHANGED <<jobs, shares, jobDataVars, connectionAttempts, successiveRejects,
                 records, initialisings, slaveVars>>

NoResend ==
  /\ pc = "resend"
  /\ timers["resend"] # "elapsed"
  /\ pc' = "send"
  /\ UNCHANGED <<protocolState, timers, inputBuffer, pending, conn, requestVars, jobs,
                 shares, jobDataVars, connectionAttempts, successiveRejects, records,
                 initialisings, slaveVars>>

\* Mutant of Submittable: the slave's word is taken for the share's difficulty.
SubmittableUnvalidated(share) ==
  /\ share.jobId # DefaultJobId
  /\ ~IsDuplicate(share)
  /\ \E i \in 1 .. Len(jobs) :
       /\ jobs[i].id = share.jobId
       /\ share.claimed >= jobs[i].difficulty

\* The tests sendShare makes before it submits; job is what getJob found.  The
\* validator recomputes the hash in that job: a solution of another job fails.
Submittable(share) ==
  /\ share.jobId # DefaultJobId
  /\ ~IsDuplicate(share)
  /\ \E i \in 1 .. Len(jobs) :
       /\ jobs[i].id = share.jobId
       /\ share.claimed >= jobs[i].difficulty
       /\ share.work = jobs[i].work
       /\ share.actual >= jobs[i].difficulty

\* One round of the loop of sendAllPendingShares, entered with shares in the queue
\* and in the IN_SERVICE state only; the mutex is free between two rounds.  The
\* record is written before the send, which may throw.
SendShare ==
  /\ pc = "send"
  /\ protocolState = "IN_SERVICE"
  /\ shares # <<>>
  /\ shares' = Tail(shares)
  /\ LET share == Head(shares)
     IN  IF Submittable(share)
         THEN /\ lastRequestId' = NextRequestId
              /\ ShareSent(NextRequestId, share)
              /\ \/ /\ pending' = pending \cup
                         {[id |-> NextRequestId, kind |-> "submit", share |-> share]}
                    /\ UNCHANGED <<pc, protocolState, timers, inputBuffer, conn>>
                 \/ SessionEnds("IN_SERVICE", timers, TRUE)
         ELSE UNCHANGED <<sessionVars, lastRequestId, records>>
  /\ UNCHANGED <<subscribeRequestId, authorizeRequestId, jobs, jobDataVars,
                 connectionAttempts, successiveRejects, initialisings, slaveVars>>

SendDone ==
  /\ pc = "send"
  /\ protocolState # "IN_SERVICE" \/ shares = <<>>
  /\ pc' = "checks"
  /\ UNCHANGED <<protocolState, timers, inputBuffer, pending, conn, requestVars, jobs,
                 shares, jobDataVars, connectionAttempts, successiveRejects, records,
                 initialisings, slaveVars>>

\* Mutant of SessionTimedOut: no checkSubscriptionTimeout.
TimedOutNotSubscribing ==
  \/ /\ timers["state"] = "elapsed"
     /\ \/ protocolState = "AUTHORIZATION"
        \/ protocolState = "BOOTSTRAP" /\ (jobs = <<>> \/ ~difficultyReceived)
  \/ /\ protocolState = "IN_SERVICE"
     /\ timers["noNewJob"] = "elapsed" \/ timers["nonacceptance"] = "elapsed"

\* The five check...Timeout calls.
SessionTimedOut ==
  \/ /\ timers["state"] = "elapsed"
     /\ \/ protocolState \in {"AUTHORIZATION", "SUBSCRIPTION"}
        \/ protocolState = "BOOTSTRAP" /\ (jobs = <<>> \/ ~difficultyReceived)
  \/ /\ protocolState = "IN_SERVICE"
     /\ timers["noNewJob"] = "elapsed" \/ timers["nonacceptance"] = "elapsed"

CheckTimeouts ==
  /\ pc = "checks"
  /\ IF SessionTimedOut
     THEN SessionEnds(protocolState, timers, TRUE)
     ELSE /\ pc' = "input"
          /\ UNCHANGED <<protocolState, timers, inputBuffer, pending, conn>>
  /\ UNCHANGED <<requestVars, jobs, shares, jobDataVars, connectionAttempts,
                 successiveRejects, records, initialisings, slaveVars>>

\* Time passes: a running timer reaches its limit.  It may do so at any moment, but
\* the loop looks at the resend timer in one place and at the others in one, and a
\* timer that is restarted or stopped before is as if it had not elapsed.
Elapse(t) ==
  /\ pc = IF t = "resend" THEN "resend" ELSE "checks"
  /\ timers[t] = "running"
  /\ timers' = [timers EXCEPT ![t] = "elapsed"]
  /\ UNCHANGED <<pc, protocolState, inputBuffer, pending, conn, requestVars, jobs, shares,
                 jobDataVars, connectionAttempts, successiveRejects, records,
                 initialisings, slaveVars>>

-----------------------------------------------------------------------------
(* The main thread, and the process. *)

\* getCurrentJob, and its result goes to the slaves.
GetCurrentJob ==
  /\ jobs # <<>>
  /\ handedOut' = handedOut \cup {jobs[Len(jobs)]}
  /\ UNCHANGED <<sessionVars, requestVars, jobs, shares, jobDataVars, connectionAttempts,
                 successiveRejects, records, initialisings, oldJobs, nextWork, restarts>>

\* What a slave may report at any time: a solution of any job it was ever given,
\* or of the built-in job; the same one several times.
Reportable ==
  {[jobId |-> j.id, work |-> j.work, nonce |-> n, claimed |-> d[1], actual |-> d[2]] :
      j \in handedOut \cup oldJobs, n \in Nonces, d \in ShareDiffs}
  \cup {[jobId |-> DefaultJobId, work |-> 0, nonce |-> n, claimed |-> d[1], actual |-> d[2]] :
      n \in Nonces, d \in ShareDiffs}

SubmitShare ==
  /\ lastRequestId + Len(shares) < MaxRequests
  /\ \E share \in Reportable : shares' = Enqueue(shares, share, MaxShares)
  /\ UNCHANGED <<sessionVars, requestVars, jobs, jobDataVars, connectionAttempts,
                 successiveRejects, records, initialisings, slaveVars>>

\* The process ends, by itself or not, and is started again: every member gets its
\* constructor's value and doStart starts the thread.  The slaves go on.
ProcessRestart ==
  /\ restarts < MaxRestarts
  /\ restarts' = restarts + 1
  /\ handedOut' = {}
  /\ oldJobs' = oldJobs \cup handedOut
  /\ pc' = "session" /\ protocolState' = "OFFLINE"
  /\ timers' = [t \in Timers |-> IF t = "state" THEN "running" ELSE "stopped"]
  /\ lastRequestId' = 0 /\ subscribeRequestId' = 0 /\ authorizeRequestId' = 0
  /\ jobs' = <<>> /\ shares' = <<>>
  /\ jobIdCounter' = FirstJobIdCounter
  /\ extraNonce' = NoExtraNonce
  /\ difficulty' = 0 /\ difficultyReceived' = FALSE
  /\ connectionAttempts' = 0 /\ successiveRejects' = 0
  /\ records' = {} /\ inputBuffer' = "empty"
  /\ pending' = {} /\ conn' = NoConn
  /\ initialisings' = 0
  /\ UNCHANGED nextWork

-----------------------------------------------------------------------------

Init ==
  /\ pc = "session" /\ protocolState = "OFFLINE"
  /\ timers = [t \in Timers |-> IF t = "state" THEN "running" ELSE "stopped"]
  /\ lastRequestId = 0 /\ subscribeRequestId = 0 /\ authorizeRequestId = 0
  /\ jobs = <<>> /\ shares = <<>>
  /\ jobIdCounter = FirstJobIdCounter
  /\ extraNonce = NoExtraNonce
  /\ difficulty = 0 /\ difficultyReceived = FALSE
  /\ connectionAttempts = 0 /\ successiveRejects = 0
  /\ records = {} /\ inputBuffer = "empty"
  /\ pending = {} /\ conn = NoConn
  /\ initialisings = 0
  /\ handedOut = {} /\ oldJobs = {}
  /\ nextWork = 1
  /\ restarts = 0

\* The steps of a running network thread.
NetThread ==
  \/ BeginSession \/ ConnectSucceeds \/ ConnectFails
  \/ OnResponse \/ OnMiningSetExtranonce \/ OnSetDifficulty \/ OnNewMiningJob
  \/ InputThrows \/ OnGarbledLine \/ InputDone
  \/ ResendSubscribe \/ NoResend \/ SendShare \/ SendDone \/ CheckTimeouts

MainThread == StartThread \/ StopThread \/ GetCurrentJob \/ SubmitShare

Next ==
  \/ NetThread
  \/ MainThread
  \/ \E t \in Timers : Elapse(t)
  \/ ProcessRestart

Spec == Init /\ [][Next]_vars

\* The scheduler runs the network thread, a receive call returns a bounded number
\* of lines, and time goes on.
Fairness ==
  /\ WF_vars(NetThread)
  /\ WF_vars(InputDone)
  /\ \A t \in Timers : SF_vars(Elapse(t))

FairSpec == Spec /\ Fairness

-----------------------------------------------------------------------------
(* Properties. *)

\* The range of every variable: in particular no job carries a difficulty zero from the
\* pool.
TypeOK ==
  /\ pc \in {"session", "connecting", "input", "resend", "send", "checks",
             "stopped", "exited"}
  /\ protocolState \in States
  /\ timers \in [Timers -> TimerValues]
  /\ lastRequestId \in Nat /\ subscribeRequestId \in Nat /\ authorizeRequestId \in Nat
  /\ jobs \in Seq(Job) /\ shares \in Seq(Share)
  /\ Len(shares) <= MaxShares
  /\ jobIdCounter \in Nat /\ jobIdCounter >= FirstJobIdCounter
  /\ extraNonce \in ExtraNonces \cup {NoExtraNonce}
  /\ difficulty \in Nat /\ (InLoop \/ pc = "connecting" => difficulty \in Difficulties)
  /\ difficultyReceived \in BOOLEAN /\ (difficultyReceived => difficulty > 0)
  /\ connectionAttempts \in Nat /\ successiveRejects \in Nat
  /\ records \in SUBSET [id : Nat, share : Share]
  /\ inputBuffer \in {"empty", "partial", "stale"}
  /\ pending \in SUBSET Request
  /\ conn \in [extraNonce : ExtraNonces \cup {NoExtraNonce}, authorized : BOOLEAN]
  /\ handedOut \in SUBSET Job /\ oldJobs \in SUBSET Job
  /\ nextWork \in Nat /\ initialisings \in Nat /\ restarts \in Nat

\* On a connection whose subscription was answered, every queued job was built
\* with the extranonce the pool holds for this connection, and so will the next
\* one: no job of an earlier session or of an earlier extranonce is left
\* (processNetSession and onNewExtranonce clear the queues).
QueueIsCurrent ==
  InLoop /\ protocolState \in {"AUTHORIZATION", "BOOTSTRAP", "IN_SERVICE"} =>
    /\ extraNonce = conn.extraNonce
    /\ \A i \in 1 .. Len(jobs) : jobs[i].extraNonce = conn.extraNonce

\* IN_SERVICE on a connection means that this connection's pool accepted the
\* worker and sent a difficulty, and that the 30 minutes without a job are being
\* measured (onResponseToAuthorize, processBootstrap).
ServiceIsReady ==
  InLoop /\ protocolState = "IN_SERVICE" =>
    /\ conn.authorized
    /\ difficultyReceived
    /\ timers["noNewJob"] # "stopped"

\* A submit goes out only on a connection whose pool accepted the worker, for a
\* queued job of that connection's extranonce, with a solution of that very job
\* that reaches the job's difficulty: although slaves report late, repeat
\* themselves, and keep working for an earlier process whose job ids collide.
SubmitsAreGood ==
  [][\A p \in pending' \ pending : p.kind = "submit" =>
       /\ conn.authorized
       /\ \E i \in 1 .. Len(jobs) :
            /\ jobs[i].id = p.share.jobId
            /\ jobs[i].work = p.share.work
            /\ jobs[i].extraNonce = conn.extraNonce
            /\ p.share.actual >= jobs[i].difficulty]_vars

\* What getCurrentJob gives the slave gate comes as JobSource says, whatever the pool,
\* the timers and the main thread do: over all its sessions a process gives every job
\* an id of its own, and a job that a slave got from the gate was never changed under
\* its id (queueJob, clearQueues).
NoJob == [id |-> 0, work |-> 0]
CurrentJob == IF jobs = <<>> THEN NoJob
              ELSE [id |-> jobs[Len(jobs)].id, work |-> jobs[Len(jobs)].work]
Source == INSTANCE JobSource WITH
  FirstId <- FirstJobIdCounter, job <- CurrentJob,
  jobIdCounter <- jobIdCounter - FirstJobIdCounter, works <- nextWork - 1
ImplementsJobSource == Source!Spec

\* StratumReqMgr never remembers the same solution of a job twice, nor two shares
\* for one request, nor more than one record above its limit, although ids restart
\* with each session while records do not go away; and what is remembered for a
\* request id of this connection is the share that was submitted under it, never a
\* share of an earlier session (the reject report of onResponseToSubmit names it).
RecordsAreSound ==
  /\ \A q, r \in records :
       q.id = r.id \/ <<q.share.jobId, q.share.nonce>> = <<r.share.jobId, r.share.nonce>>
         => q = r
  /\ Cardinality(records) <= MaxReqRecords + 1
  /\ \A p \in pending : \A r \in records :
       p.kind = "submit" /\ p.id = r.id => r.share = p.share

\* A session under construction goes IN_SERVICE or ends: whatever the pool leaves
\* unanswered, no state waits for ever (the state timer and its checks).
SetupResolves ==
  pc = "connecting" \/ (InLoop /\ protocolState # "IN_SERVICE")
    ~> (InLoop /\ protocolState = "IN_SERVICE") \/ pc \in {"session", "stopped", "exited"}

\* A session in service whose queue was emptied by a new extranonce or by rejects
\* gets a job or ends: the slaves are not left with old work for ever.
ServiceIsFed ==
  InLoop /\ protocolState = "IN_SERVICE" /\ jobs = <<>>
    ~> jobs # <<>> \/ ~InLoop
=============================================================================
