------------------------------ MODULE RefreshJob ------------------------------
(***************************************************************************)
(* One job of the asynchronous order refresh: its row (table               *)
(* order_refresh_jobs), the request that creates it, the scan that takes   *)
(* expired ones over, the user's cancellation, and the runner that keeps a *)
(* handle of every worker in memory and is closed with the process.        *)
(*                                                                         *)
(* A worker writes its result under its own context, so one that was       *)
(* canceled or timed out writes nothing and leaves the row to the next     *)
(* scan, once the lease (a minute longer than a worker may take) is over.  *)
(*                                                                         *)
(* Tokens are random in the code and numbers here, in the order of their   *)
(* issue; 0 is the empty one.  Jobs share nothing but the runner.          *)
(***************************************************************************)
EXTENDS Integers

CONSTANTS
    MaxTokens,         \* bound: tokens issued
    MaxRefreshEnv      \* bound: restarts, time-outs, failing statements, early lapses

ASSUME RefreshBounds == MaxTokens \in Nat \ {0} /\ MaxRefreshEnv \in Nat

Token == 1 .. MaxTokens
Starter == {"request", "scan"}

VARIABLES
    refreshJob,        \* the row
    issued,            \* tokens issued so far
    starter,           \* CreateAndStart and RunRecovery: where they stand, their token
    refresher,         \* the workers, by token
    handle,            \* runner.workers: the registered worker, 0 for none
    scanner,           \* the context of the recovery loop: "on", "canceled" or "off"
    canceler,          \* CancelForUser: where it stands and the worker it found
    closer,            \* Close: where it stands and what Stop has still to cancel
    refreshEnv         \* disturbances left

refreshVars ==
    <<refreshJob, issued, starter, refresher, handle, scanner, canceler, closer, refreshEnv>>

Terminal == {"succeeded", "failed", "cancelled"}
JobRow == [status: {"none", "queued", "running"} \cup Terminal, token: 0 .. MaxTokens, leased: BOOLEAN]
StarterState == [pc: {"idle", "requeue", "claim", "start", "release", "done"}, token: 0 .. MaxTokens]
RefresherState == [pc: {"none", "refresh", "complete", "finish", "gone"}, canceled: BOOLEAN]

NoRefresher == [pc |-> "none", canceled |-> FALSE]
Ready == [s \in Starter |-> [pc |-> "idle", token |-> 0]]

RefreshInit ==
    /\ refreshJob = [status |-> "none", token |-> 0, leased |-> FALSE]
    /\ issued = 0 /\ starter = Ready
    /\ refresher = [t \in Token |-> NoRefresher]
    /\ handle = 0 /\ scanner = "on"
    /\ canceler = [pc |-> "idle", found |-> 0]
    /\ closer = [pc |-> "idle", cancels |-> {}]
    /\ refreshEnv = MaxRefreshEnv

StarterAt(s, pc) == starter[s].pc = pc
StarterTo(s, pc) == starter' = [starter EXCEPT ![s] = [pc |-> pc, token |-> 0]]
Stopped == closer.pc # "idle"
Live(t) == refresher[t].pc \in {"refresh", "complete"} /\ ~refresher[t].canceled

\* A request's context ends with its client, the scan's with the runner.
MayQuery(s) == s = "scan" => scanner = "on"

-----------------------------------------------------------------------------
(* Creating and taking over                                                *)

CreateJob ==
    /\ StarterAt("request", "idle") /\ refreshJob.status = "none"
    /\ refreshJob' = [refreshJob EXCEPT !.status = "queued"]
    /\ StarterTo("request", "claim")
    /\ UNCHANGED <<issued, refresher, handle, scanner, canceler, closer, refreshEnv>>

Expired == refreshJob.status = "running" /\ ~refreshJob.leased

ReadRecoverable ==
    /\ scanner = "on" /\ StarterAt("scan", "idle") /\ Expired
    /\ StarterTo("scan", "requeue")
    /\ UNCHANGED <<refreshJob, issued, refresher, handle, scanner, canceler, closer, refreshEnv>>

\* Mutant: the statement relies on the row as the scan has read it.
RequeueAsRead ==
    /\ scanner = "on" /\ StarterAt("scan", "requeue")
    /\ refreshJob' = [status |-> "queued", token |-> 0, leased |-> FALSE]
    /\ StarterTo("scan", "claim")
    /\ UNCHANGED <<issued, refresher, handle, scanner, canceler, closer, refreshEnv>>

RequeueExpired ==
    /\ scanner = "on" /\ StarterAt("scan", "requeue")
    /\ IF Expired
       THEN /\ refreshJob' = [status |-> "queued", token |-> 0, leased |-> FALSE]
            /\ StarterTo("scan", "claim")
       ELSE StarterTo("scan", "idle") /\ UNCHANGED refreshJob
    /\ UNCHANGED <<issued, refresher, handle, scanner, canceler, closer, refreshEnv>>

\* Mutant: an error of one job ends the loop.
EndOfLoop(s) == "done"

EndOf(s) == IF s = "scan" THEN "idle" ELSE "done"

ClaimJob(s) ==
    /\ StarterAt(s, "claim") /\ MayQuery(s) /\ issued < MaxTokens
    /\ issued' = issued + 1
    /\ IF refreshJob.status = "queued"
       THEN /\ refreshJob' = [status |-> "running", token |-> issued + 1, leased |-> TRUE]
            /\ starter' = [starter EXCEPT ![s] = [pc |-> "start", token |-> issued + 1]]
       ELSE StarterTo(s, EndOf(s)) /\ UNCHANGED refreshJob
    /\ UNCHANGED <<refresher, handle, scanner, canceler, closer, refreshEnv>>

Started(t) == [refresher EXCEPT ![t] = [pc |-> "refresh", canceled |-> FALSE]]

\* Mutant: the worker that is registered for the job goes on.
ReplacedQuietly(t) == Started(t)

\* The worker registered for the job before is canceled under the lock.
Replaced(t) ==
    IF handle = 0 THEN Started(t) ELSE [Started(t) EXCEPT ![handle].canceled = TRUE]

StartJob(s) ==
    /\ StarterAt(s, "start")
    /\ IF Stopped
       THEN /\ starter' = [starter EXCEPT ![s].pc = "release"]
            /\ UNCHANGED <<refresher, handle>>
       ELSE /\ refresher' = Replaced(starter[s].token)
            /\ handle' = starter[s].token
            /\ StarterTo(s, EndOf(s))
    /\ UNCHANGED <<refreshJob, issued, scanner, canceler, closer, refreshEnv>>

\* Mutant: the token stays in the row.
WrittenWithToken(t, status) ==
    IF refreshJob.status = "running" /\ refreshJob.token = t
    THEN [refreshJob EXCEPT !.status = status, !.leased = FALSE] ELSE refreshJob

\* Complete: WHERE id=? AND status='running' AND worker_token=?
Written(t, status) ==
    IF refreshJob.status = "running" /\ refreshJob.token = t
    THEN [status |-> status, token |-> 0, leased |-> FALSE] ELSE refreshJob

ReleaseJob(s) ==
    /\ StarterAt(s, "release") /\ MayQuery(s)
    /\ refreshJob' = Written(starter[s].token, "failed")
    /\ StarterTo(s, EndOf(s))
    /\ UNCHANGED <<issued, refresher, handle, scanner, canceler, closer, refreshEnv>>

\* The client went away; the loop was canceled; or the database failed.
StarterFails(s) ==
    /\ ~StarterAt(s, "idle") /\ ~StarterAt(s, "start") /\ ~StarterAt(s, "done")
    /\ MayQuery(s) => refreshEnv > 0
    /\ refreshEnv' = IF MayQuery(s) THEN refreshEnv - 1 ELSE refreshEnv
    /\ StarterTo(s, EndOf(s))
    /\ UNCHANGED <<refreshJob, issued, refresher, handle, scanner, canceler, closer>>

RecoveryLoopEnds ==
    /\ scanner = "canceled" /\ StarterAt("scan", "idle")
    /\ scanner' = "off"
    /\ UNCHANGED <<refreshJob, issued, starter, refresher, handle, canceler, closer, refreshEnv>>

-----------------------------------------------------------------------------
(* The worker                                                              *)

RefreshReturns(t) ==
    /\ refresher[t].pc = "refresh"
    /\ refresher' = [refresher EXCEPT ![t].pc = "complete"]
    /\ UNCHANGED <<refreshJob, issued, starter, handle, scanner, canceler, closer, refreshEnv>>

CompleteJob(t) ==
    /\ refresher[t].pc = "complete" /\ ~refresher[t].canceled
    /\ \E status \in {"succeeded", "failed"} : refreshJob' = Written(t, status)
    /\ refresher' = [refresher EXCEPT ![t].pc = "finish"]
    /\ UNCHANGED <<issued, starter, handle, scanner, canceler, closer, refreshEnv>>

\* The context is done, or the statement fails.
CompleteFailsFor(t) ==
    /\ refresher[t].pc = "complete"
    /\ ~refresher[t].canceled => refreshEnv > 0
    /\ refreshEnv' = IF refresher[t].canceled THEN refreshEnv ELSE refreshEnv - 1
    /\ refresher' = [refresher EXCEPT ![t].pc = "finish"]
    /\ UNCHANGED <<refreshJob, issued, starter, handle, scanner, canceler, closer>>

\* Mutant: a worker removes whatever handle the job has.
HandleDropped(t) == 0

\* Only its own handle.
HandleAfter(t) == IF handle = t THEN 0 ELSE handle

FinishRefresher(t) ==
    /\ refresher[t].pc = "finish"
    /\ refresher' = [refresher EXCEPT ![t].pc = "gone"]
    /\ handle' = HandleAfter(t)
    /\ UNCHANGED <<refreshJob, issued, starter, scanner, canceler, closer, refreshEnv>>

RefreshTimesOut(t) ==
    /\ Live(t) /\ refreshEnv > 0
    /\ refreshEnv' = refreshEnv - 1
    /\ refresher' = [refresher EXCEPT ![t].canceled = TRUE]
    /\ UNCHANGED <<refreshJob, issued, starter, handle, scanner, canceler, closer>>

-----------------------------------------------------------------------------
(* Cancelling and closing                                                  *)

CancelRow ==
    /\ canceler.pc = "idle" /\ refreshJob.status \in {"queued", "running"}
    /\ refreshJob' = [status |-> "cancelled", token |-> 0, leased |-> FALSE]
    /\ canceler' = [canceler EXCEPT !.pc = "find"]
    /\ UNCHANGED <<issued, starter, refresher, handle, scanner, closer, refreshEnv>>

\* CancelJob: the handle is read under the lock and used after it.
FindRefresher ==
    /\ canceler.pc = "find"
    /\ canceler' = [pc |-> IF handle = 0 THEN "idle" ELSE "cancel", found |-> handle]
    /\ UNCHANGED <<refreshJob, issued, starter, refresher, handle, scanner, closer, refreshEnv>>

CancelRefresher ==
    /\ canceler.pc = "cancel"
    /\ refresher' = [refresher EXCEPT ![canceler.found].canceled = TRUE]
    /\ canceler' = [pc |-> "idle", found |-> 0]
    /\ UNCHANGED <<refreshJob, issued, starter, handle, scanner, closer, refreshEnv>>

\* Stop empties the table under the lock and cancels after it.
StopRunner ==
    /\ closer.pc = "idle"
    /\ closer' = [pc |-> "cancel", cancels |-> {handle} \ {0}]
    /\ handle' = 0
    /\ UNCHANGED <<refreshJob, issued, starter, refresher, scanner, canceler, refreshEnv>>

CancelAll ==
    /\ closer.pc = "cancel"
    /\ refresher' = [t \in Token |->
                        IF t \in closer.cancels THEN [refresher[t] EXCEPT !.canceled = TRUE]
                        ELSE refresher[t]]
    /\ scanner' = IF scanner = "on" THEN "canceled" ELSE scanner
    /\ closer' = [pc |-> "wait", cancels |-> {}]
    /\ UNCHANGED <<refreshJob, issued, starter, handle, canceler, refreshEnv>>

Working(t) == refresher[t].pc \notin {"none", "gone"}

\* Mutant: the count of active goroutines leaves out the recovery loop.
DrainedWorkers == \A t \in Token : ~Working(t)

Drained == scanner = "off" /\ \A t \in Token : ~Working(t)

CloseRunner ==
    /\ closer.pc = "wait" /\ Drained
    /\ closer' = [closer EXCEPT !.pc = "closed"]
    /\ UNCHANGED <<refreshJob, issued, starter, refresher, handle, scanner, canceler, refreshEnv>>

-----------------------------------------------------------------------------
(* Time and restarts                                                       *)

InStart(t) == \E s \in Starter : starter[s] = [pc |-> "start", token |-> t]
Held == InStart(refreshJob.token) \/ (refreshJob.token # 0 /\ Live(refreshJob.token))

\* The lease outlives the worker, unless the clock of the host was moved.
RefreshLeaseLapses ==
    /\ refreshJob.status = "running" /\ refreshJob.leased
    /\ Held => refreshEnv > 0
    /\ refreshEnv' = IF Held THEN refreshEnv - 1 ELSE refreshEnv
    /\ refreshJob' = [refreshJob EXCEPT !.leased = FALSE]
    /\ UNCHANGED <<issued, starter, refresher, handle, scanner, canceler, closer>>

\* The process ends, in order or not, and is started again.
RestartProcess ==
    /\ refreshEnv > 0 /\ refreshEnv' = refreshEnv - 1
    /\ starter' = [Ready EXCEPT !["request"].pc = IF StarterAt("request", "idle") THEN "idle" ELSE "done"]
    /\ refresher' = [t \in Token |-> IF Working(t) THEN [refresher[t] EXCEPT !.pc = "gone"] ELSE refresher[t]]
    /\ handle' = 0 /\ scanner' = "on"
    /\ canceler' = [pc |-> "idle", found |-> 0]
    /\ closer' = [pc |-> "idle", cancels |-> {}]
    /\ UNCHANGED <<refreshJob, issued>>

-----------------------------------------------------------------------------
(* Specification                                                           *)

RefreshWork(t) == RefreshReturns(t) \/ CompleteJob(t) \/ CompleteFailsFor(t) \/ FinishRefresher(t)

StartWork(s) == ClaimJob(s) \/ StartJob(s) \/ ReleaseJob(s) \/ StarterFails(s)

ScanWork == ReadRecoverable \/ RequeueExpired \/ StartWork("scan") \/ RecoveryLoopEnds

CloseWork == CancelAll \/ CloseRunner

RefreshNext ==
    \/ CreateJob \/ StartWork("request") \/ ScanWork
    \/ \E t \in Token : RefreshWork(t) \/ RefreshTimesOut(t)
    \/ CancelRow \/ FindRefresher \/ CancelRefresher
    \/ StopRunner \/ CloseWork
    \/ RefreshLeaseLapses \/ RestartProcess

RefreshSpec == RefreshInit /\ [][RefreshNext]_refreshVars

-----------------------------------------------------------------------------
(* Properties                                                              *)

\* A claimed row has a token that was issued, and only a claimed row has one.
RefreshTypeOK ==
    /\ refreshJob \in JobRow /\ issued \in 0 .. MaxTokens
    /\ starter \in [Starter -> StarterState] /\ refresher \in [Token -> RefresherState]
    /\ handle \in 0 .. MaxTokens /\ scanner \in {"on", "canceled", "off"}
    /\ canceler \in [pc: {"idle", "find", "cancel"}, found: 0 .. MaxTokens]
    /\ closer \in [pc: {"idle", "cancel", "wait", "closed"}, cancels: SUBSET Token]
    /\ refreshEnv \in 0 .. MaxRefreshEnv
    /\ refreshJob.token # 0 <=> refreshJob.status = "running"
    /\ refreshJob.token <= issued

\* Whoever has to cancel a worker can reach it: a worker whose context is
\* not done has the job's handle, or Stop is about to cancel it.  So a job
\* has one such worker at a time, whatever leases lapse (runner.workers).
WorkersReachable ==
    \A t \in Token : Live(t) => handle = t \/ (closer.pc = "cancel" /\ t \in closer.cancels)

\* When Close has returned without an error nothing works in the background,
\* and nothing can start (the comment of Close).
ClosedIsQuiet ==
    closer.pc = "closed" => scanner = "off" /\ \A t \in Token : ~Working(t)

\* A finished or canceled job stays what it is: no late worker, no scan with
\* an old snapshot and no refused start writes to it (comment of Complete).
JobEndsOnce ==
    [][refreshJob.status \in Terminal => refreshJob' = refreshJob]_refreshVars

\* A running job does not stay so while the process is up: its worker ends,
\* or the scan takes it over.
JobRuns == refreshJob.status = "running"
RunningJobMoves == JobRuns ~> ~JobRuns \/ Stopped

\* Not so for a queued one: what is interrupted before the claim stays queued,
\* and the scan looks at running jobs only.
QueuedJobMoves ==
    refreshJob.status = "queued" ~> refreshJob.status # "queued" \/ Stopped

\* Every background worker can be canceled and is waited for, and what it
\* recorded at its end stays.
RefreshSafe == [](WorkersReachable /\ ClosedIsQuiet) /\ JobEndsOnce

=============================================================================
