---------------------------- MODULE AutomationRun ----------------------------
(***************************************************************************)
(* One row of automation_runs and everything that may touch it.            *)
(*                                                                         *)
(* A run executes the frozen ActionPlan of one event of one order: sending *)
(* cards and texts to the buyer, then confirming the shipment.  None of    *)
(* the platform's calls takes an idempotency key, so the row is the only   *)
(* protection against sending a card twice.  It is shared by the event     *)
(* handlers (one goroutine per WebSocket delivery), the scheduler          *)
(* goroutine (crash recovery, deferred actions, resumption of              *)
(* pending-ship orders) and the operators who resolve a run put under      *)
(* review.  Every action below is one SQL statement or one transaction, so *)
(* whatever may happen between two statements may happen between two       *)
(* actions: a crash, an expired lease, another claim of the row.           *)
(*                                                                         *)
(* Abstractions.  Time: a lease is held or expired, and a retry that is    *)
(* not due yet is one that has not been claimed yet.  Data: an action is   *)
(* its kind, a result is how the coordinator classifies it, the delivery   *)
(* proof is not represented.  The plan is numbered from 1 (the code: 0).   *)
(***************************************************************************)
EXTENDS Integers, Sequences

CONSTANTS
    Handler,      \* goroutines handling delivered (and redelivered) events
    Scheduler,    \* the one scheduler goroutine of the process
    Operator,     \* concurrent requests to resolve a run under review
    Plan,         \* the frozen plan: a sequence of action kinds
    Delayed,      \* positions of the plan with delay_seconds > 0
    MaxFailed,    \* a failed run is retried below this attempt (3)
    MaxResume,    \* a pending-ship run is reopened below this attempt (5)
    MaxClaims,    \* a deferred task is claimed at most this often (5)
    MaxEnv        \* bound: disturbances (crashes, stalls, decisions) per behaviour

Kind == {"deliver", "text", "confirm"}
Worker == Handler \cup {Scheduler}
Positions == 1 .. Len(Plan)

ASSUME PlanAssumption == Plan \in Seq(Kind)
ASSUME DelayedAssumption == Delayed \subseteq Positions
ASSUME WorkerAssumption == Scheduler \notin Handler
ASSUME BoundAssumption == MaxFailed \in Nat /\ MaxResume \in Nat /\ MaxClaims \in Nat /\ MaxEnv \in Nat

VARIABLES
    run,       \* the row of automation_runs
    deferred,  \* the row of automation_pending_tasks for this event
    worker,    \* the goroutines executing executeRule
    op,        \* a resolution that passed the policy and is not written yet
    env,       \* disturbances left
    issued,    \* history: calls handed out per action, minus those known refused
    retried,   \* history: operator retries of each action
    skipped,   \* history: actions an operator told the run to skip
    unknown    \* history: actions left behind with an unknown outcome, unreviewed

history == <<issued, retried, skipped, unknown>>
vars == <<run, deferred, worker, op, env, history>>

-----------------------------------------------------------------------------
(* Types and initial values                                                *)

RunStatus == {"absent", "running", "success", "failed", "needs_review", "canceled"}
ErrorKind == {"none", "plain", "no_retry", "safe_retry"}
Phase == {"idle", "start", "load", "resume", "ready", "claimed", "calling", "advance", "unsure",
          "abort", "fail", "quarantine", "quarantineResult", "settle"}

Cursor == Nat \ {0}   \* an operator may move it past the end of the plan

RunRow == [status: RunStatus, attempt: Nat, cursor: Cursor, started: BOOLEAN,
           leased: BOOLEAN, sent: Nat, err: ErrorKind]
DeferredRow == [state: {"none", "pending", "running", "dead"}, run: BOOLEAN, at: Nat,
                mark: BOOLEAN, claims: Nat]
WorkerState == [pc: Phase, src: {"event", "recovery", "resume", "deferred"}, att: Nat,
                cur: Cursor, sent: Nat, n: 0 .. 1, kind: ErrorKind, skip: Nat,
                mark: BOOLEAN, claim: Nat, ok: BOOLEAN]

IdleWorker == [pc |-> "idle", src |-> "event", att |-> 0, cur |-> 1, sent |-> 0, n |-> 0,
               kind |-> "none", skip |-> 0, mark |-> FALSE, claim |-> 0, ok |-> FALSE]
NewRun == [status |-> "running", attempt |-> 1, cursor |-> 1, started |-> FALSE,
           leased |-> TRUE, sent |-> 0, err |-> "none"]
NoDeferred == [state |-> "none", run |-> FALSE, at |-> 0, mark |-> FALSE, claims |-> 0]
Deferral(runs, at, mark) ==
    [state |-> "pending", run |-> runs, at |-> at, mark |-> mark, claims |-> 0]

Init ==
    /\ run = [NewRun EXCEPT !.status = "absent", !.attempt = 0, !.leased = FALSE]
    /\ deferred = NoDeferred
    /\ worker = [w \in Worker |-> IdleWorker]
    /\ op = [o \in Operator |-> "none"]
    /\ env = MaxEnv
    /\ issued = [c \in Positions |-> 0]
    /\ retried = [c \in Positions |-> 0]
    /\ skipped = {} /\ unknown = {}

-----------------------------------------------------------------------------
(* The conditions and the effects of the SQL statements                    *)

At(w, pc) == worker[w].pc = pc
Become(w, state) == worker' = [worker EXCEPT ![w] = state]
Goto(w, pc) == Become(w, [worker[w] EXCEPT !.pc = pc])
Refused(w, kind) == Become(w, [worker[w] EXCEPT !.pc = "abort", !.kind = kind])
Fail(w, kind) == Become(w, [worker[w] EXCEPT !.pc = "fail", !.kind = kind])

\* executeRule returns: a deferred task still has to be settled.
Return(w, ok) ==
    Become(w, IF worker[w].src = "deferred"
              THEN [worker[w] EXCEPT !.pc = "settle", !.ok = ok] ELSE IdleWorker)

\* WHERE id=? AND attempt_count=? AND status='running' [AND action_cursor=?]
Holds(w) == run.status = "running" /\ run.attempt = worker[w].att
HoldsAction(w) == Holds(w) /\ run.cursor = worker[w].cur

Retryable ==
    /\ run.attempt < MaxFailed
    /\ run.err = "safe_retry" \/ (run.sent = 0 /\ run.err # "no_retry")

\* Mutant: the takeover of an expired attempt forgets action_started.
ReclaimableIfStarted ==
    \/ run.status = "running" /\ ~run.leased
    \/ run.status = "failed" /\ ~run.started /\ Retryable

\* Mutant: only failed runs are taken over.
ReclaimableIfFailed == run.status = "failed" /\ ~run.started /\ Retryable

Reclaimable ==
    /\ ~run.started
    /\ \/ run.status = "running" /\ ~run.leased
       \/ run.status = "failed" /\ Retryable

Reclaimed == [run EXCEPT !.status = "running", !.attempt = @ + 1, !.leased = TRUE, !.err = "none"]

\* Mutant: putting a run under review gives its claim back.
UnderReviewReleased ==
    [run EXCEPT !.status = "needs_review", !.leased = FALSE, !.err = "plain", !.started = FALSE]

UnderReview == [run EXCEPT !.status = "needs_review", !.leased = FALSE, !.err = "plain"]

\* Mutant: a goroutine of any attempt may quarantine the run.
AnyMayQuarantine(w) == run.status \in {"running", "failed"}

\* QuarantineRun and QuarantineRunResult accept running and failed runs.
MayQuarantine(w) == run.attempt = worker[w].att /\ run.status \in {"running", "failed"}

\* Mutant: a confirmation somewhere ahead is enough.
ConfirmAhead(c) == c \in Positions /\ \E i \in Positions : i >= c /\ Plan[i] = "confirm"

\* Nothing but confirmations is left from action c on.
ConfirmTail(c) == c \in Positions /\ \A i \in Positions : i >= c => Plan[i] = "confirm"

-----------------------------------------------------------------------------
(* executeRule, one worker at a time                                       *)

\* TryStartRun: insert the row, or reclaim it; a duplicate event is skipped.
TryStartRun(w) ==
    /\ At(w, "idle") \/ At(w, "start")
    /\ \/ run.status = "absent" /\ run' = NewRun
       \/ run.status # "absent" /\ Reclaimable /\ run' = Reclaimed
    /\ Goto(w, "load")
    /\ UNCHANGED <<deferred, op, env, history>>

\* prepareRuleRun re-reads the row; only a resumed task requires it to run.
LoadRun(w) ==
    /\ At(w, "load") \/ (At(w, "resume") /\ run.status = "running")
    /\ Become(w, [worker[w] EXCEPT !.pc = "ready", !.att = run.attempt,
                                   !.cur = run.cursor, !.sent = run.sent])
    /\ UNCHANGED <<run, deferred, op, env, history>>

ResumeSkipped(w) ==
    /\ \/ At(w, "resume") /\ run.status # "running"
       \/ At(w, "start") /\ run.status # "absent" /\ ~Reclaimable
    /\ Return(w, TRUE)
    /\ UNCHANGED <<run, deferred, op, env, history>>

\* prepareTask fails before the row is read.  A recovered run stays as it was
\* claimed, a resumed one is queued, a deferred one is charged a failure.
PrepareFails(w) ==
    /\ At(w, "resume") \/ At(w, "start")
    /\ env > 0
    /\ env' = env - 1
    /\ IF worker[w].src = "resume"
       THEN deferred' = Deferral(TRUE, 0, FALSE) /\ Become(w, IdleWorker)
       ELSE Return(w, FALSE) /\ UNCHANGED deferred
    /\ UNCHANGED <<run, op, history>>

\* handleTask finds the account paused: the task goes back to the queue with
\* a fresh budget, before the row is read.
PostponeDeferredTask(w) ==
    /\ At(w, "resume") \/ At(w, "start")
    /\ worker[w].src = "deferred" /\ env > 0
    /\ env' = env - 1
    /\ deferred' = [deferred EXCEPT !.state = "pending", !.claims = 0]
    /\ Become(w, IdleWorker)
    /\ UNCHANGED <<run, op, history>>

\* The account is disabled or no rule matches any more: the task counts as done.
IgnoreTask(w) ==
    /\ At(w, "resume") \/ At(w, "start")
    /\ worker[w].src \in {"deferred", "resume"} /\ env > 0
    /\ env' = env - 1
    /\ Return(w, TRUE)
    /\ UNCHANGED <<run, deferred, op, history>>

\* The account is paused for a new delivery of the event: the queue is keyed by the event,
\* so this replaces a delayed action that is already waiting there.
DeferEvent(w) ==
    /\ At(w, "idle") /\ w \in Handler /\ env > 0
    /\ env' = env - 1
    /\ deferred' = Deferral(FALSE, 0, FALSE)
    /\ UNCHANGED <<run, worker, op, history>>

\* A delayed action is handed to the deferred queue, the uncertainty mark
\* with it, and the lease is extended past the due time.
DeferAction(w) ==
    /\ At(w, "ready") /\ worker[w].cur \in Delayed /\ worker[w].skip # worker[w].cur
    /\ \/ /\ Holds(w)
          /\ run' = [run EXCEPT !.leased = TRUE]
          /\ deferred' = Deferral(TRUE, worker[w].cur, worker[w].mark)
          /\ Become(w, IdleWorker)
       \/ /\ ~Holds(w)
          /\ Fail(w, "plain")
          /\ UNCHANGED <<run, deferred>>
    /\ UNCHANGED <<op, env, history>>

\* Mutant: the claim does not look at action_started.
StartClaimedAction(w) ==
    /\ At(w, "ready") /\ worker[w].cur \in Positions
    /\ worker[w].cur \in Delayed => worker[w].skip = worker[w].cur
    /\ \/ /\ HoldsAction(w)
          /\ run' = [run EXCEPT !.started = TRUE, !.leased = TRUE]
          /\ issued' = [issued EXCEPT ![worker[w].cur] = @ + 1]
          /\ Goto(w, "claimed")
       \/ ~HoldsAction(w) /\ Fail(w, "plain") /\ UNCHANGED <<run, issued>>
    /\ UNCHANGED <<deferred, op, env, retried, skipped, unknown>>

\* The claim of the current action, in the transaction that locks the order.
StartRunAction(w) ==
    /\ At(w, "ready") /\ worker[w].cur \in Positions
    /\ worker[w].cur \in Delayed => worker[w].skip = worker[w].cur
    /\ \/ /\ HoldsAction(w) /\ ~run.started
          /\ run' = [run EXCEPT !.started = TRUE, !.leased = TRUE]
          /\ issued' = [issued EXCEPT ![worker[w].cur] = @ + 1]
          /\ Goto(w, "claimed")
       \/ /\ ~(HoldsAction(w) /\ ~run.started)
          /\ Fail(w, "plain")
          /\ UNCHANGED <<run, issued>>
    /\ UNCHANGED <<deferred, op, env, retried, skipped, unknown>>

\* RenewExecutingRunLease guards the call: an expired lease is not revived.
CheckRunExecution(w) ==
    /\ At(w, "claimed")
    /\ \/ Holds(w) /\ run.started /\ run.leased /\ Goto(w, "calling")
       \/ /\ ~(Holds(w) /\ run.started /\ run.leased)
          /\ Refused(w, "plain")
    /\ UNCHANGED <<run, deferred, op, env, history>>

\* Mutant: a text is counted twice.
UnitsDoubled(c) == IF Plan[c] = "confirm" THEN {0} ELSE {0, 2}

\* The part of a message's result that is known to have arrived.
Units(c) == IF Plan[c] = "confirm" THEN {0} ELSE {0, 1}

\* The platform's answer: done, definitely not done, or anybody's guess.
ActionSucceeds(w) ==
    /\ At(w, "calling")
    /\ \E n \in Units(worker[w].cur) : Become(w, [worker[w] EXCEPT !.pc = "advance", !.n = n])
    /\ UNCHANGED <<run, deferred, op, env, history>>

ActionRefused(w) ==
    /\ At(w, "calling")
    /\ \E kind \in ErrorKind \ {"none"} : Refused(w, kind)
    /\ UNCHANGED <<run, deferred, op, env, history>>

ActionUncertain(w) ==
    /\ At(w, "calling")
    /\ \E n \in Units(worker[w].cur) : Become(w, [worker[w] EXCEPT !.pc = "unsure", !.n = n])
    /\ UNCHANGED <<run, deferred, op, env, history>>

\* The checkpoint after a success and after a tolerated uncertainty.
Checkpoint(w) ==
    run' = [run EXCEPT !.cursor = @ + 1, !.started = FALSE, !.sent = @ + worker[w].n]

NextAction(w, mark) ==
    Become(w, [worker[w] EXCEPT !.pc = "ready", !.cur = @ + 1, !.sent = @ + worker[w].n,
                                !.n = 0, !.skip = 0, !.mark = mark])

AdvanceRunAction(w) ==
    /\ At(w, "advance")
    /\ \/ /\ HoldsAction(w) /\ run.started
          /\ Checkpoint(w)
          /\ NextAction(w, worker[w].mark)
       \/ /\ ~(HoldsAction(w) /\ run.started)
          /\ Goto(w, "quarantine")
          /\ UNCHANGED run
    /\ UNCHANGED <<deferred, op, env, issued, retried, skipped, unknown>>

\* tryContinueAfterUncertain: only confirmations are left, so go on and
\* remember that the run has to end under review.
ContinueAfterUncertain(w) ==
    /\ At(w, "unsure") /\ ConfirmTail(worker[w].cur + 1)
    /\ \/ /\ HoldsAction(w) /\ run.started
          /\ Checkpoint(w)
          /\ NextAction(w, TRUE)
          /\ unknown' = unknown \cup {worker[w].cur}
       \/ /\ ~(HoldsAction(w) /\ run.started)
          /\ Become(w, [worker[w] EXCEPT !.pc = "quarantineResult", !.sent = @ + worker[w].n])
          /\ UNCHANGED <<run, unknown>>
    /\ UNCHANGED <<deferred, op, env, issued, retried, skipped>>

StopAfterUncertain(w) ==
    /\ At(w, "unsure")
    /\ Become(w, [worker[w] EXCEPT !.pc = "quarantineResult", !.sent = @ + worker[w].n])
    /\ UNCHANGED <<run, deferred, op, env, history>>

\* The account of a call known not to have happened.
Discharge(w) == issued' = [issued EXCEPT ![worker[w].cur] = @ - 1]

\* Mutant: a refused action is passed over.
AbortAndAdvance(w) ==
    /\ At(w, "abort")
    /\ Discharge(w)
    /\ \/ /\ HoldsAction(w) /\ Goto(w, "fail")
          /\ run' = [run EXCEPT !.started = FALSE, !.cursor = @ + 1]
       \/ ~HoldsAction(w) /\ Goto(w, "quarantine") /\ UNCHANGED run
    /\ UNCHANGED <<deferred, op, env, retried, skipped, unknown>>

\* The claim of an action that was definitely not performed is released.
AbortRunAction(w) ==
    /\ At(w, "abort")
    /\ Discharge(w)
    /\ \/ HoldsAction(w) /\ run' = [run EXCEPT !.started = FALSE] /\ Goto(w, "fail")
       \/ ~HoldsAction(w) /\ Goto(w, "quarantine") /\ UNCHANGED run
    /\ UNCHANGED <<deferred, op, env, retried, skipped, unknown>>

\* A failure after something was sent goes to review ...
FailPartial(w) ==
    /\ At(w, "fail") /\ worker[w].sent > 0 /\ worker[w].kind # "safe_retry"
    /\ Goto(w, "quarantineResult")
    /\ UNCHANGED <<run, deferred, op, env, history>>

\* ... and is otherwise recorded with the prefix that decides its retry.
FinishFailed(w) ==
    /\ At(w, "fail") /\ (worker[w].sent = 0 \/ worker[w].kind = "safe_retry")
    /\ \/ /\ Holds(w)
          /\ run' = [run EXCEPT !.status = "failed", !.leased = FALSE,
                                !.sent = worker[w].sent, !.err = worker[w].kind]
          /\ Return(w, FALSE)
       \/ ~Holds(w) /\ Goto(w, "quarantineResult") /\ UNCHANGED run
    /\ UNCHANGED <<deferred, op, env, history>>

QuarantineRun(w) ==
    /\ At(w, "quarantine")
    /\ run' = IF MayQuarantine(w) THEN UnderReview ELSE run
    /\ Return(w, FALSE)
    /\ UNCHANGED <<deferred, op, env, history>>

QuarantineRunResult(w) ==
    /\ At(w, "quarantineResult")
    /\ run' = IF MayQuarantine(w) THEN [UnderReview EXCEPT !.sent = worker[w].sent] ELSE run
    /\ Return(w, FALSE)
    /\ UNCHANGED <<deferred, op, env, history>>

\* The end of the plan: a marked run goes to review, another succeeds.
EndMarked(w) ==
    /\ At(w, "ready") /\ worker[w].cur > Len(Plan) /\ worker[w].mark
    /\ Goto(w, "quarantineResult")
    /\ UNCHANGED <<run, deferred, op, env, history>>

FinishSuccess(w) ==
    /\ At(w, "ready") /\ worker[w].cur > Len(Plan) /\ ~worker[w].mark
    /\ \/ /\ Holds(w)
          /\ run' = [run EXCEPT !.status = "success", !.leased = FALSE,
                                !.sent = worker[w].sent, !.err = "none"]
          /\ Return(w, TRUE)
       \/ ~Holds(w) /\ Goto(w, "quarantineResult") /\ UNCHANGED run
    /\ UNCHANGED <<deferred, op, env, history>>

FinishDeferredTask(w) ==
    /\ At(w, "settle")
    /\ deferred' =
          IF ~(deferred.state = "running" /\ deferred.claims = worker[w].claim) THEN deferred
          ELSE IF worker[w].ok THEN NoDeferred
          ELSE [deferred EXCEPT !.state = IF @ = "running" /\ deferred.claims >= MaxClaims
                                          THEN "dead" ELSE "pending"]
    /\ Become(w, IdleWorker)
    /\ UNCHANGED <<run, op, env, history>>

-----------------------------------------------------------------------------
(* The scheduler, when it executes nothing itself                          *)

Scanning == At(Scheduler, "idle")

Take(src) == Become(Scheduler, [IdleWorker EXCEPT !.pc = "resume", !.src = src])

\* An expired run whose action was started: its outcome is unknown.
QuarantineRecoveryRun ==
    /\ Scanning /\ run.status = "running" /\ ~run.leased /\ run.started
    /\ run' = UnderReview
    /\ UNCHANGED <<deferred, worker, op, env, history>>

\* The snapshot, the order or the rule does not allow the run to go on.
RejectRecoveryRun ==
    /\ Scanning /\ Reclaimable /\ env > 0
    /\ run' = UnderReview
    /\ env' = env - 1
    /\ UNCHANGED <<deferred, worker, op, history>>

\* The account is paused or its WebSocket is not ready: ask again later.
PostponeRecoveryRun ==
    /\ Scanning /\ Reclaimable /\ env > 0
    /\ run' = [run EXCEPT !.leased = (run.status = "running")]
    /\ env' = env - 1
    /\ UNCHANGED <<deferred, worker, op, history>>

\* The order no longer waits for its shipment.
CancelObsoletePaidRecoveryRun ==
    /\ Scanning /\ Reclaimable /\ env > 0
    /\ run' = [run EXCEPT !.status = "canceled", !.started = FALSE, !.leased = FALSE]
    /\ env' = env - 1
    /\ UNCHANGED <<deferred, worker, op, history>>

ClaimRecoveryRun ==
    /\ Scanning /\ Reclaimable
    /\ run' = Reclaimed
    /\ Take("recovery")
    /\ UNCHANGED <<deferred, op, env, history>>

\* Pending-ship resumption: only confirmations are left to do.
ReopenRunForRecovery ==
    /\ Scanning /\ run.status \in {"needs_review", "failed"} /\ ~run.started
    /\ run.attempt < MaxResume /\ ConfirmTail(run.cursor)
    /\ run' = Reclaimed
    /\ Take("resume")
    /\ UNCHANGED <<deferred, op, env, history>>

\* A claimed task is claimed again when its own lease expires; with a single
\* scheduler that means the handler died, so an idle scheduler may claim it.
ClaimDueDeferredTask ==
    /\ Scanning /\ deferred.state \in {"pending", "running"} /\ deferred.claims < MaxClaims
    /\ deferred' = [deferred EXCEPT !.state = "running", !.claims = @ + 1]
    /\ Become(Scheduler, [IdleWorker EXCEPT !.pc = IF deferred.run THEN "resume" ELSE "start",
                                            !.src = "deferred", !.mark = deferred.mark,
                                            !.skip = deferred.at, !.claim = deferred.claims + 1])
    /\ UNCHANGED <<run, op, env, history>>

-----------------------------------------------------------------------------
(* Operators: ResolveRunIssue reads, decides, then writes without          *)
(* re-checking what it read, except that the run is still under review.    *)

HasDelivery == \E c \in Positions : Plan[c] = "deliver"

MaySkip(c) ==
    /\ c \in Positions
    /\ Plan[c] = "deliver" => \A i \in Positions : i > c => Plan[i] # "confirm"

AutomationIssuePolicy ==
    IF ~run.started /\ run.sent > 0 /\ HasDelivery THEN {"cancel"}
    ELSE IF run.started THEN {"cancel"} \cup {r \in {"continue"} : MaySkip(run.cursor)}
    ELSE IF run.sent > 0 THEN {"continue", "retry", "cancel"}
    ELSE {"retry", "cancel"}

JudgeIssue(o) ==
    /\ op[o] = "none" /\ run.status = "needs_review" /\ env > 0
    /\ \E r \in AutomationIssuePolicy : op' = [op EXCEPT ![o] = r]
    /\ env' = env - 1
    /\ UNCHANGED <<run, deferred, worker, history>>

\* Mutant: the operator's decision leaves action_started as it is.
ResumeClaimed == [run EXCEPT !.status = "running", !.leased = FALSE, !.err = "none"]

Resume == [run EXCEPT !.status = "running", !.started = FALSE, !.leased = FALSE, !.err = "none"]

\* The cursor may pass the end of the plan: nothing in the UPDATE bounds it.
ResolveRunIssue(o) ==
    /\ op[o] # "none" /\ run.status = "needs_review"
    /\ unknown' = {}
    /\ \/ /\ op[o] = "continue"
          /\ run' = [Resume EXCEPT !.cursor = @ + 1]
          /\ skipped' = skipped \cup ({run.cursor} \cap Positions)
          /\ UNCHANGED retried
       \/ /\ op[o] = "retry"
          /\ run' = Resume
          /\ retried' = IF run.cursor \in Positions
                        THEN [retried EXCEPT ![run.cursor] = @ + 1] ELSE retried
          /\ UNCHANGED skipped
       \/ /\ op[o] = "cancel"
          /\ run' = [run EXCEPT !.status = "canceled", !.started = FALSE, !.leased = FALSE]
          /\ UNCHANGED <<retried, skipped>>
    /\ op' = [op EXCEPT ![o] = "none"]
    /\ UNCHANGED <<deferred, worker, env, issued>>

ResolveNotFound(o) ==
    /\ op[o] # "none" /\ run.status # "needs_review"
    /\ op' = [op EXCEPT ![o] = "none"]
    /\ UNCHANGED <<run, deferred, worker, env, history>>

\* Operators also retry or drop a deferred task that used up its claims.
ResolveDeferredIssue ==
    /\ deferred.state = "dead" /\ env > 0
    /\ env' = env - 1
    /\ deferred' \in {[deferred EXCEPT !.state = "pending", !.claims = 0], NoDeferred}
    /\ UNCHANGED <<run, worker, op, history>>

-----------------------------------------------------------------------------
(* What else happens                                                       *)

AllIdle == \A w \in Worker : At(w, "idle")
DeferredDue == deferred.state \in {"pending", "running"} /\ deferred.claims < MaxClaims

\* Time passes the lease of a run nobody is working for ...
ExpireLease ==
    /\ run.leased /\ AllIdle /\ ~DeferredDue
    /\ run' = [run EXCEPT !.leased = FALSE]
    /\ UNCHANGED <<deferred, worker, op, env, history>>

\* ... or the process is suspended for longer than the lease.
Stall ==
    /\ run.leased /\ env > 0
    /\ run' = [run EXCEPT !.leased = FALSE]
    /\ env' = env - 1
    /\ UNCHANGED <<deferred, worker, op, history>>

\* A goroutine stops where it is: a panic, or a database that stays out of
\* reach until the context of its last writes ends.
Abandon(w) ==
    /\ ~At(w, "idle") /\ env > 0
    /\ env' = env - 1
    /\ Become(w, IdleWorker)
    /\ UNCHANGED <<run, deferred, op, history>>

\* A statement fails without an effect and the goroutine takes the error path.
StatementFails(w) ==
    /\ env > 0
    /\ env' = env - 1
    /\ \/ /\ worker[w].pc \in {"start", "load", "resume", "quarantine", "quarantineResult"}
          /\ Return(w, FALSE)
          /\ UNCHANGED issued
       \/ At(w, "ready") /\ worker[w].cur \in Positions /\ Fail(w, "plain") /\ UNCHANGED issued
       \/ At(w, "claimed") /\ Refused(w, "plain") /\ UNCHANGED issued
       \/ At(w, "advance") /\ Goto(w, "quarantine") /\ UNCHANGED issued
       \/ At(w, "abort") /\ Goto(w, "quarantine") /\ Discharge(w)
       \/ /\ At(w, "fail") \/ (At(w, "ready") /\ worker[w].cur \notin Positions)
          /\ Goto(w, "quarantineResult")
          /\ UNCHANGED issued
    /\ UNCHANGED <<run, deferred, op, retried, skipped, unknown>>

Crash ==
    /\ ~AllIdle \/ \E o \in Operator : op[o] # "none"
    /\ env > 0
    /\ env' = env - 1
    /\ worker' = [w \in Worker |-> IdleWorker]
    /\ op' = [o \in Operator |-> "none"]
    /\ UNCHANGED <<run, deferred, history>>

-----------------------------------------------------------------------------
(* Specification                                                           *)

\* What a goroutine in the middle of executeRule does next.
Execute(w) ==
    \/ At(w, "start") /\ TryStartRun(w)
    \/ LoadRun(w) \/ ResumeSkipped(w)
    \/ DeferAction(w) \/ StartRunAction(w) \/ CheckRunExecution(w)
    \/ ActionSucceeds(w) \/ ActionRefused(w) \/ ActionUncertain(w)
    \/ AdvanceRunAction(w) \/ ContinueAfterUncertain(w) \/ StopAfterUncertain(w)
    \/ AbortRunAction(w) \/ FailPartial(w) \/ FinishFailed(w)
    \/ QuarantineRun(w) \/ QuarantineRunResult(w) \/ EndMarked(w) \/ FinishSuccess(w)
    \/ FinishDeferredTask(w)

Recover == QuarantineRecoveryRun \/ ClaimRecoveryRun

Schedule ==
    \/ Recover \/ ClaimDueDeferredTask \/ ReopenRunForRecovery
    \/ RejectRecoveryRun \/ PostponeRecoveryRun \/ CancelObsoletePaidRecoveryRun

Operate ==
    \/ \E o \in Operator : JudgeIssue(o) \/ ResolveRunIssue(o) \/ ResolveNotFound(o)
    \/ ResolveDeferredIssue

Disturb ==
    \/ ExpireLease \/ Stall \/ Crash
    \/ \E w \in Worker : \/ PrepareFails(w) \/ PostponeDeferredTask(w) \/ IgnoreTask(w)
                          \/ DeferEvent(w) \/ StatementFails(w) \/ Abandon(w)

Next ==
    \/ \E w \in Worker : (At(w, "idle") /\ TryStartRun(w)) \/ Execute(w)
    \/ Schedule \/ Operate \/ Disturb

Spec == Init /\ [][Next]_vars

\* A goroutine runs on, the scheduler ticks, time passes.  No event is ever
\* delivered again, no operator ever looks, nothing is ever reopened.
Fairness ==
    /\ \A w \in Worker : WF_vars(Execute(w))
    /\ WF_vars(Recover) /\ WF_vars(ClaimDueDeferredTask) /\ WF_vars(ExpireLease)

FairSpec == Spec /\ Fairness

-----------------------------------------------------------------------------
(* Properties                                                              *)

\* Every row and every goroutine is well formed (AutomationRun, the columns
\* of automation_runs and of automation_pending_tasks).
TypeOK ==
    /\ run \in RunRow /\ deferred \in DeferredRow
    /\ worker \in [Worker -> WorkerState]
    /\ op \in [Operator -> {"none", "continue", "retry", "cancel"}]
    /\ env \in Nat
    /\ issued \in [Positions -> Int] /\ retried \in [Positions -> Nat]
    /\ skipped \subseteq Positions /\ unknown \subseteq Positions

\* At most once: whatever is redelivered, crashes, stalls or is claimed
\* again, an action is handed to the platform once (not counting the calls
\* known not to have happened), and once more for every retry an operator
\* ordered at that action.
CallsAuthorised == \A c \in Positions : issued[c] <= 1 + retried[c]

\* An action that is neither passed nor claimed was not called: a call whose
\* result is not recorded keeps its claim (or ends in a canceled run), across
\* review, deferral, crash, and every decision of an operator but a retry.
ClaimAccounted ==
    \A c \in Positions :
        issued[c] <= retried[c] + (IF \/ c < run.cursor
                                      \/ c = run.cursor /\ (run.started \/ run.status = "canceled")
                                   THEN 1 ELSE 0)

\* A run that is closed as a success performed or was told to skip every
\* action of its plan: no reclaim, resumption or defer loses one.
SuccessComplete ==
    run.status = "success" =>
        \A c \in Positions : issued[c] > 0 \/ c \in skipped

InFlight(w) == worker[w].pc \in {"claimed", "calling", "advance", "unsure"}

\* An attempt is not taken over while a goroutine is between the claim of
\* the current action and the record of its result, unless an operator
\* ordered a retry of that very action meanwhile.
TakeoverSafe ==
    [][run'.attempt # run.attempt =>
         \A w \in Worker : InFlight(w) /\ worker[w].cur = run.cursor
                              => retried[run.cursor] > 0]_vars

\* A goroutine whose attempt was taken over never changes the row again,
\* not even to quarantine it.
StaleFenced ==
    [][\A w \in Worker :
         /\ worker[w].pc \notin {"idle", "start", "load", "resume"}
         /\ worker[w].att # run.attempt
         /\ worker'[w] # worker[w]
         => run' = run]_vars

\* Once the outcome of a message is unknown, nothing more is sent to the
\* buyer until an operator has looked, across deferral, crash and recovery.
NoMessageAfterUnknown ==
    [][\A c \in Positions :
         issued'[c] > issued[c] /\ unknown # {} => Plan[c] = "confirm"]_vars

\* No run stays in the state running for ever once the disturbances end:
\* it is executed, fails or is put under review.
RunningEnds == run.status = "running" ~> run.status # "running"

\* The row implements the ledger of ActionLedger: whatever goroutines, leases,
\* attempts and statuses do, each step is one entry of the ledger or none.
Ledger == INSTANCE ActionLedger WITH
              Length <- Len(Plan), cursor <- run.cursor, claimed <- run.started,
              open <- run.status # "canceled"

LedgerSpec == Ledger!Spec

=============================================================================
