------------------------- MODULE AutomationRun_proofs -------------------------
(***************************************************************************)
(* Theorems about AutomationRun for every plan, every number of handlers   *)
(* and operators, and every bound.                                         *)
(***************************************************************************)
EXTENDS AutomationRun, FiniteSets, FiniteSetTheorems, TLAPS

-----------------------------------------------------------------------------
(* Types                                                                   *)

LEMMA IdleWorkerType == IdleWorker \in WorkerState
BY DEF IdleWorker, WorkerState, Phase, ErrorKind, Cursor

\* What a goroutine becomes, the types of the others untouched.
LEMMA BecomeType ==
    ASSUME TypeOK, NEW w \in Worker, NEW state \in WorkerState, Become(w, state)
    PROVE  worker' \in [Worker -> WorkerState]
BY DEF TypeOK, Become

LEMMA GotoType ==
    ASSUME TypeOK, NEW w \in Worker, NEW pc \in Phase, Goto(w, pc)
    PROVE  worker' \in [Worker -> WorkerState]
<1>1. worker[w] \in WorkerState
  BY DEF TypeOK
<1>2. [worker[w] EXCEPT !.pc = pc] \in WorkerState
  BY <1>1 DEF WorkerState
<1>3. QED
  BY <1>2, BecomeType DEF Goto

LEMMA FailType ==
    ASSUME TypeOK, NEW w \in Worker, NEW kind \in ErrorKind, Fail(w, kind)
    PROVE  worker' \in [Worker -> WorkerState]
<1>1. worker[w] \in WorkerState
  BY DEF TypeOK
<1>2. [worker[w] EXCEPT !.pc = "fail", !.kind = kind] \in WorkerState
  BY <1>1 DEF WorkerState, Phase
<1>3. QED
  BY <1>2, BecomeType DEF Fail

LEMMA ReturnType ==
    ASSUME TypeOK, NEW w \in Worker, NEW ok \in BOOLEAN, Return(w, ok)
    PROVE  worker' \in [Worker -> WorkerState]
<1>1. worker[w] \in WorkerState
  BY DEF TypeOK
<1>2. [worker[w] EXCEPT !.pc = "settle", !.ok = ok] \in WorkerState
  BY <1>1 DEF WorkerState, Phase
<1>3. QED
  BY <1>2, IdleWorkerType, BecomeType DEF Return

LEMMA RefusedType ==
    ASSUME TypeOK, NEW w \in Worker, NEW kind \in ErrorKind, Refused(w, kind)
    PROVE  worker' \in [Worker -> WorkerState]
<1>1. worker[w] \in WorkerState
  BY DEF TypeOK
<1>2. [worker[w] EXCEPT !.pc = "abort", !.kind = kind] \in WorkerState
  BY <1>1 DEF WorkerState, Phase
<1>3. QED
  BY <1>2, BecomeType DEF Refused

LEMMA DischargeType ==
    ASSUME TypeOK, NEW w \in Worker, Discharge(w)
    PROVE  issued' \in [Positions -> Int]
<1>1. issued \in [Positions -> Int] /\ issued' = [issued EXCEPT ![worker[w].cur] = @ - 1]
  BY DEF Discharge, TypeOK
<1>2. \A c \in Positions : issued[c] - 1 \in Int
  BY <1>1
<1>3. QED
  BY <1>1, <1>2

LEMMA NewRunType == NewRun \in RunRow
BY DEF NewRun, RunRow, RunStatus, ErrorKind, Cursor

LEMMA TypeInit == Init => TypeOK
<1> SUFFICES ASSUME Init PROVE TypeOK
  OBVIOUS
<1>1. run \in RunRow
  BY NewRunType DEF Init, RunRow, RunStatus
<1>2. deferred \in DeferredRow
  BY DEF Init, DeferredRow, NoDeferred
<1>3. worker \in [Worker -> WorkerState]
  BY IdleWorkerType DEF Init
<1>4. op \in [Operator -> {"none", "continue", "retry", "cancel"}] /\ env \in Nat
  BY BoundAssumption DEF Init
<1>5. issued \in [Positions -> Int] /\ retried \in [Positions -> Nat]
  BY DEF Init
<1>6. skipped \subseteq Positions /\ unknown \subseteq Positions
  BY DEF Init
<1>7. QED
  BY <1>1, <1>2, <1>3, <1>4, <1>5, <1>6 DEF TypeOK

LEMMA RowTypes ==
    ASSUME TypeOK
    PROVE  /\ Reclaimed \in RunRow /\ UnderReview \in RunRow /\ Resume \in RunRow
           /\ NoDeferred \in DeferredRow
           /\ \A runs, mark \in BOOLEAN : \A at \in Nat : Deferral(runs, at, mark) \in DeferredRow
<1>1. run \in RunRow
  BY DEF TypeOK
<1>2. Reclaimed \in RunRow
  <2>1. run.attempt + 1 \in Nat
    BY <1>1 DEF RunRow
  <2>2. \A a \in Nat : [run EXCEPT !.status = "running", !.attempt = a, !.leased = TRUE,
                                   !.err = "none"] \in RunRow
    BY <1>1 DEF RunRow, RunStatus, ErrorKind
  <2>3. QED
    BY <2>1, <2>2 DEF Reclaimed
<1>3. UnderReview \in RunRow
  BY <1>1 DEF UnderReview, RunRow, RunStatus, ErrorKind
<1>4. Resume \in RunRow
  BY <1>1 DEF Resume, RunRow, RunStatus, ErrorKind
<1>5. NoDeferred \in DeferredRow
  BY DEF NoDeferred, DeferredRow
<1>6. \A runs, mark \in BOOLEAN : \A at \in Nat : Deferral(runs, at, mark) \in DeferredRow
  BY DEF Deferral, DeferredRow
<1>7. QED
  BY <1>2, <1>3, <1>4, <1>5, <1>6

\* Steps that move a goroutine and leave both rows and the history alone.
LEMMA LocalStepType ==
    ASSUME TypeOK, worker' \in [Worker -> WorkerState],
           UNCHANGED <<run, deferred, op, history>>, env' \in Nat
    PROVE  TypeOK'
BY DEF TypeOK, history

\* Steps that also write the run, or the deferred task.
LEMMA RowStepType ==
    ASSUME TypeOK, worker' \in [Worker -> WorkerState], run' \in RunRow,
           deferred' \in DeferredRow, UNCHANGED <<op, history>>, env' \in Nat
    PROVE  TypeOK'
BY DEF TypeOK, history

LEMMA TypeTryStartRun ==
    ASSUME TypeOK, NEW w \in Worker, TryStartRun(w)
    PROVE  TypeOK'
<1>1. run' \in RunRow
  BY RowTypes, NewRunType DEF TryStartRun
<1>2. worker' \in [Worker -> WorkerState]
  BY GotoType DEF TryStartRun, Phase
<1>3. QED
  BY <1>1, <1>2, RowStepType DEF TryStartRun, TypeOK

LEMMA TypeLoadRun ==
    ASSUME TypeOK, NEW w \in Worker, LoadRun(w)
    PROVE  TypeOK'
<1>1. worker[w] \in WorkerState /\ run \in RunRow
  BY DEF TypeOK
<1>2. [worker[w] EXCEPT !.pc = "ready", !.att = run.attempt,
                        !.cur = run.cursor, !.sent = run.sent] \in WorkerState
  BY <1>1 DEF WorkerState, RunRow, Phase
<1>3. worker' \in [Worker -> WorkerState]
  BY <1>2, BecomeType DEF LoadRun
<1>4. QED
  BY <1>3, LocalStepType DEF LoadRun, TypeOK

LEMMA TypeDeferAction ==
    ASSUME TypeOK, NEW w \in Worker, DeferAction(w)
    PROVE  TypeOK'
<1>1. worker[w].cur \in Nat /\ worker[w].mark \in BOOLEAN
  BY DEF TypeOK, WorkerState, Cursor
<1>2. [run EXCEPT !.leased = TRUE] \in RunRow
  BY DEF TypeOK, RunRow
<1>3. run' \in RunRow
  <2>1. run' = [run EXCEPT !.leased = TRUE] \/ run' = run
    BY DEF DeferAction
  <2>2. QED
    BY <2>1, <1>2 DEF TypeOK
<1>4. deferred' \in DeferredRow
  <2>1. deferred' = Deferral(TRUE, worker[w].cur, worker[w].mark) \/ deferred' = deferred
    BY DEF DeferAction
  <2>2. QED
    BY <2>1, <1>1, RowTypes DEF TypeOK
<1>5. worker' \in [Worker -> WorkerState]
  BY IdleWorkerType, BecomeType, FailType DEF DeferAction, ErrorKind
<1>6. QED
  BY <1>3, <1>4, <1>5, RowStepType DEF DeferAction, TypeOK

LEMMA TypeStartRunAction ==
    ASSUME TypeOK, NEW w \in Worker, StartRunAction(w)
    PROVE  TypeOK'
<1>1. [run EXCEPT !.started = TRUE, !.leased = TRUE] \in RunRow
  BY DEF TypeOK, RunRow
<1>2. run' \in RunRow
  BY <1>1 DEF StartRunAction, TypeOK
<1>3. issued' \in [Positions -> Int]
  BY DEF StartRunAction, TypeOK
<1>4. worker' \in [Worker -> WorkerState]
  BY GotoType, FailType DEF StartRunAction, Phase, ErrorKind
<1>5. QED
  BY <1>2, <1>3, <1>4 DEF StartRunAction, TypeOK

LEMMA TypeCheckRunExecution ==
    ASSUME TypeOK, NEW w \in Worker, CheckRunExecution(w)
    PROVE  TypeOK'
<1>1. worker' \in [Worker -> WorkerState]
  BY RefusedType, GotoType DEF CheckRunExecution, Phase, ErrorKind
<1>2. QED
  BY <1>1, LocalStepType DEF CheckRunExecution, TypeOK

\* The three answers of the platform.
LEMMA TypeAnswer ==
    ASSUME TypeOK, NEW w \in Worker, ActionSucceeds(w) \/ ActionRefused(w) \/ ActionUncertain(w)
    PROVE  TypeOK'
<1>1. worker[w] \in WorkerState
  BY DEF TypeOK
<1>2. \A n \in 0 .. 1 : \A pc \in Phase : [worker[w] EXCEPT !.pc = pc, !.n = n] \in WorkerState
  BY <1>1 DEF WorkerState
<1>3. \A n \in Units(worker[w].cur) : n \in 0 .. 1
  BY DEF Units
<1>4. worker' \in [Worker -> WorkerState]
  <2>1. CASE ActionSucceeds(w)
    BY <2>1, <1>2, <1>3, BecomeType DEF ActionSucceeds, Phase
  <2>2. CASE ActionRefused(w)
    BY <2>2, RefusedType DEF ActionRefused
  <2>3. CASE ActionUncertain(w)
    BY <2>3, <1>2, <1>3, BecomeType DEF ActionUncertain, Phase
  <2>4. QED
    BY <2>1, <2>2, <2>3
<1>5. QED
  BY <1>4, LocalStepType DEF ActionSucceeds, ActionRefused, ActionUncertain, TypeOK

LEMMA CheckpointType ==
    ASSUME TypeOK, NEW w \in Worker, NEW mark \in BOOLEAN, Checkpoint(w), NextAction(w, mark)
    PROVE  run' \in RunRow /\ worker' \in [Worker -> WorkerState]
<1>1. worker[w] \in WorkerState /\ run \in RunRow
  BY DEF TypeOK
<1>2. /\ run.cursor + 1 \in Cursor /\ run.sent + worker[w].n \in Nat
      /\ worker[w].cur + 1 \in Cursor /\ worker[w].sent + worker[w].n \in Nat
  BY <1>1 DEF RunRow, WorkerState, Cursor
<1>3. \A c \in Cursor : \A n \in Nat :
         [run EXCEPT !.cursor = c, !.started = FALSE, !.sent = n] \in RunRow
  BY <1>1 DEF RunRow
<1>4. \A c \in Cursor : \A n \in Nat :
         [worker[w] EXCEPT !.pc = "ready", !.cur = c, !.sent = n,
                           !.n = 0, !.skip = 0, !.mark = mark] \in WorkerState
  <2>1. /\ worker[w] \in WorkerState /\ 0 \in 0 .. 1 /\ 0 \in Nat /\ "ready" \in Phase
        /\ mark \in BOOLEAN
    BY <1>1 DEF Phase
  <2>2. QED
    BY <2>1 DEF WorkerState
<1>5. run' \in RunRow
  BY <1>2, <1>3 DEF Checkpoint
<1>6. worker' \in [Worker -> WorkerState]
  BY <1>2, <1>4, BecomeType DEF NextAction
<1>7. QED
  BY <1>5, <1>6

LEMMA TypeAdvanceRunAction ==
    ASSUME TypeOK, NEW w \in Worker, AdvanceRunAction(w)
    PROVE  TypeOK'
<1>1. worker[w].mark \in BOOLEAN
  BY DEF TypeOK, WorkerState
<1>2. run' \in RunRow /\ worker' \in [Worker -> WorkerState]
  BY <1>1, CheckpointType, GotoType DEF AdvanceRunAction, Phase, TypeOK
<1>3. QED
  BY <1>2 DEF AdvanceRunAction, TypeOK

\* A result under review also counts what is known to have arrived.
LEMMA SumType ==
    ASSUME TypeOK, NEW w \in Worker
    PROVE  [worker[w] EXCEPT !.pc = "quarantineResult", !.sent = @ + worker[w].n] \in WorkerState
<1>1. worker[w] \in WorkerState
  BY DEF TypeOK
<1>2. worker[w].sent + worker[w].n \in Nat
  BY <1>1 DEF WorkerState
<1>3. \A n \in Nat : [worker[w] EXCEPT !.pc = "quarantineResult", !.sent = n] \in WorkerState
  BY <1>1 DEF WorkerState, Phase
<1>4. QED
  BY <1>2, <1>3

LEMMA TypeContinueAfterUncertain ==
    ASSUME TypeOK, NEW w \in Worker, ContinueAfterUncertain(w)
    PROVE  TypeOK'
<1>1. run' \in RunRow /\ worker' \in [Worker -> WorkerState]
  BY CheckpointType, SumType, BecomeType DEF ContinueAfterUncertain, TypeOK
<1>2. worker[w].cur \in Positions
  <2>1. worker[w].cur \in Nat /\ worker[w].cur >= 1 /\ Len(Plan) \in Nat
    BY PlanAssumption DEF TypeOK, WorkerState, Cursor
  <2>2. worker[w].cur + 1 <= Len(Plan)
    BY <2>1 DEF ContinueAfterUncertain, ConfirmTail, Positions
  <2>3. QED
    BY <2>1, <2>2 DEF Positions
<1>3. unknown' \subseteq Positions
  BY <1>2 DEF ContinueAfterUncertain, TypeOK
<1>4. QED
  BY <1>1, <1>3 DEF ContinueAfterUncertain, TypeOK

LEMMA TypeStopAfterUncertain ==
    ASSUME TypeOK, NEW w \in Worker, StopAfterUncertain(w)
    PROVE  TypeOK'
<1>1. worker' \in [Worker -> WorkerState]
  BY SumType, BecomeType DEF StopAfterUncertain
<1>2. QED
  BY <1>1, LocalStepType DEF StopAfterUncertain, TypeOK

LEMMA TypeAbortRunAction ==
    ASSUME TypeOK, NEW w \in Worker, AbortRunAction(w)
    PROVE  TypeOK'
<1>1. [run EXCEPT !.started = FALSE] \in RunRow
  BY DEF TypeOK, RunRow
<1>2. run' \in RunRow
  BY <1>1 DEF AbortRunAction, TypeOK
<1>3. issued' \in [Positions -> Int]
  BY DischargeType DEF AbortRunAction
<1>4. worker' \in [Worker -> WorkerState]
  BY GotoType DEF AbortRunAction, Phase
<1>5. QED
  BY <1>2, <1>3, <1>4 DEF AbortRunAction, TypeOK

\* Steps that only choose how the goroutine goes on.
LEMMA TypeDecide ==
    ASSUME TypeOK, NEW w \in Worker, FailPartial(w) \/ EndMarked(w) \/ ResumeSkipped(w)
    PROVE  TypeOK'
<1>1. worker' \in [Worker -> WorkerState]
  BY GotoType, ReturnType DEF FailPartial, EndMarked, ResumeSkipped, Phase
<1>2. QED
  BY <1>1, LocalStepType DEF FailPartial, EndMarked, ResumeSkipped, TypeOK

LEMMA TypeFinishRun ==
    ASSUME TypeOK, NEW w \in Worker, FinishFailed(w) \/ FinishSuccess(w)
    PROVE  TypeOK'
<1>1. run \in RunRow /\ worker[w].sent \in Nat /\ worker[w].kind \in ErrorKind
  BY DEF TypeOK, WorkerState
<1>2. \A status \in RunStatus : \A n \in Nat : \A kind \in ErrorKind :
         [run EXCEPT !.status = status, !.leased = FALSE, !.sent = n, !.err = kind] \in RunRow
  BY <1>1 DEF RunRow
<1>3. run' \in RunRow
  <2>1. "failed" \in RunStatus /\ "success" \in RunStatus /\ "none" \in ErrorKind
    BY DEF RunStatus, ErrorKind
  <2>2. CASE FinishFailed(w)
    <3>1. \/ run' = [run EXCEPT !.status = "failed", !.leased = FALSE,
                                !.sent = worker[w].sent, !.err = worker[w].kind]
          \/ run' = run
      BY <2>2 DEF FinishFailed
    <3>2. [run EXCEPT !.status = "failed", !.leased = FALSE,
                      !.sent = worker[w].sent, !.err = worker[w].kind] \in RunRow
      BY <2>1, <1>1, <1>2, Zenon
    <3>3. QED
      BY <3>1, <3>2, <1>1
  <2>3. CASE FinishSuccess(w)
    <3>1. \/ run' = [run EXCEPT !.status = "success", !.leased = FALSE,
                                !.sent = worker[w].sent, !.err = "none"]
          \/ run' = run
      BY <2>3 DEF FinishSuccess
    <3>2. [run EXCEPT !.status = "success", !.leased = FALSE,
                      !.sent = worker[w].sent, !.err = "none"] \in RunRow
      BY <2>1, <1>1, <1>2, Zenon
    <3>3. QED
      BY <3>1, <3>2, <1>1
  <2>4. QED
    BY <2>2, <2>3
<1>4. worker' \in [Worker -> WorkerState]
  BY GotoType, ReturnType DEF FinishFailed, FinishSuccess, Phase
<1>5. QED
  BY <1>3, <1>4, RowStepType DEF FinishFailed, FinishSuccess, TypeOK

LEMMA TypeQuarantine ==
    ASSUME TypeOK, NEW w \in Worker, QuarantineRun(w) \/ QuarantineRunResult(w)
    PROVE  TypeOK'
<1>1. run \in RunRow /\ worker[w].sent \in Nat
  BY DEF TypeOK, WorkerState
<1>2. \A n \in Nat : [UnderReview EXCEPT !.sent = n] \in RunRow
  BY RowTypes DEF RunRow
<1>3. run' \in RunRow
  BY <1>1, <1>2, RowTypes DEF QuarantineRun, QuarantineRunResult
<1>4. worker' \in [Worker -> WorkerState]
  BY ReturnType DEF QuarantineRun, QuarantineRunResult
<1>5. QED
  BY <1>3, <1>4, RowStepType DEF QuarantineRun, QuarantineRunResult, TypeOK

LEMMA TypeFinishDeferredTask ==
    ASSUME TypeOK, NEW w \in Worker, FinishDeferredTask(w)
    PROVE  TypeOK'
<1>1. \A state \in {"dead", "pending"} : [deferred EXCEPT !.state = state] \in DeferredRow
  BY DEF TypeOK, DeferredRow
<1>2. deferred' \in DeferredRow
  BY <1>1, RowTypes DEF FinishDeferredTask, TypeOK
<1>3. worker' \in [Worker -> WorkerState]
  BY IdleWorkerType, BecomeType DEF FinishDeferredTask
<1>4. QED
  BY <1>2, <1>3, RowStepType DEF FinishDeferredTask, TypeOK

LEMMA TypeExecute ==
    ASSUME TypeOK, NEW w \in Worker, Execute(w)
    PROVE  TypeOK'
BY TypeTryStartRun, TypeLoadRun, TypeDecide, TypeDeferAction, TypeStartRunAction,
   TypeCheckRunExecution, TypeAnswer, TypeAdvanceRunAction, TypeContinueAfterUncertain,
   TypeStopAfterUncertain, TypeAbortRunAction, TypeFinishRun, TypeQuarantine,
   TypeFinishDeferredTask
   DEF Execute

-----------------------------------------------------------------------------
(* Types: the scheduler, the operators, the environment                    *)

\* Steps after which a goroutine has settled its task or given it back.
LEMMA TypeGiveUp ==
    ASSUME TypeOK, NEW w \in Worker,
           PrepareFails(w) \/ PostponeDeferredTask(w) \/ IgnoreTask(w) \/ DeferEvent(w)
           \/ Abandon(w)
    PROVE  TypeOK'
<1>1. env' \in Nat
  <2>1. env \in Nat /\ env > 0 /\ env' = env - 1
    BY DEF TypeOK, PrepareFails, PostponeDeferredTask, IgnoreTask, DeferEvent, Abandon
  <2>2. QED
    BY <2>1
<1>2. deferred' \in DeferredRow
  <2>1. [deferred EXCEPT !.state = "pending", !.claims = 0] \in DeferredRow
    BY DEF TypeOK, DeferredRow
  <2>2. \/ deferred' = deferred
        \/ deferred' = [deferred EXCEPT !.state = "pending", !.claims = 0]
        \/ deferred' = Deferral(TRUE, 0, FALSE)
        \/ deferred' = Deferral(FALSE, 0, FALSE)
    BY DEF PrepareFails, PostponeDeferredTask, IgnoreTask, DeferEvent, Abandon
  <2>3. QED
    BY <2>1, <2>2, RowTypes DEF TypeOK
<1>3. worker' \in [Worker -> WorkerState]
  <2>1. Become(w, IdleWorker) \/ Return(w, TRUE) \/ Return(w, FALSE) \/ worker' = worker
    BY DEF PrepareFails, PostponeDeferredTask, IgnoreTask, DeferEvent, Abandon
  <2>2. QED
    BY <2>1, IdleWorkerType, BecomeType, ReturnType DEF TypeOK
<1>4. QED
  BY <1>1, <1>2, <1>3, RowStepType
     DEF PrepareFails, PostponeDeferredTask, IgnoreTask, DeferEvent, Abandon, TypeOK

LEMMA TypeStatementFails ==
    ASSUME TypeOK, NEW w \in Worker, StatementFails(w)
    PROVE  TypeOK'
<1>1. env' \in Nat
  BY DEF StatementFails, TypeOK
<1>2. issued' \in [Positions -> Int]
  BY DischargeType DEF StatementFails, TypeOK
<1>3. worker' \in [Worker -> WorkerState]
  BY ReturnType, FailType, RefusedType, GotoType DEF StatementFails, Phase, ErrorKind
<1>4. QED
  BY <1>1, <1>2, <1>3 DEF StatementFails, TypeOK

\* The states a claim by the scheduler puts its goroutine in.
LEMMA TakeType ==
    ASSUME TypeOK, NEW src \in {"recovery", "resume"}, Take(src)
    PROVE  worker' \in [Worker -> WorkerState]
<1>1. [IdleWorker EXCEPT !.pc = "resume", !.src = src] \in WorkerState
  BY IdleWorkerType DEF WorkerState, Phase
<1>2. QED
  BY <1>1, BecomeType DEF Take, Worker

\* Canceling a run, by the scheduler or by an operator.
LEMMA CanceledType ==
    ASSUME TypeOK
    PROVE  [run EXCEPT !.status = "canceled", !.started = FALSE, !.leased = FALSE] \in RunRow
<1>1. run \in RunRow
  BY DEF TypeOK
<1>2. QED
  BY <1>1 DEF RunRow, RunStatus

LEMMA LeaseType ==
    ASSUME TypeOK, NEW leased \in BOOLEAN
    PROVE  [run EXCEPT !.leased = leased] \in RunRow
BY DEF TypeOK, RunRow

LEMMA TypeScheduleRun ==
    ASSUME TypeOK,
           \/ QuarantineRecoveryRun \/ RejectRecoveryRun \/ PostponeRecoveryRun
           \/ CancelObsoletePaidRecoveryRun \/ ClaimRecoveryRun \/ ReopenRunForRecovery
    PROVE  TypeOK'
<1>1. env' \in Nat
  <2>1. env \in Nat /\ (env' = env \/ (env > 0 /\ env' = env - 1))
    BY DEF TypeOK, QuarantineRecoveryRun, RejectRecoveryRun, PostponeRecoveryRun,
           CancelObsoletePaidRecoveryRun, ClaimRecoveryRun, ReopenRunForRecovery
  <2>2. QED
    BY <2>1
<1>2. run' \in RunRow
  <2>1. \/ run' = UnderReview \/ run' = Reclaimed
        \/ run' = [run EXCEPT !.leased = (run.status = "running")]
        \/ run' = [run EXCEPT !.status = "canceled", !.started = FALSE, !.leased = FALSE]
    BY DEF QuarantineRecoveryRun, RejectRecoveryRun, PostponeRecoveryRun,
           CancelObsoletePaidRecoveryRun, ClaimRecoveryRun, ReopenRunForRecovery
  <2>2. QED
    BY <2>1, RowTypes, CanceledType, LeaseType
<1>3. worker' \in [Worker -> WorkerState]
  <2>1. worker' = worker \/ Take("recovery") \/ Take("resume")
    BY DEF QuarantineRecoveryRun, RejectRecoveryRun, PostponeRecoveryRun,
           CancelObsoletePaidRecoveryRun, ClaimRecoveryRun, ReopenRunForRecovery
  <2>2. QED
    BY <2>1, TakeType DEF TypeOK
<1>4. deferred' = deferred /\ UNCHANGED <<op, history>>
  BY DEF QuarantineRecoveryRun, RejectRecoveryRun, PostponeRecoveryRun,
         CancelObsoletePaidRecoveryRun, ClaimRecoveryRun, ReopenRunForRecovery
<1>5. QED
  BY <1>1, <1>2, <1>3, <1>4, RowStepType DEF TypeOK

LEMMA TypeClaimDueDeferredTask ==
    ASSUME TypeOK, ClaimDueDeferredTask
    PROVE  TypeOK'
<1>1. deferred \in DeferredRow /\ deferred.claims + 1 \in Nat
  BY DEF TypeOK, DeferredRow
<1>2. \A n \in Nat : [deferred EXCEPT !.state = "running", !.claims = n] \in DeferredRow
  BY <1>1 DEF DeferredRow
<1>3. deferred' \in DeferredRow
  BY <1>1, <1>2 DEF ClaimDueDeferredTask
<1>4. \A pc \in Phase : \A mark \in BOOLEAN : \A at, n \in Nat :
         [IdleWorker EXCEPT !.pc = pc, !.src = "deferred", !.mark = mark,
                            !.skip = at, !.claim = n] \in WorkerState
  BY IdleWorkerType DEF WorkerState
<1>5. worker' \in [Worker -> WorkerState]
  <2>1. deferred.mark \in BOOLEAN /\ deferred.at \in Nat
    BY <1>1 DEF DeferredRow
  <2>2. (IF deferred.run THEN "resume" ELSE "start") \in Phase
    BY DEF Phase
  <2>3. [IdleWorker EXCEPT !.pc = IF deferred.run THEN "resume" ELSE "start",
                           !.src = "deferred", !.mark = deferred.mark, !.skip = deferred.at,
                           !.claim = deferred.claims + 1] \in WorkerState
    BY <2>1, <2>2, <1>1, <1>4, Zenon
  <2>4. QED
    BY <2>3, BecomeType DEF ClaimDueDeferredTask, Worker
<1>6. QED
  BY <1>3, <1>5, RowStepType DEF ClaimDueDeferredTask, TypeOK

LEMMA TypeJudgeIssue ==
    ASSUME TypeOK, NEW o \in Operator, JudgeIssue(o)
    PROVE  TypeOK'
<1>1. AutomationIssuePolicy \subseteq {"continue", "retry", "cancel"}
  BY DEF AutomationIssuePolicy
<1>2. op' \in [Operator -> {"none", "continue", "retry", "cancel"}]
  BY <1>1 DEF JudgeIssue, TypeOK
<1>3. env' \in Nat
  BY DEF JudgeIssue, TypeOK
<1>4. QED
  BY <1>2, <1>3 DEF JudgeIssue, TypeOK, history

LEMMA TypeResolveRunIssue ==
    ASSUME TypeOK, NEW o \in Operator, ResolveRunIssue(o)
    PROVE  TypeOK'
<1>1. run' \in RunRow
  <2>1. Resume \in RunRow /\ run.cursor + 1 \in Cursor
    BY RowTypes DEF TypeOK, RunRow, Cursor
  <2>2. \A c \in Cursor : [Resume EXCEPT !.cursor = c] \in RunRow
    BY <2>1 DEF RunRow
  <2>3. Resume.cursor = run.cursor
    BY DEF Resume, TypeOK, RunRow
  <2>4. \/ run' = [Resume EXCEPT !.cursor = @ + 1] \/ run' = Resume
        \/ run' = [run EXCEPT !.status = "canceled", !.started = FALSE, !.leased = FALSE]
    BY DEF ResolveRunIssue
  <2>5. QED
    BY <2>1, <2>2, <2>3, <2>4, CanceledType
<1>2. retried' \in [Positions -> Nat]
  <2>1. retried \in [Positions -> Nat]
    BY DEF TypeOK
  <2>2. \A c \in Positions : retried[c] + 1 \in Nat
    BY <2>1
  <2>3. \/ retried' = retried
        \/ run.cursor \in Positions /\ retried' = [retried EXCEPT ![run.cursor] = @ + 1]
    BY DEF ResolveRunIssue
  <2>4. QED
    BY <2>1, <2>2, <2>3
<1>3. skipped' \subseteq Positions /\ unknown' \subseteq Positions
  BY DEF ResolveRunIssue, TypeOK
<1>4. op' \in [Operator -> {"none", "continue", "retry", "cancel"}]
  BY DEF ResolveRunIssue, TypeOK
<1>5. QED
  BY <1>1, <1>2, <1>3, <1>4 DEF ResolveRunIssue, TypeOK

LEMMA TypeOperate ==
    ASSUME TypeOK, Operate
    PROVE  TypeOK'
<1>1. ASSUME NEW o \in Operator, ResolveNotFound(o)
      PROVE  TypeOK'
  BY <1>1 DEF ResolveNotFound, TypeOK, history
<1>2. CASE ResolveDeferredIssue
  <2>1. [deferred EXCEPT !.state = "pending", !.claims = 0] \in DeferredRow
    BY DEF TypeOK, DeferredRow
  <2>2. deferred' \in DeferredRow
    BY <1>2, <2>1, RowTypes DEF ResolveDeferredIssue
  <2>3. env' \in Nat
    BY <1>2 DEF ResolveDeferredIssue, TypeOK
  <2>4. QED
    BY <1>2, <2>2, <2>3, RowStepType DEF ResolveDeferredIssue, TypeOK
<1>3. QED
  BY <1>1, <1>2, TypeJudgeIssue, TypeResolveRunIssue DEF Operate

LEMMA TypeDisturb ==
    ASSUME TypeOK, Disturb
    PROVE  TypeOK'
<1>1. CASE ExpireLease \/ Stall
  <2>1. run' \in RunRow
    BY <1>1, LeaseType DEF ExpireLease, Stall
  <2>2. env' \in Nat
    BY <1>1 DEF ExpireLease, Stall, TypeOK
  <2>3. QED
    BY <1>1, <2>1, <2>2, RowStepType DEF ExpireLease, Stall, TypeOK
<1>2. CASE Crash
  <2>1. worker' \in [Worker -> WorkerState]
    BY <1>2, IdleWorkerType DEF Crash
  <2>2. op' \in [Operator -> {"none", "continue", "retry", "cancel"}] /\ env' \in Nat
    BY <1>2 DEF Crash, TypeOK
  <2>3. QED
    BY <1>2, <2>1, <2>2 DEF Crash, TypeOK, history
<1>3. QED
  BY <1>1, <1>2, TypeGiveUp, TypeStatementFails DEF Disturb

LEMMA TypeNext ==
    ASSUME TypeOK, [Next]_vars
    PROVE  TypeOK'
<1>1. CASE Schedule
  BY <1>1, TypeScheduleRun, TypeClaimDueDeferredTask DEF Schedule, Recover
<1>2. CASE UNCHANGED vars
  BY <1>2 DEF vars, history, TypeOK
<1>3. QED
  BY <1>1, <1>2, TypeTryStartRun, TypeExecute, TypeOperate, TypeDisturb DEF Next

\* The rows and the goroutines are well formed in every reachable state.
THEOREM TypeCorrect == Spec => []TypeOK
<1>1. Init => TypeOK
  BY TypeInit
<1>2. TypeOK /\ [Next]_vars => TypeOK'
  BY TypeNext
<1>3. QED
  BY <1>1, <1>2, PTL DEF Spec

-----------------------------------------------------------------------------
(* The account of calls                                                    *)

\* The row is inserted at the first action, unclaimed.
AbsentRow == run.status = "absent" => run.cursor = 1 /\ ~run.started

\* ClaimAccounted is inductive once the inserted row is known to be clean.
AccountInv == TypeOK /\ AbsentRow /\ ClaimAccounted

\* What almost every step does: it calls nothing, stays at the action and
\* gives no claim back, except by canceling the run.
KeepsAccount ==
    /\ UNCHANGED <<issued, retried>>
    /\ run'.cursor = run.cursor
    /\ run.started => run'.started \/ run'.status = "canceled"
    /\ run.status = "canceled" => run'.status = "canceled"
    /\ run'.status = "absent" => run.status = "absent" /\ run'.started = run.started

LEMMA AccountKept ==
    ASSUME AccountInv, KeepsAccount
    PROVE  AbsentRow' /\ ClaimAccounted'
<1>1. AbsentRow'
  BY DEF AccountInv, AbsentRow, KeepsAccount
<1>2. ASSUME NEW c \in Positions
      PROVE  issued'[c] <= retried'[c] + (IF \/ c < run'.cursor
                                             \/ /\ c = run'.cursor
                                                /\ run'.started \/ run'.status = "canceled"
                                          THEN 1 ELSE 0)
  <2>1. issued[c] \in Int /\ retried[c] \in Nat
    BY DEF AccountInv, TypeOK
  <2>2. issued[c] <= retried[c] + (IF \/ c < run.cursor
                                      \/ /\ c = run.cursor
                                         /\ run.started \/ run.status = "canceled"
                                   THEN 1 ELSE 0)
    BY DEF AccountInv, ClaimAccounted
  <2>3. QED
    BY <2>1, <2>2 DEF KeepsAccount
<1>3. QED
  BY <1>1, <1>2 DEF ClaimAccounted

\* A new row finds nothing called; a reclaimed one keeps its account.
LEMMA AccountTryStartRun ==
    ASSUME AccountInv, NEW w \in Worker, TryStartRun(w)
    PROVE  AbsentRow' /\ ClaimAccounted'
<1>1. CASE run.status = "absent" /\ run' = NewRun
  <2>1. run.cursor = 1 /\ ~run.started
    BY <1>1 DEF AccountInv, AbsentRow
  <2>2. run'.cursor = 1 /\ ~run'.started /\ run'.status = "running"
    BY <1>1 DEF NewRun
  <2>3. UNCHANGED <<issued, retried>>
    BY DEF TryStartRun, history
  <2>4. QED
    BY <1>1, <2>1, <2>2, <2>3 DEF AccountInv, AbsentRow, ClaimAccounted
<1>2. CASE Reclaimable /\ run' = Reclaimed
  <2>1. KeepsAccount
    BY <1>2 DEF TryStartRun, Reclaimable, Reclaimed, KeepsAccount, history, AccountInv, TypeOK, RunRow
  <2>2. QED
    BY <2>1, AccountKept
<1>3. QED
  BY <1>1, <1>2 DEF TryStartRun

\* The claim pays for the call.
LEMMA AccountStartRunAction ==
    ASSUME AccountInv, NEW w \in Worker, StartRunAction(w)
    PROVE  AbsentRow' /\ ClaimAccounted'
<1>1. CASE run' = run /\ issued' = issued
  <2>1. KeepsAccount
    BY <1>1 DEF StartRunAction, KeepsAccount
  <2>2. QED
    BY <2>1, AccountKept
<1>2. CASE /\ HoldsAction(w) /\ ~run.started
           /\ run' = [run EXCEPT !.started = TRUE, !.leased = TRUE]
           /\ issued' = [issued EXCEPT ![worker[w].cur] = @ + 1]
  <2>1. /\ run.status = "running" /\ run.cursor = worker[w].cur /\ retried' = retried
        /\ run.cursor \in Positions
    BY <1>2 DEF HoldsAction, Holds, StartRunAction
  <2>2. run'.cursor = run.cursor /\ run'.started /\ run'.status = "running"
    BY <1>2, <2>1 DEF AccountInv, TypeOK, RunRow
  <2>3. ASSUME NEW c \in Positions
        PROVE  issued'[c] <= retried'[c] + (IF \/ c < run'.cursor
                                               \/ /\ c = run'.cursor
                                                  /\ run'.started \/ run'.status = "canceled"
                                            THEN 1 ELSE 0)
    <3>1. issued \in [Positions -> Int] /\ issued[c] \in Int /\ retried[c] \in Nat
      BY DEF AccountInv, TypeOK
    <3>2. issued[c] <= retried[c] + (IF c < run.cursor THEN 1 ELSE 0)
      BY <1>2, <2>1 DEF AccountInv, ClaimAccounted
    <3>3. c \in Int /\ run.cursor \in Int
      BY <2>1 DEF Positions
    <3>4. CASE c = run.cursor
      <4>1. issued'[c] = issued[c] + 1
        BY <3>4, <3>1, <1>2, <2>1
      <4>2. QED
        BY <4>1, <3>1, <3>2, <3>3, <3>4, <2>1, <2>2
    <3>5. CASE c # run.cursor
      <4>1. issued'[c] = issued[c]
        BY <3>5, <3>1, <1>2, <2>1
      <4>2. QED
        BY <4>1, <3>1, <3>2, <3>3, <3>5, <2>1, <2>2
    <3>6. QED
      BY <3>4, <3>5
  <2>4. QED
    BY <2>2, <2>3 DEF ClaimAccounted, AbsentRow
<1>3. QED
  BY <1>1, <1>2 DEF StartRunAction

\* Moving on, by a checkpoint or by an operator, passes the claimed action.
LEMMA AccountAdvanced ==
    ASSUME AccountInv, UNCHANGED <<issued, retried>>,
           run'.cursor = run.cursor + 1, run'.status = "running"
    PROVE  AbsentRow' /\ ClaimAccounted'
<1>1. AbsentRow'
  BY DEF AbsentRow
<1>2. ASSUME NEW c \in Positions
      PROVE  issued'[c] <= retried'[c] + (IF \/ c < run'.cursor
                                             \/ /\ c = run'.cursor
                                                /\ run'.started \/ run'.status = "canceled"
                                          THEN 1 ELSE 0)
  <2>1. issued[c] \in Int /\ retried[c] \in Nat /\ c \in Int /\ run.cursor \in Int
    BY DEF AccountInv, TypeOK, RunRow, Positions, Cursor
  <2>2. issued[c] <= retried[c] + (IF c <= run.cursor THEN 1 ELSE 0)
    BY <2>1 DEF AccountInv, ClaimAccounted
  <2>3. QED
    BY <2>1, <2>2
<1>3. QED
  BY <1>1, <1>2 DEF ClaimAccounted

LEMMA AccountCheckpoint ==
    ASSUME AccountInv, NEW w \in Worker, AdvanceRunAction(w) \/ ContinueAfterUncertain(w)
    PROVE  AbsentRow' /\ ClaimAccounted'
<1>1. UNCHANGED <<issued, retried>>
  BY DEF AdvanceRunAction, ContinueAfterUncertain
<1>2. CASE HoldsAction(w) /\ Checkpoint(w)
  <2>1. run'.cursor = run.cursor + 1 /\ run'.status = "running"
    BY <1>2 DEF HoldsAction, Holds, Checkpoint, AccountInv, TypeOK, RunRow
  <2>2. QED
    BY <1>1, <2>1, AccountAdvanced
<1>3. CASE run' = run
  <2>1. KeepsAccount
    BY <1>1, <1>3 DEF KeepsAccount
  <2>2. QED
    BY <2>1, AccountKept
<1>4. QED
  BY <1>2, <1>3 DEF AdvanceRunAction, ContinueAfterUncertain

\* A call known not to have happened comes off the account before its claim
\* is given back, if it is given back.
LEMMA AccountDischarged ==
    ASSUME AccountInv, NEW w \in Worker, Discharge(w), retried' = retried,
           run'.cursor = run.cursor, run'.status = run.status,
           \/ run'.started = run.started
           \/ run.cursor = worker[w].cur /\ run'.started = FALSE
    PROVE  AbsentRow' /\ ClaimAccounted'
<1>1. /\ issued \in [Positions -> Int] /\ retried \in [Positions -> Nat]
      /\ issued' = [issued EXCEPT ![worker[w].cur] = @ - 1]
  BY DEF Discharge, AccountInv, TypeOK
<1>2. AbsentRow'
  BY DEF AbsentRow, AccountInv
<1>3. ASSUME NEW c \in Positions
      PROVE  issued'[c] <= retried'[c] + (IF \/ c < run'.cursor
                                             \/ /\ c = run'.cursor
                                                /\ run'.started \/ run'.status = "canceled"
                                          THEN 1 ELSE 0)
  <2>1. issued[c] \in Int /\ retried[c] \in Nat
    BY <1>1
  <2>2. issued[c] <= retried[c] + (IF \/ c < run.cursor
                                      \/ /\ c = run.cursor
                                         /\ run.started \/ run.status = "canceled"
                                   THEN 1 ELSE 0)
    BY DEF AccountInv, ClaimAccounted
  <2>3. CASE c = worker[w].cur
    <3>1. issued'[c] = issued[c] - 1
      BY <2>3, <1>1
    <3>2. QED
      BY <3>1, <2>1, <2>2
  <2>4. CASE c # worker[w].cur
    <3>1. issued'[c] = issued[c]
      BY <2>4, <1>1
    <3>2. QED
      BY <3>1, <2>1, <2>2, <2>4
  <2>5. QED
    BY <2>3, <2>4
<1>4. QED
  BY <1>2, <1>3 DEF ClaimAccounted

LEMMA AccountAbortRunAction ==
    ASSUME AccountInv, NEW w \in Worker, AbortRunAction(w)
    PROVE  AbsentRow' /\ ClaimAccounted'
<1>1. /\ run'.cursor = run.cursor /\ run'.status = run.status
      /\ run'.started = run.started \/ (run.cursor = worker[w].cur /\ run'.started = FALSE)
  BY DEF AbortRunAction, HoldsAction, AccountInv, TypeOK, RunRow
<1>2. QED
  BY <1>1, AccountDischarged DEF AbortRunAction

\* An operator's decision: pass the action, allow one more call, or close.
LEMMA AccountResolveRunIssue ==
    ASSUME AccountInv, NEW o \in Operator, ResolveRunIssue(o)
    PROVE  AbsentRow' /\ ClaimAccounted'
<1>1. run \in RunRow /\ run.status = "needs_review" /\ issued' = issued
  BY DEF ResolveRunIssue, AccountInv, TypeOK
<1>2. CASE run' = [Resume EXCEPT !.cursor = @ + 1] /\ retried' = retried
  <2>1. run'.cursor = run.cursor + 1 /\ run'.status = "running"
    BY <1>1, <1>2 DEF Resume, RunRow
  <2>2. QED
    BY <1>1, <1>2, <2>1, AccountAdvanced
<1>3. CASE /\ run' = Resume
           /\ retried' = IF run.cursor \in Positions
                         THEN [retried EXCEPT ![run.cursor] = @ + 1] ELSE retried
  <2>1. run'.cursor = run.cursor /\ ~run'.started /\ run'.status = "running"
    BY <1>1, <1>3 DEF Resume, RunRow
  <2>2. ASSUME NEW c \in Positions
        PROVE  issued'[c] <= retried'[c] + (IF \/ c < run'.cursor
                                               \/ /\ c = run'.cursor
                                                  /\ run'.started \/ run'.status = "canceled"
                                            THEN 1 ELSE 0)
    <3>1. /\ issued[c] \in Int /\ retried \in [Positions -> Nat] /\ retried[c] \in Nat
          /\ c \in Int /\ run.cursor \in Int
      BY DEF AccountInv, TypeOK, Positions, RunRow, Cursor
    <3>2. issued[c] <= retried[c] + (IF c <= run.cursor THEN 1 ELSE 0)
      BY <3>1 DEF AccountInv, ClaimAccounted
    <3>3. CASE c = run.cursor
      <4>1. retried'[c] = retried[c] + 1
        BY <3>1, <3>3, <1>3
      <4>2. QED
        BY <4>1, <3>1, <3>2, <3>3, <2>1, <1>1
    <3>4. CASE c # run.cursor
      <4>1. retried'[c] = retried[c]
        BY <3>1, <3>4, <1>3
      <4>2. QED
        BY <4>1, <3>1, <3>2, <3>4, <2>1, <1>1
    <3>5. QED
      BY <3>3, <3>4
  <2>3. QED
    BY <2>1, <2>2 DEF ClaimAccounted, AbsentRow
<1>4. CASE /\ run' = [run EXCEPT !.status = "canceled", !.started = FALSE, !.leased = FALSE]
           /\ retried' = retried
  <2>1. run'.cursor = run.cursor /\ run'.status = "canceled"
    BY <1>1, <1>4 DEF RunRow
  <2>2. KeepsAccount
    BY <1>1, <1>4, <2>1 DEF KeepsAccount
  <2>3. QED
    BY <2>2, AccountKept
<1>5. QED
  BY <1>2, <1>3, <1>4 DEF ResolveRunIssue

\* Every other step of a goroutine.
LEMMA AccountExecute ==
    ASSUME AccountInv, NEW w \in Worker, Execute(w)
    PROVE  AbsentRow' /\ ClaimAccounted'
<1>1. run \in RunRow
  BY DEF AccountInv, TypeOK
<1>2. CASE \/ LoadRun(w) \/ ResumeSkipped(w) \/ CheckRunExecution(w)
           \/ ActionSucceeds(w) \/ ActionRefused(w) \/ ActionUncertain(w)
           \/ StopAfterUncertain(w) \/ FailPartial(w) \/ EndMarked(w) \/ FinishDeferredTask(w)
  <2>1. run' = run /\ UNCHANGED history
    BY <1>2 DEF LoadRun, ResumeSkipped, CheckRunExecution, ActionSucceeds, ActionRefused,
       ActionUncertain, StopAfterUncertain, FailPartial, EndMarked, FinishDeferredTask
  <2>2. QED
    BY <2>1, AccountKept DEF KeepsAccount, history
<1>3. CASE DeferAction(w)
  <2>1. KeepsAccount
    BY <1>1, <1>3 DEF DeferAction, Holds, KeepsAccount, history, RunRow
  <2>2. QED
    BY <2>1, AccountKept
<1>4. CASE FinishFailed(w) \/ FinishSuccess(w)
  <2>1. KeepsAccount
    BY <1>1, <1>4 DEF FinishFailed, FinishSuccess, Holds, KeepsAccount, history, RunRow
  <2>2. QED
    BY <2>1, AccountKept
<1>5. CASE QuarantineRun(w) \/ QuarantineRunResult(w)
  <2>1. KeepsAccount
    BY <1>1, <1>5 DEF QuarantineRun, QuarantineRunResult, MayQuarantine, UnderReview,
       KeepsAccount, history, RunRow
  <2>2. QED
    BY <2>1, AccountKept
<1>6. QED
  BY <1>2, <1>3, <1>4, <1>5, AccountTryStartRun, AccountStartRunAction, AccountCheckpoint,
     AccountAbortRunAction DEF Execute

LEMMA AccountSchedule ==
    ASSUME AccountInv, Schedule
    PROVE  AbsentRow' /\ ClaimAccounted'
<1>1. run \in RunRow
  BY DEF AccountInv, TypeOK
<1>2. CASE QuarantineRecoveryRun \/ RejectRecoveryRun
  <2>1. KeepsAccount
    BY <1>1, <1>2 DEF QuarantineRecoveryRun, RejectRecoveryRun, Reclaimable, UnderReview,
       KeepsAccount, history, RunRow
  <2>2. QED
    BY <2>1, AccountKept
<1>3. CASE PostponeRecoveryRun \/ CancelObsoletePaidRecoveryRun
  <2>1. KeepsAccount
    BY <1>1, <1>3 DEF PostponeRecoveryRun, CancelObsoletePaidRecoveryRun, Reclaimable,
       KeepsAccount, history, RunRow
  <2>2. QED
    BY <2>1, AccountKept
<1>4. CASE ClaimRecoveryRun \/ ReopenRunForRecovery
  <2>1. KeepsAccount
    BY <1>1, <1>4 DEF ClaimRecoveryRun, ReopenRunForRecovery, Reclaimable, Reclaimed,
       KeepsAccount, history, RunRow
  <2>2. QED
    BY <2>1, AccountKept
<1>5. CASE ClaimDueDeferredTask
  BY <1>5, AccountKept DEF ClaimDueDeferredTask, KeepsAccount, history
<1>6. QED
  BY <1>2, <1>3, <1>4, <1>5 DEF Schedule, Recover

LEMMA AccountOperate ==
    ASSUME AccountInv, Operate
    PROVE  AbsentRow' /\ ClaimAccounted'
<1>1. ASSUME NEW o \in Operator, JudgeIssue(o) \/ ResolveNotFound(o)
      PROVE  AbsentRow' /\ ClaimAccounted'
  BY <1>1, AccountKept DEF JudgeIssue, ResolveNotFound, KeepsAccount, history
<1>2. CASE ResolveDeferredIssue
  BY <1>2, AccountKept DEF ResolveDeferredIssue, KeepsAccount, history
<1>3. QED
  BY <1>1, <1>2, AccountResolveRunIssue DEF Operate

LEMMA AccountDisturb ==
    ASSUME AccountInv, Disturb
    PROVE  AbsentRow' /\ ClaimAccounted'
<1>1. CASE ExpireLease \/ Stall
  <2>1. KeepsAccount
    BY <1>1 DEF ExpireLease, Stall, KeepsAccount, history, AccountInv, TypeOK, RunRow
  <2>2. QED
    BY <2>1, AccountKept
<1>2. ASSUME NEW w \in Worker, StatementFails(w)
      PROVE  AbsentRow' /\ ClaimAccounted'
  <2>1. CASE Discharge(w)
    BY <1>2, <2>1, AccountDischarged DEF StatementFails
  <2>2. CASE UNCHANGED issued
    BY <1>2, <2>2, AccountKept DEF StatementFails, KeepsAccount
  <2>3. QED
    BY <1>2, <2>1, <2>2 DEF StatementFails
<1>3. ASSUME run' = run, UNCHANGED history
      PROVE  AbsentRow' /\ ClaimAccounted'
  BY <1>3, AccountKept DEF KeepsAccount, history
<1>4. QED
  BY <1>1, <1>2, <1>3
     DEF Disturb, Crash, PrepareFails, PostponeDeferredTask, IgnoreTask, DeferEvent, Abandon

LEMMA AccountInductive ==
    ASSUME AccountInv, [Next]_vars
    PROVE  AccountInv'
<1>1. TypeOK'
  BY TypeNext DEF AccountInv
<1>2. AbsentRow' /\ ClaimAccounted'
  <2>1. CASE UNCHANGED vars
    BY <2>1, AccountKept DEF vars, history, KeepsAccount
  <2>2. QED
    BY <2>1, AccountTryStartRun, AccountExecute, AccountSchedule, AccountOperate,
       AccountDisturb DEF Next
<1>3. QED
  BY <1>1, <1>2 DEF AccountInv

LEMMA AccountInit == Init => AccountInv
<1> SUFFICES ASSUME Init PROVE AccountInv
  OBVIOUS
<1>1. run.cursor = 1 /\ ~run.started
  BY DEF Init, NewRun
<1>2. \A c \in Positions : issued[c] = 0 /\ retried[c] = 0
  BY DEF Init
<1>3. QED
  BY <1>1, <1>2, TypeInit DEF AccountInv, AbsentRow, ClaimAccounted

\* The account of the claims is an invariant together with the fresh state of
\* a row that does not exist yet: TryStartRun's insert puts the cursor back to
\* the first action, which would otherwise forget every call made before.
THEOREM AccountInvariant == Spec => []AccountInv
<1>1. AccountInv /\ [Next]_vars => AccountInv'
  BY AccountInductive
<1>2. QED
  BY <1>1, AccountInit, PTL DEF Spec

\* A call whose result is not recorded keeps its claim until an operator
\* orders a retry or the run is canceled (StartRunAction, AdvanceRunAction,
\* AbortRunAction, ResolveRunIssue).
THEOREM ClaimsAccounted == Spec => []ClaimAccounted
<1>1. AccountInv => ClaimAccounted
  BY DEF AccountInv
<1>2. QED
  BY <1>1, AccountInvariant, PTL

\* No action is handed to the platform twice unless an operator ordered it,
\* whatever is redelivered, crashes, stalls or is claimed again.
THEOREM AtMostOnce == Spec => []CallsAuthorised
<1>1. AccountInv => CallsAuthorised
  <2> SUFFICES ASSUME AccountInv, NEW c \in Positions
               PROVE  issued[c] <= 1 + retried[c]
    BY DEF CallsAuthorised
  <2>1. issued[c] \in Int /\ retried[c] \in Nat
    BY DEF AccountInv, TypeOK
  <2>2. QED
    BY <2>1 DEF AccountInv, ClaimAccounted
<1>2. QED
  BY <1>1, AccountInvariant, PTL

-----------------------------------------------------------------------------
(* The hand-outs that are still out                                        *)

\* Between the claim of an action and the record, or the report, of its result.
HandedOut == {"claimed", "calling", "advance", "unsure", "abort"}
Holders(c) == {w \in Worker : worker[w].pc \in HandedOut /\ worker[w].cur = c}

Passed(c) == c < run.cursor /\ c \notin skipped

\* Every hand-out that is still out, and one more of every action that was
\* passed without an operator, is on the account.
HandOutsCounted ==
    \A c \in Positions :
        /\ IsFiniteSet(Holders(c))
        /\ Cardinality(Holders(c)) + (IF Passed(c) THEN 1 ELSE 0) <= issued[c]

\* No goroutine is ahead of the row, and what was handed out is in the plan.
BehindRow ==
    \A w \in Worker :
        /\ worker[w].cur <= run.cursor
        /\ worker[w].pc \in HandedOut => worker[w].cur \in Positions /\ run.status # "absent"

\* A hand-out keeps its claim unless an operator retries it or cancels the run.
ClaimKept ==
    \A w \in Worker :
        worker[w].pc \in HandedOut /\ worker[w].cur = run.cursor =>
            run.started \/ retried[run.cursor] > 0 \/ run.status = "canceled"

\* The row: a claimed action is one of the plan, a success stands behind it,
\* and behind an unknown outcome there are only confirmations.
RowTrue ==
    /\ run.started => run.cursor \in Positions
    /\ run.status = "success" => run.cursor > Len(Plan)
    /\ unknown # {} => \A i \in Positions : i >= run.cursor => Plan[i] = "confirm"

RunInv == AccountInv /\ HandOutsCounted /\ BehindRow /\ ClaimKept /\ RowTrue

-----------------------------------------------------------------------------
(* Steps that hand nothing out, record nothing and pass nothing            *)

\* What a step keeps: the parts of the invariant, and the ledger's rules.
LedgerStep == [Ledger!Next]_(Ledger!ledger)
RunKept == HandOutsCounted' /\ BehindRow' /\ ClaimKept' /\ RowTrue' /\ LedgerStep

QuietRow ==
    /\ UNCHANGED history
    /\ run'.cursor = run.cursor
    /\ \/ run'.started = run.started /\ (run'.status = "canceled" <=> run.status = "canceled")
       \/ run'.started = FALSE /\ run'.status = "canceled" /\ run.status # "canceled"
    /\ run'.status = "success" => run.status = "success" \/ run.cursor > Len(Plan)
    /\ run'.status = "absent" => run.status = "absent"

QuietWorkers ==
    \A w \in Worker :
        /\ worker'[w].pc \in HandedOut =>
              worker[w].pc \in HandedOut /\ worker'[w].cur = worker[w].cur
        /\ worker'[w].cur \in {worker[w].cur, 1, run.cursor}

LEMMA QuietKeeps ==
    ASSUME RunInv, QuietRow, QuietWorkers
    PROVE  RunKept
<1>1. UNCHANGED <<issued, retried, skipped, unknown>>
  BY DEF QuietRow, history
<1>2. run.cursor \in Nat /\ run.cursor >= 1
  BY DEF RunInv, AccountInv, TypeOK, RunRow, Cursor
<1>3. HandOutsCounted'
  <2> SUFFICES ASSUME NEW c \in Positions
               PROVE  /\ IsFiniteSet(Holders(c)')
                      /\ Cardinality(Holders(c)') + (IF Passed(c)' THEN 1 ELSE 0) <= issued'[c]
    BY DEF HandOutsCounted
  <2>1. /\ IsFiniteSet(Holders(c)) /\ issued[c] \in Int
        /\ Cardinality(Holders(c)) + (IF Passed(c) THEN 1 ELSE 0) <= issued[c]
    BY DEF RunInv, HandOutsCounted, AccountInv, TypeOK
  <2>2. Holders(c)' \in SUBSET Holders(c)
    BY DEF Holders, QuietWorkers
  <2>3. /\ IsFiniteSet(Holders(c)') /\ Cardinality(Holders(c)') <= Cardinality(Holders(c))
        /\ Cardinality(Holders(c)) \in Nat /\ Cardinality(Holders(c)') \in Nat
    BY <2>1, <2>2, FS_Subset, FS_CardinalityType
  <2>4. Passed(c)' <=> Passed(c)
    BY <1>1 DEF Passed, QuietRow
  <2>5. QED
    BY <2>1, <2>3, <2>4, <1>1
<1>4. BehindRow'
  <2> SUFFICES ASSUME NEW w \in Worker
               PROVE  /\ worker'[w].cur <= run'.cursor
                      /\ worker'[w].pc \in HandedOut =>
                            worker'[w].cur \in Positions /\ run'.status # "absent"
    BY DEF BehindRow
  <2>1. /\ worker[w].cur <= run.cursor
        /\ worker[w].pc \in HandedOut => worker[w].cur \in Positions /\ run.status # "absent"
    BY DEF RunInv, BehindRow
  <2>2. QED
    BY <1>2, <2>1 DEF QuietRow, QuietWorkers
<1>5. ClaimKept'
  BY <1>1 DEF RunInv, ClaimKept, QuietRow, QuietWorkers
<1>6. RowTrue'
  BY <1>1 DEF RunInv, RowTrue, QuietRow
<1>7. LedgerStep
  <2>1. CASE run'.started = run.started /\ (run'.status = "canceled" <=> run.status = "canceled")
    BY <1>1, <2>1 DEF LedgerStep, Ledger!ledger, QuietRow
  <2>2. CASE run'.started = FALSE /\ run'.status = "canceled" /\ run.status # "canceled"
    <3>1. Ledger!Cancel
      BY <1>1, <2>2 DEF Ledger!Cancel, QuietRow
    <3>2. QED
      BY <3>1 DEF LedgerStep, Ledger!Next
  <2>3. QED
    BY <2>1, <2>2 DEF QuietRow
<1>8. QED
  BY <1>3, <1>4, <1>5, <1>6, <1>7 DEF RunKept

LEMMA BecomeOthers ==
    ASSUME TypeOK, NEW w \in Worker, NEW state, Become(w, state)
    PROVE  worker'[w] = state /\ \A v \in Worker \ {w} : worker'[v] = worker[v]
BY DEF Become, TypeOK

LEMMA QuietBecome ==
    ASSUME TypeOK, NEW w \in Worker, NEW state, Become(w, state),
           state.pc \in HandedOut => worker[w].pc \in HandedOut /\ state.cur = worker[w].cur,
           state.cur \in {worker[w].cur, 1, run.cursor}
    PROVE  QuietWorkers
BY BecomeOthers DEF QuietWorkers

\* A goroutine that only changes its phase; it enters a handed-out phase from one.
LEMMA QuietMove ==
    ASSUME TypeOK, NEW w \in Worker, NEW pc,
           pc \in HandedOut => worker[w].pc \in HandedOut,
           \/ Goto(w, pc)
           \/ \E kind \in ErrorKind : (pc = "fail" /\ Fail(w, kind)) \/ (pc = "abort" /\ Refused(w, kind))
    PROVE  QuietWorkers
<1>1. worker[w] \in WorkerState
  BY DEF TypeOK
<1>2. CASE Goto(w, pc)
  <2>1. /\ [worker[w] EXCEPT !.pc = pc].pc = pc
        /\ [worker[w] EXCEPT !.pc = pc].cur = worker[w].cur
    BY <1>1 DEF WorkerState
  <2>2. QED
    BY <1>2, <2>1, QuietBecome DEF Goto
<1>3. ASSUME NEW kind \in ErrorKind, Fail(w, kind)
      PROVE  QuietWorkers
  <2>1. /\ [worker[w] EXCEPT !.pc = "fail", !.kind = kind].pc \notin HandedOut
        /\ [worker[w] EXCEPT !.pc = "fail", !.kind = kind].cur = worker[w].cur
    BY <1>1 DEF WorkerState, HandedOut
  <2>2. QED
    BY <1>3, <2>1, QuietBecome DEF Fail
<1>4. ASSUME NEW kind \in ErrorKind, pc = "abort", Refused(w, kind)
      PROVE  QuietWorkers
  <2>1. [worker[w] EXCEPT !.pc = "abort", !.kind = kind].cur = worker[w].cur
    BY <1>1 DEF WorkerState
  <2>2. worker[w].pc \in HandedOut
    BY <1>4 DEF HandedOut
  <2>3. QED
    BY <1>4, <2>1, <2>2, QuietBecome DEF Refused
<1>5. QED
  BY <1>2, <1>3, <1>4

LEMMA QuietIdle ==
    ASSUME TypeOK, NEW w \in Worker,
           Become(w, IdleWorker) \/ (\E ok \in BOOLEAN : Return(w, ok))
    PROVE  QuietWorkers
<1>1. worker[w] \in WorkerState
  BY DEF TypeOK
<1>2. IdleWorker.pc \notin HandedOut /\ IdleWorker.cur = 1
  BY DEF IdleWorker, HandedOut
<1>3. ASSUME NEW ok \in BOOLEAN
      PROVE  /\ [worker[w] EXCEPT !.pc = "settle", !.ok = ok].pc \notin HandedOut
             /\ [worker[w] EXCEPT !.pc = "settle", !.ok = ok].cur = worker[w].cur
  BY <1>1 DEF WorkerState, HandedOut
<1>4. QED
  BY <1>2, <1>3, QuietBecome DEF Return

LEMMA QuietStill ==
    ASSUME worker' = worker
    PROVE  QuietWorkers
BY DEF QuietWorkers

-----------------------------------------------------------------------------
(* The steps that keep the account                                         *)

\* A row that does not exist yet is inserted where it already stands.
LEMMA QuietTryStartRun ==
    ASSUME RunInv, NEW w \in Worker, TryStartRun(w)
    PROVE  RunKept
<1>1. QuietWorkers
  BY QuietMove DEF TryStartRun, HandedOut, RunInv, AccountInv
<1>2. QuietRow
  <2>1. run \in RunRow /\ UNCHANGED history
    BY DEF TryStartRun, RunInv, AccountInv, TypeOK
  <2>2. CASE run.status = "absent" /\ run' = NewRun
    <3>1. run.cursor = 1 /\ run.started = FALSE
      BY <2>1, <2>2 DEF RunInv, AccountInv, AbsentRow, RunRow
    <3>2. run'.cursor = 1 /\ run'.started = FALSE /\ run'.status = "running"
      BY <2>2 DEF NewRun
    <3>3. QED
      BY <2>1, <2>2, <3>1, <3>2 DEF QuietRow
  <2>3. CASE Reclaimable /\ run' = Reclaimed
    BY <2>1, <2>3 DEF Reclaimable, Reclaimed, QuietRow, RunRow
  <2>4. QED
    BY <2>2, <2>3 DEF TryStartRun
<1>3. QED
  BY <1>1, <1>2, QuietKeeps DEF RunKept

LEMMA QuietLoadRun ==
    ASSUME RunInv, NEW w \in Worker, LoadRun(w)
    PROVE  RunKept
<1>1. worker[w] \in WorkerState
  BY DEF RunInv, AccountInv, TypeOK
<1>2. QuietWorkers
  <2> DEFINE state == [worker[w] EXCEPT !.pc = "ready", !.att = run.attempt,
                                        !.cur = run.cursor, !.sent = run.sent]
  <2>1. state.pc = "ready" /\ state.cur = run.cursor
    BY <1>1 DEF WorkerState
  <2>2. Become(w, state)
    BY DEF LoadRun
  <2> HIDE DEF state
  <2>3. QED
    BY <2>1, <2>2, QuietBecome DEF HandedOut, RunInv, AccountInv
<1>3. QuietRow
  BY DEF LoadRun, QuietRow
<1>4. QED
  BY <1>2, <1>3, QuietKeeps DEF RunKept

\* Steps of executeRule that leave the row alone.
LEMMA QuietDecide ==
    ASSUME RunInv, NEW w \in Worker,
           \/ ResumeSkipped(w) \/ CheckRunExecution(w) \/ ActionRefused(w)
           \/ FailPartial(w) \/ EndMarked(w) \/ FinishDeferredTask(w)
    PROVE  RunKept
<1>1. TypeOK
  BY DEF RunInv, AccountInv
<1>2. QuietWorkers
  <2>1. CASE CheckRunExecution(w)
    <3>1. worker[w].pc \in HandedOut /\ "plain" \in ErrorKind
      BY <2>1 DEF CheckRunExecution, At, HandedOut, ErrorKind
    <3>2. Goto(w, "calling") \/ Refused(w, "plain")
      BY <2>1 DEF CheckRunExecution
    <3>3. QED
      BY <3>1, <3>2, <1>1, QuietMove
  <2>2. CASE ActionRefused(w)
    <3>1. worker[w].pc \in HandedOut
      BY <2>2 DEF ActionRefused, At, HandedOut
    <3>2. \E kind \in ErrorKind : Refused(w, kind)
      BY <2>2 DEF ActionRefused
    <3>3. QED
      BY <3>1, <3>2, <1>1, QuietMove
  <2>3. CASE FailPartial(w) \/ EndMarked(w)
    BY <2>3, <1>1, QuietMove DEF FailPartial, EndMarked, HandedOut
  <2>4. CASE ResumeSkipped(w) \/ FinishDeferredTask(w)
    BY <2>4, <1>1, QuietIdle DEF ResumeSkipped, FinishDeferredTask
  <2>5. QED
    BY <2>1, <2>2, <2>3, <2>4
<1>3. QuietRow
  <2>1. run' = run /\ UNCHANGED history
    BY DEF ResumeSkipped, CheckRunExecution, ActionRefused, FailPartial, EndMarked,
       FinishDeferredTask
  <2>2. QED
    BY <2>1 DEF QuietRow
<1>4. QED
  BY <1>2, <1>3, QuietKeeps DEF RunKept

\* An answer, and the decision to stop after an unknown one.
LEMMA QuietAnswer ==
    ASSUME RunInv, NEW w \in Worker,
           ActionSucceeds(w) \/ ActionUncertain(w) \/ StopAfterUncertain(w)
    PROVE  RunKept
<1>1. TypeOK /\ worker[w] \in WorkerState
  BY DEF RunInv, AccountInv, TypeOK
<1>2. worker[w].pc \in HandedOut
  BY DEF ActionSucceeds, ActionUncertain, StopAfterUncertain, At, HandedOut
<1>3. PICK state : /\ Become(w, state) /\ state.cur = worker[w].cur
  <2>1. CASE StopAfterUncertain(w)
    <3> DEFINE s == [worker[w] EXCEPT !.pc = "quarantineResult", !.sent = @ + worker[w].n]
    <3>1. s.cur = worker[w].cur
      BY <1>1 DEF WorkerState
    <3>2. Become(w, s)
      BY <2>1 DEF StopAfterUncertain
    <3> HIDE DEF s
    <3>3. QED
      BY <3>1, <3>2
  <2>2. CASE ActionSucceeds(w)
    <3>1. PICK n : Become(w, [worker[w] EXCEPT !.pc = "advance", !.n = n])
      BY <2>2 DEF ActionSucceeds
    <3>2. [worker[w] EXCEPT !.pc = "advance", !.n = n].cur = worker[w].cur
      BY <1>1 DEF WorkerState
    <3>3. QED
      BY <3>1, <3>2
  <2>3. CASE ActionUncertain(w)
    <3>1. PICK n : Become(w, [worker[w] EXCEPT !.pc = "unsure", !.n = n])
      BY <2>3 DEF ActionUncertain
    <3>2. [worker[w] EXCEPT !.pc = "unsure", !.n = n].cur = worker[w].cur
      BY <1>1 DEF WorkerState
    <3>3. QED
      BY <3>1, <3>2
  <2>4. QED
    BY <2>1, <2>2, <2>3
<1>4. QuietWorkers
  BY <1>1, <1>2, <1>3, QuietBecome
<1>5. QuietRow
  BY DEF ActionSucceeds, ActionUncertain, StopAfterUncertain, QuietRow
<1>6. QED
  BY <1>4, <1>5, QuietKeeps DEF RunKept

\* Steps of executeRule that end the attempt or give it away.
LEMMA QuietEnd ==
    ASSUME RunInv, NEW w \in Worker,
           \/ DeferAction(w) \/ FinishFailed(w) \/ FinishSuccess(w)
           \/ QuarantineRun(w) \/ QuarantineRunResult(w)
    PROVE  RunKept
<1>1. TypeOK /\ run \in RunRow
  BY DEF RunInv, AccountInv, TypeOK
<1>2. QuietWorkers
  <2>1. CASE DeferAction(w)
    <3>1. Become(w, IdleWorker) \/ Fail(w, "plain")
      BY <2>1 DEF DeferAction
    <3>2. "plain" \in ErrorKind /\ "fail" \notin HandedOut
      BY DEF ErrorKind, HandedOut
    <3>3. QED
      BY <3>1, <3>2, <1>1, QuietIdle, QuietMove
  <2>2. CASE FinishFailed(w) \/ FinishSuccess(w)
    <3>1. (\E ok \in BOOLEAN : Return(w, ok)) \/ Goto(w, "quarantineResult")
      BY <2>2 DEF FinishFailed, FinishSuccess
    <3>2. "quarantineResult" \notin HandedOut
      BY DEF HandedOut
    <3>3. QED
      BY <3>1, <3>2, <1>1, QuietIdle, QuietMove
  <2>3. CASE QuarantineRun(w) \/ QuarantineRunResult(w)
    BY <2>3, <1>1, QuietIdle DEF QuarantineRun, QuarantineRunResult
  <2>4. QED
    BY <2>1, <2>2, <2>3
<1>3. QuietRow
  <2>1. CASE DeferAction(w)
    BY <2>1, <1>1 DEF DeferAction, Holds, QuietRow, RunRow
  <2>2. CASE FinishFailed(w)
    BY <2>2, <1>1 DEF FinishFailed, Holds, QuietRow, RunRow
  <2>3. CASE FinishSuccess(w)
    <3>1. worker[w].cur <= run.cursor /\ worker[w].cur > Len(Plan)
      BY <2>3 DEF FinishSuccess, RunInv, BehindRow
    <3>2. worker[w].cur \in Nat /\ run.cursor \in Nat /\ Len(Plan) \in Nat
      BY <1>1, PlanAssumption DEF TypeOK, WorkerState, RunRow, Cursor
    <3>3. run.cursor > Len(Plan)
      BY <3>1, <3>2
    <3>4. QED
      BY <2>3, <1>1, <3>3 DEF FinishSuccess, Holds, QuietRow, RunRow
  <2>4. CASE QuarantineRun(w) \/ QuarantineRunResult(w)
    BY <2>4, <1>1 DEF QuarantineRun, QuarantineRunResult, MayQuarantine, UnderReview,
       QuietRow, RunRow
  <2>5. QED
    BY <2>1, <2>2, <2>3, <2>4
<1>4. QED
  BY <1>2, <1>3, QuietKeeps DEF RunKept

LEMMA QuietSchedule ==
    ASSUME RunInv, Schedule
    PROVE  RunKept
<1>1. TypeOK /\ run \in RunRow /\ Scheduler \in Worker
  BY DEF RunInv, AccountInv, TypeOK, Worker
<1>2. QuietWorkers
  <2>1. CASE worker' = worker
    BY <2>1, QuietStill
  <2>2. ASSUME NEW src, Take(src)
        PROVE  QuietWorkers
    <3>1. /\ [IdleWorker EXCEPT !.pc = "resume", !.src = src].pc = "resume"
          /\ [IdleWorker EXCEPT !.pc = "resume", !.src = src].cur = 1
      BY DEF IdleWorker
    <3>2. QED
      BY <2>2, <3>1, <1>1, QuietBecome DEF Take, HandedOut
  <2>3. CASE ClaimDueDeferredTask
    <3> DEFINE state == [IdleWorker EXCEPT !.pc = IF deferred.run THEN "resume" ELSE "start",
                             !.src = "deferred", !.mark = deferred.mark,
                             !.skip = deferred.at, !.claim = deferred.claims + 1]
    <3>1. state.pc \in {"resume", "start"} /\ state.cur = 1
      BY DEF IdleWorker
    <3>2. Become(Scheduler, state)
      BY <2>3 DEF ClaimDueDeferredTask
    <3> HIDE DEF state
    <3>3. QED
      BY <3>1, <3>2, <1>1, QuietBecome DEF HandedOut
  <2>4. QED
    BY <2>1, <2>2, <2>3 DEF Schedule, Recover, QuarantineRecoveryRun, RejectRecoveryRun,
       PostponeRecoveryRun, CancelObsoletePaidRecoveryRun, ClaimRecoveryRun,
       ReopenRunForRecovery
<1>3. QuietRow
  <2>1. CASE QuarantineRecoveryRun \/ RejectRecoveryRun
    <3>1. CASE QuarantineRecoveryRun
      BY <3>1, <1>1 DEF QuarantineRecoveryRun, Reclaimable, UnderReview, QuietRow, RunRow
    <3>2. CASE RejectRecoveryRun
      BY <3>2, <1>1 DEF RejectRecoveryRun, Reclaimable, UnderReview, QuietRow, RunRow
    <3>3. QED
      BY <2>1, <3>1, <3>2
  <2>2. CASE PostponeRecoveryRun \/ CancelObsoletePaidRecoveryRun
    BY <2>2, <1>1 DEF PostponeRecoveryRun, CancelObsoletePaidRecoveryRun, Reclaimable,
       QuietRow, RunRow
  <2>3. CASE ClaimRecoveryRun \/ ReopenRunForRecovery
    BY <2>3, <1>1 DEF ClaimRecoveryRun, ReopenRunForRecovery, Reclaimable, Reclaimed,
       QuietRow, RunRow
  <2>4. CASE ClaimDueDeferredTask
    BY <2>4 DEF ClaimDueDeferredTask, QuietRow
  <2>5. QED
    BY <2>1, <2>2, <2>3, <2>4 DEF Schedule, Recover
<1>4. QED
  BY <1>2, <1>3, QuietKeeps DEF RunKept

-----------------------------------------------------------------------------
(* The steps that write the account                                        *)

\* The claim: one more hand-out, at the row's own action.
LEMMA KeptStartRunAction ==
    ASSUME RunInv, NEW w \in Worker, StartRunAction(w)
    PROVE  RunKept
<1>1. TypeOK /\ run \in RunRow /\ worker[w] \in WorkerState
  BY DEF RunInv, AccountInv, TypeOK
<1>2. CASE Fail(w, "plain") /\ UNCHANGED <<run, issued>>
  <2>1. QuietWorkers
    BY <1>1, <1>2, QuietMove DEF ErrorKind, HandedOut
  <2>2. QuietRow
    BY <1>2 DEF StartRunAction, QuietRow, history
  <2>3. QED
    BY <2>1, <2>2, QuietKeeps DEF RunKept
<1>3. CASE /\ HoldsAction(w) /\ ~run.started
           /\ run' = [run EXCEPT !.started = TRUE, !.leased = TRUE]
           /\ issued' = [issued EXCEPT ![worker[w].cur] = @ + 1]
           /\ Goto(w, "claimed")
  <2>1. /\ run.status = "running" /\ run.cursor = worker[w].cur /\ run.cursor \in Positions
        /\ worker[w].pc = "ready" /\ UNCHANGED <<retried, skipped, unknown>>
    BY <1>3 DEF HoldsAction, Holds, StartRunAction, At
  <2>2. /\ run'.cursor = run.cursor /\ run'.started /\ run'.status = "running"
    BY <1>1, <1>3, <2>1 DEF RunRow
  <2>3. /\ worker'[w].pc = "claimed" /\ worker'[w].cur = run.cursor
        /\ \A v \in Worker \ {w} : worker'[v] = worker[v]
    <3>1. /\ [worker[w] EXCEPT !.pc = "claimed"].pc = "claimed"
          /\ [worker[w] EXCEPT !.pc = "claimed"].cur = run.cursor
      BY <1>1, <2>1 DEF WorkerState
    <3>2. QED
      BY <1>1, <1>3, <3>1, BecomeOthers DEF Goto
  <2>4. HandOutsCounted'
    <3> SUFFICES ASSUME NEW c \in Positions
                 PROVE  /\ IsFiniteSet(Holders(c)')
                        /\ Cardinality(Holders(c)') + (IF Passed(c)' THEN 1 ELSE 0) <= issued'[c]
      BY DEF HandOutsCounted
    <3>1. /\ IsFiniteSet(Holders(c)) /\ issued \in [Positions -> Int] /\ issued[c] \in Int
          /\ Cardinality(Holders(c)) + (IF Passed(c) THEN 1 ELSE 0) <= issued[c]
      BY <1>1 DEF RunInv, HandOutsCounted, TypeOK
    <3>2. Passed(c)' <=> Passed(c)
      BY <2>1, <2>2 DEF Passed
    <3>3. Cardinality(Holders(c)) \in Nat
      BY <3>1, FS_CardinalityType
    <3>4. CASE c = run.cursor
      <4>1. Holders(c)' = Holders(c) \cup {w}
        BY <2>3, <3>4 DEF Holders, HandedOut
      <4>2. w \notin Holders(c)
        BY <2>1 DEF Holders, HandedOut
      <4>3. IsFiniteSet(Holders(c)') /\ Cardinality(Holders(c)') = Cardinality(Holders(c)) + 1
        BY <4>1, <4>2, <3>1, FS_AddElement
      <4>4. issued'[c] = issued[c] + 1
        BY <1>3, <2>1, <3>1, <3>4
      <4>5. QED
        BY <3>1, <3>2, <3>3, <4>3, <4>4
    <3>5. CASE c # run.cursor
      <4>1. Holders(c)' = Holders(c)
        BY <2>1, <2>3, <3>5 DEF Holders, HandedOut
      <4>2. issued'[c] = issued[c]
        BY <1>3, <2>1, <3>1, <3>5
      <4>3. QED
        BY <3>1, <3>2, <4>1, <4>2
    <3>6. QED
      BY <3>4, <3>5
  <2>5. BehindRow'
    <3>1. run.cursor <= run.cursor
      BY <1>1 DEF RunRow, Cursor
    <3>2. QED
      BY <2>1, <2>2, <2>3, <3>1 DEF BehindRow, RunInv
  <2>6. ClaimKept'
    BY <2>2 DEF ClaimKept
  <2>7. RowTrue'
    BY <2>1, <2>2 DEF RowTrue, RunInv
  <2>8. LedgerStep
    <3>1. run'.started = TRUE /\ run.status # "canceled" /\ run'.status # "canceled"
      BY <1>1, <1>3, <2>1, <2>2 DEF RunRow
    <3>2. Ledger!Claim
      BY <1>3, <2>1, <2>2, <3>1 DEF Ledger!Claim, Ledger!Actions, Positions
    <3>3. QED
      BY <3>2 DEF LedgerStep, Ledger!Next
  <2>9. QED
    BY <2>4, <2>5, <2>6, <2>7, <2>8 DEF RunKept
<1>4. QED
  BY <1>2, <1>3 DEF StartRunAction

\* A goroutine that held action c lets go of it.
LEMMA HandBack ==
    ASSUME TypeOK, NEW w \in Worker, worker[w].pc \in HandedOut,
           worker'[w].pc \notin HandedOut, \A v \in Worker \ {w} : worker'[v] = worker[v],
           NEW c \in Positions, IsFiniteSet(Holders(c))
    PROVE  /\ IsFiniteSet(Holders(c)') /\ Cardinality(Holders(c)') \in Nat
           /\ Cardinality(Holders(c)') = Cardinality(Holders(c)) - (IF worker[w].cur = c THEN 1 ELSE 0)
<1>1. CASE worker[w].cur = c
  <2>1. Holders(c)' = Holders(c) \ {w} /\ w \in Holders(c)
    BY <1>1 DEF Holders
  <2>2. QED
    BY <2>1, <1>1, FS_RemoveElement, FS_CardinalityType
<1>2. CASE worker[w].cur # c
  <2>1. Holders(c)' = Holders(c)
    BY <1>2 DEF Holders
  <2>2. QED
    BY <2>1, <1>2, FS_CardinalityType
<1>3. QED
  BY <1>1, <1>2

\* A checkpoint moves the row.
LEMMA CheckpointMoves ==
    ASSUME run \in RunRow, NEW w \in Worker, Checkpoint(w)
    PROVE  run' # run
<1>1. run.cursor \in Nat
  BY DEF RunRow, Cursor
<1>2. run'.cursor = run.cursor + 1
  BY DEF Checkpoint, RunRow
<1>3. QED
  BY <1>1, <1>2

\* The checkpoint: the hand-out of the passed action stays on its account.
LEMMA KeptCheckpoint ==
    ASSUME RunInv, NEW w \in Worker, AdvanceRunAction(w) \/ ContinueAfterUncertain(w)
    PROVE  RunKept
<1>1. TypeOK /\ run \in RunRow /\ worker[w] \in WorkerState
  BY DEF RunInv, AccountInv, TypeOK
<1>2. worker[w].pc \in HandedOut /\ UNCHANGED <<issued, retried, skipped>>
  BY DEF AdvanceRunAction, ContinueAfterUncertain, At, HandedOut
<1>3. CASE run' = run
  <2>1. QuietWorkers
    <3>1. CASE Goto(w, "quarantine")
      BY <1>1, <3>1, QuietMove DEF HandedOut
    <3>2. CASE Become(w, [worker[w] EXCEPT !.pc = "quarantineResult", !.sent = @ + worker[w].n])
      <4> DEFINE s == [worker[w] EXCEPT !.pc = "quarantineResult", !.sent = @ + worker[w].n]
      <4>1. s.pc = "quarantineResult" /\ s.cur = worker[w].cur
        BY <1>1 DEF WorkerState
      <4>2. Become(w, s)
        BY <3>2
      <4> HIDE DEF s
      <4>3. QED
        BY <1>1, <4>1, <4>2, QuietBecome DEF HandedOut
    <3>3. ~Checkpoint(w)
      BY <1>1, <1>3, CheckpointMoves
    <3>4. QED
      BY <3>1, <3>2, <3>3 DEF AdvanceRunAction, ContinueAfterUncertain
  <2>2. UNCHANGED history
    <3>1. ~Checkpoint(w)
      BY <1>1, <1>3, CheckpointMoves
    <3>2. QED
      BY <3>1, <1>2 DEF AdvanceRunAction, ContinueAfterUncertain, history
  <2>3. QED
    BY <1>3, <2>1, <2>2, QuietKeeps DEF RunKept, QuietRow
<1>4. ASSUME HoldsAction(w), run.started, Checkpoint(w), NEW mark, NextAction(w, mark)
      PROVE  RunKept
  <2>1. /\ run.status = "running" /\ run.cursor = worker[w].cur /\ run.cursor \in Nat
        /\ run'.cursor = run.cursor + 1 /\ ~run'.started /\ run'.status = "running"
    BY <1>1, <1>4 DEF HoldsAction, Holds, Checkpoint, RunRow, Cursor
  <2>2. /\ worker'[w].pc = "ready" /\ worker'[w].cur = run.cursor + 1
        /\ \A v \in Worker \ {w} : worker'[v] = worker[v]
    <3> DEFINE s == [worker[w] EXCEPT !.pc = "ready", !.cur = @ + 1, !.sent = @ + worker[w].n,
                                      !.n = 0, !.skip = 0, !.mark = mark]
    <3>1. s.pc = "ready" /\ s.cur = run.cursor + 1
      BY <1>1, <2>1 DEF WorkerState
    <3>2. Become(w, s)
      BY <1>4 DEF NextAction
    <3> HIDE DEF s
    <3>3. QED
      BY <1>1, <3>1, <3>2, BecomeOthers
  <2>3. HandOutsCounted'
    <3> SUFFICES ASSUME NEW c \in Positions
                 PROVE  /\ IsFiniteSet(Holders(c)')
                        /\ Cardinality(Holders(c)') + (IF Passed(c)' THEN 1 ELSE 0) <= issued'[c]
      BY DEF HandOutsCounted
    <3>1. /\ IsFiniteSet(Holders(c)) /\ issued[c] \in Int /\ c \in Int
          /\ Cardinality(Holders(c)) + (IF Passed(c) THEN 1 ELSE 0) <= issued[c]
      BY <1>1 DEF RunInv, HandOutsCounted, TypeOK, Positions
    <3>2. /\ IsFiniteSet(Holders(c)') /\ Cardinality(Holders(c)') \in Nat
          /\ Cardinality(Holders(c)') =
                Cardinality(Holders(c)) - (IF run.cursor = c THEN 1 ELSE 0)
      BY <1>1, <1>2, <2>1, <2>2, <3>1, HandBack DEF HandedOut
    <3>3. Cardinality(Holders(c)) \in Nat
      BY <3>1, FS_CardinalityType
    <3>4. Passed(c)' <=> (c < run.cursor + 1 /\ c \notin skipped)
      BY <1>2, <2>1 DEF Passed
    <3>5. Passed(c) <=> (c < run.cursor /\ c \notin skipped)
      BY DEF Passed
    <3>6. QED
      BY <1>2, <2>1, <3>1, <3>2, <3>3, <3>4, <3>5
  <2>4. BehindRow'
    <3> SUFFICES ASSUME NEW v \in Worker
                 PROVE  /\ worker'[v].cur <= run'.cursor
                        /\ worker'[v].pc \in HandedOut =>
                              worker'[v].cur \in Positions /\ run'.status # "absent"
      BY DEF BehindRow
    <3>1. CASE v = w
      BY <2>1, <2>2, <3>1 DEF HandedOut
    <3>2. CASE v # w
      <4>1. worker[v].cur \in Nat /\ worker[v].cur <= run.cursor
        BY <1>1 DEF TypeOK, WorkerState, Cursor, RunInv, BehindRow
      <4>2. QED
        BY <2>1, <2>2, <3>2, <4>1 DEF RunInv, BehindRow
    <3>3. QED
      BY <3>1, <3>2
  <2>5. ClaimKept'
    <3> SUFFICES ASSUME NEW v \in Worker, worker'[v].pc \in HandedOut, worker'[v].cur = run'.cursor
                 PROVE  FALSE
      BY DEF ClaimKept
    <3>1. v # w /\ worker[v].cur = run.cursor + 1
      BY <2>1, <2>2 DEF HandedOut
    <3>2. worker[v].cur <= run.cursor
      BY DEF RunInv, BehindRow
    <3>3. QED
      BY <2>1, <3>1, <3>2
  <2>6. RowTrue'
    <3>1. CASE AdvanceRunAction(w)
      <4>1. unknown' = unknown
        BY <3>1 DEF AdvanceRunAction
      <4>2. \A i \in Positions : i >= run.cursor + 1 => i >= run.cursor
        BY <2>1 DEF Positions
      <4>3. QED
        BY <2>1, <4>1, <4>2 DEF RunInv, RowTrue
    <3>2. CASE ContinueAfterUncertain(w)
      <4>1. \A i \in Positions : i >= run.cursor + 1 => Plan[i] = "confirm"
        BY <2>1, <3>2 DEF ContinueAfterUncertain, ConfirmTail
      <4>2. QED
        BY <2>1, <4>1 DEF RowTrue
    <3>3. QED
      BY <3>1, <3>2
  <2>7. LedgerStep
    <3>1. run'.started = FALSE /\ run.cursor \in Positions
      BY <1>1, <1>4 DEF Checkpoint, RunRow, RunInv, RowTrue
    <3>2. Ledger!Close
      BY <1>2, <1>4, <2>1, <3>1 DEF Ledger!Close, Ledger!Actions, Positions
    <3>3. QED
      BY <3>2 DEF LedgerStep, Ledger!Next
  <2>8. QED
    BY <2>3, <2>4, <2>5, <2>6, <2>7 DEF RunKept
<1>5. QED
  BY <1>3, <1>4 DEF AdvanceRunAction, ContinueAfterUncertain

\* A report that a call did not happen takes it off the account.  If somebody
\* else holds a hand-out of the same action, an operator retried it: the
\* claim that is given back was not the only one.
LEMMA KeptDischarge ==
    ASSUME RunInv, NEW w \in Worker, At(w, "abort"), Discharge(w), NEW pc, pc \notin HandedOut,
           Goto(w, pc), UNCHANGED <<retried, skipped, unknown>>,
           \/ run' = run
           \/ HoldsAction(w) /\ run' = [run EXCEPT !.started = FALSE]
    PROVE  RunKept
<1>1. TypeOK /\ run \in RunRow /\ worker[w] \in WorkerState
  BY DEF RunInv, AccountInv, TypeOK
<1>2. /\ run'.cursor = run.cursor /\ run'.status = run.status
      /\ run'.started = run.started \/ (run'.started = FALSE /\ run.cursor = worker[w].cur)
  BY <1>1 DEF RunRow, HoldsAction
<1>3. /\ worker[w].pc \in HandedOut /\ worker'[w].pc \notin HandedOut
      /\ worker'[w].cur = worker[w].cur
      /\ \A v \in Worker \ {w} : worker'[v] = worker[v]
  <2>1. /\ [worker[w] EXCEPT !.pc = pc].pc = pc
        /\ [worker[w] EXCEPT !.pc = pc].cur = worker[w].cur
    BY <1>1 DEF WorkerState
  <2>2. QED
    BY <1>1, <2>1, BecomeOthers DEF Goto, At, HandedOut
<1>4. worker[w].cur \in Positions
  BY <1>3 DEF RunInv, BehindRow
<1>5. HandOutsCounted'
  <2> SUFFICES ASSUME NEW c \in Positions
               PROVE  /\ IsFiniteSet(Holders(c)')
                      /\ Cardinality(Holders(c)') + (IF Passed(c)' THEN 1 ELSE 0) <= issued'[c]
    BY DEF HandOutsCounted
  <2>1. /\ IsFiniteSet(Holders(c)) /\ issued \in [Positions -> Int] /\ issued[c] \in Int
        /\ Cardinality(Holders(c)) + (IF Passed(c) THEN 1 ELSE 0) <= issued[c]
    BY <1>1 DEF RunInv, HandOutsCounted, TypeOK
  <2>2. /\ IsFiniteSet(Holders(c)') /\ Cardinality(Holders(c)') \in Nat
        /\ Cardinality(Holders(c)') =
              Cardinality(Holders(c)) - (IF worker[w].cur = c THEN 1 ELSE 0)
    BY <1>1, <1>3, <2>1, HandBack
  <2>3. Cardinality(Holders(c)) \in Nat
    BY <2>1, FS_CardinalityType
  <2>4. issued'[c] = issued[c] - (IF worker[w].cur = c THEN 1 ELSE 0)
    BY <2>1 DEF Discharge
  <2>5. Passed(c)' <=> Passed(c)
    BY <1>2 DEF Passed
  <2>6. QED
    BY <2>1, <2>2, <2>3, <2>4, <2>5
<1>6. BehindRow'
  <2> SUFFICES ASSUME NEW v \in Worker
               PROVE  /\ worker'[v].cur <= run'.cursor
                      /\ worker'[v].pc \in HandedOut =>
                            worker'[v].cur \in Positions /\ run'.status # "absent"
    BY DEF BehindRow
  <2>1. CASE v = w
    BY <1>2, <1>3, <2>1 DEF RunInv, BehindRow
  <2>2. CASE v # w
    BY <1>2, <1>3, <2>2 DEF RunInv, BehindRow
  <2>3. QED
    BY <2>1, <2>2
<1>7. ClaimKept'
  <2> SUFFICES ASSUME NEW v \in Worker, worker'[v].pc \in HandedOut, worker'[v].cur = run'.cursor
               PROVE  run'.started \/ retried'[run'.cursor] > 0 \/ run'.status = "canceled"
    BY DEF ClaimKept
  <2>1. v # w /\ worker'[v] = worker[v] /\ worker[v].pc \in HandedOut /\ worker[v].cur = run.cursor
    BY <1>2, <1>3
  <2>2. run.started \/ retried[run.cursor] > 0 \/ run.status = "canceled"
    BY <2>1 DEF RunInv, ClaimKept
  <2>3. CASE run'.started = run.started
    BY <2>2, <2>3, <1>2
  <2>4. CASE run.cursor = worker[w].cur
    <3> DEFINE c == run.cursor
               H == Holders(c)
    <3>1. w \in H /\ v \in H /\ v # w /\ c \in Positions
      BY <1>3, <1>4, <2>1, <2>4 DEF Holders
    <3>2. IsFiniteSet(H) /\ Cardinality(H) + (IF Passed(c) THEN 1 ELSE 0) <= issued[c]
      BY <3>1 DEF RunInv, HandOutsCounted
    <3>3. ~Passed(c)
      BY <1>1 DEF Passed, RunRow, Cursor
    <3>4. IsFiniteSet(H \ {w}) /\ Cardinality(H \ {w}) = Cardinality(H) - 1 /\ v \in H \ {w}
      <4> HIDE DEF H
      <4>1. QED
        BY <3>1, <3>2, FS_RemoveElement
    <3>5. Cardinality(H \ {w}) # 0 /\ Cardinality(H \ {w}) \in Nat
      <4> HIDE DEF H
      <4>1. QED
        BY <3>4, FS_EmptySet, FS_CardinalityType
    <3>6. Cardinality(H) \in Nat
      BY <3>2, FS_CardinalityType
    <3>7. issued[c] \in Int /\ retried[c] \in Nat /\ issued[c] <= retried[c] + 1
      <4>1. issued[c] \in Int /\ retried[c] \in Nat
        BY <1>1, <3>1 DEF TypeOK
      <4>2. issued[c] <= retried[c] + (IF \/ c < run.cursor
                                          \/ c = run.cursor /\ (run.started \/ run.status = "canceled")
                                       THEN 1 ELSE 0)
        BY <3>1 DEF RunInv, AccountInv, ClaimAccounted
      <4>3. QED
        BY <4>1, <4>2
    <3>8. retried[c] > 0
      <4> HIDE DEF H, c
      <4>1. QED
        BY <3>2, <3>3, <3>4, <3>5, <3>6, <3>7
    <3>9. QED
      BY <3>8, <1>2
  <2>5. QED
    BY <2>3, <2>4, <1>2
<1>8. RowTrue'
  BY <1>2 DEF RunInv, RowTrue
<1>9. LedgerStep
  <2> DEFINE c == worker[w].cur
  <2>1. /\ IsFiniteSet(Holders(c)) /\ issued[c] \in Int
        /\ Cardinality(Holders(c)) + (IF Passed(c) THEN 1 ELSE 0) <= issued[c]
    BY <1>1, <1>4 DEF RunInv, HandOutsCounted, TypeOK
  <2>2. w \in Holders(c)
    BY <1>3 DEF Holders
  <2>3. Cardinality(Holders(c)) \in Nat /\ Cardinality(Holders(c)) # 0
    BY <2>1, <2>2, FS_EmptySet, FS_CardinalityType
  <2>4. issued[c] > 0
    BY <2>1, <2>3
  <2>5. run'.started \in {run.started, run.started /\ run.cursor # c}
    BY <1>1, <1>2
  <2>6. Ledger!Refuse(c)
    BY <1>2, <2>4, <2>5 DEF Ledger!Refuse, Discharge
  <2>7. c \in Ledger!Actions
    BY <1>4 DEF Ledger!Actions, Positions
  <2>8. QED
    BY <2>6, <2>7 DEF LedgerStep, Ledger!Next
<1>10. QED
  BY <1>5, <1>6, <1>7, <1>8, <1>9 DEF RunKept

LEMMA KeptAbortRunAction ==
    ASSUME RunInv, NEW w \in Worker, AbortRunAction(w)
    PROVE  RunKept
<1>1. CASE Goto(w, "fail") /\ HoldsAction(w) /\ run' = [run EXCEPT !.started = FALSE]
  BY <1>1, KeptDischarge DEF AbortRunAction, HandedOut
<1>2. CASE Goto(w, "quarantine") /\ run' = run
  BY <1>2, KeptDischarge DEF AbortRunAction, HandedOut
<1>3. QED
  BY <1>1, <1>2 DEF AbortRunAction

\* The operator's decision.
LEMMA KeptResolveRunIssue ==
    ASSUME RunInv, NEW o \in Operator, ResolveRunIssue(o)
    PROVE  RunKept
<1>1. TypeOK /\ run \in RunRow /\ run.status = "needs_review" /\ run.cursor \in Nat
  BY DEF RunInv, AccountInv, TypeOK, ResolveRunIssue, RunRow, Cursor
<1>2. UNCHANGED <<worker, issued>> /\ unknown' = {}
  BY DEF ResolveRunIssue
<1>3. \A c : Holders(c)' = Holders(c)
  BY <1>2 DEF Holders
<1>4. ASSUME \A c \in Positions : Passed(c)' => Passed(c)
      PROVE  HandOutsCounted'
  <2> SUFFICES ASSUME NEW c \in Positions
               PROVE  /\ IsFiniteSet(Holders(c)')
                      /\ Cardinality(Holders(c)') + (IF Passed(c)' THEN 1 ELSE 0) <= issued'[c]
    BY DEF HandOutsCounted
  <2>1. /\ IsFiniteSet(Holders(c)) /\ issued[c] \in Int
        /\ Cardinality(Holders(c)) + (IF Passed(c) THEN 1 ELSE 0) <= issued[c]
    BY <1>1 DEF RunInv, HandOutsCounted, TypeOK
  <2>2. Cardinality(Holders(c)) \in Nat
    BY <2>1, FS_CardinalityType
  <2>3. QED
    BY <1>2, <1>3, <1>4, <2>1, <2>2
<1>5. CASE op[o] = "continue"
  <2>1. /\ run'.cursor = run.cursor + 1 /\ ~run'.started /\ run'.status = "running"
        /\ skipped' = skipped \cup ({run.cursor} \cap Positions)
    BY <1>1, <1>5 DEF ResolveRunIssue, Resume, RunRow
  <2>2. \A c \in Positions : Passed(c)' => Passed(c)
    BY <1>1, <2>1 DEF Passed, Positions
  <2>3. \A v \in Worker : worker[v].cur \in Nat /\ worker[v].cur <= run.cursor
    BY <1>1 DEF RunInv, BehindRow, TypeOK, WorkerState, Cursor
  <2>4. BehindRow'
    BY <1>1, <1>2, <2>1, <2>3 DEF RunInv, BehindRow
  <2>5. ClaimKept'
    BY <1>1, <1>2, <2>1, <2>3 DEF ClaimKept
  <2>6. RowTrue'
    BY <1>2, <2>1 DEF RowTrue
  <2>7. LedgerStep
    <3>1. run'.started = FALSE
      BY <1>1, <1>5 DEF ResolveRunIssue, Resume, RunRow
    <3>2. Ledger!Skip
      BY <1>1, <1>2, <1>5, <2>1, <3>1 DEF Ledger!Skip, ResolveRunIssue
    <3>3. QED
      BY <3>2 DEF LedgerStep, Ledger!Next
  <2>8. QED
    BY <1>4, <2>2, <2>4, <2>5, <2>6, <2>7 DEF RunKept
<1>6. CASE op[o] = "retry"
  <2>1. /\ run'.cursor = run.cursor /\ ~run'.started /\ run'.status = "running"
        /\ skipped' = skipped
        /\ retried' = IF run.cursor \in Positions
                      THEN [retried EXCEPT ![run.cursor] = @ + 1] ELSE retried
    BY <1>1, <1>6 DEF ResolveRunIssue, Resume, RunRow
  <2>2. \A c \in Positions : Passed(c)' => Passed(c)
    BY <2>1 DEF Passed
  <2>3. BehindRow'
    BY <1>1, <1>2, <2>1 DEF RunInv, BehindRow
  <2>4. ClaimKept'
    <3> SUFFICES ASSUME NEW v \in Worker, worker'[v].pc \in HandedOut,
                        worker'[v].cur = run'.cursor
                 PROVE  retried'[run'.cursor] > 0
      BY DEF ClaimKept
    <3>1. run.cursor \in Positions
      BY <1>2, <2>1 DEF RunInv, BehindRow
    <3>2. retried \in [Positions -> Nat] /\ retried[run.cursor] \in Nat
      BY <1>1, <3>1 DEF TypeOK
    <3>3. retried'[run.cursor] = retried[run.cursor] + 1
      BY <2>1, <3>1, <3>2
    <3>4. QED
      BY <2>1, <3>2, <3>3
  <2>5. RowTrue'
    BY <1>2, <2>1 DEF RowTrue
  <2>6. run'.started = FALSE
    BY <1>1, <1>6 DEF ResolveRunIssue, Resume, RunRow
  <2>7. CASE run.cursor \in Positions
    <3>1. Ledger!Retry
      BY <1>1, <1>2, <2>1, <2>6, <2>7 DEF Ledger!Retry, Ledger!Actions, Positions
    <3>2. QED
      BY <1>4, <2>2, <2>3, <2>4, <2>5, <3>1 DEF RunKept, LedgerStep, Ledger!Next
  <2>8. CASE run.cursor \notin Positions
    <3>1. run.started = FALSE
      BY <1>1, <2>8 DEF RunInv, RowTrue, RunRow
    <3>2. LedgerStep
      BY <1>1, <1>2, <2>1, <2>6, <2>8, <3>1 DEF LedgerStep, Ledger!ledger
    <3>3. QED
      BY <1>4, <2>2, <2>3, <2>4, <2>5, <3>2 DEF RunKept
  <2>9. QED
    BY <2>7, <2>8
<1>7. CASE op[o] = "cancel"
  <2>1. /\ run'.cursor = run.cursor /\ ~run'.started /\ run'.status = "canceled"
        /\ skipped' = skipped /\ retried' = retried
    BY <1>1, <1>7 DEF ResolveRunIssue, RunRow
  <2>2. \A c \in Positions : Passed(c)' => Passed(c)
    BY <2>1 DEF Passed
  <2>3. BehindRow'
    BY <1>1, <1>2, <2>1 DEF RunInv, BehindRow
  <2>4. ClaimKept' /\ RowTrue'
    BY <1>2, <2>1 DEF ClaimKept, RowTrue
  <2>5. LedgerStep
    <3>1. run'.started = FALSE
      BY <1>1, <1>7 DEF ResolveRunIssue, RunRow
    <3>2. Ledger!Cancel
      BY <1>1, <1>2, <2>1, <3>1 DEF Ledger!Cancel
    <3>3. QED
      BY <3>2 DEF LedgerStep, Ledger!Next
  <2>6. QED
    BY <1>4, <2>2, <2>3, <2>4, <2>5 DEF RunKept
<1>8. QED
  BY <1>5, <1>6, <1>7 DEF ResolveRunIssue

LEMMA KeptOperate ==
    ASSUME RunInv, Operate
    PROVE  RunKept
<1>1. ASSUME run' = run, worker' = worker, UNCHANGED history
      PROVE  RunKept
  BY <1>1, QuietStill, QuietKeeps DEF QuietRow, RunKept
<1>2. QED
  BY <1>1, KeptResolveRunIssue DEF Operate, JudgeIssue, ResolveNotFound, ResolveDeferredIssue

LEMMA KeptStatementFails ==
    ASSUME RunInv, NEW w \in Worker, StatementFails(w)
    PROVE  RunKept
<1>1. TypeOK
  BY DEF RunInv, AccountInv
<1>2. CASE At(w, "abort") /\ Goto(w, "quarantine") /\ Discharge(w)
  BY <1>2, KeptDischarge DEF StatementFails, HandedOut
<1>3. CASE UNCHANGED issued
  <2>1. \/ Return(w, FALSE) \/ Fail(w, "plain") \/ Goto(w, "quarantine")
        \/ At(w, "claimed") /\ Refused(w, "plain")
        \/ Goto(w, "quarantineResult")
    BY DEF StatementFails
  <2>2. /\ "plain" \in ErrorKind /\ "fail" \notin HandedOut /\ "quarantine" \notin HandedOut
        /\ "quarantineResult" \notin HandedOut
        /\ At(w, "claimed") => worker[w].pc \in HandedOut
    BY DEF ErrorKind, HandedOut, At
  <2>3. QuietWorkers
    BY <1>1, <2>1, <2>2, QuietIdle, QuietMove
  <2>4. run' = run /\ UNCHANGED history
    BY <1>3 DEF StatementFails, history
  <2>5. QED
    BY <2>3, <2>4, QuietKeeps DEF RunKept, QuietRow
<1>4. QED
  BY <1>2, <1>3 DEF StatementFails

LEMMA KeptDisturb ==
    ASSUME RunInv, Disturb
    PROVE  RunKept
<1>1. TypeOK /\ run \in RunRow
  BY DEF RunInv, AccountInv, TypeOK
<1>2. CASE ExpireLease \/ Stall
  <2>1. QuietRow /\ QuietWorkers
    BY <1>1, <1>2, QuietStill DEF ExpireLease, Stall, QuietRow, RunRow
  <2>2. QED
    BY <2>1, QuietKeeps DEF RunKept
<1>3. CASE Crash
  <2>1. QuietWorkers
    BY <1>3 DEF Crash, QuietWorkers, IdleWorker, HandedOut
  <2>2. QuietRow
    BY <1>3 DEF Crash, QuietRow
  <2>3. QED
    BY <2>1, <2>2, QuietKeeps DEF RunKept
<1>4. ASSUME NEW w \in Worker,
             \/ PrepareFails(w) \/ PostponeDeferredTask(w) \/ IgnoreTask(w)
             \/ DeferEvent(w) \/ Abandon(w)
      PROVE  RunKept
  <2>1. \/ Become(w, IdleWorker) \/ Return(w, TRUE) \/ Return(w, FALSE) \/ worker' = worker
    BY <1>4 DEF PrepareFails, PostponeDeferredTask, IgnoreTask, DeferEvent, Abandon
  <2>2. QuietWorkers
    BY <1>1, <2>1, QuietIdle, QuietStill
  <2>3. run' = run /\ UNCHANGED history
    BY <1>4 DEF PrepareFails, PostponeDeferredTask, IgnoreTask, DeferEvent, Abandon
  <2>4. QED
    BY <2>2, <2>3, QuietKeeps DEF RunKept, QuietRow
<1>5. QED
  BY <1>2, <1>3, <1>4, KeptStatementFails DEF Disturb

LEMMA KeptExecute ==
    ASSUME RunInv, NEW w \in Worker, Execute(w)
    PROVE  RunKept
BY QuietTryStartRun, QuietLoadRun, QuietDecide, QuietAnswer, QuietEnd, KeptStartRunAction,
   KeptCheckpoint, KeptAbortRunAction DEF Execute

LEMMA RunInductive ==
    ASSUME RunInv, [Next]_vars
    PROVE  RunInv' /\ LedgerStep
<1>1. AccountInv'
  BY AccountInductive DEF RunInv
<1>2. RunKept
  <2>1. CASE UNCHANGED vars
    BY <2>1, QuietStill, QuietKeeps DEF vars, QuietRow, RunKept
  <2>2. QED
    BY <2>1, QuietTryStartRun, KeptExecute, QuietSchedule, KeptOperate, KeptDisturb DEF Next
<1>3. QED
  BY <1>1, <1>2 DEF RunInv, RunKept

LEMMA RunInit == Init => RunInv
<1> SUFFICES ASSUME Init PROVE RunInv
  OBVIOUS
<1>1. AccountInv
  BY AccountInit
<1>2. /\ run.cursor = 1 /\ ~run.started /\ run.status = "absent" /\ unknown = {}
      /\ \A w \in Worker : worker[w].pc = "idle" /\ worker[w].cur = 1
      /\ \A c \in Positions : issued[c] = 0
  BY DEF Init, NewRun, IdleWorker
<1>3. HandOutsCounted
  <2> SUFFICES ASSUME NEW c \in Positions
               PROVE  /\ IsFiniteSet(Holders(c))
                      /\ Cardinality(Holders(c)) + (IF Passed(c) THEN 1 ELSE 0) <= issued[c]
    BY DEF HandOutsCounted
  <2>1. Holders(c) = {}
    BY <1>2 DEF Holders, HandedOut
  <2>2. ~Passed(c)
    BY <1>2 DEF Passed, Positions
  <2>3. QED
    BY <1>2, <2>1, <2>2, FS_EmptySet
<1>4. BehindRow /\ ClaimKept /\ RowTrue
  BY <1>2 DEF BehindRow, ClaimKept, RowTrue, HandedOut
<1>5. QED
  BY <1>1, <1>3, <1>4 DEF RunInv

\* The account and the hand-outs still out are an invariant together.  The
\* account alone bounds the calls from above; that a call stays on it until it
\* is reported as not made, so that a passed action was called, needs the
\* goroutines that still hold it.
THEOREM RunInvariant == Spec => []RunInv
<1>1. RunInv /\ [Next]_vars => RunInv'
  BY RunInductive
<1>2. QED
  BY <1>1, RunInit, PTL DEF Spec

\* A run closed as a success performed, or was told by an operator to skip,
\* every action of its plan, whichever attempts, deferrals and reopenings led
\* there (FinishRun, AdvanceRunAction, AbortRunAction, ResolveRunIssue).
THEOREM NothingLost == Spec => []SuccessComplete
<1>1. RunInv => SuccessComplete
  <2> SUFFICES ASSUME RunInv, run.status = "success", NEW c \in Positions, c \notin skipped
               PROVE  issued[c] > 0
    BY DEF SuccessComplete
  <2>1. /\ IsFiniteSet(Holders(c)) /\ issued[c] \in Int
        /\ Cardinality(Holders(c)) + (IF Passed(c) THEN 1 ELSE 0) <= issued[c]
    BY DEF RunInv, HandOutsCounted, AccountInv, TypeOK
  <2>2. Passed(c)
    <3>1. run.cursor > Len(Plan) /\ run.cursor \in Nat /\ Len(Plan) \in Nat
      BY PlanAssumption DEF RunInv, RowTrue, AccountInv, TypeOK, RunRow, Cursor
    <3>2. QED
      BY <3>1 DEF Passed, Positions
  <2>3. Cardinality(Holders(c)) \in Nat
    BY <2>1, FS_CardinalityType
  <2>4. QED
    BY <2>1, <2>2, <2>3
<1>2. QED
  BY <1>1, RunInvariant, PTL

-----------------------------------------------------------------------------
(* What a step may never do                                                *)

\* Only the claim adds a call to the account, and only at the row's action.
LEMMA OnlyClaimIssues ==
    ASSUME TypeOK, [Next]_vars, NEW c \in Positions, issued'[c] > issued[c]
    PROVE  c = run.cursor
<1>1. issued \in [Positions -> Int] /\ issued[c] \in Int
  BY DEF TypeOK
<1>2. ~UNCHANGED issued
  BY <1>1
<1>3. ASSUME NEW w \in Worker, Discharge(w)
      PROVE  FALSE
  BY <1>1, <1>3 DEF Discharge
<1>4. PICK w \in Worker : StartRunAction(w) \/ AbortRunAction(w) \/ StatementFails(w)
  BY <1>2 DEF Next, vars, history, TryStartRun, Execute, LoadRun, ResumeSkipped, DeferAction,
     CheckRunExecution, ActionSucceeds, ActionRefused, ActionUncertain, AdvanceRunAction,
     ContinueAfterUncertain, StopAfterUncertain, FailPartial, FinishFailed, QuarantineRun,
     QuarantineRunResult, EndMarked, FinishSuccess, FinishDeferredTask, Schedule, Recover,
     QuarantineRecoveryRun, ClaimRecoveryRun, ClaimDueDeferredTask, ReopenRunForRecovery,
     RejectRecoveryRun, PostponeRecoveryRun, CancelObsoletePaidRecoveryRun, Operate,
     JudgeIssue, ResolveRunIssue, ResolveNotFound, ResolveDeferredIssue, Disturb, ExpireLease,
     Stall, Crash, PrepareFails, PostponeDeferredTask, IgnoreTask, DeferEvent, Abandon
<1>5. StartRunAction(w)
  BY <1>2, <1>3, <1>4 DEF AbortRunAction, StatementFails
<1>6. HoldsAction(w) /\ issued' = [issued EXCEPT ![worker[w].cur] = @ + 1]
  BY <1>2, <1>5 DEF StartRunAction
<1>7. QED
  BY <1>1, <1>6 DEF HoldsAction

\* After an unknown outcome nothing but confirmations is handed out until an
\* operator has looked, across deferral, crash and recovery
\* (tryContinueAfterUncertain, canContinueAfterUncertain, ReopenRunForRecovery).
THEOREM SilentAfterUnknown == Spec => NoMessageAfterUnknown
<1>1. RunInv /\ [Next]_vars =>
         [\A c \in Positions :
             issued'[c] > issued[c] /\ unknown # {} => Plan[c] = "confirm"]_vars
  <2> SUFFICES ASSUME RunInv, [Next]_vars, NEW c \in Positions, issued'[c] > issued[c],
                      unknown # {}
               PROVE  Plan[c] = "confirm"
    OBVIOUS
  <2>1. c = run.cursor
    BY OnlyClaimIssues DEF RunInv, AccountInv
  <2>2. c >= run.cursor
    BY <2>1 DEF Positions
  <2>3. QED
    BY <2>2 DEF RunInv, RowTrue
<1>2. QED
  BY <1>1, RunInvariant, PTL DEF Spec, NoMessageAfterUnknown

\* A new attempt starts on an unclaimed row that is not closed by an operator.
LEMMA OnlyUnclaimedTaken ==
    ASSUME TypeOK, [Next]_vars, run'.attempt # run.attempt
    PROVE  run.status = "absent" \/ (~run.started /\ run.status # "canceled")
<1>1. run \in RunRow
  BY DEF TypeOK
<1>2. run' # run
  OBVIOUS
<1>3. ASSUME NEW w \in Worker, TryStartRun(w)
      PROVE  run.status = "absent" \/ (~run.started /\ run.status # "canceled")
  BY <1>3 DEF TryStartRun, Reclaimable
<1>4. ASSUME NEW w \in Worker, Execute(w), ~TryStartRun(w)
      PROVE  FALSE
  BY <1>1, <1>2, <1>4 DEF Execute, LoadRun, ResumeSkipped, DeferAction, StartRunAction,
     CheckRunExecution, ActionSucceeds, ActionRefused, ActionUncertain, AdvanceRunAction,
     ContinueAfterUncertain, Checkpoint, StopAfterUncertain, AbortRunAction, FailPartial,
     FinishFailed, QuarantineRun, QuarantineRunResult, UnderReview, EndMarked, FinishSuccess,
     FinishDeferredTask, RunRow
<1>5. ASSUME Schedule
      PROVE  ~run.started /\ run.status # "canceled"
  <2>1. CASE ClaimRecoveryRun \/ ReopenRunForRecovery
    BY <2>1 DEF ClaimRecoveryRun, ReopenRunForRecovery, Reclaimable
  <2>2. CASE \/ QuarantineRecoveryRun \/ RejectRecoveryRun \/ PostponeRecoveryRun
             \/ CancelObsoletePaidRecoveryRun \/ ClaimDueDeferredTask
    BY <1>1, <1>2, <2>2 DEF QuarantineRecoveryRun, RejectRecoveryRun, PostponeRecoveryRun,
       CancelObsoletePaidRecoveryRun, ClaimDueDeferredTask, UnderReview, RunRow
  <2>3. QED
    BY <1>5, <2>1, <2>2 DEF Schedule, Recover
<1>6. ASSUME Operate
      PROVE  FALSE
  BY <1>1, <1>2, <1>6 DEF Operate, JudgeIssue, ResolveRunIssue, Resume, ResolveNotFound,
     ResolveDeferredIssue, RunRow
<1>7. ASSUME Disturb
      PROVE  FALSE
  BY <1>1, <1>2, <1>7 DEF Disturb, ExpireLease, Stall, Crash, PrepareFails,
     PostponeDeferredTask, IgnoreTask, DeferEvent, StatementFails, Abandon, RunRow
<1>8. QED
  BY <1>2, <1>3, <1>4, <1>5, <1>6, <1>7 DEF Next, vars

\* No attempt is taken over while a call of its current action is in flight,
\* unless an operator ordered that very action again (Reclaimable,
\* ReopenRunForRecovery against action_started).
THEOREM NoTakeoverInFlight == Spec => TakeoverSafe
<1>1. RunInv /\ [Next]_vars =>
         [run'.attempt # run.attempt =>
             \A w \in Worker : InFlight(w) /\ worker[w].cur = run.cursor
                                  => retried[run.cursor] > 0]_vars
  <2> SUFFICES ASSUME RunInv, [Next]_vars, run'.attempt # run.attempt,
                      NEW w \in Worker, InFlight(w), worker[w].cur = run.cursor
               PROVE  retried[run.cursor] > 0
    OBVIOUS
  <2>1. run.status = "absent" \/ (~run.started /\ run.status # "canceled")
    BY OnlyUnclaimedTaken DEF RunInv, AccountInv
  <2>2. worker[w].pc \in HandedOut
    BY DEF InFlight, HandedOut
  <2>3. run.status # "absent"
    BY <2>2 DEF RunInv, BehindRow
  <2>4. QED
    BY <2>1, <2>2, <2>3 DEF RunInv, ClaimKept
<1>2. QED
  BY <1>1, RunInvariant, PTL DEF Spec, TakeoverSafe

\* Every write a goroutine makes after it has read the row carries its attempt.
LEMMA WritesCarryAttempt ==
    ASSUME TypeOK, NEW w \in Worker, Execute(w), worker[w].att # run.attempt,
           worker[w].pc \notin {"idle", "start", "load", "resume"}
    PROVE  run' = run
BY DEF Execute, TryStartRun, At, LoadRun, ResumeSkipped, DeferAction, StartRunAction,
   HoldsAction, Holds, CheckRunExecution, ActionSucceeds, ActionRefused, ActionUncertain,
   AdvanceRunAction, ContinueAfterUncertain, StopAfterUncertain, AbortRunAction, FailPartial,
   FinishFailed, QuarantineRun, QuarantineRunResult, MayQuarantine, EndMarked, FinishSuccess,
   FinishDeferredTask

\* A step moves one goroutine, unless the process dies.
LEMMA OneMoves ==
    ASSUME TypeOK, NEW w \in Worker, NEW v \in Worker, v # w,
           TryStartRun(v) \/ Execute(v)
    PROVE  worker'[w] = worker[w]
<1>1. \E state : Become(v, state)
  BY DEF Execute, TryStartRun, LoadRun, ResumeSkipped, DeferAction, StartRunAction,
     CheckRunExecution, ActionSucceeds, ActionRefused, ActionUncertain, AdvanceRunAction,
     ContinueAfterUncertain, NextAction, StopAfterUncertain, AbortRunAction, FailPartial,
     FinishFailed, QuarantineRun, QuarantineRunResult, EndMarked, FinishSuccess,
     FinishDeferredTask, Goto, Fail, Refused, Return
<1>2. QED
  BY <1>1, BecomeOthers

\* A goroutine whose attempt was taken over never changes the row again, not
\* even to quarantine it (the attempt_count condition of every UPDATE).
THEOREM StaleAttemptsFenced == Spec => StaleFenced
<1>1. TypeOK /\ [Next]_vars =>
         [\A w \in Worker :
             /\ worker[w].pc \notin {"idle", "start", "load", "resume"}
             /\ worker[w].att # run.attempt
             /\ worker'[w] # worker[w]
             => run' = run]_vars
  <2> SUFFICES ASSUME TypeOK, Next, NEW w \in Worker,
                      worker[w].pc \notin {"idle", "start", "load", "resume"},
                      worker[w].att # run.attempt, worker'[w] # worker[w]
               PROVE  run' = run
    BY DEF vars
  <2>1. ASSUME NEW v \in Worker, (At(v, "idle") /\ TryStartRun(v)) \/ Execute(v)
        PROVE  run' = run
    <3>1. CASE v = w
      BY <2>1, <3>1, WritesCarryAttempt DEF At
    <3>2. CASE v # w
      BY <2>1, <3>2, OneMoves
    <3>3. QED
      BY <3>1, <3>2
  <2>2. CASE Schedule
    <3>1. Scheduler \in Worker /\ At(Scheduler, "idle")
      BY <2>2 DEF Worker, Schedule, Recover, Scanning, QuarantineRecoveryRun, ClaimRecoveryRun,
         ClaimDueDeferredTask, ReopenRunForRecovery, RejectRecoveryRun, PostponeRecoveryRun,
         CancelObsoletePaidRecoveryRun
    <3>2. w # Scheduler
      BY <3>1 DEF At
    <3>3. worker' = worker \/ \E state : Become(Scheduler, state)
      BY <2>2 DEF Schedule, Recover, Take, QuarantineRecoveryRun, ClaimRecoveryRun,
         ClaimDueDeferredTask, ReopenRunForRecovery, RejectRecoveryRun, PostponeRecoveryRun,
         CancelObsoletePaidRecoveryRun
    <3>4. QED
      BY <3>1, <3>2, <3>3, BecomeOthers
  <2>3. CASE Operate
    BY <2>3 DEF Operate, JudgeIssue, ResolveRunIssue, ResolveNotFound, ResolveDeferredIssue
  <2>4. CASE Disturb
    BY <2>4 DEF Disturb, ExpireLease, Stall, Crash, PrepareFails, PostponeDeferredTask,
       IgnoreTask, DeferEvent, StatementFails, Abandon
  <2>5. QED
    BY <2>1, <2>2, <2>3, <2>4 DEF Next
<1>2. QED
  BY <1>1, TypeCorrect, PTL DEF Spec, StaleFenced

-----------------------------------------------------------------------------
(* The ledger                                                              *)

\* The row of automation_runs implements the ledger: whatever goroutines,
\* leases, attempts and statuses do, every step is one entry of the ledger or
\* none.  A discharge never takes the account below zero, because the hand-out
\* it gives back is counted there.
THEOREM ImplementsLedger == Spec => LedgerSpec
<1>1. Init => Ledger!Init
  <2> SUFFICES ASSUME Init PROVE Ledger!Init
    OBVIOUS
  <2>1. run.cursor = 1 /\ run.started = FALSE /\ run.status = "absent"
    BY DEF Init, NewRun
  <2>2. issued = [c \in Ledger!Actions |-> 0] /\ retried = [c \in Ledger!Actions |-> 0]
    BY DEF Init, Ledger!Actions, Positions
  <2>3. QED
    BY <2>1, <2>2 DEF Ledger!Init
<1>2. RunInv /\ [Next]_vars => [Ledger!Next]_(Ledger!ledger)
  BY RunInductive DEF LedgerStep
<1>3. QED
  BY <1>1, <1>2, RunInvariant, PTL DEF Spec, LedgerSpec, Ledger!Spec

=============================================================================
