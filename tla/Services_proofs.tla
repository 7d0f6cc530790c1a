---------------------------- MODULE Services_proofs ----------------------------
(***************************************************************************)
(* Theorems about four services that are checked side by side and share no *)
(* state: the orders of OrderSync, the coordinator of Lifecycle, the jobs  *)
(* of RefreshJob and the credential of AccountCredential, for all values   *)
(* of their constants.                                                     *)
(*                                                                         *)
(* Each one lets several processes read, call somebody outside and write   *)
(* what follows from what they have read.  The invariants therefore say of *)
(* every process, at each place it may stand, what it may still rely on:   *)
(*                                                                         *)
(*   - a row whose version is the one that was read has the status that    *)
(*     was read, unless the user has edited it (OrderInv);                 *)
(*   - a goroutine that closes knows what is closed behind it              *)
(*     (LifecycleInv);                                                     *)
(*   - a worker that may still write is in the table, or in the list of    *)
(*     those Stop is about to cancel (RefreshInv);                         *)
(*   - an answer carries a number no jar has yet, so a stored credential   *)
(*     that equals the one a token was requested with has not been         *)
(*     replaced in between (CredentialInv).                                *)
(***************************************************************************)
EXTENDS OrderSync, Lifecycle, RefreshJob, AccountCredential, FiniteSetTheorems, TLAPS

-----------------------------------------------------------------------------
(* One refresh job                                                         *)

RefreshInv == RefreshTypeOK /\ WorkersReachable /\ ClosedIsQuiet

USE DEF Token, Starter, Terminal, JobRow, StarterState, RefresherState

\* What the token of the row means does not depend on what writes it.
LEMMA WrittenJob ==
    ASSUME RefreshTypeOK, NEW t \in 0 .. MaxTokens, NEW status \in Terminal
    PROVE  /\ Written(t, status) \in JobRow
           /\ Written(t, status).token # 0 <=> Written(t, status).status = "running"
           /\ Written(t, status).token <= issued
           /\ refreshJob.status \in Terminal => Written(t, status) = refreshJob
  BY RefreshBounds DEF RefreshTypeOK, Written

LEMMA RefreshStarts == RefreshInit => RefreshInv
  <1> SUFFICES ASSUME RefreshInit PROVE RefreshInv
      OBVIOUS
  <1> USE RefreshBounds DEF RefreshInit
  <1>1. RefreshTypeOK
      BY DEF RefreshTypeOK, NoRefresher, Ready
  <1>2. WorkersReachable /\ ClosedIsQuiet
      BY DEF WorkersReachable, ClosedIsQuiet, Live, NoRefresher
  <1> QED BY <1>1, <1>2 DEF RefreshInv

\* The statements that leave the workers and the runner alone.
LEMMA RowOnly ==
    ASSUME RefreshInv, RefreshTypeOK',
           UNCHANGED <<refresher, handle, closer>>,
           scanner' = scanner \/ closer.pc # "closed"
    PROVE  RefreshInv'
  BY DEF RefreshInv, WorkersReachable, ClosedIsQuiet, Live, Working

LEMMA StarterMoves ==
    ASSUME RefreshTypeOK, NEW s \in Starter, NEW pc \in {"idle", "requeue", "claim", "start", "release", "done"},
           StarterTo(s, pc)
    PROVE  starter' \in [Starter -> StarterState]
  BY RefreshBounds DEF RefreshTypeOK, StarterTo

LEMMA CreateJobStep == RefreshInv /\ CreateJob => RefreshInv'
  <1> SUFFICES ASSUME RefreshInv, CreateJob PROVE RefreshInv'
      OBVIOUS
  <1>1. RefreshTypeOK'
      BY StarterMoves, RefreshBounds DEF RefreshInv, RefreshTypeOK, CreateJob, StarterTo
  <1> QED BY <1>1, RowOnly DEF CreateJob

LEMMA ScanStep == RefreshInv /\ (ReadRecoverable \/ RequeueExpired \/ RecoveryLoopEnds) => RefreshInv'
  <1> SUFFICES ASSUME RefreshInv, ReadRecoverable \/ RequeueExpired \/ RecoveryLoopEnds PROVE RefreshInv'
      OBVIOUS
  <1>1. CASE ReadRecoverable
    <2>1. RefreshTypeOK'
        BY <1>1, StarterMoves, RefreshBounds DEF RefreshInv, RefreshTypeOK, ReadRecoverable
    <2> QED BY <1>1, <2>1, RowOnly DEF ReadRecoverable
  <1>2. CASE RequeueExpired
    <2>1. starter' \in [Starter -> StarterState]
        BY <1>2, StarterMoves DEF RefreshInv, RequeueExpired
    <2>2. refreshJob' = refreshJob \/ refreshJob' = [status |-> "queued", token |-> 0, leased |-> FALSE]
        BY <1>2 DEF RequeueExpired
    <2>3. refreshJob' \in JobRow /\ (refreshJob'.token # 0 <=> refreshJob'.status = "running")
                                 /\ refreshJob'.token <= issued
      <3>1. CASE refreshJob' = refreshJob
          BY <3>1 DEF RefreshInv, RefreshTypeOK
      <3>2. CASE refreshJob' = [status |-> "queued", token |-> 0, leased |-> FALSE]
          BY <3>2, RefreshBounds DEF RefreshInv, RefreshTypeOK
      <3> QED BY <2>2, <3>1, <3>2
    <2>4. RefreshTypeOK'
        BY <1>2, <2>1, <2>3 DEF RefreshInv, RefreshTypeOK, RequeueExpired
    <2> QED BY <1>2, <2>4, RowOnly DEF RequeueExpired
  <1>3. CASE RecoveryLoopEnds
    <2>1. RefreshTypeOK'
        BY <1>3 DEF RefreshInv, RefreshTypeOK, RecoveryLoopEnds
    <2>2. closer.pc # "closed"
        BY <1>3 DEF RefreshInv, ClosedIsQuiet, RecoveryLoopEnds
    <2> QED BY <1>3, <2>1, <2>2, RowOnly DEF RecoveryLoopEnds
  <1> QED BY <1>1, <1>2, <1>3

LEMMA ClaimJobStep == ASSUME NEW s \in Starter PROVE RefreshInv /\ ClaimJob(s) => RefreshInv'
  <1> SUFFICES ASSUME RefreshInv, ClaimJob(s) PROVE RefreshInv'
      OBVIOUS
  <1>1. issued' \in 0 .. MaxTokens /\ issued + 1 \in Token
      BY RefreshBounds DEF RefreshInv, RefreshTypeOK, ClaimJob
  <1>2. starter' \in [Starter -> StarterState]
    <2>1. CASE refreshJob.status = "queued"
      <3>1. [pc |-> "start", token |-> issued + 1] \in StarterState
          BY <1>1
      <3> QED BY <2>1, <3>1 DEF RefreshInv, RefreshTypeOK, ClaimJob
    <2>2. CASE refreshJob.status # "queued"
        BY <2>2, StarterMoves DEF RefreshInv, ClaimJob, EndOf
    <2> QED BY <2>1, <2>2
  <1>3. \/ refreshJob' = refreshJob
        \/ refreshJob' = [status |-> "running", token |-> issued + 1, leased |-> TRUE]
      BY DEF ClaimJob
  <1>4. refreshJob' \in JobRow /\ (refreshJob'.token # 0 <=> refreshJob'.status = "running")
                               /\ refreshJob'.token <= issued'
    <2>1. issued' = issued + 1
        BY DEF ClaimJob
    <2>2. CASE refreshJob' = refreshJob
        BY <2>1, <2>2 DEF RefreshInv, RefreshTypeOK
    <2>3. CASE refreshJob' = [status |-> "running", token |-> issued + 1, leased |-> TRUE]
        BY <2>1, <2>3, <1>1 DEF RefreshInv, RefreshTypeOK
    <2> QED BY <1>3, <2>2, <2>3
  <1>5. RefreshTypeOK'
      BY <1>1, <1>2, <1>4 DEF RefreshInv, RefreshTypeOK, ClaimJob
  <1> QED BY <1>5, RowOnly DEF ClaimJob

\* The worker that starts replaces the one that has the handle.
LEMMA StartJobStep == ASSUME NEW s \in Starter PROVE RefreshInv /\ StartJob(s) => RefreshInv'
  <1> SUFFICES ASSUME RefreshInv, StartJob(s) PROVE RefreshInv'
      OBVIOUS
  <1>1. CASE Stopped
    <2>1. RefreshTypeOK'
        BY <1>1 DEF RefreshInv, RefreshTypeOK, StartJob
    <2> QED BY <1>1, <2>1, RowOnly DEF StartJob
  <1>2. CASE ~Stopped
    <2> DEFINE t == starter[s].token
    <2>1. t \in 0 .. MaxTokens /\ refresher' = Replaced(t) /\ handle' = t
        BY <1>2 DEF RefreshInv, RefreshTypeOK, StartJob
    <2>2. starter' \in [Starter -> StarterState]
        BY <1>2, StarterMoves DEF RefreshInv, StartJob, EndOf
    <2>3. UNCHANGED <<refreshJob, issued, scanner, canceler, closer, refreshEnv>> /\ closer.pc = "idle"
        BY <1>2 DEF StartJob, Stopped
    <2> HIDE DEF t
    <2>4. Started(t) \in [Token -> RefresherState]
        BY DEF Started, RefreshInv, RefreshTypeOK
    <2>5. refresher' \in [Token -> RefresherState]
        BY <2>1, <2>4 DEF Replaced
    <2>6. RefreshTypeOK'
        BY <2>1, <2>2, <2>3, <2>5 DEF RefreshInv, RefreshTypeOK
    <2>7. ASSUME NEW u \in Token, Live(u)' PROVE u = t
      <3>1. CASE u # t /\ handle = 0
          BY <3>1, <2>1, <2>3, <2>7 DEF Replaced, Started, Live, RefreshInv, RefreshTypeOK, WorkersReachable
      <3>2. CASE u # t /\ handle # 0 /\ u # handle
          BY <3>2, <2>1, <2>3, <2>4, <2>7 DEF Replaced, Started, Live, RefreshInv, RefreshTypeOK, WorkersReachable
      <3>3. CASE u = handle /\ handle # 0
          BY <3>3, <2>1, <2>4, <2>7 DEF Replaced, Live
      <3> QED BY <3>1, <3>2, <3>3
    <2>8. WorkersReachable'
        BY <2>1, <2>7 DEF WorkersReachable
    <2>9. ClosedIsQuiet'
        BY <2>3 DEF ClosedIsQuiet
    <2> QED BY <2>6, <2>8, <2>9 DEF RefreshInv
  <1> QED BY <1>1, <1>2

LEMMA StarterLeavesStep ==
    ASSUME NEW s \in Starter PROVE RefreshInv /\ (ReleaseJob(s) \/ StarterFails(s)) => RefreshInv'
  <1> SUFFICES ASSUME RefreshInv, ReleaseJob(s) \/ StarterFails(s) PROVE RefreshInv'
      OBVIOUS
  <1>1. starter' \in [Starter -> StarterState]
      BY StarterMoves DEF RefreshInv, ReleaseJob, StarterFails, EndOf
  <1>2. CASE ReleaseJob(s)
    <2>1. starter[s].token \in 0 .. MaxTokens
        BY DEF RefreshInv, RefreshTypeOK
    <2>2. RefreshTypeOK'
        BY <1>1, <1>2, <2>1, WrittenJob DEF RefreshInv, RefreshTypeOK, ReleaseJob
    <2> QED BY <1>2, <2>2, RowOnly DEF ReleaseJob
  <1>3. CASE StarterFails(s)
    <2>1. RefreshTypeOK'
        BY <1>1, <1>3, RefreshBounds DEF RefreshInv, RefreshTypeOK, StarterFails
    <2> QED BY <1>3, <2>1, RowOnly DEF StarterFails
  <1> QED BY <1>2, <1>3

\* A worker that is not new: it may go on, end or be canceled.
Alone(t) ==
    /\ refresher' \in [Token -> RefresherState]
    /\ \A u \in Token \ {t} : refresher'[u] = refresher[u]

LEMMA WorkerMoves ==
    ASSUME RefreshInv, RefreshTypeOK', UNCHANGED closer, scanner' = scanner,
           NEW t \in Token, Alone(t),
           Live(t)' => Live(t), Working(t)' => Working(t),
           handle' = handle \/ (handle' = 0 /\ handle = t /\ ~Live(t)')
    PROVE  RefreshInv'
  <1>1. ASSUME NEW u \in Token PROVE (Live(u)' => Live(u)) /\ (Working(u)' => Working(u))
      BY DEF Alone, Live, Working
  <1>2. WorkersReachable'
      BY <1>1 DEF RefreshInv, WorkersReachable
  <1>3. ClosedIsQuiet'
      BY <1>1 DEF RefreshInv, ClosedIsQuiet
  <1> QED BY <1>2, <1>3 DEF RefreshInv

\* The worker's next place, its context as it was; and its context done.
LEMMA MovesAlone ==
    ASSUME RefreshTypeOK, NEW t \in Token, NEW pc \in {"complete", "finish", "gone"},
           refresher' = [refresher EXCEPT ![t].pc = pc]
    PROVE  Alone(t) /\ refresher'[t].pc = pc /\ refresher'[t].canceled = refresher[t].canceled
  <1>1. refresher[t] \in RefresherState
      BY DEF RefreshTypeOK
  <1>2. [refresher[t] EXCEPT !.pc = pc] \in RefresherState
      BY <1>1
  <1> QED BY <1>1, <1>2 DEF RefreshTypeOK, Alone

LEMMA CanceledAlone ==
    ASSUME RefreshTypeOK, NEW t \in Token, refresher' = [refresher EXCEPT ![t].canceled = TRUE]
    PROVE  Alone(t) /\ refresher'[t].pc = refresher[t].pc /\ refresher'[t].canceled = TRUE
  <1>1. refresher[t] \in RefresherState
      BY DEF RefreshTypeOK
  <1>2. [refresher[t] EXCEPT !.canceled = TRUE] \in RefresherState
      BY <1>1
  <1> QED BY <1>1, <1>2 DEF RefreshTypeOK, Alone

LEMMA RefreshWorkStep ==
    ASSUME NEW t \in Token PROVE RefreshInv /\ (RefreshWork(t) \/ RefreshTimesOut(t)) => RefreshInv'
  <1> SUFFICES ASSUME RefreshInv, RefreshWork(t) \/ RefreshTimesOut(t) PROVE RefreshInv'
      OBVIOUS
  <1>0. RefreshTypeOK
      BY DEF RefreshInv
  <1>1. CASE RefreshReturns(t)
    <2>1. Alone(t) /\ refresher'[t].pc = "complete" /\ refresher'[t].canceled = refresher[t].canceled
        BY <1>0, <1>1, MovesAlone DEF RefreshReturns
    <2>2. RefreshTypeOK'
        BY <1>0, <1>1, <2>1 DEF RefreshTypeOK, RefreshReturns, Alone
    <2>3. (Live(t)' => Live(t)) /\ (Working(t)' => Working(t))
        BY <1>1, <2>1 DEF Live, Working, RefreshReturns
    <2> QED BY <1>1, <2>1, <2>2, <2>3, WorkerMoves DEF RefreshReturns
  <1>2. CASE CompleteJob(t)
    <2>1. Alone(t) /\ refresher'[t].pc = "finish" /\ refresher'[t].canceled = refresher[t].canceled
        BY <1>0, <1>2, MovesAlone DEF CompleteJob
    <2>2. PICK status \in {"succeeded", "failed"} : refreshJob' = Written(t, status)
        BY <1>2 DEF CompleteJob
    <2>3. RefreshTypeOK'
        BY <1>0, <1>2, <2>1, <2>2, WrittenJob DEF RefreshTypeOK, CompleteJob, Alone
    <2>4. (Live(t)' => Live(t)) /\ (Working(t)' => Working(t))
        BY <1>2, <2>1 DEF Live, Working, CompleteJob
    <2> QED BY <1>2, <2>1, <2>3, <2>4, WorkerMoves DEF CompleteJob
  <1>3. CASE CompleteFailsFor(t)
    <2>1. Alone(t) /\ refresher'[t].pc = "finish" /\ refresher'[t].canceled = refresher[t].canceled
        BY <1>0, <1>3, MovesAlone DEF CompleteFailsFor
    <2>2. RefreshTypeOK'
        BY <1>0, <1>3, <2>1, RefreshBounds DEF RefreshTypeOK, CompleteFailsFor, Alone
    <2>3. (Live(t)' => Live(t)) /\ (Working(t)' => Working(t))
        BY <1>3, <2>1 DEF Live, Working, CompleteFailsFor
    <2> QED BY <1>3, <2>1, <2>2, <2>3, WorkerMoves DEF CompleteFailsFor
  <1>4. CASE FinishRefresher(t)
    <2>1. Alone(t) /\ refresher'[t].pc = "gone" /\ refresher'[t].canceled = refresher[t].canceled
        BY <1>0, <1>4, MovesAlone DEF FinishRefresher
    <2>2. RefreshTypeOK'
        BY <1>0, <1>4, <2>1, RefreshBounds DEF RefreshTypeOK, FinishRefresher, HandleAfter, Alone
    <2>3. (Live(t)' => Live(t)) /\ (Working(t)' => Working(t)) /\ ~Live(t)'
        BY <1>4, <2>1 DEF Live, Working, FinishRefresher
    <2> QED BY <1>4, <2>1, <2>2, <2>3, WorkerMoves DEF FinishRefresher, HandleAfter
  <1>5. CASE RefreshTimesOut(t)
    <2>1. Alone(t) /\ refresher'[t].pc = refresher[t].pc /\ refresher'[t].canceled = TRUE
        BY <1>0, <1>5, CanceledAlone DEF RefreshTimesOut
    <2>2. RefreshTypeOK'
        BY <1>0, <1>5, <2>1, RefreshBounds DEF RefreshTypeOK, RefreshTimesOut, Alone
    <2>3. (Live(t)' => Live(t)) /\ (Working(t)' => Working(t))
        BY <1>5, <2>1 DEF Live, Working, RefreshTimesOut
    <2> QED BY <1>5, <2>1, <2>2, <2>3, WorkerMoves DEF RefreshTimesOut
  <1> QED BY <1>1, <1>2, <1>3, <1>4, <1>5 DEF RefreshWork

LEMMA NobodyElse ==
    ASSUME NEW S, NEW T, NEW f \in [S -> T], NEW a, a \notin S
    PROVE  [f EXCEPT ![a].canceled = TRUE] = f
  OBVIOUS

LEMMA RefreshCancelStep == RefreshInv /\ (CancelRow \/ FindRefresher \/ CancelRefresher) => RefreshInv'
  <1> SUFFICES ASSUME RefreshInv, CancelRow \/ FindRefresher \/ CancelRefresher PROVE RefreshInv'
      OBVIOUS
  <1>1. CASE CancelRow
    <2>1. RefreshTypeOK'
        BY <1>1, RefreshBounds DEF RefreshInv, RefreshTypeOK, CancelRow
    <2> QED BY <1>1, <2>1, RowOnly DEF CancelRow
  <1>2. CASE FindRefresher
    <2>1. RefreshTypeOK'
        BY <1>2 DEF RefreshInv, RefreshTypeOK, FindRefresher
    <2> QED BY <1>2, <2>1, RowOnly DEF FindRefresher
  <1>3. CASE CancelRefresher
    <2>1. CASE canceler.found \in Token
      <3>0. PICK u \in Token : u = canceler.found
          BY <2>1
      <3>1. Alone(u) /\ refresher'[u].pc = refresher[u].pc /\ refresher'[u].canceled = TRUE
          BY <1>3, <3>0, CanceledAlone DEF RefreshInv, CancelRefresher
      <3>2. RefreshTypeOK'
          BY <1>3, <3>1, RefreshBounds DEF RefreshInv, RefreshTypeOK, CancelRefresher, Alone
      <3>3. (Live(u)' => Live(u)) /\ (Working(u)' => Working(u))
          BY <3>1 DEF Live, Working
      <3> QED BY <1>3, <3>1, <3>2, <3>3, WorkerMoves DEF CancelRefresher
    <2>2. CASE canceler.found \notin Token
      <3>1. refresher' = refresher
        <4>1. refresher \in [Token -> RefresherState]
            BY DEF RefreshInv, RefreshTypeOK
        <4>2. refresher' = [refresher EXCEPT ![canceler.found].canceled = TRUE]
            BY <1>3 DEF CancelRefresher
        <4> QED BY <2>2, <4>1, <4>2, NobodyElse
      <3>2. RefreshTypeOK'
        <4>1. UNCHANGED <<refreshJob, issued, starter, handle, scanner, closer, refreshEnv>>
              /\ canceler' = [pc |-> "idle", found |-> 0]
            BY <1>3 DEF CancelRefresher
        <4> QED BY <3>1, <4>1, RefreshBounds DEF RefreshInv, RefreshTypeOK
      <3> QED BY <1>3, <3>1, <3>2, RowOnly DEF CancelRefresher
    <2> QED BY <2>1, <2>2
  <1> QED BY <1>1, <1>2, <1>3

\* What Stop takes from the table it cancels, and Close waits for the rest.
LEMMA RunnerCloseStep == RefreshInv /\ (StopRunner \/ CloseWork) => RefreshInv'
  <1> SUFFICES ASSUME RefreshInv, StopRunner \/ CloseWork PROVE RefreshInv'
      OBVIOUS
  <1> USE RefreshBounds DEF RefreshInv, RefreshTypeOK
  <1>1. CASE StopRunner
    <2>1. RefreshTypeOK'
        BY <1>1 DEF StopRunner
    <2>2. WorkersReachable'
        BY <1>1 DEF StopRunner, WorkersReachable, Live
    <2> QED BY <1>1, <2>1, <2>2 DEF StopRunner, ClosedIsQuiet
  <1>2. CASE CancelAll
    <2> DEFINE f == [t \in Token |-> IF t \in closer.cancels THEN [refresher[t] EXCEPT !.canceled = TRUE]
                                     ELSE refresher[t]]
    <2>1. refresher' = f
        BY <1>2 DEF CancelAll
    <2>2. f \in [Token -> RefresherState]
        OBVIOUS
    <2>3. \A t \in Token : f[t].pc = refresher[t].pc /\ (t \in closer.cancels => f[t].canceled)
                           /\ (t \notin closer.cancels => f[t] = refresher[t])
        OBVIOUS
    <2> HIDE DEF f
    <2>4. RefreshTypeOK'
        BY <1>2, <2>1, <2>2 DEF CancelAll
    <2>5. ASSUME NEW t \in Token, Live(t)' PROVE Live(t) /\ t \notin closer.cancels
        BY <2>1, <2>3, <2>5 DEF Live
    <2>6. WorkersReachable'
        BY <1>2, <2>5 DEF CancelAll, WorkersReachable
    <2>7. ClosedIsQuiet'
        BY <1>2 DEF CancelAll, ClosedIsQuiet
    <2> QED BY <2>4, <2>6, <2>7
  <1>3. CASE CloseRunner
    <2>1. RefreshTypeOK'
        BY <1>3 DEF CloseRunner
    <2>2. WorkersReachable'
        BY <1>3 DEF CloseRunner, WorkersReachable, Live
    <2>3. ClosedIsQuiet'
        BY <1>3 DEF CloseRunner, ClosedIsQuiet, Drained, Working
    <2> QED BY <2>1, <2>2, <2>3
  <1> QED BY <1>1, <1>2, <1>3 DEF CloseWork

LEMMA RefreshLapseStep == RefreshInv /\ RefreshLeaseLapses => RefreshInv'
  <1> SUFFICES ASSUME RefreshInv, RefreshLeaseLapses PROVE RefreshInv'
      OBVIOUS
  <1>1. refreshEnv' \in 0 .. MaxRefreshEnv
      BY RefreshBounds DEF RefreshInv, RefreshTypeOK, RefreshLeaseLapses
  <1>2. RefreshTypeOK'
      BY <1>1 DEF RefreshInv, RefreshTypeOK, RefreshLeaseLapses
  <1> QED BY <1>2, RowOnly DEF RefreshLeaseLapses

LEMMA RefreshRestartStep == RefreshInv /\ RestartProcess => RefreshInv'
  <1> SUFFICES ASSUME RefreshInv, RestartProcess PROVE RefreshInv'
      OBVIOUS
  <1> USE RefreshBounds DEF RefreshInv, RefreshTypeOK
  <1> DEFINE f == [t \in Token |-> IF Working(t) THEN [refresher[t] EXCEPT !.pc = "gone"] ELSE refresher[t]]
  <1>1. refresher' = f
      BY DEF RestartProcess
  <1>1a. f \in [Token -> RefresherState]
      <2>1. ASSUME NEW s \in RefresherState PROVE [s EXCEPT !.pc = "gone"] \in RefresherState
        BY DEF RefresherState
      <2>2. refresher \in [Token -> RefresherState]
        OBVIOUS
      <2> HIDE DEF RefreshInv, RefreshTypeOK
      <2> QED
        BY <2>1, <2>2
  <1>2. \A t \in Token : f[t].pc \in {"none", "gone"}
      BY DEF Working
  <1> HIDE DEF f
  <1>3. starter' \in [Starter -> StarterState]
    <2>1. PICK pc \in {"idle", "done"} : starter' = [Ready EXCEPT !["request"].pc = pc]
        BY DEF RestartProcess
    <2>2. Ready \in [Starter -> StarterState] /\ [Ready["request"] EXCEPT !.pc = pc] \in StarterState
        BY DEF Ready
    <2> QED BY <2>1, <2>2
  <1>4. /\ handle' = 0 /\ scanner' = "on" /\ refreshEnv' \in 0 .. MaxRefreshEnv
        /\ canceler' = [pc |-> "idle", found |-> 0] /\ closer' = [pc |-> "idle", cancels |-> {}]
        /\ refreshJob' = refreshJob /\ issued' = issued
      BY DEF RestartProcess
  <1>5. RefreshTypeOK'
      BY <1>1, <1>1a, <1>3, <1>4
  <1>6. WorkersReachable'
      BY <1>1, <1>2 DEF WorkersReachable, Live
  <1>7. ClosedIsQuiet'
      BY <1>4 DEF ClosedIsQuiet
  <1> QED BY <1>5, <1>6, <1>7

LEMMA RefreshStep == RefreshInv /\ [RefreshNext]_refreshVars => RefreshInv'
  <1> SUFFICES ASSUME RefreshInv, [RefreshNext]_refreshVars PROVE RefreshInv'
      OBVIOUS
  <1>1. CASE UNCHANGED refreshVars
      BY <1>1 DEF refreshVars, RefreshInv, RefreshTypeOK, WorkersReachable, ClosedIsQuiet, Live, Working
  <1>2. CASE \E s \in Starter : StartWork(s)
      BY <1>2, ClaimJobStep, StartJobStep, StarterLeavesStep DEF StartWork
  <1>3. CASE CreateJob
      BY <1>3, CreateJobStep
  <1>4. CASE ReadRecoverable \/ RequeueExpired \/ RecoveryLoopEnds
      BY <1>4, ScanStep
  <1>5. CASE \E t \in Token : RefreshWork(t) \/ RefreshTimesOut(t)
      BY <1>5, RefreshWorkStep
  <1>6. CASE CancelRow \/ FindRefresher \/ CancelRefresher
      BY <1>6, RefreshCancelStep
  <1>7. CASE StopRunner \/ CloseWork
      BY <1>7, RunnerCloseStep
  <1>8. CASE RefreshLeaseLapses \/ RestartProcess
      BY <1>8, RefreshLapseStep, RefreshRestartStep
  <1>9. "request" \in Starter /\ "scan" \in Starter
      OBVIOUS
  <1> QED BY <1>1, <1>2, <1>3, <1>4, <1>5, <1>6, <1>7, <1>8, <1>9 DEF RefreshNext, ScanWork

\* Who writes to a row that has ended finds that it has.
LEMMA EndedJobStays ==
    ASSUME RefreshInv, RefreshNext, refreshJob.status \in Terminal
    PROVE  refreshJob' = refreshJob
  <1>1. ASSUME NEW s \in Starter, StartWork(s) PROVE refreshJob' = refreshJob
    <2>1. starter[s].token \in 0 .. MaxTokens
        BY DEF RefreshInv, RefreshTypeOK
    <2>2. CASE ReleaseJob(s)
        BY <2>1, <2>2, WrittenJob DEF RefreshInv, ReleaseJob
    <2> QED BY <1>1, <2>2 DEF StartWork, ClaimJob, StartJob, StarterFails
  <1>2. ASSUME NEW t \in Token, RefreshWork(t) \/ RefreshTimesOut(t) PROVE refreshJob' = refreshJob
    <2>1. CASE CompleteJob(t)
        BY <2>1, WrittenJob DEF RefreshInv, CompleteJob
    <2> QED BY <1>2, <2>1 DEF RefreshWork, RefreshReturns, CompleteFailsFor, FinishRefresher, RefreshTimesOut
  <1>3. CASE CreateJob \/ ReadRecoverable \/ RequeueExpired \/ RecoveryLoopEnds \/ CancelRow \/ RefreshLeaseLapses
      BY <1>3 DEF CreateJob, ReadRecoverable, RequeueExpired, Expired, RecoveryLoopEnds, CancelRow,
                  RefreshLeaseLapses
  <1>4. CASE FindRefresher \/ CancelRefresher \/ StopRunner \/ CloseWork \/ RestartProcess
      BY <1>4 DEF FindRefresher, CancelRefresher, StopRunner, CloseWork, CancelAll, CloseRunner, RestartProcess
  <1>5. "request" \in Starter /\ "scan" \in Starter
      OBVIOUS
  <1> QED BY <1>1, <1>2, <1>3, <1>4, <1>5 DEF RefreshNext, ScanWork

\* The invariant: the types, and the two things the runner promises.
THEOREM RefreshInvariant == RefreshSpec => []RefreshInv
  <1>1. RefreshInit => RefreshInv
      BY RefreshStarts
  <1>2. RefreshInv /\ [RefreshNext]_refreshVars => RefreshInv'
      BY RefreshStep
  <1> QED BY <1>1, <1>2, PTL DEF RefreshSpec

\* A running row, and no other, has a token, one that was issued.
THEOREM RefreshTypes == RefreshSpec => []RefreshTypeOK
  <1>1. RefreshInv => RefreshTypeOK
      BY DEF RefreshInv
  <1> QED BY <1>1, RefreshInvariant, PTL

\* However leases lapse, workers time out, statements fail and the process is
\* restarted: a worker that may still write can be canceled by whoever has to,
\* nothing works after Close has returned, and the result that was recorded
\* stays (internal/refresh: runner.workers, Close, Complete).
THEOREM RefreshKept == RefreshSpec => RefreshSafe
  <1>1. RefreshInv => WorkersReachable /\ ClosedIsQuiet
      BY DEF RefreshInv
  <1>2. RefreshInv /\ [RefreshNext]_refreshVars
          => [refreshJob.status \in Terminal => refreshJob' = refreshJob]_refreshVars
      BY EndedJobStays
  <1>3. RefreshSpec => [](WorkersReachable /\ ClosedIsQuiet)
      BY <1>1, RefreshInvariant, PTL
  <1>4. RefreshSpec => JobEndsOnce
      BY <1>2, RefreshInvariant, PTL DEF RefreshSpec, JobEndsOnce
  <1> QED BY <1>3, <1>4 DEF RefreshSafe

HIDE DEF Token, Starter, Terminal, JobRow, StarterState, RefresherState

-----------------------------------------------------------------------------
(* The lifecycle coordinator: the invariant                                *)

Callback == {"component", "rollback", "close"}
Quiet(state) == state \in {"idle", "down"}

\* What the flags of coordinator k say of each other and of the components s.
Flags(k, s) ==
    /\ k.starting => k.started /\ ~k.closing /\ ~k.closed /\ k.componentClosed = {}
    /\ k.closing => ~k.closed
    /\ k.startedCount <= k.registered /\ (k.startedCount > 0 => k.started)
    /\ \A i \in k.componentClosed : i <= k.startedCount /\ s[i] = "down"
    /\ \A i \in Component : i > k.startedCount => s[i] = "idle"
    /\ k.closed /\ k.closeErr = "ok" => \A i \in Component : Quiet(s[i])
    /\ \A a \in Attempt : k.attemptErr[a] = "ok" => k.closed /\ k.closeErr = "ok"

\* What a goroutine in state p may rely on.
Holds(p, k, s) ==
    /\ p.pc = "component" =>
         /\ k.starting /\ p.index > 0 /\ p.err = "ok" /\ p.call = "start"
         /\ p.index <= k.registered => k.startedCount = p.index
         /\ p.index > k.registered => k.startedCount = k.registered
    /\ p.pc = "rollback" =>
         /\ k.starting /\ p.index <= k.startedCount /\ p.call = "start"
         /\ p.err # "error" => p.err = "ok" /\ \A j \in Component : j > p.index => Quiet(s[j])
    /\ p.pc = "close" =>
         /\ k.closing /\ p.index <= k.startedCount
         /\ p.err # "error" =>
              p.err = "ok" /\ \A j \in Component : j > p.index /\ j <= k.startedCount => j \in k.componentClosed
    /\ p.pc = "enter" => p.err = "ok"
    /\ p.pc = "idle" /\ p.call = "close" /\ p.result = "ok" => k.closed /\ k.closeErr = "ok"

\* Every attempt to close was begun by a call of its own.
Entering == {c \in Caller : caller[c].pc = "enter"}
AttemptsCounted ==
    /\ IsFiniteSet(Entering)
    /\ Cardinality(Entering) + coord.attempt + calls <= MaxCalls

LifecycleInv ==
    /\ LifecycleTypeOK
    /\ Flags(coord, component)
    /\ \A c \in Caller : Holds(caller[c], coord, component)
    /\ OneCallback
    /\ AttemptsCounted

-----------------------------------------------------------------------------
(* The lifecycle coordinator: the step of one goroutine                    *)

CallerPc == {"idle", "component", "rollback", "enter", "close", "join", "wait"}

\* The goroutines that have asked to close, after one of them has moved.
LEMMA EnteringMoves ==
    ASSUME LifecycleInv, NEW c \in Caller, NEW q, caller' = [caller EXCEPT ![c] = q],
           coord' \in Coordinator, calls' \in 0 .. MaxCalls,
           coord'.attempt + calls' + (IF q.pc = "enter" THEN 1 ELSE 0)
             <= coord.attempt + calls + (IF caller[c].pc = "enter" THEN 1 ELSE 0)
    PROVE  AttemptsCounted'
<1> DEFINE rest == Entering \ {c}
<1>1. /\ caller \in [Caller -> CallerState] /\ coord \in Coordinator /\ calls \in 0 .. MaxCalls
      /\ IsFiniteSet(Entering) /\ Cardinality(Entering) + coord.attempt + calls <= MaxCalls
      /\ MaxCalls \in Nat
  BY LifecycleBounds DEF LifecycleInv, LifecycleTypeOK, AttemptsCounted
<1>2. c \in Entering <=> caller[c].pc = "enter"
  BY DEF Entering
<1>3. Entering' = IF q.pc = "enter" THEN rest \cup {c} ELSE rest
  BY <1>1 DEF Entering
<1>4. /\ IsFiniteSet(rest) /\ Cardinality(rest) \in Nat
      /\ Cardinality(Entering) = Cardinality(rest) + (IF caller[c].pc = "enter" THEN 1 ELSE 0)
  <2>1. IsFiniteSet(rest)
        /\ Cardinality(rest) = IF c \in Entering THEN Cardinality(Entering) - 1 ELSE Cardinality(Entering)
    BY <1>1, FS_RemoveElement
  <2>2. Cardinality(rest) \in Nat /\ Cardinality(Entering) \in Nat
    BY <1>1, <2>1, FS_CardinalityType
  <2>3. QED
    BY <1>2, <2>1, <2>2
<1>5. /\ IsFiniteSet(rest \cup {c})
      /\ Cardinality(rest \cup {c}) = Cardinality(rest) + 1
  <2>1. c \notin rest
    OBVIOUS
  <2>2. QED
    BY <1>4, <2>1, FS_AddElement
<1> HIDE DEF rest
<1>6. coord.attempt \in Nat /\ coord'.attempt \in Nat /\ calls \in Nat /\ calls' \in Nat
  BY <1>1 DEF Coordinator, Attempt
<1>7. CASE q.pc = "enter"
  BY <1>1, <1>3, <1>4, <1>5, <1>6, <1>7 DEF AttemptsCounted
<1>8. CASE q.pc # "enter"
  BY <1>1, <1>3, <1>4, <1>6, <1>8 DEF AttemptsCounted
<1>9. QED
  BY <1>7, <1>8

\* What a step of goroutine c, which is q afterwards, has to show.
LEMMA CallerStep ==
    ASSUME LifecycleInv, NEW c \in Caller, NEW q \in CallerState, caller' = [caller EXCEPT ![c] = q],
           coord' \in Coordinator, component' \in [Component -> ComponentState],
           calls' \in 0 .. MaxCalls, refusals' \in 0 .. MaxRefusals,
           Flags(coord', component'), Holds(q, coord', component'),
           \A d \in Caller \ {c} : Holds(caller[d], coord', component'),
           q.pc \in Callback => \A d \in Caller \ {c} : caller[d].pc \notin Callback,
           coord'.attempt + calls' + (IF q.pc = "enter" THEN 1 ELSE 0)
             <= coord.attempt + calls + (IF caller[c].pc = "enter" THEN 1 ELSE 0)
    PROVE  LifecycleInv'
<1>1. caller \in [Caller -> CallerState]
  BY DEF LifecycleInv, LifecycleTypeOK
<1>2. LifecycleTypeOK'
  BY <1>1 DEF LifecycleTypeOK
<1>3. \A d \in Caller : caller'[d] = IF d = c THEN q ELSE caller[d]
  BY <1>1
<1>4. \A d \in Caller : Holds(caller'[d], coord', component')
  <2> SUFFICES ASSUME NEW d \in Caller
               PROVE  Holds(caller'[d], coord', component')
    OBVIOUS
  <2>1. CASE d = c
    BY <1>3, <2>1
  <2>2. CASE d # c
    <3>1. caller'[d] = caller[d] /\ Holds(caller[d], coord', component')
      BY <1>3, <2>2
    <3>2. QED
      BY <3>1
  <2>3. QED
    BY <2>1, <2>2
<1>5. OneCallback'
  BY <1>3 DEF LifecycleInv, OneCallback, Callback
<1>6. AttemptsCounted'
  BY EnteringMoves
<1>7. QED
  BY <1>2, <1>4, <1>5, <1>6 DEF LifecycleInv

\* A step that only concerns the goroutine itself.
LEMMA OwnStep ==
    ASSUME LifecycleInv, NEW c \in Caller, NEW q \in CallerState, caller' = [caller EXCEPT ![c] = q],
           UNCHANGED <<coord, component, refusals>>,
           calls' = calls \/ (calls > 0 /\ calls' = calls - 1),
           q.pc \notin Callback,
           q.pc = "enter" => q.err = "ok" /\ calls' # calls,
           q.pc = "idle" /\ q.call = "close" /\ q.result = "ok" => coord.closed /\ coord.closeErr = "ok"
    PROVE  LifecycleInv'
<1>1. /\ LifecycleTypeOK /\ Flags(coord, component)
      /\ coord.attempt \in Nat /\ calls \in 0 .. MaxCalls /\ MaxCalls \in Nat
  BY LifecycleBounds DEF LifecycleInv, LifecycleTypeOK, Coordinator, Attempt
<1>2. calls' \in 0 .. MaxCalls
  BY <1>1
<1>3. Holds(q, coord', component')
  BY DEF Holds, Callback
<1>4. \A d \in Caller \ {c} : Holds(caller[d], coord', component')
  BY DEF LifecycleInv
<1>5. coord'.attempt + calls' + (IF q.pc = "enter" THEN 1 ELSE 0)
        <= coord.attempt + calls + (IF caller[c].pc = "enter" THEN 1 ELSE 0)
  BY <1>1
<1>6. QED
  BY <1>1, <1>2, <1>3, <1>4, <1>5, CallerStep DEF LifecycleTypeOK

\* The types that every step lemma needs of its goroutine.
LEMMA CallerTyped ==
    ASSUME LifecycleInv, NEW c \in Caller
    PROVE  /\ caller[c] \in CallerState /\ Holds(caller[c], coord, component)
           /\ caller[c].index \in 0 .. Components + 1 /\ caller[c].attempt \in Attempt
           /\ caller[c].err \in Result
           /\ coord \in Coordinator /\ component \in [Component -> ComponentState]
           /\ Flags(coord, component)
           /\ calls \in 0 .. MaxCalls /\ refusals \in 0 .. MaxRefusals
           /\ coord.attempt \in Nat /\ coord.registered \in 0 .. Components
           /\ coord.startedCount \in 0 .. Components
           /\ Components \in Nat /\ MaxCalls \in Nat /\ MaxRefusals \in Nat
<1>1. caller[c] \in CallerState
  BY DEF LifecycleInv, LifecycleTypeOK
<1>2. QED
  BY <1>1, LifecycleBounds DEF LifecycleInv, LifecycleTypeOK, CallerState, Coordinator, Attempt

-----------------------------------------------------------------------------
(* The lifecycle coordinator: calls that change only their goroutine       *)

LEMMA ReturnStep ==
    ASSUME LifecycleInv, NEW c \in Caller, NEW result \in Result, Return(c, result),
           UNCHANGED <<coord, component, calls, refusals>>,
           result = "ok" => coord.closed /\ coord.closeErr = "ok"
    PROVE  LifecycleInv'
<1> DEFINE q == [caller[c] EXCEPT !.pc = "idle", !.result = result]
<1>1. caller[c] \in CallerState
  BY CallerTyped
<1>2. "idle" \in CallerPc /\ "idle" \notin Callback
  BY DEF CallerPc, Callback
<1>3. q \in CallerState /\ q.pc = "idle" /\ q.result = result
  BY <1>1, <1>2 DEF CallerState, CallerPc
<1>4. caller' = [caller EXCEPT ![c] = q]
  BY DEF Return
<1> HIDE DEF q
<1>5. QED
  BY <1>2, <1>3, <1>4, OwnStep

LEMMA CallStep ==
    ASSUME LifecycleInv, NEW c \in Caller, CallClose(c) \/ CallWait(c)
    PROVE  LifecycleInv'
<1>1. PICK pc \in {"enter", "wait"} : Call(c, pc, "close") /\ UNCHANGED <<coord, component, refusals>>
  BY DEF CallClose, CallWait
<1> DEFINE q == [caller[c] EXCEPT !.pc = pc, !.call = "close", !.result = "none", !.err = "ok"]
<1>2. caller[c] \in CallerState
  BY CallerTyped
<1>3. pc \in CallerPc /\ pc \notin Callback /\ pc # "idle" /\ {"none", "ok"} \subseteq Result
  BY DEF CallerPc, Callback, Result
<1>4. q \in CallerState /\ q.pc = pc /\ q.err = "ok"
  BY <1>2, <1>3 DEF CallerState, CallerPc
<1>5. caller' = [caller EXCEPT ![c] = q] /\ calls > 0 /\ calls' = calls - 1
  BY <1>1 DEF Call
<1>6. calls' # calls
  BY <1>5, CallerTyped
<1> HIDE DEF q
<1>7. QED
  BY <1>1, <1>3, <1>4, <1>5, <1>6, OwnStep

LEMMA StartRefusedStep ==
    ASSUME LifecycleInv, NEW c \in Caller, StartRefused(c)
    PROVE  LifecycleInv'
<1> DEFINE result == IF coord.closed \/ coord.closing THEN "stopped" ELSE "ok"
           q == [caller[c] EXCEPT !.call = "start", !.result = result]
<1>1. caller[c] \in CallerState /\ caller[c].pc = "idle"
  BY CallerTyped DEF StartRefused, CallerAt
<1>2. result \in Result /\ "idle" \notin Callback
  BY DEF Result, Callback
<1>3. /\ caller' = [caller EXCEPT ![c] = q] /\ calls > 0 /\ calls' = calls - 1
      /\ UNCHANGED <<coord, component, refusals>>
  BY DEF StartRefused
<1> HIDE DEF result
<1>4. q \in CallerState /\ q.pc = "idle" /\ q.call = "start"
  BY <1>1, <1>2 DEF CallerState
<1> HIDE DEF q
<1>5. QED
  BY <1>2, <1>3, <1>4, OwnStep

LEMMA JoinAttemptStep ==
    ASSUME LifecycleInv, NEW c \in Caller, JoinAttempt(c)
    PROVE  LifecycleInv'
<1> DEFINE q == [caller[c] EXCEPT !.pc = "join", !.attempt = coord.attempt]
<1>1. caller[c] \in CallerState /\ coord.attempt \in Attempt
  BY CallerTyped DEF Coordinator
<1>2. "join" \in CallerPc /\ "join" \notin Callback
  BY DEF CallerPc, Callback
<1>3. q \in CallerState /\ q.pc = "join"
  BY <1>1, <1>2 DEF CallerState, CallerPc
<1>4. caller' = [caller EXCEPT ![c] = q] /\ UNCHANGED <<coord, component, calls, refusals>>
  BY DEF JoinAttempt
<1> HIDE DEF q
<1>5. QED
  BY <1>2, <1>3, <1>4, OwnStep

LEMMA JoinReturnsStep ==
    ASSUME LifecycleInv, NEW c \in Caller, CloseAgain(c) \/ JoinEnds(c) \/ WaitEnds(c) \/ ContextEnds(c)
    PROVE  LifecycleInv'
<1>1. /\ coord \in Coordinator /\ Flags(coord, component) /\ caller[c].attempt \in Attempt
  BY CallerTyped
<1>2. CASE CloseAgain(c) \/ WaitEnds(c)
  <2>1. coord.closeErr \in Result
    BY <1>1 DEF Coordinator
  <2>2. QED
    BY <1>2, <2>1, ReturnStep DEF CloseAgain, WaitEnds
<1>3. CASE JoinEnds(c)
  <2>1. coord.attemptErr[caller[c].attempt] \in Result
    BY <1>1 DEF Coordinator
  <2>2. coord.attemptErr[caller[c].attempt] = "ok" => coord.closed /\ coord.closeErr = "ok"
    BY <1>1 DEF Flags
  <2>3. QED
    BY <1>3, <2>1, <2>2, ReturnStep DEF JoinEnds
<1>4. CASE ContextEnds(c)
  <2>1. "timeout" \in Result
    BY DEF Result
  <2>2. QED
    BY <1>4, <2>1, ReturnStep DEF ContextEnds
<1>5. QED
  BY <1>2, <1>3, <1>4

-----------------------------------------------------------------------------
(* The lifecycle coordinator: Start                                        *)

LEMMA AddStep ==
    ASSUME LifecycleInv, Add
    PROVE  LifecycleInv'
<1>1. coord \in Coordinator /\ Flags(coord, component) /\ Components \in Nat /\ LifecycleTypeOK
  BY LifecycleBounds DEF LifecycleInv, LifecycleTypeOK
<1> DEFINE k == [coord EXCEPT !.registered = coord.registered + 1]
<1>2. coord.registered + 1 \in 0 .. Components
  BY <1>1 DEF Add, Coordinator
<1>3. k \in Coordinator
  BY <1>1, <1>2 DEF Coordinator
<1>4. coord' = k
  BY DEF Add
<1>5. Flags(coord', component')
  BY <1>1, <1>4 DEF Add, Flags, Coordinator
<1>6. ~coord.starting
  BY <1>1 DEF Add, Flags
<1>7. \A c \in Caller : Holds(caller'[c], coord', component')
  BY <1>4, <1>6 DEF Add, LifecycleInv, Holds, Coordinator
<1>8. LifecycleTypeOK'
  BY <1>1, <1>3, <1>4 DEF Add, LifecycleTypeOK
<1>9. OneCallback' /\ AttemptsCounted'
  BY <1>1, <1>4 DEF Add, LifecycleInv, OneCallback, AttemptsCounted, Entering, Coordinator
<1>10. QED
  BY <1>5, <1>7, <1>8, <1>9 DEF LifecycleInv

\* The one start: nothing has been started or closed, and nobody is about to.
LEMMA StartBeginsStep ==
    ASSUME LifecycleInv, NEW c \in Caller, StartBegins(c)
    PROVE  LifecycleInv'
<1> DEFINE count == IF coord.registered > 0 THEN 1 ELSE 0
           k == [coord EXCEPT !.starting = TRUE, !.started = TRUE, !.startedCount = count]
           q == [caller[c] EXCEPT !.pc = "component", !.index = 1, !.err = "ok",
                                  !.call = "start", !.result = "none"]
<1>1. /\ caller[c] \in CallerState /\ coord \in Coordinator /\ Flags(coord, component)
      /\ coord.registered \in 0 .. Components /\ coord.startedCount \in 0 .. Components
      /\ calls \in 0 .. MaxCalls /\ coord.attempt \in Nat /\ Components \in Nat \ {0} /\ MaxCalls \in Nat
      /\ caller[c].pc = "idle"
  BY CallerTyped, LifecycleBounds DEF StartBegins, CallerAt
<1>2. /\ ~coord.closed /\ ~coord.closing /\ ~coord.started
      /\ calls > 0 /\ calls' = calls - 1 /\ coord' = k /\ caller' = [caller EXCEPT ![c] = q]
      /\ UNCHANGED <<component, refusals>>
  BY DEF StartBegins
<1>3. count \in 0 .. Components /\ (coord.registered > 0 => count = 1) /\ (coord.registered = 0 => count = 0)
  BY <1>1
<1> HIDE DEF count
<1>4. /\ k \in Coordinator /\ k.starting /\ k.started /\ k.startedCount = count
      /\ k.registered = coord.registered /\ k.closing = coord.closing /\ k.closed = coord.closed
      /\ k.componentClosed = coord.componentClosed /\ k.closeErr = coord.closeErr
      /\ k.attemptErr = coord.attemptErr /\ k.attempt = coord.attempt
  BY <1>1, <1>3 DEF Coordinator
<1>5. /\ q \in CallerState /\ q.pc = "component" /\ q.index = 1 /\ q.err = "ok" /\ q.call = "start"
  <2>1. 1 \in 0 .. Components + 1 /\ {"ok", "none"} \subseteq Result
    BY <1>1 DEF Result
  <2>2. QED
    BY <1>1, <2>1 DEF CallerState
<1> HIDE DEF k, q
<1>6. coord.startedCount = 0 /\ ~coord.starting /\ coord.componentClosed = {}
      /\ \A i \in Component : component[i] = "idle"
  <2>1. coord.startedCount = 0 /\ ~coord.starting
    BY <1>1, <1>2 DEF Flags
  <2>2. coord.componentClosed \subseteq Component
    BY <1>1 DEF Coordinator
  <2>3. coord.componentClosed = {}
    BY <1>1, <2>1, <2>2 DEF Flags, Component
  <2>4. QED
    BY <1>1, <2>1, <2>3 DEF Flags, Component
<1>7. Flags(coord', component')
  BY <1>1, <1>2, <1>3, <1>4, <1>6 DEF Flags
<1>8. Holds(q, coord', component')
  BY <1>1, <1>2, <1>3, <1>4, <1>5 DEF Holds
<1>9. \A d \in Caller \ {c} : Holds(caller[d], coord, component) /\ caller[d].pc \notin Callback
  BY <1>2, <1>6 DEF LifecycleInv, Holds, Callback
<1>10. \A d \in Caller \ {c} : Holds(caller[d], coord', component')
  BY <1>2, <1>4, <1>9 DEF Holds, Callback
<1>11. component' \in [Component -> ComponentState] /\ refusals' \in 0 .. MaxRefusals
       /\ calls' \in 0 .. MaxCalls
  BY <1>1, <1>2, CallerTyped
<1>12. coord'.attempt + calls' + (IF q.pc = "enter" THEN 1 ELSE 0)
         <= coord.attempt + calls + (IF caller[c].pc = "enter" THEN 1 ELSE 0)
  BY <1>1, <1>2, <1>4, <1>5
<1>13. QED
  BY <1>2, <1>4, <1>5, <1>7, <1>8, <1>9, <1>10, <1>11, <1>12, CallerStep

\* Nobody else is in a callback while c is, and whoever is elsewhere is not
\* concerned by what c does to the components and their count.
LEMMA OthersStay ==
    ASSUME LifecycleInv, NEW c \in Caller, NEW d \in Caller \ {c}, NEW k, NEW s,
           caller[c].pc \in Callback,
           coord.closed /\ coord.closeErr = "ok" => k.closed /\ k.closeErr = "ok"
    PROVE  /\ caller[d].pc \notin Callback
           /\ Holds(caller[d], k, s)
<1>1. caller[d].pc \notin Callback
  BY DEF LifecycleInv, OneCallback, Callback
<1>2. QED
  BY <1>1 DEF LifecycleInv, Holds, Callback

\* A component's Start has returned; the next one is counted already.
LEMMA ComponentStartsStep ==
    ASSUME LifecycleInv, NEW c \in Caller, ComponentStarts(c)
    PROVE  LifecycleInv'
<1> DEFINE i == caller[c].index
           count == IF i < coord.registered THEN i + 1 ELSE coord.startedCount
           k == [coord EXCEPT !.startedCount = count]
           q == [caller[c] EXCEPT !.index = i + 1]
           s == [component EXCEPT ![i] = "up"]
<1>1. /\ caller[c] \in CallerState /\ coord \in Coordinator /\ Flags(coord, component)
      /\ Holds(caller[c], coord, component) /\ component \in [Component -> ComponentState]
      /\ i \in 0 .. Components + 1
      /\ coord.registered \in 0 .. Components /\ coord.startedCount \in 0 .. Components
      /\ calls \in 0 .. MaxCalls /\ refusals \in 0 .. MaxRefusals
      /\ coord.attempt \in Nat /\ Components \in Nat /\ MaxCalls \in Nat
  BY CallerTyped
<1>2. caller[c].pc = "component" /\ i <= coord.registered
  BY DEF ComponentStarts, CallerAt
<1>3. component' = s /\ coord' = k /\ caller' = [caller EXCEPT ![c] = q] /\ UNCHANGED <<calls, refusals>>
  BY DEF ComponentStarts
<1>4. /\ coord.starting /\ i > 0 /\ caller[c].err = "ok" /\ coord.startedCount = i
      /\ caller[c].call = "start"
  BY <1>1, <1>2 DEF Holds
<1>5. coord.started /\ ~coord.closing /\ ~coord.closed /\ coord.componentClosed = {}
  BY <1>1, <1>4 DEF Flags
<1>6. /\ count \in 0 .. Components /\ count >= i /\ count <= coord.registered
      /\ i + 1 <= coord.registered => count = i + 1
      /\ i + 1 > coord.registered => count = coord.registered
  BY <1>1, <1>2, <1>4
<1>7. i \in Component /\ i + 1 \in 0 .. Components + 1 /\ "up" \in ComponentState
  BY <1>1, <1>2, <1>4 DEF Component, ComponentState
<1> HIDE DEF count, i
<1>8. /\ k \in Coordinator /\ k.startedCount = count /\ k.starting = coord.starting
      /\ k.started = coord.started /\ k.registered = coord.registered /\ k.closing = coord.closing
      /\ k.closed = coord.closed /\ k.componentClosed = coord.componentClosed
      /\ k.closeErr = coord.closeErr /\ k.attemptErr = coord.attemptErr /\ k.attempt = coord.attempt
  BY <1>1, <1>6 DEF Coordinator
<1>9. /\ q \in CallerState /\ q.pc = caller[c].pc /\ q.index = i + 1 /\ q.err = caller[c].err
      /\ q.call = caller[c].call
  BY <1>1, <1>7 DEF CallerState
<1>10. s \in [Component -> ComponentState] /\ \A j \in Component : j # i => s[j] = component[j]
  BY <1>1, <1>7
<1> HIDE DEF k, q, s
<1>11. Flags(k, s)
  <2>1. \A j \in Component : j > k.startedCount => s[j] = "idle"
    BY <1>1, <1>4, <1>6, <1>7, <1>8, <1>10 DEF Flags, Component
  <2>2. QED
    BY <1>1, <1>4, <1>5, <1>6, <1>8, <2>1 DEF Flags
<1>12. Holds(q, k, s)
  BY <1>2, <1>4, <1>6, <1>7, <1>8, <1>9, <1>1 DEF Holds
<1>13. caller[c].pc \in Callback /\ (coord.closed /\ coord.closeErr = "ok" => k.closed /\ k.closeErr = "ok")
  BY <1>2, <1>8 DEF Callback
<1>14. \A d \in Caller \ {c} : caller[d].pc \notin Callback /\ Holds(caller[d], k, s)
  BY <1>13, OthersStay
<1>15. k.attempt + calls' + (IF q.pc = "enter" THEN 1 ELSE 0)
         <= coord.attempt + calls + (IF caller[c].pc = "enter" THEN 1 ELSE 0)
  BY <1>1, <1>2, <1>3, <1>8, <1>9
<1>16. QED
  BY <1>1, <1>3, <1>8, <1>9, <1>10, <1>11, <1>12, <1>14, <1>15, CallerStep

\* A component that failed to start is closed first, and then those before it.
LEMMA ComponentFailsStep ==
    ASSUME LifecycleInv, NEW c \in Caller, ComponentFails(c)
    PROVE  LifecycleInv'
<1> DEFINE i == caller[c].index
           q == [caller[c] EXCEPT !.pc = "rollback"]
           s == [component EXCEPT ![i] = "broken"]
<1>1. /\ caller[c] \in CallerState /\ coord \in Coordinator /\ Flags(coord, component)
      /\ Holds(caller[c], coord, component) /\ component \in [Component -> ComponentState]
      /\ i \in 0 .. Components + 1
      /\ coord.registered \in 0 .. Components /\ coord.startedCount \in 0 .. Components
      /\ calls \in 0 .. MaxCalls /\ refusals \in 0 .. MaxRefusals /\ MaxRefusals \in Nat
      /\ coord.attempt \in Nat /\ Components \in Nat /\ MaxCalls \in Nat
  BY CallerTyped
<1>2. caller[c].pc = "component" /\ i <= coord.registered /\ refusals > 0
  BY DEF ComponentFails, CallerAt
<1>3. /\ component' = s /\ caller' = [caller EXCEPT ![c] = q] /\ UNCHANGED <<coord, calls>>
      /\ refusals' = refusals - 1
  BY DEF ComponentFails
<1>4. /\ coord.starting /\ i > 0 /\ caller[c].err = "ok" /\ coord.startedCount = i
      /\ caller[c].call = "start"
  BY <1>1, <1>2 DEF Holds
<1>5. coord.started /\ ~coord.closing /\ ~coord.closed /\ coord.componentClosed = {}
  BY <1>1, <1>4 DEF Flags
<1>6. i \in Component /\ "broken" \in ComponentState /\ refusals' \in 0 .. MaxRefusals
  BY <1>1, <1>2, <1>3, <1>4 DEF Component, ComponentState
<1>7. /\ q \in CallerState /\ q.pc = "rollback" /\ q.index = caller[c].index /\ q.err = caller[c].err
      /\ q.call = caller[c].call
  BY <1>1 DEF CallerState
<1> HIDE DEF i
<1>8. s \in [Component -> ComponentState] /\ \A j \in Component : j # i => s[j] = component[j]
  BY <1>1, <1>6
<1>9. q.index = i
  BY <1>7 DEF i
<1> HIDE DEF q, s
<1>10. \A j \in Component : j > coord.startedCount => s[j] = "idle"
  BY <1>1, <1>4, <1>6, <1>8 DEF Flags, Component
<1>11. Flags(coord, s)
  BY <1>1, <1>5, <1>10 DEF Flags
<1>12. Holds(q, coord, s)
  BY <1>1, <1>4, <1>7, <1>9, <1>10 DEF Holds, Quiet
<1>13. caller[c].pc \in Callback
  BY <1>2 DEF Callback
<1>14. \A d \in Caller \ {c} : caller[d].pc \notin Callback /\ Holds(caller[d], coord, s)
  BY <1>13, OthersStay
<1>15. coord.attempt + calls' + (IF q.pc = "enter" THEN 1 ELSE 0)
         <= coord.attempt + calls + (IF caller[c].pc = "enter" THEN 1 ELSE 0)
  BY <1>1, <1>2, <1>3, <1>7
<1>16. QED
  BY <1>1, <1>3, <1>6, <1>7, <1>8, <1>11, <1>12, <1>14, <1>15, CallerStep

\* All components are up.
LEMMA StartEndsStep ==
    ASSUME LifecycleInv, NEW c \in Caller, StartEnds(c)
    PROVE  LifecycleInv'
<1> DEFINE k == [coord EXCEPT !.starting = FALSE]
           q == [caller[c] EXCEPT !.pc = "idle", !.result = "ok"]
<1>1. /\ caller[c] \in CallerState /\ coord \in Coordinator /\ Flags(coord, component)
      /\ Holds(caller[c], coord, component) /\ component \in [Component -> ComponentState]
      /\ calls \in 0 .. MaxCalls /\ refusals \in 0 .. MaxRefusals
      /\ coord.attempt \in Nat /\ MaxCalls \in Nat
  BY CallerTyped
<1>2. caller[c].pc = "component"
  BY DEF StartEnds, CallerAt
<1>3. coord' = k /\ caller' = [caller EXCEPT ![c] = q] /\ UNCHANGED <<component, calls, refusals>>
  BY DEF StartEnds, Return
<1>4. coord.starting /\ caller[c].call = "start"
  BY <1>1, <1>2 DEF Holds
<1>5. coord.started /\ ~coord.closing /\ ~coord.closed /\ coord.componentClosed = {}
  BY <1>1, <1>4 DEF Flags
<1>6. /\ k \in Coordinator /\ ~k.starting /\ k.startedCount = coord.startedCount
      /\ k.started = coord.started /\ k.registered = coord.registered /\ k.closing = coord.closing
      /\ k.closed = coord.closed /\ k.componentClosed = coord.componentClosed
      /\ k.closeErr = coord.closeErr /\ k.attemptErr = coord.attemptErr /\ k.attempt = coord.attempt
  BY <1>1 DEF Coordinator
<1>7. q \in CallerState /\ q.pc = "idle" /\ q.call = "start"
  BY <1>1, <1>4 DEF CallerState, Result
<1> HIDE DEF k, q
<1>8. Flags(k, component)
  BY <1>1, <1>6 DEF Flags
<1>9. Holds(q, k, component)
  BY <1>7 DEF Holds
<1>10. caller[c].pc \in Callback /\ (coord.closed /\ coord.closeErr = "ok" => k.closed /\ k.closeErr = "ok")
  BY <1>2, <1>6 DEF Callback
<1>11. \A d \in Caller \ {c} : caller[d].pc \notin Callback /\ Holds(caller[d], k, component)
  BY <1>10, OthersStay
<1>12. k.attempt + calls' + (IF q.pc = "enter" THEN 1 ELSE 0)
         <= coord.attempt + calls + (IF caller[c].pc = "enter" THEN 1 ELSE 0)
  BY <1>1, <1>2, <1>3, <1>6, <1>7
<1>13. QED
  BY <1>1, <1>3, <1>6, <1>7, <1>8, <1>9, <1>11, <1>12, CallerStep

\* The rollback closes the component it is at, or is refused and goes on.
LEMMA RollbackComponentStep ==
    ASSUME LifecycleInv, NEW c \in Caller, RollbackComponent(c)
    PROVE  LifecycleInv'
<1> DEFINE i == caller[c].index
<1>1. /\ caller[c] \in CallerState /\ coord \in Coordinator /\ Flags(coord, component)
      /\ Holds(caller[c], coord, component) /\ component \in [Component -> ComponentState]
      /\ i \in 0 .. Components + 1
      /\ coord.registered \in 0 .. Components /\ coord.startedCount \in 0 .. Components
      /\ calls \in 0 .. MaxCalls /\ refusals \in 0 .. MaxRefusals /\ MaxRefusals \in Nat
      /\ coord.attempt \in Nat /\ Components \in Nat /\ MaxCalls \in Nat
  BY CallerTyped
<1>2. caller[c].pc = "rollback" /\ i > 0 /\ UNCHANGED <<coord, calls>>
  BY DEF RollbackComponent, CallerAt
<1>3. /\ coord.starting /\ i <= coord.startedCount /\ caller[c].call = "start"
      /\ caller[c].err # "error" => caller[c].err = "ok" /\ \A j \in Component : j > i => Quiet(component[j])
  BY <1>1, <1>2 DEF Holds
<1>4. ~coord.closing /\ ~coord.closed /\ coord.componentClosed = {}
  BY <1>1, <1>3 DEF Flags
<1>5. i \in Component /\ i - 1 \in 0 .. Components + 1 /\ caller[c].pc \in Callback
  <2> HIDE DEF i
  <2>1. i \in Component
    BY <1>1, <1>2, <1>3 DEF Component
  <2>2. i - 1 \in 0 .. Components + 1
    BY <1>1, <1>2
  <2> QED
    BY <1>2, <2>1, <2>2 DEF Callback
<1>6. ASSUME NEW s \in [Component -> ComponentState], NEW q \in CallerState,
             component' = s, caller' = [caller EXCEPT ![c] = q],
             \A j \in Component : j # i => s[j] = component[j],
             q.pc = "rollback", q.call = "start", q.index = i - 1,
             q.err = "error" \/ (q.err = caller[c].err /\ s[i] = "down"),
             refusals' \in 0 .. MaxRefusals
      PROVE  LifecycleInv'
  <2>1. \A j \in Component : j > coord.startedCount => s[j] = "idle"
    <3> SUFFICES ASSUME NEW j \in Component, j > coord.startedCount PROVE s[j] = "idle"
      OBVIOUS
    <3>1. component[j] = "idle"
      BY <1>1 DEF Flags
    <3>2. j # i
      BY <1>1, <1>3 DEF Component
    <3> HIDE DEF i
    <3> QED
      BY <1>6, <3>1, <3>2
  <2>2. Flags(coord, s)
    BY <1>1, <1>4, <2>1 DEF Flags
  <2>3. q.err # "error" => q.err = "ok" /\ \A j \in Component : j > q.index => Quiet(s[j])
    <3> SUFFICES ASSUME q.err # "error", NEW j \in Component, j > q.index
                 PROVE  q.err = "ok" /\ Quiet(s[j])
      BY <1>3, <1>6
    <3>1. CASE j = i
      BY <1>3, <1>6, <3>1 DEF Quiet
    <3>2. CASE j # i
      BY <1>1, <1>3, <1>6, <3>2 DEF Component
    <3>3. QED
      BY <3>1, <3>2
  <2>4. Holds(q, coord, s)
    BY <1>1, <1>3, <1>6, <2>3 DEF Holds
  <2>5. \A d \in Caller \ {c} : caller[d].pc \notin Callback /\ Holds(caller[d], coord, s)
    BY <1>5, OthersStay
  <2>6. coord.attempt + calls' + (IF q.pc = "enter" THEN 1 ELSE 0)
          <= coord.attempt + calls + (IF caller[c].pc = "enter" THEN 1 ELSE 0)
    BY <1>1, <1>2, <1>6
  <2>7. QED
    BY <1>1, <1>2, <1>6, <2>2, <2>4, <2>5, <2>6, CallerStep
<1>7. CASE component' = [component EXCEPT ![i] = "down"] /\ caller' = [caller EXCEPT ![c].index = i - 1]
           /\ UNCHANGED refusals
  <2> DEFINE q == [caller[c] EXCEPT !.index = i - 1]
             s == [component EXCEPT ![i] = "down"]
  <2>1. s \in [Component -> ComponentState] /\ s[i] = "down" /\ \A j \in Component : j # i => s[j] = component[j]
    BY <1>1, <1>5 DEF ComponentState
  <2>2. /\ q \in CallerState /\ q.pc = caller[c].pc /\ q.index = i - 1 /\ q.err = caller[c].err
        /\ q.call = caller[c].call
    BY <1>1, <1>5 DEF CallerState
  <2>3. component' = s /\ caller' = [caller EXCEPT ![c] = q] /\ refusals' \in 0 .. MaxRefusals
    BY <1>1, <1>7
  <2> HIDE DEF i, q, s
  <2>4. QED
    BY <1>2, <1>3, <1>6, <2>1, <2>2, <2>3
<1>8. CASE refusals > 0 /\ refusals' = refusals - 1 /\ component' = component
           /\ caller' = [caller EXCEPT ![c] = [caller[c] EXCEPT !.index = i - 1, !.err = "error"]]
  <2> DEFINE q == [caller[c] EXCEPT !.index = i - 1, !.err = "error"]
  <2>1. /\ q \in CallerState /\ q.pc = caller[c].pc /\ q.index = i - 1 /\ q.err = "error"
        /\ q.call = caller[c].call
    BY <1>1, <1>5 DEF CallerState, Result
  <2>2. refusals' \in 0 .. MaxRefusals
    BY <1>1, <1>8
  <2>3. caller' = [caller EXCEPT ![c] = q]
    BY <1>8
  <2> HIDE DEF i, q
  <2>4. QED
    BY <1>1, <1>2, <1>3, <1>6, <1>8, <2>1, <2>2, <2>3
<1>9. QED
  BY <1>7, <1>8 DEF RollbackComponent

\* The failed start is over, and the coordinator with it.
LEMMA RollbackEndsStep ==
    ASSUME LifecycleInv, NEW c \in Caller, RollbackEnds(c)
    PROVE  LifecycleInv'
<1> DEFINE k == [coord EXCEPT !.closed = TRUE, !.starting = FALSE, !.closing = FALSE,
                              !.closeErr = caller[c].err]
           q == [caller[c] EXCEPT !.pc = "idle", !.result = "error"]
<1>1. /\ caller[c] \in CallerState /\ coord \in Coordinator /\ Flags(coord, component)
      /\ Holds(caller[c], coord, component) /\ component \in [Component -> ComponentState]
      /\ caller[c].err \in Result
      /\ calls \in 0 .. MaxCalls /\ refusals \in 0 .. MaxRefusals
      /\ coord.attempt \in Nat /\ MaxCalls \in Nat
  BY CallerTyped
<1>2. caller[c].pc = "rollback" /\ caller[c].index = 0
  BY DEF RollbackEnds, CallerAt
<1>3. coord' = k /\ caller' = [caller EXCEPT ![c] = q] /\ UNCHANGED <<component, calls, refusals>>
  BY DEF RollbackEnds, Return
<1>4. /\ coord.starting /\ caller[c].call = "start"
      /\ caller[c].err # "error" => \A j \in Component : Quiet(component[j])
  BY <1>1, <1>2 DEF Holds, Component
<1>5. coord.started /\ ~coord.closing /\ ~coord.closed /\ coord.componentClosed = {}
  BY <1>1, <1>4 DEF Flags
<1>6. /\ k \in Coordinator /\ ~k.starting /\ k.startedCount = coord.startedCount
      /\ k.started = coord.started /\ k.registered = coord.registered /\ ~k.closing
      /\ k.closed /\ k.componentClosed = coord.componentClosed
      /\ k.closeErr = caller[c].err /\ k.attemptErr = coord.attemptErr /\ k.attempt = coord.attempt
  BY <1>1 DEF Coordinator
<1>7. q \in CallerState /\ q.pc = "idle" /\ q.call = "start"
  BY <1>1, <1>4 DEF CallerState, Result
<1> HIDE DEF k, q
<1>8. Flags(k, component)
  BY <1>1, <1>4, <1>5, <1>6 DEF Flags
<1>9. Holds(q, k, component)
  BY <1>7 DEF Holds
<1>10. caller[c].pc \in Callback /\ (coord.closed /\ coord.closeErr = "ok" => k.closed /\ k.closeErr = "ok")
  BY <1>2, <1>5 DEF Callback
<1>11. \A d \in Caller \ {c} : caller[d].pc \notin Callback /\ Holds(caller[d], k, component)
  BY <1>10, OthersStay
<1>12. k.attempt + calls' + (IF q.pc = "enter" THEN 1 ELSE 0)
         <= coord.attempt + calls + (IF caller[c].pc = "enter" THEN 1 ELSE 0)
  BY <1>1, <1>2, <1>3, <1>6, <1>7
<1>13. QED
  BY <1>1, <1>3, <1>6, <1>7, <1>8, <1>9, <1>11, <1>12, CallerStep

-----------------------------------------------------------------------------
(* The lifecycle coordinator: Close                                        *)

\* An attempt takes the place of the call that begins it.
LEMMA CloseBeginsStep ==
    ASSUME LifecycleInv, NEW c \in Caller, CloseBegins(c)
    PROVE  LifecycleInv'
<1> DEFINE n == coord.attempt + 1
           k == [coord EXCEPT !.closing = TRUE, !.attempt = n]
           q == [caller[c] EXCEPT !.pc = "close", !.attempt = n, !.index = coord.startedCount]
<1>1. /\ caller[c] \in CallerState /\ coord \in Coordinator /\ Flags(coord, component)
      /\ Holds(caller[c], coord, component) /\ component \in [Component -> ComponentState]
      /\ coord.startedCount \in 0 .. Components
      /\ calls \in 0 .. MaxCalls /\ refusals \in 0 .. MaxRefusals
      /\ coord.attempt \in Nat /\ MaxCalls \in Nat /\ Components \in Nat
  BY CallerTyped
<1>2. /\ caller[c].pc = "enter" /\ ~coord.starting /\ ~coord.closed /\ ~coord.closing
      /\ UNCHANGED <<component, calls, refusals>>
  BY DEF CloseBegins, MayEnter, CallerAt
<1>3. coord' = k /\ caller' = [caller EXCEPT ![c] = q]
  BY <1>1 DEF CloseBegins, Coordinator
<1>4. n \in Attempt
  <2>1. IsFiniteSet(Entering) /\ Cardinality(Entering) + coord.attempt + calls <= MaxCalls
    BY DEF LifecycleInv, AttemptsCounted
  <2>2. c \in Entering
    BY <1>2 DEF Entering
  <2>3. Cardinality(Entering) \in Nat /\ Cardinality(Entering) # 0
    BY <2>1, <2>2, FS_CardinalityType, FS_EmptySet
  <2>4. QED
    BY <1>1, <2>1, <2>3 DEF Attempt
<1> HIDE DEF n
<1>5. /\ k \in Coordinator /\ k.starting = coord.starting /\ k.startedCount = coord.startedCount
      /\ k.started = coord.started /\ k.registered = coord.registered /\ k.closing
      /\ k.closed = coord.closed /\ k.componentClosed = coord.componentClosed
      /\ k.closeErr = coord.closeErr /\ k.attemptErr = coord.attemptErr /\ k.attempt = n
  BY <1>1, <1>4 DEF Coordinator
<1>6. /\ q \in CallerState /\ q.pc = "close" /\ q.index = coord.startedCount /\ q.err = caller[c].err
  <2>1. coord.startedCount \in 0 .. Components + 1
    BY <1>1
  <2>2. QED
    BY <1>1, <1>4, <2>1 DEF CallerState
<1> HIDE DEF k, q
<1>7. n = coord.attempt + 1
  BY DEF n
<1>8. caller[c].err = "ok"
  BY <1>1, <1>2 DEF Holds
<1>9. Flags(k, component)
  BY <1>1, <1>2, <1>5 DEF Flags
<1>10. Holds(q, k, component)
  BY <1>1, <1>5, <1>6, <1>8 DEF Holds, Component
<1>11. ASSUME NEW d \in Caller \ {c}
       PROVE  caller[d].pc \notin Callback /\ Holds(caller[d], k, component)
  <2>1. Holds(caller[d], coord, component)
    BY DEF LifecycleInv
  <2>2. QED
    BY <1>2, <1>5, <2>1 DEF Holds, Callback
<1>12. k.attempt + calls' + (IF q.pc = "enter" THEN 1 ELSE 0)
         <= coord.attempt + calls + (IF caller[c].pc = "enter" THEN 1 ELSE 0)
  BY <1>1, <1>2, <1>5, <1>6, <1>7
<1>13. QED
  BY <1>1, <1>2, <1>3, <1>5, <1>6, <1>9, <1>10, <1>11, <1>12, CallerStep

\* A closing attempt passes over what is closed, closes the component it is
\* at, or is refused and goes on.
LEMMA CloseComponentStep ==
    ASSUME LifecycleInv, NEW c \in Caller, CloseComponent(c)
    PROVE  LifecycleInv'
<1> DEFINE i == caller[c].index
<1>1. /\ caller[c] \in CallerState /\ coord \in Coordinator /\ Flags(coord, component)
      /\ Holds(caller[c], coord, component) /\ component \in [Component -> ComponentState]
      /\ i \in 0 .. Components + 1
      /\ coord.registered \in 0 .. Components /\ coord.startedCount \in 0 .. Components
      /\ calls \in 0 .. MaxCalls /\ refusals \in 0 .. MaxRefusals /\ MaxRefusals \in Nat
      /\ coord.attempt \in Nat /\ Components \in Nat /\ MaxCalls \in Nat
  BY CallerTyped
<1>2. caller[c].pc = "close" /\ i > 0 /\ UNCHANGED calls
  BY DEF CloseComponent, CallerAt
<1>3. /\ coord.closing /\ i <= coord.startedCount
      /\ caller[c].err # "error" =>
           caller[c].err = "ok"
           /\ \A j \in Component : j > i /\ j <= coord.startedCount => j \in coord.componentClosed
  BY <1>1, <1>2 DEF Holds
<1>4. ~coord.starting /\ ~coord.closed
  BY <1>1, <1>3 DEF Flags
<1>5. i \in Component /\ i - 1 \in 0 .. Components + 1 /\ caller[c].pc \in Callback
  <2> HIDE DEF i
  <2>1. i \in Component
    BY <1>1, <1>2, <1>3 DEF Component
  <2>2. i - 1 \in 0 .. Components + 1
    BY <1>1, <1>2
  <2> QED
    BY <1>2, <2>1, <2>2 DEF Callback
<1>6. ASSUME NEW s \in [Component -> ComponentState], NEW q \in CallerState, NEW k \in Coordinator,
             component' = s, caller' = [caller EXCEPT ![c] = q], coord' = k,
             q.pc = "close", q.index = i - 1,
             q.err = "error" \/ (q.err = caller[c].err /\ i \in k.componentClosed),
             refusals' \in 0 .. MaxRefusals,
             (k = coord /\ s = component)
               \/ (k = [coord EXCEPT !.componentClosed = coord.componentClosed \cup {i}]
                   /\ s = [component EXCEPT ![i] = "down"])
      PROVE  LifecycleInv'
  <2>1. /\ k.starting = coord.starting /\ k.startedCount = coord.startedCount
        /\ k.started = coord.started /\ k.registered = coord.registered /\ k.closing = coord.closing
        /\ k.closed = coord.closed /\ k.closeErr = coord.closeErr /\ k.attemptErr = coord.attemptErr
        /\ k.attempt = coord.attempt /\ coord.componentClosed \subseteq k.componentClosed
        /\ k.componentClosed \subseteq coord.componentClosed \cup {i}
    BY <1>1, <1>6 DEF Coordinator
  <2>2. \A j \in Component : s[j] = component[j] \/ (j = i /\ s[j] = "down")
    BY <1>1, <1>6
  <2>3. \A j \in k.componentClosed : j \in Component /\ j <= k.startedCount /\ s[j] = "down"
    <3> SUFFICES ASSUME NEW j \in k.componentClosed
                 PROVE  j \in Component /\ j <= k.startedCount /\ s[j] = "down"
      OBVIOUS
    <3>1. j \in Component
      BY <1>6 DEF Coordinator
    <3>2. CASE k = coord /\ s = component
      BY <1>1, <3>1, <3>2 DEF Flags
    <3>3. CASE k = [coord EXCEPT !.componentClosed = coord.componentClosed \cup {i}]
               /\ s = [component EXCEPT ![i] = "down"]
      <4>1. CASE j = i
        BY <1>1, <1>3, <1>5, <2>1, <3>3, <4>1
      <4>2. CASE j # i
        BY <1>1, <2>1, <2>2, <3>1, <4>2 DEF Flags
      <4>3. QED
        BY <4>1, <4>2
    <3>4. QED
      BY <1>6, <3>2, <3>3
  <2>4. \A j \in Component : j > k.startedCount => s[j] = "idle"
    BY <1>1, <1>3, <1>5, <2>1, <2>2 DEF Flags, Component
  <2>5. Flags(k, s)
    BY <1>1, <1>4, <2>1, <2>3, <2>4 DEF Flags
  <2>6. q.err # "error" =>
          q.err = "ok" /\ \A j \in Component : j > q.index /\ j <= k.startedCount => j \in k.componentClosed
    <3> SUFFICES ASSUME q.err # "error", NEW j \in Component, j > q.index, j <= k.startedCount
                 PROVE  q.err = "ok" /\ j \in k.componentClosed
      BY <1>3, <1>6
    <3>1. CASE j = i
      BY <1>3, <1>6, <3>1
    <3>2. CASE j # i
      <4>1. j > i
        BY <1>1, <1>6, <3>2 DEF Component
      <4>2. QED
        BY <1>3, <1>6, <2>1, <4>1
    <3>3. QED
      BY <3>1, <3>2
  <2>7. q.index <= k.startedCount
    BY <1>1, <1>3, <1>6, <2>1
  <2>8. Holds(q, k, s)
    BY <1>3, <1>6, <2>1, <2>6, <2>7 DEF Holds
  <2>9. coord.closed /\ coord.closeErr = "ok" => k.closed /\ k.closeErr = "ok"
    BY <2>1
  <2>10. \A d \in Caller \ {c} : caller[d].pc \notin Callback /\ Holds(caller[d], k, s)
    BY <1>5, <2>9, OthersStay
  <2>11. k.attempt + calls' + (IF q.pc = "enter" THEN 1 ELSE 0)
           <= coord.attempt + calls + (IF caller[c].pc = "enter" THEN 1 ELSE 0)
    BY <1>1, <1>2, <1>6, <2>1
  <2>12. QED
    BY <1>1, <1>2, <1>6, <2>5, <2>8, <2>10, <2>11, CallerStep
<1>7. CASE i \in coord.componentClosed /\ caller' = [caller EXCEPT ![c].index = i - 1]
           /\ UNCHANGED <<coord, component, refusals>>
  <2> DEFINE q == [caller[c] EXCEPT !.index = i - 1]
  <2>1. q \in CallerState /\ q.pc = caller[c].pc /\ q.index = i - 1 /\ q.err = caller[c].err
    BY <1>1, <1>5 DEF CallerState
  <2>2. caller' = [caller EXCEPT ![c] = q] /\ refusals' \in 0 .. MaxRefusals
    BY <1>1, <1>7
  <2> HIDE DEF i, q
  <2>3. QED
    BY <1>1, <1>2, <1>6, <1>7, <2>1, <2>2
<1>8. CASE /\ component' = [component EXCEPT ![i] = "down"] /\ caller' = [caller EXCEPT ![c].index = i - 1]
           /\ coord' = [coord EXCEPT !.componentClosed = coord.componentClosed \cup {i}]
           /\ UNCHANGED refusals
  <2> DEFINE q == [caller[c] EXCEPT !.index = i - 1]
             s == [component EXCEPT ![i] = "down"]
             k == [coord EXCEPT !.componentClosed = coord.componentClosed \cup {i}]
  <2>1. q \in CallerState /\ q.pc = caller[c].pc /\ q.index = i - 1 /\ q.err = caller[c].err
    BY <1>1, <1>5 DEF CallerState
  <2>2. caller' = [caller EXCEPT ![c] = q] /\ refusals' \in 0 .. MaxRefusals
    BY <1>1, <1>8
  <2>3. s \in [Component -> ComponentState]
    BY <1>1, <1>5 DEF ComponentState
  <2>4. k \in Coordinator /\ i \in k.componentClosed
    BY <1>1, <1>5 DEF Coordinator
  <2>5. component' = s /\ coord' = k
    BY <1>8
  <2>6. k = [coord EXCEPT !.componentClosed = coord.componentClosed \cup {i}]
        /\ s = [component EXCEPT ![i] = "down"]
    OBVIOUS
  <2> HIDE DEF i, q, s, k
  <2>7. QED
    BY <1>1, <1>2, <1>6, <2>1, <2>2, <2>3, <2>4, <2>5, <2>6
<1>9. CASE refusals > 0 /\ refusals' = refusals - 1 /\ UNCHANGED <<coord, component>>
           /\ caller' = [caller EXCEPT ![c] = [caller[c] EXCEPT !.index = i - 1, !.err = "error"]]
  <2> DEFINE q == [caller[c] EXCEPT !.index = i - 1, !.err = "error"]
  <2>1. q \in CallerState /\ q.pc = caller[c].pc /\ q.index = i - 1 /\ q.err = "error"
    BY <1>1, <1>5 DEF CallerState, Result
  <2>2. caller' = [caller EXCEPT ![c] = q] /\ refusals' \in 0 .. MaxRefusals
    BY <1>1, <1>9
  <2> HIDE DEF i, q
  <2>3. QED
    BY <1>1, <1>2, <1>6, <1>9, <2>1, <2>2
<1>10. QED
  BY <1>7, <1>8, <1>9 DEF CloseComponent

\* An attempt that was refused nothing has closed everything.
LEMMA CloseEndsStep ==
    ASSUME LifecycleInv, NEW c \in Caller, CloseEnds(c)
    PROVE  LifecycleInv'
<1> DEFINE k == [coord EXCEPT !.closed = AllClosed, !.closing = FALSE, !.closeErr = caller[c].err,
                              !.attemptErr[caller[c].attempt] = caller[c].err]
           q == [caller[c] EXCEPT !.pc = "idle", !.result = caller[c].err]
<1>1. /\ caller[c] \in CallerState /\ coord \in Coordinator /\ Flags(coord, component)
      /\ Holds(caller[c], coord, component) /\ component \in [Component -> ComponentState]
      /\ caller[c].err \in Result /\ caller[c].attempt \in Attempt
      /\ coord.startedCount \in 0 .. Components /\ Components \in Nat
      /\ calls \in 0 .. MaxCalls /\ refusals \in 0 .. MaxRefusals
      /\ coord.attempt \in Nat /\ MaxCalls \in Nat
  BY CallerTyped
<1>2. caller[c].pc = "close" /\ caller[c].index = 0
  BY DEF CloseEnds, CallerAt
<1>3. coord' = k /\ caller' = [caller EXCEPT ![c] = q] /\ UNCHANGED <<component, calls, refusals>>
  BY DEF CloseEnds, Return
<1>4. coord.closing
  BY <1>1, <1>2 DEF Holds
<1>5. ~coord.starting /\ ~coord.closed /\ \A a \in Attempt : coord.attemptErr[a] # "ok"
  BY <1>1, <1>4 DEF Flags
<1>6. AllClosed \in BOOLEAN /\ (caller[c].err = "ok" => AllClosed)
  <2>1. ASSUME caller[c].err = "ok", NEW j \in 1 .. coord.startedCount
        PROVE  j \in coord.componentClosed
    <3>1. j \in Component /\ j > caller[c].index /\ j <= coord.startedCount
      BY <1>1, <1>2 DEF Component
    <3>2. QED
      BY <1>1, <1>2, <2>1, <3>1 DEF Holds
  <2>2. QED
    BY <2>1 DEF AllClosed
<1>7. AllClosed => \A j \in Component : Quiet(component[j])
  <2> SUFFICES ASSUME AllClosed, NEW j \in Component
               PROVE  Quiet(component[j])
    OBVIOUS
  <2>1. CASE j > coord.startedCount
    BY <1>1, <2>1 DEF Flags, Quiet
  <2>2. CASE ~(j > coord.startedCount)
    <3>1. j \in 1 .. coord.startedCount
      BY <1>1, <2>2 DEF Component
    <3>2. j \in coord.componentClosed
      BY <3>1 DEF AllClosed
    <3>3. QED
      BY <1>1, <3>2 DEF Flags, Quiet
  <2>3. QED
    BY <2>1, <2>2
<1>8. /\ k \in Coordinator /\ k.starting = coord.starting /\ k.startedCount = coord.startedCount
      /\ k.started = coord.started /\ k.registered = coord.registered /\ ~k.closing
      /\ k.closed = AllClosed /\ k.componentClosed = coord.componentClosed
      /\ k.closeErr = caller[c].err /\ k.attempt = coord.attempt
      /\ \A a \in Attempt :
           k.attemptErr[a] = IF a = caller[c].attempt THEN caller[c].err ELSE coord.attemptErr[a]
  <2> DEFINE done == [coord.attemptErr EXCEPT ![caller[c].attempt] = caller[c].err]
             whole == AllClosed
  <2>1. done \in [Attempt -> Result]
        /\ \A a \in Attempt : done[a] = IF a = caller[c].attempt THEN caller[c].err ELSE coord.attemptErr[a]
    BY <1>1 DEF Coordinator
  <2>2. k = [coord EXCEPT !.closed = whole, !.closing = FALSE, !.closeErr = caller[c].err, !.attemptErr = done]
    BY <1>1 DEF Coordinator
  <2>3. whole \in BOOLEAN
    BY <1>6
  <2> HIDE DEF done, whole, k
  <2>4. QED
    BY <1>1, <2>1, <2>2, <2>3 DEF Coordinator, whole
<1>9. q \in CallerState /\ q.pc = "idle" /\ q.result = caller[c].err
  BY <1>1 DEF CallerState
<1> HIDE DEF k, q
<1>10. Flags(k, component)
  <2>1. k.starting => FALSE
    BY <1>5, <1>8
  <2>2. k.closed /\ k.closeErr = "ok" => \A j \in Component : Quiet(component[j])
    BY <1>7, <1>8
  <2>3. \A a \in Attempt : k.attemptErr[a] = "ok" => k.closed /\ k.closeErr = "ok"
    BY <1>5, <1>6, <1>8
  <2>4. QED
    BY <1>1, <1>8, <2>1, <2>2, <2>3 DEF Flags
<1>11. Holds(q, k, component)
  BY <1>6, <1>8, <1>9 DEF Holds
<1>12. caller[c].pc \in Callback /\ (coord.closed /\ coord.closeErr = "ok" => k.closed /\ k.closeErr = "ok")
  BY <1>2, <1>5 DEF Callback
<1>13. \A d \in Caller \ {c} : caller[d].pc \notin Callback /\ Holds(caller[d], k, component)
  BY <1>12, OthersStay
<1>14. k.attempt + calls' + (IF q.pc = "enter" THEN 1 ELSE 0)
         <= coord.attempt + calls + (IF caller[c].pc = "enter" THEN 1 ELSE 0)
  BY <1>1, <1>2, <1>3, <1>8, <1>9
<1>15. QED
  BY <1>1, <1>3, <1>8, <1>9, <1>10, <1>11, <1>13, <1>14, CallerStep

-----------------------------------------------------------------------------
(* The lifecycle coordinator: the theorems                                 *)

LEMMA LifecycleStarts == LifecycleInit => LifecycleInv
<1> SUFFICES ASSUME LifecycleInit
             PROVE  LifecycleInv
  OBVIOUS
<1> DEFINE k == [registered |-> 0, startedCount |-> 0,
                 started |-> FALSE, starting |-> FALSE, closing |-> FALSE, closed |-> FALSE,
                 componentClosed |-> {}, attempt |-> 0,
                 attemptErr |-> [a \in Attempt |-> "none"], closeErr |-> "ok"]
           q == [pc |-> "idle", index |-> 0, attempt |-> 0, err |-> "ok", call |-> "none", result |-> "none"]
<1>1. coord = k /\ caller = [c \in Caller |-> q] /\ component = [i \in Component |-> "idle"]
      /\ calls = MaxCalls /\ refusals = MaxRefusals
  BY DEF LifecycleInit
<1>2. /\ MaxCalls \in Nat /\ MaxRefusals \in Nat /\ Components \in Nat /\ 0 \in Attempt
      /\ 0 \in 0 .. Components /\ 0 \in 0 .. Components + 1
      /\ "none" \in Result /\ "ok" \in Result /\ "idle" \in ComponentState
  BY LifecycleBounds DEF Attempt, Result, ComponentState
<1>3. k \in Coordinator
  BY <1>2 DEF Coordinator
<1>4. q \in CallerState
  BY <1>2 DEF CallerState
<1>5. LifecycleTypeOK
  BY <1>1, <1>2, <1>3, <1>4 DEF LifecycleTypeOK
<1>6. Flags(coord, component)
  BY <1>1, <1>2 DEF Flags, Quiet
<1>7. \A c \in Caller : Holds(caller[c], coord, component)
  BY <1>1 DEF Holds
<1>8. OneCallback
  BY <1>1 DEF OneCallback
<1>9. AttemptsCounted
  <2>1. Entering = {}
    BY <1>1 DEF Entering
  <2>2. QED
    BY <1>1, <1>2, <2>1, FS_EmptySet DEF AttemptsCounted
<1>10. QED
  BY <1>5, <1>6, <1>7, <1>8, <1>9 DEF LifecycleInv

LEMMA LifecycleStep == LifecycleInv /\ [LifecycleNext]_lifecycleVars => LifecycleInv'
<1> SUFFICES ASSUME LifecycleInv, [LifecycleNext]_lifecycleVars
             PROVE  LifecycleInv'
  OBVIOUS
<1>1. CASE UNCHANGED lifecycleVars
  BY <1>1 DEF lifecycleVars, LifecycleInv, LifecycleTypeOK, Flags, Holds, OneCallback, AttemptsCounted, Entering
<1>2. CASE Add
  BY <1>2, AddStep
<1>3. ASSUME NEW c \in Caller, LifecycleCall(c)
      PROVE  LifecycleInv'
  BY <1>3, StartRefusedStep, StartBeginsStep, CallStep DEF LifecycleCall
<1>4. ASSUME NEW c \in Caller, StartStep(c)
      PROVE  LifecycleInv'
  BY <1>4, ComponentStartsStep, ComponentFailsStep, StartEndsStep, RollbackComponentStep, RollbackEndsStep
     DEF StartStep
<1>5. ASSUME NEW c \in Caller, CloseStep(c) \/ WaitEnds(c) \/ ContextEnds(c)
      PROVE  LifecycleInv'
  BY <1>5, JoinReturnsStep, JoinAttemptStep, CloseBeginsStep, CloseComponentStep, CloseEndsStep DEF CloseStep
<1>6. QED
  BY <1>1, <1>2, <1>3, <1>4, <1>5 DEF LifecycleNext

\* What is closed in a step is what the goroutine in a callback is at, and
\* what was started after it is closed or has refused.
LEMMA ClosesInReverse ==
    ASSUME LifecycleInv, LifecycleNext, NEW c \in Caller, NEW i \in Component,
           component[i] \in {"up", "broken"}, component'[i] = "down", caller[c].pc \in {"rollback", "close"}
    PROVE  \A j \in Component : j > i /\ component[j] \in {"up", "broken"} => caller[c].err = "error"
<1>1. /\ Holds(caller[c], coord, component) /\ Flags(coord, component)
      /\ component \in [Component -> ComponentState]
      /\ caller[c].index \in 0 .. Components + 1 /\ Components \in Nat
      /\ coord.startedCount \in 0 .. Components
  BY CallerTyped
<1>2. PICK d \in Caller :
        /\ caller[d].pc \in {"rollback", "close"}
        /\ component' = [component EXCEPT ![caller[d].index] = "down"]
  <2>1. component' # component
    OBVIOUS
  <2>2. \A d \in Caller : ~ComponentStarts(d) /\ ~ComponentFails(d)
    <3> SUFFICES ASSUME NEW d \in Caller, ComponentStarts(d) \/ ComponentFails(d)
                 PROVE  FALSE
      OBVIOUS
    <3>1. component' = [component EXCEPT ![caller[d].index] = "up"]
          \/ component' = [component EXCEPT ![caller[d].index] = "broken"]
      BY DEF ComponentStarts, ComponentFails
    <3>2. QED
      BY <1>1, <3>1
  <2>3. \E d \in Caller : RollbackComponent(d) \/ CloseComponent(d)
    BY <2>1, <2>2 DEF LifecycleNext, Add, LifecycleCall, StartRefused, StartBegins, CallClose, CallWait,
       StartStep, StartEnds, RollbackEnds, CloseStep, CloseAgain, JoinAttempt, CloseBegins, CloseEnds,
       JoinEnds, WaitEnds, ContextEnds
  <2>4. QED
    BY <2>1, <2>3 DEF RollbackComponent, CloseComponent, CallerAt
<1>3. d = c
  BY <1>2 DEF LifecycleInv, OneCallback
<1>4. caller[c].index = i
  BY <1>1, <1>2, <1>3
<1>5. SUFFICES ASSUME NEW j \in Component, j > i, component[j] \in {"up", "broken"}, caller[c].err # "error"
               PROVE  FALSE
  OBVIOUS
<1>6. CASE caller[c].pc = "rollback"
  BY <1>1, <1>4, <1>5, <1>6 DEF Holds, Quiet
<1>7. CASE caller[c].pc = "close"
  <2>1. j <= coord.startedCount
    BY <1>1, <1>5 DEF Flags, Component
  <2>2. j \in coord.componentClosed
    BY <1>1, <1>4, <1>5, <1>7, <2>1 DEF Holds
  <2>3. QED
    BY <1>1, <1>5, <2>2 DEF Flags
<1>8. QED
  BY <1>6, <1>7

\* The invariant of the coordinator.
THEOREM LifecycleInvariant == LifecycleSpec => []LifecycleInv
<1>1. QED
  BY LifecycleStarts, LifecycleStep, PTL DEF LifecycleSpec

\* The coordinator's fields and the calls are well formed; in particular every
\* attempt to close has a done channel of its own (closeAttempt).
THEOREM LifecycleTypes == LifecycleSpec => []LifecycleTypeOK
<1>1. LifecycleInv => LifecycleTypeOK
  BY DEF LifecycleInv
<1>2. QED
  BY <1>1, LifecycleInvariant, PTL

\* Callbacks of components never overlap, a Close that returned without an
\* error leaves nothing running, and every attempt closes in reverse order,
\* however many goroutines call and whatever components refuse.
THEOREM LifecycleKept == LifecycleSpec => LifecycleSafe
<1>1. LifecycleInv => OneCallback /\ ClosedMeansDown
  BY DEF LifecycleInv, Flags, Holds, Quiet, ClosedMeansDown, CallerAt
<1>2. LifecycleInv /\ [LifecycleNext]_lifecycleVars =>
        [\A c \in Caller, i \in Component :
          /\ component[i] \in {"up", "broken"} /\ component'[i] = "down" /\ caller[c].pc \in {"rollback", "close"}
          => \A j \in Component : j > i /\ component[j] \in {"up", "broken"} =>
               caller[c].err = "error"]_lifecycleVars
  BY ClosesInReverse
<1>3. QED
  BY <1>1, <1>2, LifecycleInvariant, PTL DEF LifecycleSpec, LifecycleSafe, ReverseOrder

-----------------------------------------------------------------------------
(* One order and its writers: the invariant                                *)

StoredStatus == OrderStatus \ {"unknown"}

OrderRecord == [owner: Account \cup {"none"}, status: OrderStatus, version: Nat,
                deleted: BOOLEAN, shipped: BOOLEAN, touched: BOOLEAN]
Cookie == [login: Nat, renewal: Nat]

WriterPc == {"idle", "load", "fetch", "relock", "own", "move", "insert", "read", "write", "missing",
             "consign", "record", "resolve", "done"}
WriterState == [pc: WriterPc, account: Account, credential: Cookie,
                snapshot: OrderStatus \cup {"absent"}, age: Nat, renewed: BOOLEAN, failed: BOOLEAN,
                read: OrderRecord, tries: Nat, again: BOOLEAN]

PlatformOrder == [status: StoredStatus \cup {"absent"}, age: Nat]

\* Where each writer can be.
Upserting == {"idle", "insert", "read", "write", "done"}
Places(w, pc) ==
    /\ w \in Sync => pc \notin {"consign", "record", "resolve"}
    /\ w = "detail" => pc \in Upserting \cup {"load", "fetch", "relock"}
    /\ w = "event" => pc \in Upserting
    /\ w = "ship" => pc \in Upserting \cup {"consign", "record"}
    /\ w = "repair" => pc \in Upserting \cup {"resolve"}

\* What writer w in state p knows of the row; unless somebody has written it
\* since, it still has the status that was read, or the user has edited it.
KnowsRow(p, row, edited) ==
    /\ p.pc \in {"move", "insert", "read", "write"} => p.snapshot # "absent"
    /\ p.pc = "write" =>
         /\ row.owner # "none"
         /\ p.read.version <= row.version
         /\ p.read.version = row.version /\ ~edited => p.read.status = row.status

\* A synchronisation holds the lock while it commits, and the one that may
\* commit has read its snapshot after the last that was accepted.
KnowsAccount(w, p, lock, latest, accepted) ==
    /\ w \in Sync => (lock = w <=> p.pc \in Committing)
    /\ w \in Sync /\ latest = w /\ p.pc = "relock" => accepted <= p.age

\* The one shipment, and the scan that repairs what it could not store.
KnowsShipment(w, p, row, record, sent) ==
    /\ w = "ship" =>
         /\ p.pc \in {"idle", "consign"} => sent # "confirmed"
         /\ p.pc # "done" => record = "none"
         /\ p.pc = "done" /\ sent = "confirmed" => row.shipped \/ record = "pending"
    /\ w = "repair" =>
         /\ p.pc \in {"insert", "read", "write", "resolve"} => record = "pending"
         /\ p.pc = "resolve" /\ sent = "confirmed" => row.shipped

Knows(w, p, row, edited, lock, latest, accepted, record, sent, now) ==
    /\ Places(w, p.pc)
    /\ KnowsRow(p, row, edited)
    /\ KnowsAccount(w, p, lock, latest, accepted)
    /\ KnowsShipment(w, p, row, record, sent)
    /\ p.age <= now

\* What is true of the order whoever writes it.
Shared ==
    /\ platformOrder \in PlatformOrder /\ past \subseteq StoredStatus
    /\ orderRow \in OrderRecord /\ (orderRow.owner = "none" => orderRow = NoOrder)
    /\ credential \in Cookie
    /\ credentialLock \in Sync \cup {NoWriter} /\ generation \in Sync \cup {NoWriter}
    /\ reconciliation \in {"none", "pending", "resolved"}
    /\ synced \in Nat /\ synced <= platformOrder.age
    /\ orderEdited \in BOOLEAN /\ starts \in Nat /\ orderEnv \in Nat
    /\ shipment \in {"none", "confirmed", "lost", "unmarked"}

OrderInv ==
    /\ Shared
    /\ orderWriter \in [OrderWriter -> WriterState]
    /\ \A w \in OrderWriter :
         Knows(w, orderWriter[w], orderRow, orderEdited, credentialLock, generation, synced, reconciliation,
          shipment, platformOrder.age)

-----------------------------------------------------------------------------
(* One order and its writers: types and the step of one writer             *)

LEMMA RestingType ==
    /\ Resting \in WriterState /\ Resting.pc = "idle" /\ Resting.snapshot = "absent"
    /\ Resting.age = 0 /\ NoOrder \in OrderRecord
BY DEF Resting, WriterState, WriterPc, Account, Loaded, Cookie, NoOrder, OrderRecord, OrderStatus

\* A writer at rest, with another place and snapshot.
LEMMA RestedType ==
    ASSUME NEW pc \in WriterPc, NEW snapshot \in OrderStatus \cup {"absent"}
    PROVE  /\ [Resting EXCEPT !.pc = pc, !.snapshot = snapshot] \in WriterState
           /\ [Resting EXCEPT !.pc = pc, !.snapshot = snapshot].pc = pc
           /\ [Resting EXCEPT !.pc = pc, !.snapshot = snapshot].age = 0
           /\ [Resting EXCEPT !.pc = pc, !.snapshot = snapshot].snapshot = snapshot
BY RestingType DEF WriterState

\* A writer that only changes its place, outside and inside the commit.
LEMMA PlaceType ==
    ASSUME NEW p \in WriterState, NEW pc \in WriterPc
    PROVE  /\ [p EXCEPT !.pc = pc] \in WriterState
           /\ [p EXCEPT !.pc = pc].pc = pc
           /\ [p EXCEPT !.pc = pc].snapshot = p.snapshot
           /\ [p EXCEPT !.pc = pc].age = p.age
           /\ [p EXCEPT !.pc = pc].read = p.read
BY DEF WriterState

LEMMA WriterEndedType == WriterEnded \in WriterState /\ WriterEnded.pc = "done" /\ WriterEnded.age = 0
<1>1. "done" \in WriterPc
  BY DEF WriterPc
<1>2. QED
  BY <1>1, RestingType, PlaceType DEF WriterEnded

\* How a step may change the row: it never disappears, a status that was read
\* stays current while the version does, unless the user edits it, and the
\* mark of a confirmed shipment stays, unless the user takes it away.
Grows(row, row2, edited, edited2, sent2) ==
    /\ row.version <= row2.version
    /\ row.owner # "none" => row2.owner # "none"
    /\ row.owner # "none" /\ row2.version = row.version /\ ~edited2 => row2.status = row.status
    /\ row.shipped /\ sent2 = "confirmed" => row2.shipped
    /\ edited => edited2

\* What the step of one writer leaves to another writer v.
Leaves(v, row2, lock2, latest2, accepted2, record2, sent2) ==
    /\ v \in Sync => (lock2 = v <=> credentialLock = v)
    /\ v \in Sync /\ latest2 = v => generation = v /\ accepted2 = synced
    /\ \/ record2 = reconciliation
       \/ v # "ship" /\ reconciliation # "pending"
       \/ v # "repair" /\ reconciliation = "pending" /\ (row2.shipped \/ sent2 # "confirmed")
    /\ sent2 = "confirmed" => shipment = "confirmed" \/ (v # "ship" /\ reconciliation # "pending")

\* A step that one writer takes keeps what every other writer knows.
LEMMA OtherWriter ==
    ASSUME OrderInv, NEW v \in OrderWriter, NEW p \in WriterState, p = orderWriter[v],
           NEW row2 \in OrderRecord, NEW edited2 \in BOOLEAN, NEW lock2, NEW latest2, NEW accepted2, NEW record2,
           NEW sent2, NEW now2 \in Nat, platformOrder.age <= now2,
           Grows(orderRow, row2, orderEdited, edited2, sent2),
           Leaves(v, row2, lock2, latest2, accepted2, record2, sent2)
    PROVE  Knows(v, p, row2, edited2, lock2, latest2, accepted2, record2, sent2, now2)
<1>1. Knows(v, p, orderRow, orderEdited, credentialLock, generation, synced, reconciliation,
          shipment, platformOrder.age)
  BY DEF OrderInv
<1>2. orderRow \in OrderRecord /\ orderEdited \in BOOLEAN
  BY DEF OrderInv, Shared
<1>3. p.read.version \in Nat /\ orderRow.version \in Nat /\ row2.version \in Nat
  BY <1>2 DEF WriterState, OrderRecord
<1>4. Places(v, p.pc)
  BY <1>1 DEF Knows
<1>5. KnowsRow(p, row2, edited2)
  BY <1>1, <1>2, <1>3 DEF Knows, KnowsRow, Grows
<1>6. KnowsAccount(v, p, lock2, latest2, accepted2)
  BY <1>1 DEF Knows, KnowsAccount, Leaves
<1>7. KnowsShipment(v, p, row2, record2, sent2)
  <2>1. /\ orderRow.shipped /\ sent2 = "confirmed" => row2.shipped
        /\ sent2 = "confirmed" => shipment = "confirmed" \/ (v # "ship" /\ reconciliation # "pending")
    BY DEF Grows, Leaves
  <2>2. CASE record2 = reconciliation
    BY <1>1, <2>1, <2>2 DEF Knows, KnowsShipment
  <2>3. CASE v # "ship" /\ reconciliation # "pending"
    BY <1>1, <1>4, <2>1, <2>3 DEF Knows, KnowsShipment, Places, Upserting
  <2>4. CASE v # "repair" /\ reconciliation = "pending" /\ (row2.shipped \/ sent2 # "confirmed")
    BY <1>1, <1>4, <2>1, <2>4 DEF Knows, KnowsShipment, Places, Upserting
  <2>5. QED
    BY <2>2, <2>3, <2>4 DEF Leaves
<1>8. p.age <= now2
  BY <1>1 DEF Knows, WriterState, OrderInv, Shared, PlatformOrder
<1>9. QED
  BY <1>4, <1>5, <1>6, <1>7, <1>8 DEF Knows

\* The step of writer w, which is p afterwards.
LEMMA WriterStep ==
    ASSUME OrderInv, Shared', NEW w \in OrderWriter, NEW p \in WriterState,
           orderWriter' = [orderWriter EXCEPT ![w] = p],
           platformOrder.age <= platformOrder'.age,
           Grows(orderRow, orderRow', orderEdited, orderEdited', shipment'),
           \A v \in OrderWriter \ {w} :
              Leaves(v, orderRow', credentialLock', generation', synced', reconciliation', shipment'),
           Knows(w, p, orderRow', orderEdited', credentialLock', generation', synced', reconciliation',
                   shipment', platformOrder'.age)
    PROVE  OrderInv'
<1>1. orderWriter \in [OrderWriter -> WriterState]
  BY DEF OrderInv
<1>2. orderWriter' \in [OrderWriter -> WriterState]
  BY <1>1
<1>3. orderRow' \in OrderRecord /\ orderEdited' \in BOOLEAN /\ platformOrder'.age \in Nat
  BY DEF Shared, PlatformOrder
<1>4. ASSUME NEW v \in OrderWriter
      PROVE  Knows(v, orderWriter'[v], orderRow', orderEdited', credentialLock', generation', synced',
                   reconciliation',
                   shipment', platformOrder'.age)
  <2>1. CASE v = w
    BY <1>1, <2>1
  <2>2. CASE v # w
    <3>1. orderWriter'[v] = orderWriter[v] /\ orderWriter[v] \in WriterState
      BY <1>1, <2>2
    <3>2. Leaves(v, orderRow', credentialLock', generation', synced', reconciliation', shipment')
      BY <2>2
    <3>3. QED
      BY <1>3, <3>1, <3>2, OtherWriter
  <2>3. QED
    BY <2>1, <2>2
<1>5. QED
  BY <1>2, <1>4 DEF OrderInv

\* What the properties say of one step.
NotBack ==
    \/ orderRow.owner = "none" \/ orderEdited'
    \/ orderRow'.status = StatusAfter(orderRow.status, orderRow'.status)
StaysWith ==
    orderRow.shipped \/ orderRow.touched \/ reconciliation = "pending"
      => orderRow.owner \in {"none", orderRow'.owner}
KeepsLogin ==
    /\ credential'.login >= credential.login
    /\ credential'.login = credential.login => credential'.renewal >= credential.renewal
StepSafe == NotBack /\ StaysWith /\ synced' >= synced /\ KeepsLogin

LEMMA SameRowSafe ==
    ASSUME OrderInv, orderRow' = orderRow, synced' >= synced, KeepsLogin
    PROVE  StepSafe
BY DEF StepSafe, NotBack, StaysWith, StatusAfter

LEMMA SameCookie ==
    ASSUME OrderInv, credential' = credential
    PROVE  KeepsLogin
BY DEF OrderInv, Shared, Cookie, KeepsLogin

\* A step in which writer w neither writes the row nor takes or leaves a lock.
LEMMA QuietStep ==
    ASSUME OrderInv, NEW w \in OrderWriter, NEW p \in WriterState,
           orderWriter' = [orderWriter EXCEPT ![w] = p],
           UNCHANGED <<platformOrder, past, orderRow, credential, credentialLock, reconciliation, synced,
                       orderEdited, shipment>>,
           starts' \in Nat, orderEnv' \in Nat,
           generation' = generation \/ (w \in Sync /\ generation' = w),
           Knows(w, p, orderRow, orderEdited, credentialLock, generation', synced, reconciliation,
          shipment, platformOrder.age)
    PROVE  OrderInv' /\ StepSafe
<1>1. Shared
  BY DEF OrderInv
<1>2. Shared'
  BY <1>1 DEF Shared
<1>3. Grows(orderRow, orderRow', orderEdited, orderEdited', shipment')
  BY <1>1 DEF Shared, OrderRecord, Grows
<1>4. ASSUME NEW v \in OrderWriter \ {w}
      PROVE  Leaves(v, orderRow', credentialLock', generation', synced', reconciliation', shipment')
  BY DEF Leaves
<1>5. synced' >= synced /\ platformOrder.age <= platformOrder'.age
  BY <1>1 DEF Shared, PlatformOrder
<1>6. OrderInv'
  BY <1>2, <1>3, <1>4, <1>5, WriterStep
<1>7. QED
  BY <1>5, <1>6, SameCookie, SameRowSafe

\* The end of a writer's call, whatever it has done to the row.
LEMMA EndsStep ==
    ASSUME OrderInv, NEW w \in OrderWriter, Ends(w),
           UNCHANGED <<platformOrder, past, reconciliation, synced, shipment>>,
           starts' \in Nat, orderEnv' \in Nat, orderEdited' \in BOOLEAN,
           credential' \in Cookie,
           orderRow' \in OrderRecord, orderRow'.owner = "none" => orderRow' = NoOrder,
           Grows(orderRow, orderRow', orderEdited, orderEdited', shipment'),
           w = "ship" => orderRow'.shipped
    PROVE  OrderInv'
<1> DEFINE p == WriterEnded
<1>1. Shared /\ orderWriter \in [OrderWriter -> WriterState]
  BY DEF OrderInv
<1>2. p \in WriterState /\ p.pc = "done" /\ p.age = 0
  BY WriterEndedType
<1>3. orderWriter' = [orderWriter EXCEPT ![w] = p]
  BY DEF Ends
<1> HIDE DEF p
<1>4. /\ credentialLock' = IF credentialLock = w THEN NoWriter ELSE credentialLock
      /\ generation' = IF generation = w THEN NoWriter ELSE generation
  BY DEF Ends, LockAfter, GenerationAfter
<1>5. NoWriter \notin Sync
  BY SyncAssumption
<1>6. Shared'
  BY <1>1, <1>4 DEF Shared, Grows
<1>7. ASSUME NEW v \in OrderWriter \ {w}
      PROVE  Leaves(v, orderRow', credentialLock', generation', synced', reconciliation', shipment')
  BY <1>4, <1>5 DEF Leaves
<1>8. Places(w, p.pc)
  BY <1>2 DEF Places, Upserting
<1>9. KnowsRow(p, orderRow', orderEdited')
  BY <1>2 DEF KnowsRow
<1>10. KnowsAccount(w, p, credentialLock', generation', synced')
  BY <1>2, <1>4, <1>5 DEF KnowsAccount, Committing
<1>11. KnowsShipment(w, p, orderRow', reconciliation', shipment')
  BY <1>2 DEF KnowsShipment
<1>12. p.age <= platformOrder'.age /\ platformOrder.age <= platformOrder'.age
  BY <1>1, <1>2 DEF Shared, PlatformOrder
<1>13. Knows(w, p, orderRow', orderEdited', credentialLock', generation', synced', reconciliation',
                   shipment', platformOrder'.age)
  BY <1>8, <1>9, <1>10, <1>11, <1>12 DEF Knows
<1>14. QED
  BY <1>2, <1>3, <1>6, <1>7, <1>12, <1>13, WriterStep

\* The same when the row and the credential stay.
LEMMA EndsQuietly ==
    ASSUME OrderInv, NEW w \in OrderWriter, Ends(w),
           UNCHANGED <<platformOrder, past, orderRow, reconciliation, synced, orderEdited, shipment>>,
           starts' \in Nat, orderEnv' \in Nat,
           credential' \in Cookie, KeepsLogin,
           w # "ship"
    PROVE  OrderInv' /\ StepSafe
<1>1. Shared
  BY DEF OrderInv
<1>2. Grows(orderRow, orderRow', orderEdited, orderEdited', shipment')
  BY <1>1 DEF Shared, OrderRecord, Grows
<1>3. OrderInv'
  BY <1>1, <1>2, EndsStep DEF Shared
<1>4. synced' >= synced
  BY <1>1 DEF Shared
<1>5. QED
  BY <1>3, <1>4, SameRowSafe

-----------------------------------------------------------------------------
(* One order and its writers: the platform reads                           *)

LEMMA BeginDiscoveryStep ==
    ASSUME OrderInv, NEW s \in Sync, BeginDiscovery(s)
    PROVE  OrderInv' /\ StepSafe
<1> DEFINE p == [orderWriter[s] EXCEPT !.pc = "load"]
<1>1. Shared /\ orderWriter \in [OrderWriter -> WriterState] /\ s \in OrderWriter
  BY DEF OrderInv, OrderWriter
<1>2. Knows(s, orderWriter[s], orderRow, orderEdited, credentialLock, generation, synced, reconciliation,
          shipment, platformOrder.age)
  BY <1>1 DEF OrderInv
<1>3. orderWriter[s] \in WriterState /\ orderWriter[s].pc = "idle" /\ "load" \in WriterPc
  BY <1>1 DEF BeginDiscovery, WriterAt, WriterPc
<1>4. p \in WriterState /\ p.pc = "load" /\ p.age = orderWriter[s].age
  BY <1>3, PlaceType
<1>5. orderWriter' = [orderWriter EXCEPT ![s] = p]
  BY DEF BeginDiscovery, WriterTo
<1> HIDE DEF p
<1>6. s \notin {"detail", "event", "ship", "repair"}
  BY SyncAssumption
<1>7. Knows(s, p, orderRow, orderEdited, credentialLock, generation', synced, reconciliation,
          shipment, platformOrder.age)
  BY <1>2, <1>3, <1>4, <1>6
     DEF Knows, Places, KnowsRow, KnowsAccount, KnowsShipment, Committing
<1>8. starts' \in Nat /\ orderEnv' \in Nat
  BY <1>1 DEF BeginDiscovery, Starts, Shared
<1>9. QED
  BY <1>1, <1>4, <1>5, <1>7, <1>8, QuietStep DEF BeginDiscovery

LEMMA BeginDetailStep ==
    ASSUME OrderInv, BeginDetail
    PROVE  OrderInv' /\ StepSafe
<1> DEFINE p == [orderWriter["detail"] EXCEPT !.pc = "load", !.read = orderRow]
<1>1. Shared /\ orderWriter \in [OrderWriter -> WriterState] /\ "detail" \in OrderWriter
  BY DEF OrderInv, OrderWriter
<1>2. orderWriter["detail"] \in WriterState /\ orderRow \in OrderRecord /\ "load" \in WriterPc
  BY <1>1 DEF Shared, WriterPc
<1>3. p \in WriterState /\ p.pc = "load" /\ p.age = orderWriter["detail"].age
  BY <1>2 DEF WriterState
<1>4. orderWriter' = [orderWriter EXCEPT !["detail"] = p]
  BY <1>1 DEF BeginDetail
<1> HIDE DEF p
<1>5. "detail" \notin Sync /\ orderWriter["detail"].age <= platformOrder.age
  BY <1>1, SyncAssumption DEF OrderInv, Knows
<1>6. Knows("detail", p, orderRow, orderEdited, credentialLock, generation', synced, reconciliation,
          shipment, platformOrder.age)
  BY <1>3, <1>5 DEF Knows, Places, KnowsRow, KnowsAccount, KnowsShipment, Committing
<1>7. starts' \in Nat /\ orderEnv' \in Nat
  BY <1>1 DEF BeginDetail, Starts, Shared
<1>8. QED
  BY <1>1, <1>3, <1>4, <1>6, <1>7, QuietStep DEF BeginDetail

LEMMA LoadCredentialStep ==
    ASSUME OrderInv, NEW w \in Sync \cup {"detail"}, LoadCredential(w)
    PROVE  OrderInv' /\ StepSafe
<1> DEFINE p == [orderWriter[w] EXCEPT !.pc = "fetch", !.credential = credential]
<1>1. Shared /\ orderWriter \in [OrderWriter -> WriterState] /\ w \in OrderWriter
  BY DEF OrderInv, OrderWriter
<1>2. Knows(w, orderWriter[w], orderRow, orderEdited, credentialLock, generation, synced, reconciliation,
          shipment, platformOrder.age)
  BY <1>1 DEF OrderInv
<1>3. orderWriter[w] \in WriterState /\ orderWriter[w].pc = "load" /\ credential \in Cookie
      /\ "fetch" \in WriterPc
  BY <1>1 DEF LoadCredential, WriterAt, Shared, WriterPc
<1>4. p \in WriterState /\ p.pc = "fetch" /\ p.age = orderWriter[w].age
  BY <1>3 DEF WriterState
<1>5. orderWriter' = [orderWriter EXCEPT ![w] = p]
  BY <1>1 DEF LoadCredential
<1> HIDE DEF p
<1>6. w \notin {"event", "ship", "repair"}
  BY SyncAssumption
<1>7. Knows(w, p, orderRow, orderEdited, credentialLock, generation', synced, reconciliation,
          shipment, platformOrder.age)
  BY <1>2, <1>3, <1>4, <1>6
     DEF Knows, Places, KnowsRow, KnowsAccount, KnowsShipment, Committing
<1>8. starts' \in Nat /\ orderEnv' \in Nat
  BY <1>1 DEF LoadCredential, Shared
<1>9. QED
  BY <1>1, <1>4, <1>5, <1>7, <1>8, QuietStep DEF LoadCredential

LEMMA FetchOrdersStep ==
    ASSUME OrderInv, NEW w \in Sync \cup {"detail"}, FetchOrders(w)
    PROVE  OrderInv' /\ StepSafe
<1>1. Shared /\ orderWriter \in [OrderWriter -> WriterState] /\ w \in OrderWriter
  BY DEF OrderInv, OrderWriter
<1>2. Knows(w, orderWriter[w], orderRow, orderEdited, credentialLock, generation, synced, reconciliation,
          shipment, platformOrder.age)
  BY <1>1 DEF OrderInv
<1>3. PICK failed \in BOOLEAN, renewed \in BOOLEAN :
          /\ orderWriter' = [orderWriter EXCEPT
                 ![w].pc = "relock", ![w].snapshot = platformOrder.status,
                 ![w].age = platformOrder.age, ![w].renewed = renewed, ![w].failed = failed]
          /\ IF failed THEN Spends ELSE UNCHANGED orderEnv
  BY DEF FetchOrders
<1> DEFINE p == [orderWriter[w] EXCEPT !.pc = "relock", !.snapshot = platformOrder.status,
                     !.age = platformOrder.age, !.renewed = renewed, !.failed = failed]
<1>4. /\ orderWriter[w] \in WriterState /\ orderWriter[w].pc = "fetch" /\ "relock" \in WriterPc
      /\ platformOrder.status \in OrderStatus \cup {"absent"} /\ platformOrder.age \in Nat
  BY <1>1 DEF FetchOrders, WriterAt, Shared, WriterPc, PlatformOrder, StoredStatus
<1>5. p \in WriterState /\ p.pc = "relock" /\ p.age = platformOrder.age
  BY <1>4 DEF WriterState
<1>6. orderWriter' = [orderWriter EXCEPT ![w] = p]
  BY <1>1, <1>3
<1> HIDE DEF p
<1>7. w \notin {"event", "ship", "repair"}
  BY SyncAssumption
<1>8. Knows(w, p, orderRow, orderEdited, credentialLock, generation', synced, reconciliation,
          shipment, platformOrder.age)
  <2>1. synced <= p.age /\ p.age <= platformOrder.age
    BY <1>1, <1>5 DEF Shared, PlatformOrder
  <2>2. QED
    BY <1>2, <1>4, <1>5, <1>7, <2>1
       DEF Knows, Places, KnowsRow, KnowsAccount, KnowsShipment, Committing
<1>9. starts' \in Nat /\ orderEnv' \in Nat
  BY <1>1, <1>3 DEF FetchOrders, Shared, Spends
<1>10. QED
  BY <1>1, <1>5, <1>6, <1>8, <1>9, QuietStep DEF FetchOrders

LEMMA PersistedType ==
    ASSUME OrderInv, NEW w \in OrderWriter, credential' = Persisted(w), Unchanged(w)
    PROVE  credential' \in Cookie /\ KeepsLogin
<1>1. credential \in Cookie
  BY DEF OrderInv, Shared
<1>2. credential' = [credential EXCEPT !.renewal = @ + 1] \/ credential' = credential
  BY DEF Persisted, Unchanged
<1>3. QED
  BY <1>1, <1>2 DEF Cookie, KeepsLogin

\* The accepted snapshot of a synchronisation takes the lock, that of a
\* detail does not.
LEMMA AcceptFetchedStep ==
    ASSUME OrderInv, NEW w \in Sync \cup {"detail"}, AcceptFetched(w)
    PROVE  OrderInv' /\ StepSafe
<1>1. Shared /\ orderWriter \in [OrderWriter -> WriterState] /\ w \in OrderWriter
  BY DEF OrderInv, OrderWriter
<1>2. Knows(w, orderWriter[w], orderRow, orderEdited, credentialLock, generation, synced, reconciliation,
          shipment, platformOrder.age)
  BY <1>1 DEF OrderInv
<1>3. orderWriter[w] \in WriterState /\ orderWriter[w].pc = "relock"
  BY <1>1 DEF AcceptFetched, WriterAt
<1>4. w \notin {"event", "ship", "repair"} /\ "detail" \notin Sync /\ NoWriter \notin Sync
  BY SyncAssumption
<1>5. starts' \in Nat /\ orderEnv' \in Nat
  BY <1>1 DEF AcceptFetched, Shared
<1>6. CASE ~(StillCurrent(w) /\ Unchanged(w))
  <2>1. Ends(w) /\ credential' = credential
    BY <1>6 DEF AcceptFetched
  <2>2. QED
    BY <1>1, <1>4, <1>5, <1>6, <2>1, SameCookie, EndsQuietly DEF AcceptFetched, Shared
<1>7. CASE StillCurrent(w) /\ Unchanged(w)
  <2>1. credential' \in Cookie /\ KeepsLogin
    BY <1>1, <1>7, PersistedType DEF AcceptFetched
  <2> DEFINE Gone == orderWriter[w].failed \/ (w = "detail" /\ orderWriter[w].snapshot = "absent")
  <2>2. CASE Gone
    <3>1. Ends(w) /\ synced' = synced
      BY <1>7, <2>2 DEF AcceptFetched
    <3>2. QED
      BY <1>1, <1>4, <1>5, <2>1, <3>1, EndsQuietly DEF AcceptFetched
  <2>3. CASE ~Gone
    <3> DEFINE pc == IF w = "detail" THEN "insert" ELSE "own"
               p == [Resting EXCEPT !.pc = pc, !.snapshot = orderWriter[w].snapshot]
    <3>1. orderWriter[w].snapshot \in OrderStatus \cup {"absent"} /\ pc \in WriterPc
      BY <1>3 DEF WriterState, WriterPc
    <3>2. w = "detail" => orderWriter[w].snapshot # "absent"
      BY <2>3
    <3>3. orderWriter' = [orderWriter EXCEPT ![w] = p]
      BY <1>7, <2>3 DEF AcceptFetched, Accepted
    <3>4. /\ w = "detail" => UNCHANGED <<generation, credentialLock, synced>>
          /\ w # "detail" => credentialLock' = w /\ synced' = orderWriter[w].age /\ generation' = generation
      BY <1>7, <2>3 DEF AcceptFetched
    <3>5. (w = "detail" => pc = "insert") /\ (w # "detail" => pc = "own")
      OBVIOUS
    <3> HIDE DEF pc
    <3>6. p \in WriterState /\ p.pc = pc /\ p.age = 0 /\ p.snapshot = orderWriter[w].snapshot
      <4>1. PICK fetched \in OrderStatus \cup {"absent"} : fetched = orderWriter[w].snapshot
        BY <3>1
      <4>2. p = [Resting EXCEPT !.pc = pc, !.snapshot = fetched]
        BY <4>1
      <4> DEFINE q == [Resting EXCEPT !.pc = pc, !.snapshot = fetched]
      <4>3. q \in WriterState /\ q.pc = pc /\ q.age = 0 /\ q.snapshot = fetched
        BY <3>1, RestedType, ZenonT(30)
      <4> HIDE DEF p, q
      <4>4. QED
        BY <4>1, <4>2, <4>3 DEF q
    <3> HIDE DEF p
    <3>7. w # "detail" => generation = w /\ synced <= orderWriter[w].age /\ credentialLock = NoWriter
      BY <1>2, <1>3, <1>7 DEF StillCurrent, Knows, KnowsAccount, AcceptFetched, LockFree
    <3>8. orderWriter[w].age \in Nat /\ orderWriter[w].age <= platformOrder.age
      BY <1>2, <1>3 DEF Knows, WriterState
    <3>9. synced' \in Nat /\ synced' >= synced /\ synced' <= platformOrder.age
      BY <1>1, <3>4, <3>7, <3>8 DEF Shared
    <3>10. Shared'
      BY <1>1, <1>5, <2>1, <3>4, <3>9 DEF AcceptFetched, Shared
    <3>11. Grows(orderRow, orderRow', orderEdited, orderEdited', shipment') /\ platformOrder.age <= platformOrder'.age
      BY <1>1 DEF AcceptFetched, Shared, OrderRecord, PlatformOrder, Grows
    <3>12. ASSUME NEW v \in OrderWriter \ {w}
           PROVE  Leaves(v, orderRow', credentialLock', generation', synced', reconciliation', shipment')
      BY <1>4, <3>4, <3>7 DEF AcceptFetched, Leaves
    <3>13. Knows(w, p, orderRow', orderEdited', credentialLock', generation', synced', reconciliation',
                   shipment', platformOrder'.age)
      <4>1. Places(w, p.pc)
        BY <1>4, <3>5, <3>6 DEF Places, Upserting
      <4>2. KnowsRow(p, orderRow', orderEdited')
        BY <3>2, <3>5, <3>6 DEF KnowsRow
      <4>3. KnowsAccount(w, p, credentialLock', generation', synced')
        BY <1>4, <3>4, <3>5, <3>6 DEF KnowsAccount, Committing
      <4>4. KnowsShipment(w, p, orderRow', reconciliation', shipment')
        BY <1>4 DEF KnowsShipment
      <4>5. p.age <= platformOrder'.age
        BY <1>1, <3>6 DEF AcceptFetched, Shared, PlatformOrder
      <4>6. QED
        BY <4>1, <4>2, <4>3, <4>4, <4>5 DEF Knows
    <3>14. OrderInv'
      BY <1>1, <3>3, <3>6, <3>10, <3>11, <3>12, <3>13, WriterStep
    <3>15. QED
      BY <2>1, <3>9, <3>14, SameRowSafe DEF AcceptFetched
  <2>4. QED
    BY <2>2, <2>3
<1>8. QED
  BY <1>6, <1>7

\* A login replaces the credential and nothing else.
LEMMA LoginStep ==
    ASSUME OrderInv, Login
    PROVE  OrderInv' /\ StepSafe
<1>1. Shared
  BY DEF OrderInv
<1>2. credential' \in Cookie /\ KeepsLogin
  BY <1>1 DEF Login, Loaded, Shared, Cookie, KeepsLogin
<1>3. Shared'
  BY <1>1, <1>2 DEF Login, Spends, Shared
<1>4. OrderInv'
  BY <1>3 DEF Login, OrderInv
<1>5. synced' >= synced
  BY <1>1 DEF Login, Shared
<1>6. QED
  BY <1>2, <1>4, <1>5, SameRowSafe DEF Login

-----------------------------------------------------------------------------
(* One order and its writers: writing a snapshot                           *)

\* The account a row belongs to, in the order in which it is looked at.
LEMMA CheckOwnershipStep ==
    ASSUME OrderInv, NEW s \in Sync, CheckOwnership(s)
    PROVE  OrderInv' /\ StepSafe
<1>1. Shared /\ orderWriter \in [OrderWriter -> WriterState] /\ s \in OrderWriter
  BY DEF OrderInv, OrderWriter
<1>2. Knows(s, orderWriter[s], orderRow, orderEdited, credentialLock, generation, synced, reconciliation,
          shipment, platformOrder.age)
  BY <1>1 DEF OrderInv
<1>3. orderWriter[s] \in WriterState /\ orderWriter[s].pc = "own" /\ orderRow \in OrderRecord
  BY <1>1 DEF CheckOwnership, WriterAt, Shared
<1>4. starts' \in Nat /\ orderEnv' \in Nat /\ s \notin {"detail", "event", "ship", "repair"}
  BY <1>1, SyncAssumption DEF CheckOwnership, Shared
<1>5. ASSUME NEW pc \in {"missing", "insert", "move"},
             orderWriter' = [orderWriter EXCEPT ![s].pc = pc, ![s].read = orderRow],
             pc # "missing" => orderWriter[s].snapshot # "absent",
             UNCHANGED <<generation, credentialLock>>
      PROVE  OrderInv' /\ StepSafe
  <2> DEFINE p == [orderWriter[s] EXCEPT !.pc = pc, !.read = orderRow]
  <2>1. pc \in WriterPc
    BY DEF WriterPc
  <2>2. /\ p \in WriterState /\ p.pc = pc /\ p.age = orderWriter[s].age
        /\ p.snapshot = orderWriter[s].snapshot
    BY <1>3, <2>1 DEF WriterState
  <2>3. orderWriter' = [orderWriter EXCEPT ![s] = p]
    BY <1>1, <1>5
  <2> HIDE DEF p
  <2>4. Knows(s, p, orderRow, orderEdited, credentialLock, generation', synced, reconciliation,
          shipment, platformOrder.age)
    BY <1>2, <1>3, <1>4, <1>5, <2>2
       DEF Knows, Places, KnowsRow, KnowsAccount, KnowsShipment, Committing
  <2>5. QED
    BY <1>1, <1>4, <1>5, <2>2, <2>3, <2>4, QuietStep DEF CheckOwnership
<1>6. CASE Ends(s)
  <2>1. KeepsLogin /\ credential' \in Cookie
    BY <1>1, SameCookie DEF CheckOwnership, Shared
  <2>2. QED
    BY <1>1, <1>4, <1>6, <2>1, EndsQuietly DEF CheckOwnership
<1>7. QED
  BY <1>5, <1>6 DEF CheckOwnership

LEMMA StatusSettles ==
    ASSUME NEW current, NEW incoming
    PROVE  /\ StatusAfter(current, incoming) = StatusAfter(current, StatusAfter(current, incoming))
           /\ StatusAfter(current, current) = current
BY DEF StatusAfter

\* A step of a writer that changes the row, keeps the credential and the
\* order of snapshots, and goes on.
LEMMA RowStep ==
    ASSUME OrderInv, NEW w \in OrderWriter, NEW p \in WriterState,
           orderWriter' = [orderWriter EXCEPT ![w] = p],
           UNCHANGED <<platformOrder, past, credential, credentialLock, generation, reconciliation, synced,
                       orderEdited, shipment, starts, orderEnv>>,
           orderRow' \in OrderRecord, orderRow'.owner = "none" => orderRow' = NoOrder,
           Grows(orderRow, orderRow', orderEdited, orderEdited', shipment'), NotBack, StaysWith,
           Knows(w, p, orderRow', orderEdited, credentialLock, generation, synced, reconciliation,
          shipment, platformOrder.age)
    PROVE  OrderInv' /\ StepSafe
<1>1. Shared
  BY DEF OrderInv
<1>2. Shared'
  BY <1>1 DEF Shared, Grows
<1>3. ASSUME NEW v \in OrderWriter \ {w}
      PROVE  Leaves(v, orderRow', credentialLock', generation', synced', reconciliation', shipment')
  BY DEF Leaves
<1>4. synced' >= synced /\ platformOrder.age <= platformOrder'.age
  BY <1>1 DEF Shared, PlatformOrder
<1>5. OrderInv'
  BY <1>2, <1>3, <1>4, WriterStep
<1>6. QED
  BY <1>4, <1>5, SameCookie DEF StepSafe

\* The same for a step that ends the call.
LEMMA RowEnds ==
    ASSUME OrderInv, NEW w \in OrderWriter, Ends(w),
           UNCHANGED <<platformOrder, past, credential, reconciliation, synced, orderEdited, shipment,
                       starts, orderEnv>>,
           orderRow' \in OrderRecord, orderRow'.owner = "none" => orderRow' = NoOrder,
           Grows(orderRow, orderRow', orderEdited, orderEdited', shipment'), NotBack, StaysWith,
           w = "ship" => orderRow'.shipped
    PROVE  OrderInv' /\ StepSafe
<1>1. Shared
  BY DEF OrderInv
<1>2. starts' \in Nat /\ orderEnv' \in Nat /\ orderEdited' \in BOOLEAN /\ credential' \in Cookie
  BY <1>1 DEF Shared
<1>3. OrderInv'
  BY <1>2, EndsStep
<1>4. synced' >= synced
  BY <1>1 DEF Shared
<1>5. QED
  BY <1>3, <1>4, SameCookie DEF StepSafe

\* Only an order on which nobody has acted is moved to its seller's account.
LEMMA MoveOwnershipStep ==
    ASSUME OrderInv, NEW s \in Sync, MoveOwnership(s)
    PROVE  OrderInv' /\ StepSafe
<1>1. Shared /\ orderWriter \in [OrderWriter -> WriterState] /\ s \in OrderWriter
  BY DEF OrderInv, OrderWriter
<1>2. Knows(s, orderWriter[s], orderRow, orderEdited, credentialLock, generation, synced, reconciliation,
          shipment, platformOrder.age)
  BY <1>1 DEF OrderInv
<1>3. orderWriter[s] \in WriterState /\ orderWriter[s].pc = "move" /\ orderRow \in OrderRecord
  BY <1>1 DEF MoveOwnership, WriterAt, Shared
<1>4. s \notin {"detail", "event", "ship", "repair"}
  BY SyncAssumption
<1> DEFINE read == orderWriter[s].read
           moves == /\ orderRow.owner = read.owner /\ orderRow.version = read.version
                    /\ orderRow.deleted = read.deleted /\ Movable(orderRow)
<1>5. CASE moves
  <2> DEFINE p == [orderWriter[s] EXCEPT !.pc = "missing"]
             status == StatusAfter(orderRow.status, orderWriter[s].snapshot)
             row == [orderRow EXCEPT !.owner = "seller", !.version = orderRow.version + 2,
                                     !.deleted = FALSE, !.status = status]
  <2>1. orderRow' = row
    BY <1>5 DEF MoveOwnership
  <2>2. orderWriter' = [orderWriter EXCEPT ![s] = p] /\ UNCHANGED <<generation, credentialLock>>
    BY <1>5 DEF MoveOwnership, WriterTo
  <2>3. orderWriter[s].snapshot \in OrderStatus /\ status \in OrderStatus
    BY <1>2, <1>3 DEF Knows, KnowsRow, WriterState, StatusAfter, OrderRecord
  <2>4. /\ row \in OrderRecord /\ row.owner = "seller" /\ row.version = orderRow.version + 2
        /\ row.status = status /\ row.shipped = orderRow.shipped
    <3>1. "seller" \in Account \cup {"none"} /\ orderRow.version + 2 \in Nat
      BY <1>3 DEF Account, OrderRecord
    <3> HIDE DEF status
    <3>2. QED
      BY <1>3, <2>3, <3>1 DEF OrderRecord
  <2>5. "missing" \in WriterPc
    BY DEF WriterPc
  <2>6. p \in WriterState /\ p.pc = "missing" /\ p.age = orderWriter[s].age
    BY <1>3, <2>5, PlaceType
  <2>7. NotBack
    BY <2>1, <2>4, StatusSettles DEF NotBack
  <2>8. StaysWith
    BY <1>5 DEF StaysWith, Movable
  <2> HIDE DEF p, row
  <2>9. Grows(orderRow, orderRow', orderEdited, orderEdited', shipment')
    BY <1>3, <2>1, <2>4 DEF MoveOwnership, Grows, OrderRecord
  <2>10. Knows(s, p, orderRow', orderEdited, credentialLock, generation, synced, reconciliation,
          shipment, platformOrder.age)
    BY <1>2, <1>3, <1>4, <2>6 DEF Knows, Places, KnowsRow, KnowsAccount, KnowsShipment, Committing
  <2>11. QED
    BY <1>1, <2>1, <2>2, <2>4, <2>6, <2>7, <2>8, <2>9, <2>10, RowStep DEF MoveOwnership
<1>6. CASE ~moves
  <2>1. Ends(s) /\ orderRow' = orderRow
    BY <1>6 DEF MoveOwnership
  <2>2. KeepsLogin /\ credential' \in Cookie
    BY <1>1, SameCookie DEF MoveOwnership, Shared
  <2>3. QED
    BY <1>1, <1>4, <2>1, <2>2, EndsQuietly DEF MoveOwnership, Shared
<1>7. QED
  BY <1>5, <1>6

LEMMA DeleteMissingStep ==
    ASSUME OrderInv, NEW s \in Sync, DeleteMissing(s)
    PROVE  OrderInv' /\ StepSafe
<1>1. Shared /\ s \in OrderWriter /\ s # "ship"
  BY SyncAssumption DEF OrderInv, OrderWriter
<1>2. orderRow \in OrderRecord
  BY <1>1 DEF Shared
<1> DEFINE row == [orderRow EXCEPT !.deleted = TRUE]
<1>3. /\ row \in OrderRecord /\ row.owner = orderRow.owner /\ row.version = orderRow.version
      /\ row.status = orderRow.status /\ row.shipped = orderRow.shipped
  BY <1>2 DEF OrderRecord
<1>4. orderRow' = orderRow \/ (orderRow' = row /\ orderRow.owner = "seller")
  BY DEF DeleteMissing
<1> HIDE DEF row
<1>5. orderRow' \in OrderRecord /\ (orderRow'.owner = "none" => orderRow' = NoOrder)
  BY <1>1, <1>3, <1>4 DEF Shared
<1>6. Grows(orderRow, orderRow', orderEdited, orderEdited', shipment') /\ NotBack /\ StaysWith
  BY <1>2, <1>3, <1>4, StatusSettles DEF DeleteMissing, Grows, NotBack, StaysWith, OrderRecord
<1>7. QED
  BY <1>1, <1>5, <1>6, RowEnds DEF DeleteMissing

-----------------------------------------------------------------------------
(* One order and its writers: upsertOrder                                  *)

LEMMA InsertOrderStep ==
    ASSUME OrderInv, NEW w \in OrderWriter, InsertOrder(w)
    PROVE  OrderInv' /\ StepSafe
<1>1. Shared /\ orderWriter \in [OrderWriter -> WriterState]
  BY DEF OrderInv
<1>2. Knows(w, orderWriter[w], orderRow, orderEdited, credentialLock, generation, synced, reconciliation,
          shipment, platformOrder.age)
  BY DEF OrderInv
<1>3. orderWriter[w] \in WriterState /\ orderWriter[w].pc = "insert" /\ orderRow \in OrderRecord
  BY <1>1 DEF InsertOrder, WriterAt, Shared
<1> DEFINE p == [orderWriter[w] EXCEPT !.pc = "read", !.tries = 0]
           row == [NoOrder EXCEPT !.owner = orderWriter[w].account, !.version = 1]
<1>4. "read" \in WriterPc
  BY DEF WriterPc
<1>5. /\ p \in WriterState /\ p.pc = "read" /\ p.age = orderWriter[w].age
      /\ p.snapshot = orderWriter[w].snapshot
  BY <1>3, <1>4 DEF WriterState
<1>6. orderWriter' = [orderWriter EXCEPT ![w] = p]
  BY <1>1 DEF InsertOrder
<1>7. orderWriter[w].account \in Account /\ "none" \notin Account
  BY <1>3 DEF WriterState, Account
<1>8. row \in OrderRecord /\ row.owner = orderWriter[w].account /\ row.version = 1 /\ NoOrder.version = 0
      /\ ~NoOrder.shipped /\ row.owner # "none"
  BY <1>7, RestingType DEF OrderRecord, NoOrder
<1>9. orderRow' = IF orderRow.owner # "none" THEN orderRow ELSE row
  BY DEF InsertOrder, Placeholder
<1>10. orderRow.owner = "none" => orderRow = NoOrder
  BY <1>1 DEF Shared
<1> HIDE DEF p, row
<1>11. orderRow' \in OrderRecord /\ (orderRow'.owner = "none" => orderRow' = NoOrder)
  BY <1>3, <1>8, <1>9
<1>12. Grows(orderRow, orderRow', orderEdited, orderEdited', shipment')
  <2>1. CASE orderRow.owner = "none"
    BY <1>8, <1>9, <1>10, <2>1 DEF InsertOrder, Grows
  <2>2. CASE orderRow.owner # "none"
    BY <1>3, <1>9, <2>2 DEF InsertOrder, Grows, OrderRecord
  <2>3. QED
    BY <2>1, <2>2
<1>13. NotBack /\ StaysWith
  BY <1>9, StatusSettles DEF NotBack, StaysWith
<1>14. Knows(w, p, orderRow', orderEdited, credentialLock, generation, synced, reconciliation,
          shipment, platformOrder.age)
  BY <1>2, <1>3, <1>5, <1>12 DEF Knows, Places, KnowsRow, KnowsAccount, KnowsShipment, Committing,
     Upserting, Grows
<1>15. QED
  BY <1>5, <1>6, <1>11, <1>12, <1>13, <1>14, RowStep DEF InsertOrder

\* A writer that could not write its order gives up; a shipment goes on to
\* record that it was not stored.
LEMMA RefusedStep ==
    ASSUME OrderInv, NEW w \in OrderWriter, Refused(w),
           orderWriter[w].pc \in {"own", "insert", "read", "write", "missing"},
           UNCHANGED <<platformOrder, past, orderRow, credential, reconciliation, synced, orderEdited,
                       shipment>>,
           starts' \in Nat, orderEnv' \in Nat
    PROVE  OrderInv' /\ StepSafe
<1>1. Shared /\ orderWriter \in [OrderWriter -> WriterState]
  BY DEF OrderInv
<1>2. Knows(w, orderWriter[w], orderRow, orderEdited, credentialLock, generation, synced, reconciliation,
          shipment, platformOrder.age)
  BY DEF OrderInv
<1>3. CASE w = "ship"
  <2> DEFINE p == [orderWriter[w] EXCEPT !.pc = "record"]
  <2>1. orderWriter' = [orderWriter EXCEPT ![w] = p] /\ UNCHANGED <<generation, credentialLock>>
    BY <1>3 DEF Refused, WriterTo
  <2>2. orderWriter[w] \in WriterState /\ "record" \in WriterPc
    BY <1>1 DEF WriterPc
  <2>3. /\ p \in WriterState /\ p.pc = "record" /\ p.age = orderWriter[w].age
        /\ p.snapshot = orderWriter[w].snapshot
    BY <2>2, PlaceType
  <2> HIDE DEF p
  <2>4. w \notin Sync
    BY <1>3, SyncAssumption
  <2>5. Knows(w, p, orderRow, orderEdited, credentialLock, generation', synced, reconciliation,
          shipment, platformOrder.age)
    BY <1>2, <1>3, <2>3, <2>4
       DEF Knows, Places, KnowsRow, KnowsAccount, KnowsShipment, Upserting
  <2>6. QED
    BY <1>1, <2>1, <2>3, <2>5, QuietStep
<1>4. CASE w # "ship"
  <2>1. KeepsLogin /\ credential' \in Cookie
    BY <1>1, SameCookie DEF Shared
  <2>2. QED
    BY <1>4, <2>1, EndsQuietly DEF Refused
<1>5. QED
  BY <1>3, <1>4

\* A writer that has its row, or tries once more after a conflict.
LEMMA ReadOrderStep ==
    ASSUME OrderInv, NEW w \in OrderWriter, ReadOrder(w)
    PROVE  OrderInv' /\ StepSafe
<1>1. Shared /\ orderWriter \in [OrderWriter -> WriterState]
  BY DEF OrderInv
<1>2. Knows(w, orderWriter[w], orderRow, orderEdited, credentialLock, generation, synced, reconciliation,
          shipment, platformOrder.age)
  BY DEF OrderInv
<1>3. orderWriter[w] \in WriterState /\ orderWriter[w].pc = "read" /\ orderRow \in OrderRecord
  BY <1>1 DEF ReadOrder, WriterAt, Shared
<1>4. starts' \in Nat /\ orderEnv' \in Nat
  BY <1>1 DEF ReadOrder, Shared
<1>5. CASE orderRow.owner = orderWriter[w].account
  <2> DEFINE p == [orderWriter[w] EXCEPT !.pc = "write", !.read = orderRow]
  <2>1. orderWriter' = [orderWriter EXCEPT ![w] = p] /\ UNCHANGED <<generation, credentialLock>>
    BY <1>1, <1>5 DEF ReadOrder
  <2>2. "write" \in WriterPc
    BY DEF WriterPc
  <2>3. /\ p \in WriterState /\ p.pc = "write" /\ p.age = orderWriter[w].age
        /\ p.snapshot = orderWriter[w].snapshot /\ p.read = orderRow
    BY <1>3, <2>2 DEF WriterState
  <2> HIDE DEF p
  <2>4. orderRow.owner # "none" /\ orderRow.version <= orderRow.version
    BY <1>3, <1>5 DEF WriterState, Account, OrderRecord
  <2>5. Knows(w, p, orderRow, orderEdited, credentialLock, generation', synced, reconciliation,
          shipment, platformOrder.age)
    BY <1>2, <1>3, <2>1, <2>3, <2>4
       DEF Knows, Places, KnowsRow, KnowsAccount, KnowsShipment, Committing, Upserting
  <2>6. QED
    BY <1>4, <2>1, <2>3, <2>5, QuietStep DEF ReadOrder
<1>6. CASE orderRow.owner # orderWriter[w].account /\ w \in Sync /\ ~orderWriter[w].again
  <2> DEFINE p == [orderWriter[w] EXCEPT !.pc = "insert", !.again = TRUE]
  <2>1. orderWriter' = [orderWriter EXCEPT ![w] = p] /\ UNCHANGED <<generation, credentialLock>>
    BY <1>1, <1>6 DEF ReadOrder
  <2>2. "insert" \in WriterPc
    BY DEF WriterPc
  <2>3. /\ p \in WriterState /\ p.pc = "insert" /\ p.age = orderWriter[w].age
        /\ p.snapshot = orderWriter[w].snapshot
    BY <1>3, <2>2 DEF WriterState
  <2> HIDE DEF p
  <2>4. Knows(w, p, orderRow, orderEdited, credentialLock, generation', synced, reconciliation,
          shipment, platformOrder.age)
    BY <1>2, <1>3, <2>1, <2>3
       DEF Knows, Places, KnowsRow, KnowsAccount, KnowsShipment, Committing, Upserting
  <2>5. QED
    BY <1>4, <2>1, <2>3, <2>4, QuietStep DEF ReadOrder
<1>7. CASE orderRow.owner # orderWriter[w].account /\ ~(w \in Sync /\ ~orderWriter[w].again)
  <2>1. Refused(w)
    BY <1>7 DEF ReadOrder
  <2>2. QED
    BY <1>3, <1>4, <2>1, RefusedStep DEF ReadOrder
<1>8. QED
  BY <1>5, <1>6, <1>7

\* The row is written if it still has the version that was read.
LEMMA WriteOrderStep ==
    ASSUME OrderInv, NEW w \in OrderWriter, WriteOrder(w)
    PROVE  OrderInv' /\ StepSafe
<1>1. Shared /\ orderWriter \in [OrderWriter -> WriterState]
  BY DEF OrderInv
<1>2. Knows(w, orderWriter[w], orderRow, orderEdited, credentialLock, generation, synced, reconciliation,
          shipment, platformOrder.age)
  BY DEF OrderInv
<1>3. orderWriter[w] \in WriterState /\ orderWriter[w].pc = "write" /\ orderRow \in OrderRecord
  BY <1>1 DEF WriteOrder, WriterAt, Shared
<1>4. starts' \in Nat /\ orderEnv' \in Nat /\ "missing" \in WriterPc /\ "resolve" \in WriterPc
      /\ "read" \in WriterPc
  BY <1>1 DEF WriteOrder, Shared, WriterPc
<1>5. "repair" \notin Sync /\ "ship" \notin Sync
  BY SyncAssumption
<1>6. CASE Matches(w)
  <2> DEFINE status == IF ShouldUpdate(orderWriter[w].read.status, orderWriter[w].snapshot)
                       THEN orderWriter[w].snapshot ELSE orderRow.status
             deleted == orderRow.deleted /\ ~orderWriter[w].read.deleted
             shipped == orderRow.shipped \/ w \in {"ship", "repair"}
             row == [orderRow EXCEPT !.status = status, !.deleted = deleted, !.shipped = shipped,
                                     !.version = orderRow.version + 1]
  <2>1. orderRow' = row
    BY <1>6 DEF WriteOrder, Merged
  <2>2. status \in OrderStatus /\ deleted \in BOOLEAN /\ shipped \in BOOLEAN
        /\ orderRow.version + 1 \in Nat
    BY <1>2, <1>3 DEF Knows, KnowsRow, WriterState, OrderRecord
  <2>3. /\ orderRow.owner # "none"
        /\ ~orderEdited => status = StatusAfter(orderRow.status, orderWriter[w].snapshot)
        /\ (orderRow.shipped => shipped) /\ (w \in {"ship", "repair"} => shipped)
    BY <1>2, <1>3, <1>6 DEF Matches, Knows, KnowsRow, StatusAfter
  <2> HIDE DEF status, deleted, shipped
  <2>4. /\ row \in OrderRecord /\ row.owner = orderRow.owner /\ row.version = orderRow.version + 1
        /\ row.status = status /\ row.shipped = shipped
    BY <1>3, <2>2 DEF OrderRecord
  <2> HIDE DEF row
  <2>5. NotBack /\ StaysWith
    BY <2>1, <2>3, <2>4, StatusSettles DEF WriteOrder, NotBack, StaysWith
  <2>6. Grows(orderRow, orderRow', orderEdited, orderEdited', shipment')
    BY <1>3, <2>1, <2>3, <2>4 DEF WriteOrder, Grows, OrderRecord
  <2>7. orderRow' \in OrderRecord /\ (orderRow'.owner = "none" => orderRow' = NoOrder)
    BY <2>1, <2>3, <2>4
  <2>8. ASSUME w \in Sync \/ w = "repair"
        PROVE  OrderInv' /\ StepSafe
    <3> DEFINE pc == IF w = "repair" THEN "resolve" ELSE "missing"
               p == [orderWriter[w] EXCEPT !.pc = pc]
    <3>1. orderWriter' = [orderWriter EXCEPT ![w] = p] /\ UNCHANGED <<generation, credentialLock>>
      BY <1>5, <1>6, <2>8 DEF WriteOrder, WriterTo
    <3>2. pc \in WriterPc /\ (w = "repair" => pc = "resolve") /\ (w # "repair" => pc = "missing")
      BY <1>4
    <3> HIDE DEF pc
    <3>3. p \in WriterState /\ p.pc = pc /\ p.age = orderWriter[w].age
      BY <1>3, <3>2, PlaceType
    <3> HIDE DEF p
    <3>4. w = "repair" => orderRow'.shipped
      BY <2>1, <2>3, <2>4
    <3>5. w \notin {"ship", "detail", "event"}
      BY <2>8, SyncAssumption
    <3>6. Knows(w, p, orderRow', orderEdited, credentialLock, generation, synced, reconciliation,
          shipment, platformOrder.age)
      BY <1>2, <1>3, <1>5, <2>8, <3>2, <3>3, <3>4, <3>5
         DEF Knows, Places, KnowsRow, KnowsAccount, KnowsShipment, Committing, Upserting
    <3>7. QED
      BY <2>5, <2>6, <2>7, <3>1, <3>3, <3>6, RowStep DEF WriteOrder
  <2>9. ASSUME w \notin Sync, w # "repair"
        PROVE  OrderInv' /\ StepSafe
    <3>1. Ends(w)
      BY <1>6, <2>9 DEF WriteOrder
    <3>2. w = "ship" => orderRow'.shipped
      BY <2>1, <2>3, <2>4
    <3>3. QED
      BY <2>5, <2>6, <2>7, <3>1, <3>2, RowEnds DEF WriteOrder
  <2>10. QED
    BY <2>8, <2>9
<1>7. CASE ~Matches(w) /\ orderWriter[w].tries + 1 < MaxTries
  <2> DEFINE p == [orderWriter[w] EXCEPT !.pc = "read", !.tries = orderWriter[w].tries + 1]
  <2>1. orderWriter' = [orderWriter EXCEPT ![w] = p]
        /\ UNCHANGED <<orderRow, generation, credentialLock>>
    BY <1>1, <1>7 DEF WriteOrder
  <2>2. orderWriter[w].tries + 1 \in Nat
    BY <1>3 DEF WriterState
  <2>3. /\ p \in WriterState /\ p.pc = "read" /\ p.age = orderWriter[w].age
        /\ p.snapshot = orderWriter[w].snapshot
    BY <1>3, <1>4, <2>2 DEF WriterState
  <2> HIDE DEF p
  <2>4. Knows(w, p, orderRow, orderEdited, credentialLock, generation', synced, reconciliation,
          shipment, platformOrder.age)
    BY <1>2, <1>3, <2>1, <2>3
       DEF Knows, Places, KnowsRow, KnowsAccount, KnowsShipment, Committing, Upserting
  <2>5. QED
    BY <1>4, <2>1, <2>3, <2>4, QuietStep DEF WriteOrder
<1>8. CASE ~Matches(w) /\ ~(orderWriter[w].tries + 1 < MaxTries)
  <2>1. Refused(w) /\ orderRow' = orderRow
    BY <1>8 DEF WriteOrder
  <2>2. QED
    BY <1>3, <1>4, <2>1, RefusedStep DEF WriteOrder
<1>9. QED
  BY <1>6, <1>7, <1>8

-----------------------------------------------------------------------------
(* One order and its writers: events, shipment, repair, users              *)

LEMMA OrderEventStep ==
    ASSUME OrderInv, OrderEvent
    PROVE  OrderInv' /\ StepSafe
<1>1. Shared /\ orderWriter \in [OrderWriter -> WriterState] /\ "event" \in OrderWriter
  BY DEF OrderInv, OrderWriter
<1>2. Knows("event", orderWriter["event"], orderRow, orderEdited, credentialLock, generation, synced,
          reconciliation,
          shipment, platformOrder.age)
  BY <1>1 DEF OrderInv
<1>3. PICK status \in past, account \in {"seller", "buyer"} :
          orderWriter' = [orderWriter EXCEPT !["event"].pc = "insert",
                              !["event"].snapshot = status, !["event"].account = account]
  BY DEF OrderEvent
<1> DEFINE p == [orderWriter["event"] EXCEPT !.pc = "insert", !.snapshot = status, !.account = account]
<1>4. /\ orderWriter["event"] \in WriterState /\ "insert" \in WriterPc /\ account \in Account
      /\ status \in OrderStatus /\ status # "absent"
  BY <1>1 DEF Shared, StoredStatus, OrderStatus, WriterPc, Account
<1>5. p \in WriterState /\ p.pc = "insert" /\ p.age = orderWriter["event"].age /\ p.snapshot = status
  BY <1>4 DEF WriterState
<1>6. orderWriter' = [orderWriter EXCEPT !["event"] = p]
  BY <1>1, <1>3
<1> HIDE DEF p
<1>7. "event" \notin Sync
  BY SyncAssumption
<1>8. Knows("event", p, orderRow, orderEdited, credentialLock, generation', synced, reconciliation,
          shipment, platformOrder.age)
  BY <1>2, <1>4, <1>5, <1>7
     DEF Knows, Places, KnowsRow, KnowsAccount, KnowsShipment, Upserting
<1>9. starts' \in Nat /\ orderEnv' \in Nat
  BY <1>1 DEF OrderEvent, Starts, Shared
<1>10. QED
  BY <1>1, <1>5, <1>6, <1>8, <1>9, QuietStep DEF OrderEvent

\* A writer that is none of the synchronisations goes to another place.
LEMMA MovesTo ==
    ASSUME OrderInv, NEW w \in {"detail", "event", "ship", "repair"}, NEW pc \in WriterPc,
           WriterTo(w, pc), Places(w, pc), pc \notin {"insert", "read", "write"},
           w = "ship" => shipment # "confirmed" /\ reconciliation = "none",
           w = "repair" => pc # "resolve",
           UNCHANGED <<platformOrder, past, orderRow, credential, credentialLock, generation,
                       reconciliation, synced, orderEdited, shipment>>,
           starts' \in Nat, orderEnv' \in Nat,
           orderWriter[w].snapshot # "absent" \/ pc # "move"
    PROVE  OrderInv' /\ StepSafe
<1> DEFINE p == [orderWriter[w] EXCEPT !.pc = pc]
<1>1. Shared /\ orderWriter \in [OrderWriter -> WriterState] /\ w \in OrderWriter
  BY DEF OrderInv, OrderWriter
<1>2. Knows(w, orderWriter[w], orderRow, orderEdited, credentialLock, generation, synced, reconciliation,
          shipment, platformOrder.age)
  BY <1>1 DEF OrderInv
<1>3. orderWriter[w] \in WriterState
  BY <1>1
<1>4. /\ p \in WriterState /\ p.pc = pc /\ p.age = orderWriter[w].age
      /\ p.snapshot = orderWriter[w].snapshot
  BY <1>3, PlaceType
<1>5. orderWriter' = [orderWriter EXCEPT ![w] = p]
  BY DEF WriterTo
<1> HIDE DEF p
<1>6. w \notin Sync
  BY SyncAssumption
<1>7. Knows(w, p, orderRow, orderEdited, credentialLock, generation', synced, reconciliation,
          shipment, platformOrder.age)
  BY <1>2, <1>4, <1>6 DEF Knows, KnowsRow, KnowsAccount, KnowsShipment
<1>8. QED
  BY <1>1, <1>4, <1>5, <1>7, QuietStep

LEMMA BeginShipStep ==
    ASSUME OrderInv, BeginShip
    PROVE  OrderInv' /\ StepSafe
<1>1. Shared /\ "ship" \in OrderWriter /\ "consign" \in WriterPc
  BY DEF OrderInv, OrderWriter, WriterPc
<1>2. reconciliation = "none" /\ shipment # "confirmed"
  BY <1>1 DEF OrderInv, Knows, KnowsShipment, BeginShip, WriterAt
<1>3. Places("ship", "consign")
  BY SyncAssumption DEF Places
<1>4. starts' \in Nat /\ orderEnv' \in Nat
  BY <1>1 DEF BeginShip, Starts, Shared
<1>5. QED
  BY <1>1, <1>2, <1>3, <1>4, MovesTo DEF BeginShip

\* The platform confirms the shipment, its answer gets lost, or it has nothing
\* to ship any more.
LEMMA ConsignStep ==
    ASSUME OrderInv, Consign
    PROVE  OrderInv' /\ StepSafe
<1>1. Shared /\ orderWriter \in [OrderWriter -> WriterState] /\ "ship" \in OrderWriter
  BY DEF OrderInv, OrderWriter
<1>2. Knows("ship", orderWriter["ship"], orderRow, orderEdited, credentialLock, generation, synced,
          reconciliation, shipment, platformOrder.age)
  BY <1>1 DEF OrderInv
<1>3. /\ orderWriter["ship"] \in WriterState /\ orderWriter["ship"].pc = "consign"
      /\ reconciliation = "none" /\ shipment # "confirmed" /\ "ship" \notin Sync
  BY <1>1, <1>2, SyncAssumption DEF Consign, WriterAt, Knows, KnowsShipment
<1>4. starts' \in Nat /\ orderEnv' \in Nat /\ "shipped" \in StoredStatus /\ "shipped" # "absent"
  BY <1>1 DEF Consign, Spends, Shared, StoredStatus, OrderStatus
<1>5. CASE platformOrder.status = "pending_ship"
  <2>1. ASSUME NEW p \in WriterState, orderWriter' = [orderWriter EXCEPT !["ship"] = p],
               p.age = orderWriter["ship"].age,
               \/ p.pc = "insert" /\ p.snapshot = "shipped" /\ shipment' = "confirmed"
               \/ p.pc = "done" /\ shipment' = shipment
        PROVE  OrderInv' /\ StepSafe
    <3>1. platformOrder' = [status |-> "shipped", age |-> platformOrder.age + 1]
          /\ past' = past \cup {"shipped"}
      BY <1>5 DEF Consign
    <3>2. platformOrder' \in PlatformOrder /\ platformOrder.age <= platformOrder'.age
          /\ platformOrder.age \in Nat /\ synced <= platformOrder'.age
      BY <1>1, <1>4, <3>1 DEF Shared, PlatformOrder
    <3>3. shipment' \in {"none", "confirmed", "lost", "unmarked"}
      BY <1>1, <2>1 DEF Shared
    <3>4. Shared'
      BY <1>1, <1>4, <3>1, <3>2, <3>3 DEF Consign, Shared
    <3>5. Grows(orderRow, orderRow', orderEdited, orderEdited', shipment')
      BY <1>1 DEF Consign, Shared, OrderRecord, Grows
    <3>6. ASSUME NEW v \in OrderWriter \ {"ship"}
          PROVE  Leaves(v, orderRow', credentialLock', generation', synced', reconciliation', shipment')
      BY <1>3 DEF Consign, Leaves
    <3>7. p.age <= platformOrder'.age
      BY <1>2, <1>3, <2>1, <3>2 DEF Knows, WriterState, PlatformOrder
    <3>8. Places("ship", p.pc) /\ KnowsRow(p, orderRow', orderEdited')
          /\ KnowsAccount("ship", p, credentialLock', generation', synced')
          /\ KnowsShipment("ship", p, orderRow', reconciliation', shipment')
      BY <1>3, <2>1 DEF Consign, Places, KnowsRow, KnowsAccount, KnowsShipment, Upserting
    <3>9. OrderInv'
      BY <1>1, <2>1, <3>2, <3>4, <3>5, <3>6, <3>7, <3>8, WriterStep DEF Knows
    <3>10. synced' >= synced /\ KeepsLogin
      BY <1>1, SameCookie DEF Consign, Shared
    <3>11. QED
      BY <3>9, <3>10, SameRowSafe DEF Consign
  <2>2. CASE orderWriter' = [orderWriter EXCEPT !["ship"].pc = "insert", !["ship"].snapshot = "shipped"]
             /\ shipment' = "confirmed"
    <3> DEFINE p == [orderWriter["ship"] EXCEPT !.pc = "insert", !.snapshot = "shipped"]
    <3>1. orderWriter' = [orderWriter EXCEPT !["ship"] = p]
      BY <1>1, <2>2
    <3>2. "insert" \in WriterPc /\ "shipped" \in OrderStatus
      BY <1>4 DEF WriterPc, StoredStatus
    <3>3. p \in WriterState /\ p.pc = "insert" /\ p.age = orderWriter["ship"].age /\ p.snapshot = "shipped"
      BY <1>3, <3>2 DEF WriterState
    <3> HIDE DEF p
    <3>4. QED
      BY <2>1, <2>2, <3>1, <3>3
  <2>3. CASE WriterTo("ship", "done") /\ shipment' = shipment
    <3> DEFINE p == [orderWriter["ship"] EXCEPT !.pc = "done"]
    <3>1. orderWriter' = [orderWriter EXCEPT !["ship"] = p]
      BY <1>1, <2>3 DEF WriterTo
    <3>2. "done" \in WriterPc
      BY DEF WriterPc
    <3>3. p \in WriterState /\ p.pc = "done" /\ p.age = orderWriter["ship"].age
      BY <1>3, <3>2, PlaceType
    <3> HIDE DEF p
    <3>4. QED
      BY <2>1, <2>3, <3>1, <3>3
  <2>4. QED
    BY <1>5, <2>2, <2>3 DEF Consign
<1>6. CASE platformOrder.status # "pending_ship"
  <2>1. WriterTo("ship", "done") /\ UNCHANGED <<platformOrder, past, shipment>>
    BY <1>6 DEF Consign
  <2>2. Places("ship", "done") /\ "done" \in WriterPc
    BY <1>3 DEF Places, Upserting, WriterPc
  <2>3. QED
    BY <1>3, <1>4, <2>1, <2>2, MovesTo DEF Consign
<1>7. QED
  BY <1>5, <1>6

LEMMA RecordReconciliationStep ==
    ASSUME OrderInv, RecordReconciliation
    PROVE  OrderInv' /\ StepSafe
<1> DEFINE p == [orderWriter["ship"] EXCEPT !.pc = "done"]
<1>1. Shared /\ orderWriter \in [OrderWriter -> WriterState] /\ "ship" \in OrderWriter
  BY DEF OrderInv, OrderWriter
<1>2. Knows("ship", orderWriter["ship"], orderRow, orderEdited, credentialLock, generation, synced,
          reconciliation,
          shipment, platformOrder.age)
  BY <1>1 DEF OrderInv
<1>3. /\ orderWriter["ship"] \in WriterState /\ orderWriter["ship"].pc = "record"
      /\ reconciliation = "none" /\ "ship" \notin Sync /\ "done" \in WriterPc
  BY <1>1, <1>2, SyncAssumption DEF RecordReconciliation, WriterAt, Knows, KnowsShipment, WriterPc
<1>4. p \in WriterState /\ p.pc = "done" /\ p.age = orderWriter["ship"].age
  BY <1>3, PlaceType
<1>5. orderWriter' = [orderWriter EXCEPT !["ship"] = p] /\ reconciliation' = "pending"
  BY <1>3 DEF RecordReconciliation, WriterTo, Recorded
<1> HIDE DEF p
<1>6. Shared'
  BY <1>1, <1>5 DEF RecordReconciliation, Shared
<1>7. Grows(orderRow, orderRow', orderEdited, orderEdited', shipment') /\ platformOrder.age <= platformOrder'.age
  BY <1>1 DEF RecordReconciliation, Shared, OrderRecord, PlatformOrder, Grows
<1>8. ASSUME NEW v \in OrderWriter \ {"ship"}
      PROVE  Leaves(v, orderRow', credentialLock', generation', synced', reconciliation', shipment')
  BY <1>3 DEF RecordReconciliation, Leaves
<1>9. Knows("ship", p, orderRow', orderEdited', credentialLock', generation', synced', reconciliation',
                   shipment', platformOrder'.age)
  BY <1>2, <1>3, <1>4, <1>5
     DEF RecordReconciliation, Knows, Places, KnowsRow, KnowsAccount, KnowsShipment, Upserting
<1>10. OrderInv'
  BY <1>1, <1>4, <1>5, <1>6, <1>7, <1>8, <1>9, WriterStep
<1>11. synced' >= synced /\ KeepsLogin
  BY <1>1, SameCookie DEF RecordReconciliation, Shared
<1>12. QED
  BY <1>10, <1>11, SameRowSafe DEF RecordReconciliation

\* Nothing is left that remembers the shipment.
LEMMA RecordFailsStep ==
    ASSUME OrderInv, RecordFails
    PROVE  OrderInv' /\ StepSafe
<1> DEFINE p == [orderWriter["ship"] EXCEPT !.pc = "done"]
<1>1. Shared /\ orderWriter \in [OrderWriter -> WriterState] /\ "ship" \in OrderWriter
  BY DEF OrderInv, OrderWriter
<1>2. Knows("ship", orderWriter["ship"], orderRow, orderEdited, credentialLock, generation, synced,
          reconciliation, shipment, platformOrder.age)
  BY <1>1 DEF OrderInv
<1>3. /\ orderWriter["ship"] \in WriterState /\ "ship" \notin Sync /\ "done" \in WriterPc
      /\ orderWriter["ship"].pc = "record"
  BY <1>1, SyncAssumption DEF RecordFails, WriterAt, WriterPc
<1>4. p \in WriterState /\ p.pc = "done" /\ p.age = orderWriter["ship"].age
  BY <1>3, PlaceType
<1>5. orderWriter' = [orderWriter EXCEPT !["ship"] = p] /\ shipment' = "lost"
  BY DEF RecordFails, WriterTo
<1> HIDE DEF p
<1>6. Shared'
  BY <1>1, <1>5 DEF RecordFails, Spends, Shared
<1>7. Grows(orderRow, orderRow', orderEdited, orderEdited', shipment')
      /\ platformOrder.age <= platformOrder'.age
  BY <1>1 DEF RecordFails, Shared, OrderRecord, PlatformOrder, Grows
<1>8. ASSUME NEW v \in OrderWriter \ {"ship"}
      PROVE  Leaves(v, orderRow', credentialLock', generation', synced', reconciliation', shipment')
  BY <1>5 DEF RecordFails, Leaves
<1>9. Knows("ship", p, orderRow', orderEdited', credentialLock', generation', synced', reconciliation',
            shipment', platformOrder'.age)
  BY <1>2, <1>3, <1>4, <1>5
     DEF RecordFails, Knows, Places, KnowsRow, KnowsAccount, KnowsShipment, Upserting
<1>10. OrderInv'
  BY <1>1, <1>4, <1>5, <1>6, <1>7, <1>8, <1>9, WriterStep
<1>11. synced' >= synced /\ KeepsLogin
  BY <1>1, SameCookie DEF RecordFails, Shared
<1>12. QED
  BY <1>10, <1>11, SameRowSafe DEF RecordFails

LEMMA WriteFailsStep ==
    ASSUME OrderInv, NEW w \in OrderWriter, WriteFails(w)
    PROVE  OrderInv' /\ StepSafe
<1>1. starts' \in Nat /\ orderEnv' \in Nat
  BY DEF WriteFails, Spends, OrderInv, Shared
<1>2. QED
  BY <1>1, RefusedStep DEF WriteFails

LEMMA ReadPendingStep ==
    ASSUME OrderInv, ReadPending
    PROVE  OrderInv' /\ StepSafe
<1> DEFINE p == [orderWriter["repair"] EXCEPT !.pc = "insert", !.snapshot = "shipped",
                     !.account = orderRow.owner]
<1>1. Shared /\ orderWriter \in [OrderWriter -> WriterState] /\ "repair" \in OrderWriter
  BY DEF OrderInv, OrderWriter
<1>2. Knows("repair", orderWriter["repair"], orderRow, orderEdited, credentialLock, generation, synced,
          reconciliation,
          shipment, platformOrder.age)
  BY <1>1 DEF OrderInv
<1>3. /\ orderWriter["repair"] \in WriterState /\ reconciliation = "pending" /\ "repair" \notin Sync
      /\ "insert" \in WriterPc /\ "shipped" \in OrderStatus /\ orderRow.owner \in Account
  BY <1>1, SyncAssumption DEF ReadPending, Shared, OrderRecord, WriterPc, OrderStatus
<1>4. p \in WriterState /\ p.pc = "insert" /\ p.age = orderWriter["repair"].age /\ p.snapshot = "shipped"
  BY <1>3 DEF WriterState
<1>5. orderWriter' = [orderWriter EXCEPT !["repair"] = p]
  BY <1>1 DEF ReadPending
<1> HIDE DEF p
<1>6. Knows("repair", p, orderRow, orderEdited, credentialLock, generation', synced, reconciliation,
          shipment, platformOrder.age)
  BY <1>2, <1>3, <1>4
     DEF Knows, Places, KnowsRow, KnowsAccount, KnowsShipment, Upserting
<1>7. starts' \in Nat /\ orderEnv' \in Nat
  BY <1>1 DEF ReadPending, Shared
<1>8. QED
  BY <1>1, <1>4, <1>5, <1>6, <1>7, QuietStep DEF ReadPending

LEMMA MarkResolvedStep ==
    ASSUME OrderInv, MarkResolved
    PROVE  OrderInv' /\ StepSafe
<1> DEFINE p == [orderWriter["repair"] EXCEPT !.pc = "done"]
<1>1. Shared /\ orderWriter \in [OrderWriter -> WriterState] /\ "repair" \in OrderWriter
  BY DEF OrderInv, OrderWriter
<1>2. Knows("repair", orderWriter["repair"], orderRow, orderEdited, credentialLock, generation, synced,
          reconciliation,
          shipment, platformOrder.age)
  BY <1>1 DEF OrderInv
<1>3. /\ orderWriter["repair"] \in WriterState /\ (shipment = "confirmed" => orderRow.shipped)
      /\ reconciliation = "pending" /\ "repair" \notin Sync /\ "done" \in WriterPc
  BY <1>1, <1>2, SyncAssumption DEF MarkResolved, WriterAt, Knows, KnowsShipment, WriterPc
<1>4. p \in WriterState /\ p.pc = "done" /\ p.age = orderWriter["repair"].age
  BY <1>3, PlaceType
<1>5. orderWriter' = [orderWriter EXCEPT !["repair"] = p] /\ reconciliation' = "resolved"
  BY DEF MarkResolved, WriterTo
<1> HIDE DEF p
<1>6. Shared'
  BY <1>1, <1>3, <1>5 DEF MarkResolved, Shared
<1>7. Grows(orderRow, orderRow', orderEdited, orderEdited', shipment') /\ platformOrder.age <= platformOrder'.age
  BY <1>1 DEF MarkResolved, Shared, OrderRecord, PlatformOrder, Grows
<1>8. ASSUME NEW v \in OrderWriter \ {"repair"}
      PROVE  Leaves(v, orderRow', credentialLock', generation', synced', reconciliation', shipment')
  BY <1>3 DEF MarkResolved, Leaves
<1>9. Knows("repair", p, orderRow', orderEdited', credentialLock', generation', synced', reconciliation',
                   shipment', platformOrder'.age)
  BY <1>2, <1>3, <1>4
     DEF MarkResolved, Knows, Places, KnowsRow, KnowsAccount, KnowsShipment, Upserting
<1>10. OrderInv'
  BY <1>1, <1>4, <1>5, <1>6, <1>7, <1>8, <1>9, WriterStep
<1>11. synced' >= synced /\ KeepsLogin
  BY <1>1, SameCookie DEF MarkResolved, Shared
<1>12. QED
  BY <1>10, <1>11, SameRowSafe DEF MarkResolved

LEMMA NextTickStep ==
    ASSUME OrderInv, NextTick
    PROVE  OrderInv' /\ StepSafe
<1>1. starts' \in Nat /\ orderEnv' \in Nat /\ "idle" \in WriterPc
  BY DEF NextTick, OrderInv, Shared, WriterPc
<1>2. Places("repair", "idle")
  BY SyncAssumption DEF Places, Upserting
<1>3. QED
  BY <1>1, <1>2, MovesTo DEF NextTick

\* The users' writes, of which no writer is told.
LEMMA UserStep ==
    ASSUME OrderInv, EditOrder \/ DeleteOrder
    PROVE  OrderInv' /\ StepSafe
<1>1. Shared /\ orderRow \in OrderRecord /\ orderRow.owner \in {"seller", "buyer"}
  BY DEF OrderInv, Shared, EditOrder, DeleteOrder
<1>2. /\ orderRow' \in OrderRecord /\ orderRow'.owner = orderRow.owner
      /\ orderRow'.version = orderRow.version
      /\ orderEdited' = TRUE \/ (orderEdited' = orderEdited /\ orderRow'.status = orderRow.status)
      /\ shipment' \in {shipment, "unmarked"}
      /\ orderRow.shipped /\ shipment' = "confirmed" => orderRow'.shipped
  <2>1. CASE EditOrder
    <3>1. PICK status \in {orderRow.status, "pending_ship", "completed"}, shipped \in BOOLEAN :
             /\ orderRow' = [orderRow EXCEPT !.status = status, !.shipped = shipped]
             /\ orderEdited' = (orderEdited \/ status # orderRow.status)
             /\ shipment' = IF orderRow.shipped /\ ~shipped /\ shipment = "confirmed"
                             THEN "unmarked" ELSE shipment
      BY <2>1 DEF EditOrder
    <3>2. status \in OrderStatus
      BY <1>1 DEF OrderRecord, OrderStatus
    <3>3. /\ orderRow' \in OrderRecord /\ orderRow'.owner = orderRow.owner
          /\ orderRow'.version = orderRow.version
          /\ orderRow'.status = status /\ orderRow'.shipped = shipped
      BY <1>1, <3>1, <3>2 DEF OrderRecord
    <3>4. orderEdited' = TRUE \/ (orderEdited' = orderEdited /\ status = orderRow.status)
      BY <1>1, <3>1 DEF Shared
    <3>5. QED
      BY <3>1, <3>3, <3>4
  <2>2. CASE DeleteOrder
    <3>1. orderRow' = [orderRow EXCEPT !.deleted = TRUE] /\ orderEdited' = orderEdited /\ shipment' = shipment
      BY <2>2 DEF DeleteOrder
    <3>2. /\ orderRow' \in OrderRecord /\ orderRow'.owner = orderRow.owner
          /\ orderRow'.version = orderRow.version
          /\ orderRow'.status = orderRow.status /\ orderRow'.shipped = orderRow.shipped
      BY <1>1, <3>1 DEF OrderRecord
    <3>3. QED
      BY <3>1, <3>2
  <2>3. QED
    BY <1>1, <2>1, <2>2
<1>3. UNCHANGED <<platformOrder, past, credential, credentialLock, generation, orderWriter,
                  reconciliation, synced, starts>> /\ orderEnv' \in Nat
  <2>1. Spends /\ UNCHANGED <<platformOrder, past, credential, credentialLock, generation, orderWriter,
                             reconciliation, synced, starts>>
    BY DEF EditOrder, DeleteOrder
  <2>2. orderEnv' \in Nat
    BY <1>1, <2>1 DEF Spends, Shared
  <2>3. QED
    BY <2>1, <2>2
<1>4. orderEdited \in BOOLEAN /\ orderEdited' \in BOOLEAN /\ (orderEdited => orderEdited')
  <2>1. orderEdited \in BOOLEAN
    BY <1>1 DEF Shared
  <2>2. CASE orderEdited' = TRUE
    BY <2>1, <2>2
  <2>3. CASE orderEdited' = orderEdited
    BY <2>1, <2>3
  <2>4. QED
    BY <1>2, <2>1, <2>2, <2>3
<1>5. Shared'
  BY <1>1, <1>2, <1>3, <1>4 DEF Shared
<1>6. Grows(orderRow, orderRow', orderEdited, orderEdited', shipment')
  BY <1>1, <1>2, <1>4 DEF Grows, OrderRecord
<1>7. ASSUME NEW v \in OrderWriter
      PROVE  Knows(v, orderWriter'[v], orderRow', orderEdited', credentialLock', generation', synced',
                   reconciliation',
                   shipment', platformOrder'.age)
  <2>1. orderWriter[v] \in WriterState /\ orderRow' \in OrderRecord /\ platformOrder.age \in Nat
        /\ platformOrder.age <= platformOrder.age
    BY <1>1, <1>2 DEF OrderInv, Shared, PlatformOrder
  <2>2. Leaves(v, orderRow', credentialLock, generation, synced, reconciliation, shipment')
    BY <1>2 DEF Leaves
  <2>3. QED
    BY <1>3, <1>4, <1>6, <2>1, <2>2, OtherWriter
<1>8. OrderInv'
  BY <1>3, <1>5, <1>7 DEF OrderInv
<1>9. NotBack /\ StaysWith
  BY <1>2, StatusSettles DEF NotBack, StaysWith
<1>10. synced' >= synced /\ KeepsLogin
  BY <1>1, <1>3, SameCookie DEF Shared
<1>11. QED
  BY <1>8, <1>9, <1>10 DEF StepSafe

\* A crash: who was under way is gone, and so are the locks.
LEMMA OrderCrashStep ==
    ASSUME OrderInv, OrderCrash
    PROVE  OrderInv' /\ StepSafe
<1>1. Shared /\ orderWriter \in [OrderWriter -> WriterState]
  BY DEF OrderInv
<1>2. Shared' /\ shipment' = IF Storing THEN "lost" ELSE shipment
  BY <1>1 DEF OrderCrash, Spends, Shared
<1> DEFINE Killed(w) == IF WriterAt(w, "idle") \/ w = "repair" THEN Resting ELSE WriterEnded
<1>4. orderWriter' = [w \in OrderWriter |-> Killed(w)]
  BY DEF OrderCrash
<1>5. ASSUME NEW w \in OrderWriter
      PROVE  /\ orderWriter'[w] \in WriterState /\ orderWriter'[w].pc \in {"idle", "done"}
             /\ orderWriter'[w].age = 0
             /\ w = "ship" => (orderWriter'[w].pc = "idle" <=> orderWriter[w].pc = "idle")
  BY <1>4, RestingType, WriterEndedType DEF WriterAt
<1>6. orderWriter' \in [OrderWriter -> WriterState]
  BY <1>4, <1>5
<1>7. NoWriter \notin Sync
  BY SyncAssumption
<1>8. ASSUME NEW w \in OrderWriter
      PROVE  Knows(w, orderWriter'[w], orderRow', orderEdited', credentialLock', generation', synced',
                   reconciliation',
                   shipment', platformOrder'.age)
  <2>1. Places(w, orderWriter'[w].pc) /\ KnowsRow(orderWriter'[w], orderRow', orderEdited')
    BY <1>5 DEF Places, Upserting, KnowsRow
  <2>2. KnowsAccount(w, orderWriter'[w], credentialLock', generation', synced')
    BY <1>5, <1>7 DEF OrderCrash, KnowsAccount, Committing
  <2>3. KnowsShipment(w, orderWriter'[w], orderRow', reconciliation', shipment')
    <3>1. Places(w, orderWriter[w].pc) /\ KnowsShipment(w, orderWriter[w], orderRow, reconciliation, shipment)
      BY DEF OrderInv, Knows
    <3>2. w = "ship" /\ shipment' = "confirmed" =>
             shipment = "confirmed" /\ orderWriter[w].pc \notin {"insert", "read", "write", "record"}
      BY <1>2 DEF Storing
    <3>3. w = "ship" => orderWriter[w].pc \in {"idle", "insert", "read", "write", "done", "consign", "record"}
      BY <3>1 DEF Places, Upserting
    <3>4. w = "ship" /\ shipment' = "confirmed" => orderWriter[w].pc = "done"
      BY <3>1, <3>2, <3>3 DEF KnowsShipment
    <3>5. QED
      BY <1>5, <3>1, <3>2, <3>4 DEF OrderCrash, KnowsShipment
  <2>4. orderWriter'[w].age <= platformOrder'.age
    BY <1>2, <1>5 DEF Shared, PlatformOrder
  <2>5. QED
    BY <2>1, <2>2, <2>3, <2>4 DEF Knows
<1>9. OrderInv'
  BY <1>2, <1>6, <1>8 DEF OrderInv
<1>10. synced' >= synced /\ KeepsLogin
  BY <1>1, SameCookie DEF OrderCrash, Shared
<1>11. QED
  BY <1>9, <1>10, SameRowSafe DEF OrderCrash

LEMMA OrderMovesStep ==
    ASSUME OrderInv, OrderMoves
    PROVE  OrderInv' /\ StepSafe
<1>1. Shared /\ platformOrder.age \in Nat
  BY DEF OrderInv, Shared, PlatformOrder
<1>2. PICK status \in Follows(platformOrder.status) :
          /\ platformOrder' = [status |-> status, age |-> platformOrder.age + 1]
          /\ past' = past \cup {status}
  BY DEF OrderMoves
<1>3. status \in StoredStatus
  BY <1>2 DEF Follows, StoredStatus, OrderStatus
<1>4. platformOrder' \in PlatformOrder /\ platformOrder'.age = platformOrder.age + 1
  BY <1>1, <1>2, <1>3 DEF PlatformOrder
<1>5. Shared'
  BY <1>1, <1>2, <1>3, <1>4 DEF OrderMoves, Spends, Shared
<1>6. ASSUME NEW v \in OrderWriter
      PROVE  Knows(v, orderWriter'[v], orderRow', orderEdited', credentialLock', generation', synced',
                   reconciliation',
                   shipment', platformOrder'.age)
  <2>1. /\ orderWriter[v] \in WriterState /\ orderRow \in OrderRecord /\ orderEdited \in BOOLEAN
        /\ platformOrder'.age \in Nat /\ platformOrder.age <= platformOrder'.age
    BY <1>1, <1>4 DEF OrderInv, Shared
  <2>2. Leaves(v, orderRow, credentialLock, generation, synced, reconciliation, shipment)
        /\ Grows(orderRow, orderRow, orderEdited, orderEdited, shipment)
    BY <2>1 DEF Leaves, Grows, OrderRecord
  <2>3. Knows(v, orderWriter[v], orderRow, orderEdited, credentialLock, generation, synced,
              reconciliation, shipment, platformOrder'.age)
    BY <2>1, <2>2, OtherWriter
  <2>4. QED
    BY <2>3 DEF OrderMoves
<1>7. OrderInv'
  BY <1>5, <1>6 DEF OrderMoves, OrderInv
<1>8. synced' >= synced /\ KeepsLogin
  BY <1>1, SameCookie DEF OrderMoves, Shared
<1>9. QED
  BY <1>7, <1>8, SameRowSafe DEF OrderMoves

-----------------------------------------------------------------------------
(* One order and its writers: the theorems                                 *)

LEMMA OrderStarts == OrderInit => OrderInv
<1> SUFFICES ASSUME OrderInit
             PROVE  OrderInv
  OBVIOUS
<1>1. platformOrder \in PlatformOrder /\ platformOrder.age = 0 /\ past \subseteq StoredStatus
  BY DEF OrderInit, PlatformOrder, StoredStatus, OrderStatus
<1>2. orderRow \in OrderRecord /\ (orderRow.owner = "none" => orderRow = NoOrder)
  <2>1. CASE orderRow = NoOrder
    BY <2>1, RestingType
  <2>2. CASE orderRow # NoOrder
    <3> DEFINE Bound(owner, marked) ==
                 [NoOrder EXCEPT !.owner = owner, !.status = "pending_ship", !.version = 1,
                     !.touched = (owner = "buyer") /\ marked, !.deleted = (owner = "seller") /\ marked]
    <3>1. orderRow \in {Bound(owner, marked) : owner \in Account, marked \in BOOLEAN}
      <4>1. orderRow \in FirstRow
        BY <2>2 DEF OrderInit
      <4>2. FirstRow = {NoOrder} \cup {Bound(owner, marked) : owner \in Account, marked \in BOOLEAN}
        BY DEF FirstRow
      <4> HIDE DEF Bound
      <4>3. QED
        BY <2>2, <4>1, <4>2
    <3>2. ASSUME NEW owner \in Account, NEW marked \in BOOLEAN
          PROVE  Bound(owner, marked) \in OrderRecord /\ Bound(owner, marked).owner # "none"
      <4> DEFINE touched == (owner = "buyer") /\ marked
                 deleted == (owner = "seller") /\ marked
      <4>1. touched \in BOOLEAN /\ deleted \in BOOLEAN
        OBVIOUS
      <4>2. Bound(owner, marked) = [NoOrder EXCEPT !.owner = owner, !.status = "pending_ship",
                                        !.version = 1, !.touched = touched, !.deleted = deleted]
        OBVIOUS
      <4> HIDE DEF touched, deleted, Bound
      <4>3. owner # "none" /\ "pending_ship" \in OrderStatus /\ owner \in Account \cup {"none"}
        BY DEF Account, OrderStatus
      <4>4. Bound(owner, marked) = [owner |-> owner, status |-> "pending_ship", version |-> 1,
                                    deleted |-> deleted, shipped |-> FALSE, touched |-> touched]
        BY <4>2 DEF NoOrder
      <4>5. QED
        BY <4>1, <4>3, <4>4 DEF OrderRecord
    <3> HIDE DEF Bound
    <3>3. QED
      BY <3>1, <3>2
  <2>3. QED
    BY <2>1, <2>2
<1>3. Shared
  <2>1. credential \in Cookie
    BY DEF OrderInit, Loaded, Cookie
  <2>2. starts \in Nat /\ orderEnv \in Nat /\ synced \in Nat /\ synced <= platformOrder.age
    BY <1>1, OrderBounds DEF OrderInit
  <2>3. orderEdited \in BOOLEAN /\ reconciliation = "none" /\ shipment = "none"
        /\ credentialLock = NoWriter /\ generation = NoWriter
    BY DEF OrderInit
  <2>4. QED
    BY <1>1, <1>2, <2>1, <2>2, <2>3 DEF Shared
<1>4. orderWriter \in [OrderWriter -> WriterState]
  BY RestingType DEF OrderInit
<1>5. NoWriter \notin Sync
  BY SyncAssumption
<1>6. ASSUME NEW w \in OrderWriter
      PROVE  Knows(w, orderWriter[w], orderRow, orderEdited, credentialLock, generation, synced,
                   reconciliation,
          shipment, platformOrder.age)
  <2>1. /\ orderWriter[w] = Resting /\ reconciliation = "none" /\ credentialLock = NoWriter
        /\ shipment = "none"
    BY DEF OrderInit
  <2>2. QED
    BY <1>1, <1>5, <2>1, RestingType
       DEF Knows, Places, Upserting, KnowsRow, KnowsAccount, KnowsShipment, Committing
<1>7. QED
  BY <1>3, <1>4, <1>6 DEF OrderInv

LEMMA OrderStep == OrderInv /\ [OrderNext]_orderVars => OrderInv' /\ (StepSafe \/ UNCHANGED orderVars)
<1> SUFFICES ASSUME OrderInv, OrderNext
             PROVE  OrderInv' /\ StepSafe
  BY DEF orderVars, OrderInv, Shared, Knows, KnowsRow, KnowsAccount, KnowsShipment
<1>1. Sync \subseteq OrderWriter /\ {"detail", "event", "ship", "repair"} \subseteq OrderWriter
  BY DEF OrderWriter
<1>2. ASSUME NEW s \in Sync, BeginDiscovery(s) \/ SyncStep(s)
      PROVE  OrderInv' /\ StepSafe
  BY <1>1, <1>2, BeginDiscoveryStep, LoadCredentialStep, FetchOrdersStep, AcceptFetchedStep,
     CheckOwnershipStep, MoveOwnershipStep, DeleteMissingStep, InsertOrderStep, ReadOrderStep,
     WriteOrderStep DEF SyncStep, Upsert
<1>3. CASE BeginDetail \/ DetailStep
  BY <1>1, <1>3, BeginDetailStep, LoadCredentialStep, FetchOrdersStep, AcceptFetchedStep,
     InsertOrderStep, ReadOrderStep, WriteOrderStep DEF DetailStep, Upsert
<1>4. CASE OrderEvent \/ Upsert("event")
  BY <1>1, <1>4, OrderEventStep, InsertOrderStep, ReadOrderStep, WriteOrderStep DEF Upsert
<1>5. CASE BeginShip \/ ShipStep
  BY <1>1, <1>5, BeginShipStep, ConsignStep, RecordReconciliationStep, RecordFailsStep, InsertOrderStep,
     ReadOrderStep, WriteOrderStep DEF ShipStep, Upsert
<1>6. CASE RepairStep
  BY <1>1, <1>6, ReadPendingStep, MarkResolvedStep, NextTickStep, InsertOrderStep, ReadOrderStep,
     WriteOrderStep DEF RepairStep, Upsert
<1>7. ASSUME NEW w \in OrderWriter, WriteFails(w)
      PROVE  OrderInv' /\ StepSafe
  BY <1>7, WriteFailsStep
<1>8. CASE EditOrder \/ DeleteOrder \/ OrderMoves \/ Login \/ OrderCrash
  BY <1>8, UserStep, OrderMovesStep, LoginStep, OrderCrashStep
<1>9. QED
  BY <1>2, <1>3, <1>4, <1>5, <1>6, <1>7, <1>8 DEF OrderNext

\* The invariant of the order and its writers.
THEOREM OrderInvariant == OrderSpec => []OrderInv
<1>1. OrderInit => OrderInv
  BY OrderStarts
<1>2. OrderInv /\ [OrderNext]_orderVars => OrderInv'
  BY OrderStep
<1>3. QED
  BY <1>1, <1>2, PTL DEF OrderSpec

\* The order, its row and the locks are well formed; in particular the lock of
\* the account is held exactly while a synchronisation commits, whoever fails,
\* gives up or dies (discoverAccount, CredentialCoordinator).
THEOREM OrderTypes == OrderSpec => []OrderTypeOK
<1>1. OrderInv => OrderTypeOK
  BY DEF OrderInv, Shared, OrderTypeOK, PlatformOrder, StoredStatus, OrderRecord, OrderWriter, Knows, KnowsAccount
<1>2. QED
  BY <1>1, OrderInvariant, PTL

\* A shipment that the platform has confirmed is on its way into the row,
\* stored there, or its record waits for the scan, whoever else writes, moves
\* or deletes the row meanwhile (ConfirmShipment, Upsert, RecordReconciliation,
\* reconcileRecord).  The three ways to lose it are outside: the process dies
\* before the write, the record fails as well, the user takes the mark away.
THEOREM ShipmentKept == OrderSpec => []ShipmentRemembered
<1>1. OrderInv => ShipmentRemembered
  <2> SUFFICES ASSUME OrderInv, shipment = "confirmed", ~Storing
               PROVE  orderRow.shipped \/ reconciliation = "pending"
    BY DEF ShipmentRemembered
  <2>1. /\ Places("ship", orderWriter["ship"].pc)
        /\ KnowsShipment("ship", orderWriter["ship"], orderRow, reconciliation, shipment)
    BY DEF OrderInv, OrderWriter, Knows
  <2>2. orderWriter["ship"].pc \in {"idle", "consign", "done"}
    BY <2>1 DEF Places, Upserting, Storing
  <2>3. QED
    BY <2>1, <2>2 DEF KnowsShipment
<1>2. QED
  BY <1>1, OrderInvariant, PTL

\* An order moves forward only, stays with the account that acted on it, takes
\* its snapshots in their order and no answer brings back an older credential.
THEOREM OrderKept == OrderSpec => OrderSafe
<1>1. OrderInv /\ [OrderNext]_orderVars =>
        [orderRow.owner = "none" \/ orderEdited'
            \/ orderRow'.status = StatusAfter(orderRow.status, orderRow'.status)]_orderVars
  BY OrderStep DEF StepSafe, NotBack
<1>2. OrderInv /\ [OrderNext]_orderVars =>
        [(orderRow.shipped \/ orderRow.touched \/ reconciliation = "pending")
            => orderRow.owner \in {"none", orderRow'.owner}]_orderVars
  BY OrderStep DEF StepSafe, StaysWith
<1>3. OrderInv /\ [OrderNext]_orderVars => [synced' >= synced]_orderVars
  BY OrderStep DEF StepSafe
<1>4. OrderInv /\ [OrderNext]_orderVars =>
        [/\ credential'.login >= credential.login
         /\ credential'.login = credential.login => credential'.renewal >= credential.renewal]_orderVars
  BY OrderStep DEF StepSafe, KeepsLogin
<1>5. QED
  BY <1>1, <1>2, <1>3, <1>4, OrderInvariant, PTL
     DEF OrderSpec, OrderSafe, NoRegression, ActedStays, SnapshotsInOrder, CredentialKept

-----------------------------------------------------------------------------
(* The credential of one account: the invariant                            *)

RunnerPc == {"new", "renewGate", "renewCall", "renewAdopt", "top", "tokenGate", "tokenCall",
             "tokenAdopt", "answered", "captcha", "captchaAdopt", "bind", "adopt", "register",
             "registering", "online", "expired", "joining", "joined", "primary", "ended"}
GatePc == {"renewCall", "renewAdopt", "tokenCall", "tokenAdopt", "answered", "captcha", "captchaAdopt", "bind"}
\* With an answer to its request in hand.
AnsweredPc == {"tokenAdopt", "answered", "captcha", "captchaAdopt", "bind", "adopt", "register", "registering"}
BoundPc == {"adopt", "register", "registering"}

SpentState == [logins: 0 .. MaxLogins, answers: 0 .. MaxAnswers, rounds: 0 .. MaxRounds, calls: 0 .. MaxScheduled]

\* A jar with the cookies of logins and answers there have been.
Upto(jar, s) ==
    /\ jar \in Jar
    /\ \A n \in CookieName : jar[n].login <= s.logins /\ jar[n].answer <= s.answers

\* The loop's state: its token was obtained with the login of its cookie.
LoopOK(r, s) ==
    /\ r \in RunnerState /\ Upto(r.cookie, s)
    /\ r.pc = "tokenCall" => r.tries < Tries
    /\ r.pc \in AnsweredPc => r.used = r.cookie["session"].login

\* The token is bound to the cookie the loop keeps; as long as nobody replaces
\* the stored one, that is what memory has.
Kept(r, tokens, inMemory, inStore) ==
    /\ r.pc \in BoundPc => tokens = {r.cookie}
    /\ r.pc \in {"register", "registering"} /\ inStore = r.cookie => inMemory = r.cookie

Called(call, s) == call \in AnswerState /\ Upto(call.seen, s)

OneRenewal(owner, runPc, checkPc) ==
    /\ (owner = "run") = (runPc = "primary")
    /\ (owner = "checker") = (checkPc = "primary")

CredentialInv ==
    /\ spent \in SpentState
    /\ Upto(stored, spent) /\ memory \in Jar /\ \A jar \in token : jar \in Jar
    /\ LoopOK(runner, spent)
    /\ Called(late, spent) /\ Called(renewer, spent) /\ Called(lateRenewer, spent)
    /\ checker \in CheckerState /\ Upto(checker.seen, spent)
    /\ shared \in SharedState /\ Upto(shared.seen, spent)
    /\ syncer \in {"none", "gate"} /\ stop \in {"none", "marked", "waiting", "returned"}
    /\ gate = IF runner.pc \in GatePc THEN "run" ELSE "free"
    /\ OneRenewal(shared.owner, runner.pc, checker.pc)
    /\ Kept(runner, token, memory, stored)
    /\ StopQuiet

USE DEF RenewalCaller

-----------------------------------------------------------------------------
(* Jars                                                                    *)

LEMMA NoJarUpto ==
    ASSUME NEW s \in SpentState PROVE NoJar \in Jar /\ Upto(NoJar, s) /\ NoJar["session"].login = 0
  <1> USE CredentialBounds DEF NoJar, LoginJar, Jar, CookieName, CookieValue, SpentState, Upto
  <1>1. [login |-> 0, answer |-> 0] \in CookieValue
      OBVIOUS
  <1>2. \A n \in CookieName : NoJar[n] = [login |-> 0, answer |-> 0]
      OBVIOUS
  <1>3. NoJar \in Jar
      BY <1>1
  <1> QED BY <1>1, <1>2, <1>3

LEMMA LaterUpto ==
    ASSUME NEW s \in SpentState, NEW t \in SpentState, s.logins <= t.logins, s.answers <= t.answers,
           NEW jar, Upto(jar, s)
    PROVE  Upto(jar, t)
  <1> USE CredentialBounds DEF Jar, CookieName, CookieValue, SpentState, Upto
  <1> SUFFICES ASSUME NEW n \in CookieName PROVE jar[n].login <= t.logins /\ jar[n].answer <= t.answers
      OBVIOUS
  <1>1. jar[n] \in CookieValue
      OBVIOUS
  <1> QED BY <1>1

\* The books: one more answer.
LEMMA AnsweredSpent ==
    ASSUME spent \in SpentState, Answered
    PROVE  /\ spent' \in SpentState
           /\ spent.logins = spent'.logins /\ spent'.answers = spent.answers + 1
           /\ spent.answers < MaxAnswers
  BY CredentialBounds DEF SpentState, Answered

LEMMA FreshCookie ==
    ASSUME spent \in SpentState, Answered, NEW seen, Upto(seen, spent)
    PROVE  /\ FreshValue(seen) \in CookieValue
           /\ FreshValue(seen).login = seen["session"].login
           /\ FreshValue(seen).answer = spent'.answers
           /\ FreshValue(seen).login <= spent'.logins
  <1>1. seen["session"] \in CookieValue
      BY DEF Upto, Jar, CookieName
  <1> QED BY <1>1, AnsweredSpent, CredentialBounds DEF FreshValue, CookieValue, SpentState, Upto, CookieName

\* One cookie of a jar replaced by the answer's: no jar of before is that one.
LEMMA ReplacedCookie ==
    ASSUME spent \in SpentState, Answered, NEW seen, Upto(seen, spent), NEW jar, Upto(jar, spent),
           NEW n \in CookieName
    PROVE  LET after == [jar EXCEPT ![n] = FreshValue(seen)]
           IN  /\ Upto(after, spent')
               /\ after[n] = FreshValue(seen)
               /\ \A m \in CookieName \ {n} : after[m] = jar[m]
               /\ \A old : Upto(old, spent) => old # after
  <1> DEFINE after == [jar EXCEPT ![n] = FreshValue(seen)]
  <1>1. jar \in [CookieName -> CookieValue] /\ after \in [CookieName -> CookieValue]
      BY FreshCookie DEF Upto, Jar
  <1>2. after[n] = FreshValue(seen) /\ \A m \in CookieName \ {n} : after[m] = jar[m]
      BY <1>1
  <1> HIDE DEF after
  <1>3. Upto(jar, spent')
      BY AnsweredSpent, LaterUpto, CredentialBounds DEF SpentState
  <1>4. Upto(after, spent')
      BY <1>1, <1>2, <1>3, FreshCookie, AnsweredSpent DEF Upto, Jar, SpentState
  <1>5. ASSUME NEW old, Upto(old, spent) PROVE old # after
    <2>1. old[n] \in CookieValue /\ old[n].answer <= spent.answers
        BY <1>5 DEF Upto, Jar
    <2>2. after[n].answer = spent.answers + 1
        BY <1>2, FreshCookie, AnsweredSpent
    <2> QED BY <2>1, <2>2, CredentialBounds DEF SpentState, CookieValue
  <1> QED BY <1>2, <1>4, <1>5 DEF after

\* An answer put on the stored jar: its cookies have its login, the others stay.
LEMMA RebasedJar ==
    ASSUME spent \in SpentState, Answered, NEW seen, Upto(seen, spent), Upto(stored, spent),
           NEW names \in SetCookies
    PROVE  /\ Upto(Rebased(seen, names), spent')
           /\ \A n \in names : Rebased(seen, names)[n].login = seen["session"].login
           /\ \A n \in CookieName \ names : Rebased(seen, names)[n] = stored[n]
           /\ \A old : Upto(old, spent) => old # Rebased(seen, names)
  <1> DEFINE after == Rebased(seen, names)
  <1>1. names \subseteq CookieName /\ names # {}
      BY CredentialBounds DEF CookieName
  <1>2. stored \in [CookieName -> CookieValue]
      BY DEF Upto, Jar
  <1>3. after \in [CookieName -> CookieValue]
      BY <1>2, FreshCookie DEF Rebased
  <1>4. \A n \in CookieName : after[n] = IF n \in names THEN FreshValue(seen) ELSE stored[n]
      BY DEF Rebased
  <1> HIDE DEF after
  <1>5. Upto(stored, spent')
      BY AnsweredSpent, LaterUpto, CredentialBounds DEF SpentState
  <1>6. Upto(after, spent')
      BY <1>3, <1>4, <1>5, FreshCookie, AnsweredSpent DEF Upto, Jar, SpentState
  <1>7. ASSUME NEW old, Upto(old, spent) PROVE old # after
    <2>1. PICK n \in CookieName : n \in names
        BY <1>1
    <2>2. old[n] \in CookieValue /\ old[n].answer <= spent.answers
        BY <1>7 DEF Upto, Jar
    <2>3. after[n].answer = spent.answers + 1
        BY <1>4, <2>1, FreshCookie, AnsweredSpent
    <2> QED BY <2>2, <2>3, CredentialBounds DEF SpentState, CookieValue
  <1>8. (\A n \in names : after[n].login = seen["session"].login)
        /\ \A n \in CookieName \ names : after[n] = stored[n]
      BY <1>1, <1>4, FreshCookie
  <1> QED BY <1>6, <1>7, <1>8 DEF after

LEMMA StoredAnyway ==
    ASSUME spent \in SpentState, NEW seen, Upto(seen, spent), Upto(stored, spent), StoresAnyway(seen)
    PROVE  /\ spent' \in SpentState /\ spent.logins <= spent'.logins /\ spent.answers <= spent'.answers
           /\ Upto(stored', spent')
  <1>1. PICK names \in SetCookies : Answered /\ stored' = Rebased(seen, names)
      BY DEF StoresAnyway
  <1>2. Upto(stored', spent')
      BY <1>1, RebasedJar
  <1> QED BY <1>1, <1>2, AnsweredSpent, CredentialBounds DEF SpentState

LEMMA OverwrittenJar ==
    ASSUME spent \in SpentState, Answered, NEW jar, Upto(jar, spent)
    PROVE  /\ Upto(Overwritten(jar), spent')
           /\ Overwritten(jar)["session"] = jar["session"]
           /\ Overwritten(jar)["token"].login = jar["session"].login
           /\ \A old : Upto(old, spent) => old # Overwritten(jar)
  <1>1. "token" \in CookieName /\ "session" \in CookieName \ {"token"}
      BY DEF CookieName
  <1> QED BY <1>1, ReplacedCookie, FreshCookie DEF Overwritten

-----------------------------------------------------------------------------
(* The connection loop                                                     *)

LEMMA AtRest ==
    ASSUME NEW s \in SpentState, NEW pc \in RunnerPc PROVE LoopOK(RunAt(pc), s) /\ RunAt(pc).pc = pc
  <1>1. RunAt(pc) \in RunnerState
      BY NoJarUpto, CredentialBounds DEF RunAt, RunnerState, RunnerPc, Tries
  <1> QED BY <1>1, NoJarUpto DEF LoopOK, RunAt, Tries

LEMMA GoesTo ==
    ASSUME NEW s \in SpentState, NEW r, LoopOK(r, s), NEW pc \in RunnerPc \ {"tokenCall"},
           pc \in AnsweredPc => r.pc \in AnsweredPc
    PROVE  LET q == [r EXCEPT !.pc = pc]
           IN  LoopOK(q, s) /\ q.pc = pc /\ q.cookie = r.cookie /\ q.used = r.used
  <1> DEFINE q == [r EXCEPT !.pc = pc]
  <1>1. r \in RunnerState
      BY DEF LoopOK
  <1>2. q \in RunnerState /\ q.pc = pc /\ q.cookie = r.cookie /\ q.used = r.used
      BY <1>1 DEF RunnerState, RunnerPc
  <1> HIDE DEF q
  <1>3. LoopOK(q, s)
      BY <1>2 DEF LoopOK
  <1> QED BY <1>2, <1>3 DEF q

\* A step of the loop: what it has to keep.
LEMMA LoopMoves ==
    ASSUME CredentialInv, UNCHANGED <<stop, others>>,
           spent' \in SpentState, spent.logins <= spent'.logins, spent.answers <= spent'.answers,
           Upto(stored', spent'), memory' \in Jar, \A jar \in token' : jar \in Jar,
           LoopOK(runner', spent'), runner.pc # "primary", runner'.pc # "primary",
           gate' = IF runner'.pc \in GatePc THEN "run" ELSE "free",
           Called(late', spent'), late'.pc = "none" \/ late' = late \/ stop = "none",
           Kept(runner', token', memory', stored')
    PROVE  CredentialInv'
  <1>1. Called(renewer', spent') /\ Called(lateRenewer', spent')
      BY LaterUpto DEF CredentialInv, Called, others
  <1>2. checker' \in CheckerState /\ Upto(checker'.seen, spent')
        /\ shared' \in SharedState /\ Upto(shared'.seen, spent')
      BY LaterUpto DEF CredentialInv, others
  <1>3. syncer' \in {"none", "gate"} /\ stop' \in {"none", "marked", "waiting", "returned"}
      BY DEF CredentialInv, others
  <1>4. OneRenewal(shared'.owner, runner'.pc, checker'.pc)
      BY DEF CredentialInv, OneRenewal, others
  <1>5. StopQuiet'
      BY DEF CredentialInv, StopQuiet
  <1> QED BY <1>1, <1>2, <1>3, <1>4, <1>5 DEF CredentialInv

\* A step that only moves the loop, and perhaps drops the token.
LEMMA LoopOnly ==
    ASSUME CredentialInv, UNCHANGED <<stored, memory, late, stop, spent, others>>,
           token' = token \/ token' = {},
           LoopOK(runner', spent), runner.pc # "primary", runner'.pc # "primary",
           gate' = IF runner'.pc \in GatePc THEN "run" ELSE "free",
           Kept(runner', token', memory, stored)
    PROVE  CredentialInv'
  <1>1. spent' \in SpentState /\ spent.logins <= spent'.logins /\ spent.answers <= spent'.answers
      BY CredentialBounds DEF CredentialInv, SpentState
  <1>2. Upto(stored', spent') /\ memory' \in Jar /\ Called(late', spent') /\ \A jar \in token' : jar \in Jar
      BY DEF CredentialInv
  <1> QED BY <1>1, <1>2, LoopMoves

\* The gate, as far as one place or the other is concerned.
LEMMA GateOf ==
    ASSUME CredentialInv PROVE gate = "free" <=> runner.pc \notin GatePc
  BY DEF CredentialInv

LEMMA StartRunStep == CredentialInv /\ StartRun => CredentialInv'
  <1> SUFFICES ASSUME CredentialInv, StartRun PROVE CredentialInv'
      OBVIOUS
  <1>1. PICK pc \in {"ended", "renewGate"} : runner' = [runner EXCEPT !.pc = pc]
      BY DEF StartRun, RunTo
  <1>2. LoopOK(runner', spent) /\ runner'.pc = pc
      BY <1>1, GoesTo DEF CredentialInv, RunnerPc, AnsweredPc
  <1> QED BY <1>2, LoopOnly DEF StartRun, CredentialInv, Kept, BoundPc, GatePc

LEMMA BeginRenewalStep == CredentialInv /\ BeginRenewal => CredentialInv'
  <1> SUFFICES ASSUME CredentialInv, BeginRenewal PROVE CredentialInv'
      OBVIOUS
  <1>1. runner' = [runner EXCEPT !.pc = "renewCall", !.cookie = stored] /\ runner \in RunnerState /\ stored \in Jar
      BY DEF BeginRenewal, CredentialInv, LoopOK, Upto
  <1>2. runner' \in RunnerState /\ runner'.pc = "renewCall" /\ runner'.cookie = stored
      BY <1>1 DEF RunnerState
  <1>3. LoopOK(runner', spent)
      BY <1>2 DEF LoopOK, AnsweredPc, CredentialInv
  <1>4. spent.logins <= spent.logins /\ spent.answers <= spent.answers
      BY CredentialBounds DEF CredentialInv, SpentState
  <1> QED BY <1>1, <1>2, <1>3, <1>4, LoopMoves DEF BeginRenewal, CredentialInv, Kept, BoundPc, GatePc

LEMMA CommitRenewalStep == CredentialInv /\ CommitRenewal => CredentialInv'
  <1> SUFFICES ASSUME CredentialInv, CommitRenewal PROVE CredentialInv'
      OBVIOUS
  <1>0. runner \in RunnerState /\ Upto(runner.cookie, spent) /\ Upto(stored, spent) /\ spent \in SpentState
        /\ Called(late, spent)
      BY DEF CredentialInv, LoopOK
  <1>1. /\ spent' \in SpentState /\ spent.logins <= spent'.logins /\ spent.answers <= spent'.answers
        /\ Upto(stored', spent')
    <2>1. CASE stored' = stored /\ UNCHANGED spent
        BY <2>1, <1>0, CredentialBounds DEF SpentState
    <2>2. CASE StoresAnyway(runner.cookie)
        BY <2>2, <1>0, StoredAnyway
    <2> QED BY <2>1, <2>2 DEF CommitRenewal
  <1>2. PICK pending \in BOOLEAN :
          runner' = [runner EXCEPT !.pc = "renewAdopt", !.pending = pending,
                                   !.cookie = IF stored' = stored THEN @ ELSE stored']
      BY DEF CommitRenewal
  <1>3. PICK jar : /\ jar = runner.cookie \/ jar = stored'
                   /\ runner' = [runner EXCEPT !.pc = "renewAdopt", !.pending = pending, !.cookie = jar]
      BY <1>2
  <1>4. Upto(jar, spent')
      BY <1>0, <1>1, <1>3, LaterUpto
  <1>5. runner' \in RunnerState /\ runner'.pc = "renewAdopt" /\ runner'.cookie = jar
      BY <1>0, <1>3, <1>4 DEF RunnerState, Upto
  <1>6. LoopOK(runner', spent')
      BY <1>4, <1>5 DEF LoopOK, AnsweredPc
  <1>7. Called(late, spent')
      BY <1>0, <1>1, LaterUpto DEF Called
  <1> QED BY <1>1, <1>5, <1>6, <1>7, LoopMoves DEF CommitRenewal, CredentialInv, Kept, BoundPc, GatePc

LEMMA FinishRenewalStep == CredentialInv /\ FinishRenewal => CredentialInv'
  <1> SUFFICES ASSUME CredentialInv, FinishRenewal PROVE CredentialInv'
      OBVIOUS
  <1>1. LoopOK(runner', spent) /\ runner'.pc = "top"
      BY AtRest DEF FinishRenewal, LeaveTo, CredentialInv, RunnerPc
  <1>2. Called(late', spent) /\ (late' = late \/ stop = "none")
    <2>1. CASE runner.pending /\ Accepting
        BY <2>1 DEF FinishRenewal, CredentialInv, Called, LoopOK, AnswerState, Accepting, Upto
    <2>2. CASE ~(runner.pending /\ Accepting)
        BY <2>2 DEF FinishRenewal, CredentialInv
    <2> QED BY <2>1, <2>2
  <1>3. spent.logins <= spent.logins /\ spent.answers <= spent.answers
      BY CredentialBounds DEF CredentialInv, SpentState
  <1> QED BY <1>1, <1>2, <1>3, LoopMoves DEF FinishRenewal, CredentialInv, LoopOK, Upto, Kept, BoundPc, GatePc

LEMMA BeginRoundStep == CredentialInv /\ BeginRound => CredentialInv'
  <1> SUFFICES ASSUME CredentialInv, BeginRound PROVE CredentialInv'
      OBVIOUS
  <1>1. /\ spent' \in SpentState /\ spent.logins <= spent'.logins /\ spent.answers <= spent'.answers
        /\ spent'.logins <= spent.logins /\ spent'.answers <= spent.answers
      BY CredentialBounds DEF BeginRound, CredentialInv, SpentState
  <1>2. LoopOK(runner, spent') /\ Upto(stored, spent') /\ Called(late, spent')
      BY <1>1, LaterUpto DEF CredentialInv, LoopOK, Called
  <1>3. PICK pc \in {"tokenGate", "ended"} :
          LoopOK(runner', spent') /\ runner'.pc = pc /\ (token' = token \/ token' = {})
    <2>1. CASE RunTo("tokenGate") /\ UNCHANGED token
        BY <2>1, <1>1, <1>2, GoesTo DEF RunTo, RunnerPc, AnsweredPc
    <2>2. CASE ConnectFails
        BY <2>2, <1>1, AtRest DEF ConnectFails, LeaveTo, RunnerPc
    <2> QED BY <2>1, <2>2 DEF BeginRound
  <1> QED BY <1>1, <1>2, <1>3, LoopMoves DEF BeginRound, CredentialInv, Upto, Kept, BoundPc, GatePc

\* The loop forgets its call and its token.
LEMMA LeavesTo ==
    ASSUME CredentialInv, NEW pc \in RunnerPc \ (GatePc \cup BoundPc \cup {"primary"}),
           UNCHANGED <<stored, memory, late, stop, spent, others>>,
           LeaveTo(pc), token' = {}, gate' = "free", runner.pc # "primary"
    PROVE  CredentialInv'
  <1>1. LoopOK(runner', spent) /\ runner'.pc = pc
      BY AtRest DEF LeaveTo, CredentialInv
  <1> QED BY <1>1, LoopOnly DEF Kept, BoundPc

LEMMA LoopLeavesStep ==
    CredentialInv /\ (RunCanceled \/ TokenCanceled \/ CaptchaFails \/ Disconnected) => CredentialInv'
  <1> SUFFICES ASSUME CredentialInv, RunCanceled \/ TokenCanceled \/ CaptchaFails \/ Disconnected
               PROVE CredentialInv'
      OBVIOUS
  <1>1. PICK pc \in {"top", "ended"} : LeaveTo(pc)
      BY DEF RunCanceled, TokenCanceled, CaptchaFails, Disconnected, TokenFailsTo
  <1>2. token' = {} /\ runner.pc # "primary" /\ UNCHANGED <<stored, memory, late, stop, spent, others>>
      BY DEF RunCanceled, TokenCanceled, CaptchaFails, Disconnected, TokenFailsTo
  <1>3. gate' = "free"
      BY GateOf DEF RunCanceled, TokenCanceled, CaptchaFails, Disconnected, TokenFailsTo, GatePc
  <1> QED BY <1>1, <1>2, <1>3, LeavesTo DEF RunnerPc, GatePc, BoundPc

LEMMA BeginTokenStep == CredentialInv /\ BeginToken => CredentialInv'
  <1> SUFFICES ASSUME CredentialInv, BeginToken PROVE CredentialInv'
      OBVIOUS
  <1>1. runner' = [RunAt("tokenCall") EXCEPT !.cookie = stored] /\ Upto(stored, spent)
      BY DEF BeginToken, CredentialInv
  <1>2. RunAt("tokenCall") \in RunnerState /\ RunAt("tokenCall").pc = "tokenCall" /\ RunAt("tokenCall").tries = 0
      BY AtRest DEF CredentialInv, LoopOK, RunnerPc, RunAt
  <1>3. runner' \in RunnerState /\ runner'.pc = "tokenCall" /\ runner'.cookie = stored /\ runner'.tries = 0
      BY <1>1, <1>2 DEF RunnerState, Upto
  <1>4. LoopOK(runner', spent)
      BY <1>1, <1>3 DEF LoopOK, AnsweredPc, Tries
  <1>5. spent.logins <= spent.logins /\ spent.answers <= spent.answers
      BY CredentialBounds DEF CredentialInv, SpentState
  <1> QED BY <1>3, <1>4, <1>5, LoopMoves DEF BeginToken, CredentialInv, Upto, Kept, BoundPc, GatePc

LEMMA CompareTokenStep == CredentialInv /\ CompareToken => CredentialInv'
  <1> SUFFICES ASSUME CredentialInv, CompareToken PROVE CredentialInv'
      OBVIOUS
  <1>0. /\ runner \in RunnerState /\ runner.tries + 1 \in 0 .. Tries /\ runner.tries < Tries
        /\ Upto(runner.cookie, spent) /\ Upto(stored, spent) /\ runner.pc = "tokenCall" /\ gate = "run"
        /\ stored["session"].login \in 0 .. MaxLogins
    <2>1. stored["session"] \in CookieValue
        BY DEF CredentialInv, Upto, Jar, CookieName
    <2> QED BY <2>1 DEF CompareToken, CredentialInv, LoopOK, RunnerState, GatePc, CookieValue, Tries
  <1>1. CASE /\ stored = runner.cookie
             /\ runner' = [runner EXCEPT !.pc = "tokenAdopt", !.tries = @ + 1, !.used = stored["session"].login]
             /\ UNCHANGED <<gate, token>>
    <2>1. /\ runner' \in RunnerState /\ runner'.pc = "tokenAdopt" /\ runner'.cookie = runner.cookie
          /\ runner'.used = stored["session"].login
        BY <1>0, <1>1 DEF RunnerState
    <2>2. LoopOK(runner', spent)
        BY <1>0, <1>1, <2>1 DEF LoopOK
    <2> QED BY <1>0, <1>1, <2>1, <2>2, LoopOnly DEF CompareToken, Kept, BoundPc, GatePc
  <1>2. CASE /\ runner.tries + 1 < Tries
             /\ runner' = [runner EXCEPT !.cookie = stored, !.moved = FALSE, !.tries = @ + 1]
             /\ UNCHANGED <<gate, token>>
    <2>1. /\ runner' \in RunnerState /\ runner'.pc = "tokenCall" /\ runner'.cookie = stored
          /\ runner'.tries = runner.tries + 1
        BY <1>0, <1>2 DEF RunnerState, Upto
    <2>2. LoopOK(runner', spent)
        BY <1>0, <1>2, <2>1 DEF LoopOK, AnsweredPc
    <2> QED BY <1>0, <1>2, <2>1, <2>2, LoopOnly DEF CompareToken, Kept, BoundPc, GatePc
  <1>3. CASE TokenFailsTo("top")
      BY <1>0, <1>3, LeavesTo DEF CompareToken, TokenFailsTo, RunnerPc, GatePc, BoundPc
  <1> QED BY <1>1, <1>2, <1>3 DEF CompareToken

\* The loop stores what it got with its token: the login stays.
LEMMA OverwriteStep ==
    ASSUME CredentialInv, NEW pc \in {"answered", "captchaAdopt"},
           runner.pc \in {"tokenAdopt", "captcha"},
           Answered, stored' = Overwritten(runner.cookie), memory' = memory \/ memory' = stored',
           stored' \in Jar => runner' \in RunnerState,
           runner'.pc = pc, runner'.cookie = stored', runner'.used = runner.used,
           UNCHANGED <<gate, token, late, stop, others>>
    PROVE  CredentialInv'
  <1>0. spent \in SpentState /\ LoopOK(runner, spent)
      BY DEF CredentialInv
  <1>1. spent' \in SpentState /\ spent.logins <= spent'.logins /\ spent.answers <= spent'.answers
      BY <1>0, AnsweredSpent, CredentialBounds DEF SpentState
  <1>2. Upto(stored', spent') /\ stored'["session"] = runner.cookie["session"]
      BY <1>0, OverwrittenJar DEF LoopOK
  <1>3. runner' \in RunnerState
      BY <1>2 DEF Upto
  <1>4. LoopOK(runner', spent')
      BY <1>0, <1>2, <1>3 DEF LoopOK, AnsweredPc
  <1>5. Called(late', spent') /\ memory' \in Jar
      BY <1>0, <1>1, <1>2, LaterUpto DEF CredentialInv, Called, Upto
  <1> QED BY <1>1, <1>2, <1>3, <1>4, <1>5, LoopMoves DEF CredentialInv, Kept, BoundPc, GatePc

LEMMA AdoptTokenStep == CredentialInv /\ AdoptToken => CredentialInv'
  <1> SUFFICES ASSUME CredentialInv, AdoptToken PROVE CredentialInv'
      OBVIOUS
  <1>1. CASE RunTo("answered") /\ UNCHANGED <<stored, memory, spent>>
    <2>1. LoopOK(runner', spent) /\ runner'.pc = "answered"
        BY <1>1, GoesTo DEF RunTo, AdoptToken, CredentialInv, RunnerPc, AnsweredPc
    <2> QED BY <1>1, <2>1, LoopOnly DEF AdoptToken, CredentialInv, Kept, BoundPc, GatePc
  <1>2. CASE ~(RunTo("answered") /\ UNCHANGED <<stored, memory, spent>>)
    <2>1. PICK moved \in BOOLEAN :
            /\ runner.pc = "tokenAdopt" /\ Answered
            /\ stored' = Overwritten(runner.cookie) /\ memory' = stored'
            /\ runner' = [runner EXCEPT !.pc = "answered", !.cookie = stored', !.moved = moved]
            /\ UNCHANGED <<gate, token, late, stop, others>>
        BY <1>2 DEF AdoptToken
    <2>2. runner \in RunnerState
        BY DEF CredentialInv, LoopOK
    <2>3. /\ stored' \in Jar => runner' \in RunnerState
          /\ runner'.pc = "answered" /\ runner'.cookie = stored' /\ runner'.used = runner.used
        BY <2>1, <2>2 DEF RunnerState
    <2> QED BY <2>1, <2>3, OverwriteStep
  <1> QED BY <1>1, <1>2

LEMMA SolveCaptchaStep == CredentialInv /\ SolveCaptcha => CredentialInv'
  <1> SUFFICES ASSUME CredentialInv, SolveCaptcha PROVE CredentialInv'
      OBVIOUS
  <1>1. runner \in RunnerState
      BY DEF CredentialInv, LoopOK
  <1>2. /\ stored' \in Jar => runner' \in RunnerState
        /\ runner'.pc = "captchaAdopt" /\ runner'.cookie = stored' /\ runner'.used = runner.used
    <2>1. runner' = [runner EXCEPT !.pc = "captchaAdopt", !.cookie = stored']
        BY DEF SolveCaptcha
    <2> QED BY <1>1, <2>1 DEF RunnerState
  <1>3. /\ runner.pc = "captcha" /\ Answered /\ stored' = Overwritten(runner.cookie) /\ memory' = memory
        /\ UNCHANGED <<gate, token, late, stop, others>>
      BY DEF SolveCaptcha
  <1> QED BY <1>2, <1>3, OverwriteStep

LEMMA AdoptCaptchaStep == CredentialInv /\ AdoptCaptcha => CredentialInv'
  <1> SUFFICES ASSUME CredentialInv, AdoptCaptcha PROVE CredentialInv'
      OBVIOUS
  <1>0. /\ runner \in RunnerState /\ Upto(runner.cookie, spent) /\ runner.pc = "captchaAdopt" /\ gate = "run"
        /\ spent \in SpentState /\ spent.logins <= spent.logins /\ spent.answers <= spent.answers
        /\ UNCHANGED <<late, stop, spent, others>> /\ stored' = runner.cookie /\ memory' = runner.cookie
    <2>1. /\ runner.pc = "captchaAdopt" /\ UNCHANGED <<late, stop, spent, others>>
          /\ stored' = runner.cookie /\ memory' = runner.cookie
        BY DEF AdoptCaptcha
    <2>2. spent \in SpentState /\ spent.logins <= spent.logins /\ spent.answers <= spent.answers
        BY CredentialBounds DEF CredentialInv, SpentState
    <2>3. runner \in RunnerState /\ Upto(runner.cookie, spent) /\ gate = "run"
        BY <2>1 DEF CredentialInv, LoopOK, GatePc
    <2> QED BY <2>1, <2>2, <2>3
  <1>1. ASSUME runner.tries < Tries, UNCHANGED <<gate, token>>, NEW moved \in BOOLEAN,
               runner' = [runner EXCEPT !.pc = "tokenCall", !.moved = @ \/ moved]
        PROVE  CredentialInv'
    <2>1. /\ runner' \in RunnerState /\ runner'.pc = "tokenCall" /\ runner'.cookie = runner.cookie
          /\ runner'.tries < Tries
        BY <1>0, <1>1 DEF RunnerState
    <2>2. LoopOK(runner', spent)
        BY <1>0, <2>1 DEF LoopOK, AnsweredPc
    <2> QED BY <1>0, <1>1, <2>1, <2>2, LoopMoves DEF CredentialInv, Upto, Kept, BoundPc, GatePc
  <1>2. CASE TokenFailsTo("top")
    <2>1. LoopOK(runner', spent) /\ runner'.pc = "top" /\ token' = {} /\ gate' = "free"
        BY <1>2, AtRest DEF TokenFailsTo, LeaveTo, CredentialInv, RunnerPc
    <2> QED BY <1>0, <2>1, LoopMoves DEF CredentialInv, Upto, Kept, BoundPc, GatePc
  <1> QED BY <1>1, <1>2 DEF AdoptCaptcha

LEMMA JudgeTokenStep == CredentialInv /\ JudgeToken => CredentialInv'
  <1> SUFFICES ASSUME CredentialInv, JudgeToken PROVE CredentialInv'
      OBVIOUS
  <1>0. UNCHANGED <<stored, memory, late, stop, spent, others>> /\ runner.pc = "answered"
      BY DEF JudgeToken
  <1>1. ASSUME NEW pc \in {"bind", "captcha"}, RunTo(pc), UNCHANGED <<gate, token>> PROVE CredentialInv'
    <2>1. LoopOK(runner', spent) /\ runner'.pc = pc
        BY <1>0, <1>1, GoesTo DEF RunTo, CredentialInv, RunnerPc, AnsweredPc
    <2> QED BY <1>0, <1>1, <2>1, LoopOnly DEF CredentialInv, Kept, BoundPc, GatePc
  <1>2. ASSUME NEW pc \in {"expired", "top"}, TokenFailsTo(pc) PROVE CredentialInv'
      BY <1>0, <1>2, LeavesTo DEF TokenFailsTo, RunnerPc, GatePc, BoundPc
  <1> QED BY <1>1, <1>2 DEF JudgeToken

LEMMA BindTokenStep == CredentialInv /\ BindToken => CredentialInv'
  <1> SUFFICES ASSUME CredentialInv, BindToken PROVE CredentialInv'
      OBVIOUS
  <1>0. /\ UNCHANGED <<stored, memory, late, stop, spent, others>> /\ runner.pc = "bind"
        /\ spent \in SpentState /\ spent.logins <= spent.logins /\ spent.answers <= spent.answers
      BY CredentialBounds DEF BindToken, CredentialInv, SpentState
  <1>1. CASE stored = runner.cookie /\ token' = {stored} /\ gate' = "free" /\ RunTo("adopt")
    <2>1. LoopOK(runner', spent) /\ runner'.pc = "adopt" /\ runner'.cookie = runner.cookie
        BY <1>0, <1>1, GoesTo DEF RunTo, CredentialInv, RunnerPc, AnsweredPc
    <2> QED BY <1>0, <1>1, <2>1, LoopMoves DEF CredentialInv, Upto, Kept, BoundPc, GatePc
  <1>2. CASE TokenFailsTo("top")
      BY <1>0, <1>2, LeavesTo DEF TokenFailsTo, RunnerPc, GatePc, BoundPc
  <1> QED BY <1>1, <1>2 DEF BindToken

LEMMA KeepCookieStep == CredentialInv /\ KeepCookie => CredentialInv'
  <1> SUFFICES ASSUME CredentialInv, KeepCookie PROVE CredentialInv'
      OBVIOUS
  <1>1. LoopOK(runner', spent) /\ runner'.pc = "register" /\ runner'.cookie = runner.cookie
      BY GoesTo DEF KeepCookie, RunTo, CredentialInv, RunnerPc, AnsweredPc
  <1>2. spent.logins <= spent.logins /\ spent.answers <= spent.answers
      BY CredentialBounds DEF CredentialInv, SpentState
  <1> QED BY <1>1, <1>2, LoopMoves DEF KeepCookie, CredentialInv, LoopOK, Upto, Kept, BoundPc, GatePc

LEMMA GoRoundStep ==
    ASSUME CredentialInv, GoRound, runner.pc \in {"register", "registering"},
           UNCHANGED <<stored, gate, late, stop, spent, others>>
    PROVE  CredentialInv'
  <1>1. LoopOK(runner', spent) /\ runner'.pc = "top"
      BY AtRest DEF GoRound, LeaveTo, CredentialInv, RunnerPc
  <1>2. spent.logins <= spent.logins /\ spent.answers <= spent.answers
      BY CredentialBounds DEF CredentialInv, SpentState
  <1> QED BY <1>1, <1>2, LoopMoves DEF GoRound, CredentialInv, Upto, Kept, BoundPc, GatePc

LEMMA RegisterStep == CredentialInv /\ (Register \/ Registered) => CredentialInv'
  <1> SUFFICES ASSUME CredentialInv, Register \/ Registered PROVE CredentialInv'
      OBVIOUS
  <1>0. UNCHANGED <<stored, gate, late, stop, spent, others>> /\ runner.pc \in {"register", "registering"}
      BY DEF Register, Registered
  <1>1. ASSUME NEW pc \in {"registering", "online"}, RunTo(pc), UNCHANGED <<memory, token>> PROVE CredentialInv'
    <2>1. LoopOK(runner', spent) /\ runner'.pc = pc /\ runner'.cookie = runner.cookie
        BY <1>0, <1>1, GoesTo DEF RunTo, CredentialInv, RunnerPc, AnsweredPc
    <2> QED BY <1>0, <1>1, <2>1, LoopOnly DEF CredentialInv, Kept, BoundPc, GatePc
  <1>2. ASSUME ConnectFails, UNCHANGED memory PROVE CredentialInv'
    <2>1. LoopOK(runner', spent) /\ runner'.pc = "ended" /\ token' = {}
        BY <1>2, AtRest DEF ConnectFails, LeaveTo, CredentialInv, RunnerPc
    <2> QED BY <1>0, <1>2, <2>1, LoopOnly DEF CredentialInv, Kept, BoundPc, GatePc
  <1> QED BY <1>0, <1>1, <1>2, GoRoundStep DEF Register, Registered

-----------------------------------------------------------------------------
(* Everybody else                                                          *)

\* A step of another process: it may send the waiting loop on, and what it
\* stores is a jar there has not been.
LEMMA RestMoves ==
    ASSUME CredentialInv, UNCHANGED <<gate, token>>,
           spent' \in SpentState, spent.logins <= spent'.logins, spent.answers <= spent'.answers,
           Upto(stored', spent'), memory' \in Jar,
           \/ stored' = stored /\ (memory' = memory \/ memory' = stored)
           \/ memory' = stored'
           \/ \A old : Upto(old, spent) => old # stored',
           \/ runner' = runner
           \/ /\ runner.pc \notin GatePc
              /\ \E pc \in RunnerPc \ (GatePc \cup BoundPc) : runner' = RunAt(pc),
           Called(late', spent'), late'.pc = "none" \/ late' = late,
           Called(renewer', spent'), Called(lateRenewer', spent'),
           checker' \in CheckerState, Upto(checker'.seen, spent'),
           shared' \in SharedState, Upto(shared'.seen, spent'),
           syncer' \in {"none", "gate"}, stop' \in {"none", "marked", "waiting", "returned"},
           stop' = "returned" => stop = "returned" \/ late'.pc = "none",
           OneRenewal(shared'.owner, runner'.pc, checker'.pc)
    PROVE  CredentialInv'
  <1>1. CASE runner' = runner
    <2>1. LoopOK(runner, spent')
        BY LaterUpto DEF CredentialInv, LoopOK
    <2>2. Kept(runner, token, memory', stored')
        BY DEF CredentialInv, Kept, LoopOK
    <2>3. StopQuiet'
        BY DEF CredentialInv, StopQuiet
    <2> QED BY <1>1, <2>1, <2>2, <2>3 DEF CredentialInv
  <1>2. CASE \E pc \in RunnerPc \ (GatePc \cup BoundPc) : runner.pc \notin GatePc /\ runner' = RunAt(pc)
    <2>1. PICK pc \in RunnerPc \ (GatePc \cup BoundPc) : runner.pc \notin GatePc /\ runner' = RunAt(pc)
        BY <1>2
    <2>2. LoopOK(runner', spent') /\ runner'.pc = pc
        BY <2>1, AtRest
    <2>3. Kept(runner', token, memory', stored')
        BY <2>2 DEF Kept, BoundPc
    <2>4. StopQuiet'
        BY DEF CredentialInv, StopQuiet
    <2> QED BY <2>1, <2>2, <2>3, <2>4 DEF CredentialInv
  <1> QED BY <1>1, <1>2

\* Nothing but the places of the processes.
LEMMA NothingSpent ==
    ASSUME CredentialInv
    PROVE  spent \in SpentState /\ spent.logins <= spent.logins /\ spent.answers <= spent.answers
  BY CredentialBounds DEF CredentialInv, SpentState

\* What holds of the processes that do not move, when the books do.
LEMMA OthersLater ==
    ASSUME CredentialInv, NEW s \in SpentState, spent.logins <= s.logins, spent.answers <= s.answers
    PROVE  /\ Upto(stored, s) /\ Called(late, s) /\ Called(renewer, s) /\ Called(lateRenewer, s)
           /\ checker \in CheckerState /\ Upto(checker.seen, s)
           /\ shared \in SharedState /\ Upto(shared.seen, s)
  BY LaterUpto DEF CredentialInv, Called

LEMMA LateAnswerStep == CredentialInv /\ LateStep => CredentialInv'
  <1> SUFFICES ASSUME CredentialInv, LateStep PROVE CredentialInv'
      OBVIOUS
  <1>1. /\ spent' \in SpentState /\ spent.logins <= spent'.logins /\ spent.answers <= spent'.answers
        /\ Upto(stored', spent') /\ memory' \in Jar
        /\ memory' = stored' \/ (memory' = memory /\ stored' = stored)
    <2>1. CASE PersistLate
      <3>1. StoresAnyway(late.seen) /\ memory' = stored' /\ Upto(late.seen, spent) /\ Upto(stored, spent)
            /\ spent \in SpentState
          BY <2>1 DEF PersistLate, CredentialInv, Called
      <3> QED BY <3>1, StoredAnyway DEF Upto
    <2>2. CASE LateEnds
        BY <2>2, NothingSpent DEF LateEnds, CredentialInv
    <2> QED BY <2>1, <2>2 DEF LateStep
  <1>2. late' = NoCall /\ UNCHANGED <<gate, token, runner, stop, others>>
      BY DEF LateStep, PersistLate, LateEnds
  <1>3. Called(NoCall, spent') /\ NoCall.pc = "none"
      BY <1>1, NoJarUpto DEF Called, NoCall, AnswerState
  <1> QED BY <1>1, <1>2, <1>3, OthersLater, RestMoves DEF others, CredentialInv

\* A caller of the protocol renewal goes on: the loop or the checker.
LEMMA CallerMoves ==
    ASSUME CredentialInv, NEW p \in RenewalCaller,
           NEW pc \in {"none", "joining", "joined", "primary", "top", "ended"},
           p = "run" => pc # "none", p = "checker" => pc \notin {"top", "ended"},
           CallerTo(p, pc), PcOf(p) \in {"expired", "joining", "joined"},
           UNCHANGED <<stored, memory, gate, token, late, renewer, lateRenewer, syncer, stop, spent>>,
           shared' \in SharedState, Upto(shared'.seen, spent),
           OneRenewal(shared'.owner, IF p = "run" THEN pc ELSE runner.pc, IF p = "run" THEN checker.pc ELSE pc)
    PROVE  CredentialInv'
  <1>1. CASE p = "run"
    <2>1. runner' = RunAt(pc) /\ checker' = checker /\ pc \in RunnerPc \ (GatePc \cup BoundPc)
          /\ runner.pc \notin GatePc
        BY <1>1 DEF CallerTo, LeaveTo, PcOf, RunnerPc, GatePc, BoundPc
    <2>2. runner'.pc = pc
        BY <2>1, AtRest, NothingSpent
    <2> QED BY <1>1, <2>1, <2>2, NothingSpent, OthersLater, RestMoves DEF CredentialInv
  <1>2. CASE p = "checker"
    <2>1. checker' = [NoCall EXCEPT !.pc = pc] /\ runner' = runner
        BY <1>2 DEF CallerTo
    <2>2. checker' \in CheckerState /\ checker'.pc = pc /\ Upto(checker'.seen, spent)
        BY <1>2, <2>1, NothingSpent, NoJarUpto DEF NoCall, CheckerState
    <2> QED BY <1>2, <2>1, <2>2, NothingSpent, OthersLater, RestMoves DEF CredentialInv
  <1> QED BY <1>1, <1>2

LEMMA RenewalCallerStep == CredentialInv /\ RenewalStep => CredentialInv'
  <1> SUFFICES ASSUME CredentialInv, NEW p \in RenewalCaller, RenewalRefused(p) \/ BeginShared(p) \/ JoinShared(p)
               PROVE CredentialInv'
      BY DEF RenewalStep
  <1>0. OneRenewal(shared.owner, runner.pc, checker.pc) /\ shared \in SharedState /\ Upto(shared.seen, spent)
        /\ PcOf(p) # "primary"
      BY DEF CredentialInv, RenewalRefused, BeginShared, JoinShared
  <1>1. CASE RenewalRefused(p)
    <2> DEFINE pc == IF p = "checker" THEN "none" ELSE "ended"
    <2>1. AfterRenewal(p, FALSE) = pc
        BY DEF AfterRenewal
    <2>2. OneRenewal(shared.owner, IF p = "run" THEN pc ELSE runner.pc, IF p = "run" THEN checker.pc ELSE pc)
        BY <1>0 DEF OneRenewal, PcOf
    <2> QED BY <1>0, <1>1, <2>1, <2>2, CallerMoves DEF RenewalRefused
  <1>2. CASE BeginShared(p)
    <2>1. CASE /\ shared.owner = "none" /\ shared' = [owner |-> p, seen |-> stored, late |-> FALSE]
               /\ CallerTo(p, "primary")
      <3>1. shared' \in SharedState /\ shared'.owner = p /\ Upto(shared'.seen, spent)
          BY <2>1 DEF CredentialInv, SharedState, Upto
      <3>2. OneRenewal(p, IF p = "run" THEN "primary" ELSE runner.pc, IF p = "run" THEN checker.pc ELSE "primary")
          BY <1>0, <2>1 DEF OneRenewal
      <3> QED BY <1>2, <2>1, <3>1, <3>2, CallerMoves DEF BeginShared
    <2>2. CASE CallerTo(p, "joining") /\ UNCHANGED shared
      <3>1. OneRenewal(shared.owner, IF p = "run" THEN "joining" ELSE runner.pc,
                       IF p = "run" THEN checker.pc ELSE "joining")
          BY <1>0 DEF OneRenewal, PcOf
      <3> QED BY <1>0, <1>2, <2>2, <3>1, CallerMoves DEF BeginShared
    <2> QED BY <1>2, <2>1, <2>2 DEF BeginShared
  <1>3. CASE JoinShared(p)
    <2>1. PICK pc \in {"none", "ended", "joined"} :
            /\ CallerTo(p, pc)
            /\ p = "run" => pc # "none"
            /\ p = "checker" => pc # "ended"
        BY <1>3 DEF JoinShared, AfterRenewal
    <2>2. OneRenewal(shared.owner, IF p = "run" THEN pc ELSE runner.pc, IF p = "run" THEN checker.pc ELSE pc)
        BY <1>0 DEF OneRenewal, PcOf
    <2> QED BY <1>0, <1>3, <2>1, <2>2, CallerMoves DEF JoinShared
  <1> QED BY <1>1, <1>2, <1>3

\* An answer that meets no conflict keeps the session's login; the request
\* token's too, if the call was made with a jar that was whole.
LEMMA NoConflictRebase ==
    ASSUME CredentialInv, NEW seen, Upto(seen, spent), StoresFor(seen)
    PROVE  /\ spent' \in SpentState /\ spent.logins <= spent'.logins /\ spent.answers <= spent'.answers
           /\ Upto(stored', spent') /\ \A old : Upto(old, spent) => old # stored'
           /\ stored'["session"].login = stored["session"].login
           /\ WholeJar(seen) => stored'["token"].login = stored["token"].login
  <1>1. PICK names \in SetCookies : Answered /\ ~Conflict(seen, names) /\ stored' = Rebased(seen, names)
      BY DEF StoresFor
  <1>2. spent \in SpentState /\ Upto(stored, spent)
      BY DEF CredentialInv
  <1>3. /\ Upto(stored', spent') /\ \A old : Upto(old, spent) => old # stored'
        /\ \A n \in names : stored'[n].login = seen["session"].login
        /\ \A n \in CookieName \ names : stored'[n] = stored[n]
      BY <1>1, <1>2, RebasedJar
  <1>4. \A n \in names : stored[n] = seen[n]
      BY <1>1 DEF Conflict
  <1>5. stored'["session"].login = stored["session"].login
      BY <1>3, <1>4 DEF CookieName
  <1>6. WholeJar(seen) => stored'["token"].login = stored["token"].login
      BY <1>3, <1>4 DEF CookieName, WholeJar
  <1> QED BY <1>1, <1>2, <1>3, <1>5, <1>6, AnsweredSpent, CredentialBounds DEF SpentState

LEMMA NothingIsStored ==
    ASSUME CredentialInv, NothingStored
    PROVE  /\ spent' \in SpentState /\ spent.logins <= spent'.logins /\ spent.answers <= spent'.answers
           /\ Upto(stored', spent') /\ stored' = stored
  BY NothingSpent DEF NothingStored, CredentialInv

LEMMA SharedAnswerStores ==
    ASSUME CredentialInv, SharedAnswer
    PROVE  /\ spent' \in SpentState /\ spent.logins <= spent'.logins /\ spent.answers <= spent'.answers
           /\ Upto(stored', spent')
           /\ stored' = stored \/ \A old : Upto(old, spent) => old # stored'
           /\ stored'["session"].login = stored["session"].login
           /\ WholeJar(shared.seen) => stored'["token"].login = stored["token"].login
  <1>1. CASE StoreShared
      BY <1>1, NoConflictRebase DEF StoreShared, CredentialInv
  <1>2. CASE NothingStored
      BY <1>2, NothingIsStored
  <1> QED BY <1>1, <1>2 DEF SharedAnswer

LEMMA SharedAnswerStep == CredentialInv /\ SharedAnswer => CredentialInv'
  <1> SUFFICES ASSUME CredentialInv, SharedAnswer PROVE CredentialInv'
      OBVIOUS
  <1>0. /\ UNCHANGED <<memory, gate, token, late, renewer, lateRenewer, syncer, stop>>
        /\ OneRenewal(shared.owner, runner.pc, checker.pc) /\ shared \in SharedState
      BY DEF SharedAnswer, CredentialInv
  <1>1. ASSUME NEW renewed \in BOOLEAN, FinishShared(renewed) PROVE CredentialInv'
    <2>1. shared' \in SharedState /\ shared'.owner = "none" /\ Upto(shared'.seen, spent')
        BY <1>1, SharedAnswerStores, NoJarUpto DEF FinishShared, NoShared, SharedState
    <2>2. /\ runner' = runner /\ runner'.pc # "primary"
          \/ /\ runner.pc \notin GatePc
             /\ \E pc \in {"top", "ended"} : runner' = RunAt(pc)
      <3>1. CASE Served("run")
          BY <1>0, <1>1, <3>1 DEF FinishShared, Served, PcOf, OneRenewal, AfterRenewal, GatePc
      <3>2. CASE ~Served("run")
          BY <1>0, <1>1, <3>2 DEF FinishShared, Served, OneRenewal
      <3> QED BY <3>1, <3>2
    <2>3. runner'.pc # "primary"
        BY <2>2, AtRest, SharedAnswerStores DEF RunnerPc
    <2>4. checker' \in CheckerState /\ Upto(checker'.seen, spent') /\ checker'.pc # "primary"
      <3>1. CASE Served("checker")
          BY <1>1, <3>1, SharedAnswerStores, NoJarUpto DEF FinishShared, NoCall, CheckerState
      <3>2. CASE ~Served("checker")
          BY <1>0, <1>1, <3>2, SharedAnswerStores, OthersLater DEF FinishShared, Served, OneRenewal
      <3> QED BY <3>1, <3>2
    <2>5. OneRenewal(shared'.owner, runner'.pc, checker'.pc)
        BY <2>1, <2>3, <2>4 DEF OneRenewal
    <2>6. \/ runner' = runner
          \/ runner.pc \notin GatePc /\ \E pc \in RunnerPc \ (GatePc \cup BoundPc) : runner' = RunAt(pc)
        BY <2>2 DEF RunnerPc, GatePc, BoundPc
    <2> QED BY <1>0, <2>1, <2>4, <2>5, <2>6, SharedAnswerStores, OthersLater, RestMoves DEF CredentialInv
  <1>2. ASSUME shared' = [shared EXCEPT !.late = TRUE, !.seen = IF stored' = stored THEN @ ELSE stored'],
               UNCHANGED <<runner, checker>>
        PROVE  CredentialInv'
    <2>1. PICK jar : (jar = shared.seen \/ jar = stored') /\ shared' = [shared EXCEPT !.late = TRUE, !.seen = jar]
        BY <1>2
    <2>2. Upto(jar, spent')
        BY <2>1, SharedAnswerStores, OthersLater
    <2>3. shared' \in SharedState /\ shared'.owner = shared.owner /\ shared'.seen = jar
        BY <1>0, <2>1, <2>2 DEF SharedState, Upto
    <2> QED BY <1>0, <1>2, <2>2, <2>3, SharedAnswerStores, OthersLater, RestMoves DEF CredentialInv
  <1> QED BY <1>1, <1>2 DEF SharedAnswer

LEMMA CommitAPIRenewalStep == CredentialInv /\ CommitAPIRenewal => CredentialInv'
  <1> SUFFICES ASSUME CredentialInv, CommitAPIRenewal PROVE CredentialInv'
      OBVIOUS
  <1>1. /\ spent' \in SpentState /\ spent.logins <= spent'.logins /\ spent.answers <= spent'.answers
        /\ Upto(stored', spent') /\ (stored' = stored \/ \A old : Upto(old, spent) => old # stored')
      BY NothingIsStored, NoConflictRebase DEF CommitAPIRenewal, CredentialInv, Called
  <1>2. Called(renewer', spent')
      BY <1>1, NoJarUpto DEF CommitAPIRenewal, NoCall, Called, AnswerState
  <1>3. Called(lateRenewer', spent')
      BY <1>1, OthersLater DEF CommitAPIRenewal
  <1>4. UNCHANGED <<checker, memory, gate, token, runner, late, shared, syncer, stop>>
      BY DEF CommitAPIRenewal, loop
  <1> QED BY <1>1, <1>2, <1>3, <1>4, OthersLater, RestMoves DEF CredentialInv

LEMMA CommitLateStep == CredentialInv /\ CommitLateAPIRenewal => CredentialInv'
  <1> SUFFICES ASSUME CredentialInv, CommitLateAPIRenewal PROVE CredentialInv'
      OBVIOUS
  <1>1. /\ spent' \in SpentState /\ spent.logins <= spent'.logins /\ spent.answers <= spent'.answers
        /\ Upto(stored', spent') /\ (stored' = stored \/ \A old : Upto(old, spent) => old # stored')
      BY NothingIsStored, NoConflictRebase DEF CommitLateAPIRenewal, CredentialInv, Called
  <1>2. Called(lateRenewer', spent')
      BY <1>1, NoJarUpto DEF CommitLateAPIRenewal, NoCall, Called, AnswerState
  <1>3. UNCHANGED <<renewer, checker, memory, gate, token, runner, late, shared, syncer, stop>>
      BY DEF CommitLateAPIRenewal, loop
  <1> QED BY <1>1, <1>2, <1>3, OthersLater, RestMoves DEF CredentialInv

\* The status check stores its answer only on what it has seen.
LEMMA CheckStores ==
    ASSUME CredentialInv, CommitCheck
    PROVE  /\ spent' \in SpentState /\ spent.logins <= spent'.logins /\ spent.answers <= spent'.answers
           /\ Upto(stored', spent') /\ (stored' = stored \/ \A old : Upto(old, spent) => old # stored')
           /\ stored'["session"].login = stored["session"].login
           /\ WholeJar(checker.seen) => stored'["token"].login = stored["token"].login
  <1>1. CASE NothingStored
      BY <1>1, NothingIsStored
  <1>2. CASE Answered /\ stored = checker.seen /\ stored' = Overwritten(checker.seen)
      BY <1>2, AnsweredSpent, OverwrittenJar, CredentialBounds DEF CredentialInv, SpentState, WholeJar
  <1> QED BY <1>1, <1>2 DEF CommitCheck

LEMMA CommitCheckStep == CredentialInv /\ CommitCheck => CredentialInv'
  <1> SUFFICES ASSUME CredentialInv, CommitCheck PROVE CredentialInv'
      OBVIOUS
  <1>1. PICK pc \in {"none", "expired"} : checker' = [NoCall EXCEPT !.pc = pc]
      BY DEF CommitCheck, NoCall
  <1>2. checker' \in CheckerState /\ checker'.pc = pc /\ Upto(checker'.seen, spent')
      BY <1>1, CheckStores, NoJarUpto DEF NoCall, CheckerState
  <1>3. UNCHANGED <<renewer, lateRenewer, memory, gate, token, runner, late, shared, syncer, stop>>
        /\ checker.pc = "called"
      BY DEF CommitCheck, loop
  <1>4. OneRenewal(shared.owner, runner.pc, pc)
      BY <1>3 DEF CredentialInv, OneRenewal
  <1> QED BY <1>2, <1>3, <1>4, CheckStores, OthersLater, RestMoves DEF CredentialInv

LEMMA BeginCallStep == CredentialInv /\ (BeginAPIRenewal \/ BeginCheck) => CredentialInv'
  <1> SUFFICES ASSUME CredentialInv, BeginAPIRenewal \/ BeginCheck PROVE CredentialInv'
      OBVIOUS
  <1>1. spent' \in SpentState /\ spent.logins <= spent'.logins /\ spent.answers <= spent'.answers
      BY CredentialBounds DEF BeginAPIRenewal, BeginCheck, CallLeft, CredentialInv, SpentState
  <1>2. UNCHANGED <<stored, lateRenewer, memory, gate, token, runner, late, shared, syncer, stop>>
      BY DEF BeginAPIRenewal, BeginCheck, loop
  <1>3. Upto(stored, spent') /\ stored \in Jar
      BY <1>1, OthersLater DEF Upto
  <1>4. CASE BeginAPIRenewal
    <2>1. Called(renewer', spent') /\ checker' = checker
        BY <1>3, <1>4 DEF BeginAPIRenewal, Called, AnswerState
    <2> QED BY <1>1, <1>2, <1>3, <2>1, OthersLater, RestMoves DEF CredentialInv
  <1>5. CASE BeginCheck
    <2>1. checker' \in CheckerState /\ checker'.pc = "called" /\ Upto(checker'.seen, spent')
          /\ renewer' = renewer /\ checker.pc = "none"
        BY <1>3, <1>5 DEF BeginCheck, CheckerState
    <2>2. OneRenewal(shared.owner, runner.pc, "called")
        BY <2>1 DEF CredentialInv, OneRenewal
    <2> QED BY <1>1, <1>2, <1>3, <2>1, <2>2, OthersLater, RestMoves DEF CredentialInv
  <1> QED BY <1>4, <1>5

LEMMA NewLoginStep == CredentialInv /\ NewLogin => CredentialInv'
  <1> SUFFICES ASSUME CredentialInv, NewLogin PROVE CredentialInv'
      OBVIOUS
  <1> DEFINE l == spent.logins + 1
  <1>1. /\ spent' \in SpentState /\ spent.logins <= spent'.logins /\ spent.answers <= spent'.answers
        /\ spent'.logins = l /\ l \in 0 .. MaxLogins /\ 0 <= spent'.answers /\ spent.logins < l
      BY CredentialBounds DEF NewLogin, CredentialInv, SpentState
  <1>2. stored' = LoginJar(l)
      BY DEF NewLogin
  <1> HIDE DEF l
  <1>3. [login |-> l, answer |-> 0] \in CookieValue /\ [login |-> 0, answer |-> 0] \in CookieValue
      BY <1>1, CredentialBounds DEF CookieValue
  <1>4. \A n \in CookieName : stored'[n] = [login |-> IF n = "other" THEN 0 ELSE l, answer |-> 0]
      BY <1>2 DEF LoginJar
  <1>5. stored' \in Jar
      BY <1>2, <1>3 DEF LoginJar, Jar
  <1>6. Upto(stored', spent')
    <2>1. ASSUME NEW n \in CookieName PROVE stored'[n].login <= spent'.logins /\ stored'[n].answer <= spent'.answers
      <3>1. l \in Nat /\ spent'.answers \in Nat
          BY <1>1, CredentialBounds DEF SpentState
      <3>2. stored'[n] = [login |-> IF n = "other" THEN 0 ELSE l, answer |-> 0]
          BY <1>4
      <3>3. stored'[n].answer = 0 /\ (stored'[n].login = 0 \/ stored'[n].login = l)
          BY <3>2
      <3>4. spent'.logins = l
          BY <1>1
      <3> QED BY <3>1, <3>3, <3>4
    <2> QED BY <1>5, <2>1 DEF Upto
  <1>7. ASSUME NEW old, Upto(old, spent) PROVE old # stored'
    <2>1. old["session"] \in CookieValue /\ old["session"].login <= spent.logins
          /\ stored'["session"].login = l
        BY <1>4, <1>7 DEF Upto, Jar, CookieName
    <2> QED BY <2>1, <1>1 DEF CredentialInv, SpentState, CookieValue
  <1>8. /\ UNCHANGED <<memory, gate, token, runner, late, renewer, lateRenewer, checker, shared, stop>>
        /\ syncer' = "gate"
      BY DEF NewLogin
  <1> QED BY <1>1, <1>6, <1>7, <1>8, OthersLater, RestMoves DEF CredentialInv

LEMMA SyncLoginStep == CredentialInv /\ (SyncLogin \/ SyncGivesUp \/ StopAccount) => CredentialInv'
  <1> SUFFICES ASSUME CredentialInv, SyncLogin \/ SyncGivesUp \/ StopAccount PROVE CredentialInv'
      OBVIOUS
  <1>1. /\ UNCHANGED <<stored, gate, token, runner, late, renewer, lateRenewer, checker, shared, spent>>
        /\ memory' = memory \/ memory' = stored
        /\ syncer' \in {"none", "gate"} /\ stop' \in {"none", "marked", "waiting", "returned"}
        /\ stop' = "returned" => stop = "returned" \/ late.pc = "none"
      BY DEF SyncLogin, SyncGivesUp, StopAccount, StopTo, CredentialInv
  <1>2. stored \in Jar /\ memory \in Jar
      BY DEF CredentialInv, Upto
  <1> QED BY <1>1, <1>2, NothingSpent, OthersLater, RestMoves DEF CredentialInv

-----------------------------------------------------------------------------
(* The theorems                                                            *)

LEMMA CredentialStarts == CredentialInit => CredentialInv
  <1> SUFFICES ASSUME CredentialInit PROVE CredentialInv
      OBVIOUS
  <1>1. spent \in SpentState
      BY CredentialBounds DEF CredentialInit, SpentState
  <1>2. stored = NoJar /\ memory = NoJar /\ token = {} /\ gate = "free" /\ syncer = "none" /\ stop = "none"
        /\ runner = RunAt("new") /\ late = NoCall /\ renewer = NoCall /\ lateRenewer = NoCall
        /\ checker = NoCall /\ shared = NoShared
      BY DEF CredentialInit, NoJar
  <1>3. Upto(NoJar, spent) /\ NoJar \in Jar
      BY <1>1, NoJarUpto
  <1>4. LoopOK(runner, spent) /\ runner.pc = "new"
      BY <1>1, <1>2, AtRest DEF RunnerPc
  <1>5. Called(NoCall, spent) /\ NoCall \in CheckerState /\ NoShared \in SharedState
        /\ Upto(NoCall.seen, spent) /\ Upto(NoShared.seen, spent)
      BY <1>3 DEF NoCall, NoShared, Called, AnswerState, CheckerState, SharedState
  <1>6. OneRenewal(shared.owner, runner.pc, checker.pc)
      BY <1>2, <1>4 DEF OneRenewal, NoCall, NoShared
  <1>7. Kept(runner, token, memory, stored) /\ StopQuiet
      BY <1>2, <1>4 DEF Kept, BoundPc, StopQuiet
  <1> QED BY <1>1, <1>2, <1>3, <1>4, <1>5, <1>6, <1>7 DEF CredentialInv, GatePc

LEMMA ConnectionStep == CredentialInv /\ LoopStep => CredentialInv'
  BY StartRunStep, BeginRenewalStep, CommitRenewalStep, FinishRenewalStep, BeginRoundStep, LoopLeavesStep,
     BeginTokenStep, CompareTokenStep, AdoptTokenStep, JudgeTokenStep, SolveCaptchaStep, AdoptCaptchaStep,
     BindTokenStep, KeepCookieStep, RegisterStep DEF LoopStep

LEMMA CredentialStep == CredentialInv /\ [CredentialNext]_credentialVars => CredentialInv'
  <1> SUFFICES ASSUME CredentialInv, [CredentialNext]_credentialVars PROVE CredentialInv'
      OBVIOUS
  <1>1. CASE UNCHANGED credentialVars
      BY <1>1 DEF credentialVars, CredentialInv, StopQuiet
  <1>2. CASE SchedulerStep
      BY <1>2, BeginCallStep, CommitAPIRenewalStep, CommitLateStep, CommitCheckStep DEF SchedulerStep
  <1> QED BY <1>1, <1>2, ConnectionStep, LateAnswerStep, RenewalCallerStep, SharedAnswerStep, NewLoginStep,
             SyncLoginStep DEF CredentialNext

\* The one way to come online is the second look of registerConnection.
LEMMA OnlineByRegistration ==
    ASSUME CredentialInv, CredentialNext, runner.pc # "online", runner'.pc = "online"
    PROVE  Registered /\ StillBound
  <1>1. ASSUME NEW pc \in RunnerPc, runner' = RunAt(pc) PROVE pc = "online"
      BY <1>1 DEF RunAt
  <1>2. runner \in RunnerState
      BY DEF CredentialInv, LoopOK
  <1>3. runner' # runner
      OBVIOUS
  <1>4. ASSUME LateStep \/ SchedulerStep \/ StopAccount \/ NewLogin \/ SyncLogin \/ SyncGivesUp PROVE FALSE
      BY <1>3, <1>4 DEF LateStep, PersistLate, LateEnds, SchedulerStep, BeginAPIRenewal, CommitAPIRenewal,
         CommitLateAPIRenewal, BeginCheck, CommitCheck, loop, StopAccount, StopTo, NewLogin, SyncLogin, SyncGivesUp
  <1>5. ASSUME NEW p \in RenewalCaller, RenewalRefused(p) \/ BeginShared(p) \/ JoinShared(p) PROVE FALSE
      BY <1>3, <1>5, <1>1 DEF RenewalRefused, BeginShared, JoinShared, CallerTo, LeaveTo, AfterRenewal, RunnerPc
  <1>6. ASSUME SharedAnswer PROVE FALSE
      BY <1>3, <1>6, <1>1 DEF SharedAnswer, FinishShared, AfterRenewal, RunnerPc
  <1>7. ASSUME LoopStep PROVE Registered /\ StillBound
    <2>1. ASSUME NEW pc \in RunnerPc, LeaveTo(pc) PROVE pc = "online"
        BY <2>1, <1>1 DEF LeaveTo
    <2>2. ASSUME NEW pc, RunTo(pc) PROVE pc = "online"
        BY <2>2, <1>2 DEF RunTo, RunnerState
    <2>3. ~StartRun /\ ~BeginRound /\ ~KeepCookie
        BY <2>1, <2>2 DEF StartRun, BeginRound, KeepCookie, ConnectFails, RunnerPc
    <2>4. ~BeginRenewal /\ ~CommitRenewal
        BY <1>2 DEF BeginRenewal, CommitRenewal, RunnerState
    <2>5. ~FinishRenewal /\ ~RunCanceled /\ ~TokenCanceled /\ ~CaptchaFails /\ ~Disconnected
        BY <2>1 DEF FinishRenewal, RunCanceled, TokenCanceled, CaptchaFails, Disconnected, TokenFailsTo, RunnerPc
    <2>6. ~BeginToken
        BY DEF BeginToken, RunAt
    <2>7. ~CompareToken /\ ~AdoptCaptcha
        BY <1>2, <2>1 DEF CompareToken, AdoptCaptcha, TokenFailsTo, RunnerState, RunnerPc
    <2>8. ~AdoptToken /\ ~SolveCaptcha
        BY <1>2, <2>2 DEF AdoptToken, SolveCaptcha, RunnerState
    <2>9. ~JudgeToken /\ ~BindToken
        BY <2>1, <2>2 DEF JudgeToken, BindToken, TokenFailsTo, RunnerPc
    <2>10. ~Register
        BY <2>1, <2>2 DEF Register, GoRound, RunnerPc
    <2>11. Registered => StillBound
        BY <2>1 DEF Registered, GoRound, ConnectFails, RunnerPc
    <2> QED BY <1>7, <2>3, <2>4, <2>5, <2>6, <2>7, <2>8, <2>9, <2>10, <2>11 DEF LoopStep
  <1> QED BY <1>4, <1>5, <1>6, <1>7 DEF CredentialNext, RenewalStep

\* The scheduler and the shared renewal: what they store they store on the
\* credential they have called with.
LEMMA NoLoginUndone ==
    ASSUME CredentialInv, CredentialNext,
           <<renewer, lateRenewer, checker, shared>>' # <<renewer, lateRenewer, checker, shared>>
    PROVE  /\ stored'["session"].login = stored["session"].login
           /\ (\A jar \in CalledWith : WholeJar(jar)) => stored'["token"].login = stored["token"].login
  <1>0. (\A jar \in CalledWith : WholeJar(jar))
          <=> /\ WholeJar(renewer.seen) /\ WholeJar(lateRenewer.seen)
              /\ WholeJar(checker.seen) /\ WholeJar(shared.seen)
      BY DEF CalledWith
  <1>1. ASSUME LoopStep \/ LateStep \/ StopAccount \/ NewLogin \/ SyncLogin \/ SyncGivesUp PROVE FALSE
      BY <1>1 DEF LateStep, PersistLate, LateEnds, StopAccount, StopTo, NewLogin, SyncLogin, SyncGivesUp, others,
         LoopStep,
         StartRun, BeginRenewal, CommitRenewal, FinishRenewal, BeginRound, RunCanceled, TokenCanceled,
         BeginToken, CompareToken, AdoptToken, JudgeToken, SolveCaptcha, AdoptCaptcha, CaptchaFails, BindToken,
         KeepCookie, Register, Registered, Disconnected
  <1>2. CASE RenewalStep
      BY <1>2 DEF RenewalStep, RenewalRefused, BeginShared, JoinShared
  <1>3. CASE SharedAnswer
      BY <1>0, <1>3, SharedAnswerStores
  <1>4. CASE SchedulerStep
    <2>1. CASE BeginAPIRenewal \/ BeginCheck
        BY <2>1 DEF BeginAPIRenewal, BeginCheck
    <2>2. CASE CommitAPIRenewal
        BY <1>0, <2>2, NothingIsStored, NoConflictRebase DEF CommitAPIRenewal, CredentialInv, Called
    <2>3. CASE CommitLateAPIRenewal
        BY <1>0, <2>3, NothingIsStored, NoConflictRebase DEF CommitLateAPIRenewal, CredentialInv, Called
    <2>4. CASE CommitCheck
        BY <1>0, <2>4, CheckStores
    <2> QED BY <1>4, <2>1, <2>2, <2>3, <2>4 DEF SchedulerStep
  <1> QED BY <1>1, <1>2, <1>3, <1>4 DEF CredentialNext

\* The invariant: every jar in the system has cookies there have been, and the
\* connection's token is bound to the cookie it was obtained with.
THEOREM CredentialInvariant == CredentialSpec => []CredentialInv
  <1>1. CredentialInit => CredentialInv
      BY CredentialStarts
  <1>2. CredentialInv /\ [CredentialNext]_credentialVars => CredentialInv'
      BY CredentialStep
  <1> QED BY <1>1, <1>2, PTL DEF CredentialSpec

\* The refresh gate is held exactly while the loop renews or asks for a token,
\* and a renewal by protocol has exactly one caller that carries it out.
THEOREM CredentialTypes == CredentialSpec => []CredentialTypeOK
  <1>1. CredentialInv => CredentialTypeOK
      BY DEF CredentialInv, CredentialTypeOK, LoopOK, Called, Upto, GatePc, OneRenewal, PcOf
  <1> QED BY <1>1, CredentialInvariant, PTL

\* Once StopContext has returned no late answer can be stored, however many
\* renewals were pending when it was called (watchPendingAPIRenew, beginTask).
THEOREM StopIsQuiet == CredentialSpec => []StopQuiet
  <1>1. CredentialInv => StopQuiet
      BY DEF CredentialInv
  <1> QED BY <1>1, CredentialInvariant, PTL

\* An account comes online with the stored credential, whoever replaced it
\* between the request for the token and the registration
\* (cookieSnapshotMatchesDB, before and after the call).
THEOREM ComesOnlineCurrent == CredentialSpec => OnlineCurrent
  <1>1. ASSUME CredentialInv, CredentialNext, runner.pc # "online", runner'.pc = "online"
        PROVE  runner.used = stored["session"].login /\ memory = stored
    <2>1. Registered /\ token = {stored} /\ runner.pc = "registering"
        BY <1>1, OnlineByRegistration DEF Registered, StillBound
    <2>2. runner.cookie = stored
        BY <2>1, <1>1 DEF CredentialInv, Kept, BoundPc
    <2> QED BY <2>1, <2>2, <1>1 DEF CredentialInv, Kept, LoopOK, AnsweredPc
  <1>2. CredentialInv /\ [CredentialNext]_credentialVars
          => [runner.pc # "online" /\ runner'.pc = "online" =>
                /\ runner.used = stored["session"].login
                /\ memory = stored]_credentialVars
      BY <1>1
  <1> QED BY <1>2, CredentialInvariant, PTL DEF CredentialSpec, OnlineCurrent

\* The scheduler, its watcher, the status check and the protocol renewal never
\* replace the session of a login stored while they were calling, and its
\* request token only if one of them was called with a jar whose session and
\* token were of two logins (ResponseCookiesConflict,
\* credentialSnapshotChanged).  A cookie that no login sets is not covered: a
\* stale answer's may be merged into the jar of the new login.
THEOREM CommitsGoForward == CredentialSpec => CommitsForward
  <1>1. CredentialInv /\ [CredentialNext]_credentialVars
          => [<<renewer, lateRenewer, checker, shared>>' # <<renewer, lateRenewer, checker, shared>> =>
                /\ stored'["session"].login = stored["session"].login
                /\ (\A jar \in CalledWith : WholeJar(jar))
                      => stored'["token"].login = stored["token"].login]_credentialVars
      BY NoLoginUndone
  <1> QED BY <1>1, CredentialInvariant, PTL DEF CredentialSpec, CommitsForward

HIDE DEF RenewalCaller

=============================================================================
