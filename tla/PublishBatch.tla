---------------------------- MODULE PublishBatch ----------------------------
(***************************************************************************)
(* A batch of items to publish: the tables item_publish_batches and        *)
(* item_publish_batch_rows, the workers that publish row after row, the    *)
(* user's start, retry and cancel, and the recovery scan.                  *)
(*                                                                         *)
(* A worker holds the batch by a token and a lease that it renews between  *)
(* two rows only, so the lease may lapse while an item is being published  *)
(* and another worker take the batch over.  The platform offers no         *)
(* idempotency key: a publication whose result is unknown is never         *)
(* repeated, a recorded one is not either.                                 *)
(*                                                                         *)
(* A statement of the database, or a transaction, is one action.  Time is  *)
(* left out except for the lease, and so are the counters of the batch,    *)
(* the rows' contents and the upload directory.                            *)
(***************************************************************************)
EXTENDS Integers, FiniteSets, FiniteSetsExt

CONSTANTS
    Line,             \* the batch's rows, by row_no
    Publisher,       \* workers; a worker's token is its name
    NoToken,         \* the empty worker_token
    MaxRequests,     \* bound: starts, retries and cancels
    MaxBatchEnv      \* bound: crashes, timeouts, failing statements, lapses of a live lease

ASSUME BatchAssumption ==
    /\ IsFiniteSet(Line) /\ Line \subseteq Nat /\ Line # {}
    /\ NoToken \notin Publisher
    /\ MaxRequests \in Nat /\ MaxBatchEnv \in Nat

VARIABLES
    batch,           \* the batch
    rows,            \* its rows
    publisher,       \* where each worker stands
    requests,        \* requests left
    batchEnv,        \* disturbances left
    published,       \* history: items created on the platform, per row
    givenBack        \* history: the last claim was given back before its worker began

batchVars == <<batch, rows, publisher, requests, batchEnv, published, givenBack>>

BatchStatus == {"pending", "running", "canceling", "completed", "partially_failed", "failed", "canceled"}
FailureKind == {"none", "interrupted", "remote_started", "uncertain_remote", "post_publish", "publish"}
Batch == [status: BatchStatus, token: Publisher \cup {NoToken}, leased: BOOLEAN]
BatchRow == [status: {"pending", "running", "success", "failed"}, kind: FailureKind,
             token: Publisher \cup {NoToken}, item: BOOLEAN]
PublisherState == [
    pc: {"idle", "acquire", "reset", "start",                        \* the request or scan
         "read", "next", "claim", "mark", "slot", "call", "save", "complete", "fail",   \* Run
         "finish", "final", "interrupt", "interrupted", "cancel"},   \* its end
    kind: {"start", "retry", "recover"},
    todo: SUBSET Line, known: SUBSET Line,     \* rows as read: pending, and those with an item
    row: Line,
    err: FailureKind,
    canceled: BOOLEAN]                       \* its context

IdlePublisher == [pc |-> "idle", kind |-> "start", todo |-> {}, known |-> {}, row |-> Min(Line),
                  err |-> "none", canceled |-> FALSE]
NewRow == [status |-> "pending", kind |-> "none", token |-> NoToken, item |-> FALSE]

BatchInit ==
    /\ batch = [status |-> "pending", token |-> NoToken, leased |-> FALSE]
    /\ rows = [r \in Line |-> NewRow]
    /\ publisher = [w \in Publisher |-> IdlePublisher]
    /\ requests = MaxRequests /\ batchEnv = MaxBatchEnv
    /\ published = [r \in Line |-> 0]
    /\ givenBack = FALSE

-----------------------------------------------------------------------------
(* Helpers                                                                 *)

PublisherAt(w, pc) == publisher[w].pc = pc
PublisherTo(w, pc) == publisher' = [publisher EXCEPT ![w].pc = pc]
Leave(w) == publisher' = [publisher EXCEPT ![w] = IdlePublisher]
FailRow(w, kind) == publisher' = [publisher EXCEPT ![w] = [@ EXCEPT !.pc = "fail", !.err = kind]]

\* The WHERE of RenewBatchLease and of every other statement of a worker.
HoldsBatch(w) == batch.status = "running" /\ batch.token = w
HoldsRow(w, r) == rows[r].status = "running" /\ rows[r].token = w

InStatus(status) == {r \in Line : rows[r].status = status}
Unknown(row) == row.status = "running" /\ row.kind = "remote_started" /\ ~row.item
Ended(row, kind) == [row EXCEPT !.status = "failed", !.kind = kind, !.token = NoToken]

\* markUnfinishedFailedTx
Unfinished ==
    [r \in Line |->
       IF Unknown(rows[r]) THEN Ended(rows[r], "uncertain_remote")
       ELSE IF rows[r].status \in {"pending", "running"} THEN Ended(rows[r], "interrupted")
       ELSE rows[r]]

\* Mutant: a status the schema does not know.
OutcomePartial(rs) ==
    IF \A r \in Line : rs[r].status # "failed" THEN "completed"
    ELSE IF \E r \in Line : rs[r].status = "success" THEN "partial" ELSE "failed"

\* finalBatchStatus
Outcome(rs) ==
    IF \A r \in Line : rs[r].status # "failed" THEN "completed"
    ELSE IF \E r \in Line : rs[r].status = "success" THEN "partially_failed" ELSE "failed"

EndBatch(status) == batch' = [batch EXCEPT !.status = status, !.token = NoToken, !.leased = FALSE]

\* A token is fresh: no goroutine, row or batch carries it.
Fresh(w) ==
    /\ PublisherAt(w, "idle") /\ batch.token # w
    /\ \A r \in Line : rows[r].token # w

-----------------------------------------------------------------------------
(* Requests, recovery and the claim of the batch                           *)

Begin(w, kind) == publisher' = [publisher EXCEPT ![w] = [@ EXCEPT !.pc = "acquire", !.kind = kind]]

StartBatch(w) ==
    /\ requests > 0 /\ Fresh(w)
    /\ \/ batch.status \in {"pending", "completed"}
       \/ batch.status = "running" /\ ~batch.leased
    /\ requests' = requests - 1
    /\ Begin(w, "start")
    /\ UNCHANGED <<batch, rows, batchEnv, published, givenBack>>

RetryFailedBatch(w) ==
    /\ requests > 0 /\ Fresh(w)
    /\ ~(batch.status = "running" /\ batch.leased)
    /\ requests' = requests - 1
    /\ Begin(w, "retry")
    /\ UNCHANGED <<batch, rows, batchEnv, published, givenBack>>

\* Mutant: batches whose worker died while they ran are not looked for.
RecoverableEnded ==
    /\ batch.status \in {"failed", "partially_failed"}
    /\ \E r \in Line : rows[r].status = "failed" /\ rows[r].kind = "interrupted"

\* Recoverable, for the batches it resumes.
Recoverable ==
    \/ batch.status = "running" /\ ~batch.leased
    \/ /\ batch.status \in {"failed", "partially_failed"}
       /\ \E r \in Line : rows[r].status = "failed" /\ rows[r].kind = "interrupted"

\* One scan at a time reads the batch and goes on to claim it.
Recover(w) ==
    /\ Fresh(w) /\ Recoverable
    /\ \A v \in Publisher : publisher[v].kind = "recover" => publisher[v].pc \notin {"acquire", "reset", "start"}
    /\ Begin(w, "recover")
    /\ UNCHANGED <<batch, rows, requests, batchEnv, published, givenBack>>

Claimable ==
    \/ batch.status \in {"pending", "failed", "partially_failed", "completed", "canceled"}
    \/ batch.status = "running" /\ ~batch.leased

\* Mutant: rows of the previous worker are queued again, whatever they did.
RequeuedAll(row) == [row EXCEPT !.status = "pending", !.kind = "interrupted", !.token = NoToken]

\* A row of the previous worker: its publication may have happened or not.
Requeued(row) ==
    IF Unknown(row) THEN Ended(row, "uncertain_remote")
    ELSE [row EXCEPT !.status = "pending", !.kind = "interrupted", !.token = NoToken]

ClaimBatch(w) ==
    /\ PublisherAt(w, "acquire")
    /\ IF Claimable
       THEN /\ batch' = [status |-> "running", token |-> w, leased |-> TRUE]
            /\ givenBack' = FALSE
            /\ rows' = [r \in Line |-> IF rows[r].status = "running" /\ rows[r].token # w
                                      THEN Requeued(rows[r]) ELSE rows[r]]
            /\ PublisherTo(w, "reset")
       ELSE Leave(w) /\ UNCHANGED <<batch, rows, givenBack>>
    /\ UNCHANGED <<requests, batchEnv, published>>

\* Mutant: rows whose result is unknown are retried.
ResettableAny(kind) ==
    CASE kind = "start" -> {}
      [] kind = "retry" -> {r \in Line : rows[r].status = "failed"}
      [] kind = "recover" -> {r \in Line : rows[r].status = "failed" /\ rows[r].kind = "interrupted"}

Resettable(kind) ==
    CASE kind = "start" -> {}
      [] kind = "retry" -> {r \in Line : rows[r].status = "failed" /\ rows[r].kind # "uncertain_remote"}
      [] kind = "recover" -> {r \in Line : rows[r].status = "failed" /\ rows[r].kind = "interrupted"}

\* ResetFailed, ResetInterrupted
ResetRows(w) ==
    /\ PublisherAt(w, "reset")
    /\ rows' = [r \in Line |-> IF r \in Resettable(publisher[w].kind)
                              THEN [rows[r] EXCEPT !.status = "pending", !.kind = "none", !.token = NoToken]
                              ELSE rows[r]]
    /\ PublisherTo(w, "start")
    /\ UNCHANGED <<batch, requests, batchEnv, published, givenBack>>

\* A batch without pending rows is finished at once; otherwise the worker is
\* registered and cancels the one registered before it.
StartWorker(w) ==
    /\ PublisherAt(w, "start")
    /\ IF InStatus("pending") = {}
       THEN IF HoldsBatch(w) THEN EndBatch(Outcome(rows)) /\ Leave(w) ELSE Leave(w) /\ UNCHANGED batch
       ELSE /\ publisher' = [v \in Publisher |->
                 IF v = w THEN [publisher[v] EXCEPT !.pc = "read"]
                 ELSE IF publisher[v].pc \in {"idle", "acquire", "reset", "start"} THEN publisher[v]
                 ELSE [publisher[v] EXCEPT !.canceled = TRUE]]
            /\ UNCHANGED batch
    /\ UNCHANGED <<rows, requests, batchEnv, published, givenBack>>

\* A statement fails or the process is stopping: the claim is given back.  The
\* batch is failed with its rows still pending, and the scan will not list it
\* again unless one of them is interrupted: the user has to retry it.
FailClaimedBatch(w) ==
    /\ batchEnv > 0 /\ publisher[w].pc \in {"reset", "start"}
    /\ batchEnv' = batchEnv - 1
    /\ IF HoldsBatch(w) THEN EndBatch("failed") /\ givenBack' = TRUE ELSE UNCHANGED <<batch, givenBack>>
    /\ Leave(w)
    /\ UNCHANGED <<rows, requests, published>>

-----------------------------------------------------------------------------
(* Run: one row after the other                                            *)

PendingRows(w) ==
    /\ PublisherAt(w, "read")
    /\ publisher' = [publisher EXCEPT ![w] = [@ EXCEPT !.pc = "next", !.todo = InStatus("pending"),
                        !.known = {r \in InStatus("pending") : rows[r].item}]]
    /\ UNCHANGED <<batch, rows, requests, batchEnv, published, givenBack>>

\* The next row, once the context and the lease were looked at.
NextRow(w) ==
    LET todo == publisher[w].todo IN
    /\ PublisherAt(w, "next")
    /\ \/ todo = {} /\ PublisherTo(w, "finish") /\ UNCHANGED batch
       \/ /\ todo # {} /\ (publisher[w].canceled \/ ~HoldsBatch(w))
          /\ PublisherTo(w, "interrupt") /\ UNCHANGED batch
       \/ /\ todo # {} /\ ~publisher[w].canceled /\ HoldsBatch(w)
          /\ batch' = [batch EXCEPT !.leased = TRUE]
          /\ publisher' = [publisher EXCEPT ![w] = [@ EXCEPT !.pc = "claim", !.row = Min(todo),
                                                            !.todo = todo \ {Min(todo)}]]
    /\ UNCHANGED <<rows, requests, batchEnv, published, givenBack>>

ClaimRow(w) ==
    LET r == publisher[w].row IN
    /\ PublisherAt(w, "claim")
    /\ IF rows[r].status = "pending" /\ HoldsBatch(w)
       THEN /\ rows' = [rows EXCEPT ![r] = [@ EXCEPT !.status = "running", !.token = w, !.kind = "none"]]
            /\ PublisherTo(w, IF r \in publisher[w].known THEN "complete" ELSE "mark")
       ELSE PublisherTo(w, "next") /\ UNCHANGED rows
    /\ UNCHANGED <<batch, requests, batchEnv, published, givenBack>>

\* Images and prices may be refused before the platform hears of the row.
MarkClaimedRemoteStarted(w) ==
    LET r == publisher[w].row IN
    /\ PublisherAt(w, "mark")
    /\ \/ FailRow(w, "publish") /\ UNCHANGED rows
       \/ /\ HoldsRow(w, r) /\ ~rows[r].item
          /\ rows' = [rows EXCEPT ![r].kind = "remote_started"]
          /\ PublisherTo(w, "slot")
    /\ UNCHANGED <<batch, requests, batchEnv, published, givenBack>>

\* The wait for the interval ends with the slot, a lost lease or a cancellation;
\* credentials and images may fail before it.
ReservePublishSlot(w) ==
    /\ PublisherAt(w, "slot")
    /\ \/ HoldsBatch(w) /\ PublisherTo(w, "call")
       \/ \E kind \in {"publish", "uncertain_remote"} : FailRow(w, kind)
    /\ UNCHANGED <<batch, rows, requests, batchEnv, published, givenBack>>

PublishItem(w) ==
    LET r == publisher[w].row IN
    /\ PublisherAt(w, "call")
    /\ \/ /\ published' = [published EXCEPT ![r] = @ + 1]
          /\ PublisherTo(w, "save") \/ FailRow(w, "uncertain_remote")
       \/ /\ FailRow(w, "uncertain_remote") \/ (~publisher[w].canceled /\ FailRow(w, "publish"))
          /\ UNCHANGED published
    /\ UNCHANGED <<batch, rows, requests, batchEnv, givenBack>>

\* The response's cookies may fail to be saved once the item is.
SaveClaimedRemoteResult(w) ==
    LET r == publisher[w].row IN
    /\ PublisherAt(w, "save")
    /\ IF HoldsRow(w, r)
       THEN /\ rows' = [rows EXCEPT ![r] = [@ EXCEPT !.item = TRUE, !.kind = "post_publish"]]
            /\ PublisherTo(w, "complete") \/ FailRow(w, "post_publish")
       ELSE FailRow(w, "uncertain_remote") /\ UNCHANGED rows
    /\ UNCHANGED <<batch, requests, batchEnv, published, givenBack>>

\* Complete: the local item and rules, then MarkClaimedRowSuccess.
CompleteRow(w) ==
    LET r == publisher[w].row IN
    /\ PublisherAt(w, "complete")
    /\ \/ FailRow(w, "post_publish") /\ UNCHANGED rows
       \/ /\ ~publisher[w].canceled /\ batch.token = w
          /\ IF HoldsRow(w, r)
             THEN /\ rows' = [rows EXCEPT ![r] = [@ EXCEPT !.status = "success", !.item = TRUE,
                                                           !.kind = "none", !.token = NoToken]]
                  /\ PublisherTo(w, "next")
             ELSE FailRow(w, "publish") /\ UNCHANGED rows
    /\ UNCHANGED <<batch, requests, batchEnv, published, givenBack>>

\* An expired session ends the run after the failure is written.
MarkClaimedRowFailed(w) ==
    LET r == publisher[w].row IN
    /\ PublisherAt(w, "fail")
    /\ IF HoldsRow(w, r)
       THEN /\ rows' = [rows EXCEPT ![r] = Ended(@, publisher[w].err)]
            /\ PublisherTo(w, "next") \/ PublisherTo(w, "interrupt")
       ELSE PublisherTo(w, "interrupt") /\ UNCHANGED rows
    /\ UNCHANGED <<batch, requests, batchEnv, published, givenBack>>

-----------------------------------------------------------------------------
(* finish, finishInterrupted                                               *)

\* Both read the batch before they choose how to end it.
ReadBatchEnd(w) ==
    /\ publisher[w].pc \in {"finish", "interrupt"}
    /\ IF batch.status = "canceled" \/ (batch.token # w /\ PublisherAt(w, "finish"))
       THEN Leave(w)
       ELSE PublisherTo(w, IF batch.status = "canceling" /\ batch.token = w THEN "cancel"
                    ELSE IF PublisherAt(w, "finish") THEN "final" ELSE "interrupted")
    /\ UNCHANGED <<batch, rows, requests, batchEnv, published, givenBack>>

FinalizeBatch(w) ==
    /\ PublisherAt(w, "final")
    /\ IF InStatus("pending") \cup InStatus("running") # {}
       THEN PublisherTo(w, "interrupt") /\ UNCHANGED batch
       ELSE /\ Leave(w)
            /\ IF HoldsBatch(w) THEN EndBatch(Outcome(rows)) ELSE UNCHANGED batch
    /\ UNCHANGED <<rows, requests, batchEnv, published, givenBack>>

FinalizeInterrupted(w) ==
    /\ PublisherAt(w, "interrupted")
    /\ Leave(w)
    /\ IF HoldsBatch(w)
       THEN rows' = Unfinished /\ EndBatch(Outcome(Unfinished))
       ELSE UNCHANGED <<batch, rows>>
    /\ UNCHANGED <<requests, batchEnv, published, givenBack>>

FinalizeCanceled(w) ==
    /\ PublisherAt(w, "cancel")
    /\ Leave(w)
    /\ IF batch.status = "canceling" /\ batch.token = w
       THEN rows' = Unfinished /\ EndBatch("canceled")
       ELSE UNCHANGED <<batch, rows>>
    /\ UNCHANGED <<requests, batchEnv, published, givenBack>>

-----------------------------------------------------------------------------
(* Cancellation                                                            *)

\* Mutant: the rows of a batch that is not running are left as they are.
CancelRowsKept ==
    /\ requests > 0 /\ requests' = requests - 1
    /\ IF batch.status \in {"running", "canceling"}
       THEN /\ batch' = [batch EXCEPT !.status = "canceling"]
            /\ UNCHANGED <<rows, publisher>>
       ELSE EndBatch("canceled") /\ UNCHANGED <<rows, publisher>>
    /\ UNCHANGED <<batchEnv, published, givenBack>>

\* RequestCancel, and the cancellation of the worker if it is registered.
CancelBatch ==
    /\ requests > 0 /\ requests' = requests - 1
    /\ IF batch.status \in {"running", "canceling"}
       THEN /\ batch' = [batch EXCEPT !.status = "canceling"]
            /\ publisher' = [w \in Publisher |->
                 IF w # batch.token \/ publisher[w].pc \in {"idle", "acquire", "reset", "start"}
                 THEN publisher[w] ELSE [publisher[w] EXCEPT !.canceled = TRUE]]
            /\ UNCHANGED rows
       ELSE /\ rows' = Unfinished /\ EndBatch("canceled")
            /\ UNCHANGED publisher
    /\ UNCHANGED <<batchEnv, published, givenBack>>

\* Mutant: only the batch is closed.
ExpireBatchOnly ==
    /\ batch.status = "canceling" /\ ~batch.leased
    /\ EndBatch("canceled")
    /\ UNCHANGED <<rows, publisher, requests, batchEnv, published, givenBack>>

\* The recovery scan ends a cancellation that nobody else ends.
FinalizeExpiredCancellation ==
    /\ batch.status = "canceling" /\ ~batch.leased
    /\ rows' = Unfinished /\ EndBatch("canceled")
    /\ UNCHANGED <<publisher, requests, batchEnv, published, givenBack>>

-----------------------------------------------------------------------------
(* Time and failures                                                       *)

Alive(w) == ~PublisherAt(w, "idle")

\* A lease lapses: for nothing when its holder is gone, as a disturbance
\* while the holder is inside a long publication.  It outlasts the two
\* statements that follow the claim.
BatchLeaseLapses ==
    /\ batch.leased /\ batch.token # NoToken /\ ~Alive(batch.token)
    /\ batch' = [batch EXCEPT !.leased = FALSE]
    /\ UNCHANGED <<rows, publisher, requests, batchEnv, published, givenBack>>

LiveLeaseLapses ==
    /\ batch.leased /\ batchEnv > 0 /\ batch.token # NoToken
    /\ publisher[batch.token].pc \notin {"idle", "acquire", "reset", "start"}
    /\ batchEnv' = batchEnv - 1
    /\ batch' = [batch EXCEPT !.leased = FALSE]
    /\ UNCHANGED <<rows, publisher, requests, published, givenBack>>

\* The two hours of a worker are over, or the process shuts down.
Timeout(w) ==
    /\ batchEnv > 0 /\ batchEnv' = batchEnv - 1
    /\ publisher[w].pc \notin {"idle", "acquire", "reset", "start"} /\ ~publisher[w].canceled
    /\ publisher' = [publisher EXCEPT ![w].canceled = TRUE]
    /\ UNCHANGED <<batch, rows, requests, published, givenBack>>

\* Statements of Run that fail lead to finishInterrupted, and its own to the end.
PublishStatementFails(w) ==
    /\ batchEnv > 0 /\ batchEnv' = batchEnv - 1
    /\ \/ publisher[w].pc \in {"read", "next", "claim", "fail", "finish", "final"} /\ PublisherTo(w, "interrupt")
       \/ PublisherAt(w, "mark") /\ FailRow(w, "publish")
       \/ PublisherAt(w, "save") /\ FailRow(w, "uncertain_remote")
       \/ PublisherAt(w, "complete") /\ FailRow(w, "publish")
       \/ publisher[w].pc \in {"acquire", "interrupt", "interrupted", "cancel"} /\ Leave(w)
    /\ UNCHANGED <<batch, rows, requests, published, givenBack>>

\* The process dies; a publication under way may still happen.
PublisherCrash(w) ==
    /\ batchEnv > 0 /\ batchEnv' = batchEnv - 1
    /\ ~PublisherAt(w, "idle")
    /\ \/ UNCHANGED published
       \/ PublisherAt(w, "call") /\ published' = [published EXCEPT ![publisher[w].row] = @ + 1]
    /\ Leave(w)
    /\ UNCHANGED <<batch, rows, requests, givenBack>>

-----------------------------------------------------------------------------
(* Specification                                                           *)

\* What a claimed batch's goroutine does next.
PublishStep(w) ==
    \/ ClaimBatch(w) \/ ResetRows(w) \/ StartWorker(w)
    \/ PendingRows(w) \/ NextRow(w) \/ ClaimRow(w) \/ MarkClaimedRemoteStarted(w)
    \/ ReservePublishSlot(w) \/ PublishItem(w) \/ SaveClaimedRemoteResult(w) \/ CompleteRow(w)
    \/ MarkClaimedRowFailed(w)
    \/ ReadBatchEnd(w) \/ FinalizeBatch(w) \/ FinalizeInterrupted(w) \/ FinalizeCanceled(w)

BatchDisturb(w) ==
    FailClaimedBatch(w) \/ Timeout(w) \/ PublishStatementFails(w) \/ PublisherCrash(w)

BatchNext ==
    \/ \E w \in Publisher : StartBatch(w) \/ RetryFailedBatch(w) \/ Recover(w)
    \/ \E w \in Publisher : PublishStep(w) \/ BatchDisturb(w)
    \/ CancelBatch \/ FinalizeExpiredCancellation
    \/ BatchLeaseLapses \/ LiveLeaseLapses

BatchSpec == BatchInit /\ [][BatchNext]_batchVars

-----------------------------------------------------------------------------
(* Properties                                                              *)

\* The batch, its rows and the workers are well formed.
BatchTypeOK ==
    /\ batch \in Batch
    /\ rows \in [Line -> BatchRow]
    /\ publisher \in [Publisher -> PublisherState]
    /\ requests \in 0 .. MaxRequests /\ batchEnv \in 0 .. MaxBatchEnv
    /\ published \in [Line -> Nat]
    /\ givenBack \in BOOLEAN

\* No item is put up for sale twice for one row, whatever lapses, crashes,
\* is retried or recovered between its publication and its record.
PublishedOnce == \A r \in Line : published[r] <= 1

\* An item that is for sale is known to its row, or the row says that the
\* result is unknown, or a worker or takeover still has to say so.
ListingAccounted ==
    \A r \in Line : published[r] > 0 => rows[r].item \/ rows[r].kind \in {"remote_started", "uncertain_remote"}

\* A row that is being published belongs to the worker that holds the batch:
\* batch and rows are taken over, canceled and ended together.
RowsFollowBatch ==
    \A r \in Line : rows[r].status = "running" =>
      batch.status \in {"running", "canceling"} /\ rows[r].token = batch.token

\* A batch that is over has no row left open: what cannot be finished is
\* named interrupted, which the recovery scan and the retry look for.  The one
\* exception is a batch whose claim was given back before its worker began
\* (FailClaimedBatch): it is failed with its rows still pending, and what that
\* leaves for the user's retry is no row that was being published.
Open == InStatus("pending") \cup InStatus("running")
EndedBatchClosed ==
    /\ batch.status \in {"completed", "partially_failed", "canceled"} => Open = {}
    /\ batch.status = "failed" => Open = {} \/ (givenBack /\ InStatus("running") = {})

\* A batch does not stay running or canceling for ever, whoever dies with it.
UnderWay == batch.status \in {"running", "canceling"}
BatchEnds == UnderWay ~> ~UnderWay

\* A canceled batch is taken up again by the user only: the recovery scan
\* resumes what was interrupted (Recoverable), never what was canceled.
CancelHolds ==
    [][\A w \in Publisher :
         batch.status = "canceled" /\ batch'.status = "running" /\ batch'.token = w =>
           publisher[w].kind # "recover"]_batchVars

\* Whatever interrupts it, a batch publishes no item twice and loses no
\* listing, and it ends with no row open unless its claim was given back.
BatchSafe == PublishedOnce /\ ListingAccounted /\ RowsFollowBatch /\ EndedBatchClosed

=============================================================================
