------------------------- MODULE NotificationOutbox -------------------------
(***************************************************************************)
(* The persistent outbox of notifications to operators (table              *)
(* notification_outbox) and the workers that drain it.                     *)
(*                                                                         *)
(* An event is written for all its channels in one transaction; a report   *)
(* with an idempotency key is ignored while a message with that key is     *)
(* still in the table.  A worker claims a batch under one lease and sends  *)
(* the messages one after the other without renewing it, so the lease may  *)
(* lapse in the middle of the batch, and deletes a message once its        *)
(* channel accepted it.  Channels are not idempotent.                      *)
(*                                                                         *)
(* A message is named by its channel and key, and rows are read in the     *)
(* order of the messages' numbers where the code reads them in the order   *)
(* of their ids.  The token of a drain is random in the code and is the    *)
(* worker here: a worker only settles what its drain has claimed.          *)
(***************************************************************************)
EXTENDS Integers

CONSTANTS
    Worker,        \* workers sharing the table (one per process)
    Nobody,        \* the empty worker_token
    Message,       \* channel and idempotency key, in the order of the rows' ids
    Event,         \* events: the set of messages each one is written as
    MaxAttempts,   \* a failure at this attempt is final (10)
    MaxReports,    \* bound: events reported per behaviour
    MaxEnv,        \* bound: crashes, outages of the database and lapses of a live batch
    MaxUnheard     \* bound: sends per message that are accepted and come back as an error

ASSUME MessageAssumption == Message \subseteq Nat
ASSUME NobodyAssumption == Nobody \notin Worker
ASSUME EventAssumption == Event \subseteq SUBSET Message
ASSUME OutboxBounds == MaxAttempts \in Nat \ {0} /\ MaxReports \in Nat
                         /\ MaxEnv \in Nat /\ MaxUnheard \in Nat

VARIABLES
    row,          \* the table
    worker,       \* the drain each worker is in
    reports,      \* events still to be reported
    env,          \* disturbances left
    inserted,     \* history: rows inserted per message
    taken,        \* history: expired claims taken over per message
    accepted,     \* history: sends a channel accepted per message
    unheard       \* history: those among them that came back as an error

history == <<inserted, taken, accepted, unheard>>
vars == <<row, worker, reports, env, history>>

Status == {"none", "pending", "running", "dead", "uncertain"}
Row == [status: Status, attempts: 0 .. MaxAttempts, owner: Worker \cup {Nobody}, leased: BOOLEAN]
WorkerState == [pc: {"idle", "claim", "next", "send", "complete", "purge", "uncertain", "retry"},
                todo: SUBSET Message,    \* candidates whose rows are still as they were read
                batch: SUBSET Message]   \* claimed and not settled yet

NoRow == [status |-> "none", attempts |-> 0, owner |-> Nobody, leased |-> FALSE]
Idle == [pc |-> "idle", todo |-> {}, batch |-> {}]

Init ==
    /\ row = [m \in Message |-> NoRow]
    /\ worker = [w \in Worker |-> Idle]
    /\ reports = MaxReports /\ env = MaxEnv
    /\ inserted = [m \in Message |-> 0]
    /\ taken = [m \in Message |-> 0]
    /\ accepted = [m \in Message |-> 0]
    /\ unheard = [m \in Message |-> 0]

-----------------------------------------------------------------------------
(* Reporting an event                                                      *)

\* Mutant: a repeated report revives the row it finds.
EnqueueReviving(e) ==
    /\ reports > 0
    /\ reports' = reports - 1
    /\ row' = [m \in Message |-> IF m \in e THEN [NoRow EXCEPT !.status = "pending"] ELSE row[m]]
    /\ inserted' = [m \in Message |->
                       IF m \in e /\ row[m].status = "none" THEN inserted[m] + 1 ELSE inserted[m]]
    /\ UNCHANGED <<worker, env, taken, accepted, unheard>>

\* One transaction for all channels; a key that is in the table is ignored.
EnqueueOutbox(e) ==
    LET new == {m \in e : row[m].status = "none"} IN
    /\ reports > 0
    /\ reports' = reports - 1
    /\ row' = [m \in Message |-> IF m \in new THEN [NoRow EXCEPT !.status = "pending"] ELSE row[m]]
    /\ inserted' = [m \in Message |-> IF m \in new THEN inserted[m] + 1 ELSE inserted[m]]
    /\ UNCHANGED <<worker, env, taken, accepted, unheard>>

-----------------------------------------------------------------------------
(* Draining: claim a batch                                                 *)

At(w, pc) == worker[w].pc = pc
First(set) == CHOOSE m \in set : \A k \in set : m <= k
Current(w) == First(worker[w].batch)
Owns(w, m) == row[m].status = "running" /\ row[m].owner = w

\* A retry that is not due yet is a pending row nobody has read yet.
Due(m) == row[m].status = "pending" \/ (row[m].status = "running" /\ ~row[m].leased)

ReadDue(w) ==
    /\ At(w, "idle") /\ \E m \in Message : Due(m)
    /\ worker' = [worker EXCEPT ![w] = [Idle EXCEPT !.pc = "claim", !.todo = {m \in Message : Due(m)}]]
    /\ UNCHANGED <<row, reports, env, history>>

\* Mutant: the UPDATE does not repeat the condition of the read.
Forgotten(workers, m) == workers

\* The UPDATE repeats the condition with the time of the read.  Whatever a
\* worker does to a row (claim: a later lease; retry: a later time; the rest:
\* another status) makes it fail for everybody who read the row before.  A
\* reader that finds such a lease over by its own clock has read anew here.
Changed(workers, m) == [v \in Worker |-> [workers[v] EXCEPT !.todo = @ \ {m}]]

ClaimOutbox(w) ==
    /\ At(w, "claim") /\ worker[w].todo # {}
    /\ LET m == First(worker[w].todo) IN
        /\ worker' = Changed([worker EXCEPT ![w].todo = @ \ {m}, ![w].batch = @ \cup {m}], m)
        /\ row' = [row EXCEPT ![m] = [status |-> "running", owner |-> w, leased |-> TRUE,
                                      attempts |-> IF @.attempts < MaxAttempts
                                                   THEN @.attempts + 1 ELSE MaxAttempts]]
        /\ taken' = IF row[m].status = "running" /\ ~row[m].leased
                    THEN [taken EXCEPT ![m] = @ + 1] ELSE taken
    /\ UNCHANGED <<reports, env, inserted, accepted, unheard>>

EndClaim(w) ==
    /\ At(w, "claim") /\ worker[w].todo = {}
    /\ worker' = [worker EXCEPT ![w].pc = IF worker[w].batch = {} THEN "idle" ELSE "next"]
    /\ UNCHANGED <<row, reports, env, history>>

-----------------------------------------------------------------------------
(* Draining: send the batch                                                *)

Goto(w, pc) == worker' = [worker EXCEPT ![w].pc = pc]

\* The loop goes on with the next message, whatever became of this one.
Rest(w) ==
    LET rest == worker[w].batch \ {Current(w)} IN
    [worker EXCEPT ![w] = [Idle EXCEPT !.pc = IF rest = {} THEN "idle" ELSE "next", !.batch = rest]]

Continue(w) == worker' = Rest(w)

\* The channel is there, cannot be read, or was deleted.
GetChannel(w) ==
    /\ At(w, "next")
    /\ \E pc \in {"send", "retry", "purge"} : Goto(w, pc)
    /\ UNCHANGED <<row, reports, env, history>>

SendAccepted(w) ==
    /\ At(w, "send")
    /\ Goto(w, "complete")
    /\ accepted' = [accepted EXCEPT ![Current(w)] = @ + 1]
    /\ UNCHANGED <<row, reports, env, inserted, taken, unheard>>

\* An error says nothing of the channel: it may have refused the message, or
\* have accepted it before the timeout or before its answer was lost.
SendFails(w) ==
    /\ At(w, "send")
    /\ Goto(w, "retry")
    /\ \/ UNCHANGED <<accepted, unheard>>
       \/ /\ unheard[Current(w)] < MaxUnheard
          /\ accepted' = [accepted EXCEPT ![Current(w)] = @ + 1]
          /\ unheard' = [unheard EXCEPT ![Current(w)] = @ + 1]
    /\ UNCHANGED <<row, reports, env, inserted, taken>>

\* Mutant: whoever has sent the message deletes it.
MaySettleAnyway(w, m) == row[m].status = "running"

\* WHERE id=? AND status='running' AND worker_token=?
MaySettle(w, m) == Owns(w, m)

\* The statement that ends the work on a message, if the row is still this
\* worker's; the loop goes on either way.
Settle(w, outcome) ==
    LET m == Current(w) IN
    /\ row' = IF MaySettle(w, m) THEN [row EXCEPT ![m] = outcome] ELSE row
    /\ worker' = IF MaySettle(w, m) THEN Changed(Rest(w), m) ELSE Rest(w)
    /\ UNCHANGED <<reports, env, history>>

CompleteOutbox(w) ==
    /\ At(w, "complete") \/ At(w, "purge")
    /\ Settle(w, NoRow)

\* The deletion fails after the channel accepted the message.
CompleteFails(w) ==
    /\ env > 0 /\ env' = env - 1
    /\ \/ At(w, "complete") /\ Goto(w, "uncertain")
       \/ At(w, "purge") /\ Continue(w)
    /\ UNCHANGED <<row, reports, history>>

\* The outage that made the deletion fail may last until the isolation.
IsolationFails(w) ==
    /\ At(w, "uncertain") /\ Continue(w)
    /\ UNCHANGED <<row, reports, env, history>>

\* Mutant: the token of the drain stays in the row.
ReleasedWithToken(m, status) == [row[m] EXCEPT !.status = status, !.leased = FALSE]

Released(m, status) == [row[m] EXCEPT !.status = status, !.owner = Nobody, !.leased = FALSE]

MarkOutboxUncertain(w) ==
    At(w, "uncertain") /\ Settle(w, Released(Current(w), "uncertain"))

\* Mutant: the last attempt is not recognised.
NeverFinal(m) == FALSE

Final(m) == row[m].attempts >= MaxAttempts

RetryOutbox(w) ==
    /\ At(w, "retry")
    /\ Settle(w, Released(Current(w), IF Final(Current(w)) THEN "dead" ELSE "pending"))

\* A claim that fails drops the batch it already has; the other statements
\* are logged and the loop goes on.
StatementFails(w) ==
    /\ env > 0 /\ env' = env - 1
    /\ \/ At(w, "claim") /\ worker' = [worker EXCEPT ![w] = Idle]
       \/ At(w, "retry") /\ Continue(w)
    /\ UNCHANGED <<row, reports, history>>

-----------------------------------------------------------------------------
(* Time and crashes                                                        *)

InBatch(m) == \E w \in Worker : Owns(w, m) /\ m \in worker[w].batch

\* The lease of a row runs out, if need be while its worker is still busy
\* with the messages before it.
Lapse(m) ==
    /\ row[m].status = "running" /\ row[m].leased
    /\ InBatch(m) => env > 0
    /\ env' = IF InBatch(m) THEN env - 1 ELSE env
    /\ row' = [row EXCEPT ![m].leased = FALSE]
    /\ UNCHANGED <<worker, reports, history>>

Crash(w) ==
    /\ ~At(w, "idle") /\ env > 0
    /\ env' = env - 1
    /\ worker' = [worker EXCEPT ![w] = Idle]
    /\ UNCHANGED <<row, reports, history>>

-----------------------------------------------------------------------------
(* Specification                                                           *)

\* The loop of drainOutbox once it has read its candidates.
Drain(w) ==
    \/ ClaimOutbox(w) \/ EndClaim(w) \/ GetChannel(w) \/ SendAccepted(w) \/ SendFails(w)
    \/ CompleteOutbox(w) \/ MarkOutboxUncertain(w) \/ RetryOutbox(w)

Disturb ==
    \E w \in Worker : CompleteFails(w) \/ IsolationFails(w) \/ StatementFails(w) \/ Crash(w)

Next ==
    \/ \E e \in Event : EnqueueOutbox(e)
    \/ \E w \in Worker : ReadDue(w) \/ Drain(w)
    \/ \E m \in Message : Lapse(m)
    \/ Disturb

Spec == Init /\ [][Next]_vars

\* The ticker keeps draining, sends have timeouts, and time passes.
FairSpec ==
    /\ Spec
    /\ \A w \in Worker : WF_vars(ReadDue(w)) /\ WF_vars(Drain(w))
    /\ \A m \in Message : WF_vars(Lapse(m) /\ ~InBatch(m))

-----------------------------------------------------------------------------
(* Properties                                                              *)

\* Rows and drains are well formed, and a free row belongs to nobody.
TypeOK ==
    /\ row \in [Message -> Row]
    /\ worker \in [Worker -> WorkerState]
    /\ reports \in 0 .. MaxReports /\ env \in 0 .. MaxEnv
    /\ inserted \in [Message -> Nat] /\ taken \in [Message -> Nat]
    /\ accepted \in [Message -> Nat] /\ unheard \in [Message -> Nat]
    /\ \A m \in Message : row[m].status # "running" => row[m].owner = Nobody /\ ~row[m].leased

\* The sends of which the worker heard that the channel accepted them.
Heard(m) == accepted[m] - unheard[m]

\* Once a worker has heard that a channel accepted a message, the message is
\* sent again only if it was reported again after it left the table, or a
\* lapsed claim was taken over.  What a channel accepted although the call came
\* back as an error is sent again (RetryOutbox), and that is all that adds to it.
AcceptedAccounted ==
    \A m \in Message :
        /\ Heard(m) <= inserted[m] + taken[m]
        /\ (\E w \in Worker : At(w, "send") /\ Current(w) = m) => Heard(m) < inserted[m] + taken[m]

\* A message given up or isolated stays as it is: neither a late worker nor
\* a repeated report nor a drain touches it (the comment on EnqueueOutbox).
SettledForGood ==
    [][\A m \in Message : row[m].status \in {"dead", "uncertain"} => row'[m] = row[m]]_vars

\* A worker whose row was taken over neither deletes, retries nor isolates
\* it (ClaimOutbox: the token keeps a late worker out).
LateWorkerFenced ==
    [][\A w \in Worker, m \in Message :
         /\ worker[w].pc \in {"complete", "purge", "uncertain", "retry"}
         /\ worker'[w].batch # worker[w].batch /\ m = Current(w) /\ row[m].owner # w
         => row' = row]_vars

\* Every reported message is delivered, given up or isolated, whatever
\* worker dies while it has it.
Waiting(m) == row[m].status = "pending"
Settled(m) == row[m].status \in {"none", "dead", "uncertain"}
EventuallySettled == \A m \in Message : Waiting(m) ~> Settled(m)

\* What was given up, isolated or taken over is written by its owner only.
OutboxFenced == SettledForGood /\ LateWorkerFenced

=============================================================================
