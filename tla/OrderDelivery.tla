----------------------------- MODULE OrderDelivery -----------------------------
(***************************************************************************)
(* The deliveries of one paid order and the stock of cards they draw on.   *)
(*                                                                         *)
(* An order has two rows in automation_runs: the automatic run of the      *)
(* payment event and the manual run an operator may ask for; both execute  *)
(* "send the cards, confirm the shipment".  A row carries the delivery     *)
(* proof: the contents known to be sent, those whose fate is unknown, and  *)
(* the mark that a refill was begun.  A manual request may deliver afresh, *)
(* replay the proof of an earlier run and refill what is missing, or be    *)
(* refused.  Cards leave cards.data_content one by one and return to it    *)
(* only when the message was definitely not sent.                          *)
(*                                                                         *)
(* AutomationRun models one row in more detail (deferred actions, stale    *)
(* judgements of operators, several handlers); here the rows of one order  *)
(* meet.  A lease is held or expired, a retry that is not due is one not   *)
(* claimed yet, a card is a number, the lease check before taking a card   *)
(* is one step with the taking (sending checks the lease again).           *)
(***************************************************************************)
EXTENDS Integers, FiniteSets, Sequences

CONSTANTS
    Requester,    \* concurrent HTTP requests for a full manual delivery
    Units,        \* cards the order is owed: deliverySendCount
    Supply,       \* cards in stock at the beginning
    MaxFailed,    \* a failed run is retried below this attempt (3)
    MaxResume,    \* a pending-ship run is reopened below this attempt (5)
    MaxReplay,    \* bound: a proof is replayed below this attempt
    MaxEnv        \* bound: disturbances (crashes, stalls, failed writes, decisions)

ASSUME OrderAssumption ==
    /\ Units \in Nat \ {0} /\ Supply \in Nat
    /\ MaxFailed \in Nat /\ MaxResume \in Nat
    /\ MaxReplay \in Nat /\ MaxEnv \in Nat
ASSUME ActorAssumption == Requester \cap {"event", "scheduler"} = {}

Run == {"auto", "manual"}
Actor == Requester \cup {"event", "scheduler"}
Card == 1 .. Supply

VARIABLES
    runs,      \* the rows of automation_runs of the order
    latest,    \* the row written last (updated_at)
    stock,     \* cards.data_content
    shipped,   \* the order is no longer pending_ship in the local database
    actor,     \* the goroutines at work on the order
    env,       \* disturbances left
    taken,     \* history: cards that left the stock for a run, less those put back
    handed,    \* history: cards given to the platform for a run, arrived or not
    accepted   \* history: cards the platform confirmed for a run

history == <<taken, handed, accepted>>
vars == <<runs, latest, stock, shipped, actor, env, history>>

-----------------------------------------------------------------------------
(* Types and initial values                                                *)

\* raw: the column is not empty.
Proof == [raw: BOOLEAN, known: SUBSET Card, unsure: SUBSET Card, refill: BOOLEAN]
NoProof == [raw |-> FALSE, known |-> {}, unsure |-> {}, refill |-> FALSE]

RunRow == [status: {"absent", "running", "success", "failed", "needs_review", "canceled"},
           attempt: Nat, cursor: 1 .. 3, started: BOOLEAN, leased: BOOLEAN, sent: Nat,
           err: {"none", "plain", "safe_retry", "replay"}, proof: Proof]
NoRun == [status |-> "absent", attempt |-> 0, cursor |-> 1, started |-> FALSE,
          leased |-> FALSE, sent |-> 0, err |-> "none", proof |-> NoProof]
NewRun == [NoRun EXCEPT !.status = "running", !.attempt = 1, !.leased = TRUE]

Outcome == {"none", "plain", "notsent", "uncertain", "norestore"}
ActorState ==
    [pc: {"idle", "start", "load", "ready", "unit", "send", "restore", "advance", "unsure",
          "abort", "fail", "quarantine", "review", "confirming",
          "claim", "resend", "mark", "save", "consign", "complete", "release"},
     run: Run, att: Nat, cur: 1 .. 3, sent: Nat, n: Nat, card: 0 .. Supply, replay: BOOLEAN,
     proof: Proof, got: Proof, out: Outcome, lost: BOOLEAN, todo: SUBSET Card, unsafe: BOOLEAN]
IdleActor ==
    [pc |-> "idle", run |-> "auto", att |-> 0, cur |-> 1, sent |-> 0, n |-> 0, card |-> 0,
     replay |-> FALSE, proof |-> NoProof, got |-> NoProof, out |-> "none", lost |-> FALSE, todo |-> {},
     unsafe |-> FALSE]

Init ==
    /\ runs = [r \in Run |-> NoRun]
    /\ latest = "auto"
    /\ stock = [i \in 1 .. Supply |-> i]
    /\ shipped = FALSE
    /\ actor = [a \in Actor |-> IdleActor]
    /\ env = MaxEnv
    /\ taken = [r \in Run |-> {}]
    /\ handed = [r \in Run |-> {}]
    /\ accepted = [r \in Run |-> {}]

-----------------------------------------------------------------------------
(* Conditions and effects shared by the statements                         *)

In(a, pc) == actor[a].pc = pc
Set(a, state) == actor' = [actor EXCEPT ![a] = state]
Goto(a, pc) == Set(a, [actor[a] EXCEPT !.pc = pc])
Mine(a) == runs[actor[a].run]

Write(r, row) == runs' = [runs EXCEPT ![r] = row] /\ latest' = r
Unwritten == UNCHANGED <<runs, latest>>
Disturbed == env > 0 /\ env' = env - 1

\* WHERE id=? AND attempt_count=? AND status='running' [AND action_started=1]
Holds(a) == Mine(a).status = "running" /\ Mine(a).attempt = actor[a].att
HoldsAction(a) == Holds(a) /\ Mine(a).started

\* RenewExecutingRunLease: an expired lease is not revived.
Executing(a) == HoldsAction(a) /\ Mine(a).leased

Other(r) == IF r = "auto" THEN "manual" ELSE "auto"
Contents(proof) == proof.known \cup proof.unsure
Present(proof) == Contents(proof) # {}
\* Mutant: the unit whose fate is unknown is counted twice.
MissingLess(proof) == Units - Cardinality(Contents(proof)) - Cardinality(proof.unsure)
Missing(proof) == Units - Cardinality(Contents(proof))

Merge(p, q) == [raw |-> p.raw \/ q.raw, known |-> p.known \cup q.known,
                unsure |-> p.unsure \cup q.unsure, refill |-> p.refill \/ q.refill]
\* The coordinator stores a proof when it has contents or a refill mark.
Stored(p) == [p EXCEPT !.raw = @ \/ p.refill \/ Present(p)]

\* One order has one run with side effects; a manual run may only follow one
\* that succeeded without a proof or failed without having sent anything.
allowOrderDeliveryRun(r) ==
    LET o == runs[Other(r)]
    IN \/ o.status = "absent"
       \/ /\ r = "manual" /\ ~o.proof.raw
          /\ o.status = "success" \/ (o.status = "failed" /\ o.sent = 0)

Retryable(r) ==
    /\ runs[r].attempt < MaxFailed
    /\ runs[r].err = "safe_retry" \/ runs[r].sent = 0
Due(r) ==
    \/ runs[r].status = "running" /\ ~runs[r].leased
    \/ runs[r].status = "failed" /\ ~runs[r].started /\ Retryable(r)
\* What handlePriorManualDelivery decides for the run it read.
Replayable(row) ==
    /\ row.status \in {"failed", "needs_review"} /\ Present(row.proof)
    /\ ~row.proof.refill /\ row.attempt < MaxReplay
Deliverable(row) ==
    \/ row.status = "absent"
    \/ /\ ~Present(row.proof) /\ ~row.proof.refill
       /\ \/ row.status = "success"
          \/ row.status \in {"failed", "canceled"} /\ row.sent = 0

Reclaimed(r) == [runs[r] EXCEPT !.status = "running", !.attempt = @ + 1, !.leased = TRUE,
                                !.err = "none"]
UnderReview(r) == [runs[r] EXCEPT !.status = "needs_review", !.leased = FALSE, !.err = "plain"]
Canceled(r) == [runs[r] EXCEPT !.status = "canceled", !.started = FALSE, !.leased = FALSE,
                               !.proof = NoProof]

-----------------------------------------------------------------------------
(* Starting a run                                                          *)

\* TryStartRun for a payment event (again, when it is redelivered) or for a
\* manual request that found nothing in its way.
TryStartRun(a, r) ==
    /\ \/ a = "event" /\ r = "auto" /\ In(a, "idle") /\ ~shipped
       \/ a \in Requester /\ r = "manual" /\ In(a, "start")
    /\ allowOrderDeliveryRun(r)
    /\ \/ runs[r].status = "absent" /\ Write(r, NewRun)
       \/ runs[r].status # "absent" /\ ~runs[r].started /\ Due(r) /\ Write(r, Reclaimed(r))
    /\ Set(a, [IdleActor EXCEPT !.pc = "load", !.run = r])
    /\ UNCHANGED <<stock, shipped, env, history>>

\* A manual request that finds a run after all replays its proof
\* (handleExistingManualDelivery) or is refused.
StartRefused(a) ==
    /\ a \in Requester /\ In(a, "start")
    /\ ~allowOrderDeliveryRun("manual") \/ (runs["manual"].status # "absent" /\ ~Due("manual"))
    /\ LET own == runs["manual"]
       IN IF Replayable(own)
          THEN Set(a, [IdleActor EXCEPT !.pc = "claim", !.run = "manual", !.att = own.attempt,
                                        !.proof = own.proof, !.todo = Contents(own.proof)])
          ELSE Set(a, IdleActor)
    /\ UNCHANGED <<runs, latest, stock, shipped, env, history>>

\* GetRun, then executeRunActions: a refill that was begun bars every action.
LoadRun(a) ==
    /\ In(a, "load")
    /\ Set(a, [actor[a] EXCEPT !.pc = IF Mine(a).proof.refill THEN "quarantine" ELSE "ready",
                               !.att = Mine(a).attempt, !.cur = Mine(a).cursor,
                               !.sent = Mine(a).sent, !.proof = Mine(a).proof])
    /\ UNCHANGED <<runs, latest, stock, shipped, env, history>>

\* The claim of the next action; past the last one the run ends.
StartRunAction(a) ==
    /\ In(a, "ready") /\ actor[a].cur < 3
    /\ \/ /\ Holds(a) /\ Mine(a).cursor = actor[a].cur /\ ~Mine(a).started
          /\ Write(actor[a].run, [Mine(a) EXCEPT !.started = TRUE, !.leased = TRUE])
          /\ Goto(a, IF actor[a].cur = 1 THEN "unit" ELSE "confirming")
       \/ /\ ~(Holds(a) /\ Mine(a).cursor = actor[a].cur /\ ~Mine(a).started)
          /\ Set(a, [actor[a] EXCEPT !.pc = "fail", !.out = "plain"])
          /\ Unwritten
    /\ UNCHANGED <<stock, shipped, env, history>>

-----------------------------------------------------------------------------
(* Sending the cards: sendDataCardWithProof, for a run or for a refill     *)

\* Mutant: a refill takes the quantity of the whole order.
NeedAll(a) == Units
Need(a) == IF actor[a].replay THEN Missing(actor[a].proof) ELSE Units

\* Mutant: a message whose fate is unknown puts its card back.
FailedPutBack(state) ==
    [state EXCEPT !.pc = IF state.out = "uncertain" /\ state.card # 0 THEN "restore"
                         ELSE IF state.replay THEN "save"
                         ELSE IF state.n > 0 \/ state.out = "norestore" THEN "unsure"
                         ELSE "abort"]
\* Mutant: a card that could not be put back counts as not sent.
FailedNotSent(state) ==
    [state EXCEPT !.pc = IF state.replay THEN "save"
                         ELSE IF state.n > 0 \/ state.out = "uncertain" THEN "unsure"
                         ELSE "abort"]
\* Where the action goes when it ends with an error.
Failed(state) ==
    [state EXCEPT !.pc = IF state.replay THEN "save"
                         ELSE IF state.n > 0 \/ state.out \in {"uncertain", "norestore"}
                              THEN "unsure" ELSE "abort"]

\* The lease is checked and the first line of the stock is taken; the run ends
\* with a plain error when it lost the lease, the stock is empty or the
\* compare-and-set kept losing.
TakeCard(a) ==
    /\ In(a, "unit") /\ actor[a].n < Need(a)
    /\ \/ /\ Executing(a) /\ stock # <<>>
          /\ stock' = Tail(stock)
          /\ taken' = [taken EXCEPT ![actor[a].run] = @ \cup {Head(stock)}]
          /\ Set(a, [actor[a] EXCEPT !.pc = "send", !.card = Head(stock)])
          /\ UNCHANGED env
       \/ /\ \/ (~Executing(a) \/ stock = <<>>) /\ UNCHANGED env
             \/ Disturbed
          /\ Set(a, Failed([actor[a] EXCEPT !.out = "plain"]))
          /\ UNCHANGED <<stock, taken>>
    /\ UNCHANGED <<runs, latest, shipped, handed, accepted>>

\* sendText: the message is not sent when the lease is lost or the account is
\* offline; an answer that never comes leaves its fate unknown.
SendCard(a) ==
    /\ In(a, "send")
    /\ LET r == actor[a].run
           c == actor[a].card
       IN \/ /\ Set(a, [actor[a] EXCEPT !.pc = "restore", !.lost = ~Executing(a)])
             /\ UNCHANGED <<handed, accepted>>
          \/ /\ Executing(a)
             /\ handed' = [handed EXCEPT ![r] = @ \cup {c}]
             /\ accepted' = [accepted EXCEPT ![r] = @ \cup {c}]
             /\ Set(a, [actor[a] EXCEPT !.pc = "unit", !.n = @ + 1, !.card = 0,
                                        !.got.raw = TRUE, !.got.known = @ \cup {c}])
          \/ /\ Executing(a)
             /\ handed' = [handed EXCEPT ![r] = @ \cup {c}]
             /\ Set(a, Failed([actor[a] EXCEPT !.out = "uncertain",
                                               !.got.raw = TRUE, !.got.unsure = @ \cup {c}]))
             /\ UNCHANGED accepted
    /\ UNCHANGED <<runs, latest, stock, shipped, env, taken>>

\* RestoreBatchData after a message that was certainly not sent; it uses the
\* context of the action, which a lost lease has cancelled.
RestoreCard(a) ==
    /\ In(a, "restore")
    /\ \/ /\ ~actor[a].lost
          /\ stock' = <<actor[a].card>> \o stock
          /\ taken' = [taken EXCEPT ![actor[a].run] = @ \ {actor[a].card}]
          /\ Set(a, Failed([actor[a] EXCEPT !.out = "notsent", !.card = 0]))
          /\ UNCHANGED env
       \/ /\ (actor[a].lost /\ UNCHANGED env) \/ Disturbed
          /\ Set(a, Failed([actor[a] EXCEPT !.out = "norestore",
                                            !.got.refill = TRUE]))
          /\ UNCHANGED <<stock, taken>>
    /\ UNCHANGED <<runs, latest, shipped, handed, accepted>>

CardsDone(a) ==
    /\ In(a, "unit") /\ actor[a].n >= Need(a)
    /\ Goto(a, IF actor[a].replay THEN "save" ELSE "advance")
    /\ UNCHANGED <<runs, latest, stock, shipped, env, history>>

\* confirmShipmentWithProof: done, refused, certainly not done, or unknown.
ConfirmShipment(a) ==
    /\ In(a, "confirming")
    /\ \/ shipped' = TRUE /\ Goto(a, "advance")
       \/ /\ \E out \in {"plain", "notsent", "uncertain"} :
                Set(a, Failed([actor[a] EXCEPT !.out = out]))
          /\ UNCHANGED shipped
    /\ UNCHANGED <<runs, latest, stock, env, history>>

-----------------------------------------------------------------------------
(* Recording what happened: executeRunActionLoop and executeRule           *)

Advanced(a, proof) ==
    Write(actor[a].run, [Mine(a) EXCEPT !.cursor = @ + 1, !.started = FALSE,
                                        !.sent = @ + actor[a].n, !.proof = proof])
NextAction(a, proof) ==
    [actor[a] EXCEPT !.pc = "ready", !.cur = @ + 1, !.sent = @ + actor[a].n, !.n = 0,
                     !.card = 0, !.proof = proof, !.got = NoProof, !.out = "none", !.lost = FALSE]

AdvanceRunAction(a) ==
    /\ In(a, "advance")
    /\ LET proof == Merge(actor[a].proof, actor[a].got)
       IN \/ /\ HoldsAction(a) /\ Mine(a).cursor = actor[a].cur
             /\ Advanced(a, proof)
             /\ Set(a, NextAction(a, proof))
             /\ UNCHANGED env
          \/ /\ (~HoldsAction(a) /\ UNCHANGED env) \/ Disturbed
             /\ Goto(a, "quarantine") /\ Unwritten
    /\ UNCHANGED <<stock, shipped, history>>

\* QuarantineRun...: WHERE attempt_count=? AND status IN ('running','failed').
Quarantinable(a) ==
    Mine(a).attempt = actor[a].att /\ Mine(a).status \in {"running", "failed"}

\* QuarantineRun ("quarantine") and QuarantineRunResult ("review", which also
\* writes the count) leave the proof alone.
QuarantineRun(a) ==
    /\ In(a, "quarantine") \/ In(a, "review")
    /\ \/ /\ Quarantinable(a)
          /\ Write(actor[a].run,
                   [UnderReview(actor[a].run) EXCEPT
                       !.sent = IF In(a, "review") THEN actor[a].sent ELSE @])
          /\ UNCHANGED env
       \/ ~Quarantinable(a) /\ Unwritten /\ UNCHANGED env
       \/ Disturbed /\ Unwritten
    /\ Set(a, IdleActor)
    /\ UNCHANGED <<stock, shipped, history>>

\* The external action may have happened in part.  With only confirmations
\* left the run goes on (tryContinueAfterUncertain), unless the environment
\* variable forbids it; otherwise it ends under review, with the proof.
SettleUnsure(a) ==
    /\ In(a, "unsure")
    /\ LET proof == Stored(Merge(actor[a].proof, actor[a].got))
           total == actor[a].sent + actor[a].n
       IN \/ /\ actor[a].cur = 1 /\ actor[a].out \in {"plain", "uncertain"}
             /\ HoldsAction(a) /\ Mine(a).cursor = actor[a].cur
             /\ Advanced(a, proof)
             /\ Set(a, [NextAction(a, proof) EXCEPT !.unsafe = TRUE])
             /\ UNCHANGED env
          \/ /\ Quarantinable(a)
             /\ Write(actor[a].run,
                      [UnderReview(actor[a].run) EXCEPT !.sent = total, !.proof = proof])
             /\ Set(a, IdleActor) /\ UNCHANGED env
          \/ /\ (~Quarantinable(a) /\ UNCHANGED env) \/ Disturbed
             /\ Set(a, IdleActor) /\ Unwritten
    /\ UNCHANGED <<stock, shipped, history>>

AbortRunAction(a) ==
    /\ In(a, "abort")
    /\ \/ /\ Holds(a) /\ Mine(a).cursor = actor[a].cur
          /\ Write(actor[a].run, [Mine(a) EXCEPT !.started = FALSE])
          /\ Goto(a, "fail") /\ UNCHANGED env
       \/ /\ (~Holds(a) /\ UNCHANGED env) \/ Disturbed
          /\ Goto(a, "quarantine") /\ Unwritten
    /\ UNCHANGED <<stock, shipped, history>>

\* A run that had sent something before is reviewed unless its last action was
\* certainly not performed; a manual run is not marked safe to retry.
FinishFailed(a) ==
    /\ In(a, "fail")
    /\ LET safe == actor[a].out = "notsent"
           manual == actor[a].run = "manual"
       IN \/ /\ actor[a].sent > 0 /\ ~safe /\ ~manual
             /\ Goto(a, "review") /\ Unwritten /\ UNCHANGED env
          \/ /\ actor[a].sent = 0 \/ safe \/ manual
             /\ Holds(a)
             /\ Write(actor[a].run,
                      [Mine(a) EXCEPT !.status = "failed", !.leased = FALSE,
                                      !.sent = actor[a].sent,
                                      !.err = IF safe /\ ~manual THEN "safe_retry"
                                              ELSE "plain"])
             /\ Set(a, IdleActor) /\ UNCHANGED env
          \/ /\ (~Holds(a) /\ UNCHANGED env) \/ Disturbed
             /\ Goto(a, "review") /\ Unwritten
    /\ UNCHANGED <<stock, shipped, history>>

\* Past the last action: success, or review when an outcome was unknown.
FinishRun(a) ==
    /\ In(a, "ready") /\ actor[a].cur = 3
    /\ \/ actor[a].unsafe /\ Goto(a, "review") /\ Unwritten /\ UNCHANGED env
       \/ /\ ~actor[a].unsafe /\ Holds(a)
          /\ Write(actor[a].run, [Mine(a) EXCEPT !.status = "success", !.leased = FALSE,
                                                 !.err = "none", !.sent = actor[a].sent])
          /\ Set(a, IdleActor) /\ UNCHANGED env
       \/ /\ ~actor[a].unsafe
          /\ (~Holds(a) /\ UNCHANGED env) \/ Disturbed
          /\ Goto(a, "review") /\ Unwritten
    /\ UNCHANGED <<stock, shipped, history>>

-----------------------------------------------------------------------------
(* The manual request: ManualFullDelivery and the replay of a proof        *)

\* updated_at has a resolution of one second: of two rows written within it the
\* manual one, which has the greater id, may be taken for the latest.
Latest == {latest} \cup {r \in {"manual"} : runs[r].status # "absent"}

RequestDelivery(a) ==
    /\ a \in Requester /\ In(a, "idle")
    /\ \E r \in Latest :
        \/ /\ r = "auto" /\ Deliverable(runs[r])
           /\ Set(a, [IdleActor EXCEPT !.pc = "start", !.run = "manual"])
        \/ /\ Replayable(runs[r])
           /\ Set(a, [IdleActor EXCEPT !.pc = "claim", !.run = r, !.att = runs[r].attempt,
                                       !.proof = runs[r].proof, !.todo = Contents(runs[r].proof)])
    /\ UNCHANGED <<runs, latest, stock, shipped, env, history>>

\* One request at a time gets the right to send the proof again.
ClaimDeliveryReplay(a) ==
    /\ In(a, "claim")
    /\ \/ /\ Mine(a).attempt = actor[a].att /\ Mine(a).proof.raw
          /\ Mine(a).status \in {"failed", "needs_review"}
          /\ Write(actor[a].run, [Mine(a) EXCEPT !.status = "running", !.attempt = @ + 1,
                                                 !.started = TRUE, !.leased = TRUE])
          /\ Set(a, [actor[a] EXCEPT !.pc = "resend", !.att = @ + 1, !.replay = TRUE])
       \/ /\ \/ Mine(a).attempt # actor[a].att \/ ~Mine(a).proof.raw
             \/ Mine(a).status \notin {"failed", "needs_review"}
          /\ Set(a, IdleActor) /\ Unwritten
    /\ UNCHANGED <<stock, shipped, env, history>>

\* The contents of the proof are sent again, then what is missing is refilled.
ResendMessage(a) ==
    /\ In(a, "resend")
    /\ \/ /\ actor[a].todo # {} /\ Executing(a)
          /\ LET c == CHOOSE x \in actor[a].todo : TRUE
                 r == actor[a].run
             IN /\ handed' = [handed EXCEPT ![r] = @ \cup {c}]
                /\ accepted' = [accepted EXCEPT ![r] = @ \cup {c}]
                /\ Set(a, [actor[a] EXCEPT !.todo = @ \ {c}])
       \/ /\ actor[a].todo = {}
          /\ Goto(a, IF Missing(actor[a].proof) > 0 THEN "mark" ELSE "consign")
          /\ UNCHANGED <<handed, accepted>>
       \/ /\ actor[a].todo # {} /\ Goto(a, "release")
          /\ UNCHANGED <<handed, accepted>>
    /\ UNCHANGED <<runs, latest, stock, shipped, env, taken>>

\* UpdateDeliveryReplayProof, before a card is taken for the refill ...
MarkRefill(a) ==
    /\ In(a, "mark")
    /\ LET proof == [actor[a].proof EXCEPT !.refill = TRUE]
       IN \/ /\ HoldsAction(a)
             /\ Write(actor[a].run, [Mine(a) EXCEPT !.proof = proof])
             /\ Goto(a, "unit") /\ UNCHANGED env
          \/ /\ (~HoldsAction(a) /\ UNCHANGED env) \/ Disturbed
             /\ Goto(a, "release") /\ Unwritten
    /\ UNCHANGED <<stock, shipped, history>>

\* ... and after it, with the new contents; the mark stays when a card that was
\* not sent could not be put back.
SaveRefill(a) ==
    /\ In(a, "save")
    /\ LET proof == [Merge(actor[a].proof, actor[a].got) EXCEPT !.refill =
                        actor[a].out = "norestore"]
       IN \/ /\ HoldsAction(a)
             /\ Write(actor[a].run, [Mine(a) EXCEPT !.proof = proof])
             /\ Set(a, [actor[a] EXCEPT !.pc = IF actor[a].out = "none" THEN "consign"
                                               ELSE "release",
                                        !.proof = proof, !.got = NoProof])
             /\ UNCHANGED env
          \/ /\ (~HoldsAction(a) /\ UNCHANGED env) \/ Disturbed
             /\ Goto(a, "release") /\ Unwritten
    /\ UNCHANGED <<stock, shipped, history>>

ConsignReplay(a) ==
    /\ In(a, "consign")
    /\ \/ shipped' = TRUE /\ Goto(a, "complete")
       \/ Goto(a, "release") /\ UNCHANGED shipped
    /\ UNCHANGED <<runs, latest, stock, env, history>>

CompleteDeliveryReplay(a) ==
    /\ In(a, "complete")
    /\ \/ /\ HoldsAction(a)
          /\ Write(actor[a].run, [Mine(a) EXCEPT !.status = "success", !.started = FALSE,
                                                 !.leased = FALSE, !.err = "none"])
          /\ Set(a, IdleActor) /\ UNCHANGED env
       \/ /\ (~HoldsAction(a) /\ UNCHANGED env) \/ Disturbed
          /\ Goto(a, "release") /\ Unwritten
    /\ UNCHANGED <<stock, shipped, history>>

ReleaseDeliveryReplay(a) ==
    /\ In(a, "release")
    /\ \/ /\ HoldsAction(a)
          /\ Write(actor[a].run, [Mine(a) EXCEPT !.status = "needs_review", !.leased = FALSE,
                                                 !.err = "replay"])
          /\ UNCHANGED env
       \/ ~HoldsAction(a) /\ Unwritten /\ UNCHANGED env
       \/ Disturbed /\ Unwritten
    /\ Set(a, IdleActor)
    /\ UNCHANGED <<stock, shipped, history>>

-----------------------------------------------------------------------------
(* The scheduler                                                           *)

\* runRecoveryTasks: an interrupted action and a run of another source than the
\* platform's event go to review.
QuarantineRecoveryRun(r) ==
    /\ In("scheduler", "idle") /\ Due(r)
    /\ runs[r].started \/ r = "manual"
    /\ Write(r, UnderReview(r))
    /\ UNCHANGED <<stock, shipped, actor, env, history>>

\* The order has left pending_ship.
CancelObsoletePaidRecoveryRun ==
    /\ In("scheduler", "idle") /\ Due("auto") /\ ~runs["auto"].started /\ shipped
    /\ Write("auto", Canceled("auto"))
    /\ UNCHANGED <<stock, shipped, actor, env, history>>

ClaimRecoveryRun ==
    /\ In("scheduler", "idle") /\ Due("auto") /\ ~runs["auto"].started /\ ~shipped
    /\ Write("auto", Reclaimed("auto"))
    /\ Set("scheduler", [IdleActor EXCEPT !.pc = "load"])
    /\ UNCHANGED <<stock, shipped, env, history>>

\* scanPendingShipResumes: only the confirmation is left.
ReopenRunForRecovery(r) ==
    /\ In("scheduler", "idle") /\ ~shipped /\ r \in Latest
    /\ runs[r].status \in {"failed", "needs_review"} /\ ~runs[r].started
    /\ runs[r].cursor = 2 /\ runs[r].attempt < MaxResume
    /\ runs[Other(r)].status # "running"
    /\ Write(r, Reclaimed(r))
    /\ Set("scheduler", [IdleActor EXCEPT !.pc = "load", !.run = r])
    /\ UNCHANGED <<stock, shipped, env, history>>

-----------------------------------------------------------------------------
(* Operators, crashes, stalls                                              *)

\* automationIssuePolicy.  Mutant: a run that has sent something and lost its
\* claim is offered for continuation.
DecisionsContinue(r) ==
    CASE runs[r].err = "replay" -> {"cancel"}
      [] runs[r].err # "replay" /\ runs[r].started ->
            IF runs[r].cursor = 2 THEN {"continue", "cancel"} ELSE {"cancel"}
      [] OTHER -> IF runs[r].sent > 0 THEN {"continue", "retry", "cancel"}
                  ELSE {"retry", "cancel"}
Decisions(r) ==
    CASE runs[r].err = "replay" -> {"cancel"}
      [] runs[r].err # "replay" /\ ~runs[r].started /\ runs[r].sent > 0 -> {"cancel"}
      [] runs[r].err # "replay" /\ runs[r].started ->
            IF runs[r].cursor = 2 THEN {"continue", "cancel"} ELSE {"cancel"}
      [] OTHER -> {"retry", "cancel"}

\* ResolveRunIssue; a run that may go on has its lease set to zero.
ResolveRunIssue(r) ==
    /\ runs[r].status = "needs_review" /\ Disturbed
    /\ LET going == [runs[r] EXCEPT !.status = "running", !.started = FALSE, !.leased = FALSE,
                                    !.err = "none"]
       IN \/ "cancel" \in Decisions(r) /\ Write(r, Canceled(r))
          \/ "retry" \in Decisions(r) /\ Write(r, going)
          \/ "continue" \in Decisions(r) /\ Write(r, [going EXCEPT !.cursor = @ + 1])
    /\ UNCHANGED <<stock, shipped, actor, history>>

\* Nobody renews the lease of a run whose goroutine died; a live one may stall.
Orphan(r) == \A a \in Actor : In(a, "idle") \/ actor[a].run # r \/ In(a, "claim")
Lapse(r) ==
    /\ runs[r].status = "running" /\ runs[r].leased
    /\ (Orphan(r) /\ UNCHANGED env) \/ (~Orphan(r) /\ Disturbed)
    /\ runs' = [runs EXCEPT ![r].leased = FALSE]
    /\ UNCHANGED <<latest, stock, shipped, actor, history>>

Crash ==
    /\ Disturbed /\ \E a \in Actor : ~In(a, "idle")
    /\ actor' = [a \in Actor |-> IdleActor]
    /\ UNCHANGED <<runs, latest, stock, shipped, history>>

-----------------------------------------------------------------------------
(* Specification                                                           *)

Work(a) ==
    \/ StartRefused(a) \/ LoadRun(a) \/ StartRunAction(a) \/ TakeCard(a) \/ SendCard(a)
    \/ RestoreCard(a) \/ CardsDone(a) \/ ConfirmShipment(a) \/ AdvanceRunAction(a)
    \/ QuarantineRun(a) \/ SettleUnsure(a) \/ AbortRunAction(a) \/ FinishFailed(a)
    \/ FinishRun(a) \/ ClaimDeliveryReplay(a) \/ ResendMessage(a) \/ MarkRefill(a)
    \/ SaveRefill(a) \/ ConsignReplay(a) \/ CompleteDeliveryReplay(a)
    \/ ReleaseDeliveryReplay(a)
    \/ In(a, "start") /\ TryStartRun(a, "manual")

Recover ==
    \/ \E r \in Run : QuarantineRecoveryRun(r)
    \/ CancelObsoletePaidRecoveryRun \/ ClaimRecoveryRun

Next ==
    \/ \E a \in Actor : Work(a) \/ TryStartRun(a, "auto") \/ RequestDelivery(a)
    \/ Recover
    \/ \E r \in Run : ReopenRunForRecovery(r) \/ ResolveRunIssue(r) \/ Lapse(r)
    \/ Crash

Spec == Init /\ [][Next]_vars

-----------------------------------------------------------------------------
(* Properties                                                              *)

TypeOK ==
    /\ runs \in [Run -> RunRow]
    /\ latest \in Run
    /\ stock \in Seq(Card)
    /\ shipped \in BOOLEAN
    /\ actor \in [Actor -> ActorState]
    /\ env \in 0 .. MaxEnv
    /\ taken \in [Run -> SUBSET Card]
    /\ handed \in [Run -> SUBSET Card]
    /\ accepted \in [Run -> SUBSET Card]

\* However often a run crashes, is retried, replayed and refilled, it never takes
\* more cards out of the stock than the order is owed.
RunOwes == \A r \in Run : Cardinality(taken[r]) <= Units

\* A card that was given to the platform never returns to the stock, where the
\* next order would receive it.
StockNeverSent == \A r \in Run, i \in 1 .. Len(stock) : stock[i] \notin handed[r]

\* Both together: what the two runs of an order do to the stock.
StockSafe == RunOwes /\ StockNeverSent

\* The deliveries implement the ledger of StockLedger: whatever attempts, proofs,
\* replays, refills, crashes and decisions there are, each step takes a card that is
\* owed, gives a card that was taken for the run to the platform, puts back one that
\* no message carried, or leaves the cards alone.
Owed == [r \in Run |-> Units - Cardinality(taken[r])]
Ledger == INSTANCE StockLedger WITH Runs <- Run, Filled <- [i \in 1 .. Supply |-> i], owed <- Owed
StockSpec == Ledger!Spec

\* A card that left the stock is in the proof of its run or in the hands of a
\* goroutine at work on it; otherwise the row shows that something is amiss: it
\* is still claimed for an action, under review, marked as a broken refill, or
\* canceled.
InHand(r) ==
    UNION {Contents(actor[a].got) \cup ({actor[a].card} \ {0}) :
              a \in {b \in Actor : ~In(b, "idle") /\ actor[b].run = r}}
Flagged(row) ==
    \/ row.status \in {"needs_review", "canceled"} \/ row.proof.refill
    \/ row.started
LostVisible ==
    \A r \in Run :
        taken[r] \subseteq Contents(runs[r].proof) \cup InHand(r) \/ Flagged(runs[r])

\* A replay confirms the shipment only after the platform has confirmed every
\* card the order is owed, those of earlier attempts included.
ReplayWhole ==
    \A a \in Actor :
        In(a, "consign") \/ In(a, "complete") => Cardinality(accepted[actor[a].run]) >= Units

\* CompleteDeliveryReplay and ReleaseDeliveryReplay are said to keep an older
\* worker from ending a replay: a replay becomes a success only by itself.
ReplayEndsItself ==
    [][\A r \in Run :
         runs[r].status = "running" /\ runs[r].started /\ runs'[r].status = "success"
             => \E a \in Actor : In(a, "complete") /\ actor[a].run = r]_vars

\* A comment of the store: one order cannot have two runs with side effects.
OneActiveRun == ~(\A r \in Run : runs[r].status = "running")

=============================================================================
