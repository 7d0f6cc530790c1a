------------------------------- MODULE EventGate -------------------------------
(***************************************************************************)
(* How a trade card becomes an automation run.  Both parties of an order   *)
(* may be accounts of this program, and the platform sends each of them a  *)
(* copy of the card; only the seller's may act.  A card says who its       *)
(* receiver is, or does not, or contradicts itself (events.go); a card     *)
(* that does not is checked against the stored order and items, and waits  *)
(* in the queue of deferred tasks until they are there                     *)
(* (order_role_gate.go); the scheduler replays the queue and looks for     *)
(* paid orders whose card never came.                                      *)
(*                                                                         *)
(* Simplified: a card is about one order, and two orders about different   *)
(* items; of the facts of a card only the order number and the item are    *)
(* kept; the reads of one decision are one step, and so is Orders.Upsert   *)
(* (OrderSync has its parts); a rule matches, AI pricing is off, an action *)
(* has no delay, and what follows the start of a run is AutomationRun's;   *)
(* the switch for automatic confirmation is the account's own; the card of *)
(* a pending bargain, which passes the same gate and starts a stage        *)
(* (BargainStage) instead of a run, is left out; the scheduler claims one  *)
(* row at a time.                                                          *)
(***************************************************************************)
EXTENDS Naturals, Sequences

CONSTANTS
    Order,          \* the orders, all in one chat
    Receiver,       \* handlers of the connections of the accounts
    Kinds,          \* the kinds of cards that come together
    MaxCards,       \* bound: cards received
    MaxReplays,     \* the claims of a putAside task, 5 in the code
    MaxEventEnv,    \* bound: pauses, refused calls, crashes
    Undisturbed     \* bound: the kinds of cards that come without any of these

Trigger == {"created", "paid", "completed", "reviewed"}
NoOrder == "none"

ASSUME EventConstants == /\ NoOrder \notin Order /\ Receiver \cap {"replay", "scan"} = {}
                         /\ Kinds \subseteq SUBSET Trigger /\ MaxReplays \in Nat \ {0}

VARIABLES
    kinds,          \* the kinds of cards that come
    trade,          \* [order -> where it stands on the platform]
    orderRow,       \* [order -> its row of orders]
    itemsKnown,     \* the seller's items were synchronized
    mode,           \* the seller's account: on, paused, off
    putAside,       \* the rows of automation_pending_tasks
    started,        \* the runs that were started
    handling,       \* [process -> its task and where it stands]
    received, eventEnv,
    owing           \* history: payment cards stored in the queue, less those rightly dropped

eventVars == <<kinds, trade, orderRow, itemsKnown, mode, putAside, started, handling, received, eventEnv,
               owing>>

Account == {"seller", "buyer"}
Gated == {"created", "paid"}       \* isWebSocketSellerOrderTask
Process == Receiver \cup {"replay", "scan"}

NoKey == <<>>
NoOrderRow == [owner |-> "none", status |-> "unknown"]

\* about, buyers: history, the order the card is about, and whether it called
\* its receiver the buyer; order, item: what the task knows of the order; key:
\* the key a deferral gave it.
NoTask == [source |-> "ws", account |-> "seller", trigger |-> "paid", role |-> "unknown", about |-> NoOrder,
           buyers |-> FALSE, order |-> NoOrder, item |-> FALSE, key |-> NoKey]

Waits == [pc |-> "idle", task |-> NoTask, row |-> NoKey, claim |-> 0, failed |-> FALSE]

EventInit ==
    /\ kinds \in Kinds
    /\ trade = [o \in Order |-> "created"] /\ orderRow = [o \in Order |-> NoOrderRow]
    /\ itemsKnown = FALSE /\ mode = "on" /\ putAside = {} /\ started = {}
    /\ handling = [p \in Process |-> Waits]
    /\ received = 0 /\ eventEnv = (IF kinds \in Undisturbed THEN MaxEventEnv ELSE 0) /\ owing = {}

DisturbEvents == eventEnv < MaxEventEnv /\ eventEnv' = eventEnv + 1

------------------------------------------------------------------------------
(* The card (ExtractTaskFromWS).                                           *)

\* What a card says of its receiver in the first field that speaks of it, and
\* in one after it: the map of the card has no order of its own.
Saying == {<<"unknown", "unknown">>, <<"seller", "unknown">>, <<"buyer", "unknown">>,
           <<"seller", "buyer">>, <<"buyer", "seller">>}

\* The platform tells a buyer nowhere that he is nothing but the seller.
Said(account) ==
    Saying \ (IF account = "buyer" THEN {<<"seller", "unknown">>} ELSE {<<"buyer", "unknown">>})

\* Mutant: the role that is met first is kept.
SetOrderRoleFirst(f, role) == IF f.role = "unknown" THEN [f EXCEPT !.role = role] ELSE f

SetOrderRole(f, role) ==
    IF role = "unknown" THEN f
    ELSE IF f.role \notin {"unknown", role} THEN [f EXCEPT !.conflict = TRUE] ELSE [f EXCEPT !.role = role]

FieldsFromRaw(says) ==
    SetOrderRole(SetOrderRole([role |-> "unknown", conflict |-> FALSE], says[1]), says[2])

\* Where the order stands when a card of the kind is sent.
Sent(trigger, o) ==
    CASE trigger = "created" -> TRUE
      [] trigger = "paid" -> trade[o] # "created"
      [] OTHER -> trade[o] = "shipped"

\* The task of a card (Task).
CardTask(account, o, trigger, named, item, says) ==
    [NoTask EXCEPT !.account = account, !.trigger = trigger, !.role = FieldsFromRaw(says).role, !.about = o,
                   !.item = item, !.buyers = (says[1] = "buyer" \/ says[2] = "buyer"),
                   !.order = IF named THEN o ELSE NoOrder]

\* A card that is refused leaves no trace at all.
ReceiveCard(p) ==
    /\ handling[p].pc = "idle" /\ received < MaxCards
    /\ \E account \in Account, o \in Order, trigger \in kinds, named \in BOOLEAN, item \in BOOLEAN :
         \E says \in Said(account) :
           /\ Sent(trigger, o) /\ (named => item)
           /\ ~FieldsFromRaw(says).conflict /\ FieldsFromRaw(says).role # "buyer"
           /\ handling' = [handling EXCEPT ![p] = [Waits EXCEPT !.pc = "verify",
                                !.task = CardTask(account, o, trigger, named, item, says)]]
    /\ received' = received + 1
    /\ UNCHANGED <<trade, orderRow, itemsKnown, mode, putAside, started, eventEnv, owing>>

------------------------------------------------------------------------------
(* The deferred tasks.                                                     *)

\* buildTriggerKey; the raw key is the fingerprint of the card.
TriggerKey(t) ==
    IF t.key # NoKey THEN t.key ELSE IF t.order # NoOrder THEN <<t.trigger, t.order, "id">> ELSE NoKey

RoleVerificationKey(t) == IF TriggerKey(t) # NoKey THEN TriggerKey(t) ELSE <<t.trigger, t.about, "raw">>

\* Mutant: an order of another account may be acted on.
MayActForAny(t) == TRUE

\* lockAutomationOwnership: the row is the account's, or there is none.
MayAct(t) == t.order = NoOrder \/ orderRow[t.order].owner \in {"none", t.account}

\* DeferTask: the row of the key starts anew, whatever became of it.
Deferred(t, key) ==
    {r \in putAside : r.account # t.account \/ r.key # key}
      \cup {[account |-> t.account, key |-> key, task |-> t, status |-> "pending", claims |-> 0,
             lapsed |-> FALSE]}

\* A payment card in the queue, by its row.
Owes(t, key) == IF t.trigger = "paid" THEN {<<t.account, key>>} ELSE {}

\* A handler is done; the replay still settles its row, unless the task was
\* putAside again, which is taken for a new row under the same key.
Ended(p, outcome) ==
    IF p = "replay" /\ outcome # "again"
    THEN [handling[p] EXCEPT !.pc = "settle", !.failed = (outcome = "failed")]
    ELSE Waits

Proceed(p, new) == handling' = [handling EXCEPT ![p] = new]

\* deferTask, and what becomes of its caller.
PutAside(p, t, key) ==
    IF key # NoKey /\ MayAct(t)
    THEN putAside' = Deferred(t, key) /\ owing' = owing \cup Owes(t, key) /\ Proceed(p, Ended(p, "again"))
    ELSE Proceed(p, Ended(p, "failed")) /\ UNCHANGED <<putAside, owing>>

\* The replay drops its card rightly; another handler has no row of the queue.
LetGo(p) == owing' = owing \ {handling[p].row}

------------------------------------------------------------------------------
(* handleTask                                                              *)

PendingShip(o) == orderRow[o].status = "pending_ship"

\* resolvePaidTaskOrder: a named order completes the item; for a card without
\* a number, some order of the chat that waits for its shipment, of the item
\* if the card names it (FindLatestPendingByChat: the latest).
Candidates(t) ==
    {o \in Order : PendingShip(o) /\ orderRow[o].owner = t.account /\ (t.item => o = t.about)}

\* The task with what the row tells, for each order it may be taken for.
Resolved(t) ==
    IF t.trigger \notin Gated THEN {t}
    ELSE IF t.order # NoOrder THEN {[t EXCEPT !.item = @ \/ orderRow[t.order].owner # "none"]}
    ELSE IF t.trigger = "created" \/ Candidates(t) = {} THEN {t}
    ELSE {[t EXCEPT !.order = o, !.item = TRUE] : o \in Candidates(t)}

Owns(account) == account = "seller" /\ itemsKnown

\* Mutant: a card of a new order needs no item of the account.
AuthorizeAnyCreated(t) ==
    IF t.trigger \notin Gated \/ t.source # "ws" \/ t.role = "seller" THEN "seller"
    ELSE IF t.trigger = "created" THEN (IF t.item THEN "seller" ELSE "later")
    ELSE IF t.order = NoOrder THEN "later"
    ELSE IF orderRow[t.order].owner = "none" THEN "later"
    ELSE IF orderRow[t.order].owner # t.account \/ ~PendingShip(t.order) THEN "refused"
    ELSE IF Owns(t.account) THEN "seller" ELSE "later"

\* Mutant: a stored order of the account will do, whatever its state and item.
AuthorizeOwnOrder(t) ==
    IF t.trigger \notin Gated \/ t.source # "ws" \/ t.role = "seller" THEN "seller"
    ELSE IF t.trigger = "created" THEN (IF t.item /\ Owns(t.account) THEN "seller" ELSE "later")
    ELSE IF t.order = NoOrder THEN "later"
    ELSE IF orderRow[t.order].owner = "none" THEN "later"
    ELSE IF orderRow[t.order].owner = t.account THEN "seller" ELSE "refused"

\* authorizeWebSocketSellerTask, with roleVerificationRetryable.
Authorize(t) ==
    IF t.trigger \notin Gated \/ t.source # "ws" \/ t.role = "seller" THEN "seller"
    ELSE IF t.trigger = "created" THEN (IF t.item /\ Owns(t.account) THEN "seller" ELSE "later")
    ELSE IF t.order = NoOrder THEN "later"
    ELSE IF orderRow[t.order].owner = "none" THEN "later"
    ELSE IF orderRow[t.order].owner # t.account \/ ~PendingShip(t.order) THEN "refused"
    ELSE IF Owns(t.account) THEN "seller" ELSE "later"

\* Mutant: what cannot be verified yet is no failure of the replay.
WithoutEvidenceDone(p) == Proceed(p, Ended(p, "done"))

\* A replay without evidence is a failure, which the queue counts.
WithoutEvidence(p) == Proceed(p, Ended(p, "failed"))

VerifyRole(p) ==
    /\ handling[p].pc = "verify"
    /\ \E t \in Resolved(handling[p].task) :
         LET key == RoleVerificationKey(t)
         IN CASE Authorize(t) = "seller" ->
                   /\ Proceed(p, [handling[p] EXCEPT !.pc = "record",
                                     !.task = [t EXCEPT !.role = IF t.trigger \in Gated THEN "seller" ELSE @]])
                   /\ UNCHANGED <<putAside, owing>>
              [] Authorize(t) = "refused" ->
                   Proceed(p, Ended(p, "done")) /\ LetGo(p) /\ UNCHANGED putAside
              [] Authorize(t) = "later" /\ p = "replay" ->
                   WithoutEvidence(p) /\ UNCHANGED <<putAside, owing>>
              [] OTHER -> PutAside(p, [t EXCEPT !.key = key], key)
    /\ UNCHANGED <<trade, orderRow, itemsKnown, mode, started, received, eventEnv>>

ModeOf(account) == IF account = "seller" THEN mode ELSE "on"

\* What the settings make of a task whose facts are stored.  Of a completed
\* order there is nothing else to do, and its handler answers as if it had
\* been putAside.
CheckSettings(p, t) ==
    CASE ModeOf(t.account) = "paused" -> PutAside(p, t, TriggerKey(t))
      [] ModeOf(t.account) = "off" ->
           Proceed(p, Ended(p, "done")) /\ LetGo(p) /\ UNCHANGED putAside
      [] OTHER ->
           /\ Proceed(p, IF t.trigger = "completed" THEN Ended(p, "again")
                         ELSE [handling[p] EXCEPT !.pc = "start"])
           /\ UNCHANGED <<putAside, owing>>

\* record, then IsPaused and Status: the first account that writes an order
\* owns it, and the copy of another account is ignored from then on.
RecordFacts(p) ==
    /\ handling[p].pc = "record"
    /\ LET t == handling[p].task IN
         IF ~MayAct(t)
         THEN Proceed(p, Ended(p, "done")) /\ LetGo(p) /\ UNCHANGED <<orderRow, putAside>>
         ELSE /\ orderRow' = IF t.order = NoOrder THEN orderRow
                             ELSE [orderRow EXCEPT ![t.order] =
                                     [owner |-> t.account,
                                      status |-> IF t.trigger = "completed" THEN "done" ELSE @.status]]
              /\ CheckSettings(p, t)
    /\ UNCHANGED <<trade, itemsKnown, mode, started, received, eventEnv>>

\* prepareTask fails: put aside for a minute, or the failure of the replay.
PreparationFails(p) ==
    /\ handling[p].pc = "start" /\ DisturbEvents
    /\ IF p = "replay"
       THEN Proceed(p, Ended(p, "failed")) /\ UNCHANGED <<putAside, owing>>
       ELSE PutAside(p, handling[p].task, TriggerKey(handling[p].task))
    /\ UNCHANGED <<trade, orderRow, itemsKnown, mode, started, received>>

RunOf(t) == [account |-> t.account, trigger |-> t.trigger, key |-> TriggerKey(t), order |-> t.order,
             about |-> t.about, buyers |-> t.buyers]

SameOrder(r, t) == r.account = t.account /\ r.trigger = t.trigger /\ r.order = t.order

\* Mutant: the key of the card alone keeps the runs apart.
AllowAnyDeliveryRun(t) == TRUE

\* allowOrderDeliveryRun: no payment run of the order under another key.
AllowOrderDeliveryRun(t) ==
    t.trigger # "paid" \/ t.order = NoOrder
      \/ ~\E r \in started : SameOrder(r, t) /\ r.key # TriggerKey(t)

\* TryStartRun; what is begun may fail, and the replay then tries again, in
\* vain.
StartRun(p) ==
    /\ handling[p].pc = "start"
    /\ LET t == handling[p].task
           taken == \E r \in started : r.account = t.account /\ r.key = TriggerKey(t)
       IN CASE ~MayAct(t) -> Proceed(p, Ended(p, "failed")) /\ UNCHANGED <<started, owing>>
            [] MayAct(t) /\ (TriggerKey(t) = NoKey \/ taken) ->
                 Proceed(p, Ended(p, "done")) /\ UNCHANGED <<started, owing>>
            [] MayAct(t) /\ TriggerKey(t) # NoKey /\ ~taken /\ ~AllowOrderDeliveryRun(t) ->
                 Proceed(p, Ended(p, "done")) /\ LetGo(p) /\ UNCHANGED started
            [] OTHER ->
                 /\ started' = started \cup {RunOf(t)}
                 /\ \E outcome \in {"done", "failed"} : Proceed(p, Ended(p, outcome))
                 /\ UNCHANGED owing
    /\ UNCHANGED <<trade, orderRow, itemsKnown, mode, putAside, received, eventEnv>>

\* A statement fails before anything was written: the card is lost, the
\* replay has failed.
HandlingFails(p) ==
    /\ handling[p].pc \in {"verify", "record", "start"} /\ DisturbEvents
    /\ Proceed(p, Ended(p, "failed"))
    /\ UNCHANGED <<trade, orderRow, itemsKnown, mode, putAside, started, received, owing>>

------------------------------------------------------------------------------
(* The scheduler.                                                          *)

\* ClaimDueDeferredTasks: a row that waits, or that a dead claim left.
Claim(r) ==
    /\ r.claims < MaxReplays /\ (r.status = "pending" \/ (r.status = "running" /\ r.lapsed))
    /\ putAside' = (putAside \ {r})
         \cup {[r EXCEPT !.status = "running", !.claims = @ + 1, !.lapsed = FALSE]}
    /\ Proceed("replay", [Waits EXCEPT !.pc = "verify", !.task = r.task, !.row = <<r.account, r.key>>,
                                       !.claim = r.claims + 1])

ClaimDeferred ==
    /\ handling["replay"].pc = "idle"
    /\ \E r \in putAside : Claim(r)
    /\ UNCHANGED <<trade, orderRow, itemsKnown, mode, started, received, eventEnv, owing>>

\* Mutant: one claim too many before the row is dead.
AfterFailureLate(r) == [r EXCEPT !.status = IF r.claims > MaxReplays THEN "dead" ELSE "pending"]

AfterFailure(r) == [r EXCEPT !.status = IF r.claims >= MaxReplays THEN "dead" ELSE "pending"]

\* FinishDeferredTask: the row of this claim is deleted, waits again or is
\* dead, of which a person is told; a row that was put anew stays.
SettleReplay ==
    /\ handling["replay"].pc = "settle"
    /\ LET h == handling["replay"]
           mine == {r \in putAside : /\ <<r.account, r.key>> = h.row /\ r.status = "running"
                                     /\ r.claims = h.claim}
       IN putAside' = (putAside \ mine) \cup (IF h.failed THEN {AfterFailure(r) : r \in mine} ELSE {})
    /\ Proceed("replay", Waits)
    /\ UNCHANGED <<trade, orderRow, itemsKnown, mode, started, received, eventEnv, owing>>

LapseDeferred ==
    /\ \E r \in putAside :
         /\ r.status = "running" /\ ~r.lapsed /\ <<r.account, r.key>> # handling["replay"].row
         /\ putAside' = (putAside \ {r}) \cup {[r EXCEPT !.lapsed = TRUE]}
    /\ UNCHANGED <<trade, orderRow, itemsKnown, mode, started, handling, received, eventEnv, owing>>

\* scanPendingShipDeliveries: an order that waits for its shipment and has
\* no payment run; the account of its row is taken for the seller's.
ScanPendingShip ==
    /\ handling["scan"].pc = "idle"
    /\ \E o \in Order :
         /\ PendingShip(o) /\ ModeOf(orderRow[o].owner) = "on"
         /\ ~\E r \in started : r.trigger = "paid" /\ r.order = o
         /\ Proceed("scan", [Waits EXCEPT !.pc = "verify",
              !.task = [NoTask EXCEPT !.source = "scheduler", !.account = orderRow[o].owner,
                                      !.role = "seller", !.about = o, !.order = o, !.item = TRUE]])
    /\ UNCHANGED <<trade, orderRow, itemsKnown, mode, putAside, started, received, eventEnv, owing>>

------------------------------------------------------------------------------
(* What happens around.                                                    *)

TradeGoesOn ==
    /\ \E o \in Order : /\ trade[o] # "shipped"
                        /\ trade' = [trade EXCEPT ![o] = IF @ = "created" THEN "paid" ELSE "shipped"]
    /\ UNCHANGED <<orderRow, itemsKnown, mode, putAside, started, handling, received, eventEnv, owing>>

\* RecoverSoldOwnership: nothing was done for the order, nothing waits for it.
Untouched(o) == /\ ~\E r \in started : r.order = o
                /\ ~\E r \in putAside : r.task.order \in {o, NoOrder}

StatusOf(o) ==
    CASE trade[o] = "paid" -> "pending_ship" [] trade[o] = "shipped" -> "done" [] OTHER -> orderRow[o].status

\* The seller's orders, and items, are synchronized.
SyncOrder ==
    /\ \E o \in Order : /\ orderRow[o].owner # "buyer" \/ Untouched(o)
                        /\ orderRow' = [orderRow EXCEPT ![o] = [owner |-> "seller", status |-> StatusOf(o)]]
    /\ orderRow' # orderRow
    /\ UNCHANGED <<trade, itemsKnown, mode, putAside, started, handling, received, eventEnv, owing>>

SyncItems ==
    /\ ~itemsKnown /\ itemsKnown' = TRUE
    /\ UNCHANGED <<trade, orderRow, mode, putAside, started, handling, received, eventEnv, owing>>

SwitchAccount ==
    /\ \/ mode = "on" /\ DisturbEvents /\ mode' \in {"paused", "off"}
       \/ mode # "on" /\ mode' = "on" /\ UNCHANGED eventEnv
    /\ UNCHANGED <<trade, orderRow, itemsKnown, putAside, started, handling, received, owing>>

\* The process dies; a row in its last claim is never taken up again.
CrashEvents ==
    /\ DisturbEvents
    /\ handling' = [p \in Process |-> Waits]
    /\ owing' = {w \in owing : ~\E r \in putAside : /\ w = <<r.account, r.key>> /\ r.status = "running"
                                                    /\ r.claims = MaxReplays}
    /\ UNCHANGED <<trade, orderRow, itemsKnown, mode, putAside, started, received>>

EventNext ==
    /\ \/ \E p \in Receiver : ReceiveCard(p)
       \/ \E p \in Process : \/ VerifyRole(p) \/ RecordFacts(p) \/ PreparationFails(p)
                             \/ StartRun(p) \/ HandlingFails(p)
       \/ ClaimDeferred \/ SettleReplay \/ LapseDeferred \/ ScanPendingShip
       \/ TradeGoesOn \/ SyncOrder \/ SyncItems \/ SwitchAccount \/ CrashEvents
    /\ UNCHANGED kinds

EventSpec == EventInit /\ [][EventNext]_eventVars

------------------------------------------------------------------------------
(* Properties                                                              *)

\* One row per account and key; a row that waits has a claim left and a dead
\* one has none; of the processes only the replay settles a row.
EventTypeOK ==
    /\ \A r, s \in putAside : r.account = s.account /\ r.key = s.key => r = s
    /\ \A r \in putAside : /\ r.status \in {"pending", "running", "dead"} /\ r.claims \in 0 .. MaxReplays
                           /\ r.status = "pending" => r.claims < MaxReplays
                           /\ r.status = "dead" => r.claims = MaxReplays
    /\ \A p \in Process : handling[p].pc \in {"idle", "verify", "record", "start", "settle"}
    /\ \A p \in Process : handling[p].pc = "settle" => p = "replay"

\* Of an order that is being made or paid only the seller's copy of the card
\* acts: no copy that says its receiver is the buyer, and no silent copy of
\* the buyer's account, gets to write the order's row or to start a run, in
\* whatever order the copies, the synchronization and the replays come.
SellerOnly ==
    /\ \A r \in started : r.trigger \in Gated => r.account = "seller"
    /\ \A r \in started : ~r.buyers
    /\ \A p \in Process :
         handling[p].pc \in {"record", "start"} /\ handling[p].task.trigger \in Gated =>
             handling[p].task.account = "seller" /\ ~handling[p].task.buyers

\* Whoever acted on an order owns its row, also when the synchronization
\* moves rows from the buyer's account to the seller's.
ActorOwns == \A r \in started : r.order # NoOrder => orderRow[r.order].owner = r.account

\* An order is delivered by one run, whether its cards named it or not, were
\* put aside or not, and although the scheduler looks for it as well.
DeliveredOnce ==
    \A r, s \in started : r.trigger = "paid" /\ s.trigger = "paid" /\ r.order = s.order => r = s

\* A payment card that was put aside is not forgotten: it has its run, or the
\* queue will bring it up again, or it is dead and a person was told, unless
\* the replay had a reason to drop it (its order is delivered by another run,
\* is another account's or is not to be shipped, or the account is off) or the
\* process died during its last claim.
PaymentKept ==
    \A w \in owing :
        \/ \E r \in started : <<r.account, r.key>> = w
        \/ \E r \in putAside : /\ <<r.account, r.key>> = w
                               /\ \/ r.status \in {"pending", "dead"} \/ r.claims < MaxReplays
                                  \/ handling["replay"].row = w

\* The conjunction of the above.
EventSafe == SellerOnly /\ ActorOwns /\ DeliveredOnce /\ PaymentKept

=============================================================================
