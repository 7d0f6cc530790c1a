------------------------- MODULE MCEventsAndRuns_proofs ------------------------
(***************************************************************************)
(* Proofs about the way from a trade card to an automation run             *)
(* (EventGate), for any set of handlers, orders and kinds of cards, and    *)
(* any number of cards, replays, crashes and failing statements; and that  *)
(* what is proved of EventGate and of AutomationRun holds when both run    *)
(* side by side (MCEventsAndRuns).                                         *)
(*                                                                         *)
(* EventSafe is not inductive.  That only the seller's copy acts needs to  *)
(* know that a row whose order waits for its shipment is the seller's      *)
(* (OrdersFit), and that whoever is taken for the seller is the seller,    *)
(* wherever the task is: in hand (HandsFit), in the queue (RowsFit) or in  *)
(* a run (RunsFit).  That a payment card is kept needs the link between    *)
(* the replay and its row: the row of the claim is the one its task names  *)
(* (ReplayNamed), nobody else claims it or gives it up (ReplayHolds), and  *)
(* it is deleted only after the card was served or rightly dropped         *)
(* (ReplayDone).                                                           *)
(***************************************************************************)
EXTENDS MCEventsAndRuns, AutomationRun_proofs, TLAPS

\* What the components of the state hold.  A row of the queue is named by its account and key.
Keys == Trigger \X (Order \cup {NoOrder}) \X {"id", "raw"}
RowId == Account \X Keys
Id(r) == <<r.account, r.key>>

TaskRec == [source : {"ws", "scheduler"}, account : Account, trigger : Trigger, role : {"unknown", "seller"},
            about : Order \cup {NoOrder}, buyers : BOOLEAN, order : Order \cup {NoOrder}, item : BOOLEAN,
            key : Keys \cup {NoKey}]
RowRec == [account : Account, key : Keys, task : TaskRec, status : {"pending", "running", "dead"},
           claims : 0 .. MaxReplays, lapsed : BOOLEAN]
RunRec == [account : Account, trigger : Trigger, key : Keys, order : Order \cup {NoOrder},
           about : Order \cup {NoOrder}, buyers : BOOLEAN]
Place == {"idle", "verify", "record", "start", "settle"}
HandRec == [pc : Place, task : TaskRec, row : RowId \cup {NoKey}, claim : 0 .. MaxReplays, failed : BOOLEAN]
OrderRec == [owner : Account \cup {"none"}, status : {"unknown", "pending_ship", "done"}]

EventTypes ==
    /\ kinds \subseteq Trigger
    /\ trade \in [Order -> {"created", "paid", "shipped"}] /\ orderRow \in [Order -> OrderRec]
    /\ itemsKnown \in BOOLEAN /\ mode \in {"on", "paused", "off"}
    /\ putAside \subseteq RowRec /\ started \subseteq RunRec /\ handling \in [Process -> HandRec]
    /\ owing \subseteq RowId

\* Whoever is taken for the seller is the seller, and the scheduler takes nobody else; the key of a task is
\* of its kind; a payment without an order that is taken for the seller's was never in the queue.
TaskFit(t) ==
    /\ ~t.buyers
    /\ t.source = "scheduler" => t.role = "seller"
    /\ t.role = "seller" => t.account = "seller"
    /\ t.key # NoKey => t.key[1] = t.trigger
    /\ t.trigger = "paid" /\ t.order = NoOrder /\ t.role = "seller" => t.key = NoKey

\* A row is known by what its task says, and there is one of each name.
RowFit(r) ==
    /\ TaskFit(r.task) /\ r.account = r.task.account /\ r.key = TriggerKey(r.task)
    /\ r.status = "pending" => r.claims < MaxReplays
    /\ r.status = "dead" => r.claims = MaxReplays

RowsFit == \A r \in putAside : RowFit(r)
RowsApart == \A r, s \in putAside : Id(r) = Id(s) => r = s

\* Only the synchronization says that an order is to be shipped, and it says whose it is.
OrdersFit == \A o \in Order : PendingShip(o) => orderRow[o].owner = "seller"

RunsFit ==
    \A r \in started : /\ ~r.buyers /\ (r.trigger \in Gated => r.account = "seller")
                       /\ r.trigger = "paid" => r.order # NoOrder

\* What a handler has found out by the place it has reached.
HandFit(p, h) ==
    /\ TaskFit(h.task)
    /\ h.pc \in {"record", "start"} /\ h.task.trigger \in Gated => h.task.account = "seller" /\ h.task.role = "seller"
    /\ h.pc = "settle" => p = "replay"
    /\ p # "replay" \/ h.pc = "idle" => h.row = NoKey

HandsFit == \A p \in Process : HandFit(p, handling[p])

OrderOwned ==
    \A p \in Process : handling[p].pc = "start" /\ handling[p].task.order # NoOrder
                         => orderRow[handling[p].task.order].owner # "none"

\* The replay works on the row that its task names; nobody else claims that row or gives it up.
ReplayNamed ==
    LET h == handling["replay"]
    IN h.pc \in {"verify", "record", "start"} => h.row = <<h.task.account, TriggerKey(h.task)>> /\ h.row \in RowId

ReplayHolds ==
    \A r \in putAside : Id(r) = handling["replay"].row
        => r.status = "pending" \/ (r.status = "running" /\ r.claims = handling["replay"].claim)

Served(w) == \E r \in started : Id(r) = w

Waiting(w) == \E r \in putAside : Id(r) = w /\ r.status = "pending"

\* A replay that is about to delete its row has served the card, or was right to drop it.
ReplayDone ==
    LET h == handling["replay"]
    IN h.pc = "settle" /\ ~h.failed /\ h.row \in owing => Served(h.row) \/ Waiting(h.row)

OwingPaid == \A w \in owing : w[2][1] = "paid"

\* The queue and the replay that works on it; the orders and what acts on them.
QueueInv == RowsFit /\ RowsApart /\ ReplayNamed /\ ReplayHolds /\ ReplayDone /\ OwingPaid /\ PaymentKept
TradeInv == OrdersFit /\ RunsFit /\ HandsFit /\ OrderOwned /\ ActorOwns /\ DeliveredOnce

EventInv == EventTypes /\ QueueInv /\ TradeInv


-----------------------------------------------------------------------------
(* Cards, tasks and keys                                                   *)

\* A process is a receiver or one of the two of the scheduler.
LEMMA Processes ==
    /\ "replay" \in Process /\ "scan" \in Process /\ Receiver \subseteq Process
    /\ \A p \in Receiver : p # "replay" /\ p # "scan"
  BY EventConstants DEF Process

LEMMA WaitsType == Waits \in HandRec /\ NoTask \in TaskRec /\ TaskFit(NoTask)
  <1>1. NoTask \in TaskRec
    BY DEF NoTask, TaskRec, Account, Trigger
  <1>2. 0 \in 0 .. MaxReplays
    BY EventConstants
  <1>3. Waits \in HandRec
    BY <1>1, <1>2 DEF Waits, HandRec, Place
  <1> QED
    BY <1>1, <1>3 DEF TaskFit, NoTask

\* A key, and with it the name of a row, is never the empty one.
LEMMA KeyNotEmpty ==
    /\ \A key \in Keys : key # NoKey
    /\ \A w \in RowId : w # NoKey /\ w[1] \in Account /\ w[2] \in Keys
    /\ \A r \in RowRec : Id(r) \in RowId
  BY DEF Keys, NoKey, RowId, Id, RowRec

\* What a card that is not refused says of its receiver.
LEMMA FieldsSay ==
    ASSUME NEW account \in Account, NEW says \in Said(account),
           ~FieldsFromRaw(says).conflict, FieldsFromRaw(says).role # "buyer"
    PROVE  /\ FieldsFromRaw(says).role \in {"unknown", "seller"}
           /\ says[1] # "buyer" /\ says[2] # "buyer"
           /\ FieldsFromRaw(says).role = "seller" => account = "seller"
  <1> DEFINE first == [role |-> "unknown", conflict |-> FALSE]
             of(role) == [role |-> role, conflict |-> FALSE]
  <1>1. /\ SetOrderRole(first, "unknown") = first
        /\ SetOrderRole(first, "seller") = of("seller")
        /\ SetOrderRole(first, "buyer") = of("buyer")
    BY DEF SetOrderRole
  <1>2. /\ SetOrderRole(of("seller"), "unknown") = of("seller")
        /\ SetOrderRole(of("buyer"), "unknown") = of("buyer")
    BY DEF SetOrderRole
  <1>3. /\ SetOrderRole(of("seller"), "buyer").conflict
        /\ SetOrderRole(of("buyer"), "seller").conflict
    BY DEF SetOrderRole
  <1>a. \A role : of(role).role = role /\ of(role).conflict = FALSE
    OBVIOUS
  <1>b. first.role = "unknown"
    OBVIOUS
  <1> HIDE DEF first, of
  <1>4. FieldsFromRaw(says) = SetOrderRole(SetOrderRole(first, says[1]), says[2])
    BY DEF FieldsFromRaw, first
  <1>6. CASE says = <<"unknown", "unknown">>
    BY <1>1, <1>b, <1>4, <1>6
  <1>7. CASE says = <<"seller", "unknown">>
    <2>1. account = "seller"
      BY <1>7 DEF Said, Account
    <2> QED
      BY <1>1, <1>2, <1>a, <1>4, <1>7, <2>1
  <1>8. CASE says = <<"buyer", "unknown">>
    BY <1>1, <1>2, <1>a, <1>4, <1>8
  <1>9. CASE says = <<"seller", "buyer">>
    BY <1>1, <1>3, <1>4, <1>9
  <1>10. CASE says = <<"buyer", "seller">>
    BY <1>1, <1>3, <1>4, <1>10
  <1>11. says \in Saying
    BY DEF Said
  <1> QED
    BY <1>6, <1>7, <1>8, <1>9, <1>10, <1>11 DEF Saying

\* The key of a task, once it has one, is of its kind.
LEMMA TriggerKeyIs ==
    ASSUME NEW t \in TaskRec, TaskFit(t)
    PROVE  /\ TriggerKey(t) # NoKey => TriggerKey(t) \in Keys /\ TriggerKey(t)[1] = t.trigger
           /\ TriggerKey(t) = NoKey => t.order = NoOrder /\ t.key = NoKey
           /\ t.key # NoKey => TriggerKey(t) = t.key
           /\ t.key = NoKey /\ t.order # NoOrder => TriggerKey(t) = <<t.trigger, t.order, "id">>
  <1>1. t.key \in Keys \cup {NoKey} /\ t.trigger \in Trigger /\ t.order \in Order \cup {NoOrder}
    BY DEF TaskRec
  <1>2. <<t.trigger, t.order, "id">> \in Keys /\ <<t.trigger, t.order, "id">> # NoKey
    BY <1>1 DEF Keys, NoKey
  <1>3. CASE t.key # NoKey
    BY <1>1, <1>3 DEF TriggerKey, TaskFit
  <1>4. CASE t.key = NoKey /\ t.order # NoOrder
    BY <1>2, <1>4 DEF TriggerKey
  <1>5. CASE t.key = NoKey /\ t.order = NoOrder
    BY <1>5 DEF TriggerKey
  <1> QED
    BY <1>3, <1>4, <1>5

LEMMA RoleKeyIs ==
    ASSUME NEW t \in TaskRec, TaskFit(t)
    PROVE  RoleVerificationKey(t) \in Keys /\ RoleVerificationKey(t)[1] = t.trigger
  <1>1. <<t.trigger, t.about, "raw">> \in Keys
    BY DEF TaskRec, Keys
  <1> QED
    BY <1>1, TriggerKeyIs DEF RoleVerificationKey

\* What a task becomes when it is completed from the stored order.
LEMMA ResolvedFit ==
    ASSUME EventTypes, NEW task \in TaskRec, TaskFit(task), NEW t \in Resolved(task)
    PROVE  /\ t \in TaskRec /\ TaskFit(t)
           /\ t.account = task.account /\ t.trigger = task.trigger /\ t.role = task.role
           /\ t.source = task.source /\ t.key = task.key
           /\ task.order # NoOrder => t.order = task.order
           /\ TriggerKey(task) # NoKey => TriggerKey(t) = TriggerKey(task)
  <1>1. /\ t \in TaskRec /\ t.buyers = task.buyers
        /\ t.account = task.account /\ t.trigger = task.trigger /\ t.role = task.role
        /\ t.source = task.source /\ t.key = task.key
        /\ task.order # NoOrder => t.order = task.order
        /\ t.order = NoOrder => task.order = NoOrder
    <2>1. CASE t = task
      BY <2>1
    <2>2. CASE t = [task EXCEPT !.item = @ \/ orderRow[task.order].owner # "none"]
      <3> DEFINE item == task.item \/ orderRow[task.order].owner # "none"
      <3>1. item \in BOOLEAN /\ t = [task EXCEPT !.item = item]
        BY <2>2
      <3> HIDE DEF item
      <3>2. t \in TaskRec
        BY <3>1 DEF TaskRec
      <3> QED
        BY <3>1, <3>2 DEF TaskRec
    <2>3. CASE task.order = NoOrder /\ \E o \in Candidates(task) : t = [task EXCEPT !.order = o, !.item = TRUE]
      <3>1. PICK o \in Candidates(task) : t = [task EXCEPT !.order = o, !.item = TRUE]
        BY <2>3
      <3>2. o \in Order /\ o # NoOrder
        BY EventConstants DEF Candidates
      <3>3. t \in TaskRec
        BY <3>1, <3>2 DEF TaskRec
      <3> QED
        BY <2>3, <3>1, <3>2, <3>3 DEF TaskRec
    <2> QED
      BY <2>1, <2>2, <2>3 DEF Resolved
  <1>2. TaskFit(t)
    BY <1>1 DEF TaskFit
  <1>3. TriggerKey(task) # NoKey => TriggerKey(t) = TriggerKey(task)
    <2>1. CASE task.key # NoKey
      BY <1>1, <2>1 DEF TriggerKey
    <2>2. CASE task.key = NoKey /\ task.order # NoOrder
      BY <1>1, <2>2 DEF TriggerKey
    <2>3. CASE task.key = NoKey /\ task.order = NoOrder
      BY <2>3 DEF TriggerKey
    <2> QED
      BY <2>1, <2>2, <2>3
  <1> QED
    BY <1>1, <1>2, <1>3

\* Who is let through is the seller.
LEMMA AuthorizedIsSeller ==
    ASSUME NEW t \in TaskRec, TaskFit(t)
    PROVE  /\ Authorize(t) = "seller" /\ t.trigger \in Gated => t.account = "seller"
           /\ Authorize(t) = "seller" /\ t.trigger = "paid" /\ t.order = NoOrder => t.role = "seller"
           /\ Authorize(t) = "later" => t.role = "unknown"
           /\ Authorize(t) \in {"seller", "refused", "later"}
  BY DEF Authorize, TaskFit, TaskRec, Owns, Gated


-----------------------------------------------------------------------------
(* The queue under the moves of the handlers                               *)

LEMMA HandlingType ==
    ASSUME EventTypes, NEW p \in Process, NEW new \in HandRec, Proceed(p, new)
    PROVE  /\ handling' \in [Process -> HandRec] /\ handling'[p] = new
           /\ \A q \in Process \ {p} : handling'[q] = handling[q]
  BY DEF EventTypes, Proceed

\* A handler that leaves the queue as it is: the replay keeps its row, and if it is done has served it or
\* let it go.
LEMMA QueueMoved ==
    ASSUME EventTypes, QueueInv, NEW p \in Process, NEW new \in HandRec, Proceed(p, new),
           putAside' = putAside, started \subseteq started', owing' \subseteq owing,
           \A w \in owing \ owing' : w = handling[p].row,
           p = "replay" =>
               /\ handling[p].pc # "idle" /\ new.row = handling[p].row /\ new.claim = handling[p].claim
               /\ new.pc \in {"verify", "record", "start"} =>
                      /\ handling[p].pc \in {"verify", "record", "start"}
                      /\ <<new.task.account, TriggerKey(new.task)>>
                            = <<handling[p].task.account, TriggerKey(handling[p].task)>>
               /\ new.pc = "settle" /\ ~new.failed /\ new.row \in owing' => \E r \in started' : Id(r) = new.row
    PROVE  QueueInv'
  <1>1. CASE p # "replay"
    <2>1. handling'["replay"] = handling["replay"]
      BY <1>1, HandlingType, Processes
    <2>2. RowsFit' /\ RowsApart' /\ OwingPaid'
      BY DEF QueueInv, RowsFit, RowsApart, OwingPaid, RowFit, TaskFit, TriggerKey
    <2>3. ReplayNamed' /\ ReplayHolds'
      BY <2>1 DEF QueueInv, ReplayNamed, ReplayHolds, TriggerKey
    <2>4. ReplayDone'
      BY <2>1 DEF QueueInv, ReplayDone, Served, Waiting
    <2>5. PaymentKept'
      BY <2>1 DEF QueueInv, PaymentKept
    <2> QED
      BY <2>2, <2>3, <2>4, <2>5 DEF QueueInv
  <1>2. CASE p = "replay"
    <2>1. handling'["replay"] = new /\ new.row = handling["replay"].row /\ new.claim = handling["replay"].claim
      BY <1>2, HandlingType
    <2>2. RowsFit' /\ RowsApart' /\ OwingPaid'
      BY DEF QueueInv, RowsFit, RowsApart, OwingPaid, RowFit, TaskFit, TriggerKey
    <2>3. ReplayNamed'
      BY <1>2, <2>1 DEF QueueInv, ReplayNamed, TriggerKey
    <2>4. ReplayHolds'
      BY <2>1 DEF QueueInv, ReplayHolds
    <2>5. ReplayDone'
      BY <1>2, <2>1 DEF ReplayDone, Served
    <2>6. PaymentKept'
      BY <2>1 DEF QueueInv, PaymentKept
    <2> QED
      BY <2>2, <2>3, <2>4, <2>5, <2>6 DEF QueueInv
  <1> QED
    BY <1>1, <1>2

\* A row that is written anew waits, under the name of its task.
LEMMA QueueDeferred ==
    ASSUME EventTypes, QueueInv, NEW p \in Process, NEW t \in TaskRec, NEW key \in Keys,
           TaskFit(t), TriggerKey(t) = key, Proceed(p, Waits), handling[p].row \in {NoKey, <<t.account, key>>},
           putAside' = Deferred(t, key), owing' = owing \cup Owes(t, key), started' = started
    PROVE  QueueInv' /\ putAside' \subseteq RowRec /\ owing' \subseteq RowId
  <1> DEFINE n == [account |-> t.account, key |-> key, task |-> t, status |-> "pending", claims |-> 0,
                   lapsed |-> FALSE]
             name == <<t.account, key>>
  <1>1. n \in RowRec /\ Id(n) = name /\ n.status = "pending" /\ name \in RowId
    <2>1. t.account \in Account /\ 0 \in 0 .. MaxReplays
      BY EventConstants DEF TaskRec
    <2>2. n \in RowRec
      BY <2>1 DEF RowRec
    <2> QED
      BY <2>1, <2>2 DEF Id, RowId
  <1>2. putAside' = {r \in putAside : Id(r) # name} \cup {n}
    BY DEF Deferred, Id
  <1>3. RowFit(n)'
    <2>1. n.task = t /\ n.account = t.account /\ n.key = key /\ n.claims = 0 /\ n.status = "pending"
      OBVIOUS
    <2> HIDE DEF n
    <2> QED
      BY <2>1, EventConstants DEF RowFit, TaskFit, TriggerKey
  <1>4. \A w \in owing' : w \in owing \/ w = name
    BY DEF Owes
  <1>5. owing' \subseteq RowId
    BY <1>1, <1>4 DEF EventTypes
  <1>6. OwingPaid'
    <2>1. t.trigger = "paid" => name[2][1] = "paid"
      BY TriggerKeyIs, KeyNotEmpty
    <2> QED
      BY <2>1 DEF QueueInv, OwingPaid, Owes
  <1> HIDE DEF n, name
  <1>7. putAside' \subseteq RowRec
    BY <1>1, <1>2 DEF EventTypes
  <1>8. RowsFit'
    BY <1>2, <1>3 DEF QueueInv, RowsFit, RowFit, TaskFit, TriggerKey
  <1>9. RowsApart'
    BY <1>1, <1>2 DEF QueueInv, RowsApart
  <1>10. handling'["replay"] = Waits \/ (handling'["replay"] = handling["replay"] /\ p # "replay")
    BY HandlingType, WaitsType, Processes
  <1>11. ReplayNamed'
    BY <1>10 DEF QueueInv, ReplayNamed, TriggerKey, Waits
  <1>12. ReplayHolds'
    <2>1. SUFFICES ASSUME NEW r \in putAside', Id(r) = handling'["replay"].row
                   PROVE  r.status = "pending" \/ (r.status = "running" /\ r.claims = handling'["replay"].claim)
      BY DEF ReplayHolds, Id
    <2>2. handling'["replay"] # Waits
      BY <1>7, <2>1, KeyNotEmpty DEF Waits
    <2> QED
      BY <1>1, <1>2, <1>10, <2>1, <2>2 DEF QueueInv, ReplayHolds
  <1>13. ReplayDone'
    <2>1. CASE handling'["replay"] = Waits
      BY <2>1 DEF ReplayDone, Waits
    <2>2. CASE handling'["replay"] = handling["replay"]
      <3> DEFINE h == handling["replay"]
      <3>1. SUFFICES ASSUME h.pc = "settle", ~h.failed, h.row \in owing'
                     PROVE  Served(h.row)' \/ Waiting(h.row)'
        BY <2>2 DEF ReplayDone
      <3>2. CASE h.row = name
        BY <1>1, <1>2, <2>2, <3>2 DEF Waiting
      <3>3. CASE h.row # name
        <4>1. Served(h.row) \/ Waiting(h.row)
          BY <1>4, <3>1, <3>3 DEF QueueInv, ReplayDone
        <4> QED
          BY <1>2, <2>2, <3>3, <4>1 DEF Served, Waiting
      <3> QED
        BY <3>2, <3>3
    <2> QED
      BY <1>10, <2>1, <2>2
  <1>14. PaymentKept'
    <2>1. SUFFICES ASSUME NEW w \in owing'
                   PROVE  \/ \E r \in started' : Id(r) = w
                          \/ \E r \in putAside' : /\ Id(r) = w
                                                  /\ \/ r.status \in {"pending", "dead"} \/ r.claims < MaxReplays
                                                     \/ handling'["replay"].row = w
      BY DEF PaymentKept, Id
    <2>2. CASE w = name
      BY <1>1, <1>2, <2>2
    <2>3. CASE w # name
      <3>1. w \in owing
        BY <1>4, <2>3
      <3>2. \/ \E r \in started : Id(r) = w
            \/ \E r \in putAside : /\ Id(r) = w
                                   /\ \/ r.status \in {"pending", "dead"} \/ r.claims < MaxReplays
                                      \/ handling["replay"].row = w
        BY <3>1 DEF QueueInv, PaymentKept, Id
      <3>3. handling["replay"].row = w => handling'["replay"].row = w
        <4>1. CASE p = "replay"
          <5>1. handling["replay"].row \in {NoKey, name} /\ w # NoKey
            BY <1>5, <4>1, KeyNotEmpty DEF name
          <5> QED
            BY <2>3, <5>1
        <4>2. CASE p # "replay"
          BY <4>2, HandlingType, WaitsType, Processes
        <4> QED
          BY <4>1, <4>2
      <3> QED
        BY <1>2, <2>3, <3>2, <3>3
    <2> QED
      BY <2>2, <2>3
  <1> QED
    BY <1>5, <1>6, <1>7, <1>8, <1>9, <1>11, <1>12, <1>13, <1>14 DEF QueueInv

\* A handler that ends without the queue: not the replay, or a replay whose card is no payment's.
LEMMA QueueLeft ==
    ASSUME EventTypes, QueueInv, NEW p \in Process, Proceed(p, Waits), UNCHANGED <<putAside, owing, started>>,
           p = "replay" => handling[p].row \notin owing
    PROVE  QueueInv'
  <1>1. handling'["replay"] = Waits \/ handling'["replay"] = handling["replay"]
    BY HandlingType, WaitsType, Processes
  <1>2. handling["replay"].row \in owing => handling'["replay"] = handling["replay"]
    BY HandlingType, WaitsType, Processes
  <1>3. RowsFit' /\ RowsApart' /\ OwingPaid'
    BY DEF QueueInv, RowsFit, RowsApart, OwingPaid, RowFit, TaskFit, TriggerKey
  <1>4. ReplayNamed'
    BY <1>1 DEF QueueInv, ReplayNamed, TriggerKey, Waits
  <1>5. ReplayHolds'
    <2>1. \A r \in putAside : Id(r) # Waits.row
      BY KeyNotEmpty DEF EventTypes, Waits
    <2> QED
      BY <1>1, <2>1 DEF QueueInv, ReplayHolds
  <1>6. ReplayDone'
    BY <1>1 DEF QueueInv, ReplayDone, Served, Waiting, Waits
  <1>7. PaymentKept'
    BY <1>2 DEF QueueInv, PaymentKept
  <1> QED
    BY <1>3, <1>4, <1>5, <1>6, <1>7 DEF QueueInv


-----------------------------------------------------------------------------
(* Steps of a handler                                                      *)

\* No step takes an order's row from everybody.
OwnersStay == \A o \in Order : orderRow[o].owner # "none" => orderRow'[o].owner # "none"

LEMMA HandsMoved ==
    ASSUME EventTypes, HandsFit, OrderOwned, NEW p \in Process, NEW new \in HandRec, Proceed(p, new),
           HandFit(p, new), OwnersStay,
           new.pc = "start" /\ new.task.order # NoOrder => orderRow'[new.task.order].owner # "none"
    PROVE  HandsFit' /\ OrderOwned' /\ handling' \in [Process -> HandRec]
  <1>1. /\ handling' \in [Process -> HandRec] /\ handling'[p] = new
        /\ \A q \in Process \ {p} : handling'[q] = handling[q]
    BY HandlingType
  <1>2. HandsFit'
    BY <1>1 DEF HandsFit, HandFit, TaskFit
  <1>3. OrderOwned'
    <2>1. SUFFICES ASSUME NEW q \in Process, handling'[q].pc = "start", handling'[q].task.order # NoOrder
                   PROVE  orderRow'[handling'[q].task.order].owner # "none"
      BY DEF OrderOwned
    <2>2. CASE q = p
      BY <1>1, <2>1, <2>2
    <2>3. CASE q # p
      <3>1. handling'[q] = handling[q] /\ handling[q].task.order \in Order
        BY <1>1, <2>1, <2>3 DEF EventTypes, HandRec, TaskRec
      <3> QED
        BY <2>1, <3>1 DEF OrderOwned, OwnersStay
    <2> QED
      BY <2>2, <2>3
  <1> QED
    BY <1>1, <1>2, <1>3

LEMMA WaitsFit == ASSUME NEW p \in Process PROVE HandFit(p, Waits)
  BY WaitsType DEF HandFit, Waits

\* The work on a task is over, or has failed.
LEMMA EndsKept ==
    ASSUME EventInv, NEW p \in Process, handling[p].pc \in {"verify", "record", "start"},
           NEW outcome \in {"done", "failed"}, Proceed(p, Ended(p, outcome)), OwnersStay,
           putAside' = putAside, started \subseteq started', owing' \subseteq owing,
           \A w \in owing \ owing' : w = handling[p].row,
           p = "replay" /\ outcome = "done" /\ handling[p].row \in owing'
               => \E r \in started' : Id(r) = handling[p].row
    PROVE  QueueInv' /\ HandsFit' /\ OrderOwned' /\ handling' \in [Process -> HandRec]
  <1>1. CASE p # "replay"
    <2>1. Proceed(p, Waits)
      BY <1>1 DEF Ended
    <2>2. QueueInv'
      BY <1>1, <2>1, WaitsType, QueueMoved DEF EventInv
    <2> QED
      BY <2>1, <2>2, WaitsFit, WaitsType, HandsMoved DEF EventInv, TradeInv, Waits
  <1>2. CASE p = "replay"
    <2> DEFINE h == handling[p]
               failed == outcome = "failed"
               new == [h EXCEPT !.pc = "settle", !.failed = failed]
    <2>1. Proceed(p, new)
      BY <1>2 DEF Ended
    <2>2. h \in HandRec /\ HandFit(p, h)
      BY DEF EventInv, EventTypes, TradeInv, HandsFit
    <2>3. /\ new \in HandRec /\ new.pc = "settle" /\ new.row = h.row /\ new.claim = h.claim /\ new.task = h.task
          /\ new.failed = failed
      <3>1. failed \in BOOLEAN /\ "settle" \in Place
        BY DEF Place
      <3> HIDE DEF failed
      <3>2. new \in HandRec
        BY <2>2, <3>1 DEF HandRec
      <3> QED
        BY <2>2, <3>1, <3>2 DEF HandRec
    <2> HIDE DEF new, failed
    <2>4. QueueInv'
      BY <1>2, <2>1, <2>3, QueueMoved DEF failed, EventInv
    <2>5. HandFit(p, new)
      BY <1>2, <2>2, <2>3 DEF HandFit
    <2> QED
      BY <2>1, <2>3, <2>4, <2>5, HandsMoved DEF EventInv, TradeInv
  <1> QED
    BY <1>1, <1>2

\* The task of a handler goes to the queue, or the handler has failed.
LEMMA PutAsideKept ==
    ASSUME EventInv, NEW p \in Process, handling[p].pc \in {"verify", "record", "start"},
           NEW t \in TaskRec, NEW key, key = TriggerKey(t), TaskFit(t), PutAside(p, t, key), OwnersStay, started' = started,
           p = "replay" => t.account = handling[p].task.account /\ TriggerKey(t) = TriggerKey(handling[p].task)
    PROVE  /\ QueueInv' /\ HandsFit' /\ OrderOwned' /\ handling' \in [Process -> HandRec]
           /\ putAside' \subseteq RowRec /\ owing' \subseteq RowId
  <1>1. CASE key # NoKey /\ MayAct(t)
    <2>1. putAside' = Deferred(t, key) /\ owing' = owing \cup Owes(t, key) /\ Proceed(p, Waits)
      BY <1>1 DEF PutAside, Ended
    <2>2. key \in Keys
      BY <1>1, TriggerKeyIs
    <2>3. handling[p].row \in {NoKey, <<t.account, key>>}
      BY DEF EventInv, QueueInv, TradeInv, ReplayNamed, HandsFit, HandFit
    <2>4. QueueInv' /\ putAside' \subseteq RowRec /\ owing' \subseteq RowId
      BY <2>1, <2>2, <2>3, QueueDeferred DEF EventInv
    <2> QED
      BY <2>1, <2>4, WaitsFit, WaitsType, HandsMoved DEF EventInv, TradeInv, Waits
  <1>2. CASE ~(key # NoKey /\ MayAct(t))
    <2>1. Proceed(p, Ended(p, "failed")) /\ UNCHANGED <<putAside, owing>>
      BY <1>2 DEF PutAside
    <2>2. QueueInv' /\ HandsFit' /\ OrderOwned' /\ handling' \in [Process -> HandRec]
      BY <2>1, EndsKept
    <2> QED
      BY <2>1, <2>2 DEF EventInv, EventTypes
  <1> QED
    BY <1>1, <1>2

\* What is said of the orders and the runs, when neither changes.
LEMMA OrdersSame ==
    ASSUME TradeInv, UNCHANGED <<orderRow, started>>
    PROVE  OrdersFit' /\ RunsFit' /\ ActorOwns' /\ DeliveredOnce' /\ OwnersStay
  BY DEF TradeInv, OrdersFit, RunsFit, ActorOwns, DeliveredOnce, OwnersStay, PendingShip

LEMMA ReceiveCardKept == ASSUME EventInv, NEW p \in Receiver, ReceiveCard(p), UNCHANGED kinds PROVE EventInv'
  <1>a. PICK account \in Account, o \in Order, trigger \in kinds, named \in BOOLEAN, item \in BOOLEAN :
          \E says \in Said(account) :
            /\ Sent(trigger, o) /\ (named => item)
            /\ ~FieldsFromRaw(says).conflict /\ FieldsFromRaw(says).role # "buyer"
            /\ handling' = [handling EXCEPT ![p] = [Waits EXCEPT !.pc = "verify",
                                 !.task = CardTask(account, o, trigger, named, item, says)]]
    BY DEF ReceiveCard
  <1>1. PICK says \in Said(account) :
          /\ ~FieldsFromRaw(says).conflict /\ FieldsFromRaw(says).role # "buyer"
          /\ handling' = [handling EXCEPT ![p] = [Waits EXCEPT !.pc = "verify",
                               !.task = CardTask(account, o, trigger, named, item, says)]]
    BY <1>a
  <1>2. UNCHANGED <<kinds, trade, orderRow, itemsKnown, mode, putAside, started, owing>>
    BY DEF ReceiveCard
  <1> DEFINE role == FieldsFromRaw(says).role
             order == IF named THEN o ELSE NoOrder
             task == [NoTask EXCEPT !.account = account, !.trigger = trigger, !.role = role, !.about = o,
                                    !.item = item, !.buyers = FALSE, !.order = order]
             new == [Waits EXCEPT !.pc = "verify", !.task = task]
  <1>3. /\ role \in {"unknown", "seller"} /\ (role = "seller" => account = "seller")
        /\ (says[1] = "buyer" \/ says[2] = "buyer") = FALSE
    BY <1>1, FieldsSay
  <1>4. Proceed(p, new)
    BY <1>1, <1>3 DEF CardTask, Proceed
  <1>5. order \in Order \cup {NoOrder} /\ trigger \in Trigger
    BY DEF EventInv, EventTypes
  <1> HIDE DEF role, order
  <1>6. task \in TaskRec
    BY <1>3, <1>5 DEF TaskRec, NoTask
  <1>7. TaskFit(task)
    BY <1>3 DEF TaskFit, NoTask
  <1> HIDE DEF task
  <1>8. new \in HandRec /\ new.pc = "verify" /\ new.task = task /\ new.row = NoKey
    <2>1. new \in HandRec
      BY <1>6, WaitsType DEF HandRec, Place
    <2> QED
      BY <1>6, <2>1 DEF Waits
  <1> HIDE DEF new
  <1>9. p \in Process /\ p # "replay"
    BY Processes
  <1>10. HandFit(p, new)
    BY <1>7, <1>8, <1>9 DEF HandFit
  <1>11. QueueInv'
    BY <1>2, <1>4, <1>8, <1>9, QueueMoved DEF EventInv
  <1>12. OrdersFit' /\ RunsFit' /\ ActorOwns' /\ DeliveredOnce' /\ OwnersStay
    BY <1>2, OrdersSame DEF EventInv
  <1>13. HandsFit' /\ OrderOwned' /\ handling' \in [Process -> HandRec]
    BY <1>4, <1>8, <1>9, <1>10, <1>12, HandsMoved DEF EventInv, TradeInv
  <1> QED
    BY <1>2, <1>11, <1>12, <1>13 DEF EventInv, EventTypes, TradeInv

LEMMA HandlingFailsKept == ASSUME EventInv, NEW p \in Process, HandlingFails(p), UNCHANGED kinds PROVE EventInv'
  <1>1. /\ handling[p].pc \in {"verify", "record", "start"} /\ Proceed(p, Ended(p, "failed"))
        /\ UNCHANGED <<kinds, trade, orderRow, itemsKnown, mode, putAside, started, owing>>
    BY DEF HandlingFails
  <1>2. OrdersFit' /\ RunsFit' /\ ActorOwns' /\ DeliveredOnce' /\ OwnersStay
    BY <1>1, OrdersSame DEF EventInv
  <1>3. QueueInv' /\ HandsFit' /\ OrderOwned' /\ handling' \in [Process -> HandRec]
    BY <1>1, <1>2, EndsKept
  <1> QED
    BY <1>1, <1>2, <1>3 DEF EventInv, EventTypes, TradeInv

LEMMA PreparationFailsKept ==
    ASSUME EventInv, NEW p \in Process, PreparationFails(p), UNCHANGED kinds PROVE EventInv'
  <1>1. /\ handling[p].pc = "start" /\ UNCHANGED <<kinds, trade, orderRow, itemsKnown, mode, started>>
    BY DEF PreparationFails
  <1>2. OrdersFit' /\ RunsFit' /\ ActorOwns' /\ DeliveredOnce' /\ OwnersStay
    BY <1>1, OrdersSame DEF EventInv
  <1>3. /\ QueueInv' /\ HandsFit' /\ OrderOwned' /\ handling' \in [Process -> HandRec]
        /\ putAside' \subseteq RowRec /\ owing' \subseteq RowId
    <2>1. CASE p = "replay"
      <3>1. Proceed(p, Ended(p, "failed")) /\ UNCHANGED <<putAside, owing>>
        BY <2>1 DEF PreparationFails
      <3>2. QueueInv' /\ HandsFit' /\ OrderOwned' /\ handling' \in [Process -> HandRec]
        BY <1>1, <1>2, <3>1, EndsKept
      <3> QED
        BY <3>1, <3>2 DEF EventInv, EventTypes
    <2>2. CASE p # "replay"
      <3>1. PutAside(p, handling[p].task, TriggerKey(handling[p].task))
        BY <2>2 DEF PreparationFails
      <3>2. handling[p].task \in TaskRec /\ TaskFit(handling[p].task)
        BY DEF EventInv, EventTypes, TradeInv, HandRec, HandsFit, HandFit
      <3> QED
        BY <1>1, <1>2, <2>2, <3>1, <3>2, PutAsideKept
    <2> QED
      BY <2>1, <2>2
  <1> QED
    BY <1>1, <1>2, <1>3 DEF EventInv, EventTypes, TradeInv


-----------------------------------------------------------------------------
(* handleTask                                                              *)

LEMMA VerifyRoleKept == ASSUME EventInv, NEW p \in Process, VerifyRole(p), UNCHANGED kinds PROVE EventInv'
  <1> DEFINE h == handling[p]
  <1>1. h.pc = "verify" /\ UNCHANGED <<kinds, trade, orderRow, itemsKnown, mode, started>>
    BY DEF VerifyRole
  <1>2. OrdersFit' /\ RunsFit' /\ ActorOwns' /\ DeliveredOnce' /\ OwnersStay
    BY <1>1, OrdersSame DEF EventInv
  <1>3. h \in HandRec /\ h.task \in TaskRec /\ TaskFit(h.task) /\ HandFit(p, h)
    BY DEF EventInv, EventTypes, HandRec, TradeInv, HandsFit, HandFit
  <1>4. PICK t \in Resolved(h.task) :
          LET key == RoleVerificationKey(t)
          IN CASE Authorize(t) = "seller" ->
                   /\ Proceed(p, [h EXCEPT !.pc = "record",
                                     !.task = [t EXCEPT !.role = IF t.trigger \in Gated THEN "seller" ELSE @]])
                   /\ UNCHANGED <<putAside, owing>>
              [] Authorize(t) = "refused" ->
                   Proceed(p, Ended(p, "done")) /\ LetGo(p) /\ UNCHANGED putAside
              [] Authorize(t) = "later" /\ p = "replay" ->
                   WithoutEvidence(p) /\ UNCHANGED <<putAside, owing>>
              [] OTHER -> PutAside(p, [t EXCEPT !.key = key], key)
    BY DEF VerifyRole
  <1>5. /\ t \in TaskRec /\ TaskFit(t) /\ t.account = h.task.account /\ t.trigger = h.task.trigger
        /\ TriggerKey(h.task) # NoKey => TriggerKey(t) = TriggerKey(h.task)
    BY <1>3, ResolvedFit DEF EventInv
  <1>6. p = "replay" => h.row = <<h.task.account, TriggerKey(h.task)>> /\ TriggerKey(t) = TriggerKey(h.task)
    <2>1. p = "replay" => h.row = <<h.task.account, TriggerKey(h.task)>> /\ h.row \in RowId
      BY <1>1 DEF EventInv, QueueInv, ReplayNamed
    <2> QED
      BY <1>5, <2>1, KeyNotEmpty
  <1>7. /\ QueueInv' /\ HandsFit' /\ OrderOwned' /\ handling' \in [Process -> HandRec]
        /\ putAside' \subseteq RowRec /\ owing' \subseteq RowId
    <2>1. CASE Authorize(t) = "seller"
      <3> DEFINE role == IF t.trigger \in Gated THEN "seller" ELSE t.role
                 task == [t EXCEPT !.role = role]
                 new == [h EXCEPT !.pc = "record", !.task = task]
      <3>1. Proceed(p, new) /\ UNCHANGED <<putAside, owing>>
        BY <1>4, <2>1
      <3>2. /\ role \in {"unknown", "seller"} /\ (role = "seller" => t.account = "seller")
            /\ t.trigger \in Gated => role = "seller"
            /\ t.role = "seller" => role = "seller"
        BY <1>5, <2>1, AuthorizedIsSeller DEF TaskRec, TaskFit
      <3>3. t.trigger = "paid" /\ t.order = NoOrder => t.key = NoKey
        BY <1>5, <2>1, AuthorizedIsSeller DEF TaskFit
      <3> HIDE DEF role
      <3>4. /\ task \in TaskRec /\ task.account = t.account /\ task.key = t.key /\ task.order = t.order
            /\ task.trigger = t.trigger /\ task.role = role /\ task.source = t.source /\ task.buyers = t.buyers
        <4>1. task \in TaskRec
          BY <1>5, <3>2 DEF TaskRec
        <4> QED
          BY <1>5, <4>1 DEF TaskRec
      <3> HIDE DEF task
      <3>5. TaskFit(task) /\ TriggerKey(task) = TriggerKey(t)
        BY <1>5, <3>2, <3>3, <3>4 DEF TaskFit, TriggerKey
      <3>6. /\ new \in HandRec /\ new.pc = "record" /\ new.task = task /\ new.row = h.row /\ new.claim = h.claim
        <4>1. new \in HandRec
          BY <1>3, <3>4 DEF HandRec, Place
        <4> QED
          BY <1>3, <4>1 DEF HandRec
      <3> HIDE DEF new
      <3>7. HandFit(p, new)
        BY <1>1, <1>3, <3>2, <3>4, <3>5, <3>6 DEF HandFit
      <3>8. QueueInv'
        BY <1>1, <1>5, <1>6, <3>1, <3>4, <3>5, <3>6, QueueMoved DEF EventInv
      <3>9. HandsFit' /\ OrderOwned' /\ handling' \in [Process -> HandRec]
        BY <1>2, <3>1, <3>6, <3>7, HandsMoved DEF EventInv, TradeInv
      <3> QED
        BY <3>1, <3>8, <3>9 DEF EventInv, EventTypes
    <2>2. CASE Authorize(t) = "refused"
      <3>1. Proceed(p, Ended(p, "done")) /\ owing' = owing \ {h.row} /\ putAside' = putAside
        BY <1>4, <2>2 DEF LetGo
      <3>2. QueueInv' /\ HandsFit' /\ OrderOwned' /\ handling' \in [Process -> HandRec]
        BY <1>1, <1>2, <3>1, EndsKept
      <3> QED
        BY <3>1, <3>2 DEF EventInv, EventTypes
    <2>3. CASE Authorize(t) = "later" /\ p = "replay"
      <3>1. Proceed(p, Ended(p, "failed")) /\ UNCHANGED <<putAside, owing>>
        BY <1>4, <2>3 DEF WithoutEvidence
      <3>2. QueueInv' /\ HandsFit' /\ OrderOwned' /\ handling' \in [Process -> HandRec]
        BY <1>1, <1>2, <3>1, EndsKept
      <3> QED
        BY <3>1, <3>2 DEF EventInv, EventTypes
    <2>4. CASE Authorize(t) = "later" /\ p # "replay"
      <3> DEFINE key == RoleVerificationKey(t)
                 task == [t EXCEPT !.key = key]
      <3>1. PutAside(p, task, key)
        BY <1>4, <2>4
      <3>2. key \in Keys /\ key[1] = t.trigger /\ key # NoKey
        BY <1>5, RoleKeyIs, KeyNotEmpty
      <3>3. t.role = "unknown"
        BY <1>5, <2>4, AuthorizedIsSeller
      <3> HIDE DEF key
      <3>4. /\ task \in TaskRec /\ task.account = t.account /\ task.key = key /\ task.order = t.order
            /\ task.trigger = t.trigger /\ task.role = t.role /\ task.source = t.source /\ task.buyers = t.buyers
        <4>1. task \in TaskRec
          BY <1>5, <3>2 DEF TaskRec
        <4> QED
          BY <1>5, <4>1 DEF TaskRec
      <3> HIDE DEF task
      <3>5. TaskFit(task) /\ TriggerKey(task) = key
        BY <1>5, <3>2, <3>3, <3>4 DEF TaskFit, TriggerKey
      <3> QED
        BY <1>1, <1>2, <2>4, <3>1, <3>4, <3>5, PutAsideKept
    <2> QED
      BY <1>5, <2>1, <2>2, <2>3, <2>4, AuthorizedIsSeller
  <1> QED
    BY <1>1, <1>2, <1>7 DEF EventInv, EventTypes, TradeInv

\* The account of a task writes the row of its order.
LEMMA RecordRow ==
    ASSUME EventInv, NEW t \in TaskRec, MayAct(t), started' = started,
           orderRow' = IF t.order = NoOrder THEN orderRow
                       ELSE [orderRow EXCEPT ![t.order] =
                               [owner |-> t.account, status |-> IF t.trigger = "completed" THEN "done" ELSE @.status]]
    PROVE  /\ OrdersFit' /\ RunsFit' /\ ActorOwns' /\ DeliveredOnce' /\ OwnersStay
           /\ orderRow' \in [Order -> OrderRec]
           /\ t.order # NoOrder => orderRow'[t.order].owner # "none"
  <1>1. CASE t.order = NoOrder
    BY <1>1, OrdersSame DEF EventInv, EventTypes
  <1>2. CASE t.order # NoOrder
    <2> DEFINE o == t.order
               row == orderRow[o]
               status == IF t.trigger = "completed" THEN "done" ELSE row.status
               new == [owner |-> t.account, status |-> status]
    <2>1. o \in Order /\ row \in OrderRec /\ orderRow \in [Order -> OrderRec] /\ t.account \in Account
      BY <1>2 DEF EventInv, EventTypes, TaskRec
    <2>2. row.owner \in {"none", t.account}
      BY <1>2 DEF MayAct
    <2>3. orderRow' = [orderRow EXCEPT ![o] = new]
      BY <1>2, <2>1 DEF OrderRec
    <2>4. new \in OrderRec /\ new.owner = t.account /\ new.status \in {row.status, "done"}
      BY <2>1 DEF OrderRec
    <2> HIDE DEF new
    <2>5. /\ orderRow' \in [Order -> OrderRec] /\ orderRow'[o] = new
          /\ \A x \in Order \ {o} : orderRow'[x] = orderRow[x]
      BY <2>1, <2>3, <2>4
    <2>6. OwnersStay /\ orderRow'[o].owner # "none"
      BY <2>1, <2>4, <2>5 DEF OwnersStay, Account
    <2>7. OrdersFit'
      <3>1. SUFFICES ASSUME NEW x \in Order, orderRow'[x].status = "pending_ship"
                     PROVE  orderRow'[x].owner = "seller"
        BY DEF OrdersFit, PendingShip
      <3>2. CASE x = o
        <4>1. row.owner = "seller"
          BY <2>1, <2>4, <2>5, <3>1, <3>2 DEF EventInv, TradeInv, OrdersFit, PendingShip
        <4> QED
          BY <2>2, <2>4, <2>5, <3>2, <4>1
      <3>3. CASE x # o
        BY <2>5, <3>1, <3>3 DEF EventInv, TradeInv, OrdersFit, PendingShip
      <3> QED
        BY <3>2, <3>3
    <2>8. ActorOwns'
      <3>1. SUFFICES ASSUME NEW r \in started, r.order # NoOrder
                     PROVE  orderRow'[r.order].owner = r.account
        BY DEF ActorOwns
      <3>2. orderRow[r.order].owner = r.account /\ r.account \in Account /\ r.order \in Order
        BY <3>1 DEF EventInv, TradeInv, ActorOwns, EventTypes, RunRec
      <3>3. CASE r.order = o
        BY <2>2, <2>4, <2>5, <3>2, <3>3 DEF Account
      <3>4. CASE r.order # o
        BY <2>5, <3>2, <3>4
      <3> QED
        BY <3>3, <3>4
    <2>9. RunsFit' /\ DeliveredOnce'
      BY DEF EventInv, TradeInv, RunsFit, DeliveredOnce
    <2> QED
      BY <2>5, <2>6, <2>7, <2>8, <2>9
  <1> QED
    BY <1>1, <1>2

LEMMA RecordFactsKept == ASSUME EventInv, NEW p \in Process, RecordFacts(p), UNCHANGED kinds PROVE EventInv'
  <1> DEFINE h == handling[p]
             t == h.task
  <1>1. h.pc = "record" /\ UNCHANGED <<kinds, trade, itemsKnown, started>> /\ mode' = mode
    BY DEF RecordFacts
  <1>2. h \in HandRec /\ t \in TaskRec /\ TaskFit(t) /\ HandFit(p, h)
    BY DEF EventInv, EventTypes, HandRec, TradeInv, HandsFit, HandFit
  <1>3. p = "replay" => h.row = <<t.account, TriggerKey(t)>> /\ h.row \in RowId
    BY <1>1 DEF EventInv, QueueInv, ReplayNamed
  <1>4. CASE ~MayAct(t)
    <2>1. Proceed(p, Ended(p, "done")) /\ owing' = owing \ {h.row} /\ UNCHANGED <<orderRow, putAside>>
      BY <1>4 DEF RecordFacts, LetGo
    <2>2. OrdersFit' /\ RunsFit' /\ ActorOwns' /\ DeliveredOnce' /\ OwnersStay
      BY <1>1, <2>1, OrdersSame DEF EventInv
    <2>3. QueueInv' /\ HandsFit' /\ OrderOwned' /\ handling' \in [Process -> HandRec]
      BY <1>1, <2>1, <2>2, EndsKept
    <2> QED
      BY <1>1, <2>1, <2>2, <2>3 DEF EventInv, EventTypes, TradeInv
  <1>5. CASE MayAct(t)
    <2>1. /\ orderRow' = IF t.order = NoOrder THEN orderRow
                         ELSE [orderRow EXCEPT ![t.order] =
                                 [owner |-> t.account, status |-> IF t.trigger = "completed" THEN "done" ELSE @.status]]
          /\ CheckSettings(p, t)
      BY <1>5 DEF RecordFacts
    <2>2. /\ OrdersFit' /\ RunsFit' /\ ActorOwns' /\ DeliveredOnce' /\ OwnersStay
          /\ orderRow' \in [Order -> OrderRec]
          /\ t.order # NoOrder => orderRow'[t.order].owner # "none"
      BY <1>1, <1>2, <1>5, <2>1, RecordRow
    <2>3. /\ QueueInv' /\ HandsFit' /\ OrderOwned' /\ handling' \in [Process -> HandRec]
          /\ putAside' \subseteq RowRec /\ owing' \subseteq RowId
      <3>1. CASE ModeOf(t.account) = "paused"
        <4>1. PutAside(p, t, TriggerKey(t))
          BY <2>1, <3>1 DEF CheckSettings
        <4> QED
          BY <1>1, <1>2, <2>2, <4>1, PutAsideKept
      <3>2. CASE ModeOf(t.account) = "off"
        <4>1. Proceed(p, Ended(p, "done")) /\ owing' = owing \ {h.row} /\ putAside' = putAside
          BY <2>1, <3>2 DEF CheckSettings, LetGo
        <4>2. QueueInv' /\ HandsFit' /\ OrderOwned' /\ handling' \in [Process -> HandRec]
          BY <1>1, <2>2, <4>1, EndsKept
        <4> QED
          BY <4>1, <4>2 DEF EventInv, EventTypes
      <3>3. CASE ModeOf(t.account) \notin {"paused", "off"} /\ t.trigger = "completed"
        <4>1. Proceed(p, Waits) /\ UNCHANGED <<putAside, owing>>
          BY <2>1, <3>3 DEF CheckSettings, Ended
        <4>2. p = "replay" => h.row \notin owing
          <5>1. SUFFICES ASSUME p = "replay", h.row \in owing PROVE FALSE
            OBVIOUS
          <5>2. h.row[2][1] = t.trigger
            BY <1>2, <1>3, <5>1, TriggerKeyIs, KeyNotEmpty
          <5> QED
            BY <3>3, <5>1, <5>2 DEF EventInv, QueueInv, OwingPaid
        <4>3. QueueInv'
          BY <1>1, <4>1, <4>2, QueueLeft DEF EventInv
        <4>4. HandsFit' /\ OrderOwned' /\ handling' \in [Process -> HandRec]
          BY <2>2, <4>1, WaitsFit, WaitsType, HandsMoved DEF EventInv, TradeInv, Waits
        <4> QED
          BY <4>1, <4>3, <4>4 DEF EventInv, EventTypes
      <3>4. CASE ModeOf(t.account) \notin {"paused", "off"} /\ t.trigger # "completed"
        <4> DEFINE new == [h EXCEPT !.pc = "start"]
        <4>1. Proceed(p, new) /\ UNCHANGED <<putAside, owing>>
          BY <2>1, <3>4 DEF CheckSettings
        <4>2. new \in HandRec /\ new.pc = "start" /\ new.task = t /\ new.row = h.row /\ new.claim = h.claim
          BY <1>2 DEF HandRec, Place
        <4> HIDE DEF new
        <4>3. HandFit(p, new)
          BY <1>1, <1>2, <4>2 DEF HandFit
        <4>4. QueueInv'
          BY <1>1, <4>1, <4>2, QueueMoved DEF EventInv
        <4>5. HandsFit' /\ OrderOwned' /\ handling' \in [Process -> HandRec]
          BY <2>2, <4>1, <4>2, <4>3, HandsMoved DEF EventInv, TradeInv
        <4> QED
          BY <4>1, <4>4, <4>5 DEF EventInv, EventTypes
      <3> QED
        BY <3>1, <3>2, <3>3, <3>4
    <2> QED
      BY <1>1, <2>2, <2>3 DEF EventInv, EventTypes, TradeInv
  <1> QED
    BY <1>4, <1>5


\* The run of an order is the only payment run of it, and its account owns the order.
LEMMA StartRunKept == ASSUME EventInv, NEW p \in Process, StartRun(p), UNCHANGED kinds PROVE EventInv'
  <1> DEFINE h == handling[p]
             t == h.task
             taken == \E r \in started : r.account = t.account /\ r.key = TriggerKey(t)
  <1>1. h.pc = "start" /\ UNCHANGED <<kinds, trade, orderRow, itemsKnown, mode, putAside>>
    BY DEF StartRun
  <1>2. h \in HandRec /\ t \in TaskRec /\ TaskFit(t) /\ HandFit(p, h)
    BY DEF EventInv, EventTypes, HandRec, TradeInv, HandsFit, HandFit
  <1>3. p = "replay" => h.row = <<t.account, TriggerKey(t)>> /\ TriggerKey(t) # NoKey
    <2>1. p = "replay" => h.row = <<t.account, TriggerKey(t)>> /\ h.row \in RowId
      BY <1>1 DEF EventInv, QueueInv, ReplayNamed
    <2> QED
      BY <2>1, KeyNotEmpty
  <1>4. OwnersStay
    BY <1>1 DEF OwnersStay
  <1>5. CASE started' = started
    <2>1. QueueInv' /\ HandsFit' /\ OrderOwned' /\ handling' \in [Process -> HandRec] /\ owing' \subseteq owing
      <3>1. CASE ~MayAct(t)
        <4>1. Proceed(p, Ended(p, "failed")) /\ owing' = owing
          BY <3>1 DEF StartRun
        <4> QED
          BY <1>1, <1>4, <1>5, <4>1, EndsKept
      <3>2. CASE MayAct(t) /\ (TriggerKey(t) = NoKey \/ taken)
        <4>1. Proceed(p, Ended(p, "done")) /\ owing' = owing
          BY <3>2 DEF StartRun
        <4>2. p = "replay" => \E r \in started : Id(r) = h.row
          BY <1>3, <3>2 DEF Id
        <4> QED
          BY <1>1, <1>4, <1>5, <4>1, <4>2, EndsKept
      <3>3. CASE MayAct(t) /\ TriggerKey(t) # NoKey /\ ~taken /\ ~AllowOrderDeliveryRun(t)
        <4>1. Proceed(p, Ended(p, "done")) /\ owing' = owing \ {h.row}
          BY <3>3 DEF StartRun, LetGo
        <4> QED
          BY <1>1, <1>4, <1>5, <4>1, EndsKept
      <3>4. CASE MayAct(t) /\ TriggerKey(t) # NoKey /\ ~taken /\ AllowOrderDeliveryRun(t)
        <4>1. started' = started \cup {RunOf(t)}
          BY <3>4 DEF StartRun
        <4>2. RunOf(t) \in started
          BY <1>5, <4>1
        <4>3. RunOf(t).account = t.account /\ RunOf(t).key = TriggerKey(t)
          BY DEF RunOf
        <4> QED
          BY <3>4, <4>2, <4>3
      <3> QED
        BY <3>1, <3>2, <3>3, <3>4
    <2>2. OrdersFit' /\ RunsFit' /\ ActorOwns' /\ DeliveredOnce'
      BY <1>1, <1>5, OrdersSame DEF EventInv
    <2> QED
      BY <1>1, <1>5, <2>1, <2>2 DEF EventInv, EventTypes, TradeInv
  <1>6. CASE started' # started
    <2> DEFINE begun == RunOf(t)
    <2>1. MayAct(t) /\ TriggerKey(t) # NoKey /\ ~taken /\ AllowOrderDeliveryRun(t)
      BY <1>6 DEF StartRun
    <2>2. /\ started' = started \cup {begun} /\ owing' = owing
          /\ \E outcome \in {"done", "failed"} : Proceed(p, Ended(p, outcome))
      BY <2>1 DEF StartRun
    <2>3. /\ begun \in RunRec /\ begun.account = t.account /\ begun.key = TriggerKey(t) /\ begun.trigger = t.trigger
          /\ begun.order = t.order /\ begun.buyers = t.buyers /\ Id(begun) = <<t.account, TriggerKey(t)>>
      <3>1. TriggerKey(t) \in Keys
        BY <1>2, <2>1, TriggerKeyIs
      <3> QED
        BY <1>2, <3>1 DEF RunOf, RunRec, TaskRec, Id
    <2> HIDE DEF begun
    <2>4. started' \subseteq RunRec
      BY <2>2, <2>3 DEF EventInv, EventTypes
    <2>5. QueueInv' /\ HandsFit' /\ OrderOwned' /\ handling' \in [Process -> HandRec]
      <3>1. PICK outcome \in {"done", "failed"} : Proceed(p, Ended(p, outcome))
        BY <2>2
      <3> QED
        BY <1>1, <1>3, <1>4, <2>2, <2>3, <3>1, EndsKept
    <2>6. t.trigger = "paid" => t.order # NoOrder
      BY <1>1, <1>2, <2>1 DEF HandFit, TaskFit, Gated, TriggerKey
    <2>7. RunsFit'
      <3>1. ~begun.buyers /\ (begun.trigger \in Gated => begun.account = "seller")
        BY <1>1, <1>2, <2>3 DEF HandFit, TaskFit
      <3> QED
        BY <2>2, <2>3, <2>6, <3>1 DEF EventInv, TradeInv, RunsFit
    <2>8. t.order # NoOrder => orderRow[t.order].owner = t.account
      <3>1. t.order # NoOrder => orderRow[t.order].owner # "none"
        BY <1>1 DEF EventInv, TradeInv, OrderOwned
      <3> QED
        BY <2>1, <3>1 DEF MayAct
    <2>9. ActorOwns'
      BY <1>1, <2>2, <2>3, <2>8 DEF EventInv, TradeInv, ActorOwns
    <2>10. DeliveredOnce'
      <3>1. SUFFICES ASSUME NEW r \in started, r.trigger = "paid", t.trigger = "paid", r.order = t.order
                     PROVE  FALSE
        BY <2>2, <2>3 DEF EventInv, TradeInv, DeliveredOnce
      <3>2. r.account = t.account
        BY <2>6, <2>8, <3>1 DEF EventInv, TradeInv, ActorOwns
      <3>3. SameOrder(r, t)
        BY <3>1, <3>2 DEF SameOrder
      <3>4. r.key = TriggerKey(t)
        BY <2>1, <2>6, <3>1, <3>3 DEF AllowOrderDeliveryRun
      <3> QED
        BY <2>1, <3>2, <3>4
    <2>11. OrdersFit'
      BY <1>1 DEF EventInv, TradeInv, OrdersFit, PendingShip
    <2> QED
      BY <1>1, <2>2, <2>4, <2>5, <2>7, <2>9, <2>10, <2>11 DEF EventInv, EventTypes, TradeInv
  <1> QED
    BY <1>5, <1>6

-----------------------------------------------------------------------------
(* The scheduler                                                           *)

LEMMA ScanPendingShipKept == ASSUME EventInv, ScanPendingShip, UNCHANGED kinds PROVE EventInv'
  <1>1. PICK o \in Order :
          /\ PendingShip(o)
          /\ Proceed("scan", [Waits EXCEPT !.pc = "verify",
               !.task = [NoTask EXCEPT !.source = "scheduler", !.account = orderRow[o].owner,
                                       !.role = "seller", !.about = o, !.order = o, !.item = TRUE]])
    BY DEF ScanPendingShip
  <1>2. UNCHANGED <<kinds, trade, orderRow, itemsKnown, mode, putAside, started, owing>>
    BY DEF ScanPendingShip
  <1> DEFINE task == [NoTask EXCEPT !.source = "scheduler", !.account = orderRow[o].owner,
                                    !.role = "seller", !.about = o, !.order = o, !.item = TRUE]
             new == [Waits EXCEPT !.pc = "verify", !.task = task]
  <1>3. orderRow[o].owner = "seller"
    BY <1>1 DEF EventInv, TradeInv, OrdersFit
  <1>4. task \in TaskRec /\ TaskFit(task)
    <2> DEFINE half == [NoTask EXCEPT !.source = "scheduler", !.account = "seller", !.role = "seller"]
    <2>1. o # NoOrder /\ task = [half EXCEPT !.about = o, !.order = o, !.item = TRUE]
      BY <1>3, EventConstants DEF NoTask
    <2>2. /\ half \in TaskRec /\ half.source = "scheduler" /\ half.account = "seller" /\ half.role = "seller"
          /\ half.trigger = "paid" /\ half.buyers = FALSE /\ half.key = NoKey
      BY DEF NoTask, TaskRec, Account, Trigger
    <2> HIDE DEF half, task
    <2>3. task \in TaskRec
      BY <2>1, <2>2 DEF TaskRec
    <2>4. /\ task.source = "scheduler" /\ task.account = "seller" /\ task.role = "seller"
          /\ task.trigger = "paid" /\ task.buyers = FALSE /\ task.key = NoKey /\ task.order = o
      BY <2>1, <2>2, <2>3 DEF TaskRec
    <2> QED
      BY <2>1, <2>3, <2>4 DEF TaskFit
  <1>5. Proceed("scan", new)
    BY <1>1
  <1> HIDE DEF task
  <1>6. new \in HandRec /\ new.pc = "verify" /\ new.task = task /\ new.row = NoKey
    <2>1. new \in HandRec
      BY <1>4, WaitsType DEF HandRec, Place
    <2> QED
      BY <1>4, <2>1 DEF Waits
  <1> HIDE DEF new
  <1>7. HandFit("scan", new)
    BY <1>4, <1>6 DEF HandFit
  <1>8. QueueInv'
    BY <1>2, <1>5, <1>6, Processes, QueueMoved DEF EventInv
  <1>9. OrdersFit' /\ RunsFit' /\ ActorOwns' /\ DeliveredOnce' /\ OwnersStay
    BY <1>2, OrdersSame DEF EventInv
  <1>10. HandsFit' /\ OrderOwned' /\ handling' \in [Process -> HandRec]
    BY <1>5, <1>6, <1>7, <1>9, Processes, HandsMoved DEF EventInv, TradeInv
  <1> QED
    BY <1>2, <1>8, <1>9, <1>10 DEF EventInv, EventTypes, TradeInv

\* Rows that change but keep their names and their tasks.
LEMMA ClaimDeferredKept == ASSUME EventInv, ClaimDeferred, UNCHANGED kinds PROVE EventInv'
  <1>1. PICK r \in putAside : Claim(r)
    BY DEF ClaimDeferred
  <1>2. /\ handling["replay"].pc = "idle"
        /\ UNCHANGED <<kinds, trade, orderRow, itemsKnown, mode, started, owing>>
    BY DEF ClaimDeferred
  <1> DEFINE claims == r.claims + 1
             new == [r EXCEPT !.status = "running", !.claims = claims, !.lapsed = FALSE]
             h == [Waits EXCEPT !.pc = "verify", !.task = r.task, !.row = <<r.account, r.key>>, !.claim = claims]
  <1>3. /\ r.claims < MaxReplays /\ putAside' = (putAside \ {r}) \cup {new} /\ Proceed("replay", h)
    BY <1>1 DEF Claim
  <1>4. r \in RowRec /\ RowFit(r) /\ Id(r) \in RowId
    BY KeyNotEmpty DEF EventInv, EventTypes, QueueInv, RowsFit
  <1>5. claims \in 0 .. MaxReplays
    BY <1>3, <1>4, EventConstants DEF RowRec
  <1>6. r.task \in TaskRec /\ r.key \in Keys /\ r.account \in Account /\ Id(r) = <<r.account, r.key>>
    BY <1>4 DEF RowRec, Id
  <1>7. r.account = r.task.account /\ r.key = TriggerKey(r.task) /\ TaskFit(r.task)
    BY <1>4 DEF RowFit
  <1> HIDE DEF claims
  <1>8. /\ new \in RowRec /\ Id(new) = Id(r) /\ new.status = "running" /\ new.claims = claims /\ new.task = r.task
        /\ new.account = r.account /\ new.key = r.key
    <2>1. new \in RowRec
      BY <1>4, <1>5 DEF RowRec
    <2> QED
      BY <1>4, <2>1 DEF RowRec, Id
  <1>9. /\ h \in HandRec /\ h.pc = "verify" /\ h.task = r.task /\ h.row = Id(r) /\ h.claim = claims
    <2>1. h \in HandRec
      BY <1>4, <1>5, <1>6, WaitsType DEF HandRec, Place
    <2> QED
      BY <1>6, <2>1 DEF HandRec, Waits
  <1> HIDE DEF new, h
  <1>10. handling' \in [Process -> HandRec] /\ handling'["replay"] = h
    BY <1>3, <1>9, Processes, HandlingType DEF EventInv
  <1>11. HandFit("replay", h)
    BY <1>7, <1>9 DEF HandFit
  <1>12. OrdersFit' /\ RunsFit' /\ ActorOwns' /\ DeliveredOnce' /\ OwnersStay
    BY <1>2, OrdersSame DEF EventInv
  <1>13. HandsFit' /\ OrderOwned'
    BY <1>3, <1>9, <1>11, <1>12, Processes, HandsMoved DEF EventInv, TradeInv
  <1>14. \A s \in putAside' : s = new \/ (s \in putAside /\ s # r /\ Id(s) # Id(r))
    BY <1>3 DEF EventInv, QueueInv, RowsApart
  <1>15. RowsFit'
    <2>1. RowFit(new)'
      BY <1>4, <1>8 DEF RowFit, TaskFit, TriggerKey
    <2> QED
      BY <1>14, <2>1 DEF EventInv, QueueInv, RowsFit, RowFit, TaskFit, TriggerKey
  <1>16. RowsApart'
    BY <1>8, <1>14 DEF EventInv, QueueInv, RowsApart
  <1>17. ReplayNamed'
    BY <1>4, <1>6, <1>7, <1>9, <1>10 DEF ReplayNamed, TriggerKey
  <1>18. ReplayHolds'
    BY <1>8, <1>9, <1>10, <1>14 DEF ReplayHolds
  <1>19. ReplayDone' /\ OwingPaid'
    BY <1>2, <1>9, <1>10 DEF ReplayDone, EventInv, QueueInv, OwingPaid
  <1>20. PaymentKept'
    <2>1. SUFFICES ASSUME NEW w \in owing
                   PROVE  \/ \E s \in started : Id(s) = w
                          \/ \E s \in putAside' : /\ Id(s) = w
                                                  /\ \/ s.status \in {"pending", "dead"} \/ s.claims < MaxReplays
                                                     \/ handling'["replay"].row = w
      BY <1>2 DEF PaymentKept, Id
    <2>2. new \in putAside' /\ \A s \in putAside : s # r => s \in putAside'
      BY <1>3
    <2>3. CASE w = Id(r)
      BY <1>8, <1>9, <1>10, <2>2, <2>3
    <2>4. CASE w # Id(r)
      <3>1. handling["replay"].row # w
        <4>1. handling["replay"].row = NoKey
          BY <1>2, Processes DEF EventInv, TradeInv, HandsFit, HandFit
        <4> QED
          BY <4>1, KeyNotEmpty DEF EventInv, EventTypes
      <3> QED
        BY <2>2, <2>4, <3>1 DEF EventInv, QueueInv, PaymentKept, Id
    <2> QED
      BY <2>3, <2>4
  <1>21. putAside' \subseteq RowRec
    BY <1>8, <1>14 DEF EventInv, EventTypes
  <1> QED
    BY <1>2, <1>10, <1>12, <1>13, <1>15, <1>16, <1>17, <1>18, <1>19, <1>20, <1>21
       DEF EventInv, EventTypes, QueueInv, TradeInv


\* The row of the claim that has ended: it is deleted, or waits, or is dead.
LEMMA SettleReplayKept == ASSUME EventInv, SettleReplay, UNCHANGED kinds PROVE EventInv'
  <1> DEFINE h == handling["replay"]
             mine == {r \in putAside : Id(r) = h.row /\ r.status = "running" /\ r.claims = h.claim}
  <1>1. /\ h.pc = "settle" /\ Proceed("replay", Waits)
        /\ UNCHANGED <<kinds, trade, orderRow, itemsKnown, mode, started, owing>>
    BY DEF SettleReplay
  <1>2. putAside' = (putAside \ mine) \cup (IF h.failed THEN {AfterFailure(r) : r \in mine} ELSE {})
    BY DEF SettleReplay, Id
  <1>3. \A r \in mine : /\ AfterFailure(r) \in RowRec /\ Id(AfterFailure(r)) = Id(r) /\ AfterFailure(r).task = r.task
                        /\ AfterFailure(r).status \in {"pending", "dead"} /\ RowFit(AfterFailure(r))
    <2>1. SUFFICES ASSUME NEW r \in mine
                   PROVE  /\ AfterFailure(r) \in RowRec /\ Id(AfterFailure(r)) = Id(r)
                          /\ AfterFailure(r).task = r.task
                          /\ AfterFailure(r).status \in {"pending", "dead"} /\ RowFit(AfterFailure(r))
      OBVIOUS
    <2> DEFINE status == IF r.claims >= MaxReplays THEN "dead" ELSE "pending"
               new == [r EXCEPT !.status = status]
    <2>2. r \in RowRec /\ RowFit(r) /\ AfterFailure(r) = new
      BY DEF EventInv, EventTypes, QueueInv, RowsFit, AfterFailure
    <2>3. /\ status \in {"pending", "dead"} /\ r.claims \in 0 .. MaxReplays
          /\ status = "pending" => r.claims < MaxReplays
          /\ status = "dead" => r.claims = MaxReplays
      BY <2>2, EventConstants DEF RowRec
    <2> HIDE DEF status
    <2>4. new \in RowRec
      BY <2>2, <2>3 DEF RowRec
    <2>5. /\ new.account = r.account /\ new.key = r.key /\ new.task = r.task /\ new.status = status
          /\ new.claims = r.claims
      BY <2>2, <2>4 DEF RowRec
    <2> HIDE DEF new
    <2>6. RowFit(new)
      BY <2>2, <2>3, <2>5 DEF RowFit
    <2> QED
      BY <2>2, <2>3, <2>4, <2>5, <2>6 DEF Id
  <1>4. \A s \in putAside' : \/ s \in putAside /\ s \notin mine
                             \/ h.failed /\ \E r \in mine : s = AfterFailure(r)
    BY <1>2
  <1>5. putAside' \subseteq RowRec
    BY <1>3, <1>4 DEF EventInv, EventTypes
  <1>6. RowsFit'
    <2>1. \A s \in putAside' : RowFit(s)
      BY <1>3, <1>4 DEF EventInv, QueueInv, RowsFit
    <2> QED
      BY <2>1 DEF RowsFit, RowFit, TaskFit, TriggerKey
  <1>7. RowsApart'
    BY <1>3, <1>4 DEF EventInv, QueueInv, RowsApart
  <1>8. /\ handling'["replay"] = Waits /\ handling' \in [Process -> HandRec]
    BY <1>1, Processes, WaitsType, HandlingType DEF EventInv
  <1>9. ReplayNamed' /\ ReplayDone'
    BY <1>8 DEF ReplayNamed, ReplayDone, Waits
  <1>10. ReplayHolds'
    BY <1>5, <1>8, KeyNotEmpty DEF ReplayHolds, Waits
  <1>11. OwingPaid'
    BY <1>1 DEF EventInv, QueueInv, OwingPaid
  <1>12. PaymentKept'
    <2>1. SUFFICES ASSUME NEW w \in owing, ~\E s \in started : Id(s) = w
                   PROVE  \E s \in putAside' : /\ Id(s) = w
                                               /\ s.status \in {"pending", "dead"} \/ s.claims < MaxReplays
      BY <1>1 DEF PaymentKept, Id
    <2>2. PICK r \in putAside : /\ Id(r) = w
                                /\ \/ r.status \in {"pending", "dead"} \/ r.claims < MaxReplays
                                   \/ h.row = w
      BY <2>1 DEF EventInv, QueueInv, PaymentKept, Id
    <2>3. CASE r \notin mine
      <3>1. r \in putAside'
        BY <1>2, <2>3
      <3>2. h.row = w => r.status = "pending"
        BY <2>2, <2>3 DEF EventInv, QueueInv, ReplayHolds
      <3> QED
        BY <2>2, <3>1, <3>2
    <2>4. CASE r \in mine /\ h.failed
      <3>1. AfterFailure(r) \in putAside'
        BY <1>2, <2>4
      <3> QED
        BY <1>3, <2>2, <2>4, <3>1
    <2>5. CASE r \in mine /\ ~h.failed
      <3>1. h.row = w
        BY <2>2, <2>5
      <3>2. PICK s \in putAside : Id(s) = w /\ s.status = "pending"
        BY <1>1, <2>1, <2>5, <3>1 DEF EventInv, QueueInv, ReplayDone, Served, Waiting
      <3>3. s = r
        BY <2>2, <3>2 DEF EventInv, QueueInv, RowsApart
      <3> QED
        BY <2>5, <3>2, <3>3
    <2> QED
      BY <2>3, <2>4, <2>5
  <1>13. OrdersFit' /\ RunsFit' /\ ActorOwns' /\ DeliveredOnce' /\ OwnersStay
    BY <1>1, OrdersSame DEF EventInv
  <1>14. HandsFit' /\ OrderOwned'
    BY <1>1, <1>13, Processes, WaitsFit, WaitsType, HandsMoved DEF EventInv, TradeInv, Waits
  <1> QED
    BY <1>1, <1>5, <1>6, <1>7, <1>8, <1>9, <1>10, <1>11, <1>12, <1>13, <1>14
       DEF EventInv, EventTypes, QueueInv, TradeInv

LEMMA LapseDeferredKept == ASSUME EventInv, LapseDeferred, UNCHANGED kinds PROVE EventInv'
  <1>1. PICK r \in putAside : /\ r.status = "running"
                              /\ putAside' = (putAside \ {r}) \cup {[r EXCEPT !.lapsed = TRUE]}
    BY DEF LapseDeferred
  <1>2. UNCHANGED <<kinds, trade, orderRow, itemsKnown, mode, started, handling, owing>>
    BY DEF LapseDeferred
  <1> DEFINE new == [r EXCEPT !.lapsed = TRUE]
  <1>3. r \in RowRec /\ RowFit(r)
    BY DEF EventInv, EventTypes, QueueInv, RowsFit
  <1>4. /\ new \in RowRec /\ new.account = r.account /\ new.key = r.key /\ new.task = r.task
        /\ new.status = r.status /\ new.claims = r.claims
    BY <1>3 DEF RowRec
  <1> HIDE DEF new
  <1>5. Id(new) = Id(r) /\ RowFit(new)
    BY <1>3, <1>4 DEF Id, RowFit
  <1>6. \A s \in putAside' : s = new \/ s \in putAside \ {r}
    BY <1>1 DEF new
  <1>7. new \in putAside' /\ \A s \in putAside : s # r => s \in putAside'
    BY <1>1 DEF new
  <1>8. putAside' \subseteq RowRec
    BY <1>4, <1>6 DEF EventInv, EventTypes
  <1>9. RowsFit'
    <2>1. \A s \in putAside' : RowFit(s)
      BY <1>5, <1>6 DEF EventInv, QueueInv, RowsFit
    <2> QED
      BY <2>1 DEF RowsFit, RowFit, TaskFit, TriggerKey
  <1>10. RowsApart'
    BY <1>5, <1>6 DEF EventInv, QueueInv, RowsApart
  <1>11. ReplayNamed' /\ OwingPaid'
    BY <1>2 DEF EventInv, QueueInv, ReplayNamed, OwingPaid, TriggerKey
  <1>12. ReplayHolds'
    BY <1>2, <1>4, <1>5, <1>6 DEF EventInv, QueueInv, ReplayHolds
  <1>13. ReplayDone'
    BY <1>1, <1>2, <1>7 DEF EventInv, QueueInv, ReplayDone, Served, Waiting
  <1>14. PaymentKept'
    <2>1. SUFFICES ASSUME NEW w \in owing, ~\E s \in started : Id(s) = w
                   PROVE  \E s \in putAside' : /\ Id(s) = w
                                               /\ \/ s.status \in {"pending", "dead"} \/ s.claims < MaxReplays
                                                  \/ handling["replay"].row = w
      BY <1>2 DEF PaymentKept, Id
    <2>2. PICK s \in putAside : /\ Id(s) = w
                                /\ \/ s.status \in {"pending", "dead"} \/ s.claims < MaxReplays
                                   \/ handling["replay"].row = w
      BY <2>1 DEF EventInv, QueueInv, PaymentKept, Id
    <2> QED
      BY <1>4, <1>5, <1>7, <2>2
  <1>15. OrdersFit' /\ RunsFit' /\ ActorOwns' /\ DeliveredOnce' /\ OwnersStay
    BY <1>2, OrdersSame DEF EventInv
  <1>16. HandsFit' /\ OrderOwned'
    BY <1>2 DEF EventInv, TradeInv, HandsFit, OrderOwned, HandFit, TaskFit
  <1> QED
    BY <1>2, <1>8, <1>9, <1>10, <1>11, <1>12, <1>13, <1>14, <1>15, <1>16
       DEF EventInv, EventTypes, QueueInv, TradeInv

-----------------------------------------------------------------------------
(* What happens around                                                     *)

\* The queue, the runs and the handlers stay; the rows of the orders keep an owner they have.
LEMMA AroundKept ==
    ASSUME EventInv, UNCHANGED <<putAside, started, handling, owing>>, EventTypes', OrdersFit', ActorOwns', OwnersStay
    PROVE  EventInv'
  <1>1. QueueInv'
    BY DEF EventInv, QueueInv, RowsFit, RowsApart, ReplayNamed, ReplayHolds, ReplayDone, OwingPaid, PaymentKept,
           RowFit, TaskFit, TriggerKey, Served, Waiting
  <1>2. RunsFit' /\ HandsFit' /\ DeliveredOnce'
    BY DEF EventInv, TradeInv, RunsFit, HandsFit, HandFit, TaskFit, DeliveredOnce
  <1>3. OrderOwned'
    BY DEF EventInv, EventTypes, HandRec, TaskRec, TradeInv, OrderOwned, OwnersStay
  <1> QED
    BY <1>1, <1>2, <1>3 DEF EventInv, TradeInv

LEMMA TradeGoesOnKept == ASSUME EventInv, TradeGoesOn, UNCHANGED kinds PROVE EventInv'
  <1>1. PICK o \in Order : trade' = [trade EXCEPT ![o] = IF @ = "created" THEN "paid" ELSE "shipped"]
    BY DEF TradeGoesOn
  <1>2. UNCHANGED <<kinds, orderRow, itemsKnown, mode, putAside, started, handling, owing>>
    BY DEF TradeGoesOn
  <1>3. EventTypes'
    BY <1>1, <1>2 DEF EventInv, EventTypes
  <1> QED
    BY <1>2, <1>3, OrdersSame, AroundKept DEF EventInv

LEMMA SyncOrderKept == ASSUME EventInv, SyncOrder, UNCHANGED kinds PROVE EventInv'
  <1>1. PICK o \in Order : /\ orderRow[o].owner # "buyer" \/ Untouched(o)
                           /\ orderRow' = [orderRow EXCEPT ![o] = [owner |-> "seller", status |-> StatusOf(o)]]
    BY DEF SyncOrder
  <1>2. UNCHANGED <<kinds, trade, itemsKnown, mode, putAside, started, handling, owing>>
    BY DEF SyncOrder
  <1> DEFINE new == [owner |-> "seller", status |-> StatusOf(o)]
  <1>3. orderRow \in [Order -> OrderRec] /\ orderRow[o] \in OrderRec /\ trade[o] \in {"created", "paid", "shipped"}
    BY DEF EventInv, EventTypes
  <1>4. StatusOf(o) \in {"unknown", "pending_ship", "done"}
    BY <1>3 DEF StatusOf, OrderRec
  <1>5. new \in OrderRec /\ new.owner = "seller"
    BY <1>4 DEF OrderRec, Account
  <1>a. orderRow' = [orderRow EXCEPT ![o] = new]
    BY <1>1
  <1> HIDE DEF new
  <1>6. /\ orderRow' \in [Order -> OrderRec] /\ orderRow'[o] = new
        /\ \A x \in Order \ {o} : orderRow'[x] = orderRow[x]
    BY <1>a, <1>3, <1>5
  <1>7. EventTypes'
    BY <1>2, <1>6 DEF EventInv, EventTypes
  <1>8. OrdersFit'
    BY <1>5, <1>6 DEF EventInv, TradeInv, OrdersFit, PendingShip
  <1>9. OwnersStay
    BY <1>5, <1>6 DEF OwnersStay
  <1>10. ActorOwns'
    <2>1. SUFFICES ASSUME NEW r \in started, r.order # NoOrder
                   PROVE  orderRow'[r.order].owner = r.account
      BY <1>2 DEF ActorOwns
    <2>2. orderRow[r.order].owner = r.account /\ r.account \in Account /\ r.order \in Order
      BY <2>1 DEF EventInv, TradeInv, ActorOwns, EventTypes, RunRec
    <2>3. CASE r.order = o
      <3>1. orderRow[o].owner # "buyer"
        BY <1>1, <2>1, <2>3 DEF Untouched
      <3> QED
        BY <1>5, <1>6, <2>2, <2>3, <3>1 DEF Account
    <2>4. CASE r.order # o
      BY <1>6, <2>2, <2>4
    <2> QED
      BY <2>3, <2>4
  <1> QED
    BY <1>2, <1>7, <1>8, <1>9, <1>10, AroundKept

LEMMA SettingsKept == ASSUME EventInv, SyncItems \/ SwitchAccount, UNCHANGED kinds PROVE EventInv'
  <1>1. UNCHANGED <<kinds, trade, orderRow, putAside, started, handling, owing>>
    BY DEF SyncItems, SwitchAccount
  <1>2. EventTypes'
    BY <1>1 DEF SyncItems, SwitchAccount, EventInv, EventTypes
  <1> QED
    BY <1>1, <1>2, OrdersSame, AroundKept DEF EventInv

LEMMA CrashEventsKept == ASSUME EventInv, CrashEvents, UNCHANGED kinds PROVE EventInv'
  <1>1. /\ handling' = [p \in Process |-> Waits]
        /\ owing' = {w \in owing : ~\E r \in putAside : /\ w = Id(r) /\ r.status = "running"
                                                        /\ r.claims = MaxReplays}
        /\ UNCHANGED <<kinds, trade, orderRow, itemsKnown, mode, putAside, started>>
    BY DEF CrashEvents, Id
  <1>2. handling' \in [Process -> HandRec] /\ \A p \in Process : handling'[p] = Waits
    BY <1>1, WaitsType
  <1>3. handling'["replay"] = Waits
    BY <1>2, Processes
  <1>4. RowsFit' /\ RowsApart' /\ OwingPaid'
    BY <1>1 DEF EventInv, QueueInv, RowsFit, RowsApart, OwingPaid, RowFit, TaskFit, TriggerKey
  <1>5. ReplayNamed' /\ ReplayDone'
    BY <1>3 DEF ReplayNamed, ReplayDone, Waits
  <1>6. ReplayHolds'
    BY <1>1, <1>3, KeyNotEmpty DEF ReplayHolds, Waits, EventInv, EventTypes
  <1>7. PaymentKept'
    <2>1. SUFFICES ASSUME NEW w \in owing', ~\E s \in started : Id(s) = w
                   PROVE  \E s \in putAside : /\ Id(s) = w
                                              /\ s.status \in {"pending", "dead"} \/ s.claims < MaxReplays
      BY <1>1 DEF PaymentKept, Id
    <2>2. w \in owing /\ ~\E r \in putAside : w = Id(r) /\ r.status = "running" /\ r.claims = MaxReplays
      BY <1>1, <2>1
    <2>3. PICK s \in putAside : Id(s) = w
      BY <2>1, <2>2 DEF EventInv, QueueInv, PaymentKept, Id
    <2>4. s.status \in {"pending", "running", "dead"} /\ s.claims \in 0 .. MaxReplays
      BY DEF EventInv, EventTypes, RowRec
    <2> QED
      BY <2>2, <2>3, <2>4, EventConstants
  <1>8. OrdersFit' /\ RunsFit' /\ ActorOwns' /\ DeliveredOnce' /\ OwnersStay
    BY <1>1, OrdersSame DEF EventInv
  <1>9. HandsFit'
    BY <1>2, WaitsFit DEF HandsFit, HandFit, TaskFit
  <1>10. OrderOwned'
    BY <1>2 DEF OrderOwned, Waits
  <1> QED
    BY <1>1, <1>2, <1>4, <1>5, <1>6, <1>7, <1>8, <1>9, <1>10 DEF EventInv, EventTypes, QueueInv, TradeInv

-----------------------------------------------------------------------------
(* The theorems about the way to a run                                     *)

LEMMA EventInitInv == ASSUME EventInit PROVE EventInv
  <1>1. \A p \in Process : handling[p] = Waits
    BY DEF EventInit
  <1>2. handling["replay"] = Waits /\ putAside = {} /\ started = {} /\ owing = {}
    BY <1>1, Processes DEF EventInit
  <1>3. EventTypes
    <2>1. kinds \subseteq Trigger
      BY EventConstants DEF EventInit
    <2> QED
      BY <2>1, WaitsType DEF EventInit, EventTypes, OrderRec, NoOrderRow
  <1>4. QueueInv
    BY <1>2 DEF QueueInv, RowsFit, RowsApart, ReplayNamed, ReplayHolds, ReplayDone, OwingPaid, PaymentKept, Waits
  <1>5. TradeInv
    <2>1. OrdersFit
      BY DEF EventInit, OrdersFit, PendingShip, NoOrderRow
    <2>2. HandsFit
      BY <1>1, WaitsFit DEF HandsFit
    <2>3. \A p \in Process : handling[p].pc = "idle"
      BY <1>1 DEF Waits
    <2>4. OrderOwned
      BY <2>3 DEF OrderOwned
    <2> QED
      BY <1>2, <2>1, <2>2, <2>4 DEF TradeInv, RunsFit, ActorOwns, DeliveredOnce
  <1> QED
    BY <1>3, <1>4, <1>5 DEF EventInv

LEMMA EventNextKept == ASSUME EventInv, [EventNext]_eventVars PROVE EventInv'
  <1>1. CASE UNCHANGED eventVars
    <2>1. UNCHANGED <<kinds, trade, orderRow, itemsKnown, mode, putAside, started, handling, owing>>
      BY <1>1 DEF eventVars
    <2>2. EventTypes'
      BY <2>1 DEF EventInv, EventTypes
    <2> QED
      BY <2>1, <2>2, OrdersSame, AroundKept DEF EventInv
  <1>2. CASE EventNext
    <2>1. UNCHANGED kinds
      BY <1>2 DEF EventNext
    <2>2. CASE \E p \in Receiver : ReceiveCard(p)
      BY <2>1, <2>2, ReceiveCardKept
    <2>3. CASE \E p \in Process : \/ VerifyRole(p) \/ RecordFacts(p) \/ PreparationFails(p)
                                  \/ StartRun(p) \/ HandlingFails(p)
      BY <2>1, <2>3, VerifyRoleKept, RecordFactsKept, PreparationFailsKept, StartRunKept, HandlingFailsKept
    <2>4. CASE ClaimDeferred \/ SettleReplay \/ LapseDeferred \/ ScanPendingShip
      BY <2>1, <2>4, ClaimDeferredKept, SettleReplayKept, LapseDeferredKept, ScanPendingShipKept
    <2>5. CASE TradeGoesOn \/ SyncOrder \/ SyncItems \/ SwitchAccount \/ CrashEvents
      BY <2>1, <2>5, TradeGoesOnKept, SyncOrderKept, SettingsKept, CrashEventsKept
    <2> QED
      BY <1>2, <2>2, <2>3, <2>4, <2>5 DEF EventNext
  <1> QED
    BY <1>1, <1>2

\* The invariant of the way from a card to a run: each part of the state is what its name says, the rows of
\* the queue are known by their tasks, the replay keeps the row it has claimed until it has served the card or
\* was right to drop it, and whoever is taken for the seller is the seller.
THEOREM EventInvariant == EventSpec => []EventInv
  <1>1. EventInit => EventInv
    BY EventInitInv
  <1>2. EventInv /\ [EventNext]_eventVars => EventInv'
    BY EventNextKept
  <1> QED
    BY <1>1, <1>2, PTL DEF EventSpec

\* EventTypeOK always holds: the rows of the queue have one name each and count their claims, and the handlers
\* are where the code can be.
THEOREM EventTypesOK == EventSpec => []EventTypeOK
  <1>1. EventInv => EventTypeOK
    <2>1. ASSUME EventInv PROVE EventTypeOK
      <3>1. \A r, s \in putAside : r.account = s.account /\ r.key = s.key => r = s
        BY <2>1 DEF EventInv, QueueInv, RowsApart, Id
      <3>2. \A r \in putAside : /\ r.status \in {"pending", "running", "dead"} /\ r.claims \in 0 .. MaxReplays
                                /\ r.status = "pending" => r.claims < MaxReplays
                                /\ r.status = "dead" => r.claims = MaxReplays
        BY <2>1 DEF EventInv, EventTypes, RowRec, QueueInv, RowsFit, RowFit
      <3>3. \A p \in Process : /\ handling[p].pc \in {"idle", "verify", "record", "start", "settle"}
                               /\ handling[p].pc = "settle" => p = "replay"
        BY <2>1 DEF EventInv, EventTypes, HandRec, Place, TradeInv, HandsFit, HandFit
      <3> QED
        BY <3>1, <3>2, <3>3 DEF EventTypeOK
    <2> QED
      BY <2>1
  <1> QED
    BY <1>1, EventInvariant, PTL

\* EventSafe always holds: of an order that is made or paid only the seller's copy of the card acts, whoever
\* acted on an order owns its row, an order has one payment run, and a payment card in the queue is not forgotten.
THEOREM OnlySellerActs == EventSpec => []EventSafe
  <1>1. EventInv => EventSafe
    <2>1. ASSUME EventInv PROVE EventSafe
      <3>1. SellerOnly
        BY <2>1 DEF SellerOnly, EventInv, TradeInv, RunsFit, HandsFit, HandFit, TaskFit
      <3> QED
        BY <2>1, <3>1 DEF EventSafe, EventInv, QueueInv, TradeInv
    <2> QED
      BY <2>1
  <1> QED
    BY <1>1, EventInvariant, PTL

------------------------------------------------------------------------------
(* The way to a run and the run side by side                               *)

\* Each part of MCEventsAndRuns runs under its own specification, whatever the other does.
LEMMA PartsRun == SumSpec => Spec /\ EventSpec
  <1>1. SumInit => Init /\ EventInit
    BY DEF SumInit
  <1>2. [SumNext]_sumVars => [Next]_vars /\ [EventNext]_eventVars
    BY DEF SumNext, sumVars
  <1> QED
    BY <1>1, <1>2, PTL DEF SumSpec, Spec, EventSpec

\* From the card to the last action: the seller's copy alone starts runs, one for a payment, and keeps a
\* stored payment (EventSafe); in a run no action is called without its claim (CallsAuthorised) and no attempt
\* is taken over while its call is in flight (TakeoverSafe), and the row implements its ledger (LedgerSpec);
\* the state is what its type says.
THEOREM CardToAction ==
    SumSpec => [](TypeOK /\ EventTypeOK /\ CallsAuthorised /\ EventSafe) /\ TakeoverSafe /\ LedgerSpec
  BY PartsRun, TypeCorrect, EventTypesOK, AtMostOnce, OnlySellerActs, NoTakeoverInFlight, ImplementsLedger, PTL

=============================================================================
