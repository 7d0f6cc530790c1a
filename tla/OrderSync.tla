------------------------------- MODULE OrderSync -------------------------------
(***************************************************************************)
(* One order and everything that writes its row: the synchronisation of a  *)
(* seller's sold orders, the refresh of its detail, an event of the        *)
(* account's connection or an import, the manual shipment with its         *)
(* reconciliation, the user's edit and deletion.  Beside it, the account's *)
(* credential, which the two platform reads load before and check after    *)
(* the call, under the lock of the account.                                *)
(*                                                                         *)
(* Every insert, read and conditional update of the row is a step of its   *)
(* own; in a serialised transaction fewer of these interleavings remain.   *)
(* The account is "seller"; "buyer" is another account of the same user,   *)
(* to which old versions bound the order, and "other" is somebody else's.  *)
(***************************************************************************)
EXTENDS Integers

CONSTANTS
    Sync,              \* the calls of discoverAccount
    MaxStarts,         \* bound: writers that start
    MaxOrderEnv,       \* bound: steps of the platform and the users, failures
    MaxTries           \* maxOrderUpsertRetries

ASSUME OrderBounds == MaxStarts \in Nat /\ MaxOrderEnv \in Nat /\ MaxTries \in Nat \ {0}

Account == {"seller", "buyer", "other"}
OrderStatus == {"unknown", "processing", "pending_ship", "shipped", "completed", "refunding", "cancelled"}
Early == {"processing", "pending_ship"}
Advanced == {"shipped", "completed", "refunding", "cancelled"}

OrderWriter == Sync \cup {"detail", "event", "ship", "repair"}
NoWriter == "nobody"

\* A call of discoverAccount is none of the writers that have a name.
ASSUME SyncAssumption == Sync \cap {"detail", "event", "ship", "repair", NoWriter} = {}

VARIABLES
    platformOrder,     \* the platform's order: its status, "absent" before, and its age
    past,              \* the statuses it has had
    orderRow,          \* the row, and whether automation has acted on the order
    credential,        \* the stored cookie: the login it stems from, its renewals
    credentialLock,    \* who holds the lock of the account between two steps
    generation,        \* discoveries: the latest call, or NoWriter
    orderWriter,       \* where each writer stands and what it has read
    reconciliation,    \* the record of a shipment that was not stored
    synced,            \* history: age of the snapshot that was last accepted
    orderEdited,       \* history: the user has changed the status
    shipment,          \* history: what became of the shipment the platform confirmed
    starts, orderEnv   \* what may still happen

orderVars == <<platformOrder, past, orderRow, credential, credentialLock, generation,
               orderWriter, reconciliation, synced, orderEdited, shipment, starts, orderEnv>>

NoOrder == [owner |-> "none", status |-> "unknown", version |-> 0,
            deleted |-> FALSE, shipped |-> FALSE, touched |-> FALSE]

Loaded(login, renewal) == [login |-> login, renewal |-> renewal]

Resting == [pc |-> "idle", account |-> "seller", credential |-> Loaded(0, 0), snapshot |-> "absent",
            age |-> 0, renewed |-> FALSE, failed |-> FALSE, read |-> NoOrder, tries |-> 0, again |-> FALSE]

\* Stored by the account's events, by nobody, or by an old version under the buyer.
FirstRow == {NoOrder}
    \cup {[NoOrder EXCEPT !.owner = owner, !.status = "pending_ship", !.version = 1,
                !.touched = (owner = "buyer") /\ marked, !.deleted = (owner = "seller") /\ marked] :
            owner \in Account, marked \in BOOLEAN}

OrderInit ==
    /\ platformOrder \in {[status |-> "absent", age |-> 0], [status |-> "pending_ship", age |-> 0]}
    /\ past = {platformOrder.status} \ {"absent"}
    /\ orderRow \in IF platformOrder.status = "absent" THEN {NoOrder} ELSE FirstRow
    /\ credential = Loaded(0, 0) /\ credentialLock = NoWriter /\ generation = NoWriter
    /\ orderWriter = [w \in OrderWriter |-> Resting]
    /\ reconciliation = "none"
    /\ synced = 0 /\ orderEdited = FALSE /\ shipment = "none"
    /\ starts = MaxStarts /\ orderEnv = MaxOrderEnv

WriterAt(w, pc) == orderWriter[w].pc = pc
WriterTo(w, pc) == orderWriter' = [orderWriter EXCEPT ![w].pc = pc]
Starts == starts > 0 /\ starts' = starts - 1
Spends == orderEnv > 0 /\ orderEnv' = orderEnv - 1
LockFree == credentialLock = NoWriter

\* finishDiscovery and unlock, deferred by every call.
GenerationAfter(w) == IF generation = w THEN NoWriter ELSE generation

\* Mutant: a call that fails keeps the lock.
LockLeft(w) == IF credentialLock = w /\ WriterAt(w, "missing") THEN NoWriter ELSE credentialLock

LockAfter(w) == IF credentialLock = w THEN NoWriter ELSE credentialLock
WriterEnded == [Resting EXCEPT !.pc = "done"]
Ends(w) ==
    /\ orderWriter' = [orderWriter EXCEPT ![w] = WriterEnded]
    /\ generation' = GenerationAfter(w) /\ credentialLock' = LockAfter(w)

-----------------------------------------------------------------------------
(* Platform reads of the account                                           *)

BeginDiscovery(s) ==
    /\ WriterAt(s, "idle") /\ Starts
    /\ generation' = s
    /\ WriterTo(s, "load")
    /\ UNCHANGED <<platformOrder, past, orderRow, credential, credentialLock, reconciliation,
                   synced, orderEdited, shipment, orderEnv>>

\* RefreshSingle reads the order, and its owner, before anything else.
BeginDetail ==
    /\ WriterAt("detail", "idle") /\ Starts
    /\ orderRow.owner = "seller" /\ ~orderRow.deleted
    /\ orderWriter' = [orderWriter EXCEPT !["detail"].pc = "load", !["detail"].read = orderRow]
    /\ UNCHANGED <<platformOrder, past, orderRow, credential, credentialLock, generation,
                   reconciliation, synced, orderEdited, shipment, orderEnv>>

LoadCredential(w) ==
    /\ WriterAt(w, "load") /\ LockFree
    /\ orderWriter' = [orderWriter EXCEPT ![w].pc = "fetch", ![w].credential = credential]
    /\ UNCHANGED <<platformOrder, past, orderRow, credential, credentialLock, generation,
                   reconciliation, synced, orderEdited, shipment, starts, orderEnv>>

\* The answer may fail, and may renew the cookie either way.
FetchOrders(w) ==
    /\ WriterAt(w, "fetch")
    /\ \E failed \in BOOLEAN, renewed \in BOOLEAN :
          /\ orderWriter' = [orderWriter EXCEPT
                 ![w].pc = "relock", ![w].snapshot = platformOrder.status,
                 ![w].age = platformOrder.age, ![w].renewed = renewed, ![w].failed = failed]
          /\ IF failed THEN Spends ELSE UNCHANGED orderEnv
    /\ UNCHANGED <<platformOrder, past, orderRow, credential, credentialLock, generation,
                   reconciliation, synced, orderEdited, shipment, starts>>

\* Mutant: a generation that is no longer registered counts as current.
CurrentOrGone(w) == w \in Sync => generation \in {w, NoWriter}

\* discoveryCurrent; the refresh of a detail has no generation.
StillCurrent(w) == w \in Sync => generation = w

\* Mutant: the credential is not read again.
Trusted(w) == TRUE

Unchanged(w) == credential = orderWriter[w].credential

\* PersistCookieSession, with what the call has loaded.
Persisted(w) ==
    IF orderWriter[w].renewed
    THEN [orderWriter[w].credential EXCEPT !.renewal = @ + 1]
    ELSE credential

Accepted(w, pc) == [Resting EXCEPT !.pc = pc, !.snapshot = orderWriter[w].snapshot]

AcceptFetched(w) ==
    /\ WriterAt(w, "relock") /\ LockFree
    /\ IF ~(StillCurrent(w) /\ Unchanged(w))
       THEN Ends(w) /\ UNCHANGED <<credential, synced>>
       ELSE /\ credential' = Persisted(w)
            /\ IF orderWriter[w].failed \/ (w = "detail" /\ orderWriter[w].snapshot = "absent")
               THEN Ends(w) /\ UNCHANGED synced
               ELSE IF w = "detail"
               THEN /\ orderWriter' = [orderWriter EXCEPT ![w] = Accepted(w, "insert")]
                    /\ UNCHANGED <<generation, credentialLock, synced>>
               ELSE /\ orderWriter' = [orderWriter EXCEPT ![w] = Accepted(w, "own")]
                    /\ credentialLock' = w /\ synced' = orderWriter[w].age
                    /\ UNCHANGED generation
    /\ UNCHANGED <<platformOrder, past, orderRow, reconciliation, orderEdited, shipment, starts, orderEnv>>

\* A login, a renewal or a deletion replaces the credential under the lock.
Login ==
    /\ LockFree /\ Spends
    /\ credential' = Loaded(credential.login + 1, 0)
    /\ UNCHANGED <<platformOrder, past, orderRow, credentialLock, generation, orderWriter,
                   reconciliation, synced, orderEdited, shipment, starts>>

-----------------------------------------------------------------------------
(* Writing a snapshot                                                      *)

\* persistSoldSnapshot: by the owner of the row as it is read.
CheckOwnership(s) ==
    /\ WriterAt(s, "own")
    /\ LET next(pc) == orderWriter' = [orderWriter EXCEPT ![s].pc = pc, ![s].read = orderRow]
       IN  \/ /\ orderWriter[s].snapshot = "absent"
              /\ next("missing") /\ UNCHANGED <<generation, credentialLock>>
           \/ /\ orderWriter[s].snapshot # "absent" /\ orderRow.owner \in {"none", "seller"}
              /\ next("insert") /\ UNCHANGED <<generation, credentialLock>>
           \/ /\ orderWriter[s].snapshot # "absent" /\ orderRow.owner = "buyer"
              /\ next("move") /\ UNCHANGED <<generation, credentialLock>>
           \/ /\ orderWriter[s].snapshot # "absent" /\ orderRow.owner \in {"buyer", "other"}
              /\ Ends(s)                                \* not proved to be ours
    /\ UNCHANGED <<platformOrder, past, orderRow, credential, reconciliation, synced,
                   orderEdited, shipment, starts, orderEnv>>

\* shouldUpdateOrderStatus
ShouldUpdate(current, incoming) ==
    /\ ~(incoming \in Early /\ current \in Advanced)
    /\ ~(incoming = "shipped" /\ current \in {"completed", "cancelled"})

StatusAfter(current, incoming) == IF ShouldUpdate(current, incoming) THEN incoming ELSE current

\* Mutant: the history of the order is not looked at.
MovableAny(row) == TRUE

\* checkRecoverySideEffects and the columns that record a shipment.
Movable(row) == ~row.shipped /\ ~row.touched /\ reconciliation # "pending"

\* RecoverSoldOwnership: one serialisable transaction, on the version that was read.
MoveOwnership(s) ==
    /\ WriterAt(s, "move")
    /\ LET read == orderWriter[s].read IN
       IF /\ orderRow.owner = read.owner /\ orderRow.version = read.version
          /\ orderRow.deleted = read.deleted /\ Movable(orderRow)
       THEN /\ orderRow' = [orderRow EXCEPT !.owner = "seller", !.version = @ + 2, !.deleted = FALSE,
                                !.status = StatusAfter(orderRow.status, orderWriter[s].snapshot)]
            /\ WriterTo(s, "missing") /\ UNCHANGED <<generation, credentialLock>>
       ELSE Ends(s) /\ UNCHANGED orderRow
    /\ UNCHANGED <<platformOrder, past, credential, reconciliation, synced, orderEdited, shipment, starts,
                   orderEnv>>

\* SoftDeleteMissingForCookie: what is not in the snapshot.
DeleteMissing(s) ==
    /\ WriterAt(s, "missing")
    /\ orderRow' = IF orderWriter[s].snapshot = "absent" /\ orderRow.owner = "seller"
                   THEN [orderRow EXCEPT !.deleted = TRUE] ELSE orderRow
    /\ Ends(s)
    /\ UNCHANGED <<platformOrder, past, credential, reconciliation, synced, orderEdited, shipment, starts,
                   orderEnv>>

-----------------------------------------------------------------------------
(* upsertOrder                                                             *)

\* INSERT OR IGNORE of a placeholder
Placeholder(w) ==
    IF orderRow.owner # "none" THEN orderRow
    ELSE [NoOrder EXCEPT !.owner = orderWriter[w].account, !.version = 1]

InsertOrder(w) ==
    /\ WriterAt(w, "insert")
    /\ orderRow' = Placeholder(w)
    /\ orderWriter' = [orderWriter EXCEPT ![w].pc = "read", ![w].tries = 0]
    /\ UNCHANGED <<platformOrder, past, credential, credentialLock, generation, reconciliation,
                   synced, orderEdited, shipment, starts, orderEnv>>

\* Mutant: the failure of the local write is only reported.
RefusedQuietly(w) == Ends(w)

\* What a writer does when its order could not be written.
Refused(w) ==
    IF w = "ship"
    THEN WriterTo(w, "record") /\ UNCHANGED <<generation, credentialLock>>
    ELSE Ends(w)

\* persistSoldAfterConflict: another account has the order now; once more.
ReadOrder(w) ==
    /\ WriterAt(w, "read")
    /\ IF orderRow.owner = orderWriter[w].account
       THEN /\ orderWriter' = [orderWriter EXCEPT ![w].pc = "write", ![w].read = orderRow]
            /\ UNCHANGED <<generation, credentialLock>>
       ELSE IF w \in Sync /\ ~orderWriter[w].again
       THEN /\ orderWriter' = [orderWriter EXCEPT ![w].pc = "insert", ![w].again = TRUE]
            /\ UNCHANGED <<generation, credentialLock>>
       ELSE Refused(w)
    /\ UNCHANGED <<platformOrder, past, orderRow, credential, reconciliation, synced,
                   orderEdited, shipment, starts, orderEnv>>

\* Mutant: WHERE order_id=? alone.
MatchesAny(w) == orderRow.owner = orderWriter[w].account

\* WHERE order_id=? AND version=? AND cookie_id=?
Matches(w) ==
    /\ orderRow.owner = orderWriter[w].account
    /\ orderRow.version = orderWriter[w].read.version

\* Mutant: whoever does not say that the order is shipped clears the mark.
MergedRaw(w) ==
    [orderRow EXCEPT
        !.status = IF ShouldUpdate(orderWriter[w].read.status, orderWriter[w].snapshot)
                   THEN orderWriter[w].snapshot ELSE @,
        !.deleted = @ /\ ~orderWriter[w].read.deleted,
        !.shipped = w \in {"ship", "repair"},
        !.version = @ + 1]

\* The columns are chosen from the row as read.
Merged(w) ==
    [orderRow EXCEPT
        !.status = IF ShouldUpdate(orderWriter[w].read.status, orderWriter[w].snapshot)
                   THEN orderWriter[w].snapshot ELSE @,
        !.deleted = @ /\ ~orderWriter[w].read.deleted,
        !.shipped = @ \/ w \in {"ship", "repair"},
        !.version = @ + 1]

WriteOrder(w) ==
    /\ WriterAt(w, "write")
    /\ IF Matches(w)
       THEN /\ orderRow' = Merged(w)
            /\ CASE w \in Sync -> WriterTo(w, "missing") /\ UNCHANGED <<generation, credentialLock>>
                 [] w = "repair" -> WriterTo(w, "resolve") /\ UNCHANGED <<generation, credentialLock>>
                 [] OTHER -> Ends(w)
       ELSE /\ UNCHANGED orderRow
            /\ IF orderWriter[w].tries + 1 < MaxTries
               THEN /\ orderWriter' = [orderWriter EXCEPT ![w].pc = "read", ![w].tries = @ + 1]
                    /\ UNCHANGED <<generation, credentialLock>>
               ELSE Refused(w)
    /\ UNCHANGED <<platformOrder, past, credential, reconciliation, synced, orderEdited, shipment, starts,
                   orderEnv>>

-----------------------------------------------------------------------------
(* Other writers                                                           *)

\* A message of an account's connection, which may be late, or an import.
OrderEvent ==
    /\ WriterAt("event", "idle") /\ Starts
    /\ \E status \in past, account \in {"seller", "buyer"} :
          orderWriter' = [orderWriter EXCEPT !["event"].pc = "insert",
                              !["event"].snapshot = status, !["event"].account = account]
    /\ UNCHANGED <<platformOrder, past, orderRow, credential, credentialLock, generation,
                   reconciliation, synced, orderEdited, shipment, orderEnv>>

BeginShip ==
    /\ WriterAt("ship", "idle") /\ Starts
    /\ orderRow.owner = "seller" /\ ~orderRow.deleted /\ orderRow.status = "pending_ship"
    /\ WriterTo("ship", "consign")
    /\ UNCHANGED <<platformOrder, past, orderRow, credential, credentialLock, generation,
                   reconciliation, synced, orderEdited, shipment, orderEnv>>

\* The platform confirms only what it has to ship; its answer may be lost.
Consign ==
    /\ WriterAt("ship", "consign")
    /\ IF platformOrder.status = "pending_ship"
       THEN /\ platformOrder' = [status |-> "shipped", age |-> platformOrder.age + 1]
            /\ past' = past \cup {"shipped"}
            /\ \/ /\ orderWriter' = [orderWriter EXCEPT !["ship"].pc = "insert", !["ship"].snapshot = "shipped"]
                  /\ shipment' = "confirmed" /\ UNCHANGED orderEnv
               \/ WriterTo("ship", "done") /\ Spends /\ UNCHANGED shipment
       ELSE WriterTo("ship", "done") /\ UNCHANGED <<platformOrder, past, shipment, orderEnv>>
    /\ UNCHANGED <<orderRow, credential, credentialLock, generation, reconciliation, synced,
                   orderEdited, starts>>

\* CreatePending: one record for the order, the account and the action.
Recorded == IF reconciliation = "none" THEN "pending" ELSE reconciliation

RecordReconciliation ==
    /\ WriterAt("ship", "record")
    /\ reconciliation' = Recorded
    /\ WriterTo("ship", "done")
    /\ UNCHANGED <<platformOrder, past, orderRow, credential, credentialLock, generation, synced,
                   orderEdited, shipment, starts, orderEnv>>

\* A shipment that can be neither stored nor recorded is a warning in the answer.
RecordFails ==
    /\ WriterAt("ship", "record") /\ Spends
    /\ shipment' = "lost"
    /\ WriterTo("ship", "done")
    /\ UNCHANGED <<platformOrder, past, orderRow, credential, credentialLock, generation,
                   reconciliation, synced, orderEdited, starts>>

\* The statement failed, or the shipment was abandoned.
WriteFails(w) ==
    /\ orderWriter[w].pc \in {"own", "insert", "read", "write", "missing"} /\ Spends
    /\ Refused(w)
    /\ UNCHANGED <<platformOrder, past, orderRow, credential, reconciliation, synced, orderEdited,
                   shipment, starts>>

\* reconcileRecord: the owner is the one the row has now.  A deleted order is
\* not read: its record is tried, and counted, in every tick.
ReadPending ==
    /\ WriterAt("repair", "idle") /\ reconciliation = "pending"
    /\ orderRow.owner # "none" /\ ~orderRow.deleted
    /\ orderWriter' = [orderWriter EXCEPT !["repair"].pc = "insert", !["repair"].snapshot = "shipped",
                           !["repair"].account = orderRow.owner]
    /\ UNCHANGED <<platformOrder, past, orderRow, credential, credentialLock, generation,
                   reconciliation, synced, orderEdited, shipment, starts, orderEnv>>

MarkResolved ==
    /\ WriterAt("repair", "resolve")
    /\ reconciliation' = "resolved"
    /\ WriterTo("repair", "done")
    /\ UNCHANGED <<platformOrder, past, orderRow, credential, credentialLock, generation, synced,
                   orderEdited, shipment, starts, orderEnv>>

\* Mutant: the scan runs once.
ScanOnce == FALSE /\ UNCHANGED orderVars

\* RecordAttempt, and the next tick.
NextTick ==
    /\ WriterAt("repair", "done")
    /\ WriterTo("repair", "idle")
    /\ UNCHANGED <<platformOrder, past, orderRow, credential, credentialLock, generation,
                   reconciliation, synced, orderEdited, shipment, starts, orderEnv>>

\* patchOrder: the version stays what it is, and the mark of a shipment is
\* written with the status.  The look at the order (GetOrder) may be older
\* than a deletion.
EditOrder ==
    /\ orderRow.owner \in {"seller", "buyer"} /\ Spends
    /\ \E status \in {orderRow.status, "pending_ship", "completed"}, shipped \in BOOLEAN :
          /\ orderRow' = [orderRow EXCEPT !.status = status, !.shipped = shipped]
          /\ orderEdited' = (orderEdited \/ status # orderRow.status)
          /\ shipment' = IF orderRow.shipped /\ ~shipped /\ shipment = "confirmed"
                          THEN "unmarked" ELSE shipment
    /\ UNCHANGED <<platformOrder, past, credential, credentialLock, generation, orderWriter,
                   reconciliation, synced, starts>>

\* Where the shipment is confirmed and neither stored nor recorded yet.
Storing == orderWriter["ship"].pc \in {"insert", "read", "write", "record"}

\* The process dies and is started again: what is in the database stays.
OrderCrash ==
    /\ Spends
    /\ orderWriter' = [w \in OrderWriter |->
           IF WriterAt(w, "idle") \/ w = "repair" THEN Resting ELSE WriterEnded]
    /\ generation' = NoWriter /\ credentialLock' = NoWriter
    /\ shipment' = IF Storing THEN "lost" ELSE shipment
    /\ UNCHANGED <<platformOrder, past, orderRow, credential, reconciliation, synced, orderEdited, starts>>

\* SoftDelete, neither.
DeleteOrder ==
    /\ orderRow.owner \in {"seller", "buyer"} /\ ~orderRow.deleted /\ Spends
    /\ orderRow' = [orderRow EXCEPT !.deleted = TRUE]
    /\ UNCHANGED <<platformOrder, past, credential, credentialLock, generation, orderWriter,
                   reconciliation, synced, orderEdited, shipment, starts>>

Follows(status) ==
    CASE status = "absent" -> {"processing", "pending_ship"}
      [] status = "processing" -> {"pending_ship", "cancelled"}
      [] status = "pending_ship" -> {"shipped", "refunding"}
      [] status = "shipped" -> {"completed", "refunding"}
      [] status = "refunding" -> {"cancelled", "shipped"}
      [] OTHER -> {}

OrderMoves ==
    /\ Spends
    /\ \E status \in Follows(platformOrder.status) :
          /\ platformOrder' = [status |-> status, age |-> platformOrder.age + 1]
          /\ past' = past \cup {status}
    /\ UNCHANGED <<orderRow, credential, credentialLock, generation, orderWriter, reconciliation,
                   synced, orderEdited, shipment, starts>>

-----------------------------------------------------------------------------
(* Specification                                                           *)

Upsert(w) == InsertOrder(w) \/ ReadOrder(w) \/ WriteOrder(w)

RepairStep == ReadPending \/ Upsert("repair") \/ MarkResolved \/ NextTick

SyncStep(s) ==
    \/ LoadCredential(s) \/ FetchOrders(s) \/ AcceptFetched(s) \/ CheckOwnership(s)
    \/ MoveOwnership(s) \/ Upsert(s) \/ DeleteMissing(s)

DetailStep == LoadCredential("detail") \/ FetchOrders("detail") \/ AcceptFetched("detail") \/ Upsert("detail")

ShipStep == Consign \/ Upsert("ship") \/ RecordReconciliation \/ RecordFails

OrderNext ==
    \/ \E s \in Sync : BeginDiscovery(s) \/ SyncStep(s)
    \/ BeginDetail \/ DetailStep
    \/ OrderEvent \/ Upsert("event")
    \/ BeginShip \/ ShipStep
    \/ RepairStep
    \/ \E w \in OrderWriter : WriteFails(w)
    \/ EditOrder \/ DeleteOrder \/ OrderMoves \/ Login \/ OrderCrash

OrderSpec == OrderInit /\ [][OrderNext]_orderVars

-----------------------------------------------------------------------------
(* Properties                                                              *)

Committing == {"own", "move", "insert", "read", "write", "missing"}

\* The lock of the account is held exactly while a synchronisation commits.
OrderTypeOK ==
    /\ platformOrder.status \in (OrderStatus \ {"unknown"}) \cup {"absent"} /\ platformOrder.age \in Nat
    /\ orderRow.owner \in Account \cup {"none"} /\ orderRow.status \in OrderStatus
    /\ orderRow.version \in Nat
    /\ orderRow.owner = "none" => orderRow = NoOrder
    /\ \A s \in Sync : credentialLock = s <=> orderWriter[s].pc \in Committing
    /\ credentialLock \in Sync \cup {NoWriter} /\ generation \in Sync \cup {NoWriter}
    /\ reconciliation \in {"none", "pending", "resolved"}
    /\ shipment \in {"none", "confirmed", "lost", "unmarked"}

\* Of two synchronisations of an account the later snapshot wins: one that
\* was read before an accepted one is never written (discoveryCurrent).
SnapshotsInOrder == [][synced' >= synced]_orderVars

\* A call that was answered for an old credential never brings it back: the
\* login stored last stays, and so does its last renewal.
CredentialKept ==
    [][/\ credential'.login >= credential.login
       /\ credential'.login = credential.login => credential'.renewal >= credential.renewal]_orderVars

\* However late, repeated or concurrent what is written, a shipped, completed,
\* refunding or cancelled order is never waiting for payment or shipment
\* again, and a finished one never shipped, unless the user said so.
NoRegression ==
    [][orderRow.owner = "none" \/ orderEdited'
          \/ orderRow'.status = StatusAfter(orderRow.status, orderRow'.status)]_orderVars

\* The same with the user's edits: only the edit itself may do it.  (Upsert
\* promises so; patchOrder does not advance the version.)
EditsKept ==
    [][orderRow.owner = "none" \/ orderWriter' = orderWriter
          \/ orderRow'.status = StatusAfter(orderRow.status, orderRow'.status)]_orderVars

\* An order on which this program has acted keeps its account.
ActedStays ==
    [][(orderRow.shipped \/ orderRow.touched \/ reconciliation = "pending")
          => orderRow.owner \in {"none", orderRow'.owner}]_orderVars

\* A shipment the platform has confirmed is on its way into the row, stored
\* there, or its record waits, whoever else writes, moves or deletes the row
\* meanwhile.  Not so when the process dies between the confirmation and the
\* write, when the record cannot be written either (both are "lost"), and
\* when the user has taken the mark away ("unmarked").
ShipmentRemembered ==
    shipment = "confirmed" => orderRow.shipped \/ reconciliation = "pending" \/ Storing

\* What waits is repaired, but for an order that is deleted.
RepairEnds ==
    (reconciliation = "pending" /\ ~orderRow.deleted) ~> (reconciliation = "resolved" \/ orderRow.deleted)

\* An order moves forward only and stays with the account that acted on it,
\* its snapshots are written in their order, and no answer brings back an
\* older credential.
OrderSafe == NoRegression /\ ActedStays /\ SnapshotsInOrder /\ CredentialKept

=============================================================================
