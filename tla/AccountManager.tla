--------------------------- MODULE AccountManager ---------------------------
(***************************************************************************)
(* The account manager and the requests that start and stop the runtime    *)
(* instance of one account.                                                *)
(*                                                                         *)
(* The manager's mutex only protects its table and its fences; a request   *)
(* releases it while it waits for an instance, reads the cookie or writes  *)
(* the account's status, so requests interleave between their steps.       *)
(* Enabling, disabling and updating an account also hold a transition lock *)
(* of the settings service; restarts ordered by the renewal scheduler, by  *)
(* a login or over HTTP do not, nor do deletions.                          *)
(*                                                                         *)
(* Accounts share nothing but the shutdown, so one is modelled.            *)
(***************************************************************************)
EXTENDS Integers

CONSTANTS
    Request,      \* goroutines with a request for the account
    Nobody,       \* no request
    Op,           \* the operations that are requested
    MaxRequests,  \* bound: requests per behaviour
    MaxStarts,    \* bound: instances per behaviour
    MaxCookie     \* bound: new cookies per behaviour

AllOps == {"startAll", "restart", "enable", "update", "disable", "delete", "deleteUser", "stopAll"}

ASSUME RequestAssumption == Nobody \notin Request
ASSUME OpAssumption == Op \subseteq AllOps
ASSUME ManagerBounds == MaxRequests \in Nat /\ MaxStarts \in Nat /\ MaxCookie \in Nat

VARIABLES
    accounts,      \* the manager's entry: an instance, or 0
    stopping,      \* the account's fence is set
    stoppingAll,   \* the manager's fence is set
    runCanceled,   \* the process's lifecycle context is canceled
    instance,      \* every instance ever started
    starts,        \* how many those are
    status,        \* the database's status of the account, with its reason
    cookie,        \* version of the cookie in the database
    request,       \* where each request stands
    holder,        \* who holds the transition lock
    left           \* requests left

manager == <<accounts, stopping, stoppingAll, runCanceled>>
instances == <<instance, starts>>
database == <<status, cookie>>
vars == <<manager, instances, database, request, holder, left>>

Instance == 1 .. MaxStarts
InstanceState == {"none", "started", "checked", "connected", "exited"}
Status == {"enabled", "manual", "runtime_failed", "deleted", "user_deleted"}
Pc == {"idle", "lock", "stop", "join", "await", "remove", "read", "start", "write", "compensate"}

Gone == {"deleted", "user_deleted"}
Transition == {"enable", "update", "disable"}      \* hold the lock
Restarting == {"restart", "enable", "update"}      \* end in Manager.Restart
Fencing == {"disable", "delete"}                   \* set the account's fence

NoInstance == [state |-> "none", stopping |-> FALSE, canceled |-> FALSE, cookie |-> 0]
NoRequest == [op |-> "none", pc |-> "idle", target |-> 0, since |-> 0, value |-> 0]

Init ==
    /\ accounts = 0 /\ stopping = FALSE /\ stoppingAll = FALSE /\ runCanceled = FALSE
    /\ instance = [i \in Instance |-> NoInstance] /\ starts = 0
    /\ status = "enabled" /\ cookie = 0
    /\ request = [r \in Request |-> NoRequest] /\ holder = Nobody
    /\ left = MaxRequests

Live(i) == instance[i].state \in {"started", "checked", "connected"}
Canceled(i) == instance[i].canceled \/ runCanceled

-----------------------------------------------------------------------------
(* Requests: from the call to the stop                                     *)

At(r, pc) == request[r].pc = pc
Does(r, ops) == request[r].op \in ops
Goto(r, pc) == request' = [request EXCEPT ![r].pc = pc]
Return(r) == request' = [request EXCEPT ![r] = NoRequest]

Call(r, op, pc) ==
    /\ At(r, "idle") /\ left > 0 /\ op \in Op
    /\ left' = left - 1
    /\ request' = [request EXCEPT ![r] = [NoRequest EXCEPT !.op = op, !.pc = pc, !.since = cookie]]

\* At start-up an enabled account is started with the cookie of the listing.
StartAll(r) ==
    /\ ~runCanceled /\ status = "enabled" /\ starts = 0
    /\ At(r, "idle") /\ left > 0 /\ "startAll" \in Op
    /\ left' = left - 1
    /\ request' = [request EXCEPT ![r] = [NoRequest EXCEPT !.op = "startAll", !.pc = "start",
                                                           !.value = cookie]]
    /\ UNCHANGED <<manager, instances, database, holder>>

\* The caller decided on a status of the account it read before.
Restart(r) ==
    /\ Call(r, "restart", "stop")
    /\ UNCHANGED <<manager, instances, database, holder>>

\* SetStatus and the part of UpdateSettings that follows a new cookie.
RequestTransition(r) ==
    /\ \E op \in Transition : Call(r, op, "lock")
    /\ UNCHANGED <<manager, instances, database, holder>>

Delete(r) ==
    /\ status \notin Gone /\ ~stopping
    /\ Call(r, "delete", "stop")
    /\ stopping' = TRUE
    /\ UNCHANGED <<accounts, stoppingAll, runCanceled, instances, database, holder>>

DeleteUser(r) ==
    /\ status # "user_deleted"
    /\ Call(r, "deleteUser", "stop")
    /\ UNCHANGED <<manager, instances, database, holder>>

\* The coordinator cancels the lifecycle context before it closes the manager.
StopAll(r) ==
    /\ \A q \in Request : ~Does(q, {"stopAll"})
    /\ Call(r, "stopAll", "stop")
    /\ stoppingAll' = TRUE /\ runCanceled' = TRUE
    /\ UNCHANGED <<accounts, stopping, instances, database, holder>>

Lock(r) ==
    /\ At(r, "lock") /\ holder = Nobody
    /\ \/ /\ Does(r, {"enable"}) /\ status \notin Gone
          /\ status' = "enabled" /\ UNCHANGED stopping
       \/ /\ Does(r, {"update"}) /\ status = "enabled"
          /\ UNCHANGED <<status, stopping>>
       \/ /\ Does(r, {"disable"}) /\ ~stopping
          /\ stopping' = TRUE /\ UNCHANGED status
    /\ holder' = r
    /\ request' = [request EXCEPT ![r].pc = "stop", ![r].since = cookie]
    /\ UNCHANGED <<accounts, stoppingAll, runCanceled, instances, cookie, left>>

\* Nothing to restart, nobody to enable, or another stop holds the fence.
LockInVain(r) ==
    /\ At(r, "lock") /\ holder = Nobody
    /\ \/ Does(r, {"enable"}) /\ status \in Gone
       \/ Does(r, {"update"}) /\ status # "enabled"
       \/ Does(r, {"disable"}) /\ stopping
    /\ Return(r)
    /\ UNCHANGED <<manager, instances, database, holder, left>>

-----------------------------------------------------------------------------
(* Manager.StopContext                                                     *)

AfterStop(r) == IF Does(r, Restarting) THEN "read" ELSE "write"

\* Mutant: an account that has no instance is waited for as well.
StopUnlisted(r) ==
    /\ At(r, "stop")
    /\ request' = [request EXCEPT ![r].pc = "join", ![r].target = accounts]
    /\ instance' = [i \in Instance |->
                       IF i = accounts THEN [instance[i] EXCEPT !.stopping = TRUE] ELSE instance[i]]
    /\ UNCHANGED <<manager, starts, database, holder, left>>

\* An account without an instance is stopped; the mark keeps Start away from
\* an instance that does not stop in time.
StopContext(r) ==
    /\ At(r, "stop")
    /\ IF accounts = 0
       THEN Goto(r, AfterStop(r)) /\ UNCHANGED instance
       ELSE /\ request' = [request EXCEPT ![r].pc = "join", ![r].target = accounts]
            /\ instance' = [instance EXCEPT ![accounts].stopping = TRUE]
    /\ UNCHANGED <<manager, starts, database, holder, left>>

\* Mutant: the instance is asked to stop taking tasks but not canceled.
JoinOnly(r) ==
    /\ At(r, "join") /\ Goto(r, "await")
    /\ UNCHANGED <<manager, instances, database, holder, left>>

\* Account.StopContext: a fenced lifecycle, and the cancellation of its Run.
JoinInstance(r) ==
    /\ At(r, "join") /\ Goto(r, "await")
    /\ instance' = [instance EXCEPT ![request[r].target].canceled = TRUE]
    /\ UNCHANGED <<manager, starts, database, holder, left>>

AwaitDone(r) ==
    /\ At(r, "await") /\ ~Live(request[r].target)
    /\ Goto(r, "remove")
    /\ UNCHANGED <<manager, instances, database, holder, left>>

\* Mutant: whatever the table holds by now is removed.
RemoveAnyway(r) ==
    /\ At(r, "remove") /\ Goto(r, AfterStop(r))
    /\ accounts' = 0
    /\ UNCHANGED <<stopping, stoppingAll, runCanceled, instances, database, holder, left>>

RemoveStopped(r) ==
    /\ At(r, "remove") /\ Goto(r, AfterStop(r))
    /\ accounts' = IF accounts = request[r].target THEN 0 ELSE accounts
    /\ UNCHANGED <<stopping, stoppingAll, runCanceled, instances, database, holder, left>>

-----------------------------------------------------------------------------
(* How the requests end                                                    *)

Release(r) ==
    /\ stopping' = IF Does(r, Fencing) THEN FALSE ELSE stopping
    /\ holder' = IF holder = r THEN Nobody ELSE holder
    /\ Return(r)

\* A restart that fails makes enable and update write the account disabled.
Fail(r) ==
    /\ IF Does(r, {"enable", "update"})
       THEN Goto(r, "compensate") /\ UNCHANGED <<stopping, holder>>
       ELSE Release(r)
    /\ UNCHANGED <<accounts, stoppingAll, runCanceled, instances, database, left>>

\* The deadline of the request passes; enable and update restart under the
\* lifecycle context.  A shutdown that fails keeps its fence.
StopTimesOut(r) ==
    /\ At(r, "await") /\ Live(request[r].target)
    /\ Does(r, {"enable", "update"}) => runCanceled
    /\ Fail(r)

ReadCookie(r) ==
    /\ At(r, "read") /\ status \notin Gone
    /\ request' = [request EXCEPT ![r].pc = "start", ![r].value = cookie]
    /\ UNCHANGED <<manager, instances, database, holder, left>>

\* The account is gone, the read fails, or the context is canceled.
ReadFails(r) == At(r, "read") /\ Fail(r)

\* Mutant: the account's fence is not consulted.
RefusedInShutdown ==
    stoppingAll \/ (accounts # 0 /\ instance[accounts].stopping)

Refused ==
    stoppingAll \/ stopping \/ (accounts # 0 /\ instance[accounts].stopping)

Start(r) ==
    /\ At(r, "start") /\ ~Refused
    /\ IF accounts # 0 /\ Live(accounts)
       THEN UNCHANGED <<accounts, instances>>
       ELSE /\ starts < MaxStarts
            /\ starts' = starts + 1 /\ accounts' = starts + 1
            /\ instance' = [instance EXCEPT ![starts + 1] =
                   [NoInstance EXCEPT !.state = "started", !.cookie = request[r].value]]
    /\ Return(r)
    /\ holder' = IF holder = r THEN Nobody ELSE holder
    /\ UNCHANGED <<stopping, stoppingAll, runCanceled, database, left>>

StartRefused(r) == At(r, "start") /\ Refused /\ Fail(r)

\* The write itself may fail; it finds no account that is gone.
Compensate(r) ==
    /\ At(r, "compensate")
    /\ status' \in {status, IF status \in Gone THEN status ELSE "runtime_failed"}
    /\ Release(r)
    /\ UNCHANGED <<accounts, stoppingAll, runCanceled, instances, cookie, left>>

\* The status, the deletion, or the end of the shutdown's fence.
Written(r) ==
    CASE Does(r, {"disable"}) -> IF status \in Gone THEN status ELSE "manual"
      [] Does(r, {"delete"}) -> IF status \in Gone THEN status ELSE "deleted"
      [] Does(r, {"deleteUser"}) -> "user_deleted"
      [] OTHER -> status

WriteOutcome(r) ==
    /\ At(r, "write")
    /\ status' \in {status, Written(r)}
    /\ stoppingAll' = IF Does(r, {"stopAll"}) /\ accounts = 0 THEN FALSE ELSE stoppingAll
    /\ Release(r)
    /\ UNCHANGED <<accounts, runCanceled, instances, cookie, left>>

-----------------------------------------------------------------------------
(* The instance: Account.Run                                               *)

Becomes(i, state) == instance' = [instance EXCEPT ![i].state = state]
RestUnchanged == UNCHANGED <<manager, starts, database, request, holder, left>>

\* Mutant: the database is not asked before an instance connects.
MayRunUnlessCanceled(i) == ~Canceled(i)

MayRun(i) == ~Canceled(i) /\ status = "enabled"

CheckStatus(i) ==
    /\ instance[i].state = "started"
    /\ Becomes(i, IF MayRun(i) THEN "checked" ELSE "exited")
    /\ RestUnchanged

\* Mutant: an instance connects with the cookie it was started with.
ConnectAsStarted(i) ==
    /\ instance[i].state = "checked" /\ ~Canceled(i)
    /\ Becomes(i, IF status \in Gone THEN "started" ELSE "connected")
    /\ RestUnchanged

\* The cookie is reloaded before and compared after the registration.
Connect(i) ==
    /\ instance[i].state = "checked" /\ ~Canceled(i)
    /\ instance' = [instance EXCEPT ![i].state = IF status \in Gone THEN "started" ELSE "connected",
                                    ![i].cookie = IF status \in Gone THEN @ ELSE cookie]
    /\ RestUnchanged

Reconnect(i) ==
    /\ instance[i].state = "connected"
    /\ Becomes(i, "started") /\ RestUnchanged

\* Canceled, or a failure that ends the loop.
Exit(i) == Live(i) /\ Becomes(i, "exited") /\ RestUnchanged

SaveCookie ==
    /\ cookie < MaxCookie /\ status \notin Gone
    /\ cookie' = cookie + 1
    /\ UNCHANGED <<manager, instances, status, request, holder, left>>

-----------------------------------------------------------------------------
(* Specification                                                           *)

Arrive(r) ==
    StartAll(r) \/ Restart(r) \/ RequestTransition(r) \/ Delete(r) \/ DeleteUser(r) \/ StopAll(r)

Proceed(r) ==
    \/ Lock(r) \/ LockInVain(r)
    \/ StopContext(r) \/ JoinInstance(r) \/ AwaitDone(r) \/ RemoveStopped(r)
    \/ ReadCookie(r) \/ Start(r) \/ StartRefused(r) \/ Compensate(r) \/ WriteOutcome(r)

Disturb(r) == StopTimesOut(r) \/ ReadFails(r)

Run(i) == CheckStatus(i) \/ Connect(i) \/ Reconnect(i) \/ Exit(i)

Next ==
    \/ \E r \in Request : Arrive(r) \/ Proceed(r) \/ Disturb(r)
    \/ \E i \in Instance : Run(i)
    \/ SaveCookie

Spec == Init /\ [][Next]_vars

\* Goroutines go on, and a canceled instance leaves its loop.
FairSpec ==
    /\ Spec
    /\ \A r \in Request : WF_vars(Proceed(r) \/ ReadFails(r))
    /\ \A i \in Instance : WF_vars(Exit(i) /\ Canceled(i))

-----------------------------------------------------------------------------
(* Properties                                                              *)

InstanceRecord == [state: InstanceState, stopping: BOOLEAN, canceled: BOOLEAN, cookie: 0 .. MaxCookie]
RequestRecord == [op: Op \cup {"none"}, pc: Pc, target: 0 .. MaxStarts, since: 0 .. MaxCookie,
                  value: 0 .. MaxCookie]

\* The table, instances and requests are well formed; a request that waits
\* for an instance knows one that was started.
TypeOK ==
    /\ accounts \in 0 .. starts /\ starts \in 0 .. MaxStarts
    /\ stopping \in BOOLEAN /\ stoppingAll \in BOOLEAN /\ runCanceled \in BOOLEAN
    /\ instance \in [Instance -> InstanceRecord]
    /\ status \in Status /\ cookie \in 0 .. MaxCookie
    /\ request \in [Request -> RequestRecord]
    /\ holder \in Request \cup {Nobody} /\ left \in 0 .. MaxRequests
    /\ \A r \in Request : request[r].pc \in {"join", "await", "remove"} =>
                              request[r].target \in 1 .. starts

\* A live instance is the one in the table: an account has at most one
\* connection, and each of them can be found and stopped.
LiveManaged == \A i \in Instance : Live(i) => accounts = i

\* Between its stop and the release of its fence a request finds no live
\* instance, whoever else restarts the account (BeginStopping, stoppingAll).
StoppedWhileFenced ==
    \A r \in Request : At(r, "write") /\ Does(r, Fencing \cup {"stopAll"}) =>
                           \A i \in Instance : ~Live(i)

\* An account that was disabled or deleted on request is not connected,
\* though a restart that read its status or cookie before may still start an
\* instance after the fence is gone.
DownIsDown ==
    status \in {"manual", "deleted"} =>
        \A i \in Instance : instance[i].state \notin {"checked", "connected"}

\* A restart that has stopped the old instance leaves no connection with a
\* cookie older than the one it was called for, even if another restart
\* starts the instance in its place (Manager.Restart).
Refreshed ==
    \A r \in Request : request[r].pc \in {"read", "start"} /\ Does(r, Restarting) =>
        \A i \in Instance : instance[i].state = "connected" => instance[i].cookie >= request[r].since

\* Both together: what the manager knows of the instances.
ManagerSafe == LiveManaged /\ StoppedWhileFenced

\* The manager implements the slot of AccountSlot: however requests overlap, time out
\* and restart, the account has one connection, made of the stored cookie and an
\* enabled status, nothing fills it behind a fence, and it is written down when empty.
Place == IF accounts # 0 /\ Live(accounts) THEN instance[accounts].state ELSE "empty"
Used == IF Place = "connected" THEN instance[accounts].cookie ELSE 0
Barred == stopping \/ stoppingAll
Slot == INSTANCE AccountSlot WITH place <- Place, used <- Used, barred <- Barred
SlotSpec == Slot!Spec

\* Requests do not wait for each other or for an instance for ever.
RequestsEnd == \A r \in Request : request[r].pc # "idle" ~> request[r].pc = "idle"

=============================================================================
