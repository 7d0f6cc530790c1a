------------------------ MODULE AccountManager_proofs ------------------------
(***************************************************************************)
(* Theorems about AccountManager for every set of requests, every set of   *)
(* operations and every bound.                                             *)
(***************************************************************************)
EXTENDS AccountManager, TLAPS

-----------------------------------------------------------------------------
(* Types                                                                   *)

Waiting == {"join", "await", "remove"}

LEMMA NoRequestType == NoRequest \in RequestRecord
BY ManagerBounds DEF NoRequest, RequestRecord, Pc

LEMMA NoInstanceType == NoInstance \in InstanceRecord
BY ManagerBounds DEF NoInstance, InstanceRecord, InstanceState

\* A request that moves on but does not begin to wait.
LEMMA GotoType ==
    ASSUME TypeOK, NEW r \in Request, NEW pc \in Pc, Goto(r, pc),
           pc \notin Waiting \/ request[r].pc \in Waiting, starts' = starts
    PROVE  /\ request' \in [Request -> RequestRecord]
           /\ \A q \in Request : request'[q].pc \in Waiting => request'[q].target \in 1 .. starts'
<1>1. request \in [Request -> RequestRecord]
  BY DEF TypeOK
<1>2. request[r] \in RequestRecord
  BY <1>1
<1>3. [request[r] EXCEPT !.pc = pc] \in RequestRecord
  BY <1>2 DEF RequestRecord
<1>4. request' = [request EXCEPT ![r] = [request[r] EXCEPT !.pc = pc]]
  BY DEF Goto
<1>5. request' \in [Request -> RequestRecord]
  BY <1>1, <1>3, <1>4
<1>6. ASSUME NEW q \in Request, request'[q].pc \in Waiting
      PROVE  request'[q].target \in 1 .. starts'
  <2>1. request[q].pc \in Waiting => request[q].target \in 1 .. starts
    BY DEF TypeOK, Waiting
  <2>2. CASE q = r
    <3>1. request'[q] = [request[r] EXCEPT !.pc = pc]
      BY <1>1, <1>4, <2>2
    <3>2. request'[q].pc = pc /\ request'[q].target = request[r].target
      BY <1>2, <3>1 DEF RequestRecord
    <3>3. QED
      BY <1>6, <2>1, <2>2, <3>2
  <2>3. CASE q # r
    BY <1>1, <1>4, <1>6, <2>1, <2>3
  <2>4. QED
    BY <2>2, <2>3
<1>7. QED
  BY <1>5, <1>6

\* A request that gets a record which does not wait.
LEMMA RecordType ==
    ASSUME TypeOK, NEW r \in Request, NEW record \in RequestRecord, record.pc \notin Waiting,
           request' = [request EXCEPT ![r] = record], starts' \in Nat, starts <= starts'
    PROVE  /\ request' \in [Request -> RequestRecord]
           /\ \A q \in Request : request'[q].pc \in Waiting => request'[q].target \in 1 .. starts'
<1>1. request \in [Request -> RequestRecord] /\ starts \in Nat
  BY ManagerBounds DEF TypeOK
<1>2. request' \in [Request -> RequestRecord]
  BY <1>1
<1>3. ASSUME NEW q \in Request, request'[q].pc \in Waiting
      PROVE  request'[q].target \in 1 .. starts'
  <2>1. q # r /\ request'[q] = request[q]
    BY <1>1, <1>3
  <2>2. request[q].target \in 1 .. starts
    BY <1>3, <2>1 DEF TypeOK, Waiting
  <2>3. QED
    BY <1>1, <2>1, <2>2
<1>4. QED
  BY <1>2, <1>3

LEMMA ReturnType ==
    ASSUME TypeOK, NEW r \in Request, Return(r), starts' \in Nat, starts <= starts'
    PROVE  /\ request' \in [Request -> RequestRecord]
           /\ \A q \in Request : request'[q].pc \in Waiting => request'[q].target \in 1 .. starts'
<1>1. NoRequest.pc \notin Waiting
  BY DEF NoRequest, Waiting
<1>2. QED
  BY <1>1, NoRequestType, RecordType DEF Return

LEMMA CallType ==
    ASSUME TypeOK, NEW r \in Request, NEW op \in Op, NEW pc \in Pc \ Waiting, Call(r, op, pc),
           starts' = starts
    PROVE  /\ request' \in [Request -> RequestRecord] /\ left' \in 0 .. MaxRequests
           /\ \A q \in Request : request'[q].pc \in Waiting => request'[q].target \in 1 .. starts'
<1> DEFINE record == [NoRequest EXCEPT !.op = op, !.pc = pc, !.since = cookie]
<1>1. cookie \in 0 .. MaxCookie /\ left \in 0 .. MaxRequests /\ starts \in Nat
  BY ManagerBounds DEF TypeOK
<1>2. record \in RequestRecord /\ record.pc \notin Waiting
  BY <1>1, NoRequestType DEF RequestRecord, NoRequest
<1>3. left' \in 0 .. MaxRequests
  BY <1>1, ManagerBounds DEF Call
<1>4. request' = [request EXCEPT ![r] = record]
  BY DEF Call
<1>5. starts' \in Nat /\ starts <= starts'
  BY <1>1
<1> HIDE DEF record
<1>6. /\ request' \in [Request -> RequestRecord]
      /\ \A q \in Request : request'[q].pc \in Waiting => request'[q].target \in 1 .. starts'
  BY <1>2, <1>4, <1>5, RecordType
<1>7. QED
  BY <1>3, <1>6

LEMMA BecomesType ==
    ASSUME TypeOK, NEW i \in Instance, NEW state \in InstanceState, Becomes(i, state)
    PROVE  instance' \in [Instance -> InstanceRecord]
<1>1. instance \in [Instance -> InstanceRecord] /\ instance[i] \in InstanceRecord
  BY DEF TypeOK
<1>2. [instance[i] EXCEPT !.state = state] \in InstanceRecord
  BY <1>1 DEF InstanceRecord
<1>3. QED
  BY <1>1, <1>2 DEF Becomes

LEMMA TypeInit == Init => TypeOK
<1> SUFFICES ASSUME Init PROVE TypeOK
  OBVIOUS
<1>1. instance \in [Instance -> InstanceRecord] /\ request \in [Request -> RequestRecord]
  BY NoInstanceType, NoRequestType DEF Init
<1>2. \A r \in Request : request[r].pc = "idle"
  BY DEF Init, NoRequest
<1>3. \A r \in Request : request[r].pc \notin {"join", "await", "remove"}
  BY <1>2
<1>4. /\ accounts \in 0 .. starts /\ starts \in 0 .. MaxStarts
      /\ cookie \in 0 .. MaxCookie /\ left \in 0 .. MaxRequests
  BY ManagerBounds DEF Init
<1>5. /\ stopping \in BOOLEAN /\ stoppingAll \in BOOLEAN /\ runCanceled \in BOOLEAN
      /\ status \in Status /\ holder \in Request \cup {Nobody}
  BY DEF Init, Status
<1>6. QED
  BY <1>1, <1>3, <1>4, <1>5 DEF TypeOK

\* The calls: a request gets a record, the manager at most a fence.
LEMMA TypeArrive ==
    ASSUME TypeOK, NEW r \in Request, Arrive(r)
    PROVE  TypeOK'
<1> USE DEF manager, instances, database
<1>1. {"stop", "lock", "start"} \subseteq Pc \ Waiting
  BY DEF Pc, Waiting
<1>2. CASE StartAll(r)
  <2> DEFINE record == [NoRequest EXCEPT !.op = "startAll", !.pc = "start", !.value = cookie]
  <2>1. cookie \in 0 .. MaxCookie /\ left \in 0 .. MaxRequests /\ starts \in Nat
    BY ManagerBounds DEF TypeOK
  <2>2. record \in RequestRecord /\ record.pc \notin Waiting
    BY <1>1, <1>2, <2>1, NoRequestType DEF RequestRecord, NoRequest, StartAll
  <2>3. request' = [request EXCEPT ![r] = record] /\ left' \in 0 .. MaxRequests
    BY <1>2, <2>1, ManagerBounds DEF StartAll
  <2>4. starts' \in Nat /\ starts <= starts'
    BY <1>2, <2>1 DEF StartAll
  <2> HIDE DEF record
  <2>5. /\ request' \in [Request -> RequestRecord]
        /\ \A q \in Request : request'[q].pc \in Waiting => request'[q].target \in 1 .. starts'
    BY <2>2, <2>3, <2>4, RecordType
  <2>6. QED
    BY <1>2, <2>3, <2>5 DEF StartAll, TypeOK, Waiting
<1>3. CASE Restart(r)
  <2>1. Call(r, "restart", "stop") /\ starts' = starts /\ "restart" \in Op
    BY <1>3 DEF Restart, Call
  <2>2. QED
    BY <1>1, <1>3, <2>1, CallType DEF Restart, TypeOK, Waiting
<1>4. CASE RequestTransition(r)
  <2>1. PICK op \in Transition : Call(r, op, "lock")
    BY <1>4 DEF RequestTransition
  <2>2. op \in Op /\ starts' = starts
    BY <1>4, <2>1 DEF RequestTransition, Call
  <2>3. QED
    BY <1>1, <1>4, <2>1, <2>2, CallType DEF RequestTransition, TypeOK, Waiting
<1>5. CASE Delete(r)
  <2>1. Call(r, "delete", "stop") /\ starts' = starts /\ "delete" \in Op
    BY <1>5 DEF Delete, Call
  <2>2. QED
    BY <1>1, <1>5, <2>1, CallType DEF Delete, TypeOK, Waiting
<1>6. CASE DeleteUser(r)
  <2>1. Call(r, "deleteUser", "stop") /\ starts' = starts /\ "deleteUser" \in Op
    BY <1>6 DEF DeleteUser, Call
  <2>2. QED
    BY <1>1, <1>6, <2>1, CallType DEF DeleteUser, TypeOK, Waiting
<1>7. CASE StopAll(r)
  <2>1. Call(r, "stopAll", "stop") /\ starts' = starts /\ "stopAll" \in Op
    BY <1>7 DEF StopAll, Call
  <2>2. QED
    BY <1>1, <1>7, <2>1, CallType DEF StopAll, TypeOK, Waiting
<1>8. QED
  BY <1>2, <1>3, <1>4, <1>5, <1>6, <1>7 DEF Arrive

LEMMA ReleaseType ==
    ASSUME TypeOK, NEW r \in Request, Release(r), starts' = starts
    PROVE  /\ request' \in [Request -> RequestRecord]
           /\ \A q \in Request : request'[q].pc \in Waiting => request'[q].target \in 1 .. starts'
           /\ stopping' \in BOOLEAN /\ holder' \in Request \cup {Nobody}
<1>1. starts' \in Nat /\ starts <= starts'
  BY ManagerBounds DEF TypeOK
<1>2. QED
  BY <1>1, ReturnType DEF Release, TypeOK

LEMMA TypeFail ==
    ASSUME TypeOK, NEW r \in Request, Fail(r)
    PROVE  TypeOK'
<1> USE DEF manager, instances, database
<1>1. starts' = starts /\ "compensate" \in Pc \ Waiting
  BY DEF Fail, Pc, Waiting
<1>2. CASE Does(r, {"enable", "update"})
  BY <1>1, <1>2, GotoType DEF Fail, TypeOK, Waiting
<1>3. CASE ~Does(r, {"enable", "update"})
  BY <1>1, <1>3, ReleaseType DEF Fail, TypeOK, Waiting
<1>4. QED
  BY <1>2, <1>3

LEMMA TypeLock ==
    ASSUME TypeOK, NEW r \in Request, Lock(r)
    PROVE  TypeOK'
<1> DEFINE record == [request[r] EXCEPT !.pc = "stop", !.since = cookie]
<1>1. request \in [Request -> RequestRecord] /\ request[r] \in RequestRecord
      /\ cookie \in 0 .. MaxCookie /\ starts \in Nat
  BY ManagerBounds DEF TypeOK
<1>2. record \in RequestRecord /\ record.pc \notin Waiting
  BY <1>1 DEF RequestRecord, Pc, Waiting
<1>3. request' = [request EXCEPT ![r] = record]
  BY DEF Lock
<1>4. starts' \in Nat /\ starts <= starts'
  BY <1>1 DEF Lock, instances
<1> HIDE DEF record
<1>5. /\ request' \in [Request -> RequestRecord]
      /\ \A q \in Request : request'[q].pc \in Waiting => request'[q].target \in 1 .. starts'
  BY <1>2, <1>3, <1>4, RecordType
<1>6. QED
  BY <1>5 DEF Lock, TypeOK, Waiting, Status, instances

LEMMA TypeStop ==
    ASSUME TypeOK, NEW r \in Request, StopContext(r)
    PROVE  TypeOK'
<1> USE DEF manager, instances, database
<1>1. /\ request \in [Request -> RequestRecord] /\ request[r] \in RequestRecord
      /\ instance \in [Instance -> InstanceRecord] /\ starts \in Nat /\ starts <= MaxStarts
      /\ accounts \in 0 .. starts
  BY ManagerBounds DEF TypeOK
<1>2. CASE accounts = 0
  <2>1. Goto(r, AfterStop(r)) /\ AfterStop(r) \in Pc \ Waiting /\ starts' = starts
        /\ instance' = instance
    BY <1>2 DEF StopContext, AfterStop, Pc, Waiting
  <2>2. QED
    BY <2>1, GotoType DEF StopContext, TypeOK, Waiting
<1>3. CASE accounts # 0
  <2> DEFINE record == [request[r] EXCEPT !.pc = "join", !.target = accounts]
  <2>1. accounts \in 1 .. starts /\ accounts \in Instance /\ accounts \in 0 .. MaxStarts
    BY <1>1, <1>3, ManagerBounds DEF Instance
  <2>2. record \in RequestRecord /\ record.target = accounts
    BY <1>1, <2>1 DEF RequestRecord, Pc
  <2>3. request' = [request EXCEPT ![r] = record]
    BY <1>3 DEF StopContext
  <2> HIDE DEF record
  <2>4. request' \in [Request -> RequestRecord]
    BY <1>1, <2>2, <2>3
  <2>5. ASSUME NEW q \in Request, request'[q].pc \in Waiting
        PROVE  request'[q].target \in 1 .. starts'
    <3>1. CASE q = r
      BY <1>1, <2>1, <2>2, <2>3, <3>1 DEF StopContext
    <3>2. CASE q # r
      BY <1>1, <2>3, <2>5, <3>2 DEF StopContext, TypeOK, Waiting
    <3>3. QED
      BY <3>1, <3>2
  <2>6. instance' \in [Instance -> InstanceRecord]
    <3>1. instance[accounts] \in InstanceRecord
      BY <1>1, <2>1
    <3>2. [instance[accounts] EXCEPT !.stopping = TRUE] \in InstanceRecord
      BY <3>1 DEF InstanceRecord
    <3>3. instance' = [instance EXCEPT ![accounts] = [instance[accounts] EXCEPT !.stopping = TRUE]]
      BY <1>3 DEF StopContext
    <3>4. QED
      BY <1>1, <2>1, <3>2, <3>3
  <2>7. QED
    BY <2>4, <2>5, <2>6 DEF StopContext, TypeOK, Waiting
<1>4. QED
  BY <1>2, <1>3

LEMMA TypeProceed ==
    ASSUME TypeOK, NEW r \in Request, Proceed(r)
    PROVE  TypeOK'
<1> USE DEF manager, instances, database
<1>1. {"await", "remove"} \subseteq Pc /\ {"read", "write", "start"} \subseteq Pc \ Waiting
  BY DEF Pc, Waiting
<1>2. AfterStop(r) \in Pc \ Waiting
  BY <1>1 DEF AfterStop
<1>3. CASE LockInVain(r)
  <2>1. Return(r) /\ starts' = starts /\ starts' \in Nat /\ starts <= starts'
    BY <1>3, ManagerBounds DEF LockInVain, TypeOK
  <2>2. QED
    BY <1>3, <2>1, ReturnType DEF LockInVain, TypeOK, Waiting
<1>4. CASE JoinInstance(r)
  <2>1. Goto(r, "await") /\ request[r].pc \in Waiting /\ starts' = starts
    BY <1>4 DEF JoinInstance, At, Waiting
  <2>2. request[r].target \in Instance
    <3>1. request[r].target \in 1 .. starts /\ starts \in 0 .. MaxStarts
      BY <2>1 DEF TypeOK, Waiting
    <3>2. QED
      BY <3>1, ManagerBounds DEF Instance
  <2>3. instance[request[r].target] \in InstanceRecord /\ instance \in [Instance -> InstanceRecord]
    BY <2>2 DEF TypeOK
  <2>4. [instance[request[r].target] EXCEPT !.canceled = TRUE] \in InstanceRecord
    BY <2>3 DEF InstanceRecord
  <2>5. instance' \in [Instance -> InstanceRecord]
    BY <1>4, <2>2, <2>3, <2>4 DEF JoinInstance
  <2>6. QED
    BY <1>1, <1>4, <2>1, <2>5, GotoType DEF JoinInstance, TypeOK, Waiting
<1>5. CASE AwaitDone(r)
  <2>1. Goto(r, "remove") /\ request[r].pc \in Waiting /\ starts' = starts
    BY <1>5 DEF AwaitDone, At, Waiting
  <2>2. QED
    BY <1>1, <1>5, <2>1, GotoType DEF AwaitDone, TypeOK, Waiting
<1>6. CASE RemoveStopped(r)
  <2>1. Goto(r, AfterStop(r)) /\ starts' = starts
    BY <1>6 DEF RemoveStopped
  <2>2. accounts' \in 0 .. starts'
    BY <1>6, <2>1, ManagerBounds DEF RemoveStopped, TypeOK
  <2>3. QED
    BY <1>2, <1>6, <2>1, <2>2, GotoType DEF RemoveStopped, TypeOK, Waiting
<1>7. CASE ReadCookie(r)
  <2> DEFINE record == [request[r] EXCEPT !.pc = "start", !.value = cookie]
  <2>1. request[r] \in RequestRecord /\ cookie \in 0 .. MaxCookie /\ starts \in Nat
    BY ManagerBounds DEF TypeOK
  <2>2. record \in RequestRecord /\ record.pc \notin Waiting
    BY <1>1, <2>1 DEF RequestRecord
  <2>3. request' = [request EXCEPT ![r] = record]
    BY <1>7 DEF ReadCookie
  <2>4. starts' \in Nat /\ starts <= starts'
    BY <1>7, <2>1 DEF ReadCookie
  <2> HIDE DEF record
  <2>5. /\ request' \in [Request -> RequestRecord]
        /\ \A q \in Request : request'[q].pc \in Waiting => request'[q].target \in 1 .. starts'
    BY <2>2, <2>3, <2>4, RecordType
  <2>6. QED
    BY <1>7, <2>5 DEF ReadCookie, TypeOK, Waiting
<1>8. CASE Start(r)
  <2>1. Return(r) /\ starts \in Nat /\ accounts \in 0 .. starts /\ starts \in 0 .. MaxStarts
        /\ MaxStarts \in Nat
    BY <1>8, ManagerBounds DEF Start, TypeOK
  <2>2. holder' \in Request \cup {Nobody}
    BY <1>8 DEF Start, TypeOK
  <2>3. CASE accounts # 0 /\ Live(accounts)
    <3>1. starts' = starts /\ accounts' = accounts /\ instance' = instance
      BY <1>8, <2>3 DEF Start
    <3>2. starts' \in Nat /\ starts <= starts'
      BY <2>1, <3>1
    <3>3. QED
      BY <1>8, <2>1, <2>2, <3>1, <3>2, ReturnType DEF Start, TypeOK, Waiting
  <2>4. CASE ~(accounts # 0 /\ Live(accounts))
    <3> DEFINE fresh == [NoInstance EXCEPT !.state = "started", !.cookie = request[r].value]
    <3>1. starts < MaxStarts /\ starts' = starts + 1 /\ accounts' = starts + 1
          /\ instance' = [instance EXCEPT ![starts + 1] = fresh]
      BY <1>8, <2>4 DEF Start
    <3>2. request[r].value \in 0 .. MaxCookie
      BY DEF TypeOK, RequestRecord
    <3>3. fresh \in InstanceRecord
      BY <3>2, NoInstanceType DEF InstanceRecord, InstanceState
    <3>4. /\ starts' \in Nat /\ starts <= starts' /\ starts' \in 0 .. MaxStarts
          /\ accounts' \in 0 .. starts'
      BY <2>1, <3>1
    <3> HIDE DEF fresh
    <3>5. instance' \in [Instance -> InstanceRecord]
      BY <3>1, <3>3 DEF TypeOK
    <3>6. QED
      BY <1>8, <2>1, <2>2, <3>4, <3>5, ReturnType DEF Start, TypeOK, Waiting
  <2>5. QED
    BY <2>3, <2>4
<1>9. CASE Compensate(r)
  <2>1. Release(r) /\ starts' = starts
    BY <1>9 DEF Compensate
  <2>2. status' \in Status
    BY <1>9 DEF Compensate, TypeOK, Status
  <2>3. QED
    BY <1>9, <2>1, <2>2, ReleaseType DEF Compensate, TypeOK, Waiting
<1>10. CASE WriteOutcome(r)
  <2>1. Release(r) /\ starts' = starts
    BY <1>10 DEF WriteOutcome
  <2>2. status \in Status /\ Written(r) \in Status
    BY DEF TypeOK, Written, Status
  <2>3. status' \in Status /\ stoppingAll' \in BOOLEAN
    BY <1>10, <2>2 DEF WriteOutcome, TypeOK
  <2>4. QED
    BY <1>10, <2>1, <2>3, ReleaseType DEF WriteOutcome, TypeOK, Waiting
<1>11. QED
  BY <1>3, <1>4, <1>5, <1>6, <1>7, <1>8, <1>9, <1>10, TypeLock, TypeStop, TypeFail
  DEF Proceed, StartRefused

LEMMA TypeRun ==
    ASSUME TypeOK, NEW i \in Instance, Run(i)
    PROVE  TypeOK'
<1> USE DEF manager, instances, database, RestUnchanged
<1>1. {"started", "checked", "connected", "exited"} \subseteq InstanceState
  BY DEF InstanceState
<1>2. CASE CheckStatus(i)
  <2>1. \E state \in InstanceState : Becomes(i, state)
    BY <1>1, <1>2 DEF CheckStatus
  <2>2. QED
    BY <1>2, <2>1, BecomesType DEF CheckStatus, TypeOK
<1>3. CASE Connect(i)
  <2> DEFINE record == [instance[i] EXCEPT !.state = IF status \in Gone THEN "started" ELSE "connected",
                                           !.cookie = IF status \in Gone THEN @ ELSE cookie]
  <2>1. instance[i] \in InstanceRecord /\ cookie \in 0 .. MaxCookie
    BY DEF TypeOK
  <2>2. record \in InstanceRecord
    BY <1>1, <2>1 DEF InstanceRecord
  <2>3. instance' = [instance EXCEPT ![i] = record]
    BY <1>3 DEF Connect
  <2> HIDE DEF record
  <2>4. instance' \in [Instance -> InstanceRecord]
    BY <2>2, <2>3 DEF TypeOK
  <2>5. QED
    BY <1>3, <2>4 DEF Connect, TypeOK
<1>4. CASE Reconnect(i)
  BY <1>1, <1>4, BecomesType DEF Reconnect, TypeOK
<1>5. CASE Exit(i)
  BY <1>1, <1>5, BecomesType DEF Exit, TypeOK
<1>6. QED
  BY <1>2, <1>3, <1>4, <1>5 DEF Run

LEMMA TypeNext == TypeOK /\ [Next]_vars => TypeOK'
<1> SUFFICES ASSUME TypeOK, [Next]_vars PROVE TypeOK'
  OBVIOUS
<1>1. CASE \E r \in Request : Arrive(r) \/ Proceed(r) \/ Disturb(r)
  BY <1>1, TypeArrive, TypeProceed, TypeFail DEF Disturb, StopTimesOut, ReadFails
<1>2. CASE \E i \in Instance : Run(i)
  BY <1>2, TypeRun
<1>3. CASE SaveCookie
  <2>1. cookie' \in 0 .. MaxCookie
    BY <1>3, ManagerBounds DEF SaveCookie, TypeOK
  <2>2. QED
    BY <1>3, <2>1 DEF SaveCookie, TypeOK, manager, instances
<1>4. CASE UNCHANGED vars
  BY <1>4 DEF vars, manager, instances, database, TypeOK
<1>5. QED
  BY <1>1, <1>2, <1>3, <1>4 DEF Next

\* The table, the instances and the requests stay well formed.
THEOREM TypeCorrect == Spec => []TypeOK
BY TypeInit, TypeNext, PTL DEF Spec

-----------------------------------------------------------------------------
(* The inductive invariant                                                 *)

Held(r) == Does(r, Fencing) /\ request[r].pc \notin {"idle", "lock"}
Closing(r) == Does(r, {"stopAll"})

\* A request about to clear the table has seen its instance end.
RemovesDone == \A r \in Request : At(r, "remove") => ~Live(request[r].target)

\* Each fence has one owner, and is set while its owner is under way.
FenceOwned ==
    /\ \A r \in Request : Held(r) => stopping
    /\ \A r \in Request : Closing(r) => stoppingAll
    /\ \A q, r \in Request : Held(q) /\ Held(r) => q = r
    /\ \A q, r \in Request : Closing(q) /\ Closing(r) => q = r

\* Behind a fence the table holds the instance to be stopped, or nothing.
FencedTable ==
    \A r \in Request : (Held(r) \/ Closing(r)) /\ request[r].pc \in Waiting =>
                           accounts \in {0, request[r].target}

Fences == LiveManaged /\ RemovesDone /\ FenceOwned /\ FencedTable /\ StoppedWhileFenced

ManagerInv == TypeOK /\ Fences

LEMMA TargetIsInstance ==
    ASSUME TypeOK, NEW q \in Request, request[q].pc \in Waiting
    PROVE  request[q].target \in Instance
<1>1. request[q].target \in 1 .. starts /\ starts \in 0 .. MaxStarts
  BY DEF TypeOK, Waiting
<1>2. QED
  BY <1>1, ManagerBounds DEF Instance

\* A step that raises no fence, lifts none and starts nothing: request r gets
\* a record that owes the invariant nothing new.
LEMMA QuietStep ==
    ASSUME ManagerInv, NEW r \in Request, NEW record, request' = [request EXCEPT ![r] = record],
           accounts' = accounts, stopping' = stopping, stoppingAll' = stoppingAll,
           \A i \in Instance : Live(i)' => Live(i),
           record.op \in Fencing /\ record.pc \notin {"idle", "lock"} => Held(r),
           record.op = "stopAll" => Closing(r),
           record.pc \in Waiting =>
               request[r].pc \in Waiting /\ record.target = request[r].target,
           record.pc = "remove" => ~Live(record.target),
           record.pc = "write" /\ record.op \in Fencing \cup {"stopAll"} =>
               \A i \in Instance : ~Live(i)
    PROVE  Fences'
<1>1. request'[r] = record /\ \A q \in Request : q # r => request'[q] = request[q]
  BY DEF ManagerInv, TypeOK
<1>2. LiveManaged'
  BY DEF ManagerInv, Fences, LiveManaged
<1>3. RemovesDone'
  <2> SUFFICES ASSUME NEW q \in Request, request'[q].pc = "remove"
               PROVE  ~Live(request[q].target)' /\ request'[q].target = request[q].target
    BY DEF RemovesDone, At, Live
  <2>1. request[q].pc \in Waiting /\ request'[q].target = request[q].target
    BY <1>1 DEF Waiting
  <2>2. request[q].target \in Instance
    BY <2>1, TargetIsInstance DEF ManagerInv
  <2>3. ~Live(request[q].target)
    BY <1>1, <2>1 DEF ManagerInv, Fences, RemovesDone, At
  <2>4. request'[q].target \in Instance /\ ~Live(request'[q].target)
    BY <2>1, <2>2, <2>3
  <2>5. QED
    BY <2>1, <2>4 DEF Live
<1>4. \A q \in Request : (Held(q)' => Held(q)) /\ (Closing(q)' => Closing(q))
  BY <1>1 DEF Held, Closing, Does
<1>5. FenceOwned'
  BY <1>4 DEF ManagerInv, Fences, FenceOwned
<1>6. FencedTable'
  <2>1. \A q \in Request : request'[q].pc \in Waiting =>
                               request[q].pc \in Waiting /\ request'[q].target = request[q].target
    BY <1>1
  <2>2. QED
    BY <1>4, <2>1 DEF ManagerInv, Fences, FencedTable
<1>7. StoppedWhileFenced'
  BY <1>1 DEF ManagerInv, Fences, StoppedWhileFenced, At, Does
<1>8. QED
  BY <1>2, <1>3, <1>5, <1>6, <1>7 DEF Fences

\* A step that ends request r and lifts what it has raised.
LEMMA EndStep ==
    ASSUME ManagerInv, NEW r \in Request, Return(r),
           accounts' = accounts, \A i \in Instance : Live(i)' <=> Live(i),
           (stopping' = stopping) \/ Held(r),
           (stoppingAll' = stoppingAll) \/ Closing(r)
    PROVE  Fences'
<1>1. request'[r] = NoRequest /\ \A q \in Request : q # r => request'[q] = request[q]
  BY DEF ManagerInv, TypeOK, Return
<1>2. LiveManaged'
  BY DEF ManagerInv, Fences, LiveManaged
<1>3. RemovesDone'
  <2> SUFFICES ASSUME NEW q \in Request, request'[q].pc = "remove"
               PROVE  ~Live(request[q].target)' /\ request'[q] = request[q]
    BY DEF RemovesDone, At, Live
  <2>1. request'[q] = request[q] /\ request[q].pc = "remove"
    BY <1>1 DEF NoRequest
  <2>2. request[q].target \in Instance
    BY <2>1, TargetIsInstance DEF ManagerInv, Waiting
  <2>3. ~Live(request[q].target)
    BY <2>1 DEF ManagerInv, Fences, RemovesDone, At
  <2>4. request'[q].target \in Instance /\ ~Live(request'[q].target)
    BY <2>1, <2>2, <2>3
  <2>5. QED
    BY <2>1, <2>4 DEF Live
<1>4. \A q \in Request : /\ Held(q)' => Held(q) /\ q # r
                         /\ Closing(q)' => Closing(q) /\ q # r
  BY <1>1 DEF Held, Closing, Does, NoRequest, Fencing
<1>5. FenceOwned'
  BY <1>4 DEF ManagerInv, Fences, FenceOwned
<1>6. FencedTable'
  <2>1. \A q \in Request : request'[q].pc \in Waiting => request'[q] = request[q]
    BY <1>1 DEF NoRequest, Waiting
  <2>2. QED
    BY <1>4, <2>1 DEF ManagerInv, Fences, FencedTable
<1>7. StoppedWhileFenced'
  <2>1. \A q \in Request : request'[q].pc = "write" => request'[q] = request[q]
    BY <1>1 DEF NoRequest
  <2>2. QED
    BY <2>1 DEF ManagerInv, Fences, StoppedWhileFenced, At, Does
<1>8. QED
  BY <1>2, <1>3, <1>5, <1>6, <1>7 DEF Fences

\* A step that raises a fence nobody holds, for a request that still has to
\* stop the instance.
LEMMA RaiseStep ==
    ASSUME ManagerInv, NEW r \in Request, NEW record, request' = [request EXCEPT ![r] = record],
           record.pc = "stop", accounts' = accounts, \A i \in Instance : Live(i)' <=> Live(i),
           \/ /\ record.op \in Fencing /\ ~stopping /\ stopping' = TRUE
              /\ stoppingAll' = stoppingAll
           \/ /\ record.op = "stopAll" /\ stoppingAll' = TRUE /\ stopping' = stopping
              /\ \A q \in Request : ~Closing(q)
    PROVE  Fences'
<1>1. request'[r] = record /\ \A q \in Request : q # r => request'[q] = request[q]
  BY DEF ManagerInv, TypeOK
<1>2. LiveManaged'
  BY DEF ManagerInv, Fences, LiveManaged
<1>3. \A q \in Request : request'[q].pc \in Waiting \cup {"write"} => request'[q] = request[q]
  BY <1>1 DEF Waiting
<1>4. RemovesDone'
  <2> SUFFICES ASSUME NEW q \in Request, request'[q].pc = "remove"
               PROVE  ~Live(request[q].target)' /\ request'[q] = request[q]
    BY DEF RemovesDone, At, Live
  <2>1. request'[q] = request[q] /\ request[q].pc \in Waiting
    BY <1>3 DEF Waiting
  <2>2. request[q].target \in Instance
    BY <2>1, TargetIsInstance DEF ManagerInv
  <2>3. ~Live(request[q].target)
    BY <2>1 DEF ManagerInv, Fences, RemovesDone, At
  <2>4. request'[q].target \in Instance /\ ~Live(request'[q].target)
    BY <2>1, <2>2, <2>3
  <2>5. QED
    BY <2>1, <2>4 DEF Live
<1>5. FenceOwned'
  <2>1. CASE record.op \in Fencing
    <3>1. record.op # "stopAll" /\ ~stopping /\ stopping' = TRUE /\ stoppingAll' = stoppingAll
      BY <2>1 DEF Fencing
    <3>2. \A q \in Request : ~Held(q)
      BY <3>1 DEF ManagerInv, Fences, FenceOwned
    <3>3. \A q \in Request : (Held(q)' => q = r) /\ (Closing(q)' => Closing(q))
      BY <1>1, <3>1, <3>2 DEF Held, Closing, Does
    <3>4. QED
      BY <3>1, <3>3 DEF ManagerInv, Fences, FenceOwned
  <2>2. CASE record.op = "stopAll"
    <3>1. stopping' = stopping /\ stoppingAll' = TRUE /\ \A q \in Request : ~Closing(q)
      BY <2>2 DEF Fencing
    <3>2. \A q \in Request : (Closing(q)' => q = r) /\ (Held(q)' => Held(q))
      BY <1>1, <2>2, <3>1 DEF Held, Closing, Does, Fencing
    <3>3. QED
      BY <3>1, <3>2 DEF ManagerInv, Fences, FenceOwned
  <2>3. QED
    BY <2>1, <2>2
<1>6. FencedTable'
  BY <1>3 DEF ManagerInv, Fences, FencedTable, Held, Closing, Does
<1>7. StoppedWhileFenced'
  BY <1>3 DEF ManagerInv, Fences, StoppedWhileFenced, At, Does
<1>8. QED
  BY <1>2, <1>4, <1>5, <1>6, <1>7 DEF Fences

\* Behind a fence nothing is started.
LEMMA StartStep ==
    ASSUME ManagerInv, NEW r \in Request, Start(r)
    PROVE  Fences'
<1>1. ~stopping /\ ~stoppingAll /\ accounts \in 0 .. starts /\ starts \in Nat /\ MaxStarts \in Nat
      /\ Return(r) /\ stopping' = stopping /\ stoppingAll' = stoppingAll
  BY ManagerBounds DEF Start, Refused, ManagerInv, TypeOK
<1>2. \A q \in Request : ~Held(q) /\ ~Closing(q)
  BY <1>1 DEF ManagerInv, Fences, FenceOwned
<1>3. CASE accounts # 0 /\ Live(accounts)
  <2>1. accounts' = accounts /\ instance' = instance
    BY <1>3 DEF Start, instances
  <2>2. \A i \in Instance : Live(i)' <=> Live(i)
    BY <2>1 DEF Live
  <2>3. QED
    BY <1>1, <2>1, <2>2, EndStep
<1>4. CASE ~(accounts # 0 /\ Live(accounts))
  <2> DEFINE fresh == [NoInstance EXCEPT !.state = "started", !.cookie = request[r].value]
  <2>1. accounts' = starts + 1 /\ instance' = [instance EXCEPT ![starts + 1] = fresh]
    BY <1>4 DEF Start
  <2>2. \A i \in Instance : i # starts + 1 => instance'[i] = instance[i]
    BY <2>1 DEF ManagerInv, TypeOK
  <2>3. \A i \in Instance : ~Live(i)
    BY <1>4 DEF ManagerInv, Fences, LiveManaged, Instance
  <2>4. LiveManaged'
    BY <2>1, <2>2, <2>3 DEF LiveManaged, Live
  <2>5. request'[r] = NoRequest /\ \A q \in Request : q # r => request'[q] = request[q]
    BY <1>1 DEF ManagerInv, TypeOK, Return
  <2>6. \A q \in Request : ~Held(q)' /\ ~Closing(q)'
    BY <1>2, <2>5 DEF Held, Closing, Does, NoRequest
  <2>7. RemovesDone'
    <3> SUFFICES ASSUME NEW q \in Request, request'[q].pc = "remove"
                 PROVE  instance'[request'[q].target].state \notin {"started", "checked", "connected"}
      BY DEF RemovesDone, At, Live
    <3>1. request'[q] = request[q] /\ request[q].pc = "remove"
      BY <2>5 DEF NoRequest
    <3>2. request[q].target \in Instance /\ request[q].target \in 1 .. starts
      BY <3>1, TargetIsInstance DEF ManagerInv, TypeOK, Waiting
    <3>3. request[q].target # starts + 1
      BY <1>1, <3>2
    <3>4. QED
      BY <2>2, <2>3, <3>1, <3>2, <3>3 DEF Live
  <2>8. FenceOwned' /\ FencedTable'
    BY <2>6 DEF FenceOwned, FencedTable
  <2>9. StoppedWhileFenced'
    <3>1. \A q \in Request : ~(At(q, "write")' /\ Does(q, Fencing \cup {"stopAll"})')
      BY <2>6 DEF At, Does, Held, Closing
    <3>2. QED
      BY <3>1 DEF StoppedWhileFenced
  <2>10. QED
    BY <2>4, <2>7, <2>8, <2>9 DEF Fences
<1>5. QED
  BY <1>3, <1>4

\* A step of an instance or of the database starts nothing.
LEMMA OutsideStep ==
    ASSUME ManagerInv, request' = request, accounts' = accounts, stopping' = stopping,
           stoppingAll' = stoppingAll, \A i \in Instance : Live(i)' => Live(i)
    PROVE  Fences'
<1>1. LiveManaged'
  BY DEF ManagerInv, Fences, LiveManaged
<1>2. RemovesDone'
  <2> SUFFICES ASSUME NEW q \in Request, request[q].pc = "remove"
               PROVE  ~Live(request[q].target)' /\ request'[q].target = request[q].target
    BY DEF RemovesDone, At, Live
  <2>1. request[q].target \in Instance
    BY TargetIsInstance DEF ManagerInv, Waiting
  <2>2. ~Live(request[q].target)
    BY DEF ManagerInv, Fences, RemovesDone, At
  <2>3. request'[q].target \in Instance /\ ~Live(request'[q].target)
    BY <2>1, <2>2
  <2>4. QED
    BY <2>1, <2>3 DEF Live
<1>3. \A q \in Request : (Held(q)' <=> Held(q)) /\ (Closing(q)' <=> Closing(q))
  BY DEF Held, Closing, Does
<1>4. FenceOwned'
  BY <1>3 DEF ManagerInv, Fences, FenceOwned
<1>5. FencedTable'
  BY <1>3 DEF ManagerInv, Fences, FencedTable
<1>6. StoppedWhileFenced'
  BY DEF ManagerInv, Fences, StoppedWhileFenced, At, Does
<1>7. QED
  BY <1>1, <1>2, <1>4, <1>5, <1>6 DEF Fences

\* A request that is under way goes on without touching table and fences.
LEMMA GoOnStep ==
    ASSUME ManagerInv, NEW r \in Request, NEW pc \in Pc, Goto(r, pc),
           accounts' = accounts, stopping' = stopping, stoppingAll' = stoppingAll,
           \A i \in Instance : Live(i)' => Live(i),
           request[r].pc \notin {"idle", "lock"},
           pc \in Waiting => request[r].pc \in Waiting,
           pc = "remove" => ~Live(request[r].target),
           pc = "write" /\ Does(r, Fencing \cup {"stopAll"}) => \A i \in Instance : ~Live(i)
    PROVE  Fences'
<1> DEFINE record == [request[r] EXCEPT !.pc = pc]
<1>1. request[r] \in RequestRecord
  BY DEF ManagerInv, TypeOK
<1>2. /\ record.pc = pc /\ record.op = request[r].op /\ record.target = request[r].target
      /\ request' = [request EXCEPT ![r] = record]
  BY <1>1 DEF Goto, RequestRecord
<1>3. record.op \in Fencing /\ record.pc \notin {"idle", "lock"} => Held(r)
  BY <1>2 DEF Held, Does
<1>4. record.op = "stopAll" => Closing(r)
  BY <1>2 DEF Closing, Does
<1>5. record.pc \in Waiting => request[r].pc \in Waiting /\ record.target = request[r].target
  BY <1>2
<1>6. record.pc = "remove" => ~Live(record.target)
  BY <1>2
<1>7. record.pc = "write" /\ record.op \in Fencing \cup {"stopAll"} => \A i \in Instance : ~Live(i)
  BY <1>2 DEF Does
<1> HIDE DEF record
<1>8. QED
  BY <1>2, <1>3, <1>4, <1>5, <1>6, <1>7, QuietStep

\* The instance in the table becomes the one a request waits for.
LEMMA JoinStep ==
    ASSUME ManagerInv, NEW r \in Request, StopContext(r), accounts # 0
    PROVE  Fences'
<1> DEFINE record == [request[r] EXCEPT !.pc = "join", !.target = accounts]
<1>1. request[r] \in RequestRecord /\ accounts \in Instance
      /\ instance \in [Instance -> InstanceRecord]
  BY ManagerBounds DEF ManagerInv, TypeOK, Instance
<1>2. /\ record.pc = "join" /\ record.op = request[r].op /\ record.target = accounts
      /\ request' = [request EXCEPT ![r] = record] /\ request[r].pc = "stop"
  BY <1>1 DEF StopContext, RequestRecord, At
<1> HIDE DEF record
<1>3. accounts' = accounts /\ stopping' = stopping /\ stoppingAll' = stoppingAll
  BY DEF StopContext, manager
<1>4. \A i \in Instance : instance'[i].state = instance[i].state
  BY <1>1 DEF StopContext, InstanceRecord
<1>5. \A i \in Instance : Live(i)' <=> Live(i)
  BY <1>4 DEF Live
<1>6. request'[r] = record /\ \A q \in Request : q # r => request'[q] = request[q]
  BY <1>2 DEF ManagerInv, TypeOK
<1>7. \A q \in Request : (Held(q)' <=> Held(q)) /\ (Closing(q)' <=> Closing(q))
  BY <1>2, <1>6 DEF Held, Closing, Does
<1>8. LiveManaged'
  BY <1>3, <1>5 DEF ManagerInv, Fences, LiveManaged
<1>9. RemovesDone'
  <2> SUFFICES ASSUME NEW q \in Request, request'[q].pc = "remove"
               PROVE  ~Live(request[q].target)' /\ request'[q] = request[q]
    BY DEF RemovesDone, At, Live
  <2>1. request'[q] = request[q] /\ request[q].pc = "remove"
    BY <1>2, <1>6
  <2>2. request[q].target \in Instance
    BY <2>1, TargetIsInstance DEF ManagerInv, Waiting
  <2>3. ~Live(request[q].target)
    BY <2>1 DEF ManagerInv, Fences, RemovesDone, At
  <2>4. request'[q].target \in Instance /\ ~Live(request'[q].target)
    BY <2>1, <2>2, <2>3
  <2>5. QED
    BY <1>4, <2>1, <2>2, <2>3 DEF Live
<1>10. FenceOwned'
  BY <1>3, <1>7 DEF ManagerInv, Fences, FenceOwned
<1>11. FencedTable'
  BY <1>2, <1>3, <1>6, <1>7 DEF ManagerInv, Fences, FencedTable
<1>12. StoppedWhileFenced'
  BY <1>2, <1>5, <1>6 DEF ManagerInv, Fences, StoppedWhileFenced, At, Does
<1>13. QED
  BY <1>8, <1>9, <1>10, <1>11, <1>12 DEF Fences

\* A request that holds a fence leaves the table empty.
LEMMA RemoveStep ==
    ASSUME ManagerInv, NEW r \in Request, RemoveStopped(r)
    PROVE  Fences'
<1>1. /\ request[r].pc = "remove" /\ request[r] \in RequestRecord
      /\ request[r].target \in Instance /\ ~Live(request[r].target)
  BY TargetIsInstance DEF RemoveStopped, At, ManagerInv, TypeOK, Fences, RemovesDone, Waiting
<1>2. /\ instance' = instance /\ stopping' = stopping /\ stoppingAll' = stoppingAll
      /\ accounts' = (IF accounts = request[r].target THEN 0 ELSE accounts)
  BY DEF RemoveStopped, instances
<1>3. /\ request'[r] = [request[r] EXCEPT !.pc = AfterStop(r)]
      /\ \A q \in Request : q # r => request'[q] = request[q]
  BY DEF RemoveStopped, Goto, ManagerInv, TypeOK
<1>4. request'[r].pc \in {"read", "write"} /\ request'[r].op = request[r].op
  BY <1>1, <1>3 DEF AfterStop, RequestRecord
<1>5. \A i \in Instance : Live(i)' <=> Live(i)
  BY <1>2 DEF Live
<1>6. LiveManaged'
  BY <1>1, <1>2, <1>5 DEF ManagerInv, Fences, LiveManaged
<1>7. \A q \in Request : (Held(q)' <=> Held(q)) /\ (Closing(q)' <=> Closing(q))
  BY <1>1, <1>3, <1>4 DEF Held, Closing, Does
<1>8. \A q \in Request : request'[q].pc \in Waiting => request'[q] = request[q]
  BY <1>3, <1>4 DEF Waiting
<1>9. RemovesDone'
  BY <1>2, <1>8 DEF ManagerInv, Fences, RemovesDone, At, Live, Waiting
<1>10. FenceOwned'
  BY <1>2, <1>7 DEF ManagerInv, Fences, FenceOwned
<1>11. FencedTable'
  BY <1>2, <1>7, <1>8 DEF ManagerInv, Fences, FencedTable
<1>12. StoppedWhileFenced'
  <2> SUFFICES ASSUME NEW q \in Request, request'[q].pc = "write",
                      request'[q].op \in Fencing \cup {"stopAll"}, NEW i \in Instance
               PROVE  ~Live(i)'
    BY DEF StoppedWhileFenced, At, Does
  <2>1. CASE q = r
    <3>1. Held(r) \/ Closing(r)
      BY <1>1, <1>4, <2>1 DEF Held, Closing, Does
    <3>2. accounts \in {0, request[r].target}
      BY <1>1, <3>1 DEF ManagerInv, Fences, FencedTable, Waiting
    <3>3. accounts' = 0 /\ i # 0
      BY <1>2, <3>2 DEF Instance
    <3>4. QED
      BY <1>6, <3>3 DEF LiveManaged
  <2>2. CASE q # r
    <3>1. ~Live(i)
      BY <1>3, <2>2 DEF ManagerInv, Fences, StoppedWhileFenced, At, Does
    <3>2. QED
      BY <1>5, <3>1
  <2>3. QED
    BY <2>1, <2>2
<1>13. QED
  BY <1>6, <1>9, <1>10, <1>11, <1>12 DEF Fences

LEMMA FencesInit == Init => Fences
<1> SUFFICES ASSUME Init PROVE Fences
  OBVIOUS
<1>1. \A r \in Request : request[r].op = "none" /\ request[r].pc = "idle"
  BY DEF Init, NoRequest
<1>2. \A i \in Instance : ~Live(i)
  BY DEF Init, Live, NoInstance
<1>3. QED
  BY <1>1, <1>2
  DEF Fences, LiveManaged, RemovesDone, FenceOwned, FencedTable, StoppedWhileFenced, Held,
      Closing, At, Does, Fencing, Waiting

LEMMA CallRecord ==
    ASSUME NEW r \in Request, NEW op, NEW pc, Call(r, op, pc)
    PROVE  \E record : /\ request' = [request EXCEPT ![r] = record]
                       /\ record.op = op /\ record.pc = pc
<1> DEFINE record == [NoRequest EXCEPT !.op = op, !.pc = pc, !.since = cookie]
<1>1. record.op = op /\ record.pc = pc
  BY DEF NoRequest
<1>2. request' = [request EXCEPT ![r] = record]
  BY DEF Call
<1> HIDE DEF record
<1>3. QED
  BY <1>1, <1>2

\* Calls: a restart and a deletion of the user raise no fence, the others do.
LEMMA FencesArrive ==
    ASSUME ManagerInv, NEW r \in Request, Arrive(r)
    PROVE  Fences'
<1>1. CASE StartAll(r) \/ Restart(r) \/ RequestTransition(r) \/ DeleteUser(r)
  <2>1. PICK record : /\ request' = [request EXCEPT ![r] = record]
                      /\ \/ record.op \in {"startAll", "restart", "deleteUser"}
                         \/ record.pc = "lock" /\ record.op \in Transition
                      /\ record.pc \in {"start", "stop", "lock"}
    <3>1. CASE StartAll(r)
      <4> DEFINE called == [NoRequest EXCEPT !.op = "startAll", !.pc = "start", !.value = cookie]
      <4>1. called.op = "startAll" /\ called.pc = "start"
        BY DEF NoRequest
      <4>2. request' = [request EXCEPT ![r] = called]
        BY <3>1 DEF StartAll
      <4> HIDE DEF called
      <4>3. QED
        BY <4>1, <4>2
    <3>2. CASE Restart(r)
      <4>1. Call(r, "restart", "stop")
        BY <3>2 DEF Restart
      <4>2. QED
        BY <4>1, CallRecord
    <3>3. CASE RequestTransition(r)
      <4>1. PICK op \in Transition : Call(r, op, "lock")
        BY <3>3 DEF RequestTransition
      <4>2. QED
        BY <4>1, CallRecord
    <3>4. CASE DeleteUser(r)
      <4>1. Call(r, "deleteUser", "stop")
        BY <3>4 DEF DeleteUser
      <4>2. QED
        BY <4>1, CallRecord
    <3>5. QED
      BY <1>1, <3>1, <3>2, <3>3, <3>4
  <2>2. /\ accounts' = accounts /\ stopping' = stopping /\ stoppingAll' = stoppingAll
        /\ \A i \in Instance : Live(i)' => Live(i)
    BY <1>1 DEF StartAll, Restart, RequestTransition, DeleteUser, manager, instances, Live
  <2>3. /\ record.pc \notin Waiting \cup {"write", "remove"}
        /\ ~(record.op \in Fencing /\ record.pc \notin {"idle", "lock"})
        /\ record.op # "stopAll"
    BY <2>1 DEF Waiting, Fencing, Transition
  <2>4. QED
    BY <2>1, <2>2, <2>3, QuietStep DEF Waiting
<1>2. CASE Delete(r) \/ StopAll(r)
  <2>1. PICK record : /\ request' = [request EXCEPT ![r] = record] /\ record.pc = "stop"
                      /\ \/ /\ record.op = "delete" /\ ~stopping /\ stopping' = TRUE
                            /\ stoppingAll' = stoppingAll
                         \/ /\ record.op = "stopAll" /\ stoppingAll' = TRUE
                            /\ stopping' = stopping /\ \A q \in Request : ~Closing(q)
    <3>1. CASE Delete(r)
      <4>1. /\ Call(r, "delete", "stop")
            /\ ~stopping /\ stopping' = TRUE /\ stoppingAll' = stoppingAll
        BY <3>1 DEF Delete
      <4>2. PICK record : /\ request' = [request EXCEPT ![r] = record]
                          /\ record.op = "delete" /\ record.pc = "stop"
        BY <4>1, CallRecord
      <4>3. QED
        BY <4>1, <4>2
    <3>2. CASE StopAll(r)
      <4>1. /\ Call(r, "stopAll", "stop")
            /\ stoppingAll' = TRUE /\ stopping' = stopping /\ \A q \in Request : ~Closing(q)
        BY <3>2 DEF StopAll, Closing
      <4>2. PICK record : /\ request' = [request EXCEPT ![r] = record]
                          /\ record.op = "stopAll" /\ record.pc = "stop"
        BY <4>1, CallRecord
      <4>3. QED
        BY <4>1, <4>2
    <3>3. QED
      BY <1>2, <3>1, <3>2
  <2>2. accounts' = accounts /\ \A i \in Instance : Live(i)' <=> Live(i)
    BY <1>2 DEF Delete, StopAll, instances, Live
  <2>3. QED
    BY <2>1, <2>2, RaiseStep DEF Fencing
<1>3. QED
  BY <1>1, <1>2 DEF Arrive

LEMMA FencesLock ==
    ASSUME ManagerInv, NEW r \in Request, Lock(r)
    PROVE  Fences'
<1> DEFINE record == [request[r] EXCEPT !.pc = "stop", !.since = cookie]
<1>1. request[r] \in RequestRecord
  BY DEF ManagerInv, TypeOK
<1>2. /\ record.pc = "stop" /\ record.op = request[r].op
      /\ request' = [request EXCEPT ![r] = record]
  BY <1>1 DEF Lock, RequestRecord
<1> HIDE DEF record
<1>3. /\ accounts' = accounts /\ stoppingAll' = stoppingAll
      /\ \A i \in Instance : Live(i)' <=> Live(i)
  BY DEF Lock, instances, Live
<1>4. CASE Does(r, {"enable", "update"}) /\ stopping' = stopping
  <2>1. record.op \notin Fencing /\ record.op # "stopAll" /\ record.pc \notin Waiting
        /\ record.pc # "remove" /\ record.pc # "write"
    BY <1>2, <1>4 DEF Does, Fencing, Waiting
  <2>2. QED
    BY <1>2, <1>3, <1>4, <2>1, QuietStep
<1>5. CASE Does(r, {"disable"}) /\ ~stopping /\ stopping' = TRUE
  <2>1. record.op \in Fencing
    BY <1>2, <1>5 DEF Does, Fencing
  <2>2. QED
    BY <1>2, <1>3, <1>5, <2>1, RaiseStep
<1>6. QED
  BY <1>4, <1>5 DEF Lock, Does

\* A request that ends lifts the fence it holds and no other.
LEMMA ReleaseStep ==
    ASSUME ManagerInv, NEW r \in Request, Release(r), request[r].pc \notin {"idle", "lock"},
           accounts' = accounts, (stoppingAll' = stoppingAll) \/ Closing(r),
           \A i \in Instance : Live(i)' <=> Live(i)
    PROVE  Fences'
<1>1. (stopping' = stopping) \/ Held(r)
  BY DEF Release, Held
<1>2. Return(r)
  BY DEF Release
<1>3. QED
  BY <1>1, <1>2, EndStep

LEMMA FencesFail ==
    ASSUME ManagerInv, NEW r \in Request, Fail(r), request[r].pc \notin {"idle", "lock"}
    PROVE  Fences'
<1>1. /\ accounts' = accounts /\ stoppingAll' = stoppingAll
      /\ \A i \in Instance : Live(i)' <=> Live(i)
  BY DEF Fail, instances, Live
<1>2. CASE Does(r, {"enable", "update"})
  <2>1. Goto(r, "compensate") /\ stopping' = stopping
    BY <1>2 DEF Fail
  <2>2. "compensate" \in Pc /\ "compensate" \notin Waiting
    BY DEF Pc, Waiting
  <2>3. QED
    BY <1>1, <2>1, <2>2, GoOnStep
<1>3. CASE ~Does(r, {"enable", "update"})
  BY <1>1, <1>3, ReleaseStep DEF Fail
<1>4. QED
  BY <1>2, <1>3

LEMMA FencesStop ==
    ASSUME ManagerInv, NEW r \in Request,
           StopContext(r) \/ JoinInstance(r) \/ AwaitDone(r) \/ ReadCookie(r)
    PROVE  Fences'
<1>1. CASE StopContext(r) /\ accounts = 0
  <2>1. /\ request[r].pc = "stop" /\ Goto(r, AfterStop(r)) /\ AfterStop(r) \in {"read", "write"}
        /\ accounts' = accounts /\ stopping' = stopping /\ stoppingAll' = stoppingAll
    BY <1>1 DEF StopContext, At, AfterStop, manager
  <2>2. \A i \in Instance : ~Live(i)
    BY <1>1 DEF ManagerInv, Fences, LiveManaged, Instance
  <2>3. \A i \in Instance : Live(i)' => Live(i)
    BY <1>1 DEF StopContext, Live
  <2>4. AfterStop(r) \in Pc /\ AfterStop(r) \notin Waiting /\ AfterStop(r) # "remove"
    BY <2>1 DEF Pc, Waiting
  <2>5. QED
    BY <2>1, <2>2, <2>3, <2>4, GoOnStep
<1>2. CASE StopContext(r) /\ accounts # 0
  BY <1>2, JoinStep
<1>3. CASE JoinInstance(r)
  <2>1. /\ request[r].pc = "join" /\ Goto(r, "await")
        /\ accounts' = accounts /\ stopping' = stopping /\ stoppingAll' = stoppingAll
    BY <1>3 DEF JoinInstance, At, manager
  <2>2. request[r].target \in Instance /\ instance \in [Instance -> InstanceRecord]
    BY <2>1, TargetIsInstance DEF Waiting, ManagerInv, TypeOK
  <2>3. \A i \in Instance : instance'[i].state = instance[i].state
    BY <1>3, <2>2 DEF JoinInstance, InstanceRecord
  <2>4. \A i \in Instance : Live(i)' => Live(i)
    BY <2>3 DEF Live
  <2>5. "await" \in Pc /\ request[r].pc \in Waiting
    BY <2>1 DEF Pc, Waiting
  <2>6. QED
    BY <2>1, <2>4, <2>5, GoOnStep
<1>4. CASE AwaitDone(r)
  <2>1. /\ request[r].pc = "await" /\ Goto(r, "remove") /\ ~Live(request[r].target)
        /\ accounts' = accounts /\ stopping' = stopping /\ stoppingAll' = stoppingAll
        /\ \A i \in Instance : Live(i)' => Live(i)
    BY <1>4 DEF AwaitDone, At, manager, instances, Live
  <2>2. "remove" \in Pc /\ request[r].pc \in Waiting
    BY <2>1 DEF Pc, Waiting
  <2>3. QED
    BY <2>1, <2>2, GoOnStep
<1>5. CASE ReadCookie(r)
  <2> DEFINE record == [request[r] EXCEPT !.pc = "start", !.value = cookie]
  <2>1. request[r] \in RequestRecord
    BY DEF ManagerInv, TypeOK
  <2>2. /\ record.pc = "start" /\ record.op = request[r].op /\ request[r].pc = "read"
        /\ request' = [request EXCEPT ![r] = record]
    BY <1>5, <2>1 DEF ReadCookie, RequestRecord, At
  <2>3. /\ accounts' = accounts /\ stopping' = stopping /\ stoppingAll' = stoppingAll
        /\ \A i \in Instance : Live(i)' => Live(i)
    BY <1>5 DEF ReadCookie, manager, instances, Live
  <2> HIDE DEF record
  <2>4. /\ record.op \in Fencing => Held(r)
        /\ record.op = "stopAll" => Closing(r)
        /\ record.pc \notin Waiting /\ record.pc # "remove" /\ record.pc # "write"
    BY <2>2 DEF Held, Closing, Does, Waiting
  <2>5. QED
    BY <2>2, <2>3, <2>4, QuietStep
<1>6. QED
  BY <1>1, <1>2, <1>3, <1>4, <1>5

LEMMA FencesProceed ==
    ASSUME ManagerInv, NEW r \in Request, Proceed(r)
    PROVE  Fences'
<1>1. CASE Lock(r)
  BY <1>1, FencesLock
<1>2. CASE LockInVain(r)
  <2>1. /\ accounts' = accounts /\ stopping' = stopping /\ stoppingAll' = stoppingAll
        /\ \A i \in Instance : Live(i)' <=> Live(i)
    BY <1>2 DEF LockInVain, manager, instances, Live
  <2>2. Return(r)
    BY <1>2 DEF LockInVain
  <2>3. QED
    BY <2>1, <2>2, EndStep
<1>3. CASE StopContext(r) \/ JoinInstance(r) \/ AwaitDone(r) \/ ReadCookie(r)
  BY <1>3, FencesStop
<1>4. CASE RemoveStopped(r)
  BY <1>4, RemoveStep
<1>5. CASE Start(r)
  BY <1>5, StartStep
<1>6. CASE StartRefused(r)
  <2>1. request[r].pc \notin {"idle", "lock"} /\ Fail(r)
    BY <1>6 DEF StartRefused, At
  <2>2. QED
    BY <2>1, FencesFail
<1>7. CASE Compensate(r)
  <2>1. /\ request[r].pc \notin {"idle", "lock"} /\ Release(r)
        /\ accounts' = accounts /\ stoppingAll' = stoppingAll
        /\ \A i \in Instance : Live(i)' <=> Live(i)
    BY <1>7 DEF Compensate, At, instances, Live
  <2>2. QED
    BY <2>1, ReleaseStep
<1>8. CASE WriteOutcome(r)
  <2>1. /\ request[r].pc \notin {"idle", "lock"} /\ Release(r)
        /\ accounts' = accounts /\ ((stoppingAll' = stoppingAll) \/ Closing(r))
        /\ \A i \in Instance : Live(i)' <=> Live(i)
    BY <1>8 DEF WriteOutcome, At, instances, Live, Closing
  <2>2. QED
    BY <2>1, ReleaseStep
<1>9. QED
  BY <1>1, <1>2, <1>3, <1>4, <1>5, <1>6, <1>7, <1>8 DEF Proceed

\* Only instances that are live go on.
LEMMA FencesRun ==
    ASSUME ManagerInv, NEW i \in Instance, Run(i)
    PROVE  Fences'
<1>1. instance \in [Instance -> InstanceRecord]
  BY DEF ManagerInv, TypeOK
<1>2. Live(i) /\ \A j \in Instance : j # i => instance'[j].state = instance[j].state
  BY <1>1 DEF Run, CheckStatus, Connect, Reconnect, Exit, Becomes, Live
<1>3. \A j \in Instance : Live(j)' => Live(j)
  BY <1>2 DEF Live
<1>4. request' = request /\ accounts' = accounts /\ stopping' = stopping
      /\ stoppingAll' = stoppingAll
  BY DEF Run, CheckStatus, Connect, Reconnect, Exit, RestUnchanged, manager
<1>5. QED
  BY <1>3, <1>4, OutsideStep

LEMMA FencesNext == ManagerInv /\ [Next]_vars => Fences'
<1> SUFFICES ASSUME ManagerInv, [Next]_vars PROVE Fences'
  OBVIOUS
<1>1. ASSUME NEW r \in Request, Arrive(r) PROVE Fences'
  BY <1>1, FencesArrive
<1>2. ASSUME NEW r \in Request, Proceed(r) PROVE Fences'
  BY <1>2, FencesProceed
<1>3. ASSUME NEW r \in Request, Disturb(r) PROVE Fences'
  <2>1. Fail(r) /\ request[r].pc \notin {"idle", "lock"}
    BY <1>3 DEF Disturb, StopTimesOut, ReadFails, At
  <2>2. QED
    BY <2>1, FencesFail
<1>4. ASSUME NEW i \in Instance, Run(i) PROVE Fences'
  BY <1>4, FencesRun
<1>5. CASE SaveCookie \/ UNCHANGED vars
  <2>1. /\ request' = request /\ accounts' = accounts /\ stopping' = stopping
        /\ stoppingAll' = stoppingAll /\ instance' = instance
    BY <1>5 DEF SaveCookie, vars, manager, instances
  <2>2. \A i \in Instance : Live(i)' => Live(i)
    BY <2>1 DEF Live
  <2>3. QED
    BY <2>1, <2>2, OutsideStep
<1>6. QED
  BY <1>1, <1>2, <1>3, <1>4, <1>5 DEF Next

\* The fences, their owners, the table and the live instances fit together
\* in every reachable state of the manager.
THEOREM Fenced == Spec => []ManagerInv
<1>1. Init => ManagerInv
  BY TypeInit, FencesInit DEF ManagerInv
<1>2. ManagerInv /\ [Next]_vars => ManagerInv'
  BY TypeNext, FencesNext DEF ManagerInv
<1>3. QED
  BY <1>1, <1>2, PTL DEF Spec

\* However many requests overlap, Manager.Start leaves at most one instance
\* of the account running, and it is the one the table can stop.
THEOREM OneInstance == Spec => []LiveManaged
<1>1. ManagerInv => LiveManaged
  BY DEF ManagerInv, Fences
<1>2. QED
  BY <1>1, Fenced, PTL

\* A disable, a deletion or a shutdown writes its outcome while no instance
\* of the account runs, whoever restarts the account in the meantime.
THEOREM StoppedBehindFence == Spec => []StoppedWhileFenced
<1>1. ManagerInv => StoppedWhileFenced
  BY DEF ManagerInv, Fences
<1>2. QED
  BY <1>1, Fenced, PTL


-----------------------------------------------------------------------------
(* What is written down stays true: DownIsDown                             *)

Up(i) == instance[i].state \in {"checked", "connected"}

\* Only CheckStatus and Connect make an instance more than started, and both
\* look at the status.
LEMMA UpOnlyEnabled ==
    ASSUME ManagerInv, DownIsDown, [Next]_vars, NEW i \in Instance, Up(i)', ~Up(i)
    PROVE  status = "enabled" /\ status' = status
<1>1. instance \in [Instance -> InstanceRecord] /\ accounts \in 0 .. starts /\ starts \in Nat
  BY ManagerBounds DEF ManagerInv, TypeOK
<1>2. ASSUME NEW r \in Request, Arrive(r) \/ Disturb(r) PROVE instance' = instance
  BY <1>2 DEF Arrive, StartAll, Restart, RequestTransition, Delete, DeleteUser, StopAll, Disturb,
     StopTimesOut, ReadFails, Fail, instances
<1>3. ASSUME NEW r \in Request, Proceed(r) PROVE Up(i)' => Up(i)
  <2>1. CASE StopContext(r) /\ accounts # 0
    <3>1. accounts \in Instance
      BY <1>1, <2>1, ManagerBounds DEF Instance, ManagerInv, TypeOK
    <3>2. instance'[i].state = instance[i].state
      BY <1>1, <2>1, <3>1 DEF StopContext, InstanceRecord
    <3>3. QED
      BY <3>2 DEF Up
  <2>2. CASE JoinInstance(r)
    <3>1. instance'[i].state = instance[i].state
      BY <1>1, <2>2 DEF JoinInstance, InstanceRecord
    <3>2. QED
      BY <3>1 DEF Up
  <2>3. CASE Start(r)
    <3> DEFINE new == [NoInstance EXCEPT !.state = "started", !.cookie = request[r].value]
    <3>1. new.state = "started"
      BY DEF NoInstance
    <3>2. instance' = instance \/ instance' = [instance EXCEPT ![starts + 1] = new]
      BY <2>3 DEF Start, instances
    <3> HIDE DEF new
    <3>3. QED
      BY <1>1, <3>1, <3>2 DEF Up
  <2>4. CASE ~(StopContext(r) /\ accounts # 0) /\ ~JoinInstance(r) /\ ~Start(r)
    <3>1. instance' = instance
      BY <1>3, <2>4 DEF Proceed, Lock, LockInVain, StopContext, AwaitDone, RemoveStopped, ReadCookie,
         StartRefused, Fail, Compensate, WriteOutcome, instances
    <3>2. QED
      BY <3>1 DEF Up
  <2>5. QED
    BY <2>1, <2>2, <2>3, <2>4
<1>4. ASSUME NEW j \in Instance, Run(j)
      PROVE  Up(i)' => Up(i) \/ (status = "enabled" /\ status' = status)
  <2>1. status' = status
    BY <1>4 DEF Run, CheckStatus, Connect, Reconnect, Exit, RestUnchanged, database
  <2>2. CASE j # i
    <3>1. instance'[i] = instance[i]
      BY <1>1, <1>4, <2>2 DEF Run, CheckStatus, Connect, Reconnect, Exit, Becomes
    <3>2. QED
      BY <3>1 DEF Up
  <2>3. CASE j = i /\ CheckStatus(i)
    <3>1. ~MayRun(i) => instance'[i].state = "exited"
      BY <1>1, <2>3 DEF CheckStatus, Becomes
    <3>2. MayRun(i) => status = "enabled"
      BY DEF MayRun
    <3>3. QED
      BY <2>1, <3>1, <3>2 DEF Up
  <2>4. CASE j = i /\ (Connect(i) \/ Reconnect(i))
    BY <2>4 DEF Connect, Reconnect, Up
  <2>5. CASE j = i /\ Exit(i)
    <3>1. instance'[i].state = "exited"
      BY <1>1, <2>5 DEF Exit, Becomes
    <3>2. QED
      BY <3>1 DEF Up
  <2>6. QED
    BY <1>4, <2>2, <2>3, <2>4, <2>5 DEF Run
<1>5. CASE SaveCookie \/ UNCHANGED vars
  <2>1. instance' = instance
    BY <1>5 DEF SaveCookie, vars, instances
  <2>2. QED
    BY <2>1 DEF Up
<1>6. QED
  BY <1>2, <1>3, <1>4, <1>5 DEF Next, Up

\* The account is written down only by a request behind its fence.
LEMMA DownWritten ==
    ASSUME ManagerInv, [Next]_vars, status' \in {"manual", "deleted"},
           status \notin {"manual", "deleted"}
    PROVE  /\ \A i \in Instance : ~Live(i)
           /\ instance' = instance
<1>1. PICK r \in Request : WriteOutcome(r)
  <2>1. ASSUME NEW r \in Request, Arrive(r) \/ Disturb(r) PROVE status' = status
    BY <2>1 DEF Arrive, StartAll, Restart, RequestTransition, Delete, DeleteUser, StopAll, Disturb,
       StopTimesOut, ReadFails, Fail, database
  <2>2. ASSUME NEW r \in Request, Proceed(r), ~WriteOutcome(r)
        PROVE  status' \in {status, "enabled", "runtime_failed"}
    BY <2>2 DEF Proceed, Lock, LockInVain, StopContext, JoinInstance, AwaitDone, RemoveStopped,
       ReadCookie, Start, StartRefused, Fail, Compensate, database
  <2>3. ASSUME NEW i \in Instance, Run(i) PROVE status' = status
    BY <2>3 DEF Run, CheckStatus, Connect, Reconnect, Exit, RestUnchanged, database
  <2>4. SaveCookie \/ UNCHANGED vars => status' = status
    BY DEF SaveCookie, vars, database
  <2>5. QED
    BY <2>1, <2>2, <2>3, <2>4 DEF Next
<1>2. At(r, "write") /\ Does(r, Fencing) /\ instance' = instance
  BY <1>1 DEF WriteOutcome, Written, Does, Fencing, Gone, instances
<1>3. QED
  BY <1>2 DEF ManagerInv, Fences, StoppedWhileFenced, Does

LEMMA DownNext == ManagerInv /\ DownIsDown /\ [Next]_vars => DownIsDown'
<1> SUFFICES ASSUME ManagerInv, DownIsDown, [Next]_vars, status' \in {"manual", "deleted"},
                    NEW i \in Instance
             PROVE  ~Up(i)'
  BY DEF DownIsDown, Up
<1>1. CASE status \in {"manual", "deleted"}
  <2>1. ~Up(i)
    BY <1>1 DEF DownIsDown, Up
  <2>2. QED
    BY <1>1, <2>1, UpOnlyEnabled
<1>2. CASE status \notin {"manual", "deleted"}
  <2>1. ~Live(i) /\ instance' = instance
    BY <1>2, DownWritten
  <2>2. QED
    BY <2>1 DEF Up, Live
<1>3. QED
  BY <1>1, <1>2

\* An account that was disabled or deleted on request has no connection,
\* however late a restart that was decided before starts an instance.
THEOREM DownStaysDown == Spec => []DownIsDown
<1>1. Init => DownIsDown
  BY DEF Init, DownIsDown
<1>2. QED
  BY <1>1, DownNext, Fenced, PTL DEF Spec

-----------------------------------------------------------------------------
(* A restart leaves no old connection: Refreshed                           *)

\* The connection uses a cookie that is older than the version.
Behind(one, version) == one.state = "connected" /\ one.cookie < version

\* From the mark on, only the instance that the restart waits for is behind.
Marked == {"join", "await", "remove", "read", "start"}
OnlyTarget(record, all) ==
    record.op \in Restarting /\ record.pc \in Marked =>
        \A i \in Instance : Behind(all[i], record.since) =>
            record.pc \in {"join", "await"} /\ i = record.target

RestartInv ==
    \A r \in Request : request[r].since <= cookie /\ OnlyTarget(request[r], instance)

\* No connection falls behind a version that the database has left behind.
LEMMA NoneFallsBehind ==
    ASSUME ManagerInv, [Next]_vars
    PROVE  /\ cookie <= cookie'
           /\ \A i \in Instance : \A version \in 0 .. cookie : Behind(instance'[i], version) => Behind(instance[i], version)
<1>1. instance \in [Instance -> InstanceRecord] /\ accounts \in 0 .. starts /\ starts \in Nat
      /\ cookie \in Nat
  BY ManagerBounds DEF ManagerInv, TypeOK
<1>2. CASE instance' = instance /\ cookie <= cookie'
  BY <1>2 DEF Behind
<1>3. ASSUME NEW r \in Request, Arrive(r) \/ Disturb(r) PROVE instance' = instance /\ cookie' = cookie
  BY <1>3 DEF Arrive, StartAll, Restart, RequestTransition, Delete, DeleteUser, StopAll, Disturb,
     StopTimesOut, ReadFails, Fail, instances, database
<1>4. SaveCookie \/ UNCHANGED vars => instance' = instance /\ cookie <= cookie'
  BY <1>1 DEF SaveCookie, vars, instances, database
<1>5. ASSUME NEW r \in Request, Proceed(r)
      PROVE  /\ cookie' = cookie
             /\ \A i \in Instance : \A version \in 0 .. cookie : Behind(instance'[i], version) => Behind(instance[i], version)
  <2>1. cookie' = cookie
    BY <1>5 DEF Proceed, Lock, LockInVain, StopContext, JoinInstance, AwaitDone, RemoveStopped,
       ReadCookie, Start, StartRefused, Fail, Compensate, WriteOutcome, database
  <2>2. CASE StopContext(r) /\ accounts # 0
    <3>1. accounts \in Instance
      BY <1>1, <2>2, ManagerBounds DEF Instance, ManagerInv, TypeOK
    <3>2. \A i \in Instance : instance'[i].state = instance[i].state
                              /\ instance'[i].cookie = instance[i].cookie
      BY <1>1, <2>2, <3>1 DEF StopContext, InstanceRecord
    <3>3. QED
      BY <2>1, <3>2 DEF Behind
  <2>3. CASE JoinInstance(r)
    <3>1. \A i \in Instance : instance'[i].state = instance[i].state
                              /\ instance'[i].cookie = instance[i].cookie
      BY <1>1, <2>3 DEF JoinInstance, InstanceRecord
    <3>2. QED
      BY <2>1, <3>1 DEF Behind
  <2>4. CASE Start(r)
    <3> DEFINE new == [NoInstance EXCEPT !.state = "started", !.cookie = request[r].value]
    <3>1. new.state = "started"
      BY DEF NoInstance
    <3>2. instance' = instance \/ instance' = [instance EXCEPT ![starts + 1] = new]
      BY <2>4 DEF Start, instances
    <3> HIDE DEF new
    <3>3. QED
      BY <1>1, <2>1, <3>1, <3>2 DEF Behind
  <2>5. CASE ~(StopContext(r) /\ accounts # 0) /\ ~JoinInstance(r) /\ ~Start(r)
    <3>1. instance' = instance
      BY <1>5, <2>5 DEF Proceed, Lock, LockInVain, StopContext, AwaitDone, RemoveStopped, ReadCookie,
         StartRefused, Fail, Compensate, WriteOutcome, instances
    <3>2. QED
      BY <2>1, <3>1 DEF Behind
  <2>6. QED
    BY <2>2, <2>3, <2>4, <2>5, <2>1
<1>6. ASSUME NEW j \in Instance, Run(j)
      PROVE  /\ cookie' = cookie
             /\ \A i \in Instance : \A version \in 0 .. cookie : Behind(instance'[i], version) => Behind(instance[i], version)
  <2>1. cookie' = cookie
    BY <1>6 DEF Run, CheckStatus, Connect, Reconnect, Exit, RestUnchanged, database
  <2>2. \A i \in Instance : i # j => instance'[i] = instance[i]
    BY <1>1, <1>6 DEF Run, CheckStatus, Connect, Reconnect, Exit, Becomes
  <2>3. instance'[j].state # "connected" \/ instance'[j].cookie = cookie
    <3>1. CASE Connect(j)
      <4>1. instance[j] \in InstanceRecord
        BY <1>1
      <4>2. CASE status \in Gone
        BY <1>1, <3>1, <4>1, <4>2 DEF Connect, InstanceRecord
      <4>3. CASE status \notin Gone
        BY <1>1, <3>1, <4>1, <4>3 DEF Connect, InstanceRecord
      <4>4. QED
        BY <4>2, <4>3
    <3>2. CASE CheckStatus(j) \/ Reconnect(j) \/ Exit(j)
      <4>1. PICK state \in {"checked", "exited", "started"} : Becomes(j, state)
        BY <3>2 DEF CheckStatus, Reconnect, Exit
      <4>2. instance'[j].state = state
        BY <1>1, <4>1 DEF Becomes, InstanceRecord
      <4>3. QED
        BY <4>2
    <3>3. QED
      BY <1>6, <3>1, <3>2 DEF Run
  <2>4. QED
    BY <1>1, <2>1, <2>2, <2>3 DEF Behind
<1>7. QED
  BY <1>1, <1>2, <1>3, <1>4, <1>5, <1>6 DEF Next

\* One request gets a record, the others stay what they are.
LEMMA RestartStep ==
    ASSUME ManagerInv, RestartInv, [Next]_vars, NEW r \in Request, NEW record,
           request' = [request EXCEPT ![r] = record],
           record.since \in 0 .. cookie, OnlyTarget(record, instance')
    PROVE  RestartInv'
<1>1. request \in [Request -> RequestRecord] /\ cookie \in Nat
  BY ManagerBounds DEF ManagerInv, TypeOK
<1>2. cookie' \in Nat /\ cookie <= cookie'
  <2>1. cookie' \in Nat
    BY TypeNext, ManagerBounds DEF ManagerInv, TypeOK
  <2>2. QED
    BY <2>1, NoneFallsBehind
<1>3. ASSUME NEW q \in Request
      PROVE  request'[q].since <= cookie' /\ OnlyTarget(request'[q], instance')
  <2>1. CASE q = r
    <3>1. request'[q] = record
      BY <1>1, <2>1
    <3>2. record.since <= cookie'
      BY <1>1, <1>2
    <3>3. QED
      BY <3>1, <3>2
  <2>2. CASE q # r
    <3>1. request'[q] = request[q] /\ request[q] \in RequestRecord
      BY <1>1, <2>2
    <3>2. request[q].since \in 0 .. cookie /\ OnlyTarget(request[q], instance)
      BY <1>1, <3>1, ManagerBounds DEF RestartInv, RequestRecord
    <3>3. \A i \in Instance : Behind(instance'[i], request[q].since) => Behind(instance[i], request[q].since)
      BY <3>2, NoneFallsBehind
    <3>4. OnlyTarget(request[q], instance')
      BY <3>2, <3>3 DEF OnlyTarget
    <3>5. request[q].since <= cookie'
      BY <1>1, <1>2, <3>2
    <3>6. QED
      BY <3>1, <3>4, <3>5
  <2>3. QED
    BY <2>1, <2>2
<1>4. QED
  BY <1>3 DEF RestartInv

\* A request that is not a restart past its mark: nothing is asked of it.
LEMMA UnmarkedStep ==
    ASSUME ManagerInv, RestartInv, [Next]_vars, NEW r \in Request, NEW record,
           request' = [request EXCEPT ![r] = record],
           record.since \in 0 .. cookie, record.op \notin Restarting \/ record.pc \notin Marked
    PROVE  RestartInv'
<1>1. OnlyTarget(record, instance')
  BY DEF OnlyTarget
<1>2. QED
  BY <1>1, RestartStep

\* Nobody's request changes.
LEMMA RestartElsewhere ==
    ASSUME ManagerInv, RestartInv, [Next]_vars, request' = request
    PROVE  RestartInv'
<1>1. request \in [Request -> RequestRecord] /\ cookie \in Nat
  BY ManagerBounds DEF ManagerInv, TypeOK
<1>2. ASSUME NEW r \in Request PROVE RestartInv'
  <2>1. request[r] \in RequestRecord /\ request' = [request EXCEPT ![r] = request[r]]
    BY <1>1
  <2>2. request[r].since \in 0 .. cookie /\ OnlyTarget(request[r], instance)
    BY <1>1, <2>1, ManagerBounds DEF RestartInv, RequestRecord
  <2>3. \A i \in Instance : Behind(instance'[i], request[r].since) => Behind(instance[i], request[r].since)
    BY <2>2, NoneFallsBehind
  <2>4. OnlyTarget(request[r], instance')
    BY <2>2, <2>3 DEF OnlyTarget
  <2>5. QED
    BY <2>1, <2>2, <2>4, RestartStep
<1>3. CASE Request = {}
  BY <1>3 DEF RestartInv
<1>4. QED
  BY <1>2, <1>3

\* A restart keeps its version and the instance it waits for.
LEMMA RestartGoesOn ==
    ASSUME ManagerInv, RestartInv, [Next]_vars, NEW r \in Request, NEW pc \in Pc, Goto(r, pc),
           pc \in Marked =>
             /\ request[r].pc \in Marked
             /\ \/ pc \in {"join", "await"}
                \/ pc = "remove" /\ ~Live(request[r].target)
                \/ request[r].pc \notin {"join", "await"}
    PROVE  RestartInv'
<1> DEFINE record == [request[r] EXCEPT !.pc = pc]
<1>1. request[r] \in RequestRecord /\ cookie \in Nat
  BY ManagerBounds DEF ManagerInv, TypeOK
<1>2. /\ record.op = request[r].op /\ record.pc = pc /\ record.since = request[r].since
      /\ record.target = request[r].target /\ request' = [request EXCEPT ![r] = record]
  BY <1>1 DEF RequestRecord, Goto
<1>3. record.since \in 0 .. cookie /\ OnlyTarget(request[r], instance)
  BY <1>1, <1>2, ManagerBounds DEF RestartInv, RequestRecord
<1>4. \A i \in Instance : Behind(instance'[i], record.since) => Behind(instance[i], record.since)
  BY <1>3, NoneFallsBehind
<1>5. \A i \in Instance : Behind(instance[i], record.since) => Live(i)
  BY DEF Behind, Live
<1> HIDE DEF record
<1>6. ASSUME record.op \in Restarting, record.pc \in Marked, NEW i \in Instance,
             Behind(instance'[i], record.since)
      PROVE  record.pc \in {"join", "await"} /\ i = record.target
  <2>1. /\ request[r].pc \in {"join", "await"} /\ i = request[r].target
        /\ Live(i)
    BY <1>2, <1>3, <1>4, <1>5, <1>6 DEF OnlyTarget
  <2>2. QED
    BY <1>2, <1>6, <2>1
<1>7. OnlyTarget(record, instance')
  BY <1>6 DEF OnlyTarget
<1>8. QED
  BY <1>2, <1>3, <1>7, RestartStep

\* The mark: the live instance, if there is one, is the one in the table.
LEMMA RestartMarks ==
    ASSUME ManagerInv, RestartInv, [Next]_vars, NEW r \in Request, StopContext(r)
    PROVE  RestartInv'
<1>1. /\ request[r] \in RequestRecord /\ cookie \in Nat /\ accounts \in 0 .. MaxStarts
      /\ instance \in [Instance -> InstanceRecord] /\ request[r].pc = "stop"
  BY ManagerBounds DEF ManagerInv, TypeOK, StopContext, At
<1>2. request[r].since \in 0 .. cookie
  BY <1>1, ManagerBounds DEF RestartInv, RequestRecord
<1>3. \A i \in Instance : Behind(instance'[i], request[r].since) => i = accounts
  <2>1. \A i \in Instance : Behind(instance'[i], request[r].since) => Behind(instance[i], request[r].since)
    BY <1>2, NoneFallsBehind
  <2>2. \A i \in Instance : Live(i) => accounts = i
    BY DEF ManagerInv, Fences, LiveManaged
  <2>3. QED
    BY <2>1, <2>2 DEF Behind, Live
<1>4. CASE accounts = 0
  <2> DEFINE record == [request[r] EXCEPT !.pc = AfterStop(r)]
  <2>1. record.since = request[r].since /\ request' = [request EXCEPT ![r] = record]
    BY <1>1, <1>4 DEF StopContext, Goto, RequestRecord
  <2> HIDE DEF record
  <2>2. \A i \in Instance : ~Behind(instance'[i], record.since)
    BY <1>3, <1>4, <2>1 DEF Instance
  <2>3. OnlyTarget(record, instance')
    BY <2>2 DEF OnlyTarget
  <2>4. QED
    BY <1>2, <2>1, <2>3, RestartStep
<1>5. CASE accounts # 0
  <2> DEFINE record == [request[r] EXCEPT !.pc = "join", !.target = accounts]
  <2>1. /\ record.since = request[r].since /\ record.target = accounts /\ record.pc = "join"
        /\ request' = [request EXCEPT ![r] = record]
    BY <1>1, <1>5 DEF StopContext, RequestRecord
  <2> HIDE DEF record
  <2>2. OnlyTarget(record, instance')
    BY <1>3, <2>1 DEF OnlyTarget
  <2>3. QED
    BY <1>2, <2>1, <2>2, RestartStep
<1>6. QED
  BY <1>4, <1>5

LEMMA RestartReturns ==
    ASSUME ManagerInv, RestartInv, [Next]_vars, NEW r \in Request, Return(r)
    PROVE  RestartInv'
<1> DEFINE record == NoRequest
<1>1. cookie \in Nat
  BY ManagerBounds DEF ManagerInv, TypeOK
<1>2. record.since = 0 /\ record.op = "none"
  BY DEF NoRequest
<1>3. request' = [request EXCEPT ![r] = record]
  BY DEF Return
<1> HIDE DEF record
<1>4. record.since \in 0 .. cookie /\ record.op \notin Restarting
  BY <1>1, <1>2 DEF Restarting
<1>5. QED
  BY <1>3, <1>4, UnmarkedStep

LEMMA RestartFails ==
    ASSUME ManagerInv, RestartInv, [Next]_vars, NEW r \in Request, Fail(r)
    PROVE  RestartInv'
<1>1. "compensate" \in Pc /\ "compensate" \notin Marked
  BY DEF Pc, Marked
<1>2. CASE Goto(r, "compensate")
  BY <1>1, <1>2, RestartGoesOn
<1>3. CASE Return(r)
  BY <1>3, RestartReturns
<1>4. QED
  BY <1>2, <1>3 DEF Fail, Release

LEMMA RestartArrives ==
    ASSUME ManagerInv, RestartInv, [Next]_vars, NEW r \in Request, Arrive(r)
    PROVE  RestartInv'
<1>1. cookie \in Nat
  BY ManagerBounds DEF ManagerInv, TypeOK
<1>2. CASE StartAll(r)
  <2> DEFINE record == [NoRequest EXCEPT !.op = "startAll", !.pc = "start", !.value = cookie]
  <2>1. /\ record.op = "startAll" /\ record.since = 0
        /\ request' = [request EXCEPT ![r] = record]
    BY <1>2 DEF StartAll, NoRequest
  <2> HIDE DEF record
  <2>2. record.op \notin Restarting /\ record.since \in 0 .. cookie
    BY <1>1, <2>1 DEF Restarting
  <2>3. QED
    BY <2>1, <2>2, UnmarkedStep
<1>3. ASSUME NEW op, NEW pc \in {"stop", "lock"}, Call(r, op, pc) PROVE RestartInv'
  <2> DEFINE record == [NoRequest EXCEPT !.op = op, !.pc = pc, !.since = cookie]
  <2>1. /\ record.pc = pc /\ record.since = cookie
        /\ request' = [request EXCEPT ![r] = record]
    BY <1>3 DEF Call, NoRequest
  <2> HIDE DEF record
  <2>2. record.pc \notin Marked /\ record.since \in 0 .. cookie
    BY <1>1, <2>1 DEF Marked
  <2>3. QED
    BY <2>1, <2>2, UnmarkedStep
<1>4. QED
  BY <1>2, <1>3 DEF Arrive, Restart, RequestTransition, Delete, DeleteUser, StopAll

LEMMA RestartProceeds ==
    ASSUME ManagerInv, RestartInv, [Next]_vars, NEW r \in Request, Proceed(r)
    PROVE  RestartInv'
<1>1. request[r] \in RequestRecord /\ cookie \in Nat
  BY ManagerBounds DEF ManagerInv, TypeOK
<1>2. CASE Lock(r)
  <2> DEFINE record == [request[r] EXCEPT !.pc = "stop", !.since = cookie]
  <2>1. record.pc = "stop" /\ record.since = cookie /\ request' = [request EXCEPT ![r] = record]
    BY <1>1, <1>2 DEF Lock, RequestRecord
  <2> HIDE DEF record
  <2>2. record.pc \notin Marked /\ record.since \in 0 .. cookie
    BY <1>1, <2>1 DEF Marked
  <2>3. QED
    BY <2>1, <2>2, UnmarkedStep
<1>3. CASE LockInVain(r) \/ Start(r) \/ Compensate(r) \/ WriteOutcome(r)
  <2>1. Return(r)
    BY <1>3 DEF LockInVain, Start, Compensate, WriteOutcome, Release
  <2>2. QED
    BY <2>1, RestartReturns
<1>4. CASE StopContext(r)
  BY <1>4, RestartMarks
<1>5. CASE JoinInstance(r)
  <2>1. Goto(r, "await") /\ "await" \in Pc /\ request[r].pc \in Marked
    BY <1>5 DEF JoinInstance, At, Pc, Marked
  <2>2. QED
    BY <2>1, RestartGoesOn
<1>6. CASE AwaitDone(r)
  <2>1. Goto(r, "remove") /\ "remove" \in Pc /\ request[r].pc \in Marked /\ ~Live(request[r].target)
    BY <1>6 DEF AwaitDone, At, Pc, Marked
  <2>2. QED
    BY <2>1, RestartGoesOn
<1>7. CASE RemoveStopped(r)
  <2>1. /\ Goto(r, AfterStop(r)) /\ AfterStop(r) \in Pc /\ request[r].pc = "remove"
    BY <1>7 DEF RemoveStopped, At, Pc, AfterStop
  <2>2. QED
    BY <2>1, RestartGoesOn DEF Marked
<1>8. CASE ReadCookie(r)
  <2> DEFINE record == [request[r] EXCEPT !.pc = "start", !.value = cookie]
  <2>1. /\ record.pc = "start" /\ record.since = request[r].since /\ record.op = request[r].op
        /\ request' = [request EXCEPT ![r] = record] /\ request[r].pc = "read"
    BY <1>1, <1>8 DEF ReadCookie, RequestRecord, At
  <2> HIDE DEF record
  <2>2. record.since \in 0 .. cookie /\ OnlyTarget(request[r], instance)
    BY <1>1, <2>1, ManagerBounds DEF RestartInv, RequestRecord
  <2>3. \A i \in Instance : Behind(instance'[i], record.since) => Behind(instance[i], record.since)
    BY <2>2, NoneFallsBehind
  <2>4. OnlyTarget(record, instance')
    BY <2>1, <2>2, <2>3 DEF OnlyTarget, Marked
  <2>5. QED
    BY <2>1, <2>2, <2>4, RestartStep
<1>9. CASE StartRefused(r)
  BY <1>9, RestartFails DEF StartRefused
<1>10. QED
  BY <1>2, <1>3, <1>4, <1>5, <1>6, <1>7, <1>8, <1>9 DEF Proceed

LEMMA RestartNext == ManagerInv /\ RestartInv /\ [Next]_vars => RestartInv'
<1> SUFFICES ASSUME ManagerInv, RestartInv, [Next]_vars PROVE RestartInv'
  OBVIOUS
<1>1. ASSUME NEW r \in Request, Disturb(r) PROVE RestartInv'
  BY <1>1, RestartFails DEF Disturb, StopTimesOut, ReadFails
<1>2. CASE (\E i \in Instance : Run(i)) \/ SaveCookie \/ UNCHANGED vars
  <2>1. request' = request
    BY <1>2 DEF Run, CheckStatus, Connect, Reconnect, Exit, RestUnchanged, SaveCookie, vars
  <2>2. QED
    BY <2>1, RestartElsewhere
<1>3. QED
  BY <1>1, <1>2, RestartArrives, RestartProceeds DEF Next

LEMMA RestartInit == Init => RestartInv
<1> SUFFICES ASSUME Init, NEW r \in Request
             PROVE  request[r].since <= cookie /\ OnlyTarget(request[r], instance)
  BY DEF RestartInv
<1>1. request[r] = NoRequest /\ cookie = 0
  BY DEF Init
<1>2. NoRequest.since = 0 /\ NoRequest.op \notin Restarting
  BY DEF NoRequest, Restarting
<1>3. QED
  BY <1>1, <1>2 DEF OnlyTarget

\* When a restart has stopped what it found, no connection uses a cookie
\* older than the one it was called for, even if another restart has started
\* the instance in its place.
THEOREM RestartRefreshes == Spec => []Refreshed
<1>1. ManagerInv /\ RestartInv => Refreshed
  <2> SUFFICES ASSUME ManagerInv, RestartInv, NEW r \in Request, request[r].pc \in {"read", "start"},
                      Does(r, Restarting), NEW i \in Instance, instance[i].state = "connected"
               PROVE  instance[i].cookie >= request[r].since
    BY DEF Refreshed
  <2>1. OnlyTarget(request[r], instance)
    BY DEF RestartInv
  <2>2. ~Behind(instance[i], request[r].since)
    BY <2>1 DEF OnlyTarget, Marked, Does
  <2>3. instance[i].cookie \in Int /\ request[r].since \in Int
    <3>1. instance[i] \in InstanceRecord /\ request[r] \in RequestRecord
      BY DEF ManagerInv, TypeOK
    <3>2. QED
      BY <3>1 DEF InstanceRecord, RequestRecord
  <2>4. QED
    BY <2>2, <2>3 DEF Behind
<1>2. QED
  BY <1>1, RestartInit, RestartNext, Fenced, PTL DEF Spec


-----------------------------------------------------------------------------
(* The manager implements the slot of an account: SlotSpec                 *)

SlotStep == [Slot!Next]_(Slot!slot)

\* Only enable and update are undone by writing the account down.
Compensates == \A r \in Request : At(r, "compensate") => Does(r, {"enable", "update"})

\* A live instance is the one in the slot.
LEMMA InSlot ==
    ASSUME ManagerInv, NEW i \in Instance, Live(i)
    PROVE  accounts = i /\ Place = instance[i].state
<1>1. accounts = i /\ i # 0
  BY ManagerBounds DEF ManagerInv, Fences, LiveManaged, Instance
<1>2. QED
  BY <1>1 DEF Place

LEMMA SlotEmpty ==
    ASSUME ManagerInv, \A i \in Instance : ~Live(i)
    PROVE  Place = "empty"
<1>1. accounts # 0 => accounts \in Instance
  BY ManagerBounds DEF ManagerInv, TypeOK, Instance
<1>2. QED
  BY <1>1 DEF Place

\* A step that moves no instance and does not change the table.
LEMMA SlotStays ==
    ASSUME ManagerInv, accounts' = accounts,
           \A i \in Instance : instance'[i].state = instance[i].state /\ instance'[i].cookie = instance[i].cookie
    PROVE  Place' = Place /\ Used' = Used
<1>1. accounts # 0 => accounts \in Instance
  BY ManagerBounds DEF ManagerInv, TypeOK, Instance
<1>2. CASE accounts = 0
  BY <1>2 DEF Place, Used
<1>3. CASE accounts # 0
  <2>1. instance'[accounts].state = instance[accounts].state /\ instance'[accounts].cookie = instance[accounts].cookie
    BY <1>1, <1>3
  <2>2. Live(accounts)' <=> Live(accounts)
    BY <2>1 DEF Live
  <2>3. Place' = Place
    BY <2>1, <2>2 DEF Place
  <2>4. QED
    BY <2>1, <2>3 DEF Used
<1>4. QED
  BY <1>2, <1>3

\* It may set or lift a fence.
LEMMA FenceOnly ==
    ASSUME ManagerInv, accounts' = accounts, status' = status, cookie' = cookie,
           \A i \in Instance : instance'[i].state = instance[i].state /\ instance'[i].cookie = instance[i].cookie
    PROVE  SlotStep
<1>1. Place' = Place /\ Used' = Used
  BY SlotStays
<1>2. CASE Barred' = Barred
  BY <1>1, <1>2 DEF SlotStep, Slot!slot
<1>3. CASE Barred' # Barred
  <2>1. Barred' = ~Barred
    BY <1>3 DEF Barred
  <2>2. Slot!Bar
    BY <1>1, <2>1 DEF Slot!Bar
  <2>3. QED
    BY <2>2 DEF SlotStep, Slot!Next
<1>4. QED
  BY <1>2, <1>3

LEMMA SlotArrive ==
    ASSUME ManagerInv, NEW r \in Request, Arrive(r) \/ Disturb(r)
    PROVE  SlotStep
<1>1. instance' = instance /\ accounts' = accounts /\ status' = status /\ cookie' = cookie
  <2>1. CASE Arrive(r)
    BY <2>1 DEF Arrive, StartAll, Restart, RequestTransition, Delete, DeleteUser, StopAll, manager,
       instances, database
  <2>2. CASE Disturb(r)
    BY <2>2 DEF Disturb, StopTimesOut, ReadFails, Fail, instances, database
  <2>3. QED
    BY <2>1, <2>2
<1>2. QED
  BY <1>1, FenceOnly

LEMMA SlotLock ==
    ASSUME ManagerInv, NEW r \in Request, Lock(r)
    PROVE  SlotStep
<1>1. instance' = instance /\ accounts' = accounts /\ cookie' = cookie
  BY DEF Lock, instances
<1>2. CASE status' = status
  BY <1>1, <1>2, FenceOnly
<1>3. CASE status \notin Gone /\ status' = "enabled" /\ UNCHANGED stopping
  <2>1. Place' = Place /\ Used' = Used
    BY <1>1, SlotStays
  <2>2. Barred' = Barred
    BY <1>3 DEF Barred, Lock
  <2>3. status \notin Slot!Gone
    BY <1>3 DEF Gone, Slot!Gone
  <2>4. Slot!WriteOther
    BY <1>1, <1>3, <2>1, <2>2, <2>3 DEF Slot!WriteOther
  <2>5. QED
    BY <2>4 DEF SlotStep, Slot!Next
<1>4. QED
  BY <1>2, <1>3 DEF Lock

\* StopContext and JoinInstance mark an instance and leave it where it stands.
LEMMA SlotStop ==
    ASSUME ManagerInv, NEW r \in Request, StopContext(r) \/ JoinInstance(r)
    PROVE  SlotStep
<1>1. accounts' = accounts /\ status' = status /\ cookie' = cookie
  BY DEF StopContext, JoinInstance, manager, database
<1>2. instance \in [Instance -> InstanceRecord]
  BY DEF ManagerInv, TypeOK
<1>3. ASSUME NEW i \in Instance
      PROVE  instance'[i].state = instance[i].state /\ instance'[i].cookie = instance[i].cookie
  <2>1. instance[i] \in InstanceRecord
    BY <1>2
  <2>2. CASE StopContext(r)
    BY <1>2, <2>1, <2>2 DEF StopContext, InstanceRecord
  <2>3. CASE JoinInstance(r)
    BY <1>2, <2>1, <2>3 DEF JoinInstance, InstanceRecord
  <2>4. QED
    BY <2>2, <2>3
<1>4. QED
  BY <1>1, <1>3, FenceOnly

\* What is removed from the table has ended: the slot was empty before.
LEMMA SlotRemoved ==
    ASSUME ManagerInv, NEW r \in Request, RemoveStopped(r)
    PROVE  SlotStep
<1>1. /\ instance' = instance /\ status' = status /\ cookie' = cookie
      /\ stopping' = stopping /\ stoppingAll' = stoppingAll
  BY DEF RemoveStopped, instances, database
<1>2. CASE accounts' = accounts
  BY <1>1, <1>2, FenceOnly
<1>3. CASE accounts' = 0 /\ accounts = request[r].target
  <2>1. ~Live(accounts)
    BY <1>3 DEF ManagerInv, Fences, RemovesDone, RemoveStopped
  <2>2. Place = "empty" /\ Place' = "empty"
    BY <1>3, <2>1 DEF Place
  <2>3. Used = 0 /\ Used' = 0
    BY <2>2 DEF Used
  <2>4. Barred' = Barred
    BY <1>1 DEF Barred
  <2>5. QED
    BY <1>1, <2>2, <2>3, <2>4 DEF SlotStep, Slot!slot
<1>4. QED
  BY <1>2, <1>3 DEF RemoveStopped

LEMMA SlotStart ==
    ASSUME ManagerInv, NEW r \in Request, Start(r)
    PROVE  SlotStep
<1>1. /\ status' = status /\ cookie' = cookie /\ stopping' = stopping /\ stoppingAll' = stoppingAll
      /\ ~stopping /\ ~stoppingAll
  BY DEF Start, Refused, database
<1>2. CASE instance' = instance /\ accounts' = accounts
  BY <1>1, <1>2, FenceOnly
<1>3. CASE /\ ~(accounts # 0 /\ Live(accounts)) /\ starts < MaxStarts /\ accounts' = starts + 1
           /\ instance' = [instance EXCEPT ![starts + 1] =
                 [NoInstance EXCEPT !.state = "started", !.cookie = request[r].value]]
  <2> DEFINE new == [NoInstance EXCEPT !.state = "started", !.cookie = request[r].value]
  <2>1. new.state = "started"
    BY DEF NoInstance
  <2>2. instance \in [Instance -> InstanceRecord] /\ starts \in Nat /\ starts + 1 \in Instance
    BY <1>3, ManagerBounds DEF ManagerInv, TypeOK, Instance
  <2> HIDE DEF new
  <2>3. instance'[accounts'] = new /\ accounts' # 0
    BY <1>3, <2>2 DEF new
  <2>4. Place = "empty" /\ Place' = "started"
    BY <1>3, <2>1, <2>3 DEF Place, Live
  <2>5. Used = 0 /\ Used' = 0
    BY <2>4 DEF Used
  <2>6. ~Barred /\ Barred' = Barred
    BY <1>1 DEF Barred
  <2>7. Slot!Fill
    BY <1>1, <2>4, <2>5, <2>6 DEF Slot!Fill
  <2>8. QED
    BY <2>7 DEF SlotStep, Slot!Next
<1>4. QED
  BY <1>2, <1>3 DEF Start, instances

LEMMA SlotCompensate ==
    ASSUME ManagerInv, Compensates, NEW r \in Request, Compensate(r)
    PROVE  SlotStep
<1>1. instance' = instance /\ accounts' = accounts /\ cookie' = cookie /\ stoppingAll' = stoppingAll
  BY DEF Compensate, instances
<1>2. CASE status' = status
  BY <1>1, <1>2, FenceOnly
<1>3. CASE status \notin Gone /\ status' = "runtime_failed"
  <2>1. stopping' = stopping
    BY DEF Compensates, Compensate, Release, Does, Fencing
  <2>2. Place' = Place /\ Used' = Used /\ Barred' = Barred
    BY <1>1, <2>1, SlotStays DEF Barred
  <2>3. status \notin Slot!Gone
    BY <1>3 DEF Gone, Slot!Gone
  <2>4. Slot!WriteOther
    BY <1>1, <1>3, <2>2, <2>3 DEF Slot!WriteOther
  <2>5. QED
    BY <2>4 DEF SlotStep, Slot!Next
<1>4. QED
  BY <1>2, <1>3 DEF Compensate

\* Behind its fence a request finds the slot empty.
LEMMA SlotWritten ==
    ASSUME ManagerInv, NEW r \in Request, WriteOutcome(r)
    PROVE  SlotStep
<1>1. instance' = instance /\ accounts' = accounts /\ cookie' = cookie
  BY DEF WriteOutcome, instances
<1>2. CASE status' = status
  BY <1>1, <1>2, FenceOnly
<1>3. CASE status' # status /\ Does(r, Fencing)
  <2>1. Place = "empty" /\ Place' = Place /\ Used' = Used
    <3>1. \A i \in Instance : ~Live(i)
      BY <1>3 DEF WriteOutcome, Does, ManagerInv, Fences, StoppedWhileFenced
    <3>2. QED
      BY <1>1, <3>1, SlotEmpty, SlotStays
  <2>2. Barred
    BY <1>3 DEF WriteOutcome, At, ManagerInv, Fences, FenceOwned, Held, Barred
  <2>3. status \notin Slot!Gone /\ status' \in {"manual", "deleted"}
    BY <1>3 DEF WriteOutcome, Written, Does, Fencing, Gone, Slot!Gone
  <2>4. Barred' \in BOOLEAN
    BY DEF Barred
  <2>5. Slot!WriteDown
    BY <1>1, <2>1, <2>2, <2>3, <2>4 DEF Slot!WriteDown
  <2>6. QED
    BY <2>5 DEF SlotStep, Slot!Next
<1>4. CASE status' # status /\ ~Does(r, Fencing)
  <2>1. Does(r, {"deleteUser"}) /\ status' = "user_deleted"
    BY <1>4 DEF WriteOutcome, Written, Does, Fencing
  <2>2. stopping' = stopping /\ stoppingAll' = stoppingAll
    BY <1>4, <2>1 DEF WriteOutcome, Release, Does
  <2>3. Place' = Place /\ Used' = Used /\ Barred' = Barred
    BY <1>1, <2>2, SlotStays DEF Barred
  <2>4. Slot!WriteOther
    BY <1>1, <2>1, <2>3 DEF Slot!WriteOther
  <2>5. QED
    BY <2>4 DEF SlotStep, Slot!Next
<1>5. QED
  BY <1>2, <1>3, <1>4

\* An instance that moves is the one in the slot.
LEMMA SlotRun ==
    ASSUME ManagerInv, NEW i \in Instance, Run(i)
    PROVE  SlotStep
<1>1. instance \in [Instance -> InstanceRecord] /\ instance[i] \in InstanceRecord
  BY DEF ManagerInv, TypeOK
<1>2. /\ accounts' = accounts /\ status' = status /\ cookie' = cookie
      /\ stopping' = stopping /\ stoppingAll' = stoppingAll
  BY DEF Run, CheckStatus, Connect, Reconnect, Exit, RestUnchanged, manager, database
<1>3. Live(i)
  BY DEF Run, CheckStatus, Connect, Reconnect, Exit, Live
<1>4. accounts = i /\ accounts # 0 /\ Place = instance[i].state
  BY <1>3, InSlot, ManagerBounds DEF Instance
<1>5. Barred' = Barred
  BY <1>2 DEF Barred
<1>6. Place' = IF instance'[i].state \in {"started", "checked", "connected"} THEN instance'[i].state ELSE "empty"
  BY <1>2, <1>4 DEF Place, Live
<1>7. Used = (IF Place = "connected" THEN instance[i].cookie ELSE 0)
      /\ Used' = (IF Place' = "connected" THEN instance'[i].cookie ELSE 0)
  BY <1>2, <1>4 DEF Used
<1>8. status \notin Gone <=> status \notin Slot!Gone
  BY DEF Gone, Slot!Gone
<1>9. ASSUME instance'[i].state \in {"started", "exited"} PROVE SlotStep
  <2>1. Place' \in {"started", "empty"} /\ Used' = 0
    BY <1>6, <1>7, <1>9
  <2>2. Place # "empty"
    BY <1>3, <1>4 DEF Live
  <2>3. Slot!GoOffline
    BY <1>2, <1>5, <2>1, <2>2 DEF Slot!GoOffline
  <2>4. QED
    BY <2>3 DEF SlotStep, Slot!Next
<1>10. CASE CheckStatus(i)
  <2>1. CASE instance'[i].state = "exited"
    BY <1>9, <2>1
  <2>2. CASE MayRun(i) /\ instance'[i].state = "checked"
    <3>1. Place = "started" /\ Place' = "checked" /\ Used = 0 /\ Used' = 0 /\ status = "enabled"
      BY <1>4, <1>6, <1>7, <1>10, <2>2 DEF CheckStatus, MayRun
    <3>2. Slot!Check
      BY <1>2, <1>5, <3>1 DEF Slot!Check
    <3>3. QED
      BY <3>2 DEF SlotStep, Slot!Next
  <2>3. QED
    BY <1>1, <1>10, <2>1, <2>2 DEF CheckStatus, Becomes
<1>11. CASE Connect(i)
  <2>1. CASE status \in Gone
    <3>1. instance'[i].state = "started"
      BY <1>1, <1>11, <2>1 DEF Connect, InstanceRecord
    <3>2. QED
      BY <1>9, <3>1
  <2>2. CASE status \notin Gone
    <3>1. instance'[i].state = "connected" /\ instance'[i].cookie = cookie
      BY <1>1, <1>11, <2>2 DEF Connect, InstanceRecord
    <3>2. Place = "checked" /\ Place' = "connected" /\ Used' = cookie
      BY <1>4, <1>6, <1>7, <1>11, <3>1 DEF Connect
    <3>3. Slot!GoOnline
      BY <1>2, <1>5, <1>8, <2>2, <3>2 DEF Slot!GoOnline
    <3>4. QED
      BY <3>3 DEF SlotStep, Slot!Next
  <2>3. QED
    BY <2>1, <2>2
<1>12. CASE Reconnect(i)
  <2>1. instance'[i].state = "started"
    BY <1>1, <1>12 DEF Reconnect, Becomes, InstanceRecord
  <2>2. QED
    BY <1>9, <2>1
<1>13. CASE Exit(i)
  <2>1. instance'[i].state = "exited"
    BY <1>1, <1>13 DEF Exit, Becomes, InstanceRecord
  <2>2. QED
    BY <1>9, <2>1
<1>14. QED
  BY <1>10, <1>11, <1>12, <1>13 DEF Run

LEMMA SlotKept ==
    ASSUME ManagerInv, Compensates, [Next]_vars
    PROVE  SlotStep
<1>1. CASE UNCHANGED vars
  BY <1>1, FenceOnly DEF vars, manager, instances, database
<1>2. CASE SaveCookie
  <2>1. instance' = instance /\ accounts' = accounts /\ status' = status /\ stopping' = stopping /\ stoppingAll' = stoppingAll
    BY <1>2 DEF SaveCookie, manager, instances
  <2>2. Place' = Place /\ Used' = Used /\ Barred' = Barred
    BY <2>1, SlotStays DEF Barred
  <2>3. Slot!SaveCookie
    BY <1>2, <2>1, <2>2 DEF SaveCookie, Slot!SaveCookie, Gone, Slot!Gone
  <2>4. QED
    BY <2>3 DEF SlotStep, Slot!Next
<1>3. ASSUME NEW r \in Request, Proceed(r) PROVE SlotStep
  <2>1. CASE LockInVain(r) \/ AwaitDone(r) \/ ReadCookie(r) \/ StartRefused(r)
    <3>1. instance' = instance /\ accounts' = accounts /\ status' = status /\ cookie' = cookie
      BY <2>1 DEF LockInVain, AwaitDone, ReadCookie, StartRefused, Fail, manager, instances, database
    <3>2. QED
      BY <3>1, FenceOnly
  <2>2. QED
    BY <1>3, <2>1, SlotLock, SlotStop, SlotRemoved, SlotStart, SlotCompensate, SlotWritten DEF Proceed
<1>4. QED
  BY <1>1, <1>2, <1>3, SlotArrive, SlotRun DEF Next

LEMMA CompensatesNext == ManagerInv /\ Compensates /\ [Next]_vars => Compensates'
<1> SUFFICES ASSUME ManagerInv, Compensates, [Next]_vars, NEW q \in Request, At(q, "compensate")'
             PROVE  Does(q, {"enable", "update"})'
  BY DEF Compensates
<1>1. request \in [Request -> RequestRecord] /\ request[q] \in RequestRecord
  BY DEF ManagerInv, TypeOK
<1>2. CASE request'[q] = request[q]
  BY <1>2 DEF Compensates, At, Does
<1>3. ASSUME NEW r \in Request, Arrive(r) PROVE request'[q] = request[q]
  <2>1. ASSUME NEW record, record.pc # "compensate", request' = [request EXCEPT ![r] = record]
        PROVE  request'[q] = request[q]
    BY <1>1, <2>1 DEF At
  <2>2. CASE StartAll(r)
    <3> DEFINE record == [NoRequest EXCEPT !.op = "startAll", !.pc = "start", !.value = cookie]
    <3>1. record.pc # "compensate" /\ request' = [request EXCEPT ![r] = record]
      BY <2>2 DEF StartAll, NoRequest
    <3> HIDE DEF record
    <3>2. QED
      BY <2>1, <3>1
  <2>3. ASSUME NEW op, NEW pc \in {"stop", "lock"}, Call(r, op, pc)
        PROVE  request'[q] = request[q]
    <3> DEFINE record == [NoRequest EXCEPT !.op = op, !.pc = pc, !.since = cookie]
    <3>1. record.pc # "compensate" /\ request' = [request EXCEPT ![r] = record]
      BY <2>3 DEF Call, NoRequest
    <3> HIDE DEF record
    <3>2. QED
      BY <2>1, <3>1
  <2>4. QED
    BY <1>3, <2>2, <2>3 DEF Arrive, Restart, RequestTransition, Delete, DeleteUser, StopAll
<1>4. ASSUME NEW r \in Request, Fail(r)
      PROVE  request'[q] = request[q] \/ Does(q, {"enable", "update"})'
  <2>1. CASE Does(r, {"enable", "update"}) /\ Goto(r, "compensate")
    BY <1>1, <2>1 DEF Goto, Does, RequestRecord
  <2>2. CASE Return(r)
    <3>1. NoRequest.pc # "compensate"
      BY DEF NoRequest
    <3>2. QED
      BY <1>1, <2>2, <3>1 DEF Return, At
  <2>3. QED
    BY <1>4, <2>1, <2>2 DEF Fail, Release
<1>5. ASSUME NEW r \in Request, Proceed(r), ~StartRefused(r) PROVE request'[q] = request[q]
  <2>1. CASE \E pc \in Pc \ {"compensate"} : Goto(r, pc)
    BY <1>1, <2>1 DEF Goto, At, RequestRecord
  <2>2. CASE Return(r)
    <3>1. NoRequest.pc # "compensate"
      BY DEF NoRequest
    <3>2. QED
      BY <1>1, <2>2, <3>1 DEF Return, At
  <2>3. CASE Lock(r)
    BY <1>1, <2>3 DEF Lock, At, RequestRecord
  <2>4. CASE StopContext(r) /\ ~\E pc \in Pc \ {"compensate"} : Goto(r, pc)
    <3>1. AfterStop(r) \in Pc \ {"compensate"}
      BY DEF AfterStop, Pc
    <3>2. request' = [request EXCEPT ![r].pc = "join", ![r].target = accounts]
      BY <2>4, <3>1 DEF StopContext
    <3>3. QED
      BY <1>1, <3>2 DEF At, RequestRecord
  <2>5. CASE ReadCookie(r)
    BY <1>1, <2>5 DEF ReadCookie, At, RequestRecord
  <2>6. CASE JoinInstance(r) \/ AwaitDone(r) \/ RemoveStopped(r)
    <3>1. \E pc \in Pc \ {"compensate"} : Goto(r, pc)
      BY <2>6 DEF JoinInstance, AwaitDone, RemoveStopped, AfterStop, Pc
    <3>2. QED
      BY <2>1, <3>1
  <2>7. CASE LockInVain(r) \/ Start(r) \/ Compensate(r) \/ WriteOutcome(r)
    <3>1. Return(r)
      BY <2>7 DEF LockInVain, Start, Compensate, WriteOutcome, Release
    <3>2. QED
      BY <2>2, <3>1
  <2>8. QED
    BY <1>5, <2>1, <2>3, <2>4, <2>5, <2>6, <2>7 DEF Proceed
<1>6. ASSUME NEW i \in Instance, Run(i) PROVE request' = request
  BY <1>6 DEF Run, CheckStatus, Connect, Reconnect, Exit, RestUnchanged
<1>7. SaveCookie \/ UNCHANGED vars => request' = request
  BY DEF SaveCookie, vars
<1>8. QED
  BY <1>2, <1>3, <1>4, <1>5, <1>6, <1>7 DEF Next, Disturb, StopTimesOut, ReadFails, StartRefused

\* Both invariants of the manager: its instances and its fences (ManagerSafe).
THEOREM ManagerIsSafe == Spec => []ManagerSafe
BY OneInstance, StoppedBehindFence, PTL DEF ManagerSafe

\* The manager implements the slot of AccountSlot (SlotSpec), for any requests at once:
\* Manager.Start fills an empty slot behind no fence, Account.Run takes it online with the
\* stored cookie once the status was found enabled, and a disable or a deletion is
\* written while the slot is empty and fenced.
THEOREM ImplementsSlot == Spec => SlotSpec
<1>1. Init => Slot!Init /\ Compensates
  BY DEF Init, Slot!Init, Place, Used, Barred, Compensates, At, NoRequest
<1>2. ManagerInv /\ Compensates /\ [Next]_vars => SlotStep /\ Compensates'
  BY SlotKept, CompensatesNext
<1>3. QED
  BY <1>1, <1>2, Fenced, PTL DEF Spec, SlotSpec, Slot!Spec, SlotStep

=============================================================================
