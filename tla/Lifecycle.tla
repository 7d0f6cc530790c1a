----------------------------- MODULE Lifecycle -----------------------------
(***************************************************************************)
(* The coordinator that starts the background components of the process    *)
(* in order and closes them in reverse (application/lifecycle).            *)
(*                                                                         *)
(* Its mutex is only held around its own fields; Start and Close of a      *)
(* component run outside it, may take as long as they like and may fail,   *)
(* while other goroutines call Start, Close and WaitContext.  What happens *)
(* under one lock is one action here, and so is a component's callback     *)
(* with the locked assignment that follows it.                             *)
(*                                                                         *)
(* A component's Close that fails leaves the component as it was, and a    *)
(* component whose Start failed may hold resources until it is closed.     *)
(***************************************************************************)
EXTENDS Integers

CONSTANTS
    Components,     \* how many components may be registered
    Caller,         \* goroutines that use the coordinator
    MaxCalls,       \* bound: calls per behaviour
    MaxRefusals     \* bound: callbacks of components that fail

ASSUME LifecycleBounds ==
    /\ Components \in Nat \ {0}
    /\ MaxCalls \in Nat /\ MaxRefusals \in Nat

VARIABLES
    coord,          \* the coordinator's fields
    component,      \* what each component is doing
    caller,         \* the call each goroutine is in
    calls,          \* calls left
    refusals        \* failing callbacks left

lifecycleVars == <<coord, component, caller, calls, refusals>>

Component == 1 .. Components
Attempt == 0 .. MaxCalls
Result == {"none", "ok", "error", "stopped", "timeout"}
ComponentState == {"idle", "up", "broken", "down"}

Coordinator == [
    registered: 0 .. Components,
    startedCount: 0 .. Components,
    started: BOOLEAN, starting: BOOLEAN, closing: BOOLEAN, closed: BOOLEAN,
    componentClosed: SUBSET Component,
    attempt: Attempt,                      \* closeAttempt, by its number
    attemptErr: [Attempt -> Result],       \* "none" until its done is closed
    closeErr: Result]

CallerState == [
    pc: {"idle", "component", "rollback", "enter", "close", "join", "wait"},
    index: 0 .. Components + 1,            \* the component it is at
    attempt: Attempt,
    err: Result,                           \* rollbackErr, closeErr
    call: {"none", "start", "close"},      \* history: the last call
    result: Result]                        \* history: what it returned

LifecycleInit ==
    /\ coord = [registered |-> 0, startedCount |-> 0,
                started |-> FALSE, starting |-> FALSE, closing |-> FALSE, closed |-> FALSE,
                componentClosed |-> {}, attempt |-> 0,
                attemptErr |-> [a \in Attempt |-> "none"], closeErr |-> "ok"]
    /\ component = [i \in Component |-> "idle"]
    /\ caller = [c \in Caller |-> [pc |-> "idle", index |-> 0, attempt |-> 0, err |-> "ok",
                                   call |-> "none", result |-> "none"]]
    /\ calls = MaxCalls /\ refusals = MaxRefusals

-----------------------------------------------------------------------------
(* Calls and their returns                                                 *)

CallerAt(c, pc) == caller[c].pc = pc

Call(c, pc, name) ==
    /\ CallerAt(c, "idle") /\ calls > 0
    /\ calls' = calls - 1
    /\ caller' = [caller EXCEPT ![c] = [@ EXCEPT !.pc = pc, !.call = name, !.result = "none", !.err = "ok"]]

Return(c, result) == caller' = [caller EXCEPT ![c] = [@ EXCEPT !.pc = "idle", !.result = result]]

\* A goroutine registers a component before the coordinator is used.
Add ==
    /\ ~coord.started /\ ~coord.closing /\ ~coord.closed
    /\ coord.registered < Components
    /\ coord' = [coord EXCEPT !.registered = @ + 1]
    /\ UNCHANGED <<component, caller, calls, refusals>>

-----------------------------------------------------------------------------
(* Start                                                                   *)

StartRefused(c) ==
    /\ CallerAt(c, "idle") /\ calls > 0
    /\ coord.closed \/ coord.closing \/ coord.started
    /\ calls' = calls - 1
    /\ caller' = [caller EXCEPT ![c] = [@ EXCEPT !.call = "start",
                      !.result = IF coord.closed \/ coord.closing THEN "stopped" ELSE "ok"]]
    /\ UNCHANGED <<coord, component, refusals>>

StartBegins(c) ==
    /\ ~coord.closed /\ ~coord.closing /\ ~coord.started
    /\ CallerAt(c, "idle") /\ calls > 0
    /\ calls' = calls - 1
    /\ coord' = [coord EXCEPT !.starting = TRUE, !.started = TRUE,
                              !.startedCount = IF coord.registered > 0 THEN 1 ELSE 0]
    /\ caller' = [caller EXCEPT ![c] = [@ EXCEPT !.pc = "component", !.index = 1, !.err = "ok",
                                                 !.call = "start", !.result = "none"]]
    /\ UNCHANGED <<component, refusals>>

\* Mutant: the component after the one that started is counted unseen.
ComponentStartsUnseen(c) ==
    LET i == caller[c].index IN
    /\ CallerAt(c, "component") /\ i <= coord.registered
    /\ component' = [component EXCEPT ![i] = "up"]
    /\ coord' = [coord EXCEPT !.startedCount = i + 1]
    /\ caller' = [caller EXCEPT ![c].index = i + 1]
    /\ UNCHANGED <<calls, refusals>>

\* A component started: the next one is counted before its Start is called.
ComponentStarts(c) ==
    LET i == caller[c].index IN
    /\ CallerAt(c, "component") /\ i <= coord.registered
    /\ component' = [component EXCEPT ![i] = "up"]
    /\ coord' = [coord EXCEPT !.startedCount = IF i < coord.registered THEN i + 1 ELSE @]
    /\ caller' = [caller EXCEPT ![c].index = i + 1]
    /\ UNCHANGED <<calls, refusals>>

ComponentFails(c) ==
    LET i == caller[c].index IN
    /\ CallerAt(c, "component") /\ i <= coord.registered /\ refusals > 0
    /\ refusals' = refusals - 1
    /\ component' = [component EXCEPT ![i] = "broken"]
    /\ caller' = [caller EXCEPT ![c].pc = "rollback"]
    /\ UNCHANGED <<coord, calls>>

StartEnds(c) ==
    /\ CallerAt(c, "component") /\ caller[c].index > coord.registered
    /\ coord' = [coord EXCEPT !.starting = FALSE]
    /\ Return(c, "ok")
    /\ UNCHANGED <<component, calls, refusals>>

\* rollback closes what was started, the failed component first.
RollbackComponent(c) ==
    LET i == caller[c].index IN
    /\ CallerAt(c, "rollback") /\ i > 0
    /\ \/ /\ component' = [component EXCEPT ![i] = "down"]
          /\ caller' = [caller EXCEPT ![c].index = i - 1]
          /\ UNCHANGED refusals
       \/ /\ refusals > 0 /\ refusals' = refusals - 1
          /\ caller' = [caller EXCEPT ![c] = [@ EXCEPT !.index = i - 1, !.err = "error"]]
          /\ UNCHANGED component
    /\ UNCHANGED <<coord, calls>>

\* Mutant: the failed start is never declared over.
RollbackForgets(c) ==
    /\ CallerAt(c, "rollback") /\ caller[c].index = 0
    /\ coord' = [coord EXCEPT !.closed = TRUE, !.closeErr = caller[c].err]
    /\ Return(c, "error")
    /\ UNCHANGED <<component, calls, refusals>>

RollbackEnds(c) ==
    /\ CallerAt(c, "rollback") /\ caller[c].index = 0
    /\ coord' = [coord EXCEPT !.closed = TRUE, !.starting = FALSE, !.closing = FALSE,
                              !.closeErr = caller[c].err]
    /\ Return(c, "error")
    /\ UNCHANGED <<component, calls, refusals>>

-----------------------------------------------------------------------------
(* Close and WaitContext                                                   *)

CallClose(c) == Call(c, "enter", "close") /\ UNCHANGED <<coord, component, refusals>>
CallWait(c) == Call(c, "wait", "close") /\ UNCHANGED <<coord, component, refusals>>

\* Mutant: Close does not wait for Start.
MayEnterEarly(c) == CallerAt(c, "enter")

\* Close first waits for Start, without holding the mutex.
MayEnter(c) == CallerAt(c, "enter") /\ ~coord.starting

CloseAgain(c) ==
    /\ MayEnter(c) /\ coord.closed
    /\ Return(c, coord.closeErr)
    /\ UNCHANGED <<coord, component, calls, refusals>>

JoinAttempt(c) ==
    /\ MayEnter(c) /\ ~coord.closed /\ coord.closing
    /\ caller' = [caller EXCEPT ![c] = [@ EXCEPT !.pc = "join", !.attempt = coord.attempt]]
    /\ UNCHANGED <<coord, component, calls, refusals>>

\* Mutant: the snapshot leaves out the component started last.
CloseBeginsShort(c) ==
    /\ MayEnter(c) /\ ~coord.closed /\ ~coord.closing
    /\ coord' = [coord EXCEPT !.closing = TRUE, !.attempt = @ + 1]
    /\ caller' = [caller EXCEPT ![c] = [@ EXCEPT !.pc = "close", !.attempt = coord.attempt + 1,
                      !.index = IF coord.startedCount > 0 THEN coord.startedCount - 1 ELSE 0]]
    /\ UNCHANGED <<component, calls, refusals>>

CloseBegins(c) ==
    /\ MayEnter(c) /\ ~coord.closed /\ ~coord.closing
    /\ coord' = [coord EXCEPT !.closing = TRUE, !.attempt = @ + 1]
    /\ caller' = [caller EXCEPT ![c] = [@ EXCEPT !.pc = "close", !.attempt = coord.attempt + 1,
                                                 !.index = coord.startedCount]]
    /\ UNCHANGED <<component, calls, refusals>>

\* Mutant: components are closed in the order of their start.
CloseForward(c) ==
    LET i == coord.startedCount + 1 - caller[c].index IN
    /\ CallerAt(c, "close") /\ caller[c].index > 0
    /\ component' = [component EXCEPT ![i] = "down"]
    /\ coord' = [coord EXCEPT !.componentClosed = @ \cup {i}]
    /\ caller' = [caller EXCEPT ![c].index = @ - 1]
    /\ UNCHANGED <<calls, refusals>>

\* A component closed by an earlier attempt is passed over; one that refuses
\* keeps its place and the others are closed all the same.
CloseComponent(c) ==
    LET i == caller[c].index IN
    /\ CallerAt(c, "close") /\ i > 0
    /\ \/ /\ i \in coord.componentClosed
          /\ caller' = [caller EXCEPT ![c].index = i - 1]
          /\ UNCHANGED <<coord, component, refusals>>
       \/ /\ i \notin coord.componentClosed
          /\ component' = [component EXCEPT ![i] = "down"]
          /\ coord' = [coord EXCEPT !.componentClosed = @ \cup {i}]
          /\ caller' = [caller EXCEPT ![c].index = i - 1]
          /\ UNCHANGED refusals
       \/ /\ i \notin coord.componentClosed
          /\ refusals > 0 /\ refusals' = refusals - 1
          /\ caller' = [caller EXCEPT ![c] = [@ EXCEPT !.index = i - 1, !.err = "error"]]
          /\ UNCHANGED <<coord, component>>
    /\ UNCHANGED calls

AllClosed == 1 .. coord.startedCount \subseteq coord.componentClosed

CloseEnds(c) ==
    /\ CallerAt(c, "close") /\ caller[c].index = 0
    /\ coord' = [coord EXCEPT !.closed = AllClosed, !.closing = FALSE,
                              !.closeErr = caller[c].err,
                              !.attemptErr[caller[c].attempt] = caller[c].err]
    /\ Return(c, caller[c].err)
    /\ UNCHANGED <<component, calls, refusals>>

JoinEnds(c) ==
    /\ CallerAt(c, "join") /\ coord.attemptErr[caller[c].attempt] # "none"
    /\ Return(c, coord.attemptErr[caller[c].attempt])
    /\ UNCHANGED <<coord, component, calls, refusals>>

WaitEnds(c) ==
    /\ CallerAt(c, "wait") /\ coord.closed
    /\ Return(c, coord.closeErr)
    /\ UNCHANGED <<coord, component, calls, refusals>>

\* The caller's context ends while it waits for somebody else.
ContextEnds(c) ==
    /\ \/ CallerAt(c, "enter") /\ coord.starting
       \/ CallerAt(c, "join") \/ CallerAt(c, "wait")
    /\ Return(c, "timeout")
    /\ UNCHANGED <<coord, component, calls, refusals>>

-----------------------------------------------------------------------------
(* Specification                                                           *)

StartStep(c) ==
    \/ ComponentStarts(c) \/ ComponentFails(c) \/ StartEnds(c)
    \/ RollbackComponent(c) \/ RollbackEnds(c)

CloseStep(c) ==
    \/ CloseAgain(c) \/ JoinAttempt(c) \/ CloseBegins(c) \/ CloseComponent(c) \/ CloseEnds(c)
    \/ JoinEnds(c)

LifecycleCall(c) == StartRefused(c) \/ StartBegins(c) \/ CallClose(c) \/ CallWait(c)

LifecycleNext ==
    \/ Add
    \/ \E c \in Caller :
         LifecycleCall(c) \/ StartStep(c) \/ CloseStep(c) \/ WaitEnds(c) \/ ContextEnds(c)

LifecycleSpec == LifecycleInit /\ [][LifecycleNext]_lifecycleVars

\* Callbacks return and the goroutine that called them goes on.
LifecycleProgress(c) == StartStep(c) \/ CloseStep(c)

-----------------------------------------------------------------------------
(* Properties                                                              *)

\* The coordinator's fields, the components and the calls are well formed.
LifecycleTypeOK ==
    /\ coord \in Coordinator
    /\ component \in [Component -> ComponentState]
    /\ caller \in [Caller -> CallerState]
    /\ calls \in 0 .. MaxCalls /\ refusals \in 0 .. MaxRefusals

\* Components are never started and closed at the same time, nor closed by
\* two goroutines: callbacks run outside the mutex, so only the flags keep
\* Start, its rollback and the attempts of Close apart.
OneCallback ==
    \A c, d \in Caller :
      /\ caller[c].pc \in {"component", "rollback", "close"}
      /\ caller[d].pc \in {"component", "rollback", "close"}
      => c = d

\* A Close or WaitContext that returned without an error leaves no component
\* running, then and ever after (Close: only then may Wait return).
ClosedMeansDown ==
    \A c \in Caller : CallerAt(c, "idle") /\ caller[c].call = "close" /\ caller[c].result = "ok" =>
      \A i \in Component : component[i] \in {"idle", "down"}

\* A component is closed only after every component registered after it was
\* closed or refused to in the same attempt; a later one depends on it.
ReverseOrder ==
    [][\A c \in Caller, i \in Component :
         /\ component[i] \in {"up", "broken"} /\ component'[i] = "down" /\ caller[c].pc \in {"rollback", "close"}
         => \A j \in Component : j > i /\ component[j] \in {"up", "broken"} =>
              caller[c].err = "error"]_lifecycleVars

\* Every Close ends: no flag is left set by a start that failed or by an
\* attempt that was refused.
CloseReturns == \A c \in Caller : CallerAt(c, "enter") ~> CallerAt(c, "idle")

\* Callbacks never overlap, and what Close and Wait report holds for good;
\* every closing attempt goes through the components in reverse order.
LifecycleSafe == [](OneCallback /\ ClosedMeansDown) /\ ReverseOrder

=============================================================================
