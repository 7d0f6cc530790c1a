--------------------------- MODULE MCAutomationRun ---------------------------
(***************************************************************************)
(* Instances of AutomationRun for TLC: the plans that occur in practice,   *)
(* and the statements of the code's comments that the runs refute.         *)
(***************************************************************************)
EXTENDS AutomationRun, TLC

CONSTANTS h1, h2, sch, o1, o2

DeliverConfirm == <<"deliver", "confirm">>
DeliverTextConfirm == <<"deliver", "text", "confirm">>
TextText == <<"text", "text">>

OneHandler == {h1}
TwoHandlers == {h1, h2}
OneOperator == {o1}
TwoOperators == {o1, o2}
NoPosition == {}
Second == {2}
Last == {Len(Plan)}

Symmetric == Permutations(Handler) \cup Permutations(Operator)

\* "A run that was let through to its idempotent actions must equally be
\* closed for review" (run_coordinator.go, end of executeRunActionLoop).
UncertainEndsInReview == run.status = "success" => unknown = {}

\* "With an unknown result retry is forbidden" (automation_recovery.go,
\* automationIssuePolicy): an operator retries no call whose outcome is open.
NoBlindRetry == \A c \in Positions : issued[c] <= 1

\* A claimed deferred task is finished, queued again or reported as dead
\* (FinishDeferredTask, ListIssues).
DeferredSettles == deferred.state = "running" ~> deferred.state # "running"

=============================================================================
