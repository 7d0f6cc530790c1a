----------------------------- MODULE ActionLedger -----------------------------
(***************************************************************************)
(* What automation_runs promises of the calls made to the platform for one *)
(* event, without saying how: no workers, leases, attempts or statuses.    *)
(*                                                                         *)
(* The ledger stands at one action of the plan.  A call is handed out only *)
(* there, one at a time, and only while the ledger is open.  Whoever holds *)
(* the hand-out either records a result, which moves the ledger on, or     *)
(* reports that the call did not happen, which gives the hand-out back.    *)
(* Only an operator moves past, or asks again for, a call whose result is  *)
(* not recorded.                                                           *)
(***************************************************************************)
EXTENDS Integers

CONSTANT Length   \* the number of actions of the plan

VARIABLES cursor, claimed, open, issued, retried

ledger == <<cursor, claimed, open, issued, retried>>

Actions == 1 .. Length

Init ==
    /\ cursor = 1 /\ claimed = FALSE /\ open = TRUE
    /\ issued = [c \in Actions |-> 0] /\ retried = [c \in Actions |-> 0]

\* StartRunAction.
Claim ==
    /\ open /\ ~claimed /\ cursor \in Actions
    /\ claimed' = TRUE
    /\ issued' = [issued EXCEPT ![cursor] = @ + 1]
    /\ UNCHANGED <<cursor, open, retried>>

\* AdvanceRunAction: the result is recorded.
Close ==
    /\ open /\ claimed /\ cursor \in Actions
    /\ cursor' = cursor + 1 /\ claimed' = FALSE
    /\ UNCHANGED <<open, issued, retried>>

\* AbortRunAction: the call did not happen.  A report that comes too late
\* changes the account but gives nothing back.
Refuse(c) ==
    /\ issued[c] > 0
    /\ issued' = [issued EXCEPT ![c] = @ - 1]
    /\ claimed' \in {claimed, claimed /\ cursor # c}
    /\ UNCHANGED <<cursor, open, retried>>

\* The operator's decisions.
Skip ==
    /\ open
    /\ cursor' = cursor + 1 /\ claimed' = FALSE
    /\ UNCHANGED <<open, issued, retried>>

Retry ==
    /\ open /\ cursor \in Actions
    /\ claimed' = FALSE
    /\ retried' = [retried EXCEPT ![cursor] = @ + 1]
    /\ UNCHANGED <<cursor, open, issued>>

Cancel ==
    /\ open
    /\ open' = FALSE /\ claimed' = FALSE
    /\ UNCHANGED <<cursor, issued, retried>>

Next == Claim \/ Close \/ (\E c \in Actions : Refuse(c)) \/ Skip \/ Retry \/ Cancel

Spec == Init /\ [][Next]_ledger

=============================================================================
