-------------------------- MODULE MCAccountManager --------------------------
(***************************************************************************)
(* Instances of AccountManager for TLC.                                    *)
(***************************************************************************)
EXTENDS AccountManager

CONSTANTS r1, r2

TwoRequests == {r1, r2}

EnableAndRestart == {"enable", "restart"}
DeleteUserAndRestart == {"deleteUser", "restart"}

AllIdle == \A r \in Request : request[r].pc = "idle"
NotConnected == \A i \in Instance : instance[i].state # "connected"

\* "The compensation disables the account so that its stored state and its
\* runtime no longer contradict each other" (settings_service.go, SetStatus).
CompensatedIsDown == status = "runtime_failed" /\ AllIdle => NotConnected

\* "An account that is being deleted is kept from being restarted
\* concurrently" (manager.go, stopping), here when its user is deleted.
DeletedUserIsDown == status = "user_deleted" /\ AllIdle => NotConnected

=============================================================================
