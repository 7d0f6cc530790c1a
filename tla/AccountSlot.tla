------------------------------ MODULE AccountSlot ------------------------------
(***************************************************************************)
(* What the manager promises of the connection of one account, without     *)
(* saying how: no requests, table, instances, locks or contexts.           *)
(*                                                                         *)
(* The account has one slot.  It is filled while nothing bars it, goes     *)
(* online only after the status was found enabled, with the cookie that    *)
(* is stored then, and is emptied at any time.  A disabled or deleted      *)
(* status is written only while the slot is barred and empty, so that      *)
(* whoever fills it later reads that status; only the deletion of the      *)
(* account's user asks for nothing.                                        *)
(***************************************************************************)
EXTENDS Integers

VARIABLES place,     \* empty, or how far the instance has come
          used,      \* the version of the cookie of the connection, 0 without one
          barred,    \* a fence is set
          status, cookie

slot == <<place, used, barred, status, cookie>>

Gone == {"deleted", "user_deleted"}

Init == place = "empty" /\ used = 0 /\ barred = FALSE /\ status = "enabled" /\ cookie = 0

Fill ==
    /\ place = "empty" /\ ~barred /\ place' = "started"
    /\ UNCHANGED <<used, barred, status, cookie>>

Check ==
    /\ place = "started" /\ status = "enabled" /\ place' = "checked"
    /\ UNCHANGED <<used, barred, status, cookie>>

GoOnline ==
    /\ place = "checked" /\ status \notin Gone
    /\ place' = "connected" /\ used' = cookie
    /\ UNCHANGED <<barred, status, cookie>>

\* To begin anew, or for good.
GoOffline ==
    /\ place # "empty" /\ place' \in {"started", "empty"} /\ used' = 0
    /\ UNCHANGED <<barred, status, cookie>>

Bar == barred' = ~barred /\ UNCHANGED <<place, used, status, cookie>>

\* The bar may fall with the write.
WriteDown ==
    /\ barred /\ place = "empty" /\ status \notin Gone
    /\ status' \in {"manual", "deleted"} /\ barred' \in BOOLEAN
    /\ UNCHANGED <<place, used, cookie>>

WriteOther ==
    /\ \/ status \notin Gone /\ status' \in {"enabled", "runtime_failed"}
       \/ status' = "user_deleted"
    /\ UNCHANGED <<place, used, barred, cookie>>

SaveCookie ==
    /\ status \notin Gone /\ cookie' = cookie + 1
    /\ UNCHANGED <<place, used, barred, status>>

Next == Fill \/ Check \/ GoOnline \/ GoOffline \/ Bar \/ WriteDown \/ WriteOther \/ SaveCookie

Spec == Init /\ [][Next]_slot

=============================================================================
