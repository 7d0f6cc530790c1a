----------------------------- MODULE MCAccountWork -----------------------------
(***************************************************************************)
(* Instances for TLC of what an account does for its buyers: the delivery  *)
(* runs of an order, the stored conversation, the automatic reply, the     *)
(* message on the wire and the scheduled tasks.  As in MCServices a        *)
(* behaviour exercises the part that focus names and the others stay where *)
(* they start.                                                             *)
(***************************************************************************)
EXTENDS OrderDelivery, Conversation, ReplyOnce, OutgoingMessage, AccountTasks

CONSTANT Exercised    \* the parts this run exercises

VARIABLE focus

sumVars == <<focus, vars, chatVars, replyVars, messageVars, taskVars>>

SumInit ==
    /\ focus \in Exercised
    /\ Init /\ ChatInit /\ ReplyInit /\ MessageInit /\ TasksInit
    /\ focus = "tasks" \/ "polish" \notin enabled     \* one start for the others

\* The part that moves; the others stay.
Only(part) ==
    /\ focus = part /\ UNCHANGED focus
    /\ part # "delivery" => UNCHANGED vars
    /\ part # "chat" => UNCHANGED chatVars
    /\ part # "reply" => UNCHANGED replyVars
    /\ part # "message" => UNCHANGED messageVars
    /\ part # "tasks" => UNCHANGED taskVars

SumNext ==
    \/ Only("delivery") /\ Next
    \/ Only("chat") /\ ChatNext
    \/ Only("reply") /\ ReplyNext
    \/ Only("message") /\ MessageNext
    \/ Only("tasks") /\ TasksNext

SumSpec == SumInit /\ [][SumNext]_sumVars

\* The type invariants of the parts: what each variable holds, and which
\* combinations of row states, locks and waiters never occur.
PartsTypeOK ==
    /\ focus = "delivery" => TypeOK
    /\ focus = "chat" => ChatTypeOK
    /\ focus = "reply" => ReplyTypeOK
    /\ focus = "message" => MessageTypeOK
    /\ focus = "tasks" => TasksTypeOK

=============================================================================
