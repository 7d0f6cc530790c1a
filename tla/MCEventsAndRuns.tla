---------------------------- MODULE MCEventsAndRuns ----------------------------
(***************************************************************************)
(* The way from a trade card to its run, and the run itself, for TLC in    *)
(* one run.  They share no state: EventGate ends where a run is started,   *)
(* AutomationRun begins there.  As in MCServices a behaviour exercises the *)
(* part that focus names and the other stays where it starts.              *)
(***************************************************************************)
EXTENDS MCAutomationRun, EventGate

CONSTANT Exercised    \* the parts this run exercises

VARIABLE focus

sumVars == <<focus, vars, eventVars>>

SumInit ==
    /\ focus \in Exercised
    /\ Init /\ EventInit
    /\ focus = "events" \/ "paid" \in kinds     \* one start for the run

SumNext ==
    \/ focus = "run" /\ Next /\ UNCHANGED <<focus, eventVars>>
    \/ focus = "events" /\ EventNext /\ UNCHANGED <<focus, vars>>

SumSpec == SumInit /\ [][SumNext]_sumVars

=============================================================================
