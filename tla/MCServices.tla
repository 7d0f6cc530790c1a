------------------------------ MODULE MCServices ------------------------------
(***************************************************************************)
(* Instances for TLC of the services that share no state with each other.  *)
(* They are checked side by side: a behaviour exercises the service that   *)
(* focus names, and the others stay where they start, so the states of the *)
(* services add up and are never multiplied.                               *)
(***************************************************************************)
EXTENDS NotificationOutbox, Lifecycle, BargainStage, PublishBatch, RefreshJob, OrderSync,
        AccountCredential

CONSTANT Exercised    \* the services this run exercises

VARIABLE focus

sumVars == <<focus, vars, lifecycleVars, bargainVars, batchVars, refreshVars, orderVars, credentialVars>>

SumInit ==
    /\ focus \in Exercised
    /\ Init /\ LifecycleInit /\ BargainInit /\ BatchInit /\ RefreshInit /\ OrderInit
    /\ CredentialInit
    /\ focus = "order" \/ platformOrder.status = "absent"    \* one start for the others

\* The service that moves; the others stay.
Only(service) ==
    /\ focus = service /\ UNCHANGED focus
    /\ service # "outbox" => UNCHANGED vars
    /\ service # "lifecycle" => UNCHANGED lifecycleVars
    /\ service # "bargain" => UNCHANGED bargainVars
    /\ service # "batch" => UNCHANGED batchVars
    /\ service # "refresh" => UNCHANGED refreshVars
    /\ service # "order" => UNCHANGED orderVars
    /\ service # "credential" => UNCHANGED credentialVars

SumNext ==
    \/ Only("outbox") /\ Next
    \/ Only("lifecycle") /\ LifecycleNext
    \/ Only("bargain") /\ BargainNext
    \/ Only("batch") /\ BatchNext
    \/ Only("refresh") /\ RefreshNext
    \/ Only("order") /\ OrderNext
    \/ Only("credential") /\ CredentialNext

SumSpec == SumInit /\ [][SumNext]_sumVars

\* One fairness condition per process and one per clock: the processes of
\* the services share their names, and only one service is exercised.
Processes == Worker \cup Caller \cup Publisher

ProcessStep(p) ==
    \/ Only("outbox") /\ p \in Worker /\ Drain(p)
    \/ Only("lifecycle") /\ p \in Caller /\ LifecycleProgress(p)
    \/ Only("batch") /\ p \in Publisher /\ (PublishStep(p) \/ Recover(p))

Ticker(p) == Only("outbox") /\ p \in Worker /\ ReadDue(p)

Expiry(n) ==
    \/ Only("outbox") /\ n \in Message /\ Lapse(n) /\ ~InBatch(n)
    \/ Only("batch") /\ n = 1 /\ (BatchLeaseLapses \/ FinalizeExpiredCancellation)
    \/ Only("refresh") /\ n \in Token /\ RefreshWork(n)

\* The periodic scans, and what runs on after a request.
Background(k) ==
    \/ Only("refresh") /\ k = "request" /\ StartWork("request")
    \/ Only("refresh") /\ k = "scan" /\ ScanWork
    \/ Only("refresh") /\ k = "lease" /\ RefreshLeaseLapses /\ ~Held
    \/ Only("order") /\ k = "scan" /\ RepairStep
    \/ Only("credential") /\ k = "request" /\ (LoopStep \/ LateStep)
    \/ Only("credential") /\ k = "scan" /\ (RenewalStep \/ SharedAnswer)
    \/ Only("credential") /\ k = "lease" /\ (SyncLogin \/ StopAccount)

FairSumSpec ==
    /\ SumSpec
    /\ \A p \in Processes : WF_sumVars(ProcessStep(p)) /\ WF_sumVars(Ticker(p))
    /\ \A n \in Message \cup {1} \cup Token : WF_sumVars(Expiry(n))
    /\ \A k \in {"request", "scan", "lease"} : WF_sumVars(Background(k))

\* The type invariants of the services: what each variable holds, and which
\* combinations of locks, tokens and leases never occur.  A service that is
\* not exercised keeps its initial state, which its own behaviours check.
ServicesTypeOK ==
    /\ focus = "outbox" => TypeOK
    /\ focus = "lifecycle" => LifecycleTypeOK
    /\ focus = "bargain" => BargainTypeOK
    /\ focus = "batch" => BatchTypeOK
    /\ focus = "refresh" => RefreshTypeOK
    /\ focus = "order" => OrderTypeOK
    /\ focus = "credential" => CredentialTypeOK

\* What a service has begun it ends: a report is delivered or given up, Close
\* returns, a batch and a refresh job end, the record of a shipment is repaired
\* unless the order is deleted.
\* These are EventuallySettled, CloseReturns, BatchEnds, RunningJobMoves,
\* RepairEnds and CredentialServed as one family over numbered obligations.
Obliged(n) ==
    \/ focus = "outbox" /\ n \in Message /\ Waiting(n)
    \/ focus = "lifecycle" /\ n \in Caller /\ CallerAt(n, "enter")
    \/ focus = "batch" /\ n = 1 /\ UnderWay
    \/ focus = "refresh" /\ n = 1 /\ JobRuns
    \/ focus = "order" /\ n = 1 /\ reconciliation = "pending" /\ ~orderRow.deleted
    \/ focus = "credential" /\ Wait(n)

Discharged(n) ==
    \/ focus = "outbox" /\ n \in Message /\ Settled(n)
    \/ focus = "lifecycle" /\ n \in Caller /\ CallerAt(n, "idle")
    \/ focus = "batch" /\ ~UnderWay
    \/ focus = "refresh" /\ (~JobRuns \/ Stopped)
    \/ focus = "order" /\ (reconciliation = "resolved" \/ orderRow.deleted)
    \/ focus = "credential" /\ ~Wait(n)

ServicesEnd == \A n \in 1 .. 3 : Obliged(n) ~> Discharged(n)

=============================================================================
