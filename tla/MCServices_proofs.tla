--------------------------- MODULE MCServices_proofs ---------------------------
(***************************************************************************)
(* Proofs about the notification outbox (NotificationOutbox), for any      *)
(* number of workers, messages, events and disturbances, and about the     *)
(* free-shipping stage of a bargain order (BargainStage), for any set of   *)
(* handlers and any number of cards, crashes and failing statements; and   *)
(* that what is proved of these and of the other services                  *)
(* (Services_proofs, PublishBatch_proofs) holds when they run side by side *)
(* (MCServices).                                                           *)
(*                                                                         *)
(* BargainSafe is not inductive: that a handler may call says nothing of   *)
(* what another handler, or the row, already knows.  OneSubmission adds    *)
(* what makes the row a lock: whoever is between the claim and the finish  *)
(* is alone and holds stage "running", and a stage that may still be       *)
(* claimed ("none", "failed") proves that nothing was freed.               *)
(***************************************************************************)
EXTENDS MCServices, Services_proofs, PublishBatch_proofs, FiniteSetTheorems, WellFoundedInduction, TLAPS

------------------------------------------------------------------------------
(* The free-shipping stage                                                 *)

\* Between the claim that was granted and the statement that ends it.
Submitting(h) == shipper[h].pc \in {"call", "finish"}

\* One handler submits at a time, and the row says so.
SubmitterHoldsRow ==
    /\ \A h \in BargainHandler : Submitting(h) => stage = "running"
    /\ \A g, h \in BargainHandler : Submitting(g) /\ Submitting(h) => g = h

\* What a handler is about to record is what the platform did.
ResultTrue ==
    \A h \in BargainHandler : ShipperAt(h, "finish") =>
        /\ shipper[h].err = "none" => freed = "yes"
        /\ shipper[h].err = "failed" => freed = "no"

\* A stage that can be claimed is one of an order nobody freed.
ClaimableNotFreed == stage \in {"none", "failed"} => freed = "no"

\* The two stages that the fallback scan takes, and the handlers on the way to
\* one of them, each have their reason.
ReasonKnown ==
    /\ stage = "succeeded" => freed = "yes"
    /\ stage = "ready" => readySeen
    /\ \A h \in BargainHandler : ShipperAt(h, "ready") => readySeen

OneSubmission ==
    /\ SubmitterHoldsRow /\ FreedOnce /\ ResultTrue /\ ClaimableNotFreed /\ ReasonKnown

BargainInv == BargainTypeOK /\ OneSubmission

-----------------------------------------------------------------------------
(* Moves of one handler                                                    *)

\* The six moves that write the handler's record.
LEMMA ShipperStep ==
    ASSUME BargainTypeOK, NEW h \in BargainHandler,
           \/ \E pc \in {"idle", "claim", "call", "finish", "ready"} : Advance(h, pc)
           \/ \E err \in ActionErr : Finished(h, err)
           \/ shipper' = [shipper EXCEPT ![h].recovery = FALSE]
           \/ shipper' = [shipper EXCEPT ![h] = IdleShipper]
    PROVE  shipper' \in [BargainHandler -> Shipper]
  <1>0. shipper \in [BargainHandler -> Shipper]
    BY DEF BargainTypeOK
  <1>1. shipper[h] \in Shipper
    BY <1>0
  <1>2. CASE \E pc \in {"idle", "claim", "call", "finish", "ready"} : Advance(h, pc)
    BY <1>0, <1>1, <1>2 DEF Advance, Shipper
  <1>3. CASE \E err \in ActionErr : Finished(h, err)
    <2>1. PICK err \in ActionErr : Finished(h, err)
      BY <1>3
    <2>2. [shipper[h] EXCEPT !.pc = "finish", !.err = err] \in Shipper
      BY <1>1 DEF Shipper
    <2> QED
      BY <1>0, <2>1, <2>2 DEF Finished
  <1>4. CASE shipper' = [shipper EXCEPT ![h].recovery = FALSE]
    BY <1>0, <1>1, <1>4 DEF Shipper
  <1>5. CASE shipper' = [shipper EXCEPT ![h] = IdleShipper]
    <2>1. IdleShipper \in Shipper
      BY DEF IdleShipper, Shipper, ActionErr
    <2> QED
      BY <1>0, <1>5, <2>1
  <1> QED
    BY <1>2, <1>3, <1>4, <1>5

\* A handler's step leaves everything well formed.
LEMMA TypeStep ==
    ASSUME BargainTypeOK, NEW h \in BargainHandler,
           \/ ClaimInsert(h) \/ ClaimRetry(h)
           \/ FreeShipAccepted(h) \/ FreeShipLost(h) \/ FreeShipRefused(h) \/ FreeShipExpired(h)
           \/ FinishBargainFreeShipping(h)
           \/ MarkReadyInsert(h) \/ MarkReadyUpdate(h)
           \/ BargainFails(h) \/ BargainCrash(h)
    PROVE  BargainTypeOK'
  <1>1. CASE ClaimInsert(h)
    <2>1. shipper' \in [BargainHandler -> Shipper]
      BY <1>1, ShipperStep DEF ClaimInsert
    <2>2. cards' \in [pending: 0 .. MaxPending, ready: 0 .. MaxReady]
      BY <1>1, BargainBounds DEF ClaimInsert, BargainTypeOK
    <2> QED
      BY <1>1, <2>1, <2>2 DEF ClaimInsert, BargainTypeOK, Stage
  <1>2. CASE ClaimRetry(h)
    <2>1. shipper' \in [BargainHandler -> Shipper]
      BY <1>2, ShipperStep DEF ClaimRetry
    <2> QED
      BY <1>2, <2>1 DEF ClaimRetry, BargainTypeOK, Stage
  <1>3. CASE FreeShipAccepted(h)
    <2>1. shipper' \in [BargainHandler -> Shipper]
      BY <1>3, ShipperStep DEF FreeShipAccepted, ActionErr
    <2> QED
      BY <1>3, <2>1 DEF FreeShipAccepted, BargainTypeOK
  <1>4. CASE FreeShipLost(h)
    <2>1. shipper' \in [BargainHandler -> Shipper]
      BY <1>4, ShipperStep DEF FreeShipLost, ActionErr
    <2> QED
      BY <1>4, <2>1 DEF FreeShipLost, BargainTypeOK
  <1>5. CASE FreeShipRefused(h)
    <2>1. shipper' \in [BargainHandler -> Shipper]
      BY <1>5, ShipperStep DEF FreeShipRefused, ActionErr
    <2> QED
      BY <1>5, <2>1 DEF FreeShipRefused, BargainTypeOK
  <1>6. CASE FreeShipExpired(h)
    <2>1. shipper' \in [BargainHandler -> Shipper]
      BY <1>6, ShipperStep DEF FreeShipExpired, ActionErr
    <2> QED
      BY <1>6, <2>1 DEF FreeShipExpired, BargainTypeOK
  <1>7. CASE FinishBargainFreeShipping(h)
    <2>1. shipper' \in [BargainHandler -> Shipper]
      BY <1>7, ShipperStep DEF FinishBargainFreeShipping
    <2>2. stage' \in Stage
      <3>1. shipper[h].err \in ActionErr
        BY DEF BargainTypeOK, Shipper
      <3> QED
        BY <1>7, <3>1 DEF FinishBargainFreeShipping, BargainTypeOK, FinalStage, ActionErr, Stage
    <2> QED
      BY <1>7, <2>1, <2>2 DEF FinishBargainFreeShipping, BargainTypeOK
  <1>8. CASE MarkReadyInsert(h)
    <2>1. shipper' \in [BargainHandler -> Shipper]
      BY <1>8, ShipperStep DEF MarkReadyInsert
    <2>2. cards' \in [pending: 0 .. MaxPending, ready: 0 .. MaxReady]
      BY <1>8, BargainBounds DEF MarkReadyInsert, BargainTypeOK
    <2> QED
      BY <1>8, <2>1, <2>2 DEF MarkReadyInsert, BargainTypeOK, Stage
  <1>9. CASE MarkReadyUpdate(h)
    <2>1. shipper' \in [BargainHandler -> Shipper]
      BY <1>9, ShipperStep DEF MarkReadyUpdate
    <2> QED
      BY <1>9, <2>1 DEF MarkReadyUpdate, BargainTypeOK, Stage
  <1>10. CASE BargainFails(h)
    <2>1. shipper' \in [BargainHandler -> Shipper]
      BY <1>10, ShipperStep DEF BargainFails
    <2>2. bargainEnv' \in 0 .. MaxBargainEnv
      BY <1>10, BargainBounds DEF BargainFails, BargainTypeOK
    <2> QED
      BY <1>10, <2>1, <2>2 DEF BargainFails, BargainTypeOK
  <1>11. CASE BargainCrash(h)
    <2>1. shipper' \in [BargainHandler -> Shipper]
      BY <1>11, ShipperStep DEF BargainCrash
    <2>2. bargainEnv' \in 0 .. MaxBargainEnv
      BY <1>11, BargainBounds DEF BargainCrash, BargainTypeOK
    <2> QED
      BY <1>11, <2>1, <2>2 DEF BargainCrash, BargainTypeOK
  <1> QED
    BY <1>1, <1>2, <1>3, <1>4, <1>5, <1>6, <1>7, <1>8, <1>9, <1>10, <1>11

-----------------------------------------------------------------------------
(* One submission                                                          *)

\* A claim is granted only on a row that proves that nothing was freed and
\* that nobody submits.
LEMMA ClaimStep ==
    ASSUME BargainInv, NEW h \in BargainHandler, ClaimInsert(h) \/ ClaimRetry(h)
    PROVE  OneSubmission'
  <1> USE DEF BargainInv, BargainTypeOK, OneSubmission, SubmitterHoldsRow, Submitting, FreedOnce,
              ResultTrue, ClaimableNotFreed, ReasonKnown, ShipperAt
  <1>1. \A g \in BargainHandler : g # h => shipper'[g] = shipper[g]
    BY DEF ClaimInsert, ClaimRetry, Advance
  <1>2. \/ stage \in {"none", "failed"} /\ stage' = "running" /\ shipper'[h].pc = "call"
        \/ stage' = stage /\ shipper'[h].pc \in {"claim", "idle"}
    BY DEF ClaimInsert, ClaimRetry, Advance, Shipper
  <1>3. freed' = freed /\ readySeen' = readySeen
    BY DEF ClaimInsert, ClaimRetry
  <1>4. CASE stage \in {"none", "failed"} /\ stage' = "running" /\ shipper'[h].pc = "call"
    <2>1. \A g \in BargainHandler : ~Submitting(g)
      BY <1>4
    <2> QED
      BY <1>1, <1>3, <1>4, <2>1
  <1>5. CASE stage' = stage /\ shipper'[h].pc \in {"claim", "idle"}
    BY <1>1, <1>3, <1>5
  <1> QED
    BY <1>2, <1>4, <1>5

\* The call and its result: the handler stays the one that submits.
LEMMA SubmitStep ==
    ASSUME BargainInv, NEW h \in BargainHandler,
           \/ FreeShipAccepted(h) \/ FreeShipLost(h) \/ FreeShipRefused(h) \/ FreeShipExpired(h)
    PROVE  OneSubmission'
  <1> USE DEF BargainInv, BargainTypeOK, OneSubmission, SubmitterHoldsRow, Submitting, FreedOnce,
              ResultTrue, ClaimableNotFreed, ReasonKnown, ShipperAt
  <1>0. shipper[h] \in Shipper /\ shipper[h].pc = "call" /\ stage = "running" /\ freed = "no"
    BY DEF FreeShipAccepted, FreeShipLost, FreeShipRefused, FreeShipExpired
  <1>1. \A g \in BargainHandler : g # h => shipper'[g] = shipper[g] /\ ~Submitting(g)
    BY <1>0 DEF FreeShipAccepted, FreeShipLost, FreeShipRefused, FreeShipExpired, Finished
  <1>2. stage' = stage /\ readySeen' = readySeen
    BY DEF FreeShipAccepted, FreeShipLost, FreeShipRefused, FreeShipExpired
  <1>3. \/ shipper'[h].pc = "call" /\ freed' = freed
        \/ shipper'[h].pc = "finish" /\ shipper'[h].err = "failed" /\ freed' = freed
        \/ shipper'[h].pc = "finish" /\ shipper'[h].err = "uncertain" /\ freed' \in {freed, "yes"}
        \/ shipper'[h].pc = "finish" /\ shipper'[h].err = "none" /\ freed' = "yes"
    <2>1. \A err \in ActionErr :
            Finished(h, err) => shipper'[h].pc = "finish" /\ shipper'[h].err = err
      BY <1>0 DEF Finished, Shipper
    <2>2. CASE FreeShipAccepted(h)
      BY <2>1, <2>2 DEF FreeShipAccepted, ActionErr
    <2>3. CASE FreeShipLost(h)
      BY <2>1, <2>3 DEF FreeShipLost, ActionErr
    <2>4. CASE FreeShipRefused(h)
      BY <2>1, <2>4 DEF FreeShipRefused, ActionErr
    <2>5. CASE FreeShipExpired(h)
      BY <1>0, <2>1, <2>5 DEF FreeShipExpired, ActionErr, Shipper
    <2> QED
      BY <2>2, <2>3, <2>4, <2>5
  <1>4. CASE shipper'[h].pc = "call"
    BY <1>0, <1>1, <1>2, <1>3, <1>4
  <1>5. CASE shipper'[h].pc = "finish"
    <2>1. SubmitterHoldsRow' /\ FreedOnce' /\ ClaimableNotFreed' /\ ReasonKnown'
      BY <1>0, <1>1, <1>2, <1>5
    <2>2. ResultTrue'
      BY <1>0, <1>1, <1>3, <1>5
    <2> QED
      BY <2>1, <2>2
  <1> QED
    BY <1>3, <1>4, <1>5

\* The end of a submission writes what the handler knows.
LEMMA FinishStep ==
    ASSUME BargainInv, NEW h \in BargainHandler, FinishBargainFreeShipping(h)
    PROVE  OneSubmission'
  <1> USE DEF BargainInv, BargainTypeOK, OneSubmission, SubmitterHoldsRow, Submitting, FreedOnce,
              ResultTrue, ClaimableNotFreed, ReasonKnown, ShipperAt
  <1>0. /\ shipper[h] \in Shipper /\ shipper[h].pc = "finish" /\ stage = "running"
        /\ freed' = freed /\ readySeen' = readySeen /\ shipper'[h].pc = "idle"
    BY DEF FinishBargainFreeShipping, IdleShipper
  <1>1. \A g \in BargainHandler : g # h => shipper'[g] = shipper[g] /\ ~Submitting(g)
    BY <1>0 DEF FinishBargainFreeShipping
  <1>2. \/ stage' = "succeeded" /\ freed = "yes"
        \/ stage' = "needs_review"
        \/ stage' = "failed" /\ freed = "no"
    BY <1>0 DEF FinishBargainFreeShipping, FinalStage, Shipper, ActionErr
  <1> QED
    BY <1>0, <1>1, <1>2

\* A ready card takes a row that nobody submits with, and says why.
LEMMA ReadyStep ==
    ASSUME BargainInv, NEW h \in BargainHandler, MarkReadyInsert(h) \/ MarkReadyUpdate(h)
    PROVE  OneSubmission'
  <1> USE DEF BargainInv, BargainTypeOK, OneSubmission, SubmitterHoldsRow, Submitting, FreedOnce,
              ResultTrue, ClaimableNotFreed, ReasonKnown, ShipperAt
  <1>1. \A g \in BargainHandler : g # h => shipper'[g] = shipper[g]
    BY DEF MarkReadyInsert, MarkReadyUpdate, Advance
  <1>2. shipper'[h].pc \in {"ready", "idle"} /\ readySeen' /\ freed' = freed
    BY DEF MarkReadyInsert, MarkReadyUpdate, Advance, Shipper
  <1>3. \/ stage' = stage
        \/ stage \in {"none", "failed"} /\ stage' = "ready"
    BY DEF MarkReadyInsert, MarkReadyUpdate
  <1> QED
    BY <1>1, <1>2, <1>3

\* A handler that dies leaves the row as it is: a row of which nobody knows
\* the result stays "running" and is not claimed again.
LEMMA DisturbanceStep ==
    ASSUME BargainInv, NEW h \in BargainHandler, BargainFails(h) \/ BargainCrash(h)
    PROVE  OneSubmission'
  <1> USE DEF BargainInv, BargainTypeOK, OneSubmission, SubmitterHoldsRow, Submitting, FreedOnce,
              ResultTrue, ClaimableNotFreed, ReasonKnown, ShipperAt
  <1>1. \A g \in BargainHandler : g # h => shipper'[g] = shipper[g]
    BY DEF BargainFails, BargainCrash
  <1>2. shipper'[h].pc = "idle" /\ stage' = stage /\ readySeen' = readySeen
    BY DEF BargainFails, BargainCrash, IdleShipper
  <1>3. \/ freed' = freed
        \/ shipper[h].pc = "call" /\ freed' = "yes"
    BY DEF BargainFails, BargainCrash
  <1>4. CASE freed' = freed
    BY <1>1, <1>2, <1>4
  <1>5. CASE shipper[h].pc = "call" /\ freed' = "yes"
    <2>1. stage = "running" /\ \A g \in BargainHandler : ~Submitting(g)'
      BY <1>1, <1>2, <1>5
    <2>2. SubmitterHoldsRow' /\ FreedOnce' /\ ResultTrue'
      BY <2>1
    <2>3. ClaimableNotFreed' /\ ReasonKnown'
      BY <1>1, <1>2, <1>5, <2>1
    <2> QED
      BY <2>2, <2>3
  <1> QED
    BY <1>3, <1>4, <1>5

-----------------------------------------------------------------------------
(* Theorems                                                                *)

\* The inductive invariant holds of every reachable state.
THEOREM BargainInvariant == BargainSpec => []BargainInv
  <1>1. BargainInit => BargainInv
    <2> SUFFICES ASSUME BargainInit PROVE BargainInv
      OBVIOUS
    <2>1. IdleShipper \in Shipper
      BY DEF IdleShipper, Shipper, ActionErr
    <2>2. shipper \in [BargainHandler -> Shipper] /\ \A h \in BargainHandler : ShipperAt(h, "idle")
      <3>1. IdleShipper.pc = "idle"
        BY DEF IdleShipper
      <3> QED
        BY <2>1, <3>1 DEF BargainInit, ShipperAt
    <2>3. BargainTypeOK
      <3>1. MaxPending \in 0 .. MaxPending /\ MaxReady \in 0 .. MaxReady
        BY BargainBounds
      <3>2. cards \in [pending: 0 .. MaxPending, ready: 0 .. MaxReady]
        BY <3>1 DEF BargainInit
      <3>3. bargainEnv \in 0 .. MaxBargainEnv
        BY BargainBounds DEF BargainInit
      <3>4. stage \in Stage /\ freed \in {"no", "yes"} /\ readySeen \in BOOLEAN
        BY DEF BargainInit, Stage
      <3> QED
        BY <2>2, <3>2, <3>3, <3>4 DEF BargainTypeOK
    <2>4. OneSubmission
      BY <2>2 DEF BargainInit, OneSubmission, SubmitterHoldsRow, Submitting, FreedOnce, ResultTrue,
                  ClaimableNotFreed, ReasonKnown, ShipperAt
    <2> QED
      BY <2>3, <2>4 DEF BargainInv
  <1>2. BargainInv /\ [BargainNext]_bargainVars => BargainInv'
    <2> SUFFICES ASSUME BargainInv, [BargainNext]_bargainVars PROVE BargainInv'
      OBVIOUS
    <2>1. CASE UNCHANGED bargainVars
      BY <2>1 DEF bargainVars, BargainInv, BargainTypeOK, OneSubmission, SubmitterHoldsRow,
                  Submitting, FreedOnce, ResultTrue, ClaimableNotFreed, ReasonKnown, ShipperAt
    <2>2. CASE BargainNext
      BY <2>2, TypeStep, ClaimStep, SubmitStep, FinishStep, ReadyStep, DisturbanceStep
         DEF BargainNext, BargainInv
    <2> QED
      BY <2>1, <2>2
  <1> QED
    BY <1>1, <1>2, PTL DEF BargainSpec

\* The row, the handlers and the cards stay well formed.
THEOREM TypeCorrect == BargainSpec => []BargainTypeOK
  BY BargainInvariant, PTL DEF BargainInv

\* However many handlers, cards, crashes and failing statements there are, an
\* order that the platform has freed is never submitted again, and the
\* fallback scan delivers only an order that was freed or announced as ready.
THEOREM SubmittedOnce == BargainSpec => []BargainSafe
  <1>1. BargainInv => BargainSafe
    BY DEF BargainInv, BargainTypeOK, BargainSafe, OneSubmission, EligibleJustified, ReasonKnown
  <1> QED
    BY <1>1, BargainInvariant, PTL

------------------------------------------------------------------------------
(* The outbox                                                              *)

-----------------------------------------------------------------------------
(* The inductive invariant                                                 *)

\* A worker that has message m in its batch and has not heard that it was accepted.
MaySend(w, m) ==
    /\ m \in worker[w].batch
    /\ ~(worker[w].pc \in {"complete", "uncertain"} /\ m = Current(w))
Senders(m) == {w \in Worker : MaySend(w, m)}

\* A drain has a batch when it works on one, and candidates only while it claims.
DrainsFormed ==
    \A w \in Worker :
        /\ worker[w].pc = "idle" => worker[w].batch = {}
        /\ worker[w].pc \notin {"idle", "claim"} => worker[w].batch # {}
        /\ worker[w].pc # "claim" => worker[w].todo = {}
        /\ worker[w].todo \cap worker[w].batch = {}

\* What a worker believes due is due: the UPDATE repeats the read's condition.
TodoDue == \A w \in Worker : \A m \in worker[w].todo : Due(m)

\* Every insertion and every takeover pays for one acceptance that a worker
\* hears of.  A row that waits and every worker that may still send have one
\* to their credit, and an acceptance nobody hears of costs nothing.
CreditKept ==
    \A m \in Message :
        /\ IsFiniteSet(Senders(m))
        /\ Cardinality(Senders(m)) + (IF row[m].status = "pending" THEN 1 ELSE 0) + Heard(m)
              <= inserted[m] + taken[m]

OutboxInv == TypeOK /\ DrainsFormed /\ TodoDue /\ CreditKept

-----------------------------------------------------------------------------
(* The operators                                                           *)

\* The batch is worked on from its smallest row on.
LEMMA SmallestMember ==
    ASSUME NEW S, S \subseteq Nat, S # {}
    PROVE  First(S) \in S
<1> DEFINE Less == OpToRel(<, Nat)
<1>1. IsWellFoundedOn(Less, Nat)
  BY NatLessThanWellFounded
<1>2. PICK m \in S : \A k \in S : <<k, m>> \notin Less
  <2> HIDE DEF Less
  <2>1. QED
    BY <1>1, WFMin
<1>3. \A k \in S : m <= k
  <2>1. \A k \in S : ~(k < m)
    BY <1>2 DEF OpToRel
  <2>2. QED
    BY <2>1
<1>4. QED
  BY <1>3 DEF First

LEMMA CurrentInBatch ==
    ASSUME TypeOK, NEW w \in Worker, worker[w].batch # {}
    PROVE  Current(w) \in worker[w].batch /\ Current(w) \in Message
<1>1. worker[w].batch \subseteq Message
  BY DEF TypeOK, WorkerState
<1>2. QED
  BY <1>1, MessageAssumption, SmallestMember DEF Current

LEMMA WorkerIdleType == Idle \in WorkerState /\ NoRow \in Row
BY OutboxBounds DEF Idle, WorkerState, NoRow, Row, Status

\* Removing a candidate everywhere touches nothing else.
LEMMA ChangedEffect ==
    ASSUME NEW workers \in [Worker -> WorkerState], NEW m
    PROVE  /\ Changed(workers, m) \in [Worker -> WorkerState]
           /\ \A v \in Worker : /\ Changed(workers, m)[v].pc = workers[v].pc
                                /\ Changed(workers, m)[v].batch = workers[v].batch
                                /\ Changed(workers, m)[v].todo = workers[v].todo \ {m}
<1>1. ASSUME NEW v \in Worker
      PROVE  /\ [workers[v] EXCEPT !.todo = @ \ {m}] \in WorkerState
             /\ [workers[v] EXCEPT !.todo = @ \ {m}].pc = workers[v].pc
             /\ [workers[v] EXCEPT !.todo = @ \ {m}].batch = workers[v].batch
             /\ [workers[v] EXCEPT !.todo = @ \ {m}].todo = workers[v].todo \ {m}
  <2>1. workers[v] \in WorkerState
    OBVIOUS
  <2>2. workers[v].todo \ {m} \in SUBSET Message
    BY <2>1 DEF WorkerState
  <2>3. QED
    BY <2>1, <2>2 DEF WorkerState
<1>2. QED
  BY <1>1 DEF Changed

\* What the loop leaves of the batch.
LEMMA RestEffect ==
    ASSUME TypeOK, NEW w \in Worker
    PROVE  /\ Rest(w) \in [Worker -> WorkerState]
           /\ Rest(w)[w].batch = worker[w].batch \ {Current(w)}
           /\ Rest(w)[w].todo = {}
           /\ Rest(w)[w].pc = IF worker[w].batch \ {Current(w)} = {} THEN "idle" ELSE "next"
           /\ \A v \in Worker \ {w} : Rest(w)[v] = worker[v]
<1> DEFINE rest == worker[w].batch \ {Current(w)}
           state == [Idle EXCEPT !.pc = IF rest = {} THEN "idle" ELSE "next", !.batch = rest]
<1>1. worker \in [Worker -> WorkerState] /\ rest \in SUBSET Message
  BY DEF TypeOK, WorkerState
<1>2. /\ state.batch = rest /\ state.todo = {}
      /\ state.pc = IF rest = {} THEN "idle" ELSE "next"
  BY DEF Idle
<1>3. state \in WorkerState
  <2>1. /\ Idle \in WorkerState /\ rest \in SUBSET Message
        /\ (IF rest = {} THEN "idle" ELSE "next") \in {"idle", "next"}
    BY <1>1, WorkerIdleType
  <2> HIDE DEF rest
  <2>2. QED
    BY <2>1 DEF WorkerState
<1>4. Rest(w) = [worker EXCEPT ![w] = state]
  BY DEF Rest
<1> HIDE DEF state, rest
<1>5. QED
  BY <1>1, <1>2, <1>3, <1>4 DEF rest

\* A worker that goes on to another statement for the same message.
LEMMA GotoEffect ==
    ASSUME TypeOK, NEW w \in Worker, Goto(w, "send") \/ Goto(w, "retry") \/ Goto(w, "purge")
               \/ Goto(w, "complete") \/ Goto(w, "uncertain")
    PROVE  /\ worker' \in [Worker -> WorkerState]
           /\ worker'[w].batch = worker[w].batch /\ worker'[w].todo = worker[w].todo
           /\ worker'[w].pc \notin {"idle", "claim"}
           /\ \A v \in Worker \ {w} : worker'[v] = worker[v]
<1>1. worker \in [Worker -> WorkerState] /\ worker[w] \in WorkerState
  BY DEF TypeOK
<1>2. PICK pc \in {"send", "retry", "purge", "complete", "uncertain"} :
          worker' = [worker EXCEPT ![w] = [worker[w] EXCEPT !.pc = pc]]
  BY <1>1 DEF Goto
<1> DEFINE state == [worker[w] EXCEPT !.pc = pc]
<1>3. /\ state \in WorkerState /\ state.pc = pc /\ state.batch = worker[w].batch
      /\ state.todo = worker[w].todo
  BY <1>1 DEF WorkerState
<1>4. worker' = [worker EXCEPT ![w] = state]
  BY <1>2
<1> HIDE DEF state
<1>5. QED
  BY <1>1, <1>3, <1>4

-----------------------------------------------------------------------------
(* Steps that leave the table alone                                        *)

\* No worker hears of an acceptance.
HearsNothing ==
    /\ UNCHANGED <<inserted, taken>>
    /\ accepted' \in [Message -> Nat] /\ unheard' \in [Message -> Nat]
    /\ \A m \in Message : Heard(m)' = Heard(m)

LEMMA NothingHeard ==
    ASSUME TypeOK, UNCHANGED history
    PROVE  HearsNothing
BY DEF TypeOK, history, HearsNothing, Heard

\* A worker starts, goes on, or stops: nobody may send who might not before,
\* and a new list of candidates is one of due rows.
StepsBack ==
    /\ worker' \in [Worker -> WorkerState]
    /\ reports' \in 0 .. MaxReports /\ env' \in 0 .. MaxEnv
    /\ UNCHANGED row /\ HearsNothing
    /\ \A w \in Worker :
          \/ worker'[w] = worker[w]
          \/ /\ worker'[w].pc = "idle" => worker'[w].batch = {}
             /\ worker'[w].pc \notin {"idle", "claim"} => worker'[w].batch # {}
             /\ worker'[w].pc # "claim" => worker'[w].todo = {}
             /\ worker'[w].todo \cap worker'[w].batch = {}
             /\ worker'[w].todo \subseteq {m \in Message : Due(m)}
             /\ \A m \in Message : MaySend(w, m)' => MaySend(w, m)

LEMMA StepsBackKeeps ==
    ASSUME OutboxInv, StepsBack
    PROVE  OutboxInv'
<1>1. TypeOK'
  BY DEF OutboxInv, TypeOK, StepsBack, HearsNothing
<1>2. DrainsFormed'
  BY DEF OutboxInv, DrainsFormed, StepsBack
<1>3. TodoDue'
  <2>1. \A m : Due(m)' <=> Due(m)
    BY DEF Due, StepsBack
  <2>2. QED
    BY <2>1 DEF OutboxInv, TodoDue, StepsBack
<1>4. CreditKept'
  <2> SUFFICES ASSUME NEW m \in Message
               PROVE  /\ IsFiniteSet(Senders(m)')
                      /\ Cardinality(Senders(m)') + (IF row'[m].status = "pending" THEN 1 ELSE 0)
                           + Heard(m)' <= inserted'[m] + taken'[m]
    BY DEF CreditKept
  <2>1. \A w \in Worker : MaySend(w, m)' => MaySend(w, m)
    BY DEF StepsBack, MaySend, Current
  <2>2. Senders(m)' \in SUBSET Senders(m)
    BY <2>1 DEF Senders
  <2>3. /\ IsFiniteSet(Senders(m))
        /\ Cardinality(Senders(m)) + (IF row[m].status = "pending" THEN 1 ELSE 0) + Heard(m)
              <= inserted[m] + taken[m]
    BY DEF OutboxInv, CreditKept
  <2>4. inserted[m] \in Nat /\ taken[m] \in Nat /\ Heard(m) \in Int
    BY DEF OutboxInv, TypeOK, Heard
  <2>5. /\ IsFiniteSet(Senders(m)') /\ Cardinality(Senders(m)') <= Cardinality(Senders(m))
        /\ Cardinality(Senders(m)) \in Nat /\ Cardinality(Senders(m)') \in Nat
    BY <2>2, <2>3, FS_Subset, FS_CardinalityType
  <2>6. QED
    BY <2>3, <2>4, <2>5 DEF StepsBack, HearsNothing
<1>5. QED
  BY <1>1, <1>2, <1>3, <1>4 DEF OutboxInv

\* One worker is replaced by a state that may not send more.
LEMMA OneStepsBack ==
    ASSUME OutboxInv, NEW w \in Worker, NEW state \in WorkerState,
           worker' = [worker EXCEPT ![w] = state], UNCHANGED <<row, reports>>, HearsNothing,
           env' \in 0 .. MaxEnv,
           state.pc = "idle" => state.batch = {},
           state.pc \notin {"idle", "claim"} => state.batch # {},
           state.pc # "claim" => state.todo = {},
           state.todo \cap state.batch = {},
           state.todo \subseteq {m \in Message : Due(m)},
           \A m \in Message : MaySend(w, m)' => MaySend(w, m)
    PROVE  OutboxInv'
<1>1. worker \in [Worker -> WorkerState] /\ reports \in 0 .. MaxReports
  BY DEF OutboxInv, TypeOK
<1>2. /\ worker' \in [Worker -> WorkerState] /\ worker'[w] = state
      /\ \A v \in Worker : v # w => worker'[v] = worker[v]
  BY <1>1
<1>3. StepsBack
  BY <1>1, <1>2 DEF StepsBack
<1>4. QED
  BY <1>3, StepsBackKeeps

LEMMA KeptIdle ==
    ASSUME OutboxInv, NEW w \in Worker, worker' = [worker EXCEPT ![w] = Idle],
           UNCHANGED <<row, reports>>, HearsNothing, env' \in 0 .. MaxEnv
    PROVE  OutboxInv'
<1>1. Idle.pc = "idle" /\ Idle.batch = {} /\ Idle.todo = {}
  BY DEF Idle
<1>2. worker \in [Worker -> WorkerState]
  BY DEF OutboxInv, TypeOK
<1>3. \A m \in Message : MaySend(w, m)' => MaySend(w, m)
  BY <1>1, <1>2 DEF MaySend
<1>4. QED
  BY <1>1, <1>3, WorkerIdleType, OneStepsBack

\* The loop goes on with the rest of the batch.
LEMMA KeptContinue ==
    ASSUME OutboxInv, NEW w \in Worker, worker' = Rest(w),
           UNCHANGED <<row, reports>>, HearsNothing, env' \in 0 .. MaxEnv
    PROVE  OutboxInv'
<1>1. /\ worker' \in [Worker -> WorkerState]
      /\ worker'[w].batch = worker[w].batch \ {Current(w)} /\ worker'[w].todo = {}
      /\ worker'[w].pc = IF worker[w].batch \ {Current(w)} = {} THEN "idle" ELSE "next"
      /\ \A v \in Worker \ {w} : worker'[v] = worker[v]
  BY RestEffect DEF OutboxInv
<1>2. \A m \in Message : MaySend(w, m)' => MaySend(w, m)
  BY <1>1 DEF MaySend
<1>3. reports \in 0 .. MaxReports
  BY DEF OutboxInv, TypeOK
<1>4. StepsBack
  BY <1>1, <1>2, <1>3 DEF StepsBack
<1>5. QED
  BY <1>4, StepsBackKeeps

LEMMA KeptGoto ==
    ASSUME OutboxInv, NEW w \in Worker, worker[w].pc \notin {"idle", "claim"},
           NEW pc \in {"send", "retry", "purge", "uncertain"}, Goto(w, pc),
           pc = "uncertain" \/ worker[w].pc \notin {"complete", "uncertain"},
           UNCHANGED <<row, reports>>, HearsNothing, env' \in 0 .. MaxEnv
    PROVE  OutboxInv'
<1>1. worker \in [Worker -> WorkerState] /\ worker[w] \in WorkerState
  BY DEF OutboxInv, TypeOK
<1> DEFINE state == [worker[w] EXCEPT !.pc = pc]
<1>2. /\ state \in WorkerState /\ state.pc = pc /\ state.batch = worker[w].batch
      /\ state.todo = worker[w].todo
  BY <1>1 DEF WorkerState
<1>3. worker' = [worker EXCEPT ![w] = state]
  BY <1>1 DEF Goto
<1> HIDE DEF state
<1>4. worker[w].batch # {} /\ worker[w].todo = {}
  BY DEF OutboxInv, DrainsFormed
<1>5. worker'[w] = state
  BY <1>1, <1>3
<1>6. Current(w)' = Current(w)
  BY <1>2, <1>5 DEF Current
<1>7. \A m \in Message : MaySend(w, m)' => MaySend(w, m)
  BY <1>2, <1>5, <1>6 DEF MaySend
<1>8. QED
  BY <1>2, <1>3, <1>4, <1>7, OneStepsBack

LEMMA KeptStepBack ==
    ASSUME OutboxInv, NEW w \in Worker,
           \/ ReadDue(w) \/ EndClaim(w) \/ GetChannel(w) \/ SendFails(w)
           \/ CompleteFails(w) \/ IsolationFails(w) \/ StatementFails(w) \/ Crash(w)
    PROVE  OutboxInv'
<1>1. worker \in [Worker -> WorkerState] /\ worker[w] \in WorkerState /\ env \in 0 .. MaxEnv
  BY DEF OutboxInv, TypeOK
<1>2. env > 0 => env - 1 \in 0 .. MaxEnv
  BY <1>1, OutboxBounds
<1>3. UNCHANGED <<row, reports>> /\ HearsNothing /\ env' \in 0 .. MaxEnv
  <2>1. UNCHANGED <<row, reports>> /\ env' \in 0 .. MaxEnv
    BY <1>1, <1>2 DEF ReadDue, EndClaim, GetChannel, SendFails, CompleteFails, IsolationFails,
       StatementFails, Crash
  <2>2. CASE SendFails(w)
    <3>1. accepted \in [Message -> Nat] /\ unheard \in [Message -> Nat] /\ UNCHANGED <<inserted, taken>>
      BY <2>2 DEF OutboxInv, TypeOK, SendFails
    <3>2. \/ accepted' = accepted /\ unheard' = unheard
          \/ /\ accepted' = [accepted EXCEPT ![Current(w)] = @ + 1]
             /\ unheard' = [unheard EXCEPT ![Current(w)] = @ + 1]
      BY <2>2 DEF SendFails
    <3>3. QED
      BY <2>1, <3>1, <3>2 DEF HearsNothing, Heard
  <2>3. CASE ~SendFails(w)
    <3>1. UNCHANGED history
      BY <2>3 DEF ReadDue, EndClaim, GetChannel, CompleteFails, IsolationFails, StatementFails, Crash
    <3>2. QED
      BY <2>1, <3>1, NothingHeard DEF OutboxInv
  <2>4. QED
    BY <2>1, <2>2, <2>3
<1>4. CASE ReadDue(w)
  <2> DEFINE state == [Idle EXCEPT !.pc = "claim", !.todo = {m \in Message : Due(m)}]
  <2>1. /\ state.pc = "claim" /\ state.todo = {m \in Message : Due(m)} /\ state.batch = {}
        /\ state \in WorkerState
    BY DEF Idle, WorkerState
  <2>2. worker' = [worker EXCEPT ![w] = state]
    BY <1>4 DEF ReadDue
  <2> HIDE DEF state
  <2>3. \A m \in Message : MaySend(w, m)' => MaySend(w, m)
    BY <1>1, <2>1, <2>2 DEF MaySend
  <2>4. QED
    BY <1>3, <2>1, <2>2, <2>3, OneStepsBack
<1>5. CASE EndClaim(w)
  <2> DEFINE pc == IF worker[w].batch = {} THEN "idle" ELSE "next"
             state == [worker[w] EXCEPT !.pc = pc]
  <2>1. /\ state.pc = pc /\ state.todo = {} /\ state.batch = worker[w].batch
        /\ state \in WorkerState
    BY <1>1, <1>5 DEF EndClaim, WorkerState
  <2>2. worker' = [worker EXCEPT ![w] = state]
    BY <1>1, <1>5 DEF EndClaim
  <2> HIDE DEF state
  <2>3. \A m \in Message : MaySend(w, m)' => MaySend(w, m)
    BY <1>1, <1>5, <2>1, <2>2 DEF MaySend, EndClaim, At
  <2>4. QED
    BY <1>3, <2>1, <2>2, <2>3, OneStepsBack
<1>6. CASE GetChannel(w) \/ SendFails(w)
  BY <1>3, <1>6, KeptGoto DEF GetChannel, SendFails, At
<1>7. CASE CompleteFails(w)
  BY <1>3, <1>7, KeptGoto, KeptContinue DEF CompleteFails, At, Continue
<1>8. CASE IsolationFails(w)
  BY <1>3, <1>8, KeptContinue DEF IsolationFails, Continue
<1>9. CASE StatementFails(w) \/ Crash(w)
  BY <1>3, <1>9, KeptIdle, KeptContinue DEF StatementFails, Crash, Continue
<1>10. QED
  BY <1>4, <1>5, <1>6, <1>7, <1>8, <1>9

-----------------------------------------------------------------------------
(* Steps that write the table                                              *)

\* What CreditKept says of one message.
Credit(m) ==
    /\ IsFiniteSet(Senders(m))
    /\ Cardinality(Senders(m)) + (IF row[m].status = "pending" THEN 1 ELSE 0) + Heard(m)
          <= inserted[m] + taken[m]

LEMMA CreditTypes ==
    ASSUME OutboxInv, NEW m \in Message
    PROVE  /\ Credit(m) /\ Cardinality(Senders(m)) \in Nat
           /\ inserted[m] \in Nat /\ taken[m] \in Nat /\ Heard(m) \in Int
           /\ row[m] \in Row
BY FS_CardinalityType DEF OutboxInv, CreditKept, Credit, TypeOK, Heard

LEMMA CreditOfAll ==
    ASSUME \A m \in Message : Credit(m)'
    PROVE  CreditKept'
BY DEF CreditKept, Credit

\* An event is written for the channels that do not have it yet.
LEMMA KeptEnqueueOutbox ==
    ASSUME OutboxInv, NEW e \in Event, EnqueueOutbox(e)
    PROVE  OutboxInv'
<1> DEFINE new == {m \in e : row[m].status = "none"}
           Pending == [NoRow EXCEPT !.status = "pending"]
<1>1. /\ TypeOK /\ worker' = worker /\ env' = env /\ taken' = taken
      /\ accepted' = accepted /\ unheard' = unheard
  BY DEF OutboxInv, EnqueueOutbox
<1>2. /\ Pending \in Row /\ Pending.status = "pending" /\ Pending.owner = Nobody
      /\ Pending.leased = FALSE
  BY WorkerIdleType DEF NoRow, Row, Status
<1>3. /\ row' = [m \in Message |-> IF m \in new THEN Pending ELSE row[m]]
      /\ inserted' = [m \in Message |-> IF m \in new THEN inserted[m] + 1 ELSE inserted[m]]
      /\ reports > 0 /\ reports' = reports - 1
  BY DEF EnqueueOutbox
<1> HIDE DEF Pending
<1>4. TypeOK'
  <2>1. row' \in [Message -> Row]
    BY <1>1, <1>2, <1>3 DEF TypeOK
  <2>2. reports' \in 0 .. MaxReports
    BY <1>1, <1>3, OutboxBounds DEF TypeOK
  <2>3. inserted' \in [Message -> Nat]
    <3>1. \A m \in Message : inserted[m] \in Nat /\ inserted[m] + 1 \in Nat
      BY <1>1 DEF TypeOK
    <3>2. QED
      BY <1>3, <3>1
  <2>4. \A m \in Message : row'[m].status # "running" => row'[m].owner = Nobody /\ ~row'[m].leased
    BY <1>1, <1>2, <1>3 DEF TypeOK
  <2>5. QED
    BY <1>1, <2>1, <2>2, <2>3, <2>4 DEF TypeOK
<1>5. DrainsFormed'
  BY <1>1 DEF OutboxInv, DrainsFormed
<1>6. TodoDue'
  <2>1. ASSUME NEW w \in Worker, NEW m \in worker[w].todo
        PROVE  Due(m)'
    <3>1. Due(m) /\ m \in Message
      BY <1>1 DEF OutboxInv, TodoDue, TypeOK, WorkerState
    <3>2. row'[m] = row[m]
      BY <1>3, <3>1 DEF Due
    <3>3. QED
      BY <3>1, <3>2 DEF Due
  <2>2. QED
    BY <1>1, <2>1 DEF TodoDue
<1>7. ASSUME NEW m \in Message
      PROVE  Credit(m)'
  <2>1. Senders(m)' = Senders(m)
    BY <1>1 DEF Senders, MaySend, Current
  <2>2. /\ row'[m] = IF m \in new THEN Pending ELSE row[m]
        /\ inserted'[m] = IF m \in new THEN inserted[m] + 1 ELSE inserted[m]
    BY <1>3
  <2>3. QED
    BY <1>1, <1>2, <2>1, <2>2, CreditTypes DEF Credit, Heard
<1>8. QED
  BY <1>4, <1>5, <1>6, <1>7, CreditOfAll DEF OutboxInv

\* A lease runs out: the row is due, for nobody in particular.
LEMMA KeptLapse ==
    ASSUME OutboxInv, NEW m \in Message, Lapse(m)
    PROVE  OutboxInv'
<1>1. /\ TypeOK /\ UNCHANGED <<worker, reports, inserted, taken, accepted, unheard>>
      /\ row \in [Message -> Row] /\ row[m] \in Row
  BY DEF OutboxInv, Lapse, history, TypeOK
<1> DEFINE lapsed == [row[m] EXCEPT !.leased = FALSE]
<1>2. /\ lapsed \in Row /\ lapsed.status = "running" /\ lapsed.leased = FALSE
      /\ lapsed.owner = row[m].owner
  BY <1>1 DEF Lapse, Row
<1>3. row' = [row EXCEPT ![m] = lapsed] /\ row[m].status = "running"
  BY <1>1 DEF Lapse
<1> HIDE DEF lapsed
<1>4. /\ row' \in [Message -> Row] /\ row'[m] = lapsed
      /\ \A k \in Message : k # m => row'[k] = row[k]
  BY <1>1, <1>2, <1>3
<1>5. env' \in 0 .. MaxEnv
  BY <1>1, OutboxBounds DEF Lapse, TypeOK
<1>6. TypeOK'
  BY <1>1, <1>2, <1>4, <1>5 DEF TypeOK
<1>7. DrainsFormed'
  BY <1>1 DEF OutboxInv, DrainsFormed
<1>8. TodoDue'
  <2>1. ASSUME NEW w \in Worker, NEW k \in worker[w].todo
        PROVE  Due(k)'
    <3>1. Due(k) /\ k \in Message
      BY <1>1 DEF OutboxInv, TodoDue, TypeOK, WorkerState
    <3>2. CASE k = m
      BY <1>2, <1>4, <3>2 DEF Due
    <3>3. CASE k # m
      BY <1>4, <3>1, <3>3 DEF Due
    <3>4. QED
      BY <3>2, <3>3
  <2>2. QED
    BY <1>1, <2>1 DEF TodoDue
<1>9. ASSUME NEW k \in Message
      PROVE  Credit(k)'
  <2>1. Senders(k)' = Senders(k)
    BY <1>1 DEF Senders, MaySend, Current
  <2>2. row'[k].status = row[k].status
    BY <1>2, <1>3, <1>4
  <2>3. QED
    BY <1>1, <2>1, <2>2, CreditTypes DEF Credit, Heard
<1>10. QED
  BY <1>6, <1>7, <1>8, <1>9, CreditOfAll DEF OutboxInv

\* The claim of one candidate: the waiting row's credit becomes the worker's,
\* and a takeover brings its own.
LEMMA KeptClaimOutbox ==
    ASSUME OutboxInv, NEW w \in Worker, ClaimOutbox(w)
    PROVE  OutboxInv'
<1> DEFINE m == First(worker[w].todo)
           with == [worker EXCEPT ![w].todo = @ \ {m}, ![w].batch = @ \cup {m}]
           claimed == [status |-> "running", owner |-> w, leased |-> TRUE,
                       attempts |-> IF row[m].attempts < MaxAttempts
                                    THEN row[m].attempts + 1 ELSE MaxAttempts]
<1>1. /\ TypeOK /\ row \in [Message -> Row] /\ worker \in [Worker -> WorkerState]
      /\ worker[w] \in WorkerState
  BY DEF OutboxInv, TypeOK
<1>2. m \in worker[w].todo /\ m \in Message /\ Due(m) /\ m \notin worker[w].batch
  <2>1. worker[w].todo # {} /\ worker[w].todo \subseteq Message
    BY <1>1 DEF ClaimOutbox, WorkerState
  <2>2. m \in worker[w].todo
    BY <2>1, MessageAssumption, SmallestMember
  <2>3. QED
    BY <2>1, <2>2 DEF OutboxInv, TodoDue, DrainsFormed
<1>3. /\ worker' = Changed(with, m) /\ row' = [row EXCEPT ![m] = claimed]
      /\ worker[w].pc = "claim" /\ UNCHANGED <<reports, env, inserted, accepted, unheard>>
      /\ taken' = IF row[m].status = "running" /\ ~row[m].leased
                  THEN [taken EXCEPT ![m] = @ + 1] ELSE taken
  BY DEF ClaimOutbox, At
<1>4. /\ with \in [Worker -> WorkerState] /\ with[w].pc = "claim"
      /\ with[w].batch = worker[w].batch \cup {m} /\ with[w].todo = worker[w].todo \ {m}
      /\ \A v \in Worker : v # w => with[v] = worker[v]
  <2> DEFINE state == [worker[w] EXCEPT !.todo = @ \ {m}, !.batch = @ \cup {m}]
  <2>1. /\ state \in WorkerState /\ state.pc = "claim"
        /\ state.batch = worker[w].batch \cup {m} /\ state.todo = worker[w].todo \ {m}
    <3>1. worker[w].todo \ {m} \in SUBSET Message /\ worker[w].batch \cup {m} \in SUBSET Message
      BY <1>1, <1>2 DEF WorkerState
    <3> HIDE DEF m
    <3>2. QED
      BY <1>1, <1>3, <3>1 DEF WorkerState
  <2>2. with = [worker EXCEPT ![w] = state]
    BY <1>1
  <2> HIDE DEF state, with, m
  <2>3. QED
    BY <1>1, <2>1, <2>2
<1> HIDE DEF with, m
<1>5. claimed \in Row /\ claimed.status = "running" /\ claimed.owner = w /\ claimed.leased = TRUE
  <2>1. row[m].attempts \in 0 .. MaxAttempts
    BY <1>1, <1>2 DEF Row
  <2>2. (IF row[m].attempts < MaxAttempts THEN row[m].attempts + 1 ELSE MaxAttempts)
            \in 0 .. MaxAttempts
    BY <2>1, OutboxBounds
  <2>3. QED
    BY <2>2 DEF Row, Status
<1> HIDE DEF claimed
<1>6. /\ worker' \in [Worker -> WorkerState]
      /\ \A v \in Worker : /\ worker'[v].pc = worker[v].pc
                           /\ worker'[v].todo = worker[v].todo \ {m}
                           /\ worker'[v].batch = IF v = w THEN worker[v].batch \cup {m}
                                                 ELSE worker[v].batch
  <2>1. /\ Changed(with, m) \in [Worker -> WorkerState]
        /\ \A v \in Worker : /\ Changed(with, m)[v].pc = with[v].pc
                             /\ Changed(with, m)[v].batch = with[v].batch
                             /\ Changed(with, m)[v].todo = with[v].todo \ {m}
    BY <1>4, ChangedEffect
  <2>2. ASSUME NEW v \in Worker
        PROVE  /\ worker'[v].pc = worker[v].pc
               /\ worker'[v].todo = worker[v].todo \ {m}
               /\ worker'[v].batch = IF v = w THEN worker[v].batch \cup {m} ELSE worker[v].batch
    <3>1. CASE v = w
      BY <1>3, <1>4, <2>1, <3>1
    <3>2. CASE v # w
      BY <1>3, <1>4, <2>1, <3>2
    <3>3. QED
      BY <3>1, <3>2
  <2>3. QED
    BY <1>3, <2>1, <2>2
<1>7. /\ row' \in [Message -> Row] /\ row'[m] = claimed
      /\ \A k \in Message : k # m => row'[k] = row[k]
  BY <1>1, <1>2, <1>3, <1>5
<1>8. TypeOK'
  <2>1. taken' \in [Message -> Nat]
    <3>1. taken \in [Message -> Nat] /\ taken[m] + 1 \in Nat
      BY <1>1, <1>2 DEF TypeOK
    <3>2. QED
      BY <1>3, <3>1
  <2>2. \A k \in Message : row'[k].status # "running" => row'[k].owner = Nobody /\ ~row'[k].leased
    BY <1>1, <1>5, <1>7 DEF TypeOK
  <2>3. QED
    BY <1>1, <1>3, <1>6, <1>7, <2>1, <2>2 DEF TypeOK
<1>9. DrainsFormed'
  <2> SUFFICES ASSUME NEW v \in Worker
               PROVE  /\ worker'[v].pc = "idle" => worker'[v].batch = {}
                      /\ worker'[v].pc \notin {"idle", "claim"} => worker'[v].batch # {}
                      /\ worker'[v].pc # "claim" => worker'[v].todo = {}
                      /\ worker'[v].todo \cap worker'[v].batch = {}
    BY DEF DrainsFormed
  <2>1. /\ worker[v].pc = "idle" => worker[v].batch = {}
        /\ worker[v].pc \notin {"idle", "claim"} => worker[v].batch # {}
        /\ worker[v].pc # "claim" => worker[v].todo = {}
        /\ worker[v].todo \cap worker[v].batch = {}
    BY DEF OutboxInv, DrainsFormed
  <2>2. QED
    BY <1>3, <1>6, <2>1
<1>10. TodoDue'
  <2>1. ASSUME NEW v \in Worker, NEW k \in worker'[v].todo
        PROVE  Due(k)'
    <3>1. k \in worker[v].todo /\ k # m
      BY <1>6, <2>1
    <3>2. Due(k) /\ k \in Message
      BY <1>1, <3>1 DEF OutboxInv, TodoDue, TypeOK, WorkerState
    <3>3. QED
      BY <1>7, <3>1, <3>2 DEF Due
  <2>2. QED
    BY <2>1 DEF TodoDue
<1>11. ASSUME NEW k \in Message
       PROVE  Credit(k)'
  <2>1. /\ Credit(k) /\ Cardinality(Senders(k)) \in Nat
        /\ inserted[k] \in Nat /\ taken[k] \in Nat /\ Heard(k) \in Int
        /\ row[k] \in Row
    BY CreditTypes
  <2>2. ASSUME NEW v \in Worker
        PROVE  MaySend(v, k)' <=> MaySend(v, k) \/ (v = w /\ k = m)
    <3>1. CASE v = w
      BY <1>3, <1>6, <3>1 DEF MaySend
    <3>2. CASE v # w
      <4>1. Current(v)' = Current(v)
        BY <1>6, <3>2 DEF Current
      <4>2. QED
        BY <1>6, <3>2, <4>1 DEF MaySend
    <3>3. QED
      BY <3>1, <3>2
  <2>3. CASE k = m
    <3>1. Senders(k)' = Senders(k) \cup {w} /\ w \notin Senders(k)
      BY <1>2, <2>2, <2>3 DEF Senders, MaySend
    <3>2. IsFiniteSet(Senders(k)') /\ Cardinality(Senders(k)') = Cardinality(Senders(k)) + 1
      BY <2>1, <3>1, FS_AddElement DEF Credit, Heard
    <3>3. row'[k].status = "running"
      BY <1>5, <1>7, <2>3
    <3>4. \/ row[k].status = "pending" /\ taken'[k] = taken[k]
          \/ row[k].status = "running" /\ taken'[k] = taken[k] + 1
      <4>1. taken \in [Message -> Nat]
        BY <1>1 DEF TypeOK
      <4>2. QED
        BY <1>2, <1>3, <2>3, <4>1 DEF Due
    <3>5. QED
      BY <1>3, <2>1, <3>2, <3>3, <3>4 DEF Credit, Heard
  <2>4. CASE k # m
    <3>1. Senders(k)' = Senders(k)
      BY <2>2, <2>4 DEF Senders
    <3>2. row'[k] = row[k] /\ taken'[k] = taken[k]
      <4>1. taken \in [Message -> Nat]
        BY <1>1 DEF TypeOK
      <4>2. QED
        BY <1>3, <1>7, <2>4, <4>1
    <3>3. QED
      BY <1>3, <2>1, <3>1, <3>2 DEF Credit, Heard
  <2>5. QED
    BY <2>3, <2>4
<1>12. QED
  BY <1>8, <1>9, <1>10, <1>11, CreditOfAll DEF OutboxInv

\* An acceptance uses the credit of the worker that sent.
LEMMA KeptSendAccepted ==
    ASSUME OutboxInv, NEW w \in Worker, SendAccepted(w)
    PROVE  OutboxInv'
<1> DEFINE m == Current(w)
<1>1. /\ TypeOK /\ worker[w].pc = "send" /\ UNCHANGED <<row, reports, env, inserted, taken, unheard>>
      /\ accepted' = [accepted EXCEPT ![m] = @ + 1] /\ accepted \in [Message -> Nat]
  BY DEF OutboxInv, SendAccepted, At, TypeOK
<1>2. /\ worker' \in [Worker -> WorkerState]
      /\ worker'[w].batch = worker[w].batch /\ worker'[w].todo = worker[w].todo
      /\ worker'[w].pc \notin {"idle", "claim"}
      /\ \A v \in Worker \ {w} : worker'[v] = worker[v]
  BY <1>1, GotoEffect DEF SendAccepted
<1>3. worker'[w].pc = "complete"
  BY <1>1 DEF SendAccepted, Goto, TypeOK, WorkerState
<1>4. m \in worker[w].batch /\ m \in Message
  BY <1>1, CurrentInBatch DEF OutboxInv, DrainsFormed
<1>5. TypeOK'
  <2>1. accepted' \in [Message -> Nat]
    BY <1>1, <1>4
  <2>2. QED
    BY <1>1, <1>2, <2>1 DEF TypeOK
<1>6. DrainsFormed'
  BY <1>1, <1>2 DEF OutboxInv, DrainsFormed
<1>7. TodoDue'
  <2>1. \A k : Due(k)' <=> Due(k)
    BY <1>1 DEF Due
  <2>2. \A v \in Worker : worker'[v].todo = worker[v].todo
    BY <1>2
  <2>3. QED
    BY <2>1, <2>2 DEF OutboxInv, TodoDue
<1>8. Current(w)' = m
  BY <1>2 DEF Current
<1> HIDE DEF m
<1>9. ASSUME NEW k \in Message
      PROVE  Credit(k)'
  <2>1. /\ Credit(k) /\ Cardinality(Senders(k)) \in Nat
        /\ inserted[k] \in Nat /\ taken[k] \in Nat /\ Heard(k) \in Int
        /\ row[k] \in Row
    BY CreditTypes
  <2>2. ASSUME NEW v \in Worker
        PROVE  MaySend(v, k)' <=> MaySend(v, k) /\ ~(v = w /\ k = m)
    <3>1. CASE v = w
      BY <1>1, <1>2, <1>3, <1>8, <3>1 DEF MaySend
    <3>2. CASE v # w
      <4>1. Current(v)' = Current(v)
        BY <1>2, <3>2 DEF Current
      <4>2. QED
        BY <1>2, <3>2, <4>1 DEF MaySend
    <3>3. QED
      BY <3>1, <3>2
  <2>3. CASE k = m
    <3>1. Senders(k)' = Senders(k) \ {w} /\ w \in Senders(k)
      BY <1>1, <1>4, <2>2, <2>3 DEF Senders, MaySend
    <3>2. IsFiniteSet(Senders(k)') /\ Cardinality(Senders(k)') = Cardinality(Senders(k)) - 1
      BY <2>1, <3>1, FS_RemoveElement DEF Credit, Heard
    <3>3. Heard(k)' = Heard(k) + 1
      <4>1. accepted[k] \in Nat /\ unheard[k] \in Nat
        BY <1>1 DEF TypeOK
      <4>2. QED
        BY <1>1, <2>3, <4>1 DEF Heard
    <3>4. QED
      BY <1>1, <2>1, <3>2, <3>3 DEF Credit, Heard
  <2>4. CASE k # m
    <3>1. Senders(k)' = Senders(k)
      BY <2>2, <2>4 DEF Senders
    <3>2. Heard(k)' = Heard(k)
      BY <1>1, <2>4 DEF Heard
    <3>3. QED
      BY <1>1, <2>1, <3>1, <3>2 DEF Credit, Heard
  <2>5. QED
    BY <2>3, <2>4
<1>10. QED
  BY <1>5, <1>6, <1>7, <1>9, CreditOfAll DEF OutboxInv

\* The statement that ends the work on a message.  Only a retry leaves the
\* row waiting, and then the worker had not had the message accepted.
LEMMA KeptSettle ==
    ASSUME OutboxInv, NEW w \in Worker, worker[w].pc \notin {"idle", "claim"},
           NEW outcome \in Row, Settle(w, outcome),
           outcome.status # "running", outcome.owner = Nobody, outcome.leased = FALSE,
           outcome.status = "pending" => worker[w].pc \notin {"complete", "uncertain"}
    PROVE  OutboxInv'
<1> DEFINE m == Current(w)
<1>1. /\ TypeOK /\ UNCHANGED <<reports, env, inserted, taken, accepted, unheard>>
      /\ row \in [Message -> Row]
  BY DEF OutboxInv, Settle, history, TypeOK
<1>2. m \in worker[w].batch /\ m \in Message
  BY <1>1, CurrentInBatch DEF OutboxInv, DrainsFormed
<1>3. CASE ~MaySettle(w, m)
  <2>1. row' = row /\ worker' = Rest(w) /\ env \in 0 .. MaxEnv
    BY <1>1, <1>3 DEF Settle, TypeOK
  <2>2. QED
    BY <1>1, <2>1, NothingHeard, KeptContinue DEF history
<1>4. CASE MaySettle(w, m)
  <2>1. /\ row' = [row EXCEPT ![m] = outcome] /\ worker' = Changed(Rest(w), m)
        /\ row[m].status = "running"
    BY <1>4 DEF Settle, MaySettle, Owns
  <2>2. /\ Rest(w) \in [Worker -> WorkerState]
        /\ Rest(w)[w].batch = worker[w].batch \ {m} /\ Rest(w)[w].todo = {}
        /\ Rest(w)[w].pc = IF worker[w].batch \ {m} = {} THEN "idle" ELSE "next"
        /\ \A v \in Worker \ {w} : Rest(w)[v] = worker[v]
    BY <1>1, RestEffect
  <2> HIDE DEF m
  <2>3. /\ worker' \in [Worker -> WorkerState]
        /\ \A v \in Worker : /\ worker'[v].pc = Rest(w)[v].pc
                             /\ worker'[v].batch = Rest(w)[v].batch
                             /\ worker'[v].todo = Rest(w)[v].todo \ {m}
    BY <2>1, <2>2, ChangedEffect
  <2>4. /\ row' \in [Message -> Row] /\ row'[m] = outcome
        /\ \A k \in Message : k # m => row'[k] = row[k]
    BY <1>1, <1>2, <2>1
  <2>5. TypeOK'
    <3>1. \A k \in Message : row'[k].status # "running" => row'[k].owner = Nobody /\ ~row'[k].leased
      BY <1>1, <2>4 DEF TypeOK
    <3>2. QED
      BY <1>1, <2>3, <2>4, <3>1 DEF TypeOK
  <2>6. DrainsFormed'
    <3> SUFFICES ASSUME NEW v \in Worker
                 PROVE  /\ worker'[v].pc = "idle" => worker'[v].batch = {}
                        /\ worker'[v].pc \notin {"idle", "claim"} => worker'[v].batch # {}
                        /\ worker'[v].pc # "claim" => worker'[v].todo = {}
                        /\ worker'[v].todo \cap worker'[v].batch = {}
      BY DEF DrainsFormed
    <3>1. CASE v = w
      BY <2>2, <2>3, <3>1
    <3>2. CASE v # w
      <4>1. /\ worker'[v].pc = worker[v].pc /\ worker'[v].batch = worker[v].batch
            /\ worker'[v].todo = worker[v].todo \ {m}
        BY <2>2, <2>3, <3>2
      <4>2. QED
        BY <4>1 DEF OutboxInv, DrainsFormed
    <3>3. QED
      BY <3>1, <3>2
  <2>7. TodoDue'
    <3>1. ASSUME NEW v \in Worker, NEW k \in worker'[v].todo
          PROVE  Due(k)'
      <4>1. v # w /\ k \in worker[v].todo /\ k # m
        BY <2>2, <2>3, <3>1
      <4>2. Due(k) /\ k \in Message
        BY <1>1, <4>1 DEF OutboxInv, TodoDue, TypeOK, WorkerState
      <4>3. QED
        BY <2>4, <4>1, <4>2 DEF Due
    <3>2. QED
      BY <3>1 DEF TodoDue
  <2>8. ASSUME NEW k \in Message
        PROVE  Credit(k)'
    <3>1. /\ Credit(k) /\ Cardinality(Senders(k)) \in Nat
          /\ inserted[k] \in Nat /\ taken[k] \in Nat /\ Heard(k) \in Int
          /\ row[k] \in Row
      BY CreditTypes
    <3>2. ASSUME NEW v \in Worker
          PROVE  MaySend(v, k)' <=> MaySend(v, k) /\ ~(v = w /\ k = m)
      <4>1. CASE v = w
        <5>1. MaySend(w, k) <=> k \in worker[w].batch
                                /\ ~(worker[w].pc \in {"complete", "uncertain"} /\ k = m)
          BY DEF MaySend, m
        <5>2. MaySend(w, k)' <=> k \in worker[w].batch \ {m}
          BY <2>2, <2>3 DEF MaySend
        <5>3. QED
          BY <4>1, <5>1, <5>2
      <4>2. CASE v # w
        <5>1. worker'[v].pc = worker[v].pc /\ worker'[v].batch = worker[v].batch
          BY <2>2, <2>3, <4>2
        <5>2. Current(v)' = Current(v)
          BY <5>1 DEF Current
        <5>3. QED
          BY <4>2, <5>1, <5>2 DEF MaySend
      <4>3. QED
        BY <4>1, <4>2
    <3>3. /\ IsFiniteSet(Senders(k)')
          /\ Cardinality(Senders(k)') = Cardinality(Senders(k)) - (IF w \in Senders(k) /\ k = m
                                                                   THEN 1 ELSE 0)
      <4>1. CASE k = m
        <5>1. Senders(k)' = Senders(k) \ {w}
          BY <3>2, <4>1 DEF Senders
        <5>2. IsFiniteSet(Senders(k))
          BY <3>1 DEF Credit, Heard
        <5>3. /\ IsFiniteSet(Senders(k) \ {w})
              /\ Cardinality(Senders(k) \ {w}) =
                    IF w \in Senders(k) THEN Cardinality(Senders(k)) - 1 ELSE Cardinality(Senders(k))
          BY <5>2, FS_RemoveElement
        <5>4. QED
          BY <3>1, <4>1, <5>1, <5>3
      <4>2. CASE k # m
        <5>1. Senders(k)' = Senders(k)
          BY <3>2, <4>2 DEF Senders
        <5>2. QED
          BY <3>1, <4>2, <5>1 DEF Credit, Heard
      <4>3. QED
        BY <4>1, <4>2
    <3>4. CASE k # m
      BY <1>1, <2>4, <3>1, <3>3, <3>4 DEF Credit, Heard
    <3>5. CASE k = m
      <4>1. outcome.status = "pending" => w \in Senders(k)
        BY <1>2, <3>5 DEF Senders, MaySend
      <4>2. row'[k].status = outcome.status /\ row[k].status = "running"
        BY <2>1, <2>4, <3>5
      <4>3. QED
        BY <1>1, <3>1, <3>3, <3>5, <4>1, <4>2 DEF Credit, Heard
    <3>6. QED
      BY <3>4, <3>5
  <2>9. QED
    BY <2>5, <2>6, <2>7, <2>8, CreditOfAll DEF OutboxInv
<1>5. QED
  BY <1>3, <1>4

LEMMA ReleasedType ==
    ASSUME OutboxInv, NEW m \in Message, NEW status \in {"pending", "dead", "uncertain"}
    PROVE  /\ Released(m, status) \in Row /\ Released(m, status).status = status
           /\ Released(m, status).owner = Nobody /\ Released(m, status).leased = FALSE
<1>1. row[m] \in Row /\ status \in Status
  BY DEF OutboxInv, TypeOK, Status
<1>2. QED
  BY <1>1 DEF Released, Row

LEMMA KeptDrain ==
    ASSUME OutboxInv, NEW w \in Worker, Drain(w)
    PROVE  OutboxInv'
<1>1. ASSUME worker[w].pc \notin {"idle", "claim"}
      PROVE  Current(w) \in Message
  BY <1>1, CurrentInBatch DEF OutboxInv, DrainsFormed
<1>2. CASE CompleteOutbox(w)
  <2>1. /\ NoRow \in Row /\ NoRow.status = "none" /\ NoRow.owner = Nobody
        /\ NoRow.leased = FALSE
    BY WorkerIdleType DEF NoRow
  <2>2. QED
    BY <1>2, <2>1, KeptSettle DEF CompleteOutbox, At
<1>3. CASE MarkOutboxUncertain(w)
  BY <1>1, <1>3, ReleasedType, KeptSettle DEF MarkOutboxUncertain, At
<1>4. CASE RetryOutbox(w)
  <2>1. PICK status \in {"pending", "dead"} : Settle(w, Released(Current(w), status))
    BY <1>4 DEF RetryOutbox
  <2>2. worker[w].pc = "retry"
    BY <1>4 DEF RetryOutbox, At
  <2>3. QED
    BY <1>1, <2>1, <2>2, ReleasedType, KeptSettle
<1>5. QED
  BY <1>2, <1>3, <1>4, KeptClaimOutbox, KeptSendAccepted, KeptStepBack DEF Drain

LEMMA OutboxInductive ==
    ASSUME OutboxInv, [Next]_vars
    PROVE  OutboxInv'
<1>1. CASE UNCHANGED vars
  <2>1. StepsBack
    BY <1>1, NothingHeard DEF vars, StepsBack, OutboxInv, TypeOK
  <2>2. QED
    BY <2>1, StepsBackKeeps
<1>2. ASSUME NEW w \in Worker, ReadDue(w) \/ Drain(w)
      PROVE  OutboxInv'
  BY <1>2, KeptDrain, KeptStepBack
<1>3. CASE Disturb
  BY <1>3, KeptStepBack DEF Disturb
<1>4. QED
  BY <1>1, <1>2, <1>3, KeptEnqueueOutbox, KeptLapse DEF Next

LEMMA OutboxInit == Init => OutboxInv
<1> SUFFICES ASSUME Init PROVE OutboxInv
  OBVIOUS
<1>1. /\ \A w \in Worker : worker[w] = Idle
      /\ \A m \in Message : row[m] = NoRow /\ inserted[m] = 0 /\ taken[m] = 0 /\ Heard(m) = 0
  BY DEF Init, Heard
<1>2. Idle.pc = "idle" /\ Idle.todo = {} /\ Idle.batch = {}
  BY DEF Idle
<1>3. NoRow.status = "none" /\ NoRow.owner = Nobody /\ NoRow.leased = FALSE
  BY DEF NoRow
<1>4. TypeOK
  <2>1. row \in [Message -> Row] /\ worker \in [Worker -> WorkerState]
    BY WorkerIdleType DEF Init
  <2>2. reports \in 0 .. MaxReports /\ env \in 0 .. MaxEnv
    BY OutboxBounds DEF Init
  <2>3. /\ inserted \in [Message -> Nat] /\ taken \in [Message -> Nat]
        /\ accepted \in [Message -> Nat] /\ unheard \in [Message -> Nat]
    BY DEF Init
  <2>4. QED
    BY <1>1, <1>3, <2>1, <2>2, <2>3 DEF TypeOK
<1>5. DrainsFormed /\ TodoDue
  BY <1>1, <1>2 DEF DrainsFormed, TodoDue
<1>6. CreditKept
  <2> SUFFICES ASSUME NEW m \in Message
               PROVE  Credit(m)
    BY DEF CreditKept, Credit
  <2>1. Senders(m) = {}
    BY <1>1, <1>2 DEF Senders, MaySend
  <2>2. IsFiniteSet(Senders(m)) /\ Cardinality(Senders(m)) = 0
    BY <2>1, FS_EmptySet
  <2>3. QED
    BY <1>1, <1>3, <2>2 DEF Credit
<1>7. QED
  BY <1>4, <1>5, <1>6 DEF OutboxInv

-----------------------------------------------------------------------------
(* What follows                                                            *)

\* The credit of every message, with the form of the drains and the truth of
\* what they believe due, is an invariant.  The bound on the acceptances alone
\* is not: it says nothing of the workers that have not sent yet.
THEOREM OutboxInvariant == Spec => []OutboxInv
<1>1. OutboxInv /\ [Next]_vars => OutboxInv'
  BY OutboxInductive
<1>2. QED
  BY <1>1, OutboxInit, PTL DEF Spec

\* Once a worker has heard that a channel accepted a message, nobody sends it
\* again unless it was reported again after it left the table, or a lapsed
\* claim was taken over; before every send one of these is left over.  What a
\* channel accepted although the call came back as an error counts as unheard:
\* such a message is sent again.  (EnqueueOutbox, ClaimOutbox, CompleteOutbox,
\* MarkOutboxUncertain, RetryOutbox.)
THEOREM AcceptancesAccounted == Spec => []AcceptedAccounted
<1>1. OutboxInv => AcceptedAccounted
  <2> SUFFICES ASSUME OutboxInv, NEW m \in Message
               PROVE  /\ Heard(m) <= inserted[m] + taken[m]
                      /\ \A w \in Worker : At(w, "send") /\ Current(w) = m =>
                            Heard(m) < inserted[m] + taken[m]
    BY DEF AcceptedAccounted
  <2>1. Heard(m) <= inserted[m] + taken[m]
    BY CreditTypes DEF Credit
  <2>2. ASSUME NEW w \in Worker, At(w, "send"), Current(w) = m
        PROVE  Heard(m) < inserted[m] + taken[m]
    <3>1. w \in Senders(m)
      <4>1. worker[w].batch # {}
        BY <2>2 DEF OutboxInv, DrainsFormed, At
      <4>2. QED
        BY <2>2, <4>1, CurrentInBatch DEF OutboxInv, Senders, MaySend, At
    <3>2. Cardinality(Senders(m)) # 0
      BY <3>1, CreditTypes, FS_EmptySet DEF Credit
    <3>3. /\ Cardinality(Senders(m)) \in Nat /\ Heard(m) \in Int
          /\ inserted[m] \in Nat /\ taken[m] \in Nat
          /\ Cardinality(Senders(m)) + Heard(m) <= inserted[m] + taken[m]
      BY CreditTypes DEF Credit
    <3>4. QED
      BY <3>2, <3>3
  <2>3. QED
    BY <2>1, <2>2
<1>2. QED
  BY <1>1, OutboxInvariant, PTL

\* A message given up or isolated is not touched again.
LEMMA SettledStays ==
    ASSUME OutboxInv, Next, NEW m \in Message, row[m].status \in {"dead", "uncertain"}
    PROVE  row'[m] = row[m]
<1>1. row \in [Message -> Row] /\ worker \in [Worker -> WorkerState]
  BY DEF OutboxInv, TypeOK
<1>2. ASSUME NEW e \in Event, EnqueueOutbox(e)
      PROVE  row'[m] = row[m]
  BY <1>2 DEF EnqueueOutbox
<1>3. ASSUME NEW k \in Message, Lapse(k)
      PROVE  row'[m] = row[m]
  BY <1>1, <1>3 DEF Lapse
<1>4. ASSUME NEW w \in Worker, ClaimOutbox(w)
      PROVE  row'[m] = row[m]
  <2> DEFINE k == First(worker[w].todo)
  <2>1. k \in worker[w].todo
    <3>1. worker[w].todo # {} /\ worker[w].todo \subseteq Nat
      BY <1>1, <1>4, MessageAssumption DEF ClaimOutbox, WorkerState
    <3>2. QED
      BY <3>1, SmallestMember
  <2>2. Due(k)
    BY <2>1 DEF OutboxInv, TodoDue
  <2>3. \E r : row' = [row EXCEPT ![k] = r]
    BY <1>4 DEF ClaimOutbox
  <2> HIDE DEF k
  <2>4. k # m
    BY <2>2 DEF Due
  <2>5. QED
    BY <1>1, <2>3, <2>4
<1>5. ASSUME NEW w \in Worker, NEW outcome, Settle(w, outcome)
      PROVE  row'[m] = row[m]
  BY <1>1, <1>5 DEF Settle, MaySettle, Owns
<1>6. ASSUME row' = row
      PROVE  row'[m] = row[m]
  BY <1>6
<1>7. ASSUME NEW w \in Worker, Drain(w)
      PROVE  row'[m] = row[m]
  BY <1>4, <1>5, <1>6, <1>7 DEF Drain, EndClaim, GetChannel, SendAccepted, SendFails,
     CompleteOutbox, MarkOutboxUncertain, RetryOutbox
<1>8. QED
  BY <1>2, <1>3, <1>6, <1>7 DEF Next, ReadDue, Disturb, CompleteFails, IsolationFails,
     StatementFails, Crash

\* A worker that lost its row settles it without an effect.
LEMMA LateSettles ==
    ASSUME OutboxInv, Next, NEW w \in Worker, row[Current(w)].owner # w,
           worker[w].pc \in {"complete", "purge", "uncertain", "retry"},
           worker'[w].batch # worker[w].batch
    PROVE  row' = row
<1>1. worker \in [Worker -> WorkerState] /\ TypeOK
  BY DEF OutboxInv, TypeOK
<1>2. ASSUME NEW e \in Event, EnqueueOutbox(e)
      PROVE  FALSE
  BY <1>2 DEF EnqueueOutbox
<1>3. ASSUME NEW k \in Message, Lapse(k)
      PROVE  FALSE
  BY <1>3 DEF Lapse
<1>4. ASSUME NEW v \in Worker, ClaimOutbox(v)
      PROVE  FALSE
  <2> DEFINE k == First(worker[v].todo)
             with == [worker EXCEPT ![v].todo = @ \ {k}, ![v].batch = @ \cup {k}]
  <2>1. v # w /\ worker' = Changed(with, k)
    BY <1>4 DEF ClaimOutbox, At
  <2>2. worker'[w] = [with[w] EXCEPT !.todo = @ \ {k}]
    BY <2>1 DEF Changed
  <2>3. with[w] = worker[w]
    BY <1>1, <2>1
  <2>4. worker[w] \in WorkerState
    BY <1>1
  <2> HIDE DEF k, with
  <2>5. worker'[w].batch = worker[w].batch
    BY <2>2, <2>3, <2>4 DEF WorkerState
  <2>6. QED
    BY <2>5
<1>5. ASSUME NEW v \in Worker, NEW outcome, Settle(v, outcome)
      PROVE  row' = row
  <2>1. CASE v = w
    BY <1>5, <2>1 DEF Settle, MaySettle, Owns
  <2>2. CASE v # w
    <3>1. Rest(v) \in [Worker -> WorkerState] /\ Rest(v)[w] = worker[w]
      BY <1>1, <2>2, RestEffect
    <3>2. Changed(Rest(v), Current(v))[w].batch = worker[w].batch
      BY <3>1, ChangedEffect
    <3>3. worker'[w].batch = worker[w].batch
      BY <1>5, <3>1, <3>2 DEF Settle
    <3>4. QED
      BY <3>3
  <2>3. QED
    BY <2>1, <2>2
<1>6. ASSUME NEW v \in Worker, Drain(v)
      PROVE  row' = row
  BY <1>4, <1>5, <1>6 DEF Drain, EndClaim, GetChannel, SendAccepted, SendFails,
     CompleteOutbox, MarkOutboxUncertain, RetryOutbox
<1>7. QED
  BY <1>2, <1>3, <1>6 DEF Next, ReadDue, Disturb, CompleteFails, IsolationFails,
     StatementFails, Crash

\* What was given up, isolated or taken over is written by its owner only: no
\* late worker, repeated report or drain touches it (the comment on
\* EnqueueOutbox, the worker_token condition of every UPDATE).
THEOREM OwnersWriteOnly == Spec => OutboxFenced
<1>1. OutboxInv /\ [Next]_vars =>
         [\A m \in Message : row[m].status \in {"dead", "uncertain"} => row'[m] = row[m]]_vars
  BY SettledStays
<1>2. OutboxInv /\ [Next]_vars =>
         [\A w \in Worker, m \in Message :
             /\ worker[w].pc \in {"complete", "purge", "uncertain", "retry"}
             /\ worker'[w].batch # worker[w].batch /\ m = Current(w) /\ row[m].owner # w
             => row' = row]_vars
  BY LateSettles
<1>3. QED
  BY <1>1, <1>2, OutboxInvariant, PTL DEF Spec, OutboxFenced, SettledForGood, LateWorkerFenced

------------------------------------------------------------------------------
(* The services side by side                                               *)

\* Each service of MCServices runs under its own specification, whatever the others do.
LEMMA ServicesRun ==
    SumSpec => /\ Spec /\ LifecycleSpec /\ BargainSpec /\ BatchSpec
               /\ RefreshSpec /\ OrderSpec /\ CredentialSpec
<1>1. SumInit => /\ Init /\ LifecycleInit /\ BargainInit /\ BatchInit
                 /\ RefreshInit /\ OrderInit /\ CredentialInit
  BY DEF SumInit
<1>2. [SumNext]_sumVars => /\ [Next]_vars /\ [LifecycleNext]_lifecycleVars /\ [BargainNext]_bargainVars
                           /\ [BatchNext]_batchVars /\ [RefreshNext]_refreshVars /\ [OrderNext]_orderVars
                           /\ [CredentialNext]_credentialVars
  BY DEF SumNext, Only, sumVars
<1> QED
  BY <1>1, <1>2, PTL DEF SumSpec, Spec, LifecycleSpec, BargainSpec, BatchSpec, RefreshSpec, OrderSpec,
     CredentialSpec

\* ServicesTypeOK always holds: each service keeps its type invariant, for all values of the constants.
THEOREM ServicesTypesOK == SumSpec => []ServicesTypeOK
<1>1. Spec => []TypeOK
  BY OutboxInvariant, PTL DEF OutboxInv
<1>2. BatchSpec => []BatchTypeOK
  BY BatchInvariant, PTL DEF BatchInv
<1>3. TypeOK /\ LifecycleTypeOK /\ BargainTypeOK /\ BatchTypeOK /\ RefreshTypeOK /\ OrderTypeOK
        /\ CredentialTypeOK => ServicesTypeOK
  BY DEF ServicesTypeOK
<1> QED
  BY <1>1, <1>2, <1>3, ServicesRun, LifecycleTypes, TypeCorrect, RefreshTypes, OrderTypes, CredentialTypes, PTL

\* What each service promises it keeps beside the others: the acceptances that workers hear of are accounted
\* for and settled for good; components close in order; a bargain is submitted and an item listed once; a
\* job's worker can be reached; a confirmed shipment is stored or recorded unless a crash, a second failure or
\* the user takes it away; an order moves forward only; an account comes online with the stored credential;
\* and an answer that is compared first never replaces the session of a login.
THEOREM ServicesKept ==
    SumSpec => /\ [](AcceptedAccounted /\ BargainSafe /\ BatchSafe /\ ShipmentRemembered /\ StopQuiet)
               /\ OutboxFenced /\ LifecycleSafe /\ RefreshSafe /\ OrderSafe /\ OnlineCurrent /\ CommitsForward
<1>1. SumSpec => [](AcceptedAccounted /\ BargainSafe /\ BatchSafe /\ ShipmentRemembered /\ StopQuiet)
  BY ServicesRun, AcceptancesAccounted, SubmittedOnce, ListedOnce, ShipmentKept, StopIsQuiet, PTL
<1> QED
  BY <1>1, ServicesRun, OwnersWriteOnly, LifecycleKept, RefreshKept, OrderKept, ComesOnlineCurrent,
     CommitsGoForward, PTL

=============================================================================
