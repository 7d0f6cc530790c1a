---------------------------- MODULE BargainStage ----------------------------
(***************************************************************************)
(* The free-shipping stage of a bargain order (bargain_free_shipping.go)   *)
(* and the handlers that take it through the platform's call.              *)
(*                                                                         *)
(* A "pending" card of the WebSocket asks for the call, a "ready" card     *)
(* says that the bargain is complete; the platform repeats both.  The      *)
(* fallback scan delivers a bargain order only at stage ready or           *)
(* succeeded.  A claim and a mark are two statements each, and the call    *)
(* is not idempotent.                                                      *)
(***************************************************************************)
EXTENDS Integers

CONSTANTS
    BargainHandler,     \* goroutines that handle the order's cards
    MaxPending,         \* bound: pending cards
    MaxReady,           \* bound: ready cards
    MaxBargainEnv       \* bound: crashes and failing statements

ASSUME BargainBounds == MaxPending \in Nat /\ MaxReady \in Nat /\ MaxBargainEnv \in Nat

VARIABLES
    stage,              \* the row of the order
    shipper,            \* where each handler stands
    cards,              \* cards still to come: pending and ready
    bargainEnv,         \* disturbances left
    freed,              \* history: what the platform did: nothing, freed, or unknown to the handler
    readySeen           \* history: a ready card arrived

bargainVars == <<stage, shipper, cards, bargainEnv, freed, readySeen>>

Stage == {"none", "running", "succeeded", "failed", "needs_review", "ready"}
ActionErr == {"none", "uncertain", "failed"}
Shipper == [pc: {"idle", "claim", "call", "finish", "ready"},
            recovery: BOOLEAN,          \* allowCredentialRecovery
            err: ActionErr]             \* actionErr, by its class

IdleShipper == [pc |-> "idle", recovery |-> TRUE, err |-> "none"]

BargainInit ==
    /\ stage = "none"
    /\ shipper = [h \in BargainHandler |-> IdleShipper]
    /\ cards = [pending |-> MaxPending, ready |-> MaxReady]
    /\ bargainEnv = MaxBargainEnv
    /\ freed = "no" /\ readySeen = FALSE

ShipperAt(h, pc) == shipper[h].pc = pc
Advance(h, pc) == shipper' = [shipper EXCEPT ![h].pc = pc]

-----------------------------------------------------------------------------
(* ClaimBargainFreeShipping                                                *)

\* The first statement inserts the row, for the first pending card.
ClaimInsert(h) ==
    /\ ShipperAt(h, "idle") /\ cards.pending > 0
    /\ cards' = [cards EXCEPT !.pending = @ - 1]
    /\ IF stage = "none"
       THEN stage' = "running" /\ Advance(h, "call")
       ELSE Advance(h, "claim") /\ UNCHANGED stage
    /\ UNCHANGED <<bargainEnv, freed, readySeen>>

\* Mutant: a stage whose result is unknown is taken as well.
ClaimRetryUnknown(h) ==
    /\ ShipperAt(h, "claim")
    /\ IF stage \in {"failed", "needs_review"}
       THEN stage' = "running" /\ Advance(h, "call")
       ELSE Advance(h, "idle") /\ UNCHANGED stage
    /\ UNCHANGED <<cards, bargainEnv, freed, readySeen>>

\* The second one takes a stage that failed for certain.
ClaimRetry(h) ==
    /\ ShipperAt(h, "claim")
    /\ IF stage = "failed"
       THEN stage' = "running" /\ Advance(h, "call")
       ELSE Advance(h, "idle") /\ UNCHANGED stage
    /\ UNCHANGED <<cards, bargainEnv, freed, readySeen>>

-----------------------------------------------------------------------------
(* freeShipBargainAttempt                                                  *)

Finished(h, err) == shipper' = [shipper EXCEPT ![h] = [@ EXCEPT !.pc = "finish", !.err = err]]

\* The call was accepted; an error of the network or of the cookies that came
\* with it hides that.
FreeShipAccepted(h) ==
    /\ ShipperAt(h, "call")
    /\ freed' = "yes"
    /\ \E err \in {"none", "uncertain"} : Finished(h, err)
    /\ UNCHANGED <<stage, cards, bargainEnv, readySeen>>

\* The call did not get through: an error whose effect nobody knows.
FreeShipLost(h) ==
    /\ ShipperAt(h, "call")
    /\ Finished(h, "uncertain")
    /\ UNCHANGED <<stage, cards, bargainEnv, freed, readySeen>>

\* The platform refuses, or there is no session to call it with.
FreeShipRefused(h) ==
    /\ ShipperAt(h, "call")
    /\ Finished(h, "failed")
    /\ UNCHANGED <<stage, cards, bargainEnv, freed, readySeen>>

\* The session expired: credentials are recovered and the call is made once more.
FreeShipExpired(h) ==
    /\ ShipperAt(h, "call")
    /\ \/ shipper[h].recovery /\ shipper' = [shipper EXCEPT ![h].recovery = FALSE]
       \/ Finished(h, "failed")
    /\ UNCHANGED <<stage, cards, bargainEnv, freed, readySeen>>

-----------------------------------------------------------------------------
(* FinishBargainFreeShipping, MarkBargainReady                             *)

\* Mutants: the class of the error is written as it is; only a certain
\* failure counts as one.
FinalRaw(err) == IF err = "none" THEN "succeeded" ELSE err
FinalHopeful(err) == IF err = "failed" THEN "failed" ELSE "succeeded"

FinalStage(err) ==
    CASE err = "none" -> "succeeded"
      [] err = "uncertain" -> "needs_review"
      [] err = "failed" -> "failed"

FinishBargainFreeShipping(h) ==
    /\ ShipperAt(h, "finish")
    /\ stage' = IF stage = "running" THEN FinalStage(shipper[h].err) ELSE stage
    /\ shipper' = [shipper EXCEPT ![h] = IdleShipper]
    /\ UNCHANGED <<cards, bargainEnv, freed, readySeen>>

MarkReadyInsert(h) ==
    /\ ShipperAt(h, "idle") /\ cards.ready > 0
    /\ cards' = [cards EXCEPT !.ready = @ - 1]
    /\ readySeen' = TRUE
    /\ stage' = IF stage = "none" THEN "ready" ELSE stage
    /\ Advance(h, "ready")
    /\ UNCHANGED <<bargainEnv, freed>>

MarkReadyUpdate(h) ==
    /\ ShipperAt(h, "ready")
    /\ stage' = IF stage = "failed" THEN "ready" ELSE stage
    /\ Advance(h, "idle")
    /\ UNCHANGED <<cards, bargainEnv, freed, readySeen>>

\* A statement fails, or the process dies; what was written stays.
BargainFails(h) ==
    /\ bargainEnv > 0 /\ ~ShipperAt(h, "idle") /\ ~ShipperAt(h, "call")
    /\ bargainEnv' = bargainEnv - 1
    /\ shipper' = [shipper EXCEPT ![h] = IdleShipper]
    /\ UNCHANGED <<stage, cards, freed, readySeen>>

\* The process dies during the call.
BargainCrash(h) ==
    /\ bargainEnv > 0 /\ ShipperAt(h, "call")
    /\ bargainEnv' = bargainEnv - 1
    /\ freed' \in {freed, "yes"}
    /\ shipper' = [shipper EXCEPT ![h] = IdleShipper]
    /\ UNCHANGED <<stage, cards, readySeen>>

BargainNext ==
    \E h \in BargainHandler :
      \/ ClaimInsert(h) \/ ClaimRetry(h)
      \/ FreeShipAccepted(h) \/ FreeShipLost(h) \/ FreeShipRefused(h) \/ FreeShipExpired(h)
      \/ FinishBargainFreeShipping(h)
      \/ MarkReadyInsert(h) \/ MarkReadyUpdate(h)
      \/ BargainFails(h) \/ BargainCrash(h)

BargainSpec == BargainInit /\ [][BargainNext]_bargainVars

-----------------------------------------------------------------------------
(* Properties                                                              *)

\* The row, the handlers and the cards are well formed.
BargainTypeOK ==
    /\ stage \in Stage
    /\ shipper \in [BargainHandler -> Shipper]
    /\ cards \in [pending: 0 .. MaxPending, ready: 0 .. MaxReady]
    /\ bargainEnv \in 0 .. MaxBargainEnv
    /\ freed \in {"no", "yes"} /\ readySeen \in BOOLEAN

\* An order that the platform has freed is not submitted again, by any card,
\* handler or retry (ClaimBargainFreeShipping: unknown results are not retried).
FreedOnce == \A h \in BargainHandler : ShipperAt(h, "call") => freed = "no"

\* The fallback scan may only deliver an order whose bargain is known to be
\* complete: the platform freed it or announced it.
EligibleJustified == stage \in {"ready", "succeeded"} => freed = "yes" \/ readySeen

\* Once the final card was recorded the order qualifies for the fallback scan
\* (MarkBargainReady: the fact the scan falls back on when the delivery card
\* is lost).
ReadyRemembered ==
    readySeen /\ (\A h \in BargainHandler : ShipperAt(h, "idle")) => stage \in {"ready", "succeeded"}

\* An order is freed by one submission, and delivered by the fallback scan
\* only when it was freed.
BargainSafe == FreedOnce /\ EligibleJustified

=============================================================================
