------------------------------ MODULE StockLedger ------------------------------
(***************************************************************************)
(* What the program promises of the cards it sells to one order, without   *)
(* saying how: no rows, proofs, leases, attempts, requests or refills.     *)
(*                                                                         *)
(* A card leaves the stock for one run, and a run gets no more of them     *)
(* than the order is owed.  A card that was taken either is given to the   *)
(* platform, as often as need be, and then never comes back; or it returns *)
(* to the front of the stock, while nothing was given; or it stays taken   *)
(* and is lost.  What the platform confirmed had been given to it.         *)
(***************************************************************************)
EXTENDS Integers, Sequences

CONSTANTS Runs,    \* the runs that deliver
          Units,   \* cards the order is owed
          Filled   \* the stock at the beginning

VARIABLES stock, owed, taken, handed, accepted

ledger == <<stock, owed, taken, handed, accepted>>

Init ==
    /\ stock = Filled /\ owed = [r \in Runs |-> Units]
    /\ taken = [r \in Runs |-> {}] /\ handed = [r \in Runs |-> {}] /\ accepted = [r \in Runs |-> {}]

\* The first line of the stock is taken for a run that is still owed a card.
Take(r) ==
    /\ stock # <<>> /\ owed[r] > 0
    /\ stock' = Tail(stock) /\ owed' = [owed EXCEPT ![r] = @ - 1]
    /\ taken' = [taken EXCEPT ![r] = @ \cup {Head(stock)}]
    /\ UNCHANGED <<handed, accepted>>

\* A card that no message carried is put back.
PutBack(r, c) ==
    /\ c \in taken[r] /\ \A s \in Runs : c \notin handed[s]
    /\ stock' = <<c>> \o stock /\ owed' = [owed EXCEPT ![r] = @ + 1]
    /\ taken' = [taken EXCEPT ![r] = @ \ {c}]
    /\ UNCHANGED <<handed, accepted>>

\* A message carries the card, for the first time or again; it may be confirmed.
Give(r, c) ==
    /\ c \in taken[r]
    /\ handed' = [handed EXCEPT ![r] = @ \cup {c}]
    /\ accepted' \in {accepted, [accepted EXCEPT ![r] = @ \cup {c}]}
    /\ UNCHANGED <<stock, owed, taken>>

Next == \E r \in Runs : Take(r) \/ \E c \in taken[r] : PutBack(r, c) \/ Give(r, c)

Spec == Init /\ [][Next]_ledger

=============================================================================
