------------------------- MODULE PublishBatch_proofs -------------------------
(***************************************************************************)
(* Theorems about PublishBatch for every finite set of rows, every set of  *)
(* workers and any number of requests, crashes, timeouts, failing          *)
(* statements and lapses.                                                  *)
(*                                                                         *)
(* A publication happens between the mark of the row and the record of the *)
(* item, while the lease may lapse and the row change hands.  The          *)
(* invariant follows each row and says what every worker that still has    *)
(* the row in hand may conclude from it: a worker about to call the        *)
(* platform either owns a row that is marked and was never published, or   *)
(* has lost it to a failure that nothing ever queues again.                *)
(***************************************************************************)
EXTENDS PublishBatch, WellFoundedInduction, TLAPS

-----------------------------------------------------------------------------
(* The invariant                                                           *)

Claiming == {"reset", "start"}
Before == {"acquire", "reset", "start", "read", "next", "claim"}       \* no row in hand
Busy == {"mark", "slot", "call", "save", "complete", "fail"}           \* one row in hand
Calling == {"slot", "call"}                                            \* may still publish it

\* What the status of a row says of its token and its kind of failure.
RowFormed(row) ==
    /\ row.status = "running" <=> row.token # NoToken
    /\ row.status = "running" => row.kind \in {"none", "remote_started", "post_publish"}
    /\ row.status = "pending" => row.kind \in {"none", "interrupted"}
    /\ row.status = "failed" => row.kind \in {"interrupted", "uncertain_remote", "post_publish", "publish"}

\* RowsFollowBatch, of one row.
RowOf(row, b) ==
    row.status = "running" => b.status \in {"running", "canceling"} /\ row.token = b.token

\* PublishedOnce and ListingAccounted, of one row that was published n times.
Listed(row, n) ==
    /\ n <= 1
    /\ n > 0 => row.item \/ row.kind \in {"remote_started", "uncertain_remote"}

\* Lost for ever: no request and no scan queues the row again.
Dead(row) == row.status = "failed" /\ row.kind = "uncertain_remote"

\* What worker w in state p knows of row r.
Ours(w, p, r, row, n) ==
    /\ p.pc \in Before => row.token # w
    /\ p.pc \in Busy /\ r # p.row => row.token # w
    /\ r \in p.known => row.item
    /\ r = p.row =>
         /\ p.pc = "mark" /\ row.token = w => row.kind = "none"
         /\ p.pc \in Calling =>
              /\ n = 0
              /\ Dead(row) \/ (row.token = w /\ row.kind = "remote_started" /\ ~row.item)
         /\ p.pc = "complete" /\ row.token = w => row.item
         /\ p.pc = "fail" /\ row.token = w /\ p.err # "uncertain_remote" => row.item \/ n = 0

\* What worker w in state p knows of the batch, and what it goes to write.
Claimer(w, p, b) ==
    /\ p.pc \in Claiming => b.token = w /\ b.status \in {"running", "canceling"} /\ b.leased
    /\ p.pc = "fail" => p.err \in {"uncertain_remote", "post_publish", "publish"}

\* No two workers may publish the same row.
Apart ==
    \A v, w \in Publisher :
        v # w /\ publisher[v].pc \in Calling /\ publisher[w].pc \in Calling =>
            publisher[v].row # publisher[w].row

BatchInv ==
    /\ BatchTypeOK
    /\ \A r \in Line : RowFormed(rows[r]) /\ RowOf(rows[r], batch) /\ Listed(rows[r], published[r])
    /\ \A w \in Publisher, r \in Line : Ours(w, publisher[w], r, rows[r], published[r])
    /\ \A w \in Publisher : Claimer(w, publisher[w], batch)
    /\ Apart
    /\ EndedBatchClosed

-----------------------------------------------------------------------------
(* Types                                                                   *)

\* The least of a set of rows is one of them.
LEMMA LeastRow ==
    ASSUME NEW S, S \subseteq Line, S # {}
    PROVE  Min(S) \in S
<1> DEFINE Less == OpToRel(<, Nat)
<1>1. IsWellFoundedOn(Less, Nat)
  BY NatLessThanWellFounded
<1>2. S \subseteq Nat
  BY BatchAssumption
<1>3. PICK m \in S : \A k \in S : <<k, m>> \notin Less
  <2> HIDE DEF Less
  <2>1. QED
    BY <1>1, <1>2, WFMin
<1>4. \A k \in S : m <= k
  <2>1. \A k \in S : ~(k < m)
    BY <1>2, <1>3 DEF OpToRel
  <2>2. QED
    BY <1>2, <2>1
<1>5. QED
  BY <1>4 DEF Min

LEMMA IdleType ==
    /\ IdlePublisher \in PublisherState
    /\ IdlePublisher.pc = "idle" /\ IdlePublisher.known = {}
<1>1. Min(Line) \in Line
  BY LeastRow, BatchAssumption
<1>2. QED
  BY <1>1 DEF IdlePublisher, PublisherState, FailureKind

PublisherPc == {
    "idle", "acquire", "reset", "start",
    "read", "next", "claim", "mark", "slot", "call", "save", "complete", "fail",
    "finish", "final", "interrupt", "interrupted", "cancel"}

\* A worker's state with another place, and with another place and failure.
LEMMA PublisherPlaces ==
    ASSUME NEW p \in PublisherState, NEW pc \in PublisherPc
    PROVE  /\ [p EXCEPT !.pc = pc] \in PublisherState
           /\ [p EXCEPT !.pc = pc].pc = pc
           /\ [p EXCEPT !.pc = pc].row = p.row
           /\ [p EXCEPT !.pc = pc].known = p.known
           /\ [p EXCEPT !.pc = pc].err = p.err
BY DEF PublisherState, PublisherPc

LEMMA FailureType ==
    ASSUME NEW p \in PublisherState, NEW kind \in FailureKind
    PROVE  /\ [p EXCEPT !.pc = "fail", !.err = kind] \in PublisherState
           /\ [p EXCEPT !.pc = "fail", !.err = kind].pc = "fail"
           /\ [p EXCEPT !.pc = "fail", !.err = kind].row = p.row
           /\ [p EXCEPT !.pc = "fail", !.err = kind].known = p.known
           /\ [p EXCEPT !.pc = "fail", !.err = kind].err = kind
BY DEF PublisherState

\* The fields of a record of the batch, of its rows and of its workers.
LEMMA Fields ==
    ASSUME BatchTypeOK
    PROVE  /\ \A w \in Publisher : publisher[w] \in PublisherState /\ publisher[w].row \in Line
           /\ \A r \in Line : rows[r] \in BatchRow /\ published[r] \in Nat
           /\ batch \in Batch
BY DEF BatchTypeOK, PublisherState

LEMMA BatchTypeInit == BatchInit => BatchTypeOK
<1> SUFFICES ASSUME BatchInit PROVE BatchTypeOK
  OBVIOUS
<1>1. batch \in Batch
  BY DEF BatchInit, Batch, BatchStatus
<1>2. NewRow \in BatchRow
  BY DEF NewRow, BatchRow, FailureKind
<1>3. /\ requests \in 0 .. MaxRequests /\ batchEnv \in 0 .. MaxBatchEnv
      /\ published \in [Line -> Nat]
  BY BatchAssumption DEF BatchInit
<1>4. rows \in [Line -> BatchRow] /\ publisher \in [Publisher -> PublisherState]
  BY <1>2, IdleType DEF BatchInit
<1>5. givenBack \in BOOLEAN
  BY DEF BatchInit
<1>6. QED
  BY <1>1, <1>3, <1>4, <1>5 DEF BatchTypeOK

-----------------------------------------------------------------------------
(* How the invariant is kept                                               *)

\* What the invariant reads of a worker.
Same(p, q) == p.pc = q.pc /\ p.row = q.row /\ p.known = q.known /\ p.err = q.err

LEMMA SameOurs ==
    ASSUME NEW w, NEW p, NEW q, NEW r, NEW row, NEW n, Same(p, q), Ours(w, p, r, row, n)
    PROVE  Ours(w, q, r, row, n)
BY DEF Same, Ours

\* The parts of the invariant, put together.
LEMMA Assemble ==
    ASSUME batch' \in Batch, rows' \in [Line -> BatchRow], publisher' \in [Publisher -> PublisherState],
           requests' \in 0 .. MaxRequests, batchEnv' \in 0 .. MaxBatchEnv,
           givenBack' \in BOOLEAN, published' \in [Line -> Nat],
           \A r \in Line : /\ RowFormed(rows'[r]) /\ RowOf(rows'[r], batch')
                           /\ Listed(rows'[r], published'[r]),
           \A w \in Publisher, r \in Line : Ours(w, publisher'[w], r, rows'[r], published'[r]),
           \A w \in Publisher : Claimer(w, publisher'[w], batch'),
           Apart', EndedBatchClosed'
    PROVE  BatchInv'
<1>1. BatchTypeOK'
  BY DEF BatchTypeOK
<1>2. QED
  BY <1>1 DEF BatchInv

\* A row that a statement of the batch touches: it loses its token, and it is
\* not forgotten that it may have been published.
Swept(row, row2) ==
    \/ row2 = row
    \/ /\ row2.item = row.item /\ row2.token = NoToken /\ RowFormed(row2) /\ ~Dead(row)
       /\ Unknown(row) => Dead(row2)
       /\ row.item \/ row2.kind = "uncertain_remote" \/ row.kind \notin {"remote_started", "uncertain_remote"}

LEMMA SweptRow ==
    ASSUME NEW v \in Publisher, NEW p, NEW r, NEW row \in BatchRow, NEW row2 \in BatchRow, NEW n \in Nat,
           Swept(row, row2), RowFormed(row), Listed(row, n), Ours(v, p, r, row, n)
    PROVE  RowFormed(row2) /\ Listed(row2, n) /\ Ours(v, p, r, row2, n)
<1>1. CASE row2 = row
  BY <1>1
<1>2. CASE row2 # row
  <2>1. v # NoToken
    BY BatchAssumption
  <2>2. /\ row2.item = row.item /\ row2.token = NoToken /\ RowFormed(row2) /\ ~Dead(row)
        /\ Unknown(row) => Dead(row2)
        /\ row.item \/ row2.kind = "uncertain_remote" \/ row.kind \notin {"remote_started", "uncertain_remote"}
    BY <1>2 DEF Swept
  <2>3. Listed(row2, n)
    BY <2>2 DEF Listed
  <2>4. row.token = v /\ row.kind = "remote_started" /\ ~row.item => Dead(row2)
    BY <2>1, <2>2 DEF RowFormed, Unknown
  <2>5. Ours(v, p, r, row2, n)
    BY <2>1, <2>2, <2>4 DEF Ours
  <2>6. QED
    BY <2>2, <2>3, <2>5
<1>3. QED
  BY <1>1, <1>2

\* The workers moved on, and a statement of the batch touched its rows.
LEMMA SweepStep ==
    ASSUME BatchInv,
           publisher' \in [Publisher -> PublisherState],
           \A w \in Publisher, r \in Line : Ours(w, publisher'[w], r, rows[r], published[r]),
           Apart',
           rows' \in [Line -> BatchRow], \A r \in Line : Swept(rows[r], rows'[r]),
           \A r \in Line : RowOf(rows'[r], batch'),
           batch' \in Batch, \A w \in Publisher : Claimer(w, publisher'[w], batch'),
           published' = published,
           requests' \in 0 .. MaxRequests, batchEnv' \in 0 .. MaxBatchEnv,
           givenBack' \in BOOLEAN,
           EndedBatchClosed'
    PROVE  BatchInv'
<1>1. /\ \A r \in Line : rows[r] \in BatchRow /\ rows'[r] \in BatchRow /\ published[r] \in Nat
      /\ published' \in [Line -> Nat]
  BY DEF BatchInv, BatchTypeOK
<1>2. ASSUME NEW w \in Publisher, NEW r \in Line
      PROVE  /\ RowFormed(rows'[r]) /\ Listed(rows'[r], published'[r])
             /\ Ours(w, publisher'[w], r, rows'[r], published'[r])
  <2>1. RowFormed(rows[r]) /\ Listed(rows[r], published[r])
    BY DEF BatchInv
  <2>2. QED
    BY <1>1, <2>1, SweptRow
<1>3. ASSUME NEW r \in Line PROVE RowFormed(rows'[r]) /\ Listed(rows'[r], published'[r])
  <2>1. RowFormed(rows[r]) /\ Listed(rows[r], published[r]) /\ Swept(rows[r], rows'[r])
    BY DEF BatchInv
  <2>2. QED
    BY <2>1 DEF Swept, Listed
<1>4. QED
  BY <1>1, <1>2, <1>3, Assemble

\* One worker moves: what it must know there.
LEMMA Moved ==
    ASSUME BatchInv, NEW w \in Publisher, NEW p \in PublisherState,
           publisher' = [publisher EXCEPT ![w] = p],
           \A r \in Line : Ours(w, p, r, rows[r], published[r]),
           p.pc \in Calling => publisher[w].pc \in Calling /\ p.row = publisher[w].row
    PROVE  /\ publisher' \in [Publisher -> PublisherState] /\ publisher'[w] = p
           /\ \A v \in Publisher \ {w} : publisher'[v] = publisher[v]
           /\ \A v \in Publisher, r \in Line : Ours(v, publisher'[v], r, rows[r], published[r])
           /\ Apart'
<1>1. publisher \in [Publisher -> PublisherState]
  BY DEF BatchInv, BatchTypeOK
<1>2. /\ publisher' \in [Publisher -> PublisherState] /\ publisher'[w] = p
      /\ \A v \in Publisher \ {w} : publisher'[v] = publisher[v]
  BY <1>1
<1>3. \A v \in Publisher, r \in Line : Ours(v, publisher'[v], r, rows[r], published[r])
  BY <1>2 DEF BatchInv
<1>4. Apart'
  BY <1>2 DEF BatchInv, Apart
<1>5. QED
  BY <1>2, <1>3, <1>4

\* All that happens is that one worker moves, and the lease may be renewed.
LEMMA MoveStep ==
    ASSUME BatchInv, NEW w \in Publisher, NEW p \in PublisherState,
           publisher' = [publisher EXCEPT ![w] = p],
           \A r \in Line : Ours(w, p, r, rows[r], published[r]),
           p.pc \in Calling => publisher[w].pc \in Calling /\ p.row = publisher[w].row,
           Claimer(w, p, batch),
           batch' \in {batch, [batch EXCEPT !.leased = TRUE]}, rows' = rows, published' = published,
           requests' \in 0 .. MaxRequests, batchEnv' \in 0 .. MaxBatchEnv,
           givenBack' = givenBack
    PROVE  BatchInv'
<1>1. /\ publisher' \in [Publisher -> PublisherState] /\ publisher'[w] = p
      /\ \A v \in Publisher \ {w} : publisher'[v] = publisher[v]
      /\ \A v \in Publisher, r \in Line : Ours(v, publisher'[v], r, rows[r], published[r])
      /\ Apart'
  BY Moved
<1>2. /\ batch' \in Batch /\ batch'.status = batch.status /\ batch'.token = batch.token
      /\ batch.leased => batch'.leased
  BY DEF BatchInv, BatchTypeOK, Batch
<1>3. \A v \in Publisher : Claimer(v, publisher'[v], batch')
  BY <1>1, <1>2 DEF BatchInv, Claimer
<1>4. \A r \in Line : RowOf(rows'[r], batch') /\ Swept(rows[r], rows'[r])
  BY <1>2 DEF BatchInv, RowOf, Swept
<1>5. EndedBatchClosed'
  BY <1>2 DEF BatchInv, BatchTypeOK, EndedBatchClosed, Open, InStatus
<1>6. rows' \in [Line -> BatchRow] /\ givenBack' \in BOOLEAN
  BY DEF BatchInv, BatchTypeOK
<1>7. QED
  BY <1>1, <1>2, <1>3, <1>4, <1>5, <1>6, SweepStep

\* The worker of a row writes it: nobody else has it in hand.
LEMMA LineStep ==
    ASSUME BatchInv, NEW w \in Publisher, NEW p \in PublisherState,
           publisher' = [publisher EXCEPT ![w] = p],
           NEW r \in Line, NEW row \in BatchRow, rows' = [rows EXCEPT ![r] = row],
           \/ rows[r].status = "running" /\ rows[r].token = w
           \/ rows[r].status = "pending" /\ p.pc \notin Calling,
           row.token \in {w, NoToken}, rows[r].item => row.item,
           RowFormed(row), RowOf(row, batch), Listed(row, published[r]),
           row.status # "pending",
           \A x \in Line \ {r} : Ours(w, p, x, rows[x], published[x]),
           Ours(w, p, r, row, published[r]),
           p.pc \in Calling => p.row = r,
           Claimer(w, p, batch),
           batch' = batch, published' = published,
           requests' \in 0 .. MaxRequests, batchEnv' \in 0 .. MaxBatchEnv,
           givenBack' = givenBack
    PROVE  BatchInv'
<1>1. /\ batch' \in Batch /\ published' \in [Line -> Nat] /\ givenBack' \in BOOLEAN
      /\ publisher \in [Publisher -> PublisherState] /\ rows \in [Line -> BatchRow]
  BY DEF BatchInv, BatchTypeOK
<1>2. /\ publisher' \in [Publisher -> PublisherState] /\ publisher'[w] = p
      /\ \A v \in Publisher \ {w} : publisher'[v] = publisher[v]
  BY <1>1
<1>3. /\ rows' \in [Line -> BatchRow] /\ rows'[r] = row
      /\ \A x \in Line \ {r} : rows'[x] = rows[x]
  BY <1>1
<1>4. \A x \in Line : /\ RowFormed(rows'[x]) /\ RowOf(rows'[x], batch')
                      /\ Listed(rows'[x], published'[x])
  BY <1>3 DEF BatchInv
<1>5. ASSUME NEW v \in Publisher \ {w}
      PROVE  /\ Ours(v, publisher[v], r, row, published[r])
             /\ ~(rows[r].status = "running" /\ publisher[v].pc \in Calling /\ publisher[v].row = r)
  <2>1. /\ Ours(v, publisher[v], r, rows[r], published[r]) /\ RowFormed(rows[r])
        /\ v # NoToken /\ rows[r].token # v /\ row.token # v
    BY BatchAssumption DEF BatchInv, RowFormed
  <2>2. ~(publisher[v].pc \in Calling /\ publisher[v].row = r)
    BY <2>1 DEF Ours, Dead
  <2>3. QED
    BY <2>1, <2>2 DEF Ours
<1>6. \A v \in Publisher, x \in Line : Ours(v, publisher'[v], x, rows'[x], published'[x])
  <2>1. ASSUME NEW v \in Publisher, NEW x \in Line
        PROVE  Ours(v, publisher'[v], x, rows'[x], published[x])
    <3>1. CASE v = w
      BY <1>2, <1>3, <3>1
    <3>2. CASE v # w /\ x = r
      BY <1>2, <1>3, <1>5, <3>2
    <3>3. CASE v # w /\ x # r
      BY <1>2, <1>3, <3>3 DEF BatchInv
    <3>4. QED
      BY <3>1, <3>2, <3>3
  <2>2. QED
    BY <2>1
<1>7. \A v \in Publisher : Claimer(v, publisher'[v], batch')
  BY <1>2 DEF BatchInv
<1>8. Apart'
  BY <1>2, <1>5 DEF BatchInv, Apart
<1>9. EndedBatchClosed'
  <2>1. r \in Open
    BY DEF Open, InStatus
  <2>2. batch.status \notin {"completed", "partially_failed", "canceled"}
    BY <2>1 DEF BatchInv, EndedBatchClosed
  <2>3. ASSUME batch.status = "failed"
        PROVE  givenBack' /\ \A x \in Line : rows'[x].status # "running"
    <3>1. givenBack /\ InStatus("running") = {}
      BY <2>1, <2>3 DEF BatchInv, EndedBatchClosed
    <3>2. row.status # "running"
      BY <2>3 DEF RowOf
    <3>3. QED
      BY <1>3, <3>1, <3>2 DEF InStatus
  <2>4. QED
    BY <2>2, <2>3 DEF EndedBatchClosed, InStatus
<1>10. QED
  BY <1>1, <1>2, <1>3, <1>4, <1>6, <1>7, <1>8, <1>9, Assemble

\* A worker that was about to call the platform has published its row.
LEMMA ListingStep ==
    ASSUME BatchInv, NEW w \in Publisher, publisher[w].pc = "call", NEW p \in PublisherState,
           publisher' = [publisher EXCEPT ![w] = p],
           published' = [published EXCEPT ![publisher[w].row] = @ + 1],
           p.known \subseteq publisher[w].known,
           p.pc \in {"save", "idle"} \/ (p.pc = "fail" /\ p.err = "uncertain_remote"),
           p.pc # "idle" => p.row = publisher[w].row,
           rows' = rows, batch' = batch,
           requests' \in 0 .. MaxRequests, batchEnv' \in 0 .. MaxBatchEnv,
           givenBack' = givenBack
    PROVE  BatchInv'
<1> DEFINE r == publisher[w].row
<1>1. /\ publisher \in [Publisher -> PublisherState] /\ publisher[w] \in PublisherState
      /\ rows \in [Line -> BatchRow] /\ batch \in Batch /\ published \in [Line -> Nat]
      /\ givenBack' \in BOOLEAN
  BY DEF BatchInv, BatchTypeOK
<1>2. r \in Line /\ published[r] \in Nat
  BY <1>1 DEF PublisherState
<1>3. /\ publisher' \in [Publisher -> PublisherState] /\ publisher'[w] = p
      /\ \A v \in Publisher \ {w} : publisher'[v] = publisher[v]
  BY <1>1
<1>4. /\ published' \in [Line -> Nat] /\ published'[r] = published[r] + 1
      /\ \A x \in Line \ {r} : published'[x] = published[x]
  BY <1>1, <1>2
<1>5. /\ published[r] = 0 /\ Ours(w, publisher[w], r, rows[r], published[r])
      /\ Dead(rows[r]) \/ (rows[r].token = w /\ rows[r].kind = "remote_started")
  BY <1>2 DEF BatchInv, Ours, Calling
<1>6. Listed(rows[r], published'[r])
  BY <1>4, <1>5 DEF Listed, Dead
<1>7. ASSUME NEW v \in Publisher, NEW x \in Line
      PROVE  Ours(v, publisher'[v], x, rows[x], published'[x])
  <2>1. Ours(v, publisher[v], x, rows[x], published[x]) /\ v # NoToken /\ RowFormed(rows[x])
    BY BatchAssumption DEF BatchInv
  <2>2. CASE v = w
    <3>1. "call" \in Busy /\ p.pc \notin Before /\ p.pc \notin Calling /\ p.pc \notin {"mark", "complete"}
      BY DEF Busy, Before, Calling
    <3>2. x \in p.known => rows[x].item
      BY <2>1, <2>2 DEF Ours
    <3>3. p.pc \in Busy => p.pc # "idle"
      BY DEF Busy
    <3>4. p.pc \in Busy /\ x # p.row => rows[x].token # w
      BY <2>1, <2>2, <3>1, <3>3 DEF Ours
    <3>5. p.pc = "fail" => p.err = "uncertain_remote"
      OBVIOUS
    <3>6. QED
      BY <1>3, <2>2, <3>1, <3>2, <3>4, <3>5 DEF Ours
  <2>3. CASE v # w /\ x # r
    BY <1>3, <1>4, <2>1, <2>3
  <2>4. CASE v # w /\ x = r
    <3>1. ~(publisher[v].pc \in Calling /\ publisher[v].row = r)
      BY <2>4 DEF BatchInv, Apart, Calling
    <3>2. rows[r].token # v
      BY <1>5, <2>1, <2>4 DEF RowFormed, Dead
    <3>3. QED
      BY <1>3, <2>1, <2>4, <3>1, <3>2 DEF Ours
  <2>5. QED
    BY <2>2, <2>3, <2>4
<1>8. \A x \in Line : /\ RowFormed(rows'[x]) /\ RowOf(rows'[x], batch')
                      /\ Listed(rows'[x], published'[x])
  BY <1>4, <1>6 DEF BatchInv
<1>9. \A v \in Publisher : Claimer(v, publisher'[v], batch')
  <2>1. Claimer(w, p, batch)
    BY DEF Claimer, Claiming
  <2>2. QED
    BY <1>3, <2>1 DEF BatchInv
<1>10. Apart'
  BY <1>3 DEF BatchInv, Apart, Calling
<1>11. EndedBatchClosed'
  BY DEF BatchInv, BatchTypeOK, EndedBatchClosed, Open, InStatus
<1>12. QED
  BY <1>1, <1>3, <1>4, <1>7, <1>8, <1>9, <1>10, <1>11, Assemble

-----------------------------------------------------------------------------
(* What a worker must know where it goes                                   *)

LEMMA KnownItems ==
    ASSUME BatchInv, NEW w \in Publisher
    PROVE  \A r \in publisher[w].known : r \in Line /\ rows[r].item
BY DEF BatchInv, BatchTypeOK, PublisherState, Ours

LEMMA QuietOurs ==
    ASSUME BatchInv, NEW w \in Publisher, NEW p, p.pc \notin Before \cup Busy,
           p.known \subseteq publisher[w].known
    PROVE  /\ \A r \in Line : Ours(w, p, r, rows[r], published[r])
           /\ Claimer(w, p, batch) /\ p.pc \notin Calling
<1>1. p.pc \notin {"mark", "complete", "fail"} \cup Calling \cup Claiming
  BY DEF Before, Busy, Calling, Claiming
<1>2. QED
  BY <1>1, KnownItems DEF Ours, Claimer

LEMMA BeforeOurs ==
    ASSUME BatchInv, NEW w \in Publisher, NEW p, p.pc \in Before,
           \A r \in p.known : rows[r].item, \A r \in Line : rows[r].token # w
    PROVE  /\ \A r \in Line : Ours(w, p, r, rows[r], published[r])
           /\ p.pc \notin Calling \cup Busy
<1>1. p.pc \notin {"mark", "complete", "fail"} \cup Calling \cup Busy
  BY DEF Before, Busy, Calling
<1>2. QED
  BY <1>1 DEF Ours

\* A failure is about to be written: unless it says that the result is
\* unknown, the row was not published or its item is recorded.
LEMMA FailureOurs ==
    ASSUME BatchInv, NEW w \in Publisher, publisher[w].pc \in Busy, NEW p, p.pc = "fail",
           p.row = publisher[w].row, p.known = publisher[w].known,
           p.err \in {"uncertain_remote", "post_publish", "publish"},
           \/ p.err = "uncertain_remote"
           \/ rows[p.row].token # w \/ rows[p.row].item \/ published[p.row] = 0
    PROVE  /\ \A r \in Line : Ours(w, p, r, rows[r], published[r])
           /\ Claimer(w, p, batch) /\ p.pc \notin Calling
<1>1. p.pc \notin {"mark", "complete"} \cup Calling \cup Claiming \cup Before
  BY DEF Before, Calling, Claiming
<1>2. \A r \in Line : r # publisher[w].row => rows[r].token # w
  BY DEF BatchInv, Ours
<1>3. QED
  BY <1>1, <1>2, KnownItems DEF Ours, Claimer

LEMMA BatchQuietStep ==
    ASSUME BatchInv, NEW w \in Publisher, NEW p \in PublisherState,
           publisher' = [publisher EXCEPT ![w] = p], p.pc \notin Before \cup Busy,
           p.known \subseteq publisher[w].known,
           UNCHANGED <<batch, rows, published>>,
           requests' \in 0 .. MaxRequests, batchEnv' \in 0 .. MaxBatchEnv,
           givenBack' = givenBack
    PROVE  BatchInv'
BY QuietOurs, MoveStep

LEMMA LeaveStep ==
    ASSUME BatchInv, NEW w \in Publisher, Leave(w), UNCHANGED <<batch, rows, published>>,
           requests' \in 0 .. MaxRequests, batchEnv' \in 0 .. MaxBatchEnv,
           givenBack' = givenBack
    PROVE  BatchInv'
<1>1. IdlePublisher.pc \notin Before \cup Busy /\ IdlePublisher.known \subseteq publisher[w].known
  BY IdleType DEF Before, Busy
<1>2. publisher' = [publisher EXCEPT ![w] = IdlePublisher]
  BY DEF Leave
<1>3. QED
  BY <1>1, <1>2, IdleType, BatchQuietStep

LEMMA ToStep ==
    ASSUME BatchInv, NEW w \in Publisher,
           NEW pc \in {"finish", "final", "interrupt", "interrupted", "cancel"}, PublisherTo(w, pc),
           UNCHANGED <<batch, rows, published>>,
           requests' \in 0 .. MaxRequests, batchEnv' \in 0 .. MaxBatchEnv,
           givenBack' = givenBack
    PROVE  BatchInv'
<1> DEFINE p == [publisher[w] EXCEPT !.pc = pc]
<1>1. publisher[w] \in PublisherState /\ pc \in PublisherPc
  BY DEF BatchInv, BatchTypeOK, PublisherPc
<1>2. p \in PublisherState /\ p.pc = pc /\ p.known = publisher[w].known
  BY <1>1, PublisherPlaces
<1>3. publisher' = [publisher EXCEPT ![w] = p]
  BY DEF PublisherTo
<1> HIDE DEF p
<1>4. p.pc \notin Before \cup Busy
  BY <1>2 DEF Before, Busy
<1>5. QED
  BY <1>2, <1>3, <1>4, BatchQuietStep

LEMMA FailStep ==
    ASSUME BatchInv, NEW w \in Publisher, publisher[w].pc \in Busy,
           NEW kind \in {"uncertain_remote", "post_publish", "publish"}, FailRow(w, kind),
           \/ kind = "uncertain_remote"
           \/ rows[publisher[w].row].token # w
           \/ rows[publisher[w].row].item
           \/ published[publisher[w].row] = 0,
           UNCHANGED <<batch, rows, published>>,
           requests' \in 0 .. MaxRequests, batchEnv' \in 0 .. MaxBatchEnv,
           givenBack' = givenBack
    PROVE  BatchInv'
<1> DEFINE p == [publisher[w] EXCEPT !.pc = "fail", !.err = kind]
<1>1. publisher[w] \in PublisherState /\ kind \in FailureKind
  BY DEF BatchInv, BatchTypeOK, FailureKind
<1>2. /\ p \in PublisherState /\ p.pc = "fail" /\ p.row = publisher[w].row
      /\ p.known = publisher[w].known /\ p.err = kind
  BY <1>1, FailureType
<1>3. publisher' = [publisher EXCEPT ![w] = p]
  BY DEF FailRow
<1> HIDE DEF p
<1>4. /\ \A r \in Line : Ours(w, p, r, rows[r], published[r])
      /\ Claimer(w, p, batch) /\ p.pc \notin Calling
  BY <1>2, FailureOurs
<1>5. QED
  BY <1>2, <1>3, <1>4, MoveStep

-----------------------------------------------------------------------------
(* The actions that touch no row                                           *)

LEMMA BatchBounds ==
    ASSUME BatchInv
    PROVE  /\ requests \in 0 .. MaxRequests /\ batchEnv \in 0 .. MaxBatchEnv
           /\ requests > 0 => requests - 1 \in 0 .. MaxRequests
           /\ batchEnv > 0 => batchEnv - 1 \in 0 .. MaxBatchEnv
BY BatchAssumption DEF BatchInv, BatchTypeOK

LEMMA BeginStep ==
    ASSUME BatchInv, NEW w \in Publisher, StartBatch(w) \/ RetryFailedBatch(w) \/ Recover(w)
    PROVE  BatchInv'
<1>1. PICK kind \in {"start", "retry", "recover"} : Begin(w, kind)
  BY DEF StartBatch, RetryFailedBatch, Recover
<1> DEFINE p == [publisher[w] EXCEPT !.pc = "acquire", !.kind = kind]
<1>2. publisher[w] \in PublisherState
  BY DEF BatchInv, BatchTypeOK
<1>3. p \in PublisherState /\ p.pc = "acquire" /\ p.known = publisher[w].known
  BY <1>2 DEF PublisherState
<1>4. publisher' = [publisher EXCEPT ![w] = p]
  BY <1>1 DEF Begin
<1>5. \A r \in Line : rows[r].token # w
  BY DEF StartBatch, RetryFailedBatch, Recover, Fresh
<1> HIDE DEF p
<1>6. /\ \A r \in Line : Ours(w, p, r, rows[r], published[r])
      /\ p.pc \notin Calling \cup Busy
  BY <1>3, <1>5, KnownItems, BeforeOurs DEF Before
<1>7. Claimer(w, p, batch)
  BY <1>3 DEF Claimer, Claiming
<1>8. /\ batch' = batch /\ rows' = rows /\ published' = published
      /\ requests' \in 0 .. MaxRequests /\ batchEnv' \in 0 .. MaxBatchEnv
      /\ givenBack' = givenBack
  BY BatchBounds DEF StartBatch, RetryFailedBatch, Recover
<1>9. QED
  BY <1>3, <1>4, <1>6, <1>7, <1>8, MoveStep

LEMMA PendingRowsStep ==
    ASSUME BatchInv, NEW w \in Publisher, PendingRows(w)
    PROVE  BatchInv'
<1> DEFINE known == {r \in InStatus("pending") : rows[r].item}
           p == [publisher[w] EXCEPT !.pc = "next", !.todo = InStatus("pending"), !.known = known]
<1>1. publisher[w] \in PublisherState /\ InStatus("pending") \subseteq Line /\ known \subseteq Line
  BY DEF BatchInv, BatchTypeOK, InStatus
<1>2. \A r \in known : rows[r].item
  OBVIOUS
<1> HIDE DEF known
<1>3. p \in PublisherState /\ p.pc = "next" /\ p.known = known
  BY <1>1 DEF PublisherState
<1>4. publisher' = [publisher EXCEPT ![w] = p]
  BY DEF PendingRows, known
<1>5. \A r \in Line : rows[r].token # w
  BY DEF PendingRows, PublisherAt, BatchInv, Ours, Before
<1> HIDE DEF p
<1>6. /\ \A r \in Line : Ours(w, p, r, rows[r], published[r])
      /\ p.pc \notin Calling \cup Busy
  BY <1>2, <1>3, <1>5, BeforeOurs DEF Before
<1>7. Claimer(w, p, batch)
  BY <1>3 DEF Claimer, Claiming
<1>8. /\ batch' = batch /\ rows' = rows /\ published' = published
      /\ requests' \in 0 .. MaxRequests /\ batchEnv' \in 0 .. MaxBatchEnv
      /\ givenBack' = givenBack
  BY BatchBounds DEF PendingRows
<1>9. QED
  BY <1>3, <1>4, <1>6, <1>7, <1>8, MoveStep

LEMMA NextRowStep ==
    ASSUME BatchInv, NEW w \in Publisher, NextRow(w)
    PROVE  BatchInv'
<1> DEFINE todo == publisher[w].todo
<1>1. /\ rows' = rows /\ published' = published
      /\ requests' \in 0 .. MaxRequests /\ batchEnv' \in 0 .. MaxBatchEnv
      /\ givenBack' = givenBack
  BY BatchBounds DEF NextRow
<1>2. CASE PublisherTo(w, "finish") /\ UNCHANGED batch
  BY <1>1, <1>2, ToStep
<1>3. CASE PublisherTo(w, "interrupt") /\ UNCHANGED batch
  BY <1>1, <1>3, ToStep
<1>4. CASE /\ todo # {}
           /\ batch' = [batch EXCEPT !.leased = TRUE]
           /\ publisher' = [publisher EXCEPT ![w] = [@ EXCEPT !.pc = "claim", !.row = Min(todo),
                                                             !.todo = todo \ {Min(todo)}]]
  <2> DEFINE p == [publisher[w] EXCEPT !.pc = "claim", !.row = Min(todo), !.todo = todo \ {Min(todo)}]
  <2>1. publisher[w] \in PublisherState
    BY DEF BatchInv, BatchTypeOK
  <2>2. todo \subseteq Line
    BY <2>1 DEF PublisherState
  <2>3. Min(todo) \in Line /\ todo \ {Min(todo)} \subseteq Line
    BY <1>4, <2>2, LeastRow
  <2>4. p \in PublisherState /\ p.pc = "claim" /\ p.known = publisher[w].known
    BY <2>1, <2>3 DEF PublisherState
  <2>5. publisher' = [publisher EXCEPT ![w] = p]
    BY <1>4
  <2>6. \A r \in Line : rows[r].token # w
    BY DEF NextRow, PublisherAt, BatchInv, Ours, Before
  <2> HIDE DEF p
  <2>7. /\ \A r \in Line : Ours(w, p, r, rows[r], published[r])
        /\ p.pc \notin Calling \cup Busy
    BY <2>4, <2>6, KnownItems, BeforeOurs DEF Before
  <2>8. Claimer(w, p, batch)
    BY <2>4 DEF Claimer, Claiming
  <2>9. QED
    BY <1>1, <1>4, <2>4, <2>5, <2>7, <2>8, MoveStep
<1>5. QED
  BY <1>2, <1>3, <1>4 DEF NextRow

LEMMA ReserveStep ==
    ASSUME BatchInv, NEW w \in Publisher, ReservePublishSlot(w)
    PROVE  BatchInv'
<1>1. /\ batch' = batch /\ rows' = rows /\ published' = published
      /\ requests' \in 0 .. MaxRequests /\ batchEnv' \in 0 .. MaxBatchEnv
      /\ givenBack' = givenBack
  BY BatchBounds DEF ReservePublishSlot
<1>2. /\ publisher[w] \in PublisherState /\ publisher[w].row \in Line /\ publisher[w].pc = "slot"
      /\ \A r \in Line : Ours(w, publisher[w], r, rows[r], published[r])
  BY DEF ReservePublishSlot, PublisherAt, BatchInv, BatchTypeOK, PublisherState
<1>3. published[publisher[w].row] = 0 /\ publisher[w].pc \in Busy
  BY <1>2 DEF Ours, Calling, Busy
<1>4. CASE PublisherTo(w, "call")
  <2> DEFINE p == [publisher[w] EXCEPT !.pc = "call"]
  <2>1. /\ p \in PublisherState /\ p.pc = "call" /\ p.row = publisher[w].row
        /\ p.known = publisher[w].known
    BY <1>2, PublisherPlaces DEF PublisherPc
  <2>2. publisher' = [publisher EXCEPT ![w] = p]
    BY <1>4 DEF PublisherTo
  <2> HIDE DEF p
  <2>3. \A r \in Line : Ours(w, p, r, rows[r], published[r])
    BY <1>2, <2>1 DEF Ours, Busy, Before, Calling
  <2>4. Claimer(w, p, batch) /\ publisher[w].pc \in Calling
    BY <1>2, <2>1 DEF Claimer, Claiming, Calling
  <2>5. QED
    BY <1>1, <2>1, <2>2, <2>3, <2>4, MoveStep
<1>5. ASSUME NEW kind \in {"publish", "uncertain_remote"}, FailRow(w, kind) PROVE BatchInv'
  BY <1>1, <1>3, <1>5, FailStep
<1>6. QED
  BY <1>4, <1>5 DEF ReservePublishSlot

LEMMA PublishItemStep ==
    ASSUME BatchInv, NEW w \in Publisher, PublishItem(w)
    PROVE  BatchInv'
<1>1. /\ batch' = batch /\ rows' = rows
      /\ requests' \in 0 .. MaxRequests /\ batchEnv' \in 0 .. MaxBatchEnv
      /\ givenBack' = givenBack
  BY BatchBounds DEF PublishItem
<1>2. /\ publisher[w] \in PublisherState /\ publisher[w].row \in Line /\ publisher[w].pc = "call"
      /\ \A r \in Line : Ours(w, publisher[w], r, rows[r], published[r])
  BY DEF PublishItem, PublisherAt, BatchInv, BatchTypeOK, PublisherState
<1>3. published[publisher[w].row] = 0 /\ publisher[w].pc \in Busy
  BY <1>2 DEF Ours, Calling, Busy
<1>4. CASE /\ published' = [published EXCEPT ![publisher[w].row] = @ + 1]
           /\ PublisherTo(w, "save") \/ FailRow(w, "uncertain_remote")
  <2>1. PICK p \in PublisherState :
           /\ publisher' = [publisher EXCEPT ![w] = p]
           /\ p.pc = "save" \/ (p.pc = "fail" /\ p.err = "uncertain_remote")
           /\ p.row = publisher[w].row /\ p.known = publisher[w].known
    <3>1. CASE PublisherTo(w, "save")
      <4> DEFINE q == [publisher[w] EXCEPT !.pc = "save"]
      <4>1. /\ q \in PublisherState /\ q.pc = "save" /\ q.row = publisher[w].row
            /\ q.known = publisher[w].known
        BY <1>2, PublisherPlaces DEF PublisherPc
      <4>2. publisher' = [publisher EXCEPT ![w] = q]
        BY <3>1 DEF PublisherTo
      <4> HIDE DEF q
      <4>3. QED
        BY <4>1, <4>2
    <3>2. CASE FailRow(w, "uncertain_remote")
      <4> DEFINE q == [publisher[w] EXCEPT !.pc = "fail", !.err = "uncertain_remote"]
      <4>1. /\ q \in PublisherState /\ q.pc = "fail" /\ q.err = "uncertain_remote"
            /\ q.row = publisher[w].row /\ q.known = publisher[w].known
        BY <1>2, FailureType DEF FailureKind
      <4>2. publisher' = [publisher EXCEPT ![w] = q]
        BY <3>2 DEF FailRow
      <4> HIDE DEF q
      <4>3. QED
        BY <4>1, <4>2
    <3>3. QED
      BY <1>4, <3>1, <3>2
  <2>2. QED
    BY <1>1, <1>2, <1>4, <2>1, ListingStep
<1>5. ASSUME NEW kind \in {"publish", "uncertain_remote"}, FailRow(w, kind), UNCHANGED published
      PROVE  BatchInv'
  BY <1>1, <1>3, <1>5, FailStep
<1>6. QED
  BY <1>4, <1>5 DEF PublishItem

LEMMA ReadEndStep ==
    ASSUME BatchInv, NEW w \in Publisher, ReadBatchEnd(w)
    PROVE  BatchInv'
<1>1. /\ batch' = batch /\ rows' = rows /\ published' = published
      /\ requests' \in 0 .. MaxRequests /\ batchEnv' \in 0 .. MaxBatchEnv
      /\ givenBack' = givenBack
  BY BatchBounds DEF ReadBatchEnd
<1>2. Leave(w) \/ \E pc \in {"cancel", "final", "interrupted"} : PublisherTo(w, pc)
  BY DEF ReadBatchEnd
<1>3. QED
  BY <1>1, <1>2, LeaveStep, ToStep

-----------------------------------------------------------------------------
(* The actions that write the worker's row                                 *)

\* The row a worker has in hand, with what the invariant says of it.
LEMMA InHand ==
    ASSUME BatchInv, NEW w \in Publisher
    PROVE  LET r == publisher[w].row IN
           /\ publisher[w] \in PublisherState /\ r \in Line
           /\ rows[r] \in BatchRow /\ published[r] \in Nat
           /\ RowFormed(rows[r]) /\ RowOf(rows[r], batch) /\ Listed(rows[r], published[r])
           /\ Ours(w, publisher[w], r, rows[r], published[r])
           /\ rows[r].token = w => HoldsRow(w, r)
           /\ publisher[w].pc \in Busy => \A x \in Line \ {r} : rows[x].token # w
<1>1. publisher[w] \in PublisherState /\ publisher[w].row \in Line
  BY DEF BatchInv, BatchTypeOK, PublisherState
<1>2. /\ rows[publisher[w].row] \in BatchRow /\ published[publisher[w].row] \in Nat
  BY <1>1 DEF BatchInv, BatchTypeOK
<1>3. RowFormed(rows[publisher[w].row])
  BY <1>1 DEF BatchInv
<1>4. rows[publisher[w].row].token = w => HoldsRow(w, publisher[w].row)
  BY <1>3, BatchAssumption DEF RowFormed, HoldsRow
<1>5. publisher[w].pc \in Busy => \A x \in Line \ {publisher[w].row} : rows[x].token # w
  BY DEF BatchInv, Ours
<1>6. QED
  BY <1>1, <1>2, <1>3, <1>4, <1>5 DEF BatchInv

\* Where the worker goes after it has written its row.
LEMMA PlacedOurs ==
    ASSUME BatchInv, NEW w \in Publisher, NEW pc \in PublisherPc, PublisherTo(w, pc),
           pc \notin Calling \cup Claiming \cup {"fail"},
           NEW r \in Line, NEW row, rows[r].item => row.item,
           \A x \in Line \ {r} : rows[x].token # w,
           pc \in Before => row.token # w,
           pc \in Busy => publisher[w].row = r,
           pc = "mark" => row.kind = "none",
           pc = "complete" => row.item
    PROVE  \E p \in PublisherState :
              /\ publisher' = [publisher EXCEPT ![w] = p] /\ p.pc = pc
              /\ \A x \in Line \ {r} : Ours(w, p, x, rows[x], published[x])
              /\ Ours(w, p, r, row, published[r])
              /\ Claimer(w, p, batch)
<1> DEFINE p == [publisher[w] EXCEPT !.pc = pc]
<1>1. /\ publisher[w] \in PublisherState
      /\ p \in PublisherState /\ p.pc = pc /\ p.row = publisher[w].row /\ p.known = publisher[w].known
  BY PublisherPlaces DEF BatchInv, BatchTypeOK
<1>2. publisher' = [publisher EXCEPT ![w] = p]
  BY DEF PublisherTo
<1> HIDE DEF p
<1>3. \A x \in Line \ {r} : Ours(w, p, x, rows[x], published[x])
  <2> SUFFICES ASSUME NEW x \in Line \ {r} PROVE Ours(w, p, x, rows[x], published[x])
    OBVIOUS
  <2>1. rows[x].token # w /\ (x \in p.known => rows[x].item)
    BY <1>1, KnownItems
  <2>2. p.pc \notin Calling
    BY <1>1
  <2>3. QED
    BY <1>1, <2>1, <2>2 DEF Ours
<1>4. Ours(w, p, r, row, published[r])
  <2>1. r \in p.known => row.item
    BY <1>1, KnownItems
  <2>2. p.pc \notin Calling /\ p.pc # "fail"
    BY <1>1
  <2>3. QED
    BY <1>1, <2>1, <2>2 DEF Ours
<1>5. Claimer(w, p, batch)
  BY <1>1 DEF Claimer
<1>6. QED
  BY <1>1, <1>2, <1>3, <1>4, <1>5

LEMMA ClaimRowStep ==
    ASSUME BatchInv, NEW w \in Publisher, ClaimRow(w)
    PROVE  BatchInv'
<1> DEFINE r == publisher[w].row
<1>1. /\ publisher[w].pc = "claim" /\ batch' = batch /\ published' = published
      /\ requests' \in 0 .. MaxRequests /\ batchEnv' \in 0 .. MaxBatchEnv
      /\ givenBack' = givenBack
  BY BatchBounds DEF ClaimRow, PublisherAt
<1>2. /\ r \in Line /\ rows[r] \in BatchRow /\ published[r] \in Nat
      /\ RowFormed(rows[r]) /\ Listed(rows[r], published[r])
  BY InHand
<1>3. \A x \in Line : rows[x].token # w
  BY <1>1 DEF BatchInv, Ours, Before
<1>4. CASE rows[r].status = "pending" /\ HoldsBatch(w)
  <2> DEFINE row == [rows[r] EXCEPT !.status = "running", !.token = w, !.kind = "none"]
             pc == IF r \in publisher[w].known THEN "complete" ELSE "mark"
  <2>1. /\ row \in BatchRow /\ row.status = "running" /\ row.token = w /\ row.kind = "none"
        /\ row.item = rows[r].item
    BY <1>2 DEF BatchRow, FailureKind
  <2>2. rows' = [rows EXCEPT ![r] = row] /\ PublisherTo(w, pc)
    BY <1>4 DEF ClaimRow
  <2>3. w # NoToken
    BY BatchAssumption
  <2> HIDE DEF row
  <2>4. RowFormed(row) /\ RowOf(row, batch) /\ Listed(row, published[r])
    BY <1>2, <1>4, <2>1, <2>3 DEF RowFormed, RowOf, Listed, HoldsBatch
  <2>5. pc \in PublisherPc /\ pc \in {"complete", "mark"} /\ (pc = "complete" => row.item)
    BY <2>1, KnownItems DEF PublisherPc
  <2> HIDE DEF pc
  <2>6. pc \notin Calling \cup Claiming \cup {"fail"} \cup Before
    BY <2>5 DEF Calling, Claiming, Before
  <2>7. PICK p \in PublisherState :
              /\ publisher' = [publisher EXCEPT ![w] = p] /\ p.pc = pc
              /\ \A x \in Line \ {r} : Ours(w, p, x, rows[x], published[x])
              /\ Ours(w, p, r, row, published[r])
              /\ Claimer(w, p, batch)
    BY <1>2, <1>3, <2>1, <2>2, <2>5, <2>6, PlacedOurs
  <2>8. p.pc \notin Calling
    BY <2>6, <2>7
  <2>9. QED
    BY <1>1, <1>2, <1>4, <2>1, <2>2, <2>4, <2>7, <2>8, LineStep
<1>5. CASE ~(rows[r].status = "pending" /\ HoldsBatch(w))
  <2>1. PublisherTo(w, "next") /\ rows' = rows
    BY <1>5 DEF ClaimRow
  <2>2. "next" \in PublisherPc /\ "next" \notin Calling \cup Claiming \cup {"fail"} \cup Busy
    BY DEF PublisherPc, Calling, Claiming, Busy
  <2>3. PICK p \in PublisherState :
              /\ publisher' = [publisher EXCEPT ![w] = p] /\ p.pc = "next"
              /\ \A x \in Line \ {r} : Ours(w, p, x, rows[x], published[x])
              /\ Ours(w, p, r, rows[r], published[r])
              /\ Claimer(w, p, batch)
    BY <1>2, <1>3, <2>1, <2>2, PlacedOurs
  <2>4. \A x \in Line : Ours(w, p, x, rows[x], published[x])
    BY <2>3
  <2>5. QED
    BY <1>1, <2>1, <2>2, <2>3, <2>4, MoveStep
<1>6. QED
  BY <1>4, <1>5

LEMMA MarkStep ==
    ASSUME BatchInv, NEW w \in Publisher, MarkClaimedRemoteStarted(w)
    PROVE  BatchInv'
<1> DEFINE r == publisher[w].row
<1>1. /\ publisher[w].pc = "mark" /\ batch' = batch /\ published' = published
      /\ requests' \in 0 .. MaxRequests /\ batchEnv' \in 0 .. MaxBatchEnv
      /\ givenBack' = givenBack
  BY BatchBounds DEF MarkClaimedRemoteStarted, PublisherAt
<1>2. /\ publisher[w] \in PublisherState /\ r \in Line /\ rows[r] \in BatchRow /\ published[r] \in Nat
      /\ RowFormed(rows[r]) /\ RowOf(rows[r], batch) /\ Listed(rows[r], published[r])
      /\ Ours(w, publisher[w], r, rows[r], published[r])
      /\ publisher[w].pc \in Busy /\ \A x \in Line \ {r} : rows[x].token # w
  BY <1>1, InHand DEF Busy
<1>3. rows[r].token # w \/ rows[r].item \/ published[r] = 0
  BY <1>1, <1>2 DEF Ours, Listed
<1>4. CASE FailRow(w, "publish") /\ UNCHANGED rows
  BY <1>1, <1>2, <1>3, <1>4, FailStep
<1>5. CASE /\ HoldsRow(w, r) /\ ~rows[r].item
           /\ rows' = [rows EXCEPT ![r].kind = "remote_started"]
           /\ PublisherTo(w, "slot")
  <2> DEFINE row == [rows[r] EXCEPT !.kind = "remote_started"]
             p == [publisher[w] EXCEPT !.pc = "slot"]
  <2>1. /\ row \in BatchRow /\ row.status = "running" /\ row.token = w
        /\ row.kind = "remote_started" /\ ~row.item /\ w # NoToken
    BY <1>2, <1>5, BatchAssumption DEF BatchRow, FailureKind, HoldsRow
  <2>2. rows' = [rows EXCEPT ![r] = row]
    BY <1>5
  <2>3. /\ p \in PublisherState /\ p.pc = "slot" /\ p.row = r /\ p.known = publisher[w].known
        /\ publisher' = [publisher EXCEPT ![w] = p]
    BY <1>2, <1>5, PublisherPlaces DEF PublisherPc, PublisherTo
  <2>4. published[r] = 0
    BY <1>3, <1>5 DEF HoldsRow
  <2> HIDE DEF row, p
  <2>5. RowFormed(row) /\ RowOf(row, batch) /\ Listed(row, published[r])
    BY <1>2, <1>5, <2>1, <2>4 DEF RowFormed, RowOf, Listed, HoldsRow
  <2>6. p.pc \notin {"mark", "complete", "fail"} \cup Before \cup Claiming
    BY <2>3 DEF Before, Claiming
  <2>7. r \notin publisher[w].known
    BY <1>5, KnownItems
  <2>8. \A x \in Line \ {r} : Ours(w, p, x, rows[x], published[x])
    BY <1>2, <2>3, <2>6, KnownItems DEF Ours
  <2>9. Ours(w, p, r, row, published[r])
    BY <2>1, <2>3, <2>4, <2>6, <2>7 DEF Ours
  <2>10. Claimer(w, p, batch)
    BY <2>6 DEF Claimer
  <2>11. rows[r].status = "running" /\ rows[r].token = w
    BY <1>5 DEF HoldsRow
  <2>12. QED
    BY <1>1, <1>2, <1>5, <2>1, <2>2, <2>3, <2>5, <2>8, <2>9, <2>10, <2>11, LineStep
<1>6. QED
  BY <1>4, <1>5 DEF MarkClaimedRemoteStarted

LEMMA SaveStep ==
    ASSUME BatchInv, NEW w \in Publisher, SaveClaimedRemoteResult(w)
    PROVE  BatchInv'
<1> DEFINE r == publisher[w].row
<1>1. /\ publisher[w].pc = "save" /\ batch' = batch /\ published' = published
      /\ requests' \in 0 .. MaxRequests /\ batchEnv' \in 0 .. MaxBatchEnv
      /\ givenBack' = givenBack
  BY BatchBounds DEF SaveClaimedRemoteResult, PublisherAt
<1>2. /\ publisher[w] \in PublisherState /\ r \in Line /\ rows[r] \in BatchRow /\ published[r] \in Nat
      /\ RowFormed(rows[r]) /\ RowOf(rows[r], batch) /\ Listed(rows[r], published[r])
      /\ publisher[w].pc \in Busy /\ \A x \in Line \ {r} : rows[x].token # w
  BY <1>1, InHand DEF Busy
<1>3. CASE ~HoldsRow(w, r)
  <2>1. FailRow(w, "uncertain_remote") /\ rows' = rows
    BY <1>3 DEF SaveClaimedRemoteResult
  <2>2. QED
    BY <1>1, <1>2, <2>1, FailStep
<1>4. CASE HoldsRow(w, r)
  <2> DEFINE row == [rows[r] EXCEPT !.item = TRUE, !.kind = "post_publish"]
  <2>1. /\ row \in BatchRow /\ row.status = "running" /\ row.token = w /\ row.item
        /\ row.kind = "post_publish" /\ w # NoToken
    BY <1>2, <1>4, BatchAssumption DEF BatchRow, FailureKind, HoldsRow
  <2>2. rows' = [rows EXCEPT ![r] = row]
    BY <1>4 DEF SaveClaimedRemoteResult
  <2> HIDE DEF row
  <2>3. RowFormed(row) /\ RowOf(row, batch) /\ Listed(row, published[r])
    BY <1>2, <1>4, <2>1 DEF RowFormed, RowOf, Listed, HoldsRow
  <2>4. rows[r].status = "running" /\ rows[r].token = w
    BY <1>4 DEF HoldsRow
  <2>5. CASE PublisherTo(w, "complete")
    <3>1. "complete" \in PublisherPc /\ "complete" \notin Calling \cup Claiming \cup {"fail"} \cup Before
      BY DEF PublisherPc, Calling, Claiming, Before
    <3>2. PICK p \in PublisherState :
              /\ publisher' = [publisher EXCEPT ![w] = p] /\ p.pc = "complete"
              /\ \A x \in Line \ {r} : Ours(w, p, x, rows[x], published[x])
              /\ Ours(w, p, r, row, published[r])
              /\ Claimer(w, p, batch)
      BY <1>2, <2>1, <2>5, <3>1, PlacedOurs
    <3>3. QED
      BY <1>1, <1>2, <2>1, <2>2, <2>3, <2>4, <3>1, <3>2, LineStep
  <2>6. CASE FailRow(w, "post_publish")
    <3> DEFINE p == [publisher[w] EXCEPT !.pc = "fail", !.err = "post_publish"]
    <3>1. /\ p \in PublisherState /\ p.pc = "fail" /\ p.row = r /\ p.known = publisher[w].known
          /\ p.err = "post_publish" /\ publisher' = [publisher EXCEPT ![w] = p]
      BY <1>2, <2>6, FailureType DEF FailureKind, FailRow
    <3> HIDE DEF p
    <3>2. p.pc \notin {"mark", "complete"} \cup Calling \cup Before \cup Claiming
      BY <3>1 DEF Before, Claiming, Calling
    <3>3. \A x \in Line \ {r} : Ours(w, p, x, rows[x], published[x])
      BY <1>2, <3>1, <3>2, KnownItems DEF Ours
    <3>4. Ours(w, p, r, row, published[r])
      BY <2>1, <3>1, <3>2 DEF Ours
    <3>5. Claimer(w, p, batch)
      BY <3>1, <3>2 DEF Claimer
    <3>6. QED
      BY <1>1, <1>2, <2>1, <2>2, <2>3, <2>4, <3>1, <3>2, <3>3, <3>4, <3>5, LineStep
  <2>7. QED
    BY <1>4, <2>5, <2>6 DEF SaveClaimedRemoteResult
<1>5. QED
  BY <1>3, <1>4

LEMMA CompleteStep ==
    ASSUME BatchInv, NEW w \in Publisher, CompleteRow(w)
    PROVE  BatchInv'
<1> DEFINE r == publisher[w].row
<1>1. /\ publisher[w].pc = "complete" /\ batch' = batch /\ published' = published
      /\ requests' \in 0 .. MaxRequests /\ batchEnv' \in 0 .. MaxBatchEnv
      /\ givenBack' = givenBack
  BY BatchBounds DEF CompleteRow, PublisherAt
<1>2. /\ publisher[w] \in PublisherState /\ r \in Line /\ rows[r] \in BatchRow /\ published[r] \in Nat
      /\ RowFormed(rows[r]) /\ RowOf(rows[r], batch) /\ Listed(rows[r], published[r])
      /\ Ours(w, publisher[w], r, rows[r], published[r])
      /\ publisher[w].pc \in Busy /\ \A x \in Line \ {r} : rows[x].token # w
  BY <1>1, InHand DEF Busy
<1>3. rows[r].token # w \/ rows[r].item
  BY <1>1, <1>2 DEF Ours
<1>4. CASE (FailRow(w, "post_publish") \/ FailRow(w, "publish")) /\ UNCHANGED rows
  BY <1>1, <1>2, <1>3, <1>4, FailStep
<1>5. CASE /\ HoldsRow(w, r)
           /\ rows' = [rows EXCEPT ![r] = [@ EXCEPT !.status = "success", !.item = TRUE,
                                                    !.kind = "none", !.token = NoToken]]
           /\ PublisherTo(w, "next")
  <2> DEFINE row == [rows[r] EXCEPT !.status = "success", !.item = TRUE, !.kind = "none",
                                    !.token = NoToken]
  <2>1. /\ row \in BatchRow /\ row.status = "success" /\ row.token = NoToken /\ row.item
        /\ w # NoToken
    BY <1>2, BatchAssumption DEF BatchRow, FailureKind
  <2>2. rows' = [rows EXCEPT ![r] = row]
    BY <1>5
  <2> HIDE DEF row
  <2>3. RowFormed(row) /\ RowOf(row, batch) /\ Listed(row, published[r])
    BY <1>2, <2>1 DEF RowFormed, RowOf, Listed
  <2>4. rows[r].status = "running" /\ rows[r].token = w
    BY <1>5 DEF HoldsRow
  <2>5. "next" \in PublisherPc /\ "next" \notin Calling \cup Claiming \cup {"fail"} \cup Busy
    BY DEF PublisherPc, Calling, Claiming, Busy
  <2>6. PICK p \in PublisherState :
              /\ publisher' = [publisher EXCEPT ![w] = p] /\ p.pc = "next"
              /\ \A x \in Line \ {r} : Ours(w, p, x, rows[x], published[x])
              /\ Ours(w, p, r, row, published[r])
              /\ Claimer(w, p, batch)
    BY <1>2, <1>5, <2>1, <2>5, PlacedOurs
  <2>7. QED
    BY <1>1, <1>2, <2>1, <2>2, <2>3, <2>4, <2>5, <2>6, LineStep
<1>6. QED
  BY <1>4, <1>5 DEF CompleteRow

LEMMA MarkFailedStep ==
    ASSUME BatchInv, NEW w \in Publisher, MarkClaimedRowFailed(w)
    PROVE  BatchInv'
<1> DEFINE r == publisher[w].row
           err == publisher[w].err
<1>1. /\ publisher[w].pc = "fail" /\ batch' = batch /\ published' = published
      /\ requests' \in 0 .. MaxRequests /\ batchEnv' \in 0 .. MaxBatchEnv
      /\ givenBack' = givenBack
  BY BatchBounds DEF MarkClaimedRowFailed, PublisherAt
<1>2. /\ publisher[w] \in PublisherState /\ r \in Line /\ rows[r] \in BatchRow /\ published[r] \in Nat
      /\ RowFormed(rows[r]) /\ RowOf(rows[r], batch) /\ Listed(rows[r], published[r])
      /\ Ours(w, publisher[w], r, rows[r], published[r])
      /\ publisher[w].pc \in Busy /\ \A x \in Line \ {r} : rows[x].token # w
  BY <1>1, InHand DEF Busy
<1>3. err \in {"uncertain_remote", "post_publish", "publish"}
  BY <1>1 DEF BatchInv, Claimer
<1>4. CASE ~HoldsRow(w, r)
  <2>1. PublisherTo(w, "interrupt") /\ rows' = rows
    BY <1>4 DEF MarkClaimedRowFailed
  <2>2. QED
    BY <1>1, <2>1, ToStep
<1>5. CASE HoldsRow(w, r)
  <2> DEFINE row == Ended(rows[r], err)
  <2>1. /\ row \in BatchRow /\ row.status = "failed" /\ row.token = NoToken
        /\ row.item = rows[r].item /\ row.kind = err /\ w # NoToken
    BY <1>2, <1>3, BatchAssumption DEF BatchRow, FailureKind, Ended
  <2>2. rows' = [rows EXCEPT ![r] = row]
    BY <1>5 DEF MarkClaimedRowFailed
  <2>3. PICK pc \in {"next", "interrupt"} : PublisherTo(w, pc)
    BY <1>5 DEF MarkClaimedRowFailed
  <2> HIDE DEF row
  <2>4. rows[r].status = "running" /\ rows[r].token = w
    BY <1>5 DEF HoldsRow
  <2>5. err = "uncertain_remote" \/ row.item \/ published[r] = 0
    BY <1>1, <1>2, <2>1, <2>4 DEF Ours
  <2>6. RowFormed(row) /\ RowOf(row, batch) /\ Listed(row, published[r])
    BY <1>2, <1>3, <2>1, <2>5 DEF RowFormed, RowOf, Listed
  <2>7. pc \in PublisherPc /\ pc \notin Calling \cup Claiming \cup {"fail"} \cup Busy
    BY <2>3 DEF PublisherPc, Calling, Claiming, Busy
  <2>8. pc # "mark" /\ pc # "complete"
    BY <2>3
  <2>9. PICK p \in PublisherState :
              /\ publisher' = [publisher EXCEPT ![w] = p] /\ p.pc = pc
              /\ \A x \in Line \ {r} : Ours(w, p, x, rows[x], published[x])
              /\ Ours(w, p, r, row, published[r])
              /\ Claimer(w, p, batch)
    BY <1>2, <2>1, <2>3, <2>7, <2>8, PlacedOurs
  <2>10. p.pc \notin Calling
    BY <2>7, <2>9
  <2>11. QED
    BY <1>1, <1>2, <2>1, <2>2, <2>4, <2>6, <2>9, <2>10, LineStep
<1>6. QED
  BY <1>4, <1>5

-----------------------------------------------------------------------------
(* The actions of the batch as a whole                                     *)

\* A worker takes the batch or resets its rows before it has one in hand.
LEMMA ClaimingMove ==
    ASSUME BatchInv, NEW w \in Publisher, publisher[w].pc \in Before, NEW pc \in {"reset", "start"},
           PublisherTo(w, pc)
    PROVE  /\ publisher' \in [Publisher -> PublisherState] /\ publisher'[w].pc = pc
           /\ \A v \in Publisher \ {w} : publisher'[v] = publisher[v]
           /\ \A v \in Publisher, r \in Line : Ours(v, publisher'[v], r, rows[r], published[r])
           /\ Apart'
           /\ \A r \in Line : rows[r].token # w
<1> DEFINE p == [publisher[w] EXCEPT !.pc = pc]
<1>1. publisher[w] \in PublisherState /\ pc \in PublisherPc
  BY DEF BatchInv, BatchTypeOK, PublisherPc
<1>2. p \in PublisherState /\ p.pc = pc /\ p.known = publisher[w].known
  BY <1>1, PublisherPlaces
<1>3. publisher' = [publisher EXCEPT ![w] = p]
  BY DEF PublisherTo
<1> HIDE DEF p
<1>4. \A r \in Line : rows[r].token # w
  BY DEF BatchInv, Ours
<1>5. /\ \A r \in Line : Ours(w, p, r, rows[r], published[r])
      /\ p.pc \notin Calling \cup Busy
  BY <1>2, <1>4, KnownItems, BeforeOurs DEF Before
<1>6. QED
  BY <1>2, <1>3, <1>4, <1>5, Moved

LEMMA ClaimBatchStep ==
    ASSUME BatchInv, NEW w \in Publisher, ClaimBatch(w)
    PROVE  BatchInv'
<1>1. /\ publisher[w].pc = "acquire" /\ published' = published
      /\ requests' \in 0 .. MaxRequests /\ batchEnv' \in 0 .. MaxBatchEnv
  BY BatchBounds DEF ClaimBatch, PublisherAt
<1>2. CASE ~Claimable
  <2>1. Leave(w) /\ batch' = batch /\ rows' = rows /\ givenBack' = givenBack
    BY <1>2 DEF ClaimBatch
  <2>2. QED
    BY <1>1, <2>1, LeaveStep
<1>3. CASE Claimable
  <2>1. /\ batch' = [status |-> "running", token |-> w, leased |-> TRUE]
        /\ rows' = [r \in Line |-> IF rows[r].status = "running" /\ rows[r].token # w
                                   THEN Requeued(rows[r]) ELSE rows[r]]
        /\ PublisherTo(w, "reset") /\ givenBack' = FALSE
    BY <1>3 DEF ClaimBatch
  <2>2. /\ batch' \in Batch /\ batch'.status = "running" /\ batch'.token = w /\ batch'.leased
    BY <2>1 DEF Batch, BatchStatus
  <2>3. /\ publisher' \in [Publisher -> PublisherState] /\ publisher'[w].pc = "reset"
        /\ \A v \in Publisher \ {w} : publisher'[v] = publisher[v]
        /\ \A v \in Publisher, r \in Line : Ours(v, publisher'[v], r, rows[r], published[r])
        /\ Apart'
        /\ \A r \in Line : rows[r].token # w
    BY <1>1, <2>1, ClaimingMove DEF Before
  <2>4. ASSUME NEW r \in Line
        PROVE  rows'[r] \in BatchRow /\ Swept(rows[r], rows'[r]) /\ rows'[r].status # "running"
    <3>1. rows[r] \in BatchRow /\ RowFormed(rows[r])
      BY DEF BatchInv, BatchTypeOK
    <3>2. CASE rows[r].status # "running"
      BY <2>1, <3>1, <3>2 DEF Swept
    <3>3. CASE rows[r].status = "running" /\ Unknown(rows[r])
      <4> DEFINE row == Ended(rows[r], "uncertain_remote")
      <4>1. /\ row \in BatchRow /\ row.status = "failed" /\ row.kind = "uncertain_remote"
            /\ row.token = NoToken /\ row.item = rows[r].item
        BY <3>1 DEF BatchRow, FailureKind, Ended
      <4>2. rows'[r] = row
        BY <2>1, <2>3, <3>3 DEF Requeued
      <4> HIDE DEF row
      <4>3. QED
        BY <3>1, <3>3, <4>1, <4>2 DEF Swept, RowFormed, Dead
    <3>4. CASE rows[r].status = "running" /\ ~Unknown(rows[r])
      <4> DEFINE row == [rows[r] EXCEPT !.status = "pending", !.kind = "interrupted", !.token = NoToken]
      <4>1. /\ row \in BatchRow /\ row.status = "pending" /\ row.kind = "interrupted"
            /\ row.token = NoToken /\ row.item = rows[r].item
        BY <3>1 DEF BatchRow, FailureKind
      <4>2. rows'[r] = row
        BY <2>1, <2>3, <3>4 DEF Requeued
      <4> HIDE DEF row
      <4>3. QED
        BY <3>1, <3>4, <4>1, <4>2 DEF Swept, RowFormed, Dead, Unknown
    <3>5. QED
      BY <3>2, <3>3, <3>4
  <2>5. rows' \in [Line -> BatchRow]
    BY <2>1, <2>4
  <2>6. \A r \in Line : RowOf(rows'[r], batch')
    BY <2>4 DEF RowOf
  <2>7. \A v \in Publisher : Claimer(v, publisher'[v], batch')
    <3>1. \A v \in Publisher \ {w} : publisher[v].pc \notin Claiming
      BY <1>3 DEF BatchInv, Claimer, Claimable
    <3>2. QED
      BY <2>2, <2>3, <3>1 DEF BatchInv, Claimer
  <2>8. EndedBatchClosed'
    BY <2>2 DEF EndedBatchClosed
  <2>9. QED
    BY <1>1, <2>1, <2>2, <2>3, <2>4, <2>5, <2>6, <2>7, <2>8, SweepStep
<1>4. QED
  BY <1>2, <1>3

LEMMA ResetRowsStep ==
    ASSUME BatchInv, NEW w \in Publisher, ResetRows(w)
    PROVE  BatchInv'
<1>1. /\ publisher[w].pc = "reset" /\ batch' = batch /\ published' = published
      /\ requests' \in 0 .. MaxRequests /\ batchEnv' \in 0 .. MaxBatchEnv
      /\ givenBack' \in BOOLEAN
      /\ publisher[w] \in PublisherState
  BY BatchBounds DEF ResetRows, PublisherAt, BatchInv, BatchTypeOK
<1>2. /\ batch.token = w /\ batch.status \in {"running", "canceling"} /\ batch.leased
      /\ batch \in Batch
  BY <1>1 DEF BatchInv, BatchTypeOK, Claimer, Claiming
<1>3. /\ publisher' \in [Publisher -> PublisherState] /\ publisher'[w].pc = "start"
      /\ \A v \in Publisher \ {w} : publisher'[v] = publisher[v]
      /\ \A v \in Publisher, r \in Line : Ours(v, publisher'[v], r, rows[r], published[r])
      /\ Apart'
  BY <1>1, ClaimingMove DEF ResetRows, Before
<1>4. ASSUME NEW r \in Line
      PROVE  /\ rows'[r] \in BatchRow /\ Swept(rows[r], rows'[r])
             /\ RowOf(rows'[r], batch)
  <2>1. rows[r] \in BatchRow /\ RowFormed(rows[r]) /\ RowOf(rows[r], batch)
    BY DEF BatchInv, BatchTypeOK
  <2>2. CASE r \notin Resettable(publisher[w].kind)
    BY <2>1, <2>2 DEF ResetRows, Swept
  <2>3. CASE r \in Resettable(publisher[w].kind)
    <3> DEFINE row == [rows[r] EXCEPT !.status = "pending", !.kind = "none", !.token = NoToken]
    <3>1. /\ row \in BatchRow /\ row.status = "pending" /\ row.kind = "none"
          /\ row.token = NoToken /\ row.item = rows[r].item
      BY <2>1 DEF BatchRow, FailureKind
    <3>2. rows'[r] = row
      BY <2>3 DEF ResetRows
    <3>3. rows[r].status = "failed" /\ rows[r].kind # "uncertain_remote"
      <4>1. publisher[w].kind \in {"start", "retry", "recover"}
        BY <1>1 DEF PublisherState
      <4>2. CASE publisher[w].kind = "start"
        BY <2>3, <4>2 DEF Resettable
      <4>3. CASE publisher[w].kind = "retry"
        BY <2>3, <4>3 DEF Resettable
      <4>4. CASE publisher[w].kind = "recover"
        BY <2>3, <4>4 DEF Resettable
      <4>5. QED
        BY <4>1, <4>2, <4>3, <4>4
    <3> HIDE DEF row
    <3>4. QED
      BY <2>1, <3>1, <3>2, <3>3 DEF Swept, RowFormed, Dead, Unknown, RowOf
  <2>4. QED
    BY <2>2, <2>3
<1>5. rows' \in [Line -> BatchRow]
  BY <1>4 DEF ResetRows
<1>6. \A v \in Publisher : Claimer(v, publisher'[v], batch')
  BY <1>1, <1>2, <1>3 DEF BatchInv, Claimer
<1>7. EndedBatchClosed'
  BY <1>1, <1>2 DEF EndedBatchClosed
<1>8. QED
  BY <1>1, <1>2, <1>3, <1>4, <1>5, <1>6, <1>7, SweepStep

LEMMA OutcomeType ==
    ASSUME NEW rs
    PROVE  Outcome(rs) \in {"completed", "partially_failed", "failed"}
BY DEF Outcome

LEMMA EndType ==
    ASSUME BatchInv, NEW status \in {"completed", "partially_failed", "failed", "canceled"},
           EndBatch(status)
    PROVE  batch' \in Batch /\ batch'.status = status
<1>1. batch \in Batch
  BY DEF BatchInv, BatchTypeOK
<1>2. QED
  BY <1>1 DEF EndBatch, Batch, BatchStatus

\* A batch is ended that nobody is about to start, with rows that are closed.
LEMMA EndStep ==
    ASSUME BatchInv, NEW status \in {"completed", "partially_failed", "failed", "canceled"},
           EndBatch(status),
           publisher' \in [Publisher -> PublisherState],
           \A w \in Publisher, r \in Line : Ours(w, publisher'[w], r, rows[r], published[r]),
           Apart',
           \A w \in Publisher : publisher'[w].pc \notin Claiming /\ Claimer(w, publisher'[w], batch),
           rows' \in [Line -> BatchRow], \A r \in Line : Swept(rows[r], rows'[r]),
           \A r \in Line : rows'[r].status # "running",
           \/ \A r \in Line : rows'[r].status # "pending"
           \/ status = "failed" /\ givenBack' = TRUE,
           published' = published,
           requests' \in 0 .. MaxRequests, batchEnv' \in 0 .. MaxBatchEnv,
           givenBack' \in BOOLEAN
    PROVE  BatchInv'
<1>1. batch' \in Batch /\ batch'.status = status
  BY EndType
<1>2. \A r \in Line : RowOf(rows'[r], batch')
  BY DEF RowOf
<1>3. \A w \in Publisher : Claimer(w, publisher'[w], batch')
  BY DEF Claimer
<1>4. EndedBatchClosed'
  BY <1>1 DEF EndedBatchClosed, Open, InStatus
<1>5. QED
  BY <1>1, <1>2, <1>3, <1>4, SweepStep

\* What cannot be finished is named, and what may have been published is
\* called unknown.
LEMMA UnfinishedRows ==
    ASSUME BatchInv
    PROVE  /\ Unfinished \in [Line -> BatchRow]
           /\ \A r \in Line : /\ Swept(rows[r], Unfinished[r])
                              /\ Unfinished[r].status \notin {"pending", "running"}
<1>1. ASSUME NEW r \in Line
      PROVE  /\ Unfinished[r] \in BatchRow /\ Swept(rows[r], Unfinished[r])
             /\ Unfinished[r].status \notin {"pending", "running"}
  <2>1. rows[r] \in BatchRow /\ RowFormed(rows[r])
    BY DEF BatchInv, BatchTypeOK
  <2>2. ASSUME NEW kind \in {"uncertain_remote", "interrupted"}, Unfinished[r] = Ended(rows[r], kind),
               rows[r].status \in {"pending", "running"}, Unknown(rows[r]) <=> kind = "uncertain_remote"
        PROVE  /\ Unfinished[r] \in BatchRow /\ Swept(rows[r], Unfinished[r])
               /\ Unfinished[r].status \notin {"pending", "running"}
    <3> DEFINE row == Ended(rows[r], kind)
    <3>1. /\ row \in BatchRow /\ row.status = "failed" /\ row.kind = kind
          /\ row.token = NoToken /\ row.item = rows[r].item
      BY <2>1 DEF BatchRow, FailureKind, Ended
    <3> HIDE DEF row
    <3>2. Unfinished[r] = row
      BY <2>2 DEF row
    <3>3. QED
      BY <2>1, <2>2, <3>1, <3>2 DEF Swept, RowFormed, Dead, Unknown
  <2>3. CASE Unknown(rows[r])
    BY <2>2, <2>3 DEF Unfinished, Unknown
  <2>4. CASE ~Unknown(rows[r]) /\ rows[r].status \in {"pending", "running"}
    BY <2>2, <2>4 DEF Unfinished
  <2>5. CASE ~Unknown(rows[r]) /\ rows[r].status \notin {"pending", "running"}
    BY <2>1, <2>5 DEF Unfinished, Swept
  <2>6. QED
    BY <2>3, <2>4, <2>5
<1>2. QED
  BY <1>1 DEF Unfinished

\* The worker that holds the batch and has passed its claim leaves it ended.
LEMMA HolderEnds ==
    ASSUME BatchInv, NEW w \in Publisher, Leave(w), batch.token = w,
           NEW status \in {"completed", "partially_failed", "failed", "canceled"}, EndBatch(status),
           rows' \in [Line -> BatchRow], \A r \in Line : Swept(rows[r], rows'[r]),
           \A r \in Line : rows'[r].status # "running",
           \/ \A r \in Line : rows'[r].status # "pending"
           \/ status = "failed" /\ givenBack' = TRUE,
           published' = published,
           requests' \in 0 .. MaxRequests, batchEnv' \in 0 .. MaxBatchEnv,
           givenBack' \in BOOLEAN
    PROVE  BatchInv'
<1>1. /\ publisher' = [publisher EXCEPT ![w] = IdlePublisher]
      /\ IdlePublisher.pc \notin Before \cup Busy /\ IdlePublisher.known \subseteq publisher[w].known
      /\ IdlePublisher.pc \notin Claiming
  BY IdleType DEF Leave, Before, Busy, Claiming
<1>2. /\ \A r \in Line : Ours(w, IdlePublisher, r, rows[r], published[r])
      /\ Claimer(w, IdlePublisher, batch) /\ IdlePublisher.pc \notin Calling
  BY <1>1, QuietOurs
<1>3. /\ publisher' \in [Publisher -> PublisherState] /\ publisher'[w] = IdlePublisher
      /\ \A v \in Publisher \ {w} : publisher'[v] = publisher[v]
      /\ \A v \in Publisher, r \in Line : Ours(v, publisher'[v], r, rows[r], published[r])
      /\ Apart'
  BY <1>1, <1>2, IdleType, Moved
<1>4. \A v \in Publisher : publisher'[v].pc \notin Claiming /\ Claimer(v, publisher'[v], batch)
  <2>1. \A v \in Publisher \ {w} : publisher[v].pc \notin Claiming /\ Claimer(v, publisher[v], batch)
    BY DEF BatchInv, Claimer
  <2>2. QED
    BY <1>1, <1>2, <1>3, <2>1
<1>5. QED
  BY <1>3, <1>4, EndStep

\* Rows that are running belong to the batch's token.
LEMMA RunningRows ==
    ASSUME BatchInv, NEW w \in Publisher, batch.token = w, publisher[w].pc \in Before
    PROVE  \A r \in Line : rows[r].status # "running"
BY DEF BatchInv, RowOf, Ours

\* Contexts are canceled, and nothing else happens to the workers.
LEMMA FlaggedOurs ==
    ASSUME BatchInv, publisher' \in [Publisher -> PublisherState],
           \A w \in Publisher : Same(publisher[w], publisher'[w])
    PROVE  /\ \A w \in Publisher, r \in Line : Ours(w, publisher'[w], r, rows[r], published[r])
           /\ \A w \in Publisher : Claimer(w, publisher'[w], batch)
           /\ Apart'
<1>1. \A w \in Publisher, r \in Line : Ours(w, publisher'[w], r, rows[r], published[r])
  BY SameOurs DEF BatchInv
<1>2. \A w \in Publisher : Claimer(w, publisher'[w], batch)
  BY DEF BatchInv, Claimer, Same
<1>3. Apart'
  BY DEF BatchInv, Apart, Same
<1>4. QED
  BY <1>1, <1>2, <1>3

LEMMA CanceledType ==
    ASSUME NEW p \in PublisherState
    PROVE  [p EXCEPT !.canceled = TRUE] \in PublisherState /\ Same(p, [p EXCEPT !.canceled = TRUE])
BY DEF PublisherState, Same

\* Only the lease changes, at no worker's claim, or the batch is canceling.
LEMMA LeaseStep ==
    ASSUME BatchInv, batch' \in Batch, batch'.token = batch.token,
           batch'.status = batch.status \/ (batch.status = "running" /\ batch'.status = "canceling"),
           \/ batch'.leased = batch.leased
           \/ \A w \in Publisher : batch.token = w => publisher[w].pc \notin Claiming,
           publisher' \in [Publisher -> PublisherState],
           \A w \in Publisher : Same(publisher[w], publisher'[w]),
           rows' = rows, published' = published,
           requests' \in 0 .. MaxRequests, batchEnv' \in 0 .. MaxBatchEnv,
           givenBack' = givenBack
    PROVE  BatchInv'
<1>1. /\ \A w \in Publisher, r \in Line : Ours(w, publisher'[w], r, rows[r], published[r])
      /\ \A w \in Publisher : Claimer(w, publisher'[w], batch)
      /\ Apart'
  BY FlaggedOurs
<1>2. \A w \in Publisher : Claimer(w, publisher'[w], batch')
  <2>1. \A w \in Publisher : publisher'[w].pc = publisher[w].pc
    BY DEF Same
  <2>2. QED
    BY <1>1, <2>1 DEF Claimer
<1>3. /\ \A r \in Line : RowOf(rows'[r], batch') /\ Swept(rows[r], rows'[r])
      /\ rows' \in [Line -> BatchRow] /\ givenBack' \in BOOLEAN
  BY DEF BatchInv, BatchTypeOK, RowOf, Swept
<1>4. EndedBatchClosed'
  BY DEF BatchInv, BatchTypeOK, EndedBatchClosed, Open, InStatus
<1>5. QED
  BY <1>1, <1>2, <1>3, <1>4, SweepStep

LEMMA StartWorkerStep ==
    ASSUME BatchInv, NEW w \in Publisher, StartWorker(w)
    PROVE  BatchInv'
<1>1. /\ publisher[w].pc = "start" /\ rows' = rows /\ published' = published
      /\ requests' \in 0 .. MaxRequests /\ batchEnv' \in 0 .. MaxBatchEnv
      /\ givenBack' = givenBack /\ givenBack' \in BOOLEAN
      /\ publisher \in [Publisher -> PublisherState] /\ rows \in [Line -> BatchRow] /\ batch \in Batch
  BY BatchBounds DEF StartWorker, PublisherAt, BatchInv, BatchTypeOK
<1>2. /\ \A r \in Line : rows[r].token # w
      /\ batch.token = w
  BY <1>1 DEF BatchInv, Ours, Before, Claimer, Claiming
<1>3. CASE InStatus("pending") = {} /\ HoldsBatch(w)
  <2>1. EndBatch(Outcome(rows)) /\ Leave(w)
    BY <1>3 DEF StartWorker
  <2>2. \A r \in Line : rows'[r].status # "running" /\ rows'[r].status # "pending"
    BY <1>1, <1>2, <1>3, RunningRows DEF Before, InStatus
  <2>3. \A r \in Line : Swept(rows[r], rows'[r])
    BY <1>1 DEF Swept
  <2>4. Outcome(rows) \in {"completed", "partially_failed", "failed", "canceled"}
    BY OutcomeType
  <2>5. QED
    BY <1>1, <1>2, <2>1, <2>2, <2>3, <2>4, HolderEnds
<1>4. CASE InStatus("pending") = {} /\ ~HoldsBatch(w)
  BY <1>1, <1>4, LeaveStep DEF StartWorker
<1>5. CASE InStatus("pending") # {}
  <2> DEFINE p == [publisher[w] EXCEPT !.pc = "read"]
  <2>1. /\ batch' = batch
        /\ publisher' = [v \in Publisher |->
                 IF v = w THEN [publisher[v] EXCEPT !.pc = "read"]
                 ELSE IF publisher[v].pc \in {"idle", "acquire", "reset", "start"} THEN publisher[v]
                 ELSE [publisher[v] EXCEPT !.canceled = TRUE]]
    BY <1>5 DEF StartWorker
  <2>2. p \in PublisherState /\ p.pc = "read" /\ p.known = publisher[w].known
    <3>1. publisher[w] \in PublisherState /\ "read" \in PublisherPc
      BY <1>1 DEF PublisherPc
    <3>2. QED
      BY <3>1, PublisherPlaces
  <2>3. publisher'[w] = p
    BY <2>1
  <2> HIDE DEF p
  <2>4. ASSUME NEW v \in Publisher \ {w}
        PROVE  publisher'[v] \in PublisherState /\ Same(publisher[v], publisher'[v])
    <3>1. publisher[v] \in PublisherState
      BY <1>1
    <3>2. publisher'[v] \in {publisher[v], [publisher[v] EXCEPT !.canceled = TRUE]}
      BY <2>1
    <3>3. QED
      BY <3>1, <3>2, CanceledType DEF Same
  <2>5. publisher' \in [Publisher -> PublisherState]
    BY <2>1, <2>2, <2>3, <2>4
  <2>6. /\ \A r \in Line : Ours(w, p, r, rows[r], published[r])
        /\ p.pc \notin Calling \cup Busy
    BY <1>2, <2>2, KnownItems, BeforeOurs DEF Before
  <2>7. ASSUME NEW v \in Publisher, NEW r \in Line
        PROVE  Ours(v, publisher'[v], r, rows[r], published[r])
    <3>1. CASE v = w
      BY <2>3, <2>6, <3>1
    <3>2. CASE v # w
      BY <2>4, <3>2, SameOurs DEF BatchInv
    <3>3. QED
      BY <3>1, <3>2
  <2>8. ASSUME NEW v \in Publisher PROVE Claimer(v, publisher'[v], batch')
    <3>1. CASE v = w
      BY <2>2, <2>3, <3>1 DEF Claimer, Claiming
    <3>2. CASE v # w
      BY <2>1, <2>4, <3>2 DEF BatchInv, Claimer, Same
    <3>3. QED
      BY <3>1, <3>2
  <2>9. Apart'
    <3>1. \A v \in Publisher : publisher'[v].pc \in Calling =>
             v # w /\ publisher[v].pc \in Calling /\ publisher'[v].row = publisher[v].row
      BY <2>2, <2>3, <2>4, <2>6 DEF Same
    <3>2. QED
      BY <3>1 DEF BatchInv, Apart
  <2>10. /\ \A r \in Line : Swept(rows[r], rows'[r]) /\ RowOf(rows'[r], batch')
         /\ rows' \in [Line -> BatchRow] /\ batch' \in Batch
    BY <1>1, <2>1 DEF Swept, BatchInv, BatchTypeOK
  <2>11. EndedBatchClosed'
    BY <1>1, <2>1 DEF BatchInv, BatchTypeOK, EndedBatchClosed, Open, InStatus
  <2>12. QED
    BY <1>1, <2>5, <2>7, <2>8, <2>9, <2>10, <2>11, SweepStep
<1>6. QED
  BY <1>3, <1>4, <1>5

LEMMA FailClaimedStep ==
    ASSUME BatchInv, NEW w \in Publisher, FailClaimedBatch(w)
    PROVE  BatchInv'
<1>1. /\ publisher[w].pc \in Claiming /\ rows' = rows /\ published' = published /\ Leave(w)
      /\ requests' \in 0 .. MaxRequests /\ batchEnv' \in 0 .. MaxBatchEnv
      /\ rows' \in [Line -> BatchRow]
  BY BatchBounds DEF FailClaimedBatch, Claiming, BatchInv, BatchTypeOK
<1>2. batch.token = w /\ publisher[w].pc \in Before
  BY <1>1 DEF BatchInv, Claimer, Claiming, Before
<1>3. CASE HoldsBatch(w)
  <2>1. EndBatch("failed") /\ givenBack' = TRUE
    BY <1>3 DEF FailClaimedBatch
  <2>2. \A r \in Line : Swept(rows[r], rows'[r]) /\ rows'[r].status # "running"
    BY <1>1, <1>2, RunningRows DEF Swept
  <2>3. QED
    BY <1>1, <1>2, <2>1, <2>2, HolderEnds
<1>4. CASE ~HoldsBatch(w)
  BY <1>1, <1>4, LeaveStep DEF FailClaimedBatch
<1>5. QED
  BY <1>3, <1>4

LEMMA FinalizeStep ==
    ASSUME BatchInv, NEW w \in Publisher, FinalizeBatch(w)
    PROVE  BatchInv'
<1>1. /\ rows' = rows /\ published' = published
      /\ requests' \in 0 .. MaxRequests /\ batchEnv' \in 0 .. MaxBatchEnv
      /\ givenBack' = givenBack /\ givenBack' \in BOOLEAN
      /\ rows' \in [Line -> BatchRow]
  BY BatchBounds DEF FinalizeBatch, BatchInv, BatchTypeOK
<1>2. CASE PublisherTo(w, "interrupt") /\ UNCHANGED batch
  BY <1>1, <1>2, ToStep
<1>3. CASE Leave(w) /\ UNCHANGED batch
  BY <1>1, <1>3, LeaveStep
<1>4. CASE /\ InStatus("pending") \cup InStatus("running") = {}
           /\ Leave(w) /\ HoldsBatch(w) /\ EndBatch(Outcome(rows))
  <2>1. \A r \in Line : /\ Swept(rows[r], rows'[r])
                        /\ rows'[r].status # "running" /\ rows'[r].status # "pending"
    BY <1>1, <1>4 DEF Swept, InStatus
  <2>2. Outcome(rows) \in {"completed", "partially_failed", "failed", "canceled"}
    BY OutcomeType
  <2>3. QED
    BY <1>1, <1>4, <2>1, <2>2, HolderEnds DEF HoldsBatch
<1>5. QED
  BY <1>2, <1>3, <1>4 DEF FinalizeBatch

LEMMA FinalizeUnfinishedStep ==
    ASSUME BatchInv, NEW w \in Publisher, FinalizeInterrupted(w) \/ FinalizeCanceled(w)
    PROVE  BatchInv'
<1>1. /\ published' = published /\ Leave(w)
      /\ requests' \in 0 .. MaxRequests /\ batchEnv' \in 0 .. MaxBatchEnv
      /\ givenBack' = givenBack /\ givenBack' \in BOOLEAN
  BY BatchBounds DEF FinalizeInterrupted, FinalizeCanceled, BatchInv, BatchTypeOK
<1>2. CASE UNCHANGED <<batch, rows>>
  BY <1>1, <1>2, LeaveStep
<1>3. CASE ~UNCHANGED <<batch, rows>>
  <2>1. PICK status \in {"completed", "partially_failed", "failed", "canceled"} :
           batch.token = w /\ rows' = Unfinished /\ EndBatch(status)
    <3>1. Outcome(Unfinished) \in {"completed", "partially_failed", "failed", "canceled"}
      BY OutcomeType
    <3>2. CASE FinalizeInterrupted(w)
      BY <1>3, <3>1, <3>2 DEF FinalizeInterrupted, HoldsBatch
    <3>3. CASE FinalizeCanceled(w)
      BY <1>3, <3>3 DEF FinalizeCanceled
    <3>4. QED
      BY <3>2, <3>3
  <2>2. /\ rows' \in [Line -> BatchRow]
        /\ \A r \in Line : /\ Swept(rows[r], rows'[r])
                           /\ rows'[r].status # "running" /\ rows'[r].status # "pending"
    BY <2>1, UnfinishedRows
  <2>3. QED
    BY <1>1, <2>1, <2>2, HolderEnds
<1>4. QED
  BY <1>2, <1>3

\* Nobody holds the batch's claim while it is neither running nor canceling,
\* or its lease has lapsed.
LEMMA CanceledStep ==
    ASSUME BatchInv, batch.status \notin {"running", "canceling"} \/ ~batch.leased,
           rows' = Unfinished, EndBatch("canceled"), UNCHANGED <<publisher, published>>,
           requests' \in 0 .. MaxRequests, batchEnv' \in 0 .. MaxBatchEnv,
           givenBack' = givenBack
    PROVE  BatchInv'
<1>1. /\ publisher' \in [Publisher -> PublisherState] /\ givenBack' \in BOOLEAN
      /\ \A w \in Publisher : Same(publisher[w], publisher'[w])
  BY DEF BatchInv, BatchTypeOK, Same
<1>2. /\ \A w \in Publisher, r \in Line : Ours(w, publisher'[w], r, rows[r], published[r])
      /\ \A w \in Publisher : Claimer(w, publisher'[w], batch)
      /\ Apart'
  BY <1>1, FlaggedOurs
<1>3. \A w \in Publisher : publisher'[w].pc \notin Claiming
  BY <1>2 DEF Claimer
<1>4. /\ rows' \in [Line -> BatchRow]
      /\ \A r \in Line : /\ Swept(rows[r], rows'[r])
                         /\ rows'[r].status # "running" /\ rows'[r].status # "pending"
  BY UnfinishedRows
<1>5. QED
  BY <1>1, <1>2, <1>3, <1>4, EndStep

LEMMA CancelBatchStep ==
    ASSUME BatchInv, CancelBatch
    PROVE  BatchInv'
<1>1. /\ published' = published
      /\ requests' \in 0 .. MaxRequests /\ batchEnv' \in 0 .. MaxBatchEnv
      /\ givenBack' = givenBack
      /\ batch \in Batch /\ publisher \in [Publisher -> PublisherState]
  BY BatchBounds DEF CancelBatch, BatchInv, BatchTypeOK
<1>2. CASE batch.status \in {"running", "canceling"}
  <2>1. /\ batch' = [batch EXCEPT !.status = "canceling"] /\ rows' = rows
        /\ publisher' = [w \in Publisher |->
                 IF w # batch.token \/ publisher[w].pc \in {"idle", "acquire", "reset", "start"}
                 THEN publisher[w] ELSE [publisher[w] EXCEPT !.canceled = TRUE]]
    BY <1>2 DEF CancelBatch
  <2>2. /\ batch' \in Batch /\ batch'.token = batch.token /\ batch'.leased = batch.leased
        /\ batch'.status = "canceling"
    BY <1>1, <2>1 DEF Batch, BatchStatus
  <2>3. ASSUME NEW w \in Publisher
        PROVE  publisher'[w] \in PublisherState /\ Same(publisher[w], publisher'[w])
    <3>1. publisher[w] \in PublisherState
      BY <1>1
    <3>2. publisher'[w] \in {publisher[w], [publisher[w] EXCEPT !.canceled = TRUE]}
      BY <2>1
    <3>3. QED
      BY <3>1, <3>2, CanceledType DEF Same
  <2>4. publisher' \in [Publisher -> PublisherState]
    BY <2>1, <2>3
  <2>5. batch'.status = batch.status \/ (batch.status = "running" /\ batch'.status = "canceling")
    BY <1>2, <2>2
  <2>6. QED
    BY <1>1, <2>1, <2>2, <2>3, <2>4, <2>5, LeaseStep
<1>3. CASE batch.status \notin {"running", "canceling"}
  BY <1>1, <1>3, CanceledStep DEF CancelBatch
<1>4. QED
  BY <1>2, <1>3

LEMMA LapseStep ==
    ASSUME BatchInv, BatchLeaseLapses \/ LiveLeaseLapses
    PROVE  BatchInv'
<1>1. /\ rows' = rows /\ published' = published /\ publisher' = publisher
      /\ batch' = [batch EXCEPT !.leased = FALSE]
      /\ requests' \in 0 .. MaxRequests /\ batchEnv' \in 0 .. MaxBatchEnv
      /\ givenBack' = givenBack
      /\ batch \in Batch /\ publisher' \in [Publisher -> PublisherState]
  BY BatchBounds DEF BatchLeaseLapses, LiveLeaseLapses, BatchInv, BatchTypeOK
<1>2. batch' \in Batch /\ batch'.token = batch.token /\ batch'.status = batch.status
  BY <1>1 DEF Batch
<1>3. \A w \in Publisher : batch.token = w => publisher[w].pc \notin Claiming
  BY DEF BatchLeaseLapses, LiveLeaseLapses, Alive, PublisherAt, Claiming
<1>4. \A w \in Publisher : Same(publisher[w], publisher'[w])
  BY <1>1 DEF Same
<1>5. QED
  BY <1>1, <1>2, <1>3, <1>4, LeaseStep

LEMMA TimeoutStep ==
    ASSUME BatchInv, NEW w \in Publisher, Timeout(w)
    PROVE  BatchInv'
<1>1. /\ rows' = rows /\ published' = published /\ batch' = batch
      /\ publisher' = [publisher EXCEPT ![w].canceled = TRUE]
      /\ requests' \in 0 .. MaxRequests /\ batchEnv' \in 0 .. MaxBatchEnv
      /\ givenBack' = givenBack
      /\ batch' \in Batch /\ publisher \in [Publisher -> PublisherState]
  BY BatchBounds DEF Timeout, BatchInv, BatchTypeOK
<1>2. /\ publisher[w] \in PublisherState
      /\ [publisher[w] EXCEPT !.canceled = TRUE] \in PublisherState
      /\ Same(publisher[w], [publisher[w] EXCEPT !.canceled = TRUE])
  BY <1>1, CanceledType
<1>3. /\ publisher' \in [Publisher -> PublisherState]
      /\ \A v \in Publisher : Same(publisher[v], publisher'[v])
  BY <1>1, <1>2 DEF Same
<1>4. QED
  BY <1>1, <1>3, LeaseStep

LEMMA StatementFailsStep ==
    ASSUME BatchInv, NEW w \in Publisher, PublishStatementFails(w)
    PROVE  BatchInv'
<1>1. /\ rows' = rows /\ published' = published /\ batch' = batch
      /\ requests' \in 0 .. MaxRequests /\ batchEnv' \in 0 .. MaxBatchEnv
      /\ givenBack' = givenBack
  BY BatchBounds DEF PublishStatementFails
<1>2. Ours(w, publisher[w], publisher[w].row, rows[publisher[w].row], published[publisher[w].row])
      /\ Listed(rows[publisher[w].row], published[publisher[w].row])
      /\ published[publisher[w].row] \in Nat
  BY InHand
<1>3. CASE PublisherTo(w, "interrupt")
  BY <1>1, <1>3, ToStep
<1>4. CASE PublisherAt(w, "mark") /\ FailRow(w, "publish")
  <2>1. rows[publisher[w].row].token # w \/ rows[publisher[w].row].kind = "none"
    BY <1>2, <1>4 DEF PublisherAt, Ours
  <2>2. rows[publisher[w].row].kind = "none" =>
           rows[publisher[w].row].item \/ published[publisher[w].row] = 0
    BY <1>2 DEF Listed
  <2>3. QED
    BY <1>1, <1>4, <2>1, <2>2, FailStep DEF PublisherAt, Busy
<1>5. CASE PublisherAt(w, "save") /\ FailRow(w, "uncertain_remote")
  BY <1>1, <1>5, FailStep DEF PublisherAt, Busy
<1>6. CASE PublisherAt(w, "complete") /\ FailRow(w, "publish")
  <2>1. rows[publisher[w].row].token # w \/ rows[publisher[w].row].item
    BY <1>2, <1>6 DEF PublisherAt, Ours
  <2>2. QED
    BY <1>1, <1>6, <2>1, FailStep DEF PublisherAt, Busy
<1>7. CASE Leave(w)
  BY <1>1, <1>7, LeaveStep
<1>8. QED
  BY <1>3, <1>4, <1>5, <1>6, <1>7 DEF PublishStatementFails

LEMMA CrashStep ==
    ASSUME BatchInv, NEW w \in Publisher, PublisherCrash(w)
    PROVE  BatchInv'
<1>1. /\ rows' = rows /\ batch' = batch /\ Leave(w)
      /\ requests' \in 0 .. MaxRequests /\ batchEnv' \in 0 .. MaxBatchEnv
      /\ givenBack' = givenBack
  BY BatchBounds DEF PublisherCrash
<1>2. CASE published' = published
  BY <1>1, <1>2, LeaveStep
<1>3. CASE PublisherAt(w, "call") /\ published' = [published EXCEPT ![publisher[w].row] = @ + 1]
  <2>1. publisher' = [publisher EXCEPT ![w] = IdlePublisher]
    BY <1>1 DEF Leave
  <2>2. QED
    BY <1>1, <1>3, <2>1, IdleType, ListingStep DEF PublisherAt
<1>4. QED
  BY <1>2, <1>3 DEF PublisherCrash

-----------------------------------------------------------------------------
(* Theorems                                                                *)

LEMMA BatchInvInit == BatchInit => BatchInv
<1> SUFFICES ASSUME BatchInit PROVE BatchInv
  OBVIOUS
<1>1. BatchTypeOK
  BY BatchTypeInit
<1>2. \A r \in Line : /\ rows[r].status = "pending" /\ rows[r].kind = "none"
                      /\ rows[r].token = NoToken /\ published[r] = 0
  BY DEF BatchInit, NewRow
<1>3. \A w \in Publisher : publisher[w].pc = "idle" /\ publisher[w].known = {} /\ w # NoToken
  BY IdleType, BatchAssumption DEF BatchInit
<1>4. \A r \in Line : RowFormed(rows[r]) /\ RowOf(rows[r], batch) /\ Listed(rows[r], published[r])
  BY <1>2 DEF RowFormed, RowOf, Listed
<1>5. \A w \in Publisher, r \in Line : Ours(w, publisher[w], r, rows[r], published[r])
  BY <1>2, <1>3 DEF Ours, Calling
<1>6. \A w \in Publisher : Claimer(w, publisher[w], batch)
  BY <1>3 DEF Claimer, Claiming
<1>7. Apart /\ EndedBatchClosed
  BY <1>3 DEF Apart, Calling, EndedBatchClosed, BatchInit
<1>8. QED
  BY <1>1, <1>4, <1>5, <1>6, <1>7 DEF BatchInv

LEMMA BatchInvNext == BatchInv /\ [BatchNext]_batchVars => BatchInv'
<1> SUFFICES ASSUME BatchInv, [BatchNext]_batchVars PROVE BatchInv'
  OBVIOUS
<1>1. ASSUME NEW w \in Publisher, PublishStep(w) PROVE BatchInv'
  BY <1>1, ClaimBatchStep, ResetRowsStep, StartWorkerStep, PendingRowsStep, NextRowStep, ClaimRowStep,
     MarkStep, ReserveStep, PublishItemStep, SaveStep, CompleteStep, MarkFailedStep, ReadEndStep,
     FinalizeStep, FinalizeUnfinishedStep
  DEF PublishStep
<1>2. ASSUME NEW w \in Publisher, BatchDisturb(w) PROVE BatchInv'
  BY <1>2, FailClaimedStep, TimeoutStep, StatementFailsStep, CrashStep DEF BatchDisturb
<1>3. CASE FinalizeExpiredCancellation
  <2>1. requests' \in 0 .. MaxRequests /\ batchEnv' \in 0 .. MaxBatchEnv
    BY <1>3, BatchBounds DEF FinalizeExpiredCancellation
  <2>2. QED
    BY <1>3, <2>1, CanceledStep DEF FinalizeExpiredCancellation
<1>4. CASE UNCHANGED batchVars
  <2>1. /\ batch' = batch /\ rows' = rows /\ publisher' = publisher /\ published' = published
        /\ requests' \in 0 .. MaxRequests /\ batchEnv' \in 0 .. MaxBatchEnv
        /\ givenBack' = givenBack
    BY <1>4, BatchBounds DEF batchVars
  <2>2. /\ batch' \in Batch /\ publisher' \in [Publisher -> PublisherState]
        /\ \A w \in Publisher : Same(publisher[w], publisher'[w])
    BY <2>1 DEF BatchInv, BatchTypeOK, Same
  <2>3. QED
    BY <2>1, <2>2, LeaseStep
<1>5. QED
  BY <1>1, <1>2, <1>3, <1>4, BeginStep, CancelBatchStep, LapseStep DEF BatchNext

\* In every reachable state of a batch its rows, its token and what each
\* worker goes to do with the row it has in hand agree.
THEOREM BatchInvariant == BatchSpec => []BatchInv
<1>1. QED
  BY BatchInvInit, BatchInvNext, PTL DEF BatchSpec

\* However its leases lapse and its workers crash, time out, are canceled,
\* retried and taken over, a batch publishes no item twice and forgets no
\* listing (worker.go, ClaimBatch, markUnfinishedFailedTx).  It is over with no
\* row of it open, unless its claim was given back before its worker began:
\* then it is failed with rows that wait for the user, none of them being
\* published (finish, FailClaimedBatch).
THEOREM ListedOnce == BatchSpec => []BatchSafe
<1>1. BatchInv => BatchSafe
  <2> SUFFICES ASSUME BatchInv PROVE BatchSafe
    OBVIOUS
  <2>1. PublishedOnce /\ ListingAccounted
    BY DEF BatchInv, Listed, PublishedOnce, ListingAccounted
  <2>2. RowsFollowBatch /\ EndedBatchClosed
    BY DEF BatchInv, RowOf, RowsFollowBatch
  <2>3. QED
    BY <2>1, <2>2 DEF BatchSafe
<1>2. QED
  BY <1>1, BatchInvariant, PTL

=============================================================================
