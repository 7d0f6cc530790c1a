-------------------------- MODULE AccountWork_proofs --------------------------
(***************************************************************************)
(* Theorems about what an account does for its buyers, for all values of   *)
(* the constants: the deliveries of one order (OrderDelivery), the stored  *)
(* conversation (Conversation), the reply that is sent once (ReplyOnce)    *)
(* and the scheduled tasks (AccountTasks).  They share no state.           *)
(*                                                                         *)
(*   - a card is in one place, and what a run names was handed over        *)
(*     (CardInv); whoever takes cards for a run knows all that were taken  *)
(*     for it, and a row that is not marked names all of them (RowInv);    *)
(*   - what was observed, handled and not deleted since has its row, also  *)
(*     while a deletion is under way (ChatInv);                            *)
(*   - while no gap of the record was gone through, the record and the     *)
(*     one call that sends know all that the platform accepted (ReplyInv); *)
(*   - a key that is worked on has one execution and a row that cannot be  *)
(*     claimed, and a key that had its success is never to fail (TasksInv).*)
(***************************************************************************)
EXTENDS OrderDelivery, Conversation, ReplyOnce, AccountTasks, FiniteSetTheorems, TLAPS

-----------------------------------------------------------------------------
(* The deliveries of one order                                             *)

\* Where an execution stands: with cards, with a claimed action, with a claimed replay.
Taking == {"unit", "send", "restore"}
Acting == Taking \cup {"advance", "unsure", "abort", "confirming"}
Resending == {"resend", "mark", "save", "consign", "complete", "release"}

Empty(p) == Contents(p) = {} /\ ~p.refill

\* What the local variables of an execution tell at each place.
Local(x) ==
    /\ x.pc \in Resending => x.replay
    /\ x.replay => x.pc \in Resending \cup Taking
    /\ x.pc \in {"start", "load", "ready", "confirming", "claim", "resend", "mark"} =>
         x.n = 0 /\ Empty(x.got) /\ x.out = "none"
    /\ x.pc \in Taking =>
         x.got.unsure = {} /\ ~x.got.refill /\ x.out = "none" /\ Cardinality(x.got.known) = x.n
    /\ x.pc \in Taking /\ ~x.replay => x.cur = 1
    /\ x.replay => x.got.known \cap Contents(x.proof) = {} \/ x.pc \in {"consign", "complete", "release"}
    /\ x.pc \in {"ready"} \cup Acting /\ ~x.replay => ~x.proof.refill
    /\ x.pc = "confirming" => x.cur = 2
    /\ x.pc \in {"advance", "unsure", "abort"} => x.cur \in {1, 2} /\ (x.cur = 2 => Empty(x.got))
    /\ x.pc = "advance" => ~x.got.refill /\ x.out = "none"
    /\ x.pc = "abort" => Empty(x.got) /\ x.out \in {"plain", "notsent"}
    /\ x.pc = "unsure" => (x.got.refill <=> x.out = "norestore")
    /\ x.pc = "claim" => Present(x.proof) /\ x.todo = Contents(x.proof)
    /\ x.pc = "resend" => x.todo \subseteq Contents(x.proof)
    /\ x.pc \in {"consign", "complete"} => Empty(x.got) /\ x.out = "none"

\* What the platform has confirmed of what an execution counts as sent again.
Confirmed(x, confirmed) ==
    /\ x.pc = "resend" => Contents(x.proof) \ x.todo \subseteq confirmed
    /\ x.replay /\ x.pc \in Taking \cup {"mark", "save"} => Contents(x.proof) \cup x.got.known \subseteq confirmed
    /\ x.pc = "save" /\ x.out = "none" => Cardinality(Contents(x.proof) \cup x.got.known) >= Units
    /\ x.pc \in {"consign", "complete"} => Cardinality(confirmed) >= Units

\* What was handed over: the contents of every proof.
KnownHanded == \A r \in Run : Contents(runs[r].proof) \subseteq handed[r] /\ handed[r] \subseteq taken[r]

LocalHanded ==
    \A a \in Actor : Contents(actor[a].proof) \cup Contents(actor[a].got) \cup actor[a].todo
                       \subseteq handed[actor[a].run]

\* A card is in one place: in stock, in a hand, or handed over, for one run.
StockApart ==
    /\ \A i, j \in 1 .. Len(stock) : stock[i] = stock[j] => i = j
    /\ \A r \in Run, i \in 1 .. Len(stock) : stock[i] \notin taken[r]
    /\ taken["auto"] \cap taken["manual"] = {}

InTransit(a) == actor[a].pc \in {"send", "restore"}

HandsApart ==
    /\ \A a \in Actor : InTransit(a) =>
         actor[a].card \in taken[actor[a].run] /\ \A r \in Run : actor[a].card \notin handed[r]
    /\ \A a, b \in Actor : InTransit(a) /\ InTransit(b) /\ actor[a].card = actor[b].card => a = b

CardInv ==
    /\ TypeOK
    /\ \A a \in Actor : Local(actor[a]) /\ Confirmed(actor[a], accepted[actor[a].run])
    /\ KnownHanded /\ LocalHanded /\ StockApart /\ HandsApart

------------------------------------------------------------------------------
\* The execution whose attempt is the row's, and those that may write its proof.
Live(a) == actor[a].att = Mine(a).attempt /\ Mine(a).status # "canceled"
Claimant(a) == actor[a].pc \in Acting /\ ~actor[a].replay /\ Live(a)
Replayer(a) == actor[a].replay /\ Live(a)

SameContents(a) == Contents(Mine(a).proof) = Contents(actor[a].proof)

\* The claimant of an action: the row has its claim, and the proof it read.
ClaimantRow(a) ==
    Claimant(a) =>
        /\ SameContents(a) /\ ~Mine(a).proof.refill
        /\ actor[a].cur = 1 => Mine(a).cursor = 1 /\ Mine(a).started /\ Contents(Mine(a).proof) = {}
        /\ actor[a].cur = 2 => Mine(a).cursor = 3 \/ (Mine(a).cursor = 2 /\ Mine(a).started)

\* Whoever is about to claim the row's action has read the proof, or cannot claim.
ReadyRow(a) ==
    actor[a].pc = "ready" /\ Live(a) /\ actor[a].cur = Mine(a).cursor /\ actor[a].cur < 3
      /\ Mine(a).status # "success"
    => \/ SameContents(a) /\ ~Mine(a).proof.refill
       \/ /\ Mine(a).started
          /\ \A b \in Actor : actor[b].run = actor[a].run => ~Claimant(b)

\* The holder of a replay: the row is marked while cards are taken for it.
ReplayRow(a) ==
    Replayer(a) =>
        /\ Mine(a).started \/ Mine(a).cursor = 3
        /\ actor[a].pc # "release" => SameContents(a)
        /\ actor[a].pc \in {"resend", "mark", "consign", "complete"} => ~Mine(a).proof.refill
        /\ actor[a].pc \in Taking \cup {"save"} => Mine(a).proof.refill

\* Whoever is about to claim a replay has read the proof that the row still has.
ClaimRow(a) ==
    actor[a].pc = "claim" /\ Live(a) =>
        /\ SameContents(a) /\ ~Mine(a).proof.refill
        /\ Mine(a).status = "running" /\ Mine(a).started =>
             \A b \in Actor : actor[b].run = actor[a].run => ~Replayer(b)

Hand(a) == IF InTransit(a) THEN {actor[a].card} ELSE {}

\* Whoever takes cards for a run knows all that were taken, except one that it
\* could not put back.
TakenKnown(a) ==
    (Claimant(a) /\ actor[a].cur = 1) \/ (Replayer(a) /\ actor[a].pc # "release") =>
        \/ actor[a].out = "norestore"
        \/ taken[actor[a].run] \subseteq Contents(actor[a].proof) \cup Contents(actor[a].got) \cup Hand(a)

ActorRow(a) ==
    /\ actor[a].att <= Mine(a).attempt /\ actor[a].cur <= Mine(a).cursor
    /\ ClaimantRow(a) /\ ReadyRow(a) /\ ReplayRow(a) /\ ClaimRow(a) /\ TakenKnown(a)

\* One execution at a time may write a row's proof.
OneWriter ==
    \A a, b \in Actor :
        actor[a].run = actor[b].run /\ (Claimant(a) \/ Replayer(a)) /\ (Claimant(b) \/ Replayer(b))
            => a = b

\* Before the first claim nothing was taken; what a row that is not marked says
\* of its cards is complete, unless the action that takes them is claimed.
RowFresh(r) ==
    runs[r].cursor = 1 /\ ~runs[r].started /\ runs[r].status \notin {"success", "canceled"} =>
        taken[r] = {} /\ Empty(runs[r].proof)

RowComplete(r) ==
    /\ runs[r].status # "canceled" /\ ~runs[r].proof.refill
    /\ ~runs[r].started \/ runs[r].cursor >= 2 \/ Present(runs[r].proof)
    => taken[r] \subseteq Contents(runs[r].proof)

AbsentRow(r) == runs[r].status = "absent" => runs[r] = NoRun

RowInv ==
    /\ \A a \in Actor : ActorRow(a)
    /\ OneWriter
    /\ \A r \in Run : RowFresh(r) /\ RowComplete(r) /\ AbsentRow(r) /\ Cardinality(taken[r]) <= Units
\* A record that an execution may move to.
SoundWith(x, given, confirmed) ==
    /\ x \in ActorState /\ Local(x) /\ Confirmed(x, confirmed)
    /\ Contents(x.proof) \cup Contents(x.got) \cup x.todo \subseteq given

Sound(x) == SoundWith(x, handed[x.run], accepted[x.run])

Place == {"idle", "start", "load", "ready", "unit", "send", "restore", "advance", "unsure",
          "abort", "fail", "quarantine", "review", "confirming",
          "claim", "resend", "mark", "save", "consign", "complete", "release"}

\* The rows after a step are rows, and name no contents that were not handed over.
RowsSound ==
    /\ runs' \in [Run -> RunRow] /\ latest' \in Run
    /\ \A r \in Run : Contents(runs'[r].proof) \subseteq handed[r]

LEMMA ActorTypes ==
    ASSUME CardInv, NEW a \in Actor
    PROVE  /\ actor[a] \in ActorState /\ actor[a].run \in Run /\ Mine(a) \in RunRow
           /\ Sound(actor[a])
  BY DEF CardInv, TypeOK, Mine, Sound, SoundWith, ActorState, LocalHanded, Run

LEMMA PcSet ==
    ASSUME NEW y \in ActorState, NEW p \in Place
    PROVE  LET x == [y EXCEPT !.pc = p]
           IN x \in ActorState /\ x.pc = p /\ x.run = y.run /\ x.att = y.att /\ x.cur = y.cur
                /\ x.sent = y.sent /\ x.n = y.n /\ x.card = y.card /\ x.replay = y.replay
                /\ x.proof = y.proof /\ x.got = y.got /\ x.out = y.out /\ x.todo = y.todo
  BY DEF ActorState, Place

LEMMA IdleSound ==
    ASSUME CardInv
    PROVE  Sound(IdleActor)
  <1>1. IdleActor \in ActorState
    BY OrderAssumption DEF IdleActor, ActorState, NoProof, Proof, Run, Outcome
  <1>2. Local(IdleActor)
    BY DEF Local, IdleActor, Resending, Taking, Acting
  <1>3. Confirmed(IdleActor, accepted["auto"])
    BY DEF Confirmed, IdleActor, Taking
  <1>4. Contents(IdleActor.proof) \cup Contents(IdleActor.got) \cup IdleActor.todo = {}
    BY DEF IdleActor, Contents, NoProof
  <1> QED
    BY <1>1, <1>2, <1>3, <1>4 DEF Sound, SoundWith, IdleActor

LEMMA RowWritten ==
    ASSUME CardInv, NEW r \in Run, NEW row \in RunRow, Write(r, row),
           Contents(row.proof) \subseteq handed[r]
    PROVE  RowsSound
  BY DEF CardInv, TypeOK, Write, RowsSound, KnownHanded

LEMMA RowsUnwritten ==
    ASSUME CardInv, Unwritten
    PROVE  RowsSound
  BY DEF CardInv, TypeOK, Unwritten, RowsSound, KnownHanded

LEMMA EnvSpent ==
    ASSUME CardInv, Disturbed \/ UNCHANGED env
    PROVE  env' \in 0 .. MaxEnv
  BY OrderAssumption DEF CardInv, TypeOK, Disturbed

LEMMA EveryRun == Run = {"auto", "manual"}
  BY DEF Run

\* A step that moves no card: one execution goes on, rows may be written.
LEMMA CardMoves ==
    ASSUME CardInv, NEW a \in Actor, NEW x, Sound(x), actor' = [actor EXCEPT ![a] = x],
           RowsSound, shipped' \in BOOLEAN, Disturbed \/ UNCHANGED env,
           UNCHANGED <<stock, history>>,
           x.pc \in {"send", "restore"} =>
               InTransit(a) /\ x.card = actor[a].card /\ x.run = actor[a].run
    PROVE  CardInv'
  <1>1. stock' = stock /\ taken' = taken /\ handed' = handed /\ accepted' = accepted
    BY DEF history
  <1>2. TypeOK'
    BY <1>1, EnvSpent DEF CardInv, TypeOK, RowsSound, Sound, SoundWith
  <1>3. \A b \in Actor : Sound(actor'[b])
    BY ActorTypes DEF CardInv, TypeOK
  <1>4. \A b \in Actor : Local(actor'[b]) /\ Confirmed(actor'[b], accepted'[actor'[b].run])
    BY <1>1, <1>3 DEF Sound, SoundWith
  <1>5. KnownHanded'
    BY <1>1 DEF RowsSound, CardInv, KnownHanded
  <1>6. LocalHanded'
    BY <1>1, <1>3 DEF Sound, SoundWith, LocalHanded
  <1>7. StockApart'
    BY <1>1 DEF CardInv, StockApart
  <1>8. HandsApart'
    <2>1. \A b \in Actor : InTransit(b)' => InTransit(b) /\ actor'[b].card = actor[b].card
                                             /\ actor'[b].run = actor[b].run
      BY DEF InTransit, CardInv, TypeOK
    <2> QED
      BY <1>1, <2>1 DEF CardInv, HandsApart
  <1> QED
    BY <1>2, <1>4, <1>5, <1>6, <1>7, <1>8 DEF CardInv

LEMMA CardRows ==
    ASSUME CardInv, RowsSound, UNCHANGED <<actor, stock, shipped, history>>,
           Disturbed \/ UNCHANGED env
    PROVE  CardInv'
  <1>1. PICK a \in Actor : a = "event"
    BY DEF Actor
  <1>2. actor' = [actor EXCEPT ![a] = actor[a]]
    BY DEF CardInv, TypeOK
  <1>3. shipped' \in BOOLEAN
    BY DEF CardInv, TypeOK
  <1> QED
    BY <1>2, <1>3, ActorTypes, CardMoves DEF InTransit

LEMMA StopSound ==
    ASSUME CardInv, NEW a \in Actor, NEW p \in {"fail", "review", "quarantine", "release"},
           actor[a].replay <=> p = "release"
    PROVE  LET x == [actor[a] EXCEPT !.pc = p] IN Sound(x) /\ ~(x.pc \in {"send", "restore"})
  <1> DEFINE x == [actor[a] EXCEPT !.pc = p]
  <1>0. p \in Place /\ actor[a] \in ActorState
    BY ActorTypes DEF Place
  <1>1. /\ x \in ActorState /\ x.pc = p /\ x.run = actor[a].run /\ x.replay = actor[a].replay
        /\ x.proof = actor[a].proof /\ x.got = actor[a].got /\ x.todo = actor[a].todo
    BY <1>0, PcSet
  <1>2. Sound(actor[a])
    BY ActorTypes
  <1> HIDE DEF x
  <1>3. Local(x)
    BY <1>1 DEF Local, Resending, Taking, Acting
  <1>4. Confirmed(x, accepted[x.run])
    BY <1>1 DEF Confirmed, Taking
  <1>5. Sound(x) /\ ~(x.pc \in {"send", "restore"})
    BY <1>1, <1>2, <1>3, <1>4 DEF Sound, SoundWith
  <1> QED
    BY <1>5 DEF x

LEMMA EmptyProof == NoProof \in Proof /\ Contents(NoProof) = {} /\ Empty(NoProof)
  BY DEF NoProof, Proof, Contents, Empty

LEMMA RowStates ==
    ASSUME CardInv, NEW r \in Run
    PROVE  /\ NewRun \in RunRow /\ NewRun.proof = NoProof
           /\ Reclaimed(r) \in RunRow /\ Reclaimed(r).proof = runs[r].proof
           /\ UnderReview(r) \in RunRow /\ UnderReview(r).proof = runs[r].proof
           /\ Canceled(r) \in RunRow /\ Canceled(r).proof = NoProof
  <1>1. runs[r] \in RunRow
    BY DEF CardInv, TypeOK
  <1>2. NewRun \in RunRow /\ NewRun.proof = NoProof
    <2>1. NoRun \in RunRow /\ NoRun.proof = NoProof
      BY EmptyProof DEF NoRun, RunRow
    <2> QED
      BY <2>1 DEF NewRun, RunRow
  <1>3. Reclaimed(r) \in RunRow /\ Reclaimed(r).proof = runs[r].proof
    <2> DEFINE next == runs[r].attempt + 1
               mid == [runs[r] EXCEPT !.status = "running", !.attempt = next]
    <2>1. next \in Nat
      BY <1>1 DEF RunRow
    <2>2. Reclaimed(r) = [mid EXCEPT !.leased = TRUE, !.err = "none"]
      BY <1>1 DEF Reclaimed, RunRow
    <2> HIDE DEF next
    <2>3. mid \in RunRow /\ mid.proof = runs[r].proof
      BY <1>1, <2>1 DEF RunRow
    <2> HIDE DEF mid
    <2> QED
      BY <2>2, <2>3 DEF RunRow
  <1>4. UnderReview(r) \in RunRow /\ UnderReview(r).proof = runs[r].proof
    BY <1>1 DEF UnderReview, RunRow
  <1>5. Canceled(r) \in RunRow /\ Canceled(r).proof = NoProof
    BY <1>1, EmptyProof DEF Canceled, RunRow
  <1> QED
    BY <1>2, <1>3, <1>4, <1>5

\* The rows after an execution has written its own.
LEMMA OwnRow ==
    ASSUME CardInv, NEW a \in Actor, NEW row \in RunRow, Write(actor[a].run, row),
           Contents(row.proof) \subseteq Contents(Mine(a).proof) \cup Contents(actor[a].proof)
                                          \cup Contents(actor[a].got)
    PROVE  RowsSound
  <1>1. Contents(row.proof) \subseteq handed[actor[a].run]
    BY ActorTypes DEF CardInv, KnownHanded, LocalHanded, Mine
  <1> QED
    BY <1>1, ActorTypes, RowWritten

LEMMA RowKeepsProof ==
    ASSUME CardInv, NEW r \in Run, NEW row \in RunRow, Write(r, row),
           row.proof = runs[r].proof \/ row.proof = NoProof
    PROVE  RowsSound
  <1>1. Contents(row.proof) \subseteq handed[r]
    BY EmptyProof DEF CardInv, KnownHanded
  <1> QED
    BY <1>1, RowWritten

LEMMA ClaimSound ==
    ASSUME CardInv, NEW r \in Run, Present(runs[r].proof)
    PROVE  LET x == [IdleActor EXCEPT !.pc = "claim", !.run = r, !.att = runs[r].attempt,
                                      !.proof = runs[r].proof, !.todo = Contents(runs[r].proof)]
           IN Sound(x) /\ x.pc = "claim"
  <1> DEFINE x == [IdleActor EXCEPT !.pc = "claim", !.run = r, !.att = runs[r].attempt,
                                    !.proof = runs[r].proof, !.todo = Contents(runs[r].proof)]
  <1>1. runs[r] \in RunRow /\ Contents(runs[r].proof) \subseteq handed[r]
    BY DEF CardInv, TypeOK, KnownHanded
  <1>2. Contents(runs[r].proof) \in SUBSET Card
    BY <1>1 DEF RunRow, Proof, Contents
  <1>3. IdleActor \in ActorState
    BY IdleSound DEF Sound, SoundWith
  <1>4. x \in ActorState
    BY <1>1, <1>2, <1>3 DEF ActorState, RunRow
  <1>5. /\ x.pc = "claim" /\ x.run = r /\ x.proof = runs[r].proof /\ ~x.replay
        /\ x.todo = Contents(runs[r].proof) /\ x.got = NoProof /\ x.n = 0 /\ x.out = "none"
    BY <1>3 DEF ActorState, IdleActor
  <1> HIDE DEF x
  <1>6. Local(x)
    BY <1>5, EmptyProof DEF Local, Resending, Taking, Acting
  <1>7. Confirmed(x, accepted[x.run])
    BY <1>5 DEF Confirmed, Taking
  <1>8. Sound(x) /\ x.pc = "claim"
    BY <1>1, <1>4, <1>5, <1>6, <1>7, EmptyProof DEF Sound, SoundWith
  <1> QED
    BY <1>8 DEF x

LEMMA FreshSound ==
    ASSUME CardInv, NEW r \in Run, NEW p \in {"start", "load"}
    PROVE  LET x == [IdleActor EXCEPT !.pc = p, !.run = r] IN Sound(x) /\ x.pc = p
  <1> DEFINE x == [IdleActor EXCEPT !.pc = p, !.run = r]
  <1>1. IdleActor \in ActorState
    BY IdleSound DEF Sound, SoundWith
  <1>2. x \in ActorState
    BY <1>1 DEF ActorState
  <1>3. /\ x.pc = p /\ x.run = r /\ x.proof = NoProof /\ ~x.replay
        /\ x.todo = {} /\ x.got = NoProof /\ x.n = 0 /\ x.out = "none"
    BY <1>1 DEF ActorState, IdleActor
  <1> HIDE DEF x
  <1>4. Local(x)
    BY <1>3, EmptyProof DEF Local, Resending, Taking, Acting
  <1>5. Confirmed(x, accepted[x.run])
    BY <1>3 DEF Confirmed, Taking
  <1>6. Sound(x) /\ x.pc = p
    BY <1>2, <1>3, <1>4, <1>5, EmptyProof DEF Sound, SoundWith
  <1> QED
    BY <1>6 DEF x

LEMMA CardTryStartRun ==
    ASSUME CardInv, NEW a \in Actor, NEW r \in Run, TryStartRun(a, r)
    PROVE  CardInv'
  <1>1. RowsSound
    BY RowStates, RowKeepsProof DEF TryStartRun
  <1>2. shipped' \in BOOLEAN
    BY DEF TryStartRun, CardInv, TypeOK
  <1> DEFINE x == [IdleActor EXCEPT !.pc = "load", !.run = r]
  <1>3. Sound(x) /\ x.pc = "load"
    BY FreshSound
  <1>4. actor' = [actor EXCEPT ![a] = x]
    BY DEF TryStartRun, Set
  <1> HIDE DEF x
  <1> QED
    BY <1>1, <1>2, <1>3, <1>4, CardMoves DEF TryStartRun

LEMMA CardStartRefused ==
    ASSUME CardInv, NEW a \in Actor, StartRefused(a)
    PROVE  CardInv'
  <1>1. RowsSound
    BY RowsUnwritten DEF StartRefused, Unwritten
  <1>2. shipped' \in BOOLEAN
    BY DEF StartRefused, CardInv, TypeOK
  <1>3. PICK x : Sound(x) /\ ~(x.pc \in {"send", "restore"}) /\ actor' = [actor EXCEPT ![a] = x]
    <2>1. CASE Replayable(runs["manual"])
      <3> DEFINE x == [IdleActor EXCEPT !.pc = "claim", !.run = "manual",
                                        !.att = runs["manual"].attempt,
                                        !.proof = runs["manual"].proof,
                                        !.todo = Contents(runs["manual"].proof)]
      <3>1. Sound(x) /\ x.pc = "claim"
        BY <2>1, EveryRun, ClaimSound DEF Replayable
      <3>2. actor' = [actor EXCEPT ![a] = x]
        BY <2>1 DEF StartRefused, Set
      <3> QED
        BY <3>1, <3>2
    <2>2. CASE ~Replayable(runs["manual"])
      BY <2>2, IdleSound DEF StartRefused, Set, IdleActor
    <2> QED
      BY <2>1, <2>2
  <1> QED
    BY <1>1, <1>2, <1>3, CardMoves DEF StartRefused

LEMMA CardRequestDelivery ==
    ASSUME CardInv, NEW a \in Actor, RequestDelivery(a)
    PROVE  CardInv'
  <1>1. RowsSound
    BY RowsUnwritten DEF RequestDelivery, Unwritten
  <1>2. shipped' \in BOOLEAN
    BY DEF RequestDelivery, CardInv, TypeOK
  <1>3. PICK x : Sound(x) /\ ~(x.pc \in {"send", "restore"}) /\ actor' = [actor EXCEPT ![a] = x]
    <2>1. PICK r \in Latest :
            \/ /\ r = "auto" /\ Deliverable(runs[r])
               /\ Set(a, [IdleActor EXCEPT !.pc = "start", !.run = "manual"])
            \/ /\ Replayable(runs[r])
               /\ Set(a, [IdleActor EXCEPT !.pc = "claim", !.run = r, !.att = runs[r].attempt,
                                           !.proof = runs[r].proof,
                                           !.todo = Contents(runs[r].proof)])
      BY DEF RequestDelivery
    <2>2. r \in Run
      BY <2>1, EveryRun DEF Latest, CardInv, TypeOK
    <2>3. CASE Set(a, [IdleActor EXCEPT !.pc = "start", !.run = "manual"])
      <3> DEFINE x == [IdleActor EXCEPT !.pc = "start", !.run = "manual"]
      <3>1. Sound(x) /\ x.pc = "start"
        BY EveryRun, FreshSound
      <3> QED
        BY <2>3, <3>1 DEF Set
    <2>4. CASE /\ Replayable(runs[r])
               /\ Set(a, [IdleActor EXCEPT !.pc = "claim", !.run = r, !.att = runs[r].attempt,
                                           !.proof = runs[r].proof,
                                           !.todo = Contents(runs[r].proof)])
      <3> DEFINE x == [IdleActor EXCEPT !.pc = "claim", !.run = r, !.att = runs[r].attempt,
                                        !.proof = runs[r].proof,
                                        !.todo = Contents(runs[r].proof)]
      <3>1. Sound(x) /\ x.pc = "claim"
        BY <2>2, <2>4, ClaimSound DEF Replayable
      <3>2. actor' = [actor EXCEPT ![a] = x]
        BY <2>4 DEF Set
      <3> QED
        BY <3>1, <3>2
    <2> QED
      BY <2>1, <2>3, <2>4
  <1> QED
    BY <1>1, <1>2, <1>3, CardMoves DEF RequestDelivery

LEMMA CardLoadRun ==
    ASSUME CardInv, NEW a \in Actor, LoadRun(a)
    PROVE  CardInv'
  <1> DEFINE p == IF Mine(a).proof.refill THEN "quarantine" ELSE "ready"
             x == [actor[a] EXCEPT !.pc = p, !.att = Mine(a).attempt, !.cur = Mine(a).cursor,
                                   !.sent = Mine(a).sent, !.proof = Mine(a).proof]
  <1>1. actor[a] \in ActorState /\ actor[a].run \in Run /\ Mine(a) \in RunRow /\ Sound(actor[a])
    BY ActorTypes
  <1>2. p \in {"quarantine", "ready"}
    OBVIOUS
  <1>3. x \in ActorState
    BY <1>1, <1>2 DEF ActorState, RunRow
  <1>4. /\ x.pc = p /\ x.run = actor[a].run /\ x.proof = Mine(a).proof /\ x.got = actor[a].got
        /\ x.replay = actor[a].replay /\ x.n = actor[a].n /\ x.out = actor[a].out
        /\ x.todo = actor[a].todo
    BY <1>1 DEF ActorState
  <1>5. p = "ready" => ~x.proof.refill
    BY <1>4
  <1>6. actor' = [actor EXCEPT ![a] = x]
    BY DEF LoadRun, Set
  <1> HIDE DEF p, x
  <1>7. actor[a].pc = "load" /\ Local(actor[a]) /\ ~actor[a].replay
    BY <1>1 DEF LoadRun, In, Sound, SoundWith, Local, Resending, Taking
  <1>8. Local(x)
    BY <1>2, <1>4, <1>5, <1>7 DEF Local, Resending, Taking, Acting
  <1>9. Confirmed(x, accepted[x.run])
    BY <1>2, <1>4, <1>7 DEF Confirmed, Taking
  <1>10. Contents(x.proof) \cup Contents(x.got) \cup x.todo \subseteq handed[x.run]
    BY <1>1, <1>4 DEF CardInv, KnownHanded, Sound, SoundWith, Mine
  <1>11. Sound(x) /\ ~(x.pc \in {"send", "restore"})
    BY <1>2, <1>3, <1>4, <1>8, <1>9, <1>10 DEF Sound, SoundWith
  <1>12. RowsSound /\ shipped' \in BOOLEAN
    BY RowsUnwritten DEF LoadRun, Unwritten, CardInv, TypeOK
  <1> QED
    BY <1>6, <1>11, <1>12, CardMoves DEF LoadRun

LEMMA CardStartRunAction ==
    ASSUME CardInv, NEW a \in Actor, StartRunAction(a)
    PROVE  CardInv'
  <1>1. actor[a] \in ActorState /\ actor[a].run \in Run /\ Mine(a) \in RunRow /\ Sound(actor[a])
    BY ActorTypes
  <1>2. /\ actor[a].pc = "ready" /\ ~actor[a].replay /\ ~actor[a].proof.refill
        /\ actor[a].n = 0 /\ Empty(actor[a].got) /\ actor[a].out = "none"
        /\ actor[a].cur \in {1, 2}
    BY <1>1 DEF StartRunAction, In, Sound, SoundWith, Local, Resending, Taking, ActorState
  <1>3. shipped' \in BOOLEAN
    BY DEF StartRunAction, CardInv, TypeOK
  <1>4. CASE /\ Write(actor[a].run, [Mine(a) EXCEPT !.started = TRUE, !.leased = TRUE])
             /\ Goto(a, IF actor[a].cur = 1 THEN "unit" ELSE "confirming")
    <2> DEFINE p == IF actor[a].cur = 1 THEN "unit" ELSE "confirming"
               x == [actor[a] EXCEPT !.pc = p]
               row == [Mine(a) EXCEPT !.started = TRUE, !.leased = TRUE]
    <2>1. row \in RunRow /\ row.proof = runs[actor[a].run].proof
      BY <1>1 DEF RunRow, Mine
    <2>2. Write(actor[a].run, row) /\ actor' = [actor EXCEPT ![a] = x]
      BY <1>4 DEF Goto, Set
    <2>3. p \in Place /\ p = IF actor[a].cur = 1 THEN "unit" ELSE "confirming"
      BY DEF Place
    <2>4. /\ x \in ActorState /\ x.pc = p /\ x.run = actor[a].run /\ x.replay = actor[a].replay
          /\ x.cur = actor[a].cur /\ x.n = actor[a].n /\ x.out = actor[a].out
          /\ x.proof = actor[a].proof /\ x.got = actor[a].got /\ x.todo = actor[a].todo
      BY <1>1, <2>3, PcSet
    <2> HIDE DEF p, x, row
    <2>5. RowsSound
      BY <1>1, <2>1, <2>2, RowKeepsProof
    <2>6. x.got.known = {} /\ x.got.unsure = {} /\ ~x.got.refill /\ Cardinality(x.got.known) = 0
      BY <1>2, <2>4, FS_EmptySet DEF Empty, Contents
    <2>7. Local(x)
      BY <1>2, <2>3, <2>4, <2>6 DEF Local, Resending, Taking, Acting, Empty
    <2>8. Confirmed(x, accepted[x.run])
      BY <1>2, <2>3, <2>4 DEF Confirmed, Taking
    <2>9. Sound(x) /\ ~(x.pc \in {"send", "restore"})
      BY <1>1, <2>3, <2>4, <2>7, <2>8 DEF Sound, SoundWith
    <2> QED
      BY <1>3, <2>2, <2>5, <2>9, CardMoves DEF StartRunAction
  <1>5. CASE Set(a, [actor[a] EXCEPT !.pc = "fail", !.out = "plain"]) /\ Unwritten
    <2> DEFINE x == [actor[a] EXCEPT !.pc = "fail", !.out = "plain"]
    <2>1. /\ x \in ActorState /\ x.pc = "fail" /\ x.run = actor[a].run
          /\ x.replay = actor[a].replay /\ x.cur = actor[a].cur
          /\ x.proof = actor[a].proof /\ x.got = actor[a].got /\ x.todo = actor[a].todo
      BY <1>1 DEF ActorState, Outcome
    <2>2. actor' = [actor EXCEPT ![a] = x]
      BY <1>5 DEF Set
    <2> HIDE DEF x
    <2>3. Local(x) /\ Confirmed(x, accepted[x.run])
      BY <1>2, <2>1 DEF Local, Confirmed, Resending, Taking, Acting
    <2>4. Sound(x) /\ ~(x.pc \in {"send", "restore"})
      BY <1>1, <2>1, <2>3 DEF Sound, SoundWith
    <2> QED
      BY <1>3, <1>5, <2>2, <2>4, RowsUnwritten, CardMoves DEF StartRunAction
  <1> QED
    BY <1>4, <1>5 DEF StartRunAction

LEMMA CardsFinite ==
    ASSUME NEW S \in SUBSET Card
    PROVE  IsFiniteSet(S) /\ Cardinality(S) \in Nat
  <1>1. IsFiniteSet(1 .. Supply)
    BY OrderAssumption, FS_Interval
  <1>2. IsFiniteSet(S)
    BY <1>1, FS_Subset DEF Card
  <1> QED
    BY <1>2, FS_CardinalityType

\* What Failed keeps of a record, and where it sends it.
LEMMA FailedIs ==
    ASSUME NEW y \in ActorState
    PROVE  LET x == Failed(y)
           IN /\ x \in ActorState /\ x.run = y.run /\ x.att = y.att /\ x.cur = y.cur
              /\ x.sent = y.sent /\ x.n = y.n /\ x.card = y.card /\ x.replay = y.replay
              /\ x.proof = y.proof /\ x.got = y.got /\ x.out = y.out /\ x.todo = y.todo
              /\ x.pc = IF y.replay THEN "save"
                        ELSE IF y.n > 0 \/ y.out \in {"uncertain", "norestore"} THEN "unsure"
                        ELSE "abort"
  <1> DEFINE p == IF y.replay THEN "save"
                  ELSE IF y.n > 0 \/ y.out \in {"uncertain", "norestore"} THEN "unsure"
                  ELSE "abort"
  <1>1. p \in Place
    BY DEF Place
  <1>2. Failed(y) = [y EXCEPT !.pc = p]
    BY DEF Failed
  <1> HIDE DEF p
  <1>3. /\ Failed(y) \in ActorState /\ Failed(y).pc = p
        /\ Failed(y).run = y.run /\ Failed(y).att = y.att /\ Failed(y).cur = y.cur
        /\ Failed(y).sent = y.sent /\ Failed(y).n = y.n /\ Failed(y).card = y.card
        /\ Failed(y).replay = y.replay /\ Failed(y).proof = y.proof /\ Failed(y).got = y.got
        /\ Failed(y).out = y.out /\ Failed(y).todo = y.todo
    BY <1>1, <1>2, PcSet
  <1> QED
    BY <1>3 DEF p

\* An action that failed without a card in transit may be recorded.
LEMMA FailedSound ==
    ASSUME CardInv, NEW y \in ActorState,
           y.replay \/ y.cur \in {1, 2},
           Cardinality(y.got.known) = y.n \/ y.cur = 2,
           y.cur = 2 /\ ~y.replay => Empty(y.got) /\ y.n = 0 /\ y.out # "norestore",
           y.out # "none", y.got.refill <=> y.out = "norestore",
           y.got.unsure # {} => y.out = "uncertain",
           y.replay => y.got.known \cap Contents(y.proof) = {}
                         /\ Contents(y.proof) \cup y.got.known \subseteq accepted[y.run],
           ~y.replay => ~y.proof.refill,
           Contents(y.proof) \cup Contents(y.got) \cup y.todo \subseteq handed[y.run]
    PROVE  Sound(Failed(y)) /\ ~(Failed(y).pc \in {"send", "restore"})
  <1> DEFINE x == Failed(y)
  <1>1. /\ x \in ActorState /\ x.run = y.run /\ x.att = y.att /\ x.cur = y.cur
        /\ x.sent = y.sent /\ x.n = y.n /\ x.card = y.card /\ x.replay = y.replay
        /\ x.proof = y.proof /\ x.got = y.got /\ x.out = y.out /\ x.todo = y.todo
        /\ x.pc = IF y.replay THEN "save"
                  ELSE IF y.n > 0 \/ y.out \in {"uncertain", "norestore"} THEN "unsure"
                  ELSE "abort"
    BY FailedIs
  <1> HIDE DEF x
  <1>2. ~(x.pc \in {"send", "restore"}) /\ (x.pc = "save" <=> y.replay)
        /\ x.pc \in {"save", "unsure", "abort"}
    BY <1>1
  <1>3. x.pc = "abort" => Empty(y.got) /\ y.out \in {"plain", "notsent"}
    <2> SUFFICES ASSUME x.pc = "abort"
                 PROVE  Empty(y.got) /\ y.out \in {"plain", "notsent"}
      OBVIOUS
    <2>1. ~(y.n > 0) /\ y.n \in Nat /\ y.out \in {"plain", "notsent"}
      BY <1>1 DEF ActorState, Outcome
    <2>2. y.got.known \in SUBSET Card
      BY DEF ActorState, Proof
    <2>3. IsFiniteSet(y.got.known)
      BY <2>2, CardsFinite
    <2>4. CASE Cardinality(y.got.known) = y.n
      <3>1. y.got.known = {}
        BY <2>1, <2>3, <2>4, FS_EmptySet
      <3> QED
        BY <2>1, <3>1 DEF Empty, Contents
    <2>5. CASE y.cur = 2
      BY <1>1, <2>1, <2>5
    <2> QED
      BY <2>4, <2>5
  <1>4. Local(x)
    BY <1>1, <1>2, <1>3 DEF Local, Resending, Taking, Acting
  <1>5. Confirmed(x, accepted[x.run])
    BY <1>1, <1>2 DEF Confirmed, Taking
  <1>6. Sound(x)
    BY <1>1, <1>4, <1>5 DEF Sound, SoundWith
  <1> QED
    BY <1>2, <1>6 DEF x

LEMMA CardTakeCard ==
    ASSUME CardInv, NEW a \in Actor, TakeCard(a)
    PROVE  CardInv'
  <1>1. actor[a] \in ActorState /\ actor[a].run \in Run /\ Sound(actor[a])
    BY ActorTypes
  <1>2. /\ actor[a].pc = "unit" /\ actor[a].got.unsure = {} /\ ~actor[a].got.refill
        /\ actor[a].out = "none" /\ Cardinality(actor[a].got.known) = actor[a].n
        /\ actor[a].replay \/ (actor[a].cur = 1 /\ ~actor[a].proof.refill)
    BY <1>1 DEF TakeCard, In, Sound, SoundWith, Local, Resending, Taking, Acting
  <1>3. RowsSound
    BY RowsUnwritten DEF TakeCard, Unwritten, CardInv, TypeOK
  <1>4. shipped' \in BOOLEAN
    BY DEF TakeCard, CardInv, TypeOK
  <1>5. CASE /\ Executing(a) /\ stock # <<>> /\ stock' = Tail(stock)
             /\ taken' = [taken EXCEPT ![actor[a].run] = @ \cup {Head(stock)}]
             /\ Set(a, [actor[a] EXCEPT !.pc = "send", !.card = Head(stock)])
             /\ UNCHANGED env
    <2> DEFINE r == actor[a].run
               c == Head(stock)
               x == [actor[a] EXCEPT !.pc = "send", !.card = c]
    <2>1. /\ stock \in Seq(Card) /\ Len(stock) > 0 /\ c = stock[1] /\ c \in Card
          /\ stock' \in Seq(Card) /\ Len(stock') = Len(stock) - 1
          /\ \A i \in 1 .. Len(stock') : stock'[i] = stock[i + 1]
      BY <1>5 DEF CardInv, TypeOK
    <2>2. /\ actor' = [actor EXCEPT ![a] = x] /\ taken' = [taken EXCEPT ![r] = @ \cup {c}]
          /\ handed' = handed /\ accepted' = accepted /\ runs' = runs
      BY <1>5 DEF Set, TakeCard
    <2>3. c \in 0 .. Supply
      BY <2>1, OrderAssumption DEF Card
    <2> HIDE DEF c
    <2>4. /\ x \in ActorState /\ x.pc = "send" /\ x.card = c /\ x.run = r /\ x.cur = actor[a].cur
          /\ x.replay = actor[a].replay /\ x.n = actor[a].n /\ x.out = actor[a].out
          /\ x.proof = actor[a].proof /\ x.got = actor[a].got /\ x.todo = actor[a].todo
      BY <1>1, <2>3 DEF ActorState
    <2> HIDE DEF x
    <2>5. Local(x)
      BY <1>1, <1>2, <2>4 DEF Sound, SoundWith, Local, Resending, Taking, Acting
    <2>6. Confirmed(x, accepted[x.run])
      BY <1>1, <1>2, <2>4 DEF Sound, SoundWith, Confirmed, Taking
    <2>7. Sound(x)
      BY <1>1, <2>4, <2>5, <2>6 DEF Sound, SoundWith
    <2>8. c \notin taken["auto"] /\ c \notin taken["manual"]
      BY <2>1, EveryRun DEF CardInv, StockApart
    <2>9. TypeOK'
      <3>1. taken' \in [Run -> SUBSET Card]
        BY <2>1, <2>2 DEF CardInv, TypeOK
      <3>2. actor' \in [Actor -> ActorState]
        BY <2>2, <2>4 DEF CardInv, TypeOK
      <3> QED
        BY <3>1, <3>2, <1>3, <1>4, <1>5, <2>1, <2>2 DEF CardInv, TypeOK, RowsSound
    <2>10. \A b \in Actor : Sound(actor'[b])
      BY <2>2, <2>7, ActorTypes DEF CardInv, TypeOK
    <2>11. /\ \A b \in Actor : Local(actor'[b]) /\ Confirmed(actor'[b], accepted'[actor'[b].run])
           /\ LocalHanded'
      BY <2>2, <2>10 DEF Sound, SoundWith, LocalHanded
    <2>12. KnownHanded'
      BY <1>1, <2>2 DEF KnownHanded, CardInv, TypeOK
    <2>13. StockApart'
      <3>1. \A i, j \in 1 .. Len(stock') : stock'[i] = stock'[j] => i = j
        BY <2>1 DEF CardInv, StockApart
      <3>2. \A q \in Run, i \in 1 .. Len(stock') : stock'[i] \notin taken'[q]
        <4> SUFFICES ASSUME NEW q \in Run, NEW i \in 1 .. Len(stock')
                     PROVE  stock'[i] \notin taken'[q]
          OBVIOUS
        <4>1. stock'[i] = stock[i + 1] /\ i + 1 \in 1 .. Len(stock) /\ 1 \in 1 .. Len(stock)
              /\ i + 1 # 1
          BY <2>1
        <4>2. stock'[i] # c /\ stock'[i] \notin taken[q]
          BY <2>1, <4>1 DEF CardInv, StockApart
        <4>3. taken'[q] \subseteq taken[q] \cup {c}
          BY <2>2 DEF CardInv, TypeOK
        <4> QED
          BY <4>2, <4>3
      <3>3. taken'["auto"] \cap taken'["manual"] = {}
        BY <1>1, <2>2, <2>8, EveryRun DEF CardInv, TypeOK, StockApart
      <3> QED
        BY <3>1, <3>2, <3>3 DEF StockApart
    <2>14. HandsApart'
      <3>1. \A q \in Run : c \notin handed[q] /\ handed'[q] = handed[q] /\ taken[q] \subseteq taken'[q]
        BY <2>2, <2>8, EveryRun DEF CardInv, KnownHanded, TypeOK
      <3>2. c \in taken'[r]
        BY <1>1, <2>2 DEF CardInv, TypeOK
      <3>3. /\ actor'[a].card = c /\ actor'[a].run = r
            /\ \A b \in Actor : b # a => actor'[b] = actor[b]
        BY <2>2, <2>4 DEF CardInv, TypeOK
      <3>4. \A b \in Actor : InTransit(b)' /\ b # a =>
              /\ InTransit(b) /\ actor'[b].card = actor[b].card /\ actor'[b].run = actor[b].run
              /\ actor[b].card \in taken[actor[b].run] /\ actor[b].run \in Run
        BY <3>3, ActorTypes DEF InTransit, CardInv, HandsApart
      <3>5. \A b \in Actor : InTransit(b)' /\ b # a => actor'[b].card # c
        BY <3>4, <2>8, EveryRun
      <3>6. \A b \in Actor : InTransit(b)' =>
              /\ actor'[b].card \in taken'[actor'[b].run]
              /\ \A q \in Run : actor'[b].card \notin handed'[q]
        <4> SUFFICES ASSUME NEW b \in Actor, InTransit(b)'
                     PROVE  /\ actor'[b].card \in taken'[actor'[b].run]
                            /\ \A q \in Run : actor'[b].card \notin handed'[q]
          OBVIOUS
        <4>1. CASE b = a
          BY <3>1, <3>2, <3>3, <4>1
        <4>2. CASE b # a
          <5>1. \A q \in Run : actor[b].card \notin handed[q]
            BY <3>4, <4>2 DEF CardInv, HandsApart
          <5> QED
            BY <3>1, <3>4, <4>2, <5>1
        <4> QED
          BY <4>1, <4>2
      <3>7. \A b, d \in Actor : InTransit(b)' /\ InTransit(d)' /\ actor'[b].card = actor'[d].card
                                  => b = d
        BY <3>3, <3>4, <3>5 DEF CardInv, HandsApart
      <3> QED
        BY <3>6, <3>7 DEF HandsApart
    <2> QED
      BY <2>9, <2>11, <2>12, <2>13, <2>14 DEF CardInv
  <1>6. CASE /\ Set(a, Failed([actor[a] EXCEPT !.out = "plain"]))
             /\ Disturbed \/ UNCHANGED env
             /\ UNCHANGED <<stock, taken>>
    <2> DEFINE y == [actor[a] EXCEPT !.out = "plain"]
    <2>1. /\ y \in ActorState /\ y.out = "plain" /\ y.run = actor[a].run /\ y.cur = actor[a].cur
          /\ y.replay = actor[a].replay /\ y.n = actor[a].n
          /\ y.proof = actor[a].proof /\ y.got = actor[a].got /\ y.todo = actor[a].todo
      BY <1>1 DEF ActorState, Outcome
    <2>2. actor' = [actor EXCEPT ![a] = Failed(y)]
      BY <1>6 DEF Set
    <2> HIDE DEF y
    <2>3. actor[a].replay => /\ actor[a].got.known \cap Contents(actor[a].proof) = {}
                             /\ Contents(actor[a].proof) \cup actor[a].got.known
                                  \subseteq accepted[actor[a].run]
      BY <1>1, <1>2 DEF Sound, SoundWith, Local, Confirmed, Taking
    <2>4. Contents(y.proof) \cup Contents(y.got) \cup y.todo \subseteq handed[y.run]
      BY <1>1, <2>1 DEF Sound, SoundWith
    <2>5. Sound(Failed(y)) /\ ~(Failed(y).pc \in {"send", "restore"})
      BY <1>2, <2>1, <2>3, <2>4, FailedSound
    <2>6. UNCHANGED <<stock, history>>
      BY <1>6 DEF TakeCard, history
    <2> QED
      BY <1>3, <1>4, <1>6, <2>2, <2>5, <2>6, CardMoves
  <1> QED
    BY <1>5, <1>6 DEF TakeCard

\* A step that only moves an execution and what was handed over for its run: c was
\* in its hands, or had been handed over before.
LEMMA CardHanded ==
    ASSUME CardInv, NEW a \in Actor, NEW r \in Run, NEW c \in Card, NEW x,
           r = actor[a].run, c \in taken[r],
           c \in handed[r] \/ (InTransit(a) /\ actor[a].card = c),
           handed' = [handed EXCEPT ![r] = @ \cup {c}],
           accepted' = accepted \/ accepted' = [accepted EXCEPT ![r] = @ \cup {c}],
           UNCHANGED <<runs, latest, stock, shipped, env, taken>>,
           actor' = [actor EXCEPT ![a] = x],
           SoundWith(x, handed'[r], accepted'[r]), x.run = r, ~(x.pc \in {"send", "restore"})
    PROVE  CardInv'
  <1>1. \A q \in Run : handed[q] \subseteq handed'[q] /\ accepted[q] \subseteq accepted'[q]
    BY DEF CardInv, TypeOK
  <1>2. TypeOK'
    <2>1. actor' \in [Actor -> ActorState]
      BY DEF CardInv, TypeOK, SoundWith
    <2>2. handed' \in [Run -> SUBSET Card] /\ accepted' \in [Run -> SUBSET Card]
      BY DEF CardInv, TypeOK
    <2> QED
      BY <2>1, <2>2 DEF CardInv, TypeOK
  <1>3. \A b \in Actor : SoundWith(actor'[b], handed'[actor'[b].run], accepted'[actor'[b].run])
    <2> SUFFICES ASSUME NEW b \in Actor
                 PROVE  SoundWith(actor'[b], handed'[actor'[b].run], accepted'[actor'[b].run])
      OBVIOUS
    <2>1. CASE b = a
      BY <2>1 DEF CardInv, TypeOK
    <2>2. CASE b # a
      <3>1. actor'[b] = actor[b] /\ Sound(actor[b]) /\ actor[b].run \in Run
        BY <2>2, ActorTypes DEF CardInv, TypeOK
      <3>2. Contents(actor[b].proof) \cup Contents(actor[b].got) \cup actor[b].todo
              \subseteq handed'[actor[b].run]
        BY <1>1, <3>1 DEF Sound, SoundWith
      <3>3. Confirmed(actor[b], accepted'[actor[b].run])
        <4> DEFINE old == accepted[actor[b].run]
                   new == accepted'[actor[b].run]
        <4>1. old \subseteq new /\ new \in SUBSET Card
          BY <1>1, <1>2, <3>1 DEF TypeOK
        <4>2. Cardinality(old) >= Units => Cardinality(new) >= Units
          BY <4>1, CardsFinite, FS_Subset, OrderAssumption
        <4>3. Confirmed(actor[b], old)
          BY <3>1 DEF Sound, SoundWith
        <4> HIDE DEF old, new
        <4>4. Confirmed(actor[b], new)
          BY <4>1, <4>2, <4>3 DEF Confirmed
        <4> QED
          BY <4>4 DEF new
      <3> QED
        BY <3>1, <3>2, <3>3 DEF Sound, SoundWith
    <2> QED
      BY <2>1, <2>2
  <1>4. /\ \A b \in Actor : Local(actor'[b]) /\ Confirmed(actor'[b], accepted'[actor'[b].run])
        /\ LocalHanded'
    BY <1>3 DEF SoundWith, LocalHanded
  <1>5. KnownHanded'
    <2>1. \A q \in Run : handed'[q] \subseteq taken[q]
      BY DEF CardInv, TypeOK, KnownHanded
    <2> QED
      BY <1>1, <2>1 DEF CardInv, KnownHanded
  <1>6. StockApart'
    BY DEF CardInv, StockApart
  <1>7. HandsApart'
    <2>1. \A b \in Actor : InTransit(b)' => b # a /\ InTransit(b) /\ actor'[b] = actor[b]
      BY DEF InTransit, CardInv, TypeOK
    <2>2. \A b \in Actor : InTransit(b)' => actor[b].card # c
      BY <2>1 DEF CardInv, HandsApart
    <2>3. \A q \in Run : handed'[q] \subseteq handed[q] \cup {c}
      BY DEF CardInv, TypeOK
    <2>4. \A b \in Actor : InTransit(b)' =>
            /\ actor'[b].card \in taken'[actor'[b].run]
            /\ \A q \in Run : actor'[b].card \notin handed'[q]
      BY <2>1, <2>2, <2>3 DEF CardInv, HandsApart
    <2> QED
      BY <2>1, <2>4 DEF CardInv, HandsApart
  <1> QED
    BY <1>2, <1>4, <1>5, <1>6, <1>7 DEF CardInv

LEMMA CardSendCard ==
    ASSUME CardInv, NEW a \in Actor, SendCard(a)
    PROVE  CardInv'
  <1> DEFINE r == actor[a].run
             c == actor[a].card
  <1>1. actor[a] \in ActorState /\ r \in Run /\ Sound(actor[a]) /\ In(a, "send") /\ InTransit(a)
    BY ActorTypes DEF SendCard, InTransit, In
  <1>2. /\ actor[a].pc = "send" /\ actor[a].got.unsure = {} /\ ~actor[a].got.refill
        /\ actor[a].out = "none" /\ Cardinality(actor[a].got.known) = actor[a].n
        /\ actor[a].replay \/ (actor[a].cur = 1 /\ ~actor[a].proof.refill)
        /\ actor[a].replay => /\ actor[a].got.known \cap Contents(actor[a].proof) = {}
                              /\ Contents(actor[a].proof) \cup actor[a].got.known \subseteq accepted[r]
        /\ Contents(actor[a].proof) \cup Contents(actor[a].got) \cup actor[a].todo \subseteq handed[r]
    BY <1>1 DEF In, Sound, SoundWith, Local, Confirmed, Resending, Taking, Acting
  <1>3. c \in taken[r] /\ c \in Card /\ \A q \in Run : c \notin handed[q]
    BY <1>1 DEF CardInv, HandsApart, TypeOK
  <1>4. c \notin actor[a].got.known /\ c \notin Contents(actor[a].proof)
    BY <1>1, <1>2, <1>3 DEF Contents
  <1>5. /\ actor[a].got \in Proof /\ actor[a].got.known \in SUBSET Card
        /\ actor[a].n \in Nat /\ actor[a].proof \in Proof
    BY <1>1 DEF ActorState, Proof
  <1>6. CASE /\ Set(a, [actor[a] EXCEPT !.pc = "restore", !.lost = ~Executing(a)])
             /\ UNCHANGED <<handed, accepted>>
    <2> DEFINE lost == ~Executing(a)
    <2>1. lost \in BOOLEAN
      BY DEF Executing, HoldsAction, Holds
    <2> HIDE DEF lost
    <2> DEFINE x == [actor[a] EXCEPT !.pc = "restore", !.lost = lost]
    <2>2. actor' = [actor EXCEPT ![a] = x]
      BY <1>6 DEF Set, lost
    <2>3. /\ x \in ActorState /\ x.pc = "restore" /\ x.run = r /\ x.card = c /\ x.cur = actor[a].cur
          /\ x.replay = actor[a].replay /\ x.n = actor[a].n /\ x.out = actor[a].out
          /\ x.proof = actor[a].proof /\ x.got = actor[a].got /\ x.todo = actor[a].todo
      BY <1>1, <2>1 DEF ActorState
    <2> HIDE DEF x
    <2>4. Local(x)
      BY <1>2, <2>3 DEF Local, Resending, Taking, Acting
    <2>5. Confirmed(x, accepted[x.run])
      BY <1>2, <2>3 DEF Confirmed, Taking
    <2>6. Sound(x)
      BY <1>2, <2>3, <2>4, <2>5 DEF Sound, SoundWith
    <2>7. RowsSound
      BY RowsUnwritten DEF SendCard, Unwritten
    <2>8. UNCHANGED <<stock, history>> /\ shipped' \in BOOLEAN
      BY <1>6 DEF SendCard, history, CardInv, TypeOK
    <2> QED
      BY <1>1, <2>2, <2>3, <2>6, <2>7, <2>8, CardMoves DEF SendCard
  <1> DEFINE known == [actor[a].got EXCEPT !.raw = TRUE, !.known = @ \cup {c}]
             unsure == [actor[a].got EXCEPT !.raw = TRUE, !.unsure = @ \cup {c}]
  <1>7. CASE /\ handed' = [handed EXCEPT ![r] = @ \cup {c}]
             /\ accepted' = [accepted EXCEPT ![r] = @ \cup {c}]
             /\ Set(a, [actor[a] EXCEPT !.pc = "unit", !.n = @ + 1, !.card = 0,
                                        !.got.raw = TRUE, !.got.known = @ \cup {c}])
    <2> DEFINE m == actor[a].n + 1
               x == [actor[a] EXCEPT !.pc = "unit", !.n = m, !.card = 0, !.got = known]
    <2>1. /\ known \in Proof /\ known.known = actor[a].got.known \cup {c}
          /\ known.unsure = {} /\ ~known.refill
      BY <1>2, <1>3, <1>5 DEF Proof
    <2>2. m \in Nat /\ 0 \in 0 .. Supply
      BY <1>5, OrderAssumption
    <2>3. actor' = [actor EXCEPT ![a] = x]
      BY <1>1, <1>5, <1>7 DEF Set, ActorState, Proof
    <2> HIDE DEF known, m
    <2>4. /\ x \in ActorState /\ x.pc = "unit" /\ x.run = r /\ x.n = m /\ x.cur = actor[a].cur
          /\ x.replay = actor[a].replay /\ x.out = actor[a].out
          /\ x.proof = actor[a].proof /\ x.got = known /\ x.todo = actor[a].todo
      BY <1>1, <2>1, <2>2 DEF ActorState
    <2> HIDE DEF x
    <2>5. Cardinality(x.got.known) = m
      BY <1>2, <1>4, <1>5, <2>1, <2>4, CardsFinite, FS_AddElement DEF m
    <2>6. Local(x)
      BY <1>2, <1>4, <2>1, <2>4, <2>5 DEF Local, Resending, Taking, Acting
    <2>7. accepted'[r] = accepted[r] \cup {c} /\ handed'[r] = handed[r] \cup {c}
      BY <1>1, <1>7 DEF CardInv, TypeOK
    <2>8. Confirmed(x, accepted'[x.run])
      BY <1>2, <2>1, <2>4, <2>7 DEF Confirmed, Taking
    <2>9. Contents(x.proof) \cup Contents(x.got) \cup x.todo \subseteq handed'[x.run]
      BY <1>2, <2>1, <2>4, <2>7 DEF Contents
    <2>10. SoundWith(x, handed'[r], accepted'[r])
      BY <2>4, <2>6, <2>8, <2>9 DEF SoundWith
    <2> QED
      BY <1>1, <1>3, <1>7, <2>3, <2>4, <2>10, CardHanded DEF SendCard
  <1>8. CASE /\ handed' = [handed EXCEPT ![r] = @ \cup {c}]
             /\ Set(a, Failed([actor[a] EXCEPT !.out = "uncertain",
                                               !.got.raw = TRUE, !.got.unsure = @ \cup {c}]))
             /\ UNCHANGED accepted
    <2> DEFINE y == [actor[a] EXCEPT !.out = "uncertain", !.got = unsure]
               x == Failed(y)
    <2>1. /\ unsure \in Proof /\ unsure.known = actor[a].got.known
          /\ unsure.unsure = {c} /\ ~unsure.refill
      BY <1>2, <1>3, <1>5 DEF Proof
    <2>2. actor' = [actor EXCEPT ![a] = Failed(y)]
      BY <1>1, <1>5, <1>8 DEF Set, ActorState, Proof
    <2> HIDE DEF unsure
    <2>3. /\ y \in ActorState /\ y.run = r /\ y.n = actor[a].n /\ y.cur = actor[a].cur
          /\ y.replay = actor[a].replay /\ y.out = "uncertain"
          /\ y.proof = actor[a].proof /\ y.got = unsure /\ y.todo = actor[a].todo
      BY <1>1, <2>1 DEF ActorState, Outcome
    <2> HIDE DEF y
    <2>4. /\ x \in ActorState /\ x.run = r /\ x.n = actor[a].n /\ x.cur = actor[a].cur
          /\ x.replay = actor[a].replay /\ x.out = "uncertain"
          /\ x.proof = actor[a].proof /\ x.got = unsure /\ x.todo = actor[a].todo
          /\ x.pc = IF actor[a].replay THEN "save" ELSE "unsure"
      BY <2>3, FailedIs
    <2> HIDE DEF x
    <2>5. Local(x)
      BY <1>2, <2>1, <2>4 DEF Local, Resending, Taking, Acting
    <2>6. Confirmed(x, accepted'[x.run])
      BY <1>2, <1>8, <2>1, <2>4 DEF Confirmed, Taking
    <2>7. handed'[r] = handed[r] \cup {c}
      BY <1>1, <1>8 DEF CardInv, TypeOK
    <2>8. Contents(x.proof) \cup Contents(x.got) \cup x.todo \subseteq handed'[x.run]
      BY <1>2, <2>1, <2>4, <2>7 DEF Contents
    <2>9. SoundWith(x, handed'[r], accepted'[r])
      BY <2>4, <2>5, <2>6, <2>8 DEF SoundWith
    <2>10. actor' = [actor EXCEPT ![a] = x] /\ ~(x.pc \in {"send", "restore"})
      BY <2>2, <2>4 DEF x
    <2> QED
      BY <1>1, <1>3, <1>8, <2>4, <2>9, <2>10, CardHanded DEF SendCard
  <1> QED
    BY <1>6, <1>7, <1>8 DEF SendCard

LEMMA CardRestoreCard ==
    ASSUME CardInv, NEW a \in Actor, RestoreCard(a)
    PROVE  CardInv'
  <1> DEFINE r == actor[a].run
             c == actor[a].card
  <1>1. actor[a] \in ActorState /\ r \in Run /\ Sound(actor[a]) /\ In(a, "restore") /\ InTransit(a)
    BY ActorTypes DEF RestoreCard, InTransit, In
  <1>2. /\ actor[a].pc = "restore" /\ actor[a].got.unsure = {} /\ ~actor[a].got.refill
        /\ actor[a].out = "none" /\ Cardinality(actor[a].got.known) = actor[a].n
        /\ actor[a].replay \/ (actor[a].cur = 1 /\ ~actor[a].proof.refill)
        /\ actor[a].replay => /\ actor[a].got.known \cap Contents(actor[a].proof) = {}
                              /\ Contents(actor[a].proof) \cup actor[a].got.known \subseteq accepted[r]
        /\ Contents(actor[a].proof) \cup Contents(actor[a].got) \cup actor[a].todo \subseteq handed[r]
    BY <1>1 DEF In, Sound, SoundWith, Local, Confirmed, Resending, Taking, Acting
  <1>3. c \in taken[r] /\ c \in Card /\ \A q \in Run : c \notin handed[q]
    BY <1>1 DEF CardInv, HandsApart, TypeOK
  <1>4. RowsSound /\ shipped' \in BOOLEAN
    BY RowsUnwritten DEF RestoreCard, Unwritten, CardInv, TypeOK
  <1>5. CASE /\ stock' = <<c>> \o stock
             /\ taken' = [taken EXCEPT ![r] = @ \ {c}]
             /\ Set(a, Failed([actor[a] EXCEPT !.out = "notsent", !.card = 0]))
             /\ UNCHANGED env
    <2> DEFINE y == [actor[a] EXCEPT !.out = "notsent", !.card = 0]
               x == Failed(y)
    <2>1. 0 \in 0 .. Supply
      BY OrderAssumption
    <2>2. /\ y \in ActorState /\ y.out = "notsent" /\ y.run = r /\ y.cur = actor[a].cur
          /\ y.replay = actor[a].replay /\ y.n = actor[a].n
          /\ y.proof = actor[a].proof /\ y.got = actor[a].got /\ y.todo = actor[a].todo
      BY <1>1, <2>1 DEF ActorState, Outcome
    <2>3. actor' = [actor EXCEPT ![a] = x]
      BY <1>5 DEF Set
    <2> HIDE DEF y
    <2>4. Sound(x) /\ ~(x.pc \in {"send", "restore"})
      BY <1>2, <2>2, FailedSound
    <2> HIDE DEF x
    <2>5. /\ handed' = handed /\ accepted' = accepted /\ runs' = runs /\ latest' = latest
          /\ shipped' = shipped
      BY DEF RestoreCard
    <2>6. \A q \in Run : taken'[q] = IF q = r THEN taken[r] \ {c} ELSE taken[q]
      BY <1>5 DEF CardInv, TypeOK
    <2>7. /\ stock' \in Seq(Card) /\ stock \in Seq(Card) /\ Len(stock') = Len(stock) + 1
          /\ stock'[1] = c /\ \A i \in 1 .. Len(stock) : stock'[i + 1] = stock[i]
      BY <1>3, <1>5 DEF CardInv, TypeOK
    <2>8. TypeOK'
      <3>1. taken' \in [Run -> SUBSET Card]
        BY <1>5 DEF CardInv, TypeOK
      <3>2. actor' \in [Actor -> ActorState]
        BY <2>3, <2>4 DEF CardInv, TypeOK, Sound, SoundWith
      <3> QED
        BY <1>5, <2>5, <2>7, <3>1, <3>2 DEF CardInv, TypeOK
    <2>9. \A b \in Actor : Sound(actor'[b])
      BY <2>3, <2>4, ActorTypes DEF CardInv, TypeOK
    <2>10. /\ \A b \in Actor : Local(actor'[b]) /\ Confirmed(actor'[b], accepted'[actor'[b].run])
           /\ LocalHanded'
      BY <2>5, <2>9 DEF Sound, SoundWith, LocalHanded
    <2>11. KnownHanded'
      BY <1>3, <2>5, <2>6 DEF KnownHanded, CardInv
    <2>12. StockApart'
      <3>1. \A q \in Run : c \notin taken'[q]
        BY <1>1, <1>3, <2>6, EveryRun DEF CardInv, StockApart
      <3>2. \A i \in 1 .. Len(stock) : stock[i] # c
        BY <1>1, <1>3 DEF CardInv, StockApart
      <3>3. \A j \in 1 .. Len(stock') : j = 1 \/ (j - 1 \in 1 .. Len(stock) /\ stock'[j] = stock[j - 1])
        <4> SUFFICES ASSUME NEW j \in 1 .. Len(stock'), j # 1
                     PROVE  j - 1 \in 1 .. Len(stock) /\ stock'[j] = stock[j - 1]
          OBVIOUS
        <4>1. j - 1 \in 1 .. Len(stock) /\ (j - 1) + 1 = j
          BY <2>7
        <4> QED
          BY <2>7, <4>1
      <3>4. \A q \in Run, j \in 1 .. Len(stock') : stock'[j] \notin taken'[q]
        <4> SUFFICES ASSUME NEW q \in Run, NEW j \in 1 .. Len(stock')
                     PROVE  stock'[j] \notin taken'[q]
          OBVIOUS
        <4>1. taken'[q] \subseteq taken[q]
          BY <2>6
        <4>2. CASE j = 1
          BY <2>7, <3>1, <4>2
        <4>3. CASE j # 1
          BY <3>3, <4>1, <4>3 DEF CardInv, StockApart
        <4> QED
          BY <4>2, <4>3
      <3>5. \A i, j \in 1 .. Len(stock') : stock'[i] = stock'[j] => i = j
        <4> SUFFICES ASSUME NEW i \in 1 .. Len(stock'), NEW j \in 1 .. Len(stock'),
                            stock'[i] = stock'[j]
                     PROVE  i = j
          OBVIOUS
        <4>1. CASE i = 1
          BY <2>7, <3>2, <3>3, <4>1
        <4>2. CASE j = 1
          BY <2>7, <3>2, <3>3, <4>2
        <4>3. CASE i # 1 /\ j # 1
          <5>1. i - 1 = j - 1
            BY <3>3, <4>3 DEF CardInv, StockApart
          <5> QED
            BY <2>7, <5>1
        <4> QED
          BY <4>1, <4>2, <4>3
      <3>6. taken'["auto"] \cap taken'["manual"] = {}
        BY <2>6, EveryRun DEF CardInv, StockApart
      <3> QED
        BY <3>4, <3>5, <3>6 DEF StockApart
    <2>13. HandsApart'
      <3>1. \A b \in Actor : InTransit(b)' => b # a /\ InTransit(b) /\ actor'[b] = actor[b]
        BY <2>3, <2>4 DEF InTransit, CardInv, TypeOK
      <3>2. \A b \in Actor : InTransit(b)' => actor[b].card # c
        BY <1>1, <3>1 DEF CardInv, HandsApart
      <3>3. \A b \in Actor : InTransit(b)' =>
              /\ actor'[b].card \in taken'[actor'[b].run]
              /\ \A q \in Run : actor'[b].card \notin handed'[q]
        BY <2>5, <2>6, <3>1, <3>2, ActorTypes DEF CardInv, HandsApart
      <3> QED
        BY <3>1, <3>3 DEF CardInv, HandsApart
    <2> QED
      BY <2>8, <2>10, <2>11, <2>12, <2>13 DEF CardInv
  <1>6. CASE /\ Set(a, Failed([actor[a] EXCEPT !.out = "norestore", !.got.refill = TRUE]))
             /\ UNCHANGED env \/ Disturbed
             /\ UNCHANGED <<stock, taken>>
    <2> DEFINE mark == [actor[a].got EXCEPT !.refill = TRUE]
               y == [actor[a] EXCEPT !.out = "norestore", !.got = mark]
    <2>1. actor[a].got \in Proof
      BY <1>1 DEF ActorState
    <2>2. /\ mark \in Proof /\ mark.known = actor[a].got.known
          /\ mark.unsure = actor[a].got.unsure /\ mark.refill
      BY <2>1 DEF Proof
    <2>3. actor' = [actor EXCEPT ![a] = Failed(y)]
      BY <1>1, <1>6, <2>1 DEF Set, ActorState, Proof
    <2> HIDE DEF mark
    <2>4. /\ y \in ActorState /\ y.out = "norestore" /\ y.run = r /\ y.cur = actor[a].cur
          /\ y.replay = actor[a].replay /\ y.n = actor[a].n
          /\ y.proof = actor[a].proof /\ y.got = mark /\ y.todo = actor[a].todo
      BY <1>1, <2>2 DEF ActorState, Outcome
    <2> HIDE DEF y
    <2>5. Contents(y.got) = Contents(actor[a].got) /\ y.got.known = actor[a].got.known
      BY <2>2, <2>4 DEF Contents
    <2>6. Sound(Failed(y)) /\ ~(Failed(y).pc \in {"send", "restore"})
      BY <1>2, <2>2, <2>4, <2>5, FailedSound
    <2>7. UNCHANGED <<stock, history>>
      BY <1>6 DEF RestoreCard, history
    <2> QED
      BY <1>4, <1>6, <2>3, <2>6, <2>7, CardMoves
  <1> QED
    BY <1>5, <1>6 DEF RestoreCard

LEMMA CardCardsDone ==
    ASSUME CardInv, NEW a \in Actor, CardsDone(a)
    PROVE  CardInv'
  <1> DEFINE p == IF actor[a].replay THEN "save" ELSE "advance"
             x == [actor[a] EXCEPT !.pc = p]
  <1>1. actor[a] \in ActorState /\ actor[a].run \in Run /\ Sound(actor[a])
    BY ActorTypes
  <1>2. /\ actor[a].pc = "unit" /\ actor[a].got.unsure = {} /\ ~actor[a].got.refill
        /\ actor[a].out = "none" /\ Cardinality(actor[a].got.known) = actor[a].n
        /\ actor[a].replay \/ (actor[a].cur = 1 /\ ~actor[a].proof.refill)
        /\ actor[a].replay => /\ actor[a].got.known \cap Contents(actor[a].proof) = {}
                              /\ Contents(actor[a].proof) \cup actor[a].got.known
                                   \subseteq accepted[actor[a].run]
    BY <1>1 DEF CardsDone, In, Sound, SoundWith, Local, Confirmed, Resending, Taking, Acting
  <1>3. p \in Place /\ p = IF actor[a].replay THEN "save" ELSE "advance"
    BY DEF Place
  <1>4. /\ x \in ActorState /\ x.pc = p /\ x.run = actor[a].run /\ x.replay = actor[a].replay
        /\ x.cur = actor[a].cur /\ x.n = actor[a].n /\ x.out = actor[a].out
        /\ x.proof = actor[a].proof /\ x.got = actor[a].got /\ x.todo = actor[a].todo
    BY <1>1, <1>3, PcSet
  <1>5. actor' = [actor EXCEPT ![a] = x]
    BY DEF CardsDone, Goto, Set
  <1> HIDE DEF p, x
  <1>6. Local(x)
    BY <1>2, <1>3, <1>4 DEF Local, Resending, Taking, Acting
  <1>7. actor[a].replay =>
          Cardinality(Contents(actor[a].proof) \cup actor[a].got.known) >= Units
    <2> SUFFICES ASSUME actor[a].replay
                 PROVE  Cardinality(Contents(actor[a].proof) \cup actor[a].got.known) >= Units
      OBVIOUS
    <2> DEFINE S == Contents(actor[a].proof)
               T == actor[a].got.known
    <2>1. S \in SUBSET Card /\ T \in SUBSET Card /\ S \cap T = {}
      BY <1>1, <1>2 DEF ActorState, Proof, Contents
    <2>2. Cardinality(T) >= Units - Cardinality(S)
      BY <1>2 DEF CardsDone, Need, Missing
    <2> HIDE DEF S, T
    <2>3. /\ IsFiniteSet(S) /\ IsFiniteSet(T)
          /\ Cardinality(S) \in Nat /\ Cardinality(T) \in Nat
      BY <2>1, CardsFinite
    <2>4. Cardinality(S \cup T) = Cardinality(S) + Cardinality(T) - Cardinality(S \cap T)
      BY <2>3, FS_Union
    <2>5. Cardinality(S \cap T) = 0
      BY <2>1, FS_EmptySet
    <2>6. Cardinality(S \cup T) >= Units
      BY <2>2, <2>3, <2>4, <2>5, OrderAssumption
    <2> QED
      BY <2>6 DEF S, T
  <1>8. Confirmed(x, accepted[x.run])
    BY <1>2, <1>3, <1>4, <1>7 DEF Confirmed, Taking
  <1>9. Sound(x) /\ ~(x.pc \in {"send", "restore"})
    BY <1>1, <1>3, <1>4, <1>6, <1>8 DEF Sound, SoundWith
  <1>10. RowsSound /\ shipped' \in BOOLEAN
    BY RowsUnwritten DEF CardsDone, Unwritten, CardInv, TypeOK
  <1> QED
    BY <1>5, <1>9, <1>10, CardMoves DEF CardsDone

LEMMA CardConfirmShipment ==
    ASSUME CardInv, NEW a \in Actor, ConfirmShipment(a)
    PROVE  CardInv'
  <1>1. actor[a] \in ActorState /\ actor[a].run \in Run /\ Sound(actor[a])
    BY ActorTypes
  <1>2. /\ actor[a].pc = "confirming" /\ actor[a].cur = 2 /\ actor[a].n = 0
        /\ Empty(actor[a].got) /\ ~actor[a].replay /\ ~actor[a].proof.refill
        /\ actor[a].out = "none"
    BY <1>1 DEF ConfirmShipment, In, Sound, SoundWith, Local, Resending, Taking, Acting
  <1>3. RowsSound /\ UNCHANGED <<stock, history>>
    BY RowsUnwritten DEF ConfirmShipment, Unwritten
  <1>4. CASE shipped' = TRUE /\ Goto(a, "advance")
    <2> DEFINE x == [actor[a] EXCEPT !.pc = "advance"]
    <2>1. "advance" \in Place
      BY DEF Place
    <2>2. /\ x \in ActorState /\ x.pc = "advance" /\ x.run = actor[a].run
          /\ x.replay = actor[a].replay
          /\ x.cur = actor[a].cur /\ x.n = actor[a].n /\ x.out = actor[a].out
          /\ x.proof = actor[a].proof /\ x.got = actor[a].got /\ x.todo = actor[a].todo
      BY <1>1, <2>1, PcSet
    <2>3. actor' = [actor EXCEPT ![a] = x]
      BY <1>4 DEF Goto, Set
    <2> HIDE DEF x
    <2>4. Local(x) /\ Confirmed(x, accepted[x.run])
      BY <1>2, <2>2 DEF Local, Confirmed, Resending, Taking, Acting, Empty
    <2>5. Sound(x) /\ ~(x.pc \in {"send", "restore"})
      BY <1>1, <2>2, <2>4 DEF Sound, SoundWith
    <2> QED
      BY <1>3, <1>4, <2>3, <2>5, CardMoves DEF ConfirmShipment
  <1>5. CASE /\ \E out \in {"plain", "notsent", "uncertain"} :
                   Set(a, Failed([actor[a] EXCEPT !.out = out]))
             /\ UNCHANGED shipped
    <2>1. PICK out \in {"plain", "notsent", "uncertain"} :
             Set(a, Failed([actor[a] EXCEPT !.out = out]))
      BY <1>5
    <2> DEFINE y == [actor[a] EXCEPT !.out = out]
    <2>2. /\ y \in ActorState /\ y.out = out /\ y.run = actor[a].run /\ y.cur = actor[a].cur
          /\ y.replay = actor[a].replay /\ y.n = actor[a].n
          /\ y.proof = actor[a].proof /\ y.got = actor[a].got /\ y.todo = actor[a].todo
      BY <1>1 DEF ActorState, Outcome
    <2>3. actor' = [actor EXCEPT ![a] = Failed(y)]
      BY <2>1 DEF Set
    <2> HIDE DEF y
    <2>4. y.got.unsure = {} /\ ~y.got.refill
      BY <1>2, <2>2 DEF Empty, Contents
    <2>5. Contents(y.proof) \cup Contents(y.got) \cup y.todo \subseteq handed[y.run]
      BY <1>1, <2>2 DEF Sound, SoundWith
    <2>6. Sound(Failed(y)) /\ ~(Failed(y).pc \in {"send", "restore"})
      BY <1>2, <2>2, <2>4, <2>5, FailedSound
    <2>7. shipped' \in BOOLEAN
      BY <1>5 DEF CardInv, TypeOK
    <2> QED
      BY <1>3, <2>3, <2>6, <2>7, CardMoves DEF ConfirmShipment
  <1> QED
    BY <1>4, <1>5 DEF ConfirmShipment

\* The proof that an execution writes: what it read and what it has done since.
LEMMA MergeIs ==
    ASSUME NEW p \in Proof, NEW q \in Proof
    PROVE  /\ Merge(p, q) \in Proof /\ Contents(Merge(p, q)) = Contents(p) \cup Contents(q)
           /\ Merge(p, q).known = p.known \cup q.known
           /\ (Merge(p, q).refill <=> (p.refill \/ q.refill))
           /\ Stored(p) \in Proof /\ Contents(Stored(p)) = Contents(p)
           /\ Stored(p).known = p.known /\ Stored(p).refill = p.refill
  <1>1. Merge(p, q) \in Proof
    BY DEF Merge, Proof
  <1>2. /\ Contents(Merge(p, q)) = Contents(p) \cup Contents(q)
        /\ Merge(p, q).known = p.known \cup q.known
        /\ (Merge(p, q).refill <=> (p.refill \/ q.refill))
    BY DEF Merge, Contents
  <1> DEFINE raw == p.raw \/ p.refill \/ Present(p)
  <1>3. raw \in BOOLEAN
    OBVIOUS
  <1>4. Stored(p) = [p EXCEPT !.raw = raw]
    BY DEF Stored, Proof
  <1> HIDE DEF raw
  <1>5. /\ Stored(p) \in Proof /\ Stored(p).known = p.known /\ Stored(p).unsure = p.unsure
        /\ Stored(p).refill = p.refill
    BY <1>3, <1>4 DEF Proof
  <1>6. Contents(Stored(p)) = Contents(p)
    BY <1>5 DEF Contents
  <1> QED
    BY <1>1, <1>2, <1>5, <1>6

\* The record with which the next action begins.
Begins(x, a, p) ==
    /\ x \in ActorState /\ x.pc = "ready" /\ x.run = actor[a].run
    /\ x.att = actor[a].att /\ x.cur = actor[a].cur + 1 /\ x.n = 0
    /\ x.replay = actor[a].replay /\ x.proof = p /\ x.got = NoProof /\ x.out = "none"
    /\ x.todo = actor[a].todo

\* The fields of an execution, their sets by name: a record is shown to be one without looking into them.
CardNumber == 0 .. Supply

LEMMA ActorSet ==
    /\ ActorState = [pc : Place, run : Run, att : Nat, cur : 1 .. 3, sent : Nat, n : Nat, card : CardNumber,
                     replay : BOOLEAN, proof : Proof, got : Proof, out : Outcome, lost : BOOLEAN,
                     todo : SUBSET Card, unsafe : BOOLEAN]
    /\ "ready" \in Place /\ 0 \in CardNumber /\ "none" \in Outcome
  BY OrderAssumption DEF ActorState, Place, CardNumber, Outcome

LEMMA NextIs ==
    ASSUME NEW a \in Actor, actor[a] \in ActorState, actor[a].cur \in {1, 2}, NEW p \in Proof
    PROVE  /\ Begins(NextAction(a, p), a, p)
           /\ Begins([NextAction(a, p) EXCEPT !.unsafe = TRUE], a, p)
  <1> DEFINE cur == actor[a].cur + 1
             sent == actor[a].sent + actor[a].n
             m == [actor[a] EXCEPT !.pc = "ready", !.cur = cur, !.sent = sent, !.n = 0]
             k == [m EXCEPT !.card = 0, !.proof = p, !.got = NoProof]
             x == [k EXCEPT !.out = "none", !.lost = FALSE]
             y == [x EXCEPT !.unsafe = TRUE]
  <1>1. cur \in 1 .. 3 /\ sent \in Nat /\ 0 \in 0 .. Supply
    BY OrderAssumption DEF ActorState
  <1>2. NextAction(a, p) = x
    BY DEF NextAction, ActorState
  <1> HIDE DEF cur, sent
  <1>3. /\ m \in ActorState /\ m.pc = "ready" /\ m.run = actor[a].run /\ m.att = actor[a].att
        /\ m.cur = cur /\ m.n = 0 /\ m.replay = actor[a].replay /\ m.todo = actor[a].todo
    <2>1. m \in ActorState
      BY <1>1, ActorSet
    <2> QED
      BY <2>1 DEF ActorState
  <1> HIDE DEF m
  <1>4. /\ k \in ActorState /\ k.pc = "ready" /\ k.run = actor[a].run
        /\ k.att = actor[a].att /\ k.cur = cur /\ k.n = 0
        /\ k.replay = actor[a].replay /\ k.proof = p /\ k.got = NoProof
        /\ k.todo = actor[a].todo
    <2>1. k \in ActorState
      BY <1>3, EmptyProof, ActorSet
    <2> QED
      BY <1>3, <2>1 DEF ActorState
  <1> HIDE DEF k
  <1>5. /\ x \in ActorState /\ x.pc = "ready" /\ x.run = actor[a].run
        /\ x.att = actor[a].att /\ x.cur = cur /\ x.n = 0
        /\ x.replay = actor[a].replay /\ x.proof = p /\ x.got = NoProof /\ x.out = "none"
        /\ x.todo = actor[a].todo
    <2>1. x \in ActorState
      BY <1>4, ActorSet
    <2> QED
      BY <1>4, <2>1 DEF ActorState
  <1> HIDE DEF x
  <1>6. /\ y \in ActorState /\ y.pc = "ready" /\ y.run = actor[a].run
        /\ y.att = actor[a].att /\ y.cur = cur /\ y.n = 0
        /\ y.replay = actor[a].replay /\ y.proof = p /\ y.got = NoProof /\ y.out = "none"
        /\ y.todo = actor[a].todo
    <2>1. y \in ActorState
      BY <1>5, ActorSet
    <2> QED
      BY <1>5, <2>1 DEF ActorState
  <1> QED
    BY <1>2, <1>5, <1>6 DEF cur, Begins

LEMMA NextSound ==
    ASSUME CardInv, NEW a \in Actor, NEW p \in Proof, NEW x, Begins(x, a, p),
           ~actor[a].replay, ~p.refill,
           Contents(p) \subseteq Contents(actor[a].proof) \cup Contents(actor[a].got)
    PROVE  Sound(x) /\ ~(x.pc \in {"send", "restore"})
  <1>1. Sound(actor[a])
    BY ActorTypes
  <1>2. Local(x) /\ Confirmed(x, accepted[x.run])
    BY EmptyProof DEF Begins, Local, Confirmed, Resending, Taking, Acting
  <1> QED
    BY <1>1, <1>2, EmptyProof DEF Begins, Sound, SoundWith

\* The row of an action that is recorded.
LEMMA AdvancedIs ==
    ASSUME CardInv, NEW a \in Actor, NEW p \in Proof, Advanced(a, p), Mine(a).cursor \in {1, 2}
    PROVE  \E row \in RunRow :
              /\ Write(actor[a].run, row) /\ row.proof = p /\ row.cursor = Mine(a).cursor + 1
              /\ row.attempt = Mine(a).attempt /\ row.status = Mine(a).status /\ ~row.started
              /\ row.leased = Mine(a).leased
  <1> DEFINE cursor == Mine(a).cursor + 1
             sent == Mine(a).sent + actor[a].n
             row == [Mine(a) EXCEPT !.cursor = cursor, !.started = FALSE, !.sent = sent,
                                    !.proof = p]
  <1>1. actor[a] \in ActorState /\ Mine(a) \in RunRow
    BY ActorTypes
  <1>2. cursor \in 1 .. 3 /\ sent \in Nat
    BY <1>1 DEF RunRow, ActorState
  <1>3. Write(actor[a].run, row)
    BY <1>1 DEF Advanced, RunRow
  <1> HIDE DEF cursor, sent
  <1>4. /\ row \in RunRow /\ row.proof = p /\ row.cursor = cursor
        /\ row.attempt = Mine(a).attempt /\ row.status = Mine(a).status /\ ~row.started
        /\ row.leased = Mine(a).leased
    BY <1>1, <1>2 DEF RunRow
  <1> HIDE DEF row
  <1> QED
    BY <1>3, <1>4 DEF cursor

LEMMA CardAdvanceRunAction ==
    ASSUME CardInv, NEW a \in Actor, AdvanceRunAction(a)
    PROVE  CardInv'
  <1> DEFINE p == Merge(actor[a].proof, actor[a].got)
  <1>1. actor[a] \in ActorState /\ actor[a].run \in Run /\ Mine(a) \in RunRow /\ Sound(actor[a])
    BY ActorTypes
  <1>2. /\ actor[a].pc = "advance" /\ actor[a].cur \in {1, 2} /\ ~actor[a].got.refill
        /\ ~actor[a].replay /\ ~actor[a].proof.refill
        /\ actor[a].proof \in Proof /\ actor[a].got \in Proof
    BY <1>1 DEF AdvanceRunAction, In, Sound, SoundWith, Local, Resending, Taking, Acting, ActorState
  <1>3. UNCHANGED <<stock, history>> /\ shipped' \in BOOLEAN
    BY DEF AdvanceRunAction, CardInv, TypeOK
  <1>4. CASE /\ HoldsAction(a) /\ Mine(a).cursor = actor[a].cur /\ Advanced(a, p)
             /\ Set(a, NextAction(a, p)) /\ UNCHANGED env
    <2>1. /\ p \in Proof /\ ~p.refill
          /\ Contents(p) = Contents(actor[a].proof) \cup Contents(actor[a].got)
      BY <1>2, MergeIs
    <2> HIDE DEF p
    <2>2. PICK row \in RunRow : Write(actor[a].run, row) /\ row.proof = p
      BY <1>2, <1>4, <2>1, AdvancedIs
    <2>3. RowsSound
      BY <2>1, <2>2, OwnRow
    <2> DEFINE x == NextAction(a, p)
    <2>4. Sound(x) /\ ~(x.pc \in {"send", "restore"})
      <3>1. Begins(x, a, p)
        BY <1>1, <1>2, <2>1, NextIs
      <3> HIDE DEF x
      <3> QED
        BY <1>2, <2>1, <3>1, NextSound
    <2>5. actor' = [actor EXCEPT ![a] = x]
      BY <1>4 DEF Set
    <2> HIDE DEF x
    <2> QED
      BY <1>3, <1>4, <2>3, <2>4, <2>5, CardMoves
  <1>5. CASE /\ UNCHANGED env \/ Disturbed
             /\ Goto(a, "quarantine") /\ Unwritten
    BY <1>2, <1>3, <1>5, StopSound, RowsUnwritten, CardMoves DEF Goto, Set
  <1> QED
    BY <1>4, <1>5 DEF AdvanceRunAction

LEMMA CardQuarantineRun ==
    ASSUME CardInv, NEW a \in Actor, QuarantineRun(a)
    PROVE  CardInv'
  <1>1. actor[a].run \in Run /\ actor[a] \in ActorState
    BY ActorTypes
  <1>2. RowsSound
    <2>1. CASE Unwritten
      BY <2>1, RowsUnwritten
    <2>2. CASE Write(actor[a].run,
                     [UnderReview(actor[a].run) EXCEPT
                         !.sent = IF In(a, "review") THEN actor[a].sent ELSE @])
      <3> DEFINE row == [UnderReview(actor[a].run) EXCEPT
                            !.sent = IF In(a, "review") THEN actor[a].sent ELSE @]
      <3>1. row \in RunRow /\ row.proof = runs[actor[a].run].proof
        BY <1>1, RowStates DEF RunRow, ActorState
      <3> HIDE DEF row
      <3>2. Write(actor[a].run, row)
        BY <2>2 DEF row
      <3> QED
        BY <1>1, <3>1, <3>2, RowKeepsProof
    <2> QED
      BY <2>1, <2>2 DEF QuarantineRun
  <1>3. shipped' \in BOOLEAN /\ UNCHANGED <<stock, history>> /\ (Disturbed \/ UNCHANGED env)
        /\ actor' = [actor EXCEPT ![a] = IdleActor]
    BY DEF QuarantineRun, Set, CardInv, TypeOK
  <1> QED
    BY <1>2, <1>3, IdleSound, CardMoves DEF IdleActor

LEMMA CardSettleUnsure ==
    ASSUME CardInv, NEW a \in Actor, SettleUnsure(a)
    PROVE  CardInv'
  <1> DEFINE m == Merge(actor[a].proof, actor[a].got)
             p == Stored(m)
             total == actor[a].sent + actor[a].n
  <1>1. actor[a] \in ActorState /\ actor[a].run \in Run /\ Mine(a) \in RunRow /\ Sound(actor[a])
    BY ActorTypes
  <1>2. /\ actor[a].pc = "unsure" /\ actor[a].cur \in {1, 2}
        /\ (actor[a].got.refill <=> actor[a].out = "norestore")
        /\ ~actor[a].replay /\ ~actor[a].proof.refill
        /\ actor[a].proof \in Proof /\ actor[a].got \in Proof
    BY <1>1 DEF SettleUnsure, In, Sound, SoundWith, Local, Resending, Taking, Acting, ActorState
  <1>3. UNCHANGED <<stock, history>> /\ shipped' \in BOOLEAN
    BY DEF SettleUnsure, CardInv, TypeOK
  <1>4. /\ m \in Proof /\ (m.refill <=> actor[a].out = "norestore")
        /\ Contents(m) = Contents(actor[a].proof) \cup Contents(actor[a].got)
    BY <1>2, MergeIs
  <1> HIDE DEF m
  <1>5. /\ p \in Proof /\ (p.refill <=> actor[a].out = "norestore")
        /\ Contents(p) = Contents(actor[a].proof) \cup Contents(actor[a].got)
    BY <1>4, MergeIs
  <1>6. total \in Nat
    BY <1>1 DEF ActorState
  <1>7. \/ /\ actor[a].cur = 1 /\ actor[a].out \in {"plain", "uncertain"}
           /\ HoldsAction(a) /\ Mine(a).cursor = actor[a].cur /\ Advanced(a, p)
           /\ Set(a, [NextAction(a, p) EXCEPT !.unsafe = TRUE]) /\ UNCHANGED env
        \/ /\ Write(actor[a].run, [UnderReview(actor[a].run) EXCEPT !.sent = total, !.proof = p])
           /\ Set(a, IdleActor) /\ UNCHANGED env
        \/ /\ UNCHANGED env \/ Disturbed
           /\ Set(a, IdleActor) /\ Unwritten
    BY DEF SettleUnsure, m
  <1> HIDE DEF p, total
  <1>8. CASE /\ actor[a].cur = 1 /\ actor[a].out \in {"plain", "uncertain"}
             /\ HoldsAction(a) /\ Mine(a).cursor = actor[a].cur /\ Advanced(a, p)
             /\ Set(a, [NextAction(a, p) EXCEPT !.unsafe = TRUE]) /\ UNCHANGED env
    <2>1. PICK row \in RunRow : Write(actor[a].run, row) /\ row.proof = p
      BY <1>2, <1>5, <1>8, AdvancedIs
    <2>2. RowsSound
      BY <1>5, <2>1, OwnRow
    <2> DEFINE x == [NextAction(a, p) EXCEPT !.unsafe = TRUE]
    <2>3. Sound(x) /\ ~(x.pc \in {"send", "restore"})
      <3>1. Begins(x, a, p)
        BY <1>1, <1>2, <1>5, NextIs
      <3> HIDE DEF x
      <3> QED
        BY <1>2, <1>5, <1>8, <3>1, NextSound
    <2>4. actor' = [actor EXCEPT ![a] = x]
      BY <1>8 DEF Set
    <2> HIDE DEF x
    <2> QED
      BY <1>3, <1>8, <2>2, <2>3, <2>4, CardMoves
  <1>9. CASE /\ Write(actor[a].run, [UnderReview(actor[a].run) EXCEPT !.sent = total, !.proof = p])
             /\ Set(a, IdleActor) /\ UNCHANGED env
    <2> DEFINE row == [UnderReview(actor[a].run) EXCEPT !.sent = total, !.proof = p]
    <2>1. row \in RunRow /\ row.proof = p
      BY <1>1, <1>5, <1>6, RowStates DEF RunRow
    <2>2. Write(actor[a].run, row)
      BY <1>9
    <2> HIDE DEF row
    <2>3. RowsSound
      BY <1>5, <2>1, <2>2, OwnRow
    <2> QED
      BY <1>3, <1>9, <2>3, IdleSound, CardMoves DEF IdleActor, Set
  <1>10. CASE (UNCHANGED env \/ Disturbed) /\ Set(a, IdleActor) /\ Unwritten
    BY <1>3, <1>10, RowsUnwritten, IdleSound, CardMoves DEF IdleActor, Set
  <1> QED
    BY <1>7, <1>8, <1>9, <1>10

LEMMA CardAbortRunAction ==
    ASSUME CardInv, NEW a \in Actor, AbortRunAction(a)
    PROVE  CardInv'
  <1>1. actor[a].run \in Run /\ Mine(a) \in RunRow /\ Sound(actor[a]) /\ ~actor[a].replay
    BY ActorTypes DEF AbortRunAction, In, Sound, SoundWith, Local, Resending, Taking
  <1>2. RowsSound
    <2>1. CASE Unwritten
      BY <2>1, RowsUnwritten
    <2>2. CASE Write(actor[a].run, [Mine(a) EXCEPT !.started = FALSE])
      <3>1. /\ [Mine(a) EXCEPT !.started = FALSE] \in RunRow
            /\ [Mine(a) EXCEPT !.started = FALSE].proof = runs[actor[a].run].proof
        BY <1>1 DEF RunRow, Mine
      <3> QED
        BY <1>1, <2>2, <3>1, RowKeepsProof
    <2> QED
      BY <2>1, <2>2 DEF AbortRunAction
  <1>3. shipped' \in BOOLEAN /\ UNCHANGED <<stock, history>> /\ (Disturbed \/ UNCHANGED env)
    BY DEF AbortRunAction, CardInv, TypeOK
  <1>4. \E p \in {"fail", "quarantine"} : actor' = [actor EXCEPT ![a] = [actor[a] EXCEPT !.pc = p]]
    BY DEF AbortRunAction, Goto, Set
  <1> QED
    BY <1>1, <1>2, <1>3, <1>4, StopSound, CardMoves

LEMMA CardFinishFailed ==
    ASSUME CardInv, NEW a \in Actor, FinishFailed(a)
    PROVE  CardInv'
  <1>1. /\ actor[a] \in ActorState /\ actor[a].run \in Run /\ Mine(a) \in RunRow
        /\ Sound(actor[a]) /\ ~actor[a].replay
    BY ActorTypes DEF FinishFailed, In, Sound, SoundWith, Local, Resending, Taking
  <1> DEFINE err == IF actor[a].out = "notsent" /\ ~(actor[a].run = "manual") THEN "safe_retry"
                    ELSE "plain"
             row == [Mine(a) EXCEPT !.status = "failed", !.leased = FALSE,
                                    !.sent = actor[a].sent, !.err = err]
  <1>2. RowsSound
    <2>1. CASE Unwritten
      BY <2>1, RowsUnwritten
    <2>2. CASE Write(actor[a].run, row)
      <3>1. err \in {"safe_retry", "plain"} /\ actor[a].sent \in Nat
        BY <1>1 DEF ActorState
      <3> HIDE DEF err
      <3> DEFINE m == [Mine(a) EXCEPT !.status = "failed", !.leased = FALSE]
      <3>2. m \in RunRow /\ m.proof = runs[actor[a].run].proof
        BY <1>1 DEF RunRow, Mine
      <3>3. row = [m EXCEPT !.sent = actor[a].sent, !.err = err]
        BY <1>1 DEF RunRow
      <3> HIDE DEF m, row
      <3>4. row \in RunRow /\ row.proof = runs[actor[a].run].proof
        BY <3>1, <3>2, <3>3 DEF RunRow
      <3> QED
        BY <1>1, <2>2, <3>4, RowKeepsProof
    <2> QED
      BY <2>1, <2>2 DEF FinishFailed
  <1>3. shipped' \in BOOLEAN /\ UNCHANGED <<stock, history>> /\ (Disturbed \/ UNCHANGED env)
    BY DEF FinishFailed, CardInv, TypeOK
  <1>4. \/ actor' = [actor EXCEPT ![a] = [actor[a] EXCEPT !.pc = "review"]]
        \/ actor' = [actor EXCEPT ![a] = IdleActor]
    BY DEF FinishFailed, Goto, Set
  <1>5. CASE actor' = [actor EXCEPT ![a] = [actor[a] EXCEPT !.pc = "review"]]
    BY <1>1, <1>2, <1>3, <1>5, StopSound, CardMoves
  <1>6. CASE actor' = [actor EXCEPT ![a] = IdleActor]
    BY <1>2, <1>3, <1>6, IdleSound, CardMoves DEF IdleActor
  <1> QED
    BY <1>4, <1>5, <1>6

LEMMA CardFinishRun ==
    ASSUME CardInv, NEW a \in Actor, FinishRun(a)
    PROVE  CardInv'
  <1>1. /\ actor[a] \in ActorState /\ actor[a].run \in Run /\ Mine(a) \in RunRow
        /\ Sound(actor[a]) /\ ~actor[a].replay
    BY ActorTypes DEF FinishRun, In, Sound, SoundWith, Local, Resending, Taking
  <1> DEFINE row == [Mine(a) EXCEPT !.status = "success", !.leased = FALSE,
                                    !.err = "none", !.sent = actor[a].sent]
  <1>2. RowsSound
    <2>1. CASE Unwritten
      BY <2>1, RowsUnwritten
    <2>2. CASE Write(actor[a].run, row)
      <3>1. actor[a].sent \in Nat
        BY <1>1 DEF ActorState
      <3> DEFINE m == [Mine(a) EXCEPT !.status = "success", !.leased = FALSE]
      <3>2. m \in RunRow /\ m.proof = runs[actor[a].run].proof
        BY <1>1 DEF RunRow, Mine
      <3>3. row = [m EXCEPT !.sent = actor[a].sent, !.err = "none"]
        BY <1>1 DEF RunRow
      <3> HIDE DEF m, row
      <3>4. row \in RunRow /\ row.proof = runs[actor[a].run].proof
        BY <3>1, <3>2, <3>3 DEF RunRow
      <3> QED
        BY <1>1, <2>2, <3>4, RowKeepsProof
    <2> QED
      BY <2>1, <2>2 DEF FinishRun
  <1>3. shipped' \in BOOLEAN /\ UNCHANGED <<stock, history>> /\ (Disturbed \/ UNCHANGED env)
    BY DEF FinishRun, CardInv, TypeOK
  <1>4. \/ actor' = [actor EXCEPT ![a] = [actor[a] EXCEPT !.pc = "review"]]
        \/ actor' = [actor EXCEPT ![a] = IdleActor]
    BY DEF FinishRun, Goto, Set
  <1>5. CASE actor' = [actor EXCEPT ![a] = [actor[a] EXCEPT !.pc = "review"]]
    BY <1>1, <1>2, <1>3, <1>5, StopSound, CardMoves
  <1>6. CASE actor' = [actor EXCEPT ![a] = IdleActor]
    BY <1>2, <1>3, <1>6, IdleSound, CardMoves DEF IdleActor
  <1> QED
    BY <1>4, <1>5, <1>6

LEMMA CardClaimDeliveryReplay ==
    ASSUME CardInv, NEW a \in Actor, ClaimDeliveryReplay(a)
    PROVE  CardInv'
  <1>1. /\ actor[a] \in ActorState /\ actor[a].run \in Run /\ Mine(a) \in RunRow
        /\ Sound(actor[a])
    BY ActorTypes
  <1>2. /\ actor[a].pc = "claim" /\ actor[a].n = 0 /\ Empty(actor[a].got)
        /\ actor[a].out = "none" /\ actor[a].todo = Contents(actor[a].proof)
    BY <1>1 DEF ClaimDeliveryReplay, In, Sound, SoundWith, Local
  <1>3. shipped' \in BOOLEAN /\ UNCHANGED <<stock, history>> /\ UNCHANGED env
    BY DEF ClaimDeliveryReplay, CardInv, TypeOK
  <1>4. CASE /\ Write(actor[a].run, [Mine(a) EXCEPT !.status = "running", !.attempt = @ + 1,
                                                    !.started = TRUE, !.leased = TRUE])
             /\ Set(a, [actor[a] EXCEPT !.pc = "resend", !.att = @ + 1, !.replay = TRUE])
    <2> DEFINE attempt == Mine(a).attempt + 1
               att == actor[a].att + 1
               m == [Mine(a) EXCEPT !.status = "running", !.attempt = attempt]
               row == [m EXCEPT !.started = TRUE, !.leased = TRUE]
               x == [actor[a] EXCEPT !.pc = "resend", !.att = att, !.replay = TRUE]
    <2>1. attempt \in Nat /\ att \in Nat
      BY <1>1 DEF RunRow, ActorState
    <2>2. Write(actor[a].run, row) /\ actor' = [actor EXCEPT ![a] = x]
      BY <1>1, <1>4 DEF Set, RunRow, ActorState
    <2> HIDE DEF attempt, att
    <2>3. m \in RunRow /\ m.proof = runs[actor[a].run].proof
      BY <1>1, <2>1 DEF RunRow, Mine
    <2> HIDE DEF m
    <2>4. row \in RunRow /\ row.proof = runs[actor[a].run].proof
      BY <2>3 DEF RunRow
    <2>5. /\ x \in ActorState /\ x.pc = "resend" /\ x.run = actor[a].run /\ x.replay
          /\ x.n = actor[a].n /\ x.out = actor[a].out
          /\ x.proof = actor[a].proof /\ x.got = actor[a].got /\ x.todo = actor[a].todo
      BY <1>1, <2>1 DEF ActorState
    <2> HIDE DEF x, row
    <2>6. Local(x) /\ Confirmed(x, accepted[x.run])
      BY <1>2, <2>5 DEF Local, Confirmed, Resending, Taking, Acting, Empty, Contents
    <2>7. Sound(x)
      BY <1>1, <2>5, <2>6 DEF Sound, SoundWith
    <2>8. RowsSound
      BY <1>1, <2>2, <2>4, RowKeepsProof
    <2> QED
      BY <1>3, <2>2, <2>5, <2>7, <2>8, CardMoves
  <1>5. CASE Set(a, IdleActor) /\ Unwritten
    BY <1>3, <1>5, RowsUnwritten, IdleSound, CardMoves DEF IdleActor, Set
  <1> QED
    BY <1>4, <1>5 DEF ClaimDeliveryReplay

LEMMA CardResendMessage ==
    ASSUME CardInv, NEW a \in Actor, ResendMessage(a)
    PROVE  CardInv'
  <1> DEFINE r == actor[a].run
  <1>1. actor[a] \in ActorState /\ r \in Run /\ Sound(actor[a])
    BY ActorTypes
  <1>2. /\ actor[a].pc = "resend" /\ actor[a].n = 0 /\ Empty(actor[a].got)
        /\ actor[a].out = "none" /\ actor[a].todo \subseteq Contents(actor[a].proof)
        /\ actor[a].replay /\ Contents(actor[a].proof) \ actor[a].todo \subseteq accepted[r]
    BY <1>1 DEF ResendMessage, In, Sound, SoundWith, Local, Confirmed, Resending
  <1>3. shipped' \in BOOLEAN /\ UNCHANGED <<stock, taken, runs, latest, env>> /\ RowsSound
    BY RowsUnwritten DEF ResendMessage, Unwritten, CardInv, TypeOK
  <1>4. CASE /\ actor[a].todo # {} /\ Executing(a)
             /\ LET c == CHOOSE x \in actor[a].todo : TRUE
                IN /\ handed' = [handed EXCEPT ![r] = @ \cup {c}]
                   /\ accepted' = [accepted EXCEPT ![r] = @ \cup {c}]
                   /\ Set(a, [actor[a] EXCEPT !.todo = @ \ {c}])
    <2>1. PICK c \in actor[a].todo : /\ handed' = [handed EXCEPT ![r] = @ \cup {c}]
                                     /\ accepted' = [accepted EXCEPT ![r] = @ \cup {c}]
                                     /\ Set(a, [actor[a] EXCEPT !.todo = @ \ {c}])
      BY <1>4
    <2> DEFINE todo == actor[a].todo \ {c}
               x == [actor[a] EXCEPT !.todo = todo]
    <2>2. c \in handed[r] /\ c \in Card /\ c \in taken[r] /\ todo \in SUBSET Card
      BY <1>1, <2>1 DEF Sound, SoundWith, CardInv, KnownHanded, TypeOK, ActorState
    <2>3. actor' = [actor EXCEPT ![a] = x]
      BY <1>1, <2>1 DEF Set, ActorState
    <2> HIDE DEF todo
    <2>4. /\ x \in ActorState /\ x.pc = "resend" /\ x.run = r /\ x.replay = actor[a].replay
          /\ x.n = actor[a].n /\ x.out = actor[a].out
          /\ x.proof = actor[a].proof /\ x.got = actor[a].got /\ x.todo = todo
      BY <1>1, <1>2, <2>2 DEF ActorState
    <2> HIDE DEF x
    <2>5. Local(x)
      BY <1>2, <2>4 DEF Local, Resending, Taking, Acting, Empty, Contents, todo
    <2>6. accepted'[r] = accepted[r] \cup {c} /\ handed'[r] = handed[r] \cup {c}
      BY <1>1, <2>1 DEF CardInv, TypeOK
    <2>7. Confirmed(x, accepted'[r])
      BY <1>2, <2>4, <2>6 DEF Confirmed, Taking, todo
    <2>8. SoundWith(x, handed'[r], accepted'[r])
      BY <1>1, <2>4, <2>5, <2>6, <2>7 DEF Sound, SoundWith, todo
    <2> QED
      BY <1>1, <1>3, <2>1, <2>2, <2>3, <2>4, <2>8, CardHanded DEF ResendMessage
  <1>5. CASE /\ actor[a].todo = {}
             /\ Goto(a, IF Missing(actor[a].proof) > 0 THEN "mark" ELSE "consign")
             /\ UNCHANGED <<handed, accepted>>
    <2> DEFINE p == IF Missing(actor[a].proof) > 0 THEN "mark" ELSE "consign"
               x == [actor[a] EXCEPT !.pc = p]
    <2>1. p \in Place
      BY DEF Place
    <2>2. p \in {"mark", "consign"}
      OBVIOUS
    <2>3. p = "consign" => Cardinality(accepted[r]) >= Units
      <3> SUFFICES ASSUME p = "consign" PROVE Cardinality(accepted[r]) >= Units
        OBVIOUS
      <3>1. Contents(actor[a].proof) \subseteq accepted[r] /\ accepted[r] \in SUBSET Card
        BY <1>1, <1>2, <1>5 DEF CardInv, TypeOK
      <3>2. Contents(actor[a].proof) \in SUBSET Card
        BY <3>1
      <3>3. Cardinality(Contents(actor[a].proof)) <= Cardinality(accepted[r])
        BY <3>1, CardsFinite, FS_Subset
      <3>4. ~(Missing(actor[a].proof) > 0)
        OBVIOUS
      <3> QED
        BY <3>1, <3>2, <3>3, <3>4, CardsFinite, OrderAssumption DEF Missing
    <2>4. /\ x \in ActorState /\ x.pc = p /\ x.run = r /\ x.replay = actor[a].replay
          /\ x.n = actor[a].n /\ x.out = actor[a].out
          /\ x.proof = actor[a].proof /\ x.got = actor[a].got /\ x.todo = actor[a].todo
      BY <1>1, <2>1, PcSet
    <2>5. actor' = [actor EXCEPT ![a] = x]
      BY <1>5 DEF Goto, Set
    <2> HIDE DEF p, x
    <2>6. Local(x)
      BY <1>2, <2>2, <2>4 DEF Local, Resending, Taking, Acting, Empty, Contents
    <2>7. Confirmed(x, accepted[x.run])
      BY <1>2, <1>5, <2>2, <2>3, <2>4 DEF Confirmed, Taking, Empty, Contents
    <2>8. Sound(x) /\ ~(x.pc \in {"send", "restore"})
      BY <1>1, <2>2, <2>4, <2>6, <2>7 DEF Sound, SoundWith
    <2> QED
      BY <1>3, <1>5, <2>5, <2>8, CardMoves DEF history
  <1>6. CASE /\ actor[a].todo # {} /\ Goto(a, "release")
             /\ UNCHANGED <<handed, accepted>>
    BY <1>2, <1>3, <1>6, StopSound, CardMoves DEF history, Goto, Set
  <1> QED
    BY <1>4, <1>5, <1>6 DEF ResendMessage

LEMMA CardMarkRefill ==
    ASSUME CardInv, NEW a \in Actor, MarkRefill(a)
    PROVE  CardInv'
  <1> DEFINE p == [actor[a].proof EXCEPT !.refill = TRUE]
             row == [Mine(a) EXCEPT !.proof = p]
  <1>1. /\ actor[a] \in ActorState /\ actor[a].run \in Run /\ Mine(a) \in RunRow
        /\ Sound(actor[a]) /\ actor[a].proof \in Proof
    BY ActorTypes DEF ActorState
  <1>2. /\ actor[a].pc = "mark" /\ actor[a].n = 0 /\ Empty(actor[a].got)
        /\ actor[a].out = "none" /\ actor[a].replay
        /\ Contents(actor[a].proof) \cup actor[a].got.known \subseteq accepted[actor[a].run]
    BY <1>1 DEF MarkRefill, In, Sound, SoundWith, Local, Confirmed, Resending
  <1>3. UNCHANGED <<stock, history>> /\ shipped' \in BOOLEAN
    BY DEF MarkRefill, CardInv, TypeOK
  <1>4. CASE Write(actor[a].run, row) /\ Goto(a, "unit") /\ UNCHANGED env
    <2>1. p \in Proof /\ Contents(p) = Contents(actor[a].proof)
      BY <1>1 DEF Proof, Contents
    <2> HIDE DEF p
    <2>2. row \in RunRow /\ row.proof = p
      BY <1>1, <2>1 DEF RunRow
    <2> HIDE DEF row
    <2>3. RowsSound
      BY <1>4, <2>1, <2>2, OwnRow
    <2> DEFINE x == [actor[a] EXCEPT !.pc = "unit"]
    <2>4. "unit" \in Place
      BY DEF Place
    <2>5. /\ x \in ActorState /\ x.pc = "unit" /\ x.run = actor[a].run /\ x.replay = actor[a].replay
          /\ x.n = actor[a].n /\ x.out = actor[a].out
          /\ x.proof = actor[a].proof /\ x.got = actor[a].got /\ x.todo = actor[a].todo
      BY <1>1, <2>4, PcSet
    <2>6. actor' = [actor EXCEPT ![a] = x]
      BY <1>4 DEF Goto, Set
    <2> HIDE DEF x
    <2>7. x.got.known = {} /\ x.got.unsure = {} /\ Cardinality(x.got.known) = 0
      BY <1>2, <2>5, FS_EmptySet DEF Empty, Contents
    <2>8. Local(x) /\ Confirmed(x, accepted[x.run])
      BY <1>2, <2>5, <2>7 DEF Local, Confirmed, Resending, Taking, Acting, Empty
    <2>9. Sound(x) /\ ~(x.pc \in {"send", "restore"})
      BY <1>1, <2>5, <2>8 DEF Sound, SoundWith
    <2> QED
      BY <1>3, <1>4, <2>3, <2>6, <2>9, CardMoves
  <1>5. CASE (UNCHANGED env \/ Disturbed) /\ Goto(a, "release") /\ Unwritten
    BY <1>2, <1>3, <1>5, StopSound, RowsUnwritten, CardMoves DEF Goto, Set
  <1> QED
    BY <1>4, <1>5 DEF MarkRefill

LEMMA CardSaveRefill ==
    ASSUME CardInv, NEW a \in Actor, SaveRefill(a)
    PROVE  CardInv'
  <1> DEFINE m == Merge(actor[a].proof, actor[a].got)
             mark == (actor[a].out = "norestore")
             p == [m EXCEPT !.refill = mark]
             row == [Mine(a) EXCEPT !.proof = p]
             pc == IF actor[a].out = "none" THEN "consign" ELSE "release"
             x == [actor[a] EXCEPT !.pc = pc, !.proof = p, !.got = NoProof]
  <1>1. /\ actor[a] \in ActorState /\ actor[a].run \in Run /\ Mine(a) \in RunRow
        /\ Sound(actor[a]) /\ actor[a].proof \in Proof /\ actor[a].got \in Proof
    BY ActorTypes DEF ActorState
  <1>2. /\ actor[a].pc = "save" /\ actor[a].replay
        /\ Contents(actor[a].proof) \cup actor[a].got.known \subseteq accepted[actor[a].run]
        /\ actor[a].out = "none" =>
             Cardinality(Contents(actor[a].proof) \cup actor[a].got.known) >= Units
    BY <1>1 DEF SaveRefill, In, Sound, SoundWith, Local, Confirmed, Resending
  <1>3. UNCHANGED <<stock, history>> /\ shipped' \in BOOLEAN
    BY DEF SaveRefill, CardInv, TypeOK
  <1>4. CASE Write(actor[a].run, row) /\ Set(a, x) /\ UNCHANGED env
    <2>1. m \in Proof /\ Contents(m) = Contents(actor[a].proof) \cup Contents(actor[a].got)
      BY <1>1, MergeIs
    <2>2. mark \in BOOLEAN
      OBVIOUS
    <2> HIDE DEF m, mark
    <2>3. p \in Proof /\ Contents(p) = Contents(m)
      BY <2>1, <2>2 DEF Proof, Contents
    <2>4. /\ pc \in {"consign", "release"} /\ (pc = "consign" <=> actor[a].out = "none")
      OBVIOUS
    <2> HIDE DEF p, pc
    <2>5. row \in RunRow /\ row.proof = p
      BY <1>1, <2>3 DEF RunRow
    <2> HIDE DEF row
    <2>6. RowsSound
      BY <1>4, <2>1, <2>3, <2>5, OwnRow
    <2>7. /\ x \in ActorState /\ x.pc = pc /\ x.run = actor[a].run /\ x.replay = actor[a].replay
          /\ x.n = actor[a].n /\ x.out = actor[a].out
          /\ x.proof = p /\ x.got = NoProof /\ x.todo = actor[a].todo
      BY <1>1, <2>3, <2>4, EmptyProof DEF ActorState
    <2>8. actor' = [actor EXCEPT ![a] = x]
      BY <1>4 DEF Set
    <2> HIDE DEF x
    <2>9. Local(x)
      BY <1>2, <2>4, <2>7, EmptyProof DEF Local, Resending, Taking, Acting
    <2>10. pc = "consign" => Cardinality(accepted[actor[a].run]) >= Units
      <3> SUFFICES ASSUME pc = "consign" PROVE Cardinality(accepted[actor[a].run]) >= Units
        OBVIOUS
      <3> DEFINE S == Contents(actor[a].proof) \cup actor[a].got.known
                 T == accepted[actor[a].run]
      <3>1. S \subseteq T /\ T \in SUBSET Card /\ Cardinality(S) >= Units
        BY <1>1, <1>2, <2>4 DEF CardInv, TypeOK
      <3> HIDE DEF S, T
      <3>2. Cardinality(S) <= Cardinality(T) /\ Cardinality(S) \in Nat /\ Cardinality(T) \in Nat
        BY <3>1, CardsFinite, FS_Subset
      <3>3. Cardinality(T) >= Units
        BY <3>1, <3>2, OrderAssumption
      <3> QED
        BY <3>3 DEF T
    <2>11. Confirmed(x, accepted[x.run])
      BY <2>4, <2>7, <2>10 DEF Confirmed, Taking
    <2>12. Sound(x) /\ ~(x.pc \in {"send", "restore"})
      BY <1>1, <2>1, <2>3, <2>4, <2>7, <2>9, <2>11, EmptyProof DEF Sound, SoundWith
    <2> QED
      BY <1>3, <1>4, <2>6, <2>8, <2>12, CardMoves
  <1>5. CASE (UNCHANGED env \/ Disturbed) /\ Goto(a, "release") /\ Unwritten
    BY <1>2, <1>3, <1>5, StopSound, RowsUnwritten, CardMoves DEF Goto, Set
  <1> QED
    BY <1>4, <1>5 DEF SaveRefill

LEMMA CardConsignReplay ==
    ASSUME CardInv, NEW a \in Actor, ConsignReplay(a)
    PROVE  CardInv'
  <1>1. actor[a] \in ActorState /\ Sound(actor[a])
    BY ActorTypes
  <1>2. /\ actor[a].pc = "consign" /\ actor[a].replay /\ Empty(actor[a].got)
        /\ actor[a].out = "none" /\ Cardinality(accepted[actor[a].run]) >= Units
    BY <1>1 DEF ConsignReplay, In, Sound, SoundWith, Local, Confirmed, Resending
  <1>3. UNCHANGED <<stock, history>> /\ RowsSound /\ UNCHANGED env
    BY RowsUnwritten DEF ConsignReplay, Unwritten
  <1>4. CASE shipped' = TRUE /\ Goto(a, "complete")
    <2> DEFINE x == [actor[a] EXCEPT !.pc = "complete"]
    <2>1. "complete" \in Place
      BY DEF Place
    <2>2. /\ x \in ActorState /\ x.pc = "complete" /\ x.run = actor[a].run
          /\ x.replay = actor[a].replay /\ x.n = actor[a].n /\ x.out = actor[a].out
          /\ x.proof = actor[a].proof /\ x.got = actor[a].got /\ x.todo = actor[a].todo
      BY <1>1, <2>1, PcSet
    <2>3. actor' = [actor EXCEPT ![a] = x]
      BY <1>4 DEF Goto, Set
    <2> HIDE DEF x
    <2>4. Local(x) /\ Confirmed(x, accepted[x.run])
      BY <1>2, <2>2 DEF Local, Confirmed, Resending, Taking, Acting
    <2>5. Sound(x) /\ ~(x.pc \in {"send", "restore"})
      BY <1>1, <2>2, <2>4 DEF Sound, SoundWith
    <2> QED
      BY <1>3, <1>4, <2>3, <2>5, CardMoves
  <1>5. CASE Goto(a, "release") /\ UNCHANGED shipped
    <2>1. shipped' \in BOOLEAN
      BY <1>5 DEF CardInv, TypeOK
    <2> QED
      BY <1>2, <1>3, <1>5, <2>1, StopSound, CardMoves DEF Goto, Set
  <1> QED
    BY <1>4, <1>5 DEF ConsignReplay

LEMMA CardCompleteDeliveryReplay ==
    ASSUME CardInv, NEW a \in Actor, CompleteDeliveryReplay(a)
    PROVE  CardInv'
  <1>1. actor[a].run \in Run /\ Mine(a) \in RunRow /\ Sound(actor[a]) /\ actor[a].replay
    BY ActorTypes DEF CompleteDeliveryReplay, In, Sound, SoundWith, Local, Resending
  <1> DEFINE m == [Mine(a) EXCEPT !.status = "success", !.started = FALSE]
             row == [Mine(a) EXCEPT !.status = "success", !.started = FALSE,
                                    !.leased = FALSE, !.err = "none"]
  <1>2. RowsSound
    <2>1. CASE Unwritten
      BY <2>1, RowsUnwritten
    <2>2. CASE Write(actor[a].run, row)
      <3>1. m \in RunRow /\ m.proof = runs[actor[a].run].proof
        BY <1>1 DEF RunRow, Mine
      <3>2. row = [m EXCEPT !.leased = FALSE, !.err = "none"]
        BY <1>1 DEF RunRow
      <3> HIDE DEF m, row
      <3>3. row \in RunRow /\ row.proof = runs[actor[a].run].proof
        BY <3>1, <3>2 DEF RunRow
      <3> QED
        BY <1>1, <2>2, <3>3, RowKeepsProof
    <2> QED
      BY <2>1, <2>2 DEF CompleteDeliveryReplay
  <1>3. shipped' \in BOOLEAN /\ UNCHANGED <<stock, history>> /\ (Disturbed \/ UNCHANGED env)
    BY DEF CompleteDeliveryReplay, CardInv, TypeOK
  <1>4. \/ actor' = [actor EXCEPT ![a] = [actor[a] EXCEPT !.pc = "release"]]
        \/ actor' = [actor EXCEPT ![a] = IdleActor]
    BY DEF CompleteDeliveryReplay, Goto, Set
  <1>5. CASE actor' = [actor EXCEPT ![a] = [actor[a] EXCEPT !.pc = "release"]]
    BY <1>1, <1>2, <1>3, <1>5, StopSound, CardMoves
  <1>6. CASE actor' = [actor EXCEPT ![a] = IdleActor]
    BY <1>2, <1>3, <1>6, IdleSound, CardMoves DEF IdleActor
  <1> QED
    BY <1>4, <1>5, <1>6

LEMMA CardReleaseDeliveryReplay ==
    ASSUME CardInv, NEW a \in Actor, ReleaseDeliveryReplay(a)
    PROVE  CardInv'
  <1>1. actor[a].run \in Run /\ Mine(a) \in RunRow
    BY ActorTypes
  <1> DEFINE row == [Mine(a) EXCEPT !.status = "needs_review", !.leased = FALSE,
                                    !.err = "replay"]
  <1>2. RowsSound
    <2>1. CASE Unwritten
      BY <2>1, RowsUnwritten
    <2>2. CASE Write(actor[a].run, row)
      <3>1. row \in RunRow /\ row.proof = runs[actor[a].run].proof
        BY <1>1 DEF RunRow, Mine
      <3> HIDE DEF row
      <3> QED
        BY <1>1, <2>2, <3>1, RowKeepsProof
    <2> QED
      BY <2>1, <2>2 DEF ReleaseDeliveryReplay
  <1>3. shipped' \in BOOLEAN /\ UNCHANGED <<stock, history>> /\ (Disturbed \/ UNCHANGED env)
        /\ actor' = [actor EXCEPT ![a] = IdleActor]
    BY DEF ReleaseDeliveryReplay, Set, CardInv, TypeOK
  <1> QED
    BY <1>2, <1>3, IdleSound, CardMoves DEF IdleActor

LEMMA CardRecovery ==
    ASSUME CardInv,
           \/ \E r \in Run : QuarantineRecoveryRun(r)
           \/ CancelObsoletePaidRecoveryRun \/ ClaimRecoveryRun
           \/ \E r \in Run : ReopenRunForRecovery(r)
    PROVE  CardInv'
  <1>1. CASE \E r \in Run : QuarantineRecoveryRun(r)
    <2>1. PICK r \in Run : QuarantineRecoveryRun(r)
      BY <1>1
    <2>2. RowsSound
      BY <2>1, RowStates, RowKeepsProof DEF QuarantineRecoveryRun
    <2> QED
      BY <2>1, <2>2, CardRows DEF QuarantineRecoveryRun
  <1>2. CASE CancelObsoletePaidRecoveryRun
    <2>1. RowsSound
      BY <1>2, EveryRun, RowStates, RowKeepsProof DEF CancelObsoletePaidRecoveryRun
    <2> QED
      BY <1>2, <2>1, CardRows DEF CancelObsoletePaidRecoveryRun
  <1> DEFINE y(r) == [IdleActor EXCEPT !.pc = "load", !.run = r]
  <1>3. ASSUME NEW r \in Run, Write(r, Reclaimed(r)), Set("scheduler", y(r)),
               UNCHANGED <<stock, shipped, env, history>>
        PROVE  CardInv'
    <2>1. RowsSound
      BY <1>3, RowStates, RowKeepsProof
    <2>2. Sound(y(r)) /\ y(r).pc = "load"
      BY FreshSound
    <2>3. PICK a \in Actor : a = "scheduler"
      BY DEF Actor
    <2>4. actor' = [actor EXCEPT ![a] = y(r)] /\ shipped' \in BOOLEAN
      BY <1>3, <2>3 DEF Set, CardInv, TypeOK
    <2> HIDE DEF y
    <2> QED
      BY <1>3, <2>1, <2>2, <2>4, CardMoves
  <1>4. CASE ClaimRecoveryRun
    <2>1. y("auto") = [IdleActor EXCEPT !.pc = "load"]
      <3>1. IdleActor \in ActorState
        BY IdleSound DEF Sound, SoundWith
      <3>2. IdleActor.run = "auto"
        BY DEF IdleActor
      <3> QED
        BY <3>1, <3>2 DEF ActorState
    <2>2. Set("scheduler", y("auto"))
      BY <1>4, <2>1 DEF ClaimRecoveryRun
    <2> HIDE DEF y
    <2> QED
      BY <1>3, <1>4, <2>2, EveryRun DEF ClaimRecoveryRun
  <1>5. CASE \E r \in Run : ReopenRunForRecovery(r)
    BY <1>3, <1>5 DEF ReopenRunForRecovery
  <1> QED
    BY <1>1, <1>2, <1>4, <1>5

LEMMA CardOperator ==
    ASSUME CardInv, NEW r \in Run, ResolveRunIssue(r) \/ Lapse(r)
    PROVE  CardInv'
  <1>1. runs[r] \in RunRow
    BY DEF CardInv, TypeOK
  <1>2. CASE ResolveRunIssue(r)
    <2> DEFINE m == [runs[r] EXCEPT !.status = "running", !.started = FALSE]
               going == [runs[r] EXCEPT !.status = "running", !.started = FALSE,
                                        !.leased = FALSE, !.err = "none"]
    <2>1. m \in RunRow /\ m.proof = runs[r].proof /\ m.cursor = runs[r].cursor
      BY <1>1 DEF RunRow
    <2>2. going = [m EXCEPT !.leased = FALSE, !.err = "none"]
      BY <1>1 DEF RunRow
    <2>3. \/ Write(r, Canceled(r)) \/ Write(r, going)
          \/ "continue" \in Decisions(r) /\ Write(r, [going EXCEPT !.cursor = @ + 1])
      BY <1>2 DEF ResolveRunIssue
    <2> HIDE DEF m, going
    <2>4. going \in RunRow /\ going.proof = runs[r].proof /\ going.cursor = runs[r].cursor
      BY <2>1, <2>2 DEF RunRow
    <2>5. RowsSound
      <3>1. CASE Write(r, Canceled(r))
        BY <3>1, RowStates, RowKeepsProof
      <3>2. CASE Write(r, going)
        BY <2>4, <3>2, RowKeepsProof
      <3>3. CASE "continue" \in Decisions(r) /\ Write(r, [going EXCEPT !.cursor = @ + 1])
        <4>1. going.cursor = 2
          BY <2>4, <3>3 DEF Decisions
        <4> DEFINE row == [going EXCEPT !.cursor = 3]
        <4>2. row \in RunRow /\ row.proof = runs[r].proof
          BY <2>4 DEF RunRow
        <4>3. row = [going EXCEPT !.cursor = @ + 1]
          BY <2>4, <4>1 DEF RunRow
        <4> HIDE DEF row
        <4> QED
          BY <3>3, <4>2, <4>3, RowKeepsProof
      <3> QED
        BY <2>3, <3>1, <3>2, <3>3
    <2> QED
      BY <1>2, <2>5, CardRows DEF ResolveRunIssue
  <1>3. CASE Lapse(r)
    <2>1. RowsSound
      BY <1>1, <1>3 DEF Lapse, RowsSound, CardInv, TypeOK, KnownHanded, RunRow
    <2> QED
      BY <1>3, <2>1, CardRows DEF Lapse
  <1> QED
    BY <1>2, <1>3

LEMMA CardCrash ==
    ASSUME CardInv, Crash
    PROVE  CardInv'
  <1>1. RowsSound /\ UNCHANGED <<stock, shipped, taken, handed, accepted>>
    BY RowsUnwritten DEF Crash, Unwritten, history
  <1>2. \A b \in Actor : actor'[b] = IdleActor
    BY DEF Crash
  <1>3. Sound(IdleActor) /\ IdleActor.pc = "idle"
    BY IdleSound DEF IdleActor
  <1>4. TypeOK'
    BY <1>1, <1>3, EnvSpent DEF Crash, CardInv, TypeOK, RowsSound, Sound, SoundWith
  <1>5. \A b \in Actor : Local(actor'[b]) /\ Confirmed(actor'[b], accepted'[actor'[b].run])
    BY <1>1, <1>2, <1>3 DEF Sound, SoundWith
  <1>6. KnownHanded' /\ LocalHanded' /\ StockApart'
    BY <1>1, <1>2, <1>3
    DEF RowsSound, CardInv, KnownHanded, LocalHanded, StockApart, Sound, SoundWith
  <1>7. HandsApart'
    BY <1>2, <1>3 DEF HandsApart, InTransit
  <1> QED
    BY <1>4, <1>5, <1>6, <1>7 DEF CardInv

LEMMA CardKept ==
    ASSUME CardInv, [Next]_vars
    PROVE  CardInv'
  <1>1. CASE UNCHANGED vars
    <2>1. TypeOK'
      BY <1>1 DEF vars, history, CardInv, TypeOK
    <2>2. \A a \in Actor : Local(actor'[a]) /\ Confirmed(actor'[a], accepted'[actor'[a].run])
      BY <1>1 DEF vars, history, CardInv
    <2>3. KnownHanded' /\ LocalHanded'
      BY <1>1 DEF vars, history, CardInv, KnownHanded, LocalHanded
    <2>4. StockApart' /\ HandsApart'
      BY <1>1 DEF vars, history, CardInv, StockApart, HandsApart, InTransit
    <2> QED
      BY <1>1, <2>1, <2>2, <2>3, <2>4 DEF CardInv, vars, history
  <1>2. CASE \E a \in Actor : Work(a) \/ TryStartRun(a, "auto") \/ RequestDelivery(a)
    <2>1. PICK a \in Actor : Work(a) \/ TryStartRun(a, "auto") \/ RequestDelivery(a)
      BY <1>2
    <2>2. CASE TryStartRun(a, "auto") \/ TryStartRun(a, "manual")
      BY <2>2, EveryRun, CardTryStartRun
    <2>3. CASE RequestDelivery(a) \/ StartRefused(a) \/ LoadRun(a) \/ StartRunAction(a)
      BY <2>3, CardRequestDelivery, CardStartRefused, CardLoadRun, CardStartRunAction
    <2>4. CASE TakeCard(a) \/ SendCard(a) \/ RestoreCard(a) \/ CardsDone(a) \/ ConfirmShipment(a)
      BY <2>4, CardTakeCard, CardSendCard, CardRestoreCard, CardCardsDone, CardConfirmShipment
    <2>5. CASE AdvanceRunAction(a) \/ QuarantineRun(a) \/ SettleUnsure(a) \/ AbortRunAction(a)
               \/ FinishFailed(a) \/ FinishRun(a)
      BY <2>5, CardAdvanceRunAction, CardQuarantineRun, CardSettleUnsure, CardAbortRunAction,
         CardFinishFailed, CardFinishRun
    <2>6. CASE ClaimDeliveryReplay(a) \/ ResendMessage(a) \/ MarkRefill(a) \/ SaveRefill(a)
               \/ ConsignReplay(a) \/ CompleteDeliveryReplay(a) \/ ReleaseDeliveryReplay(a)
      BY <2>6, CardClaimDeliveryReplay, CardResendMessage, CardMarkRefill, CardSaveRefill,
         CardConsignReplay, CardCompleteDeliveryReplay, CardReleaseDeliveryReplay
    <2> QED
      BY <2>1, <2>2, <2>3, <2>4, <2>5, <2>6 DEF Work
  <1>3. CASE Recover \/ \E r \in Run : ReopenRunForRecovery(r)
    BY <1>3, CardRecovery DEF Recover
  <1>4. CASE \E r \in Run : ResolveRunIssue(r) \/ Lapse(r)
    BY <1>4, CardOperator
  <1>5. CASE Crash
    BY <1>5, CardCrash
  <1> QED
    BY <1>1, <1>2, <1>3, <1>4, <1>5 DEF Next

LEMMA CardStarts ==
    ASSUME Init
    PROVE  CardInv
  <1>1. \A r \in Run : /\ runs[r] = NoRun /\ taken[r] = {} /\ handed[r] = {} /\ accepted[r] = {}
    BY DEF Init
  <1>2. \A a \in Actor : actor[a] = IdleActor
    BY DEF Init
  <1>3. NoRun \in RunRow /\ NoRun.proof = NoProof
    BY EmptyProof DEF NoRun, RunRow
  <1>4. IdleActor \in ActorState
    BY OrderAssumption, EmptyProof DEF IdleActor, ActorState, Run, Outcome
  <1>5. /\ IdleActor.pc = "idle" /\ IdleActor.run = "auto" /\ ~IdleActor.replay
        /\ IdleActor.proof = NoProof /\ IdleActor.got = NoProof /\ IdleActor.todo = {}
    BY DEF IdleActor
  <1>6. stock \in Seq(Card) /\ Len(stock) = Supply /\ \A i \in 1 .. Supply : stock[i] = i
    BY OrderAssumption DEF Init, Card
  <1>7. TypeOK
    <2>1. runs \in [Run -> RunRow] /\ actor \in [Actor -> ActorState]
      BY <1>3, <1>4 DEF Init
    <2>2. latest \in Run /\ env \in 0 .. MaxEnv
      BY OrderAssumption, EveryRun DEF Init
    <2>3. /\ taken \in [Run -> SUBSET Card] /\ handed \in [Run -> SUBSET Card]
          /\ accepted \in [Run -> SUBSET Card]
      BY DEF Init
    <2>4. shipped \in BOOLEAN
      BY Zenon DEF Init
    <2> QED
      BY <1>6, <2>1, <2>2, <2>3, <2>4 DEF TypeOK
  <1>8. Local(IdleActor) /\ Confirmed(IdleActor, {})
    BY <1>5 DEF Local, Confirmed, Resending, Taking, Acting
  <1>9. KnownHanded /\ LocalHanded
    BY <1>1, <1>2, <1>3, <1>5, EmptyProof, EveryRun DEF KnownHanded, LocalHanded
  <1>10. StockApart
    BY <1>1, <1>6, EveryRun DEF StockApart
  <1>11. HandsApart
    BY <1>2, <1>5 DEF HandsApart, InTransit
  <1> QED
    BY <1>1, <1>2, <1>5, <1>7, <1>8, <1>9, <1>10, <1>11, EveryRun DEF CardInv

Writer(a) == Claimant(a) \/ Replayer(a)

\* A step of one execution, or of none, on one row.
Moves(a, r, x) ==
    /\ actor' = [actor EXCEPT ![a] = x]
    /\ x.pc = "idle" \/ x.run = r \/ x = actor[a]
    /\ \A q \in Run : q # r => runs'[q] = runs[q] /\ taken'[q] = taken[q]

SameProof(r) ==
    Contents(runs'[r].proof) = Contents(runs[r].proof) /\ runs'[r].proof.refill = runs[r].proof.refill

\* A change of a row that takes nothing back that an execution relies on.
RowTame(r) ==
    /\ runs'[r].attempt = runs[r].attempt /\ runs'[r].cursor = runs[r].cursor
    /\ SameProof(r)
    /\ runs'[r].status = "canceled" <=> runs[r].status = "canceled"
    /\ runs[r].started => runs'[r].started
    /\ runs[r].status = "success" => runs'[r].status = "success"
    /\ runs'[r].status = "running" /\ runs'[r].started => runs[r].status = "running" /\ runs[r].started
    /\ runs'[r].status # "absent" \/ runs'[r] = runs[r]

LEMMA RowTypes ==
    ASSUME CardInv, NEW a \in Actor
    PROVE  /\ actor[a] \in ActorState /\ actor[a].run \in Run /\ Mine(a) \in RunRow
           /\ Mine(a) = runs[actor[a].run] /\ Local(actor[a])
           /\ Contents(actor[a].proof) \in SUBSET Card /\ Contents(actor[a].got) \in SUBSET Card
           /\ Contents(Mine(a).proof) \in SUBSET Card /\ actor[a].att \in Nat
           /\ Mine(a).attempt \in Nat /\ actor[a].cur \in 1 .. 3 /\ Mine(a).cursor \in 1 .. 3
  <1>1. actor[a] \in ActorState /\ actor[a].run \in Run /\ Mine(a) \in RunRow /\ Local(actor[a])
    BY ActorTypes DEF Sound, SoundWith
  <1> QED
    BY <1>1 DEF Mine, ActorState, RunRow, Proof, Contents

\* An execution that does not move, on a row that changes tamely.
LEMMA TameKept ==
    ASSUME CardInv, CardInv', RowInv, NEW r \in Run, NEW b \in Actor,
           actor[b].run = r, actor'[b] = actor[b], RowTame(r), taken'[r] \subseteq taken[r],
           \A c \in Actor : actor'[c].run = r /\ Claimant(c)' => actor[c].run = r /\ Claimant(c),
           \A c \in Actor : actor'[c].run = r /\ Replayer(c)' => actor[c].run = r /\ Replayer(c)
    PROVE  ActorRow(b)'
  <1>1. /\ Mine(b) = runs[r] /\ Mine(b)' = runs'[r] /\ ActorRow(b)
    BY DEF Mine, RowInv
  <1>2. Live(b)' <=> Live(b)
    BY <1>1 DEF Live, RowTame
  <1>3. actor'[b].att <= Mine(b)'.attempt /\ actor'[b].cur <= Mine(b)'.cursor
    BY <1>1 DEF ActorRow, RowTame
  <1>4. SameContents(b)' <=> SameContents(b)
    BY <1>1 DEF SameContents, RowTame, SameProof
  <1>5. Mine(b)'.proof.refill = Mine(b).proof.refill /\ Mine(b)'.cursor = Mine(b).cursor
        /\ Contents(Mine(b)'.proof) = Contents(Mine(b).proof)
        /\ (Mine(b).started => Mine(b)'.started)
        /\ (Mine(b).status = "success" => Mine(b)'.status = "success")
        /\ (Mine(b)'.status = "running" /\ Mine(b)'.started
              => Mine(b).status = "running" /\ Mine(b).started)
    BY <1>1 DEF RowTame, SameProof
  <1>6. (Claimant(b)' <=> Claimant(b)) /\ (Replayer(b)' <=> Replayer(b))
    BY <1>2 DEF Claimant, Replayer
  <1>7. ClaimantRow(b)'
    BY <1>1, <1>4, <1>5, <1>6 DEF ActorRow, ClaimantRow
  <1>8. ReadyRow(b)'
    BY <1>1, <1>2, <1>4, <1>5 DEF ActorRow, ReadyRow
  <1>9. ReplayRow(b)'
    BY <1>1, <1>4, <1>5, <1>6 DEF ActorRow, ReplayRow
  <1>10. ClaimRow(b)'
    BY <1>1, <1>2, <1>4, <1>5 DEF ActorRow, ClaimRow
  <1>11. TakenKnown(b)'
    BY <1>1, <1>6 DEF ActorRow, TakenKnown, Hand, InTransit
  <1> QED
    BY <1>3, <1>7, <1>8, <1>9, <1>10, <1>11 DEF ActorRow

\* An execution of another row.
LEMMA ElsewhereKept ==
    ASSUME CardInv, CardInv', RowInv, NEW a \in Actor, NEW r \in Run, NEW x, Moves(a, r, x),
           NEW b \in Actor, actor'[b] = actor[b], actor[b].run # r
    PROVE  ActorRow(b)'
  <1> DEFINE q == actor[b].run
  <1>1. q \in Run /\ q # r /\ runs'[q] = runs[q] /\ taken'[q] = taken[q]
    BY RowTypes DEF Moves
  <1>2. RowTame(q)
    BY <1>1 DEF RowTame, SameProof
  <1>3. ASSUME NEW c \in Actor, actor'[c].run = q
        PROVE  /\ Claimant(c)' => actor[c].run = q /\ Claimant(c)
               /\ Replayer(c)' => actor[c].run = q /\ Replayer(c)
    <2>1. CASE actor'[c] = actor[c]
      BY <1>1, <1>3, <2>1 DEF Claimant, Replayer, Live, Mine
    <2>2. CASE actor'[c] # actor[c]
      <3>1. c = a /\ actor'[c] = x
        BY <2>2 DEF Moves, CardInv, TypeOK
      <3>2. actor'[c].pc = "idle"
        BY <1>1, <1>3, <2>2, <3>1 DEF Moves
      <3>3. Local(actor'[c])
        BY DEF CardInv
      <3> QED
        BY <3>2, <3>3 DEF Claimant, Replayer, Acting, Taking, Resending, Local
    <2> QED
      BY <2>1, <2>2
  <1> QED
    BY <1>1, <1>2, <1>3, TameKept

\* The invariant after a step, from what is to be shown of its row.
LEMMA Assembled ==
    ASSUME CardInv, CardInv', RowInv, NEW a \in Actor, NEW r \in Run, NEW x, Moves(a, r, x),
           \A b \in Actor : actor'[b] = actor[b] /\ actor[b].run = r =>
                 ActorRow(b)' /\ (Writer(b)' => Writer(b)),
           x # actor[a] => ActorRow(a)',
           x # actor[a] /\ Writer(a)' =>
               \/ actor[a].run = r /\ Writer(a)
               \/ \A b \in Actor : b # a /\ actor[b].run = r => ~Writer(b)',
           RowFresh(r)', RowComplete(r)', AbsentRow(r)', Cardinality(taken'[r]) <= Units
    PROVE  RowInv'
  <1>1. \A b \in Actor : actor'[b] = IF b = a THEN x ELSE actor[b]
    BY DEF Moves, CardInv, TypeOK
  <1>2. \A b \in Actor : ActorRow(b)'
    BY <1>1, ElsewhereKept
  <1>3. \A q \in Run : RowFresh(q)' /\ RowComplete(q)' /\ AbsentRow(q)' /\ Cardinality(taken'[q]) <= Units
    <2> SUFFICES ASSUME NEW q \in Run, q # r
                 PROVE  /\ RowFresh(q)' /\ RowComplete(q)' /\ AbsentRow(q)'
                        /\ Cardinality(taken'[q]) <= Units
      OBVIOUS
    <2>1. runs'[q] = runs[q] /\ taken'[q] = taken[q]
      BY DEF Moves
    <2> QED
      BY <2>1 DEF RowInv, RowFresh, RowComplete, AbsentRow
  <1>4. \A b \in Actor : actor'[b] = actor[b] => (Writer(b)' => Writer(b))
    <2> SUFFICES ASSUME NEW b \in Actor, actor'[b] = actor[b], actor[b].run # r, Writer(b)'
                 PROVE  Writer(b)
      OBVIOUS
    <2>1. runs'[actor[b].run] = runs[actor[b].run]
      BY RowTypes DEF Moves
    <2> QED
      BY <2>1 DEF Writer, Claimant, Replayer, Live, Mine
  <1>5. x # actor[a] /\ Writer(a)' => actor'[a].run = r
    <2>1. Local(actor'[a])
      BY DEF CardInv
    <2> QED
      BY <1>1, <2>1 DEF Moves, Writer, Claimant, Replayer, Acting, Taking, Resending, Local
  <1>6. OneWriter'
    <2> SUFFICES ASSUME NEW b \in Actor, NEW c \in Actor, actor'[b].run = actor'[c].run,
                        Writer(b)', Writer(c)'
                 PROVE  b = c
      BY DEF OneWriter, Writer
    <2>1. CASE x = actor[a]
      BY <1>1, <1>4, <2>1 DEF RowInv, OneWriter, Writer
    <2>2. CASE x # actor[a]
      <3>1. \A d \in Actor : d # a => actor'[d] = actor[d] /\ (Writer(d)' => Writer(d))
        BY <1>1, <1>4
      <3>2. CASE b # a /\ c # a
        BY <3>1, <3>2 DEF RowInv, OneWriter, Writer
      <3>3. ASSUME NEW d \in Actor, d # a, Writer(d)', actor'[d].run = actor'[a].run, Writer(a)'
            PROVE  FALSE
        <4>1. actor[d].run = r /\ Writer(d)
          BY <1>5, <2>2, <3>1, <3>3
        <4>2. actor[a].run = r /\ Writer(a)
          BY <2>2, <3>3, <4>1
        <4> QED
          BY <3>3, <4>1, <4>2 DEF RowInv, OneWriter, Writer
      <3> QED
        BY <3>2, <3>3
    <2> QED
      BY <2>1, <2>2
  <1> QED
    BY <1>2, <1>3, <1>6 DEF RowInv

LEMMA TakenFits ==
    ASSUME CardInv, RowInv, NEW r \in Run, taken'[r] \subseteq taken[r]
    PROVE  Cardinality(taken'[r]) <= Units
  <1>1. taken[r] \in SUBSET Card /\ Cardinality(taken[r]) <= Units
    BY DEF CardInv, TypeOK, RowInv
  <1>2. taken'[r] \in SUBSET Card
    BY <1>1
  <1>3. /\ Cardinality(taken'[r]) <= Cardinality(taken[r])
        /\ Cardinality(taken[r]) \in Nat /\ Cardinality(taken'[r]) \in Nat
    BY <1>1, <1>2, CardsFinite, FS_Subset
  <1> QED
    BY <1>1, <1>3, OrderAssumption

\* A tame step.
LEMMA TameStep ==
    ASSUME CardInv, CardInv', RowInv, NEW a \in Actor, NEW r \in Run, NEW x, Moves(a, r, x),
           RowTame(r), taken'[r] \subseteq taken[r],
           x # actor[a] => ActorRow(a)',
           x # actor[a] /\ Claimant(a)' => actor[a].run = r /\ Claimant(a),
           x # actor[a] /\ Replayer(a)' => actor[a].run = r /\ Replayer(a)
    PROVE  RowInv'
  <1>1. \A b \in Actor : b # a => actor'[b] = actor[b]
    BY DEF Moves, CardInv, TypeOK
  <1>2. actor'[a] = x
    BY DEF Moves, CardInv, TypeOK
  <1>3. \A b \in Actor : actor'[b] = actor[b] /\ actor[b].run = r =>
          (Claimant(b)' => Claimant(b)) /\ (Replayer(b)' => Replayer(b))
    BY DEF Claimant, Replayer, Live, Mine, RowTame
  <1>4. /\ \A c \in Actor : actor'[c].run = r /\ Claimant(c)' => actor[c].run = r /\ Claimant(c)
        /\ \A c \in Actor : actor'[c].run = r /\ Replayer(c)' => actor[c].run = r /\ Replayer(c)
    BY <1>1, <1>2, <1>3
  <1>5. \A b \in Actor : actor'[b] = actor[b] /\ actor[b].run = r =>
          ActorRow(b)' /\ (Writer(b)' => Writer(b))
    BY <1>3, <1>4, TameKept DEF Writer
  <1>6. RowFresh(r) /\ RowComplete(r) /\ AbsentRow(r)
    BY DEF RowInv
  <1>7. RowFresh(r)'
    BY <1>6 DEF RowFresh, RowTame, SameProof, Empty
  <1>8. RowComplete(r)'
    BY <1>6 DEF RowComplete, RowTame, SameProof, Present
  <1>9. AbsentRow(r)'
    BY <1>6 DEF AbsentRow, RowTame
  <1>10. Cardinality(taken'[r]) <= Units
    BY TakenFits
  <1> QED
    BY <1>5, <1>7, <1>8, <1>9, <1>10, Assembled DEF Writer

\* A step of an execution while nobody else may write the row's proof.
LEMMA OutsiderStep ==
    ASSUME CardInv, CardInv', RowInv, NEW a \in Actor, NEW r \in Run, NEW x, Moves(a, r, x),
           \A b \in Actor : b # a /\ actor[b].run = r => ~Writer(b),
           runs'[r].attempt = runs[r].attempt,
           runs[r].status \notin {"canceled", "success"}, runs'[r].status \notin {"canceled", "absent"},
           runs'[r].cursor >= runs[r].cursor,
           \/ runs'[r].cursor > runs[r].cursor \/ runs'[r].status = "success"
           \/ runs'[r].started /\ ~Claimant(a)'
           \/ SameProof(r) /\ (~runs[r].started \/ (actor[a].run = r /\ Claimant(a))),
           \/ SameProof(r) /\ (~(runs'[r].status = "running" /\ runs'[r].started) \/ ~Replayer(a)')
           \/ \A b \in Actor : b # a /\ actor[b].run = r /\ actor[b].pc = "claim" => ~Live(b),
           ActorRow(a)', RowFresh(r)', RowComplete(r)', Cardinality(taken'[r]) <= Units
    PROVE  RowInv'
  <1>1. \A b \in Actor : b # a => actor'[b] = actor[b]
    BY DEF Moves, CardInv, TypeOK
  <1>2. actor'[a] = x
    BY DEF Moves, CardInv, TypeOK
  <1>3. /\ runs'[r] \in RunRow /\ runs[r] \in RunRow /\ runs'[r].cursor \in 1 .. 3
        /\ runs[r].cursor \in 1 .. 3
    BY DEF CardInv, TypeOK, RunRow
  <1>4. ASSUME NEW b \in Actor, b # a, actor[b].run = r
        PROVE  ActorRow(b)' /\ ~Writer(b)'
    <2>1. /\ Mine(b) = runs[r] /\ Mine(b)' = runs'[r] /\ ActorRow(b) /\ actor'[b] = actor[b]
          /\ actor[b].cur \in 1 .. 3
      BY <1>1, <1>4, RowTypes DEF Mine, RowInv
    <2>2. Live(b)' <=> Live(b)
      BY <2>1 DEF Live
    <2>3. ~Writer(b) /\ ~Claimant(b)' /\ ~Replayer(b)'
      BY <1>4, <2>1, <2>2 DEF Writer, Claimant, Replayer
    <2>4. actor'[b].att <= Mine(b)'.attempt /\ actor'[b].cur <= Mine(b)'.cursor
      BY <1>3, <2>1 DEF ActorRow
    <2>5. ClaimantRow(b)' /\ ReplayRow(b)' /\ TakenKnown(b)'
      BY <2>3 DEF ClaimantRow, ReplayRow, TakenKnown
    <2>6. ReadyRow(b)'
      <3> SUFFICES ASSUME actor[b].pc = "ready", Live(b), actor[b].cur = runs'[r].cursor,
                          actor[b].cur < 3, runs'[r].status # "success"
                   PROVE  \/ SameContents(b)' /\ ~runs'[r].proof.refill
                          \/ /\ runs'[r].started
                             /\ \A c \in Actor : actor'[c].run = r => ~Claimant(c)'
        BY <1>4, <2>1, <2>2 DEF ReadyRow
      <3>1. actor[b].cur = runs[r].cursor
        BY <1>3, <2>1 DEF ActorRow
      <3>2. CASE runs'[r].started /\ ~Claimant(a)'
        <4>1. \A c \in Actor : actor'[c].run = r /\ c # a => ~Claimant(c)'
          <5> SUFFICES ASSUME NEW c \in Actor, actor'[c].run = r, c # a, Claimant(c)'
                       PROVE  FALSE
            OBVIOUS
          <5>1. actor[c].run = r /\ actor'[c] = actor[c]
            BY <1>1
          <5> QED
            BY <5>1 DEF Writer, Claimant, Live, Mine
        <4> QED
          BY <3>2, <4>1
      <3>3. CASE SameProof(r) /\ (~runs[r].started \/ (actor[a].run = r /\ Claimant(a)))
        <4>1. SameContents(b) /\ ~runs[r].proof.refill
          BY <1>4, <2>1, <3>1, <3>3 DEF ActorRow, ReadyRow
        <4> QED
          BY <2>1, <3>3, <4>1 DEF SameContents, SameProof
      <3> QED
        BY <1>3, <3>1, <3>2, <3>3
    <2>7. ClaimRow(b)'
      <3> SUFFICES ASSUME actor[b].pc = "claim", Live(b)
                   PROVE  /\ SameContents(b)' /\ ~runs'[r].proof.refill
                          /\ runs'[r].status = "running" /\ runs'[r].started =>
                               \A c \in Actor : actor'[c].run = r => ~Replayer(c)'
        BY <1>4, <2>1, <2>2 DEF ClaimRow
      <3>1. /\ SameProof(r)
            /\ ~(runs'[r].status = "running" /\ runs'[r].started) \/ ~Replayer(a)'
        BY <1>4
      <3>2. SameContents(b) /\ ~runs[r].proof.refill
        BY <2>1 DEF ActorRow, ClaimRow
      <3>3. \A c \in Actor : actor'[c].run = r /\ c # a => ~Replayer(c)'
        <4> SUFFICES ASSUME NEW c \in Actor, actor'[c].run = r, c # a, Replayer(c)'
                     PROVE  FALSE
          OBVIOUS
        <4>1. actor[c].run = r /\ actor'[c] = actor[c]
          BY <1>1
        <4> QED
          BY <4>1 DEF Writer, Replayer, Live, Mine
      <3> QED
        BY <2>1, <3>1, <3>2, <3>3 DEF SameContents, SameProof
    <2> QED
      BY <2>3, <2>4, <2>5, <2>6, <2>7 DEF ActorRow, Writer
  <1>5. AbsentRow(r)'
    BY DEF AbsentRow
  <1>6. \A b \in Actor : actor'[b] = actor[b] /\ actor[b].run = r =>
          ActorRow(b)' /\ (Writer(b)' => Writer(b))
    <2> SUFFICES ASSUME actor'[a] = actor[a], actor[a].run = r, Writer(a)'
                 PROVE  Writer(a)
      BY <1>4
    <2> QED
      BY DEF Writer, Claimant, Replayer, Live, Mine
  <1>7. \A b \in Actor : b # a /\ actor[b].run = r => ~Writer(b)'
    BY <1>4
  <1> QED
    BY <1>5, <1>6, <1>7, Assembled

\* A step after which no other execution has the row's attempt.
LEMMA GrowStep ==
    ASSUME CardInv, CardInv', RowInv, NEW a \in Actor, NEW r \in Run, NEW x, Moves(a, r, x),
           runs'[r].attempt > runs[r].attempt
             \/ (runs'[r].attempt = runs[r].attempt /\ runs'[r].status = "canceled"),
           runs'[r].cursor = runs[r].cursor, runs'[r].status # "absent",
           taken'[r] \subseteq taken[r],
           x # actor[a] => ActorRow(a)', RowFresh(r)', RowComplete(r)'
    PROVE  RowInv'
  <1>1. \A b \in Actor : b # a => actor'[b] = actor[b]
    BY DEF Moves, CardInv, TypeOK
  <1>2. runs'[r].attempt \in Nat /\ runs[r].attempt \in Nat
    BY DEF CardInv, TypeOK, RunRow
  <1>3. ASSUME NEW b \in Actor, actor'[b] = actor[b], actor[b].run = r
        PROVE  ActorRow(b)' /\ ~Writer(b)'
    <2>1. Mine(b) = runs[r] /\ Mine(b)' = runs'[r] /\ ActorRow(b) /\ actor[b].att \in Nat
      BY <1>3, RowTypes DEF Mine, RowInv
    <2>2. ~Live(b)'
      BY <1>2, <1>3, <2>1 DEF Live, ActorRow
    <2>3. ~Claimant(b)' /\ ~Replayer(b)'
      BY <2>2 DEF Claimant, Replayer
    <2>4. actor'[b].att <= Mine(b)'.attempt /\ actor'[b].cur <= Mine(b)'.cursor
      BY <1>2, <1>3, <2>1 DEF ActorRow
    <2> QED
      BY <2>2, <2>3, <2>4
      DEF ActorRow, ClaimantRow, ReadyRow, ReplayRow, ClaimRow, TakenKnown, Writer
  <1>4. AbsentRow(r)' /\ Cardinality(taken'[r]) <= Units
    BY TakenFits DEF AbsentRow
  <1>5. \A b \in Actor : b # a /\ actor[b].run = r => ~Writer(b)'
    BY <1>1, <1>3
  <1> QED
    BY <1>3, <1>4, <1>5, Assembled

\* An execution that may not write and reads nothing.
LEMMA BystanderRow ==
    ASSUME CardInv', NEW a \in Actor,
           actor'[a].att <= Mine(a)'.attempt, actor'[a].cur <= Mine(a)'.cursor,
           actor'[a].pc \notin Acting \cup {"ready", "claim"}, ~actor'[a].replay
    PROVE  ActorRow(a)' /\ ~Writer(a)' /\ ~Claimant(a)' /\ ~Replayer(a)'
  BY DEF ActorRow, ClaimantRow, ReadyRow, ReplayRow, ClaimRow, TakenKnown, Writer, Claimant,
         Replayer

LEMMA IdleRow ==
    ASSUME CardInv', NEW a \in Actor, actor'[a] = IdleActor
    PROVE  ActorRow(a)' /\ ~Writer(a)' /\ ~Claimant(a)' /\ ~Replayer(a)'
  <1>1. /\ IdleActor.pc = "idle" /\ ~IdleActor.replay /\ IdleActor.att = 0
        /\ IdleActor.cur = 1 /\ IdleActor.run = "auto"
    BY DEF IdleActor
  <1>2. Mine(a)' = runs'["auto"] /\ runs'["auto"] \in RunRow
    BY <1>1, EveryRun DEF Mine, CardInv, TypeOK
  <1>3. actor'[a].att <= Mine(a)'.attempt /\ actor'[a].cur <= Mine(a)'.cursor
    BY <1>1, <1>2 DEF RunRow
  <1> QED
    BY <1>1, <1>3, BystanderRow DEF Acting, Taking

\* An execution that goes on in the role it had, on the same row.
LEMMA RoleKept ==
    ASSUME CardInv, CardInv', RowInv, NEW a \in Actor, NEW x, actor' = [actor EXCEPT ![a] = x],
           x.run = actor[a].run, x.att = actor[a].att, x.cur = actor[a].cur,
           x.replay = actor[a].replay, x.proof = actor[a].proof,
           runs'[x.run] = runs[x.run],
           x.pc \notin {"ready", "claim"},
           x.pc \in Acting => actor[a].pc \in Acting,
           x.replay /\ x.pc # "release" => actor[a].pc # "release",
           x.replay /\ x.pc \in {"resend", "mark", "consign", "complete"} =>
               actor[a].pc \in {"resend", "mark", "consign", "complete"},
           x.replay /\ x.pc \in Taking \cup {"save"} => actor[a].pc \in Taking \cup {"save"},
           \/ x.out = "norestore"
           \/ /\ actor[a].out # "norestore"
              /\ taken[x.run] \subseteq Contents(actor[a].proof) \cup Contents(actor[a].got) \cup Hand(a)
                   => taken'[x.run] \subseteq Contents(x.proof) \cup Contents(x.got) \cup Hand(a)'
           \/ x.pc = "release"
    PROVE  /\ ActorRow(a)' /\ (Claimant(a)' => Claimant(a)) /\ (Replayer(a)' => Replayer(a))
  <1>1. actor'[a] = x
    BY DEF CardInv, TypeOK
  <1>2. Mine(a)' = Mine(a) /\ ActorRow(a)
    BY <1>1 DEF Mine, RowInv
  <1>3. Live(a)' <=> Live(a)
    BY <1>1, <1>2 DEF Live
  <1>4. (Claimant(a)' => Claimant(a)) /\ (Replayer(a)' => Replayer(a))
    BY <1>1, <1>3 DEF Claimant, Replayer
  <1>5. SameContents(a)' <=> SameContents(a)
    BY <1>1, <1>2 DEF SameContents
  <1>6. actor'[a].att <= Mine(a)'.attempt /\ actor'[a].cur <= Mine(a)'.cursor
    BY <1>1, <1>2 DEF ActorRow
  <1>7. ClaimantRow(a)'
    BY <1>1, <1>2, <1>4, <1>5 DEF ActorRow, ClaimantRow
  <1>8. ReadyRow(a)' /\ ClaimRow(a)'
    BY <1>1 DEF ReadyRow, ClaimRow
  <1>9. ReplayRow(a)'
    BY <1>1, <1>2, <1>4, <1>5 DEF ActorRow, ReplayRow, Replayer
  <1>10. TakenKnown(a)'
    <2> SUFFICES ASSUME (Claimant(a)' /\ x.cur = 1) \/ (Replayer(a)' /\ x.pc # "release"),
                        x.out # "norestore"
                 PROVE  taken'[x.run] \subseteq Contents(x.proof) \cup Contents(x.got) \cup Hand(a)'
      BY <1>1 DEF TakenKnown
    <2>1. (Claimant(a) /\ actor[a].cur = 1) \/ (Replayer(a) /\ actor[a].pc # "release")
      BY <1>1, <1>4 DEF Replayer
    <2>2. x.pc # "release"
      BY <1>1 DEF Claimant, Acting, Taking
    <2>3. TakenKnown(a)
      BY <1>2 DEF ActorRow
    <2> QED
      BY <2>1, <2>2, <2>3 DEF TakenKnown
  <1> QED
    BY <1>4, <1>6, <1>7, <1>8, <1>9, <1>10 DEF ActorRow

\* Only one row is written, and nothing is taken.
LEMMA OneRow ==
    ASSUME CardInv, NEW a \in Actor, NEW r \in Run, NEW x, actor' = [actor EXCEPT ![a] = x],
           x.pc = "idle" \/ x.run = r \/ x = actor[a],
           UNCHANGED taken,
           UNCHANGED runs \/ \E row \in RunRow : Write(r, row)
    PROVE  Moves(a, r, x) /\ taken'[r] = taken[r]
  BY DEF Moves, Write, CardInv, TypeOK

LEMMA Untouched ==
    ASSUME NEW r \in Run, runs'[r] = runs[r]
    PROVE  RowTame(r)
  BY DEF RowTame, SameProof

LEMMA RowFreshRun ==
    ASSUME CardInv, CardInv', RowInv, NEW a \in Actor, NEW r \in Run,
           Set(a, [IdleActor EXCEPT !.pc = "load", !.run = r]), UNCHANGED taken,
           \/ runs[r].status = "absent" /\ Write(r, NewRun)
           \/ /\ runs[r].status \in {"running", "failed", "needs_review"} /\ ~runs[r].started
              /\ Write(r, Reclaimed(r))
    PROVE  RowInv'
  <1> DEFINE x == [IdleActor EXCEPT !.pc = "load", !.run = r]
  <1>1. IdleActor \in ActorState
    BY IdleSound DEF Sound, SoundWith
  <1>2. x.pc = "load" /\ x.run = r /\ x.att = 0 /\ x.cur = 1 /\ ~x.replay
    BY <1>1 DEF ActorState, IdleActor
  <1>3. actor' = [actor EXCEPT ![a] = x]
    BY DEF Set
  <1> HIDE DEF x
  <1>4. runs[r] \in RunRow /\ runs[r].attempt \in Nat
    BY DEF CardInv, TypeOK, RunRow
  <1>5. PICK row \in RunRow :
          /\ Write(r, row) /\ row.attempt = runs[r].attempt + 1 /\ row.cursor = runs[r].cursor
          /\ row.status = "running" /\ ~row.started /\ row.proof = runs[r].proof
          /\ runs[r].status \in {"absent", "running", "failed", "needs_review"} /\ ~runs[r].started
    <2>1. CASE runs[r].status = "absent" /\ Write(r, NewRun)
      <3>1. runs[r] = NoRun
        BY <2>1 DEF RowInv, AbsentRow
      <3>2. NoRun \in RunRow /\ NoRun.attempt = 0 /\ NoRun.cursor = 1 /\ ~NoRun.started
            /\ NoRun.proof = NoProof
        BY <1>4, <3>1 DEF NoRun
      <3>3. /\ NewRun.attempt = 1 /\ NewRun.cursor = 1 /\ NewRun.status = "running"
            /\ ~NewRun.started /\ NewRun.proof = NoProof /\ NewRun \in RunRow
        BY <3>2, RowStates DEF NewRun, RunRow
      <3> QED
        BY <2>1, <3>1, <3>2, <3>3
    <2>2. CASE /\ runs[r].status \in {"running", "failed", "needs_review"} /\ ~runs[r].started
               /\ Write(r, Reclaimed(r))
      <3>1. /\ Reclaimed(r) \in RunRow /\ Reclaimed(r).attempt = runs[r].attempt + 1
            /\ Reclaimed(r).cursor = runs[r].cursor /\ Reclaimed(r).status = "running"
            /\ ~Reclaimed(r).started /\ Reclaimed(r).proof = runs[r].proof
        BY <1>4, <2>2, RowStates DEF Reclaimed, RunRow
      <3> QED
        BY <2>2, <3>1
    <2> QED
      BY <2>1, <2>2
  <1>6. Moves(a, r, x) /\ taken'[r] = taken[r]
    BY <1>2, <1>3, <1>5, OneRow
  <1>7. runs'[r] = row
    BY <1>5 DEF Write, CardInv, TypeOK
  <1>8. ActorRow(a)'
    <2>1. actor'[a] = x /\ Mine(a)' = row
      BY <1>2, <1>3, <1>7 DEF CardInv, TypeOK, Mine
    <2>2. actor'[a].att <= Mine(a)'.attempt /\ actor'[a].cur <= Mine(a)'.cursor
      BY <1>2, <1>4, <1>5, <2>1 DEF RunRow
    <2> QED
      BY <1>2, <2>1, <2>2, BystanderRow DEF Acting, Taking
  <1>9. RowFresh(r) /\ RowComplete(r)
    BY DEF RowInv
  <1>10. RowFresh(r)' /\ RowComplete(r)'
    BY <1>5, <1>6, <1>7, <1>9 DEF RowFresh, RowComplete
  <1>11. runs'[r].attempt > runs[r].attempt
    BY <1>4, <1>5, <1>7
  <1> QED
    BY <1>5, <1>6, <1>7, <1>8, <1>10, <1>11, GrowStep

LEMMA RowTryStartRun ==
    ASSUME CardInv, CardInv', RowInv, NEW a \in Actor, NEW r \in Run, TryStartRun(a, r)
    PROVE  RowInv'
  <1>1. /\ Set(a, [IdleActor EXCEPT !.pc = "load", !.run = r]) /\ UNCHANGED taken
    BY DEF TryStartRun, history
  <1>2. \/ runs[r].status = "absent" /\ Write(r, NewRun)
        \/ /\ runs[r].status \in {"running", "failed"} /\ ~runs[r].started
           /\ Write(r, Reclaimed(r))
    BY DEF TryStartRun, Due
  <1> QED
    BY <1>1, <1>2, RowFreshRun

\* A step that writes no row: an execution that reads, or changes its place.
LEMMA ReadStep ==
    ASSUME CardInv, CardInv', RowInv, NEW a \in Actor, NEW x, actor' = [actor EXCEPT ![a] = x],
           UNCHANGED <<runs, taken>>, ActorRow(a)',
           Claimant(a)' => x.run = actor[a].run /\ Claimant(a),
           Replayer(a)' => x.run = actor[a].run /\ Replayer(a)
    PROVE  RowInv'
  <1>1. actor'[a] = x /\ actor'[a] \in ActorState /\ x.run \in Run
    BY DEF CardInv, TypeOK, ActorState
  <1> DEFINE r == x.run
  <1>2. Moves(a, r, x) /\ taken'[r] = taken[r]
    BY <1>1 DEF Moves
  <1>3. RowTame(r)
    BY <1>1, Untouched
  <1> QED
    BY <1>1, <1>2, <1>3, TameStep

LEMMA RowStops ==
    ASSUME CardInv, CardInv', RowInv, NEW a \in Actor, UNCHANGED <<runs, taken>>,
           actor' = [actor EXCEPT ![a] = IdleActor]
    PROVE  RowInv'
  <1>1. actor'[a] = IdleActor
    BY DEF CardInv, TypeOK
  <1> QED
    BY <1>1, IdleRow, ReadStep

\* An execution that gives up its claim.
LEMMA RowGivesUp ==
    ASSUME CardInv, CardInv', RowInv, NEW a \in Actor, UNCHANGED <<runs, taken>>, NEW x,
           actor' = [actor EXCEPT ![a] = x], x.pc \in {"fail", "review", "quarantine"},
           x.run = actor[a].run, x.att = actor[a].att, x.cur = actor[a].cur, ~x.replay
    PROVE  RowInv'
  <1>1. actor'[a] = x
    BY DEF CardInv, TypeOK
  <1>2. actor'[a].att <= Mine(a)'.attempt /\ actor'[a].cur <= Mine(a)'.cursor
    BY <1>1 DEF RowInv, ActorRow, Mine
  <1> QED
    BY <1>1, <1>2, BystanderRow, ReadStep DEF Acting, Taking

\* A request that has read a proof to send it again.
LEMMA RowReads ==
    ASSUME CardInv, CardInv', RowInv, NEW a \in Actor, NEW r \in Run, Replayable(runs[r]),
           UNCHANGED <<runs, taken>>, NEW x, actor' = [actor EXCEPT ![a] = x],
           x = [IdleActor EXCEPT !.pc = "claim", !.run = r, !.att = runs[r].attempt,
                                 !.proof = runs[r].proof, !.todo = Contents(runs[r].proof)]
    PROVE  RowInv'
  <1>1. IdleActor \in ActorState
    BY IdleSound DEF Sound, SoundWith
  <1>2. /\ x.pc = "claim" /\ x.run = r /\ x.att = runs[r].attempt /\ x.cur = 1 /\ ~x.replay
        /\ x.proof = runs[r].proof
    BY <1>1 DEF ActorState, IdleActor
  <1>3. actor'[a] = x /\ Mine(a)' = runs[r] /\ runs[r] \in RunRow
    BY <1>2 DEF CardInv, TypeOK, Mine
  <1>4. ~Claimant(a)' /\ ~Replayer(a)'
    BY <1>2, <1>3 DEF Claimant, Replayer, Acting, Taking
  <1>5. runs[r].status \in {"failed", "needs_review"} /\ ~runs[r].proof.refill
    BY DEF Replayable
  <1>6. actor'[a].att <= Mine(a)'.attempt /\ actor'[a].cur <= Mine(a)'.cursor
    <2>1. runs[r].attempt \in Nat /\ runs[r].cursor \in 1 .. 3
      BY <1>3 DEF RunRow
    <2>2. /\ actor'[a].att = runs[r].attempt /\ actor'[a].cur = 1
          /\ Mine(a)'.attempt = runs[r].attempt /\ Mine(a)'.cursor = runs[r].cursor
      BY <1>2, <1>3
    <2> QED
      BY <2>1, <2>2
  <1>7. SameContents(a)'
    BY <1>2, <1>3 DEF SameContents
  <1>8. ClaimRow(a)'
    BY <1>3, <1>5, <1>7 DEF ClaimRow
  <1>9. ClaimantRow(a)' /\ ReadyRow(a)' /\ ReplayRow(a)' /\ TakenKnown(a)'
    BY <1>2, <1>3, <1>4 DEF ClaimantRow, ReadyRow, ReplayRow, TakenKnown
  <1>10. ActorRow(a)'
    BY <1>6, <1>8, <1>9 DEF ActorRow
  <1> QED
    BY <1>4, <1>10, ReadStep

LEMMA RowRequests ==
    ASSUME CardInv, CardInv', RowInv, NEW a \in Actor, StartRefused(a) \/ RequestDelivery(a)
    PROVE  RowInv'
  <1>1. UNCHANGED <<runs, taken>>
    BY DEF StartRefused, RequestDelivery, history
  <1>2. CASE StartRefused(a)
    <2>1. CASE Replayable(runs["manual"])
      BY <1>1, <1>2, <2>1, EveryRun, RowReads DEF StartRefused, Set
    <2>2. CASE ~Replayable(runs["manual"])
      BY <1>1, <1>2, <2>2, RowStops DEF StartRefused, Set
    <2> QED
      BY <2>1, <2>2
  <1>3. CASE RequestDelivery(a)
    <2>1. PICK r \in Latest :
            \/ /\ r = "auto" /\ Deliverable(runs[r])
               /\ Set(a, [IdleActor EXCEPT !.pc = "start", !.run = "manual"])
            \/ /\ Replayable(runs[r])
               /\ Set(a, [IdleActor EXCEPT !.pc = "claim", !.run = r, !.att = runs[r].attempt,
                                           !.proof = runs[r].proof,
                                           !.todo = Contents(runs[r].proof)])
      BY <1>3 DEF RequestDelivery
    <2>2. r \in Run
      BY <2>1, EveryRun DEF Latest, CardInv, TypeOK
    <2>3. CASE Set(a, [IdleActor EXCEPT !.pc = "start", !.run = "manual"])
      <3> DEFINE x == [IdleActor EXCEPT !.pc = "start", !.run = "manual"]
      <3>1. IdleActor \in ActorState
        BY IdleSound DEF Sound, SoundWith
      <3>2. x.pc = "start" /\ x.run = "manual" /\ x.att = 0 /\ x.cur = 1 /\ ~x.replay
        BY <3>1 DEF ActorState, IdleActor
      <3>3. actor' = [actor EXCEPT ![a] = x]
        BY <2>3 DEF Set
      <3> HIDE DEF x
      <3>4. actor'[a] = x /\ Mine(a)' \in RunRow
        BY <1>1, <3>2, <3>3, EveryRun DEF CardInv, TypeOK, Mine
      <3>5. actor'[a].att <= Mine(a)'.attempt /\ actor'[a].cur <= Mine(a)'.cursor
        BY <3>2, <3>4 DEF RunRow
      <3>6. ActorRow(a)' /\ ~Claimant(a)' /\ ~Replayer(a)'
        BY <3>2, <3>4, <3>5, BystanderRow DEF Acting, Taking
      <3> QED
        BY <1>1, <3>3, <3>6, ReadStep
    <2>4. CASE /\ Replayable(runs[r])
               /\ Set(a, [IdleActor EXCEPT !.pc = "claim", !.run = r, !.att = runs[r].attempt,
                                           !.proof = runs[r].proof,
                                           !.todo = Contents(runs[r].proof)])
      BY <1>1, <2>2, <2>4, RowReads DEF Set
    <2> QED
      BY <2>1, <2>3, <2>4
  <1> QED
    BY <1>2, <1>3

LEMMA RowLoadRun ==
    ASSUME CardInv, CardInv', RowInv, NEW a \in Actor, LoadRun(a)
    PROVE  RowInv'
  <1> DEFINE p == IF Mine(a).proof.refill THEN "quarantine" ELSE "ready"
             x == [actor[a] EXCEPT !.pc = p, !.att = Mine(a).attempt, !.cur = Mine(a).cursor,
                                   !.sent = Mine(a).sent, !.proof = Mine(a).proof]
  <1>1. actor[a] \in ActorState /\ Mine(a) \in RunRow /\ Local(actor[a]) /\ actor[a].pc = "load"
    BY RowTypes DEF LoadRun, In
  <1>2. ~actor[a].replay
    BY <1>1 DEF Local, Resending, Taking
  <1>3. /\ x.pc = p /\ x.run = actor[a].run /\ x.proof = Mine(a).proof
        /\ x.replay = actor[a].replay /\ x.att = Mine(a).attempt /\ x.cur = Mine(a).cursor
    BY <1>1 DEF ActorState
  <1>4. p \in {"quarantine", "ready"} /\ (p = "ready" => ~Mine(a).proof.refill)
    OBVIOUS
  <1>5. actor' = [actor EXCEPT ![a] = x] /\ UNCHANGED <<runs, taken>>
    BY DEF LoadRun, Set, history
  <1> HIDE DEF p, x
  <1>6. actor'[a] = x /\ Mine(a)' = Mine(a)
    BY <1>3, <1>5 DEF CardInv, TypeOK, Mine
  <1>7. ~Claimant(a)' /\ ~Replayer(a)'
    BY <1>2, <1>3, <1>4, <1>6 DEF Claimant, Replayer, Acting, Taking
  <1>8. ActorRow(a)'
    BY <1>1, <1>3, <1>4, <1>6, <1>7
    DEF ActorRow, ClaimantRow, ReadyRow, ReplayRow, ClaimRow, TakenKnown, SameContents, RunRow
  <1> QED
    BY <1>5, <1>7, <1>8, ReadStep

LEMMA RowStartRunAction ==
    ASSUME CardInv, CardInv', RowInv, NEW a \in Actor, StartRunAction(a)
    PROVE  RowInv'
  <1>0. PICK r \in Run : r = actor[a].run
    BY RowTypes
  <1>1. /\ actor[a] \in ActorState /\ r = actor[a].run /\ Mine(a) = runs[r] /\ runs[r] \in RunRow
        /\ Local(actor[a]) /\ actor[a].pc = "ready" /\ ActorRow(a)
    BY <1>0, RowTypes DEF StartRunAction, In, RowInv
  <1>2. /\ ~actor[a].replay /\ Empty(actor[a].got) /\ actor[a].cur \in {1, 2}
        /\ actor[a].cur < 3 /\ actor[a].out = "none"
    BY <1>1 DEF StartRunAction, Local, Resending, Taking, ActorState
  <1>3. UNCHANGED taken
    BY DEF StartRunAction, history
  <1>4. CASE /\ Holds(a) /\ Mine(a).cursor = actor[a].cur /\ ~Mine(a).started
             /\ Write(actor[a].run, [Mine(a) EXCEPT !.started = TRUE, !.leased = TRUE])
             /\ Goto(a, IF actor[a].cur = 1 THEN "unit" ELSE "confirming")
    <2> DEFINE p == IF actor[a].cur = 1 THEN "unit" ELSE "confirming"
               x == [actor[a] EXCEPT !.pc = p]
               row == [Mine(a) EXCEPT !.started = TRUE, !.leased = TRUE]
    <2>1. /\ row \in RunRow /\ row.proof = runs[r].proof /\ row.started
          /\ row.status = runs[r].status /\ row.attempt = runs[r].attempt
          /\ row.cursor = runs[r].cursor
      BY <1>1 DEF RunRow
    <2>2. Write(r, row) /\ actor' = [actor EXCEPT ![a] = x]
      BY <1>1, <1>4 DEF Goto, Set
    <2>3. p \in Place /\ p \in Acting /\ (actor[a].cur = 1 => p = "unit")
          /\ (actor[a].cur = 2 => p = "confirming")
      BY DEF Place, Acting, Taking
    <2>4. /\ x.pc = p /\ x.run = r /\ x.replay = actor[a].replay /\ x.att = actor[a].att
          /\ x.cur = actor[a].cur /\ x.proof = actor[a].proof /\ x.got = actor[a].got
      BY <1>1, <2>3, PcSet
    <2> HIDE DEF p, x, row
    <2>5. Moves(a, r, x) /\ taken'[r] = taken[r]
      BY <1>1, <1>3, <2>1, <2>2, <2>4, OneRow
    <2>6. runs'[r] = row /\ actor'[a] = x /\ Mine(a)' = row
      BY <1>1, <2>2, <2>4 DEF Write, CardInv, TypeOK, Mine
    <2>7. /\ runs[r].status = "running" /\ runs[r].attempt = actor[a].att /\ Live(a)
          /\ runs[r].cursor = actor[a].cur /\ ~runs[r].started
      BY <1>0, <1>1, <1>4 DEF Holds, Live
    <2>8. SameContents(a) /\ ~runs[r].proof.refill
      BY <1>1, <1>2, <2>7 DEF ActorRow, ReadyRow
    <2>9. ASSUME NEW b \in Actor, b # a, actor[b].run = r
          PROVE  ~Writer(b)
      <3>1. Mine(b) = runs[r] /\ ActorRow(b) /\ Local(actor[b]) /\ actor[b].cur \in 1 .. 3
        BY <2>9, RowTypes DEF RowInv
      <3>2. ~Replayer(b)
        BY <1>2, <2>7, <3>1 DEF ActorRow, ReplayRow
      <3>3. ~Claimant(b)
        <4>1. Claimant(b) => actor[b].cur \in {1, 2}
          BY <3>1 DEF Claimant, Acting, Local
        <4> QED
          BY <1>2, <2>7, <3>1, <4>1 DEF ActorRow, ClaimantRow
      <3> QED
        BY <3>2, <3>3 DEF Writer
    <2>10. SameProof(r)
      BY <2>1, <2>6 DEF SameProof
    <2>11. ~Replayer(a)'
      BY <1>2, <2>4, <2>6 DEF Replayer
    <2>12. RowFresh(r) /\ RowComplete(r) /\ Cardinality(taken[r]) <= Units
      BY <1>1 DEF RowInv
    <2>13. RowFresh(r)'
      BY <2>1, <2>6 DEF RowFresh
    <2>14. RowComplete(r)'
      BY <2>1, <2>5, <2>6, <2>7, <2>12 DEF RowComplete
    <2>15. actor[a].cur = 1 => taken[r] = {} /\ Contents(runs[r].proof) = {}
      BY <2>7, <2>12 DEF RowFresh, Empty
    <2>16. ActorRow(a)'
      <3>1. actor'[a].att <= Mine(a)'.attempt /\ actor'[a].cur <= Mine(a)'.cursor
        BY <1>1, <2>1, <2>4, <2>6 DEF ActorRow
      <3>2. SameContents(a)' /\ ~Mine(a)'.proof.refill
        BY <1>1, <2>1, <2>4, <2>6, <2>8 DEF SameContents
      <3>3. ClaimantRow(a)'
        BY <1>2, <2>1, <2>4, <2>6, <2>7, <2>15, <3>2 DEF ClaimantRow
      <3>4. ReadyRow(a)' /\ ReplayRow(a)' /\ ClaimRow(a)'
        BY <2>3, <2>4, <2>6, <2>11 DEF ReadyRow, ReplayRow, ClaimRow, Acting, Taking
      <3>5. TakenKnown(a)'
        BY <2>4, <2>5, <2>6, <2>11, <2>15 DEF TakenKnown
      <3> QED
        BY <3>1, <3>3, <3>4, <3>5 DEF ActorRow
    <2>17. /\ runs'[r].attempt = runs[r].attempt
           /\ runs[r].status \notin {"canceled", "success"}
           /\ runs'[r].status \notin {"canceled", "absent"} /\ runs'[r].cursor = runs[r].cursor
           /\ runs[r].cursor \in 1 .. 3
      BY <1>1, <2>1, <2>6, <2>7 DEF RunRow
    <2>18. runs'[r].cursor >= runs[r].cursor
      BY <2>17
    <2> QED
      BY <1>1, <2>5, <2>7, <2>9, <2>10, <2>11, <2>12, <2>13, <2>14, <2>16, <2>17, <2>18,
         OutsiderStep
  <1>5. CASE Set(a, [actor[a] EXCEPT !.pc = "fail", !.out = "plain"]) /\ Unwritten
    <2> DEFINE x == [actor[a] EXCEPT !.pc = "fail", !.out = "plain"]
    <2>1. /\ x.pc = "fail" /\ x.run = r /\ x.replay = actor[a].replay /\ x.cur = actor[a].cur
          /\ x.att = actor[a].att
      BY <1>1 DEF ActorState
    <2>2. actor' = [actor EXCEPT ![a] = x] /\ UNCHANGED <<runs, taken>>
      BY <1>3, <1>5 DEF Set, Unwritten
    <2> HIDE DEF x
    <2> QED
      BY <1>1, <1>2, <2>1, <2>2, RowGivesUp
  <1> QED
    BY <1>4, <1>5 DEF StartRunAction

\* The step to another place in the same role; the proof it read stays.
LEMMA RoleStep ==
    ASSUME CardInv, CardInv', RowInv, NEW a \in Actor, NEW x, actor' = [actor EXCEPT ![a] = x],
           UNCHANGED <<runs, taken>>,
           x.run = actor[a].run, x.att = actor[a].att, x.cur = actor[a].cur,
           x.replay = actor[a].replay, x.proof = actor[a].proof,
           x.pc \notin {"ready", "claim"},
           x.pc \in Acting => actor[a].pc \in Acting,
           x.replay /\ x.pc # "release" => actor[a].pc # "release",
           x.replay /\ x.pc \in {"resend", "mark", "consign", "complete"} =>
               actor[a].pc \in {"resend", "mark", "consign", "complete"},
           x.replay /\ x.pc \in Taking \cup {"save"} => actor[a].pc \in Taking \cup {"save"},
           \/ x.out = "norestore" \/ x.pc = "release"
           \/ /\ actor[a].out # "norestore"
              /\ Contents(actor[a].proof) \cup Contents(actor[a].got) \cup Hand(a)
                   \subseteq Contents(x.proof) \cup Contents(x.got) \cup Hand(a)'
    PROVE  RowInv'
  <1>1. x.run \in Run /\ actor'[a] = x
    BY RowTypes DEF CardInv, TypeOK
  <1>2. runs'[x.run] = runs[x.run] /\ taken'[x.run] = taken[x.run]
    OBVIOUS
  <1>3. ActorRow(a)' /\ (Claimant(a)' => Claimant(a)) /\ (Replayer(a)' => Replayer(a))
    BY <1>2, RoleKept
  <1> QED
    BY <1>3, ReadStep

LEMMA RowFailed ==
    ASSUME CardInv, CardInv', RowInv, NEW a \in Actor, NEW y \in ActorState,
           actor' = [actor EXCEPT ![a] = Failed(y)], UNCHANGED <<runs, taken>>,
           actor[a].pc \in Taking \cup {"confirming"}, actor[a].pc = "confirming" => ~y.replay,
           y.run = actor[a].run, y.att = actor[a].att, y.cur = actor[a].cur,
           y.replay = actor[a].replay, y.proof = actor[a].proof,
           \/ y.out = "norestore"
           \/ /\ actor[a].out # "norestore"
              /\ Contents(actor[a].got) \cup Hand(a) \subseteq Contents(y.got)
    PROVE  RowInv'
  <1> DEFINE x == Failed(y)
  <1>1. /\ x.run = y.run /\ x.att = y.att /\ x.cur = y.cur /\ x.replay = y.replay
        /\ x.proof = y.proof /\ x.got = y.got /\ x.out = y.out
        /\ x.pc = IF y.replay THEN "save"
                  ELSE IF y.n > 0 \/ y.out \in {"uncertain", "norestore"} THEN "unsure"
                  ELSE "abort"
    BY FailedIs
  <1> HIDE DEF x
  <1>2. actor' = [actor EXCEPT ![a] = x]
    BY DEF x
  <1>3. x.pc \in {"save", "unsure", "abort"} /\ (x.replay => x.pc = "save")
    BY <1>1
  <1>4. \/ x.out = "norestore"
        \/ /\ actor[a].out # "norestore"
           /\ Contents(actor[a].proof) \cup Contents(actor[a].got) \cup Hand(a)
                \subseteq Contents(x.proof) \cup Contents(x.got) \cup Hand(a)'
    BY <1>1
  <1>5. /\ actor[a].pc \in Acting /\ actor[a].pc # "release"
        /\ x.replay => actor[a].pc \in Taking
    BY <1>1 DEF Acting, Taking
  <1>6. /\ x.run = actor[a].run /\ x.att = actor[a].att /\ x.cur = actor[a].cur
        /\ x.replay = actor[a].replay /\ x.proof = actor[a].proof
        /\ x.pc \notin {"ready", "claim"}
        /\ ~(x.replay /\ x.pc \in {"resend", "mark", "consign", "complete"})
    BY <1>1, <1>3
  <1> QED
    BY <1>2, <1>4, <1>5, <1>6, RoleStep

\* Who takes the cards of a run that still owes some.
LEMMA TakerKnows ==
    ASSUME CardInv, RowInv, NEW a \in Actor, actor[a].pc = "unit", Executing(a),
           actor[a].n < Need(a)
    PROVE  /\ Writer(a) /\ (Claimant(a) => actor[a].cur = 1)
           /\ taken[actor[a].run] \subseteq Contents(actor[a].proof) \cup Contents(actor[a].got)
           /\ Cardinality(taken[actor[a].run]) < Units
  <1> DEFINE P == Contents(actor[a].proof)
             G == actor[a].got.known
             T == taken[actor[a].run]
  <1>1. /\ actor[a] \in ActorState /\ Mine(a) \in RunRow /\ Local(actor[a]) /\ ActorRow(a)
        /\ actor[a].n \in Nat
    BY RowTypes DEF RowInv, ActorState
  <1>2. /\ actor[a].got.unsure = {} /\ actor[a].out = "none" /\ Cardinality(G) = actor[a].n
        /\ (~actor[a].replay => actor[a].cur = 1)
    BY <1>1 DEF Local, Taking, Acting, Resending
  <1>3. Live(a)
    BY DEF Executing, HoldsAction, Holds, Live
  <1>4. Claimant(a) \/ (Replayer(a) /\ actor[a].pc # "release")
    BY <1>3 DEF Claimant, Replayer, Acting, Taking
  <1>5. (Claimant(a) => actor[a].cur = 1) /\ ~(Claimant(a) /\ Replayer(a))
    BY <1>2 DEF Claimant, Replayer
  <1>6. Contents(actor[a].got) = G
    BY <1>2 DEF Contents
  <1>7. T \subseteq P \cup G
    BY <1>1, <1>2, <1>4, <1>5, <1>6 DEF ActorRow, TakenKnown, Hand, InTransit
  <1>8. P \in SUBSET Card /\ G \in SUBSET Card /\ T \in SUBSET Card
    BY <1>1 DEF ActorState, Proof, Contents, CardInv, TypeOK
  <1>9. /\ IsFiniteSet(P) /\ IsFiniteSet(G) /\ Cardinality(P) \in Nat /\ Cardinality(G) \in Nat
        /\ Cardinality(T) \in Nat
    BY <1>8, CardsFinite
  <1>10. Claimant(a) => P = {}
    BY <1>1, <1>5 DEF ActorRow, ClaimantRow, SameContents
  <1>11. Cardinality(P) + actor[a].n < Units
    <2>1. CASE Claimant(a)
      <3>1. ~actor[a].replay /\ actor[a].n < Units
        BY <2>1 DEF Claimant, Need
      <3>2. Cardinality(P) = 0
        BY <1>10, <2>1, FS_EmptySet
      <3> QED
        BY <1>1, <3>1, <3>2, OrderAssumption
    <2>2. CASE Replayer(a)
      <3>1. actor[a].n < Units - Cardinality(P)
        BY <2>2 DEF Replayer, Need, Missing
      <3> QED
        BY <1>1, <1>9, <3>1, OrderAssumption
    <2> QED
      BY <1>4, <2>1, <2>2
  <1>12. Cardinality(T) <= Cardinality(P) + Cardinality(G)
    <2> HIDE DEF P, G, T
    <2>1. P \cup G \in SUBSET Card /\ T \in SUBSET (P \cup G)
      BY <1>7, <1>8
    <2>2. Cardinality(T) <= Cardinality(P \cup G) /\ Cardinality(P \cup G) \in Nat
      BY <2>1, CardsFinite, FS_Subset
    <2>3. Cardinality(P \cup G) = Cardinality(P) + Cardinality(G) - Cardinality(P \cap G)
      BY <1>9, FS_Union
    <2>4. P \cap G \in SUBSET Card
      BY <1>8
    <2>5. Cardinality(P \cap G) \in Nat
      BY <2>4, CardsFinite
    <2> QED
      BY <1>9, <2>2, <2>3, <2>5
  <1>13. Cardinality(T) < Units
    BY <1>1, <1>2, <1>9, <1>11, <1>12, OrderAssumption
  <1> QED
    BY <1>4, <1>5, <1>6, <1>7, <1>13 DEF Writer

LEMMA RowTakeCard ==
    ASSUME CardInv, CardInv', RowInv, NEW a \in Actor, TakeCard(a)
    PROVE  RowInv'
  <1>0. PICK r \in Run : r = actor[a].run
    BY RowTypes
  <1>1. /\ actor[a] \in ActorState /\ Mine(a) = runs[r] /\ runs[r] \in RunRow
        /\ Local(actor[a]) /\ actor[a].pc = "unit" /\ ActorRow(a)
    BY <1>0, RowTypes DEF TakeCard, In, RowInv
  <1>2. actor[a].out = "none"
    BY <1>1 DEF Local, Taking
  <1>3. CASE /\ Executing(a) /\ stock # <<>> /\ stock' = Tail(stock)
             /\ taken' = [taken EXCEPT ![actor[a].run] = @ \cup {Head(stock)}]
             /\ Set(a, [actor[a] EXCEPT !.pc = "send", !.card = Head(stock)])
    <2> DEFINE c == Head(stock)
               x == [actor[a] EXCEPT !.pc = "send", !.card = c]
    <2>1. runs' = runs /\ taken' = [taken EXCEPT ![r] = @ \cup {c}] /\ actor' = [actor EXCEPT ![a] = x]
      BY <1>0, <1>3 DEF TakeCard, Set
    <2> HIDE DEF c
    <2>2. /\ x.pc = "send" /\ x.card = c /\ x.run = r /\ x.cur = actor[a].cur
          /\ x.replay = actor[a].replay /\ x.att = actor[a].att /\ x.out = actor[a].out
          /\ x.proof = actor[a].proof /\ x.got = actor[a].got
      BY <1>0, <1>1 DEF ActorState
    <2> HIDE DEF x
    <2>3. actor'[a] = x /\ Mine(a)' = runs[r] /\ taken'[r] = taken[r] \cup {c}
          /\ \A b \in Actor : b # a => actor'[b] = actor[b]
      BY <2>1, <2>2 DEF CardInv, TypeOK, Mine
    <2>4. /\ Writer(a) /\ (Claimant(a) => actor[a].cur = 1)
          /\ taken[r] \subseteq Contents(actor[a].proof) \cup Contents(actor[a].got)
          /\ Cardinality(taken[r]) < Units
      BY <1>0, <1>1, <1>3, TakerKnows DEF TakeCard
    <2>5. /\ runs[r].status = "running" /\ runs[r].started /\ Live(a)
      BY <1>1, <1>3 DEF Executing, HoldsAction, Holds, Live
    <2>6. Moves(a, r, x)
      BY <2>1, <2>2 DEF Moves, CardInv, TypeOK
    <2>7. (Claimant(a)' <=> Claimant(a)) /\ (Replayer(a)' <=> Replayer(a))
      <3>1. Live(a)' <=> Live(a)
        BY <1>1, <2>2, <2>3 DEF Live
      <3> QED
        BY <1>1, <2>2, <2>3, <3>1 DEF Claimant, Replayer, Acting, Taking
    <2>8. \A b \in Actor : b # a /\ actor[b].run = r => ~Writer(b)
      BY <1>0, <2>4 DEF RowInv, OneWriter, Writer
    <2>9. ~(Claimant(a) /\ Replayer(a))
      BY DEF Claimant, Replayer
    <2>10. SameProof(r)
      BY <2>1 DEF SameProof
    <2>11. \/ runs'[r].started /\ ~Claimant(a)'
           \/ SameProof(r) /\ (~runs[r].started \/ (actor[a].run = r /\ Claimant(a)))
      BY <1>0, <2>1, <2>5, <2>7, <2>10
    <2>12. \/ SameProof(r) /\ ~Replayer(a)'
           \/ \A b \in Actor : b # a /\ actor[b].run = r /\ actor[b].pc = "claim" => ~Live(b)
      <3> SUFFICES ASSUME Replayer(a), NEW b \in Actor, actor[b].run = r, actor[b].pc = "claim",
                          Live(b)
                   PROVE  FALSE
        BY <2>7, <2>10
      <3>1. Mine(b) = runs[r] /\ ActorRow(b)
        BY RowTypes DEF RowInv
      <3> QED
        BY <1>0, <2>5, <3>1 DEF ActorRow, ClaimRow
    <2>13. ActorRow(a)'
      <3>1. actor'[a].att <= Mine(a)'.attempt /\ actor'[a].cur <= Mine(a)'.cursor
        BY <1>1, <2>2, <2>3 DEF ActorRow
      <3>2. SameContents(a)' <=> SameContents(a)
        BY <1>1, <2>2, <2>3 DEF SameContents
      <3>3. ClaimantRow(a)'
        BY <1>1, <2>2, <2>3, <2>7, <3>2 DEF ActorRow, ClaimantRow
      <3>4. ReadyRow(a)' /\ ClaimRow(a)'
        BY <2>2, <2>3 DEF ReadyRow, ClaimRow
      <3>5. ReplayRow(a)'
        BY <1>1, <2>2, <2>3, <2>7, <3>2 DEF ActorRow, ReplayRow, Taking
      <3>6. Hand(a)' = {c}
        BY <2>2, <2>3 DEF Hand, InTransit
      <3>7. TakenKnown(a)'
        BY <2>2, <2>3, <2>4, <3>6 DEF TakenKnown
      <3> QED
        BY <3>1, <3>3, <3>4, <3>5, <3>7 DEF ActorRow
    <2>14. RowFresh(r)'
      BY <2>1, <2>5 DEF RowFresh
    <2>15. RowComplete(r)'
      <3>1. CASE Claimant(a)
        <4>1. runs[r].cursor = 1 /\ Contents(runs[r].proof) = {}
          BY <1>1, <2>4, <3>1 DEF ActorRow, ClaimantRow
        <4> QED
          BY <2>1, <2>5, <4>1 DEF RowComplete, Present
      <3>2. CASE Replayer(a)
        <4>1. runs[r].proof.refill
          BY <1>1, <3>2 DEF ActorRow, ReplayRow, Taking
        <4> QED
          BY <2>1, <4>1 DEF RowComplete
      <3> QED
        BY <2>4, <3>1, <3>2 DEF Writer
    <2>16. Cardinality(taken'[r]) <= Units
      <3>1. taken[r] \in SUBSET Card
        BY DEF CardInv, TypeOK
      <3>2. IsFiniteSet(taken[r]) /\ Cardinality(taken[r]) \in Nat
        BY <3>1, CardsFinite
      <3> DEFINE T == taken[r]
      <3> HIDE DEF T
      <3>4. Cardinality(T \cup {c}) = IF c \in T THEN Cardinality(T) ELSE Cardinality(T) + 1
        BY <3>2, FS_AddElement DEF T
      <3>3. Cardinality(taken'[r]) <= Cardinality(taken[r]) + 1 /\ Cardinality(taken'[r]) \in Nat
        BY <2>3, <3>2, <3>4 DEF T
      <3> QED
        BY <2>4, <3>2, <3>3, OrderAssumption
    <2>17. /\ runs'[r].attempt = runs[r].attempt
           /\ runs[r].status \notin {"canceled", "success"}
           /\ runs'[r].status \notin {"canceled", "absent"} /\ runs'[r].cursor = runs[r].cursor
           /\ runs[r].cursor \in 1 .. 3
      BY <1>1, <2>1, <2>5 DEF RunRow
    <2>18. runs'[r].cursor >= runs[r].cursor
      BY <2>17
    <2> QED
      BY <2>6, <2>8, <2>11, <2>12, <2>13, <2>14, <2>15, <2>16, <2>17, <2>18, OutsiderStep
  <1>4. CASE Set(a, Failed([actor[a] EXCEPT !.out = "plain"])) /\ UNCHANGED taken
    <2> DEFINE y == [actor[a] EXCEPT !.out = "plain"]
    <2>1. /\ y \in ActorState /\ y.out = "plain" /\ y.run = actor[a].run /\ y.cur = actor[a].cur
          /\ y.replay = actor[a].replay /\ y.att = actor[a].att
          /\ y.proof = actor[a].proof /\ y.got = actor[a].got
      BY <1>1 DEF ActorState, Outcome
    <2>2. actor' = [actor EXCEPT ![a] = Failed(y)] /\ UNCHANGED <<runs, taken>>
      BY <1>4 DEF Set, TakeCard
    <2> HIDE DEF y
    <2>3. Hand(a) = {}
      BY <1>1 DEF Hand, InTransit
    <2> QED
      BY <1>1, <1>2, <2>1, <2>2, <2>3, RowFailed DEF Taking
  <1> QED
    BY <1>3, <1>4 DEF TakeCard

LEMMA RowSendCard ==
    ASSUME CardInv, CardInv', RowInv, NEW a \in Actor, SendCard(a)
    PROVE  RowInv'
  <1> DEFINE c == actor[a].card
  <1>1. /\ actor[a] \in ActorState /\ Local(actor[a]) /\ actor[a].pc = "send"
        /\ actor[a].got \in Proof /\ actor[a].n \in Nat
    BY RowTypes DEF SendCard, In, ActorState
  <1>2. actor[a].out = "none" /\ Hand(a) = {c} /\ UNCHANGED <<runs, taken>>
    BY <1>1 DEF Local, Taking, Hand, InTransit, SendCard
  <1>3. c \in Card
    <2>1. actor[a].card \in taken[actor[a].run]
      BY <1>1 DEF CardInv, HandsApart, InTransit
    <2> QED
      BY <2>1, RowTypes DEF CardInv, TypeOK
  <1>4. CASE Set(a, [actor[a] EXCEPT !.pc = "restore", !.lost = ~Executing(a)])
    <2> DEFINE lost == ~Executing(a)
               x == [actor[a] EXCEPT !.pc = "restore", !.lost = lost]
    <2>1. actor' = [actor EXCEPT ![a] = x]
      BY <1>4 DEF Set
    <2> HIDE DEF lost
    <2>2. /\ x.pc = "restore" /\ x.run = actor[a].run /\ x.card = c /\ x.cur = actor[a].cur
          /\ x.replay = actor[a].replay /\ x.att = actor[a].att
          /\ x.proof = actor[a].proof /\ x.got = actor[a].got
      BY <1>1 DEF ActorState
    <2> HIDE DEF x
    <2>3. actor'[a] = x
      BY <2>1 DEF CardInv, TypeOK
    <2>4. Hand(a)' = {c}
      BY <2>2, <2>3 DEF Hand, InTransit
    <2> QED
      BY <1>1, <1>2, <2>1, <2>2, <2>4, RoleStep DEF Acting, Taking
  <1>5. CASE Set(a, [actor[a] EXCEPT !.pc = "unit", !.n = @ + 1, !.card = 0,
                                     !.got.raw = TRUE, !.got.known = @ \cup {c}])
    <2> DEFINE known == [actor[a].got EXCEPT !.raw = TRUE, !.known = @ \cup {c}]
               m == actor[a].n + 1
               x == [actor[a] EXCEPT !.pc = "unit", !.n = m, !.card = 0, !.got = known]
    <2>1. known.known = actor[a].got.known \cup {c} /\ known.unsure = actor[a].got.unsure
      BY <1>1 DEF Proof
    <2>2. actor' = [actor EXCEPT ![a] = x]
      BY <1>1, <1>5 DEF Set, ActorState, Proof
    <2> HIDE DEF known, m
    <2>3. /\ x.pc = "unit" /\ x.run = actor[a].run /\ x.cur = actor[a].cur
          /\ x.replay = actor[a].replay /\ x.att = actor[a].att
          /\ x.proof = actor[a].proof /\ x.got = known
      BY <1>1 DEF ActorState
    <2> HIDE DEF x
    <2>4. Contents(actor[a].got) \cup Hand(a) \subseteq Contents(x.got)
      BY <1>2, <2>1, <2>3 DEF Contents
    <2> QED
      BY <1>1, <1>2, <2>2, <2>3, <2>4, RoleStep DEF Acting, Taking
  <1>6. CASE Set(a, Failed([actor[a] EXCEPT !.out = "uncertain",
                                            !.got.raw = TRUE, !.got.unsure = @ \cup {c}]))
    <2> DEFINE unsure == [actor[a].got EXCEPT !.raw = TRUE, !.unsure = @ \cup {c}]
               y == [actor[a] EXCEPT !.out = "uncertain", !.got = unsure]
    <2>1. /\ unsure \in Proof /\ unsure.known = actor[a].got.known
          /\ unsure.unsure = actor[a].got.unsure \cup {c}
      BY <1>1, <1>3 DEF Proof
    <2>2. actor' = [actor EXCEPT ![a] = Failed(y)]
      BY <1>1, <1>6 DEF Set, ActorState, Proof
    <2> HIDE DEF unsure
    <2>3. /\ y \in ActorState /\ y.run = actor[a].run /\ y.cur = actor[a].cur
          /\ y.replay = actor[a].replay /\ y.out = "uncertain" /\ y.att = actor[a].att
          /\ y.proof = actor[a].proof /\ y.got = unsure
      BY <1>1, <2>1 DEF ActorState, Outcome
    <2> HIDE DEF y
    <2>4. Contents(actor[a].got) \cup Hand(a) \subseteq Contents(y.got)
      BY <1>2, <2>1, <2>3 DEF Contents
    <2> QED
      BY <1>1, <1>2, <2>2, <2>3, <2>4, RowFailed DEF Taking
  <1> QED
    BY <1>4, <1>5, <1>6 DEF SendCard

LEMMA RowRestoreCard ==
    ASSUME CardInv, CardInv', RowInv, NEW a \in Actor, RestoreCard(a)
    PROVE  RowInv'
  <1> DEFINE c == actor[a].card
  <1>0. PICK r \in Run : r = actor[a].run
    BY RowTypes
  <1>1. /\ actor[a] \in ActorState /\ Local(actor[a]) /\ actor[a].pc = "restore"
        /\ actor[a].got \in Proof
    BY RowTypes DEF RestoreCard, In, ActorState
  <1>2. actor[a].out = "none" /\ Hand(a) = {c} /\ UNCHANGED runs
    BY <1>1 DEF Local, Taking, Hand, InTransit, RestoreCard
  <1>3. CASE /\ taken' = [taken EXCEPT ![actor[a].run] = @ \ {actor[a].card}]
             /\ Set(a, Failed([actor[a] EXCEPT !.out = "notsent", !.card = 0]))
    <2> DEFINE y == [actor[a] EXCEPT !.out = "notsent", !.card = 0]
               x == Failed(y)
    <2>1. 0 \in 0 .. Supply
      BY OrderAssumption
    <2>2. /\ y \in ActorState /\ y.out = "notsent" /\ y.run = r /\ y.cur = actor[a].cur
          /\ y.replay = actor[a].replay /\ y.att = actor[a].att
          /\ y.proof = actor[a].proof /\ y.got = actor[a].got
      BY <1>0, <1>1, <2>1 DEF ActorState, Outcome
    <2>3. actor' = [actor EXCEPT ![a] = x]
      BY <1>3 DEF Set
    <2> HIDE DEF y
    <2>4. /\ x.run = r /\ x.att = actor[a].att /\ x.cur = actor[a].cur
          /\ x.replay = actor[a].replay /\ x.proof = actor[a].proof /\ x.got = actor[a].got
          /\ x.out = "notsent"
          /\ x.pc \in {"save", "unsure", "abort"} /\ (x.replay => x.pc = "save")
      BY <2>2, FailedIs
    <2> HIDE DEF x
    <2>5. /\ taken'[r] = taken[r] \ {c} /\ \A q \in Run : q # r => taken'[q] = taken[q]
      BY <1>0, <1>3 DEF CardInv, TypeOK
    <2>6. /\ actor[a].out # "norestore"
          /\ taken[r] \subseteq Contents(actor[a].proof) \cup Contents(actor[a].got) \cup Hand(a)
               => taken'[r] \subseteq Contents(x.proof) \cup Contents(x.got) \cup Hand(a)'
      BY <1>2, <2>4, <2>5
    <2>7. actor[a].pc \in Acting /\ actor[a].pc \in Taking /\ actor[a].pc # "release"
      BY <1>1 DEF Acting, Taking
    <2>8. /\ x.pc \notin {"ready", "claim"}
          /\ ~(x.replay /\ x.pc \in {"resend", "mark", "consign", "complete"})
      BY <2>4
    <2>9. ActorRow(a)' /\ (Claimant(a)' => Claimant(a)) /\ (Replayer(a)' => Replayer(a))
      BY <1>0, <1>2, <2>3, <2>4, <2>6, <2>7, <2>8, RoleKept
    <2>10. RowTame(r) /\ Moves(a, r, x)
      BY <1>2, <2>3, <2>4, <2>5, Untouched DEF Moves
    <2> QED
      BY <1>0, <2>5, <2>9, <2>10, TameStep
  <1>4. CASE Set(a, Failed([actor[a] EXCEPT !.out = "norestore", !.got.refill = TRUE]))
             /\ UNCHANGED taken
    <2> DEFINE mark == [actor[a].got EXCEPT !.refill = TRUE]
               y == [actor[a] EXCEPT !.out = "norestore", !.got = mark]
    <2>1. mark \in Proof
      BY <1>1 DEF Proof
    <2>2. actor' = [actor EXCEPT ![a] = Failed(y)] /\ UNCHANGED <<runs, taken>>
      BY <1>1, <1>2, <1>4 DEF Set, ActorState, Proof
    <2> HIDE DEF mark
    <2>3. /\ y \in ActorState /\ y.out = "norestore" /\ y.run = actor[a].run
          /\ y.cur = actor[a].cur /\ y.replay = actor[a].replay /\ y.att = actor[a].att
          /\ y.proof = actor[a].proof
      BY <1>1, <2>1 DEF ActorState, Outcome
    <2> HIDE DEF y
    <2> QED
      BY <1>1, <2>2, <2>3, RowFailed DEF Taking
  <1> QED
    BY <1>3, <1>4 DEF RestoreCard

LEMMA RowPlaces ==
    ASSUME CardInv, CardInv', RowInv, NEW a \in Actor,
           CardsDone(a) \/ ConfirmShipment(a) \/ ConsignReplay(a)
    PROVE  RowInv'
  <1>1. actor[a] \in ActorState /\ Local(actor[a]) /\ UNCHANGED <<runs, taken>>
    BY RowTypes DEF CardsDone, ConfirmShipment, ConsignReplay, history
  <1>2. ASSUME NEW p \in Place, actor' = [actor EXCEPT ![a] = [actor[a] EXCEPT !.pc = p]],
               actor[a].out = "none" \/ p = "release", Hand(a) = {} \/ p = "release",
               \/ actor[a].pc = "unit" /\ p = IF actor[a].replay THEN "save" ELSE "advance"
               \/ actor[a].pc = "confirming" /\ p = "advance" /\ ~actor[a].replay
               \/ actor[a].pc = "consign" /\ p \in {"complete", "release"} /\ actor[a].replay
        PROVE  RowInv'
    <2> DEFINE x == [actor[a] EXCEPT !.pc = p]
    <2>1. /\ x.pc = p /\ x.run = actor[a].run /\ x.cur = actor[a].cur /\ x.out = actor[a].out
          /\ x.replay = actor[a].replay /\ x.att = actor[a].att
          /\ x.proof = actor[a].proof /\ x.got = actor[a].got
      BY <1>1, PcSet
    <2>2. actor' = [actor EXCEPT ![a] = x]
      BY <1>2
    <2> HIDE DEF x
    <2>3. /\ x.pc \notin {"ready", "claim"} /\ (x.pc \in Acting => actor[a].pc \in Acting)
          /\ (x.replay /\ x.pc # "release" => actor[a].pc # "release")
          /\ (x.replay /\ x.pc \in {"resend", "mark", "consign", "complete"} =>
                 actor[a].pc \in {"resend", "mark", "consign", "complete"})
          /\ (x.replay /\ x.pc \in Taking \cup {"save"} => actor[a].pc \in Taking \cup {"save"})
      BY <1>2, <2>1 DEF Acting, Taking
    <2>4. \/ x.pc = "release"
          \/ /\ actor[a].out # "norestore"
             /\ Contents(actor[a].proof) \cup Contents(actor[a].got) \cup Hand(a)
                  \subseteq Contents(x.proof) \cup Contents(x.got) \cup Hand(a)'
      BY <1>2, <2>1
    <2> QED
      BY <1>1, <2>1, <2>2, <2>3, <2>4, RoleStep
  <1>3. CASE CardsDone(a)
    <2> DEFINE p == IF actor[a].replay THEN "save" ELSE "advance"
    <2>1. actor[a].pc = "unit" /\ actor[a].out = "none" /\ Hand(a) = {}
      BY <1>1, <1>3 DEF CardsDone, In, Local, Taking, Hand, InTransit
    <2>2. p \in Place
      BY DEF Place
    <2>3. actor' = [actor EXCEPT ![a] = [actor[a] EXCEPT !.pc = p]]
      BY <1>3 DEF CardsDone, Goto, Set
    <2> QED
      BY <1>2, <2>1, <2>2, <2>3
  <1>4. CASE ConfirmShipment(a)
    <2>1. /\ actor[a].pc = "confirming" /\ actor[a].out = "none" /\ Hand(a) = {}
          /\ ~actor[a].replay
      BY <1>1, <1>4 DEF ConfirmShipment, In, Local, Taking, Resending, Hand, InTransit
    <2>2. CASE Goto(a, "advance")
      <3>1. "advance" \in Place
        BY DEF Place
      <3> QED
        BY <1>2, <2>1, <2>2, <3>1 DEF Goto, Set
    <2>3. CASE \E out \in {"plain", "notsent", "uncertain"} :
                  Set(a, Failed([actor[a] EXCEPT !.out = out]))
      <3>1. PICK out \in {"plain", "notsent", "uncertain"} :
               Set(a, Failed([actor[a] EXCEPT !.out = out]))
        BY <2>3
      <3> DEFINE y == [actor[a] EXCEPT !.out = out]
      <3>2. /\ y \in ActorState /\ y.run = actor[a].run /\ y.cur = actor[a].cur
            /\ y.replay = actor[a].replay /\ y.att = actor[a].att
            /\ y.proof = actor[a].proof /\ y.got = actor[a].got
        BY <1>1 DEF ActorState, Outcome
      <3>3. actor' = [actor EXCEPT ![a] = Failed(y)]
        BY <3>1 DEF Set
      <3> HIDE DEF y
      <3> QED
        BY <1>1, <2>1, <3>2, <3>3, RowFailed
    <2> QED
      BY <1>4, <2>2, <2>3 DEF ConfirmShipment
  <1>5. CASE ConsignReplay(a)
    <2>1. actor[a].pc = "consign" /\ actor[a].out = "none" /\ Hand(a) = {} /\ actor[a].replay
      BY <1>1, <1>5 DEF ConsignReplay, In, Local, Resending, Hand, InTransit
    <2>2. "complete" \in Place /\ "release" \in Place
      BY DEF Place
    <2>3. \E p \in {"complete", "release"} : actor' = [actor EXCEPT ![a] = [actor[a] EXCEPT !.pc = p]]
      BY <1>5 DEF ConsignReplay, Goto, Set
    <2> QED
      BY <1>2, <2>1, <2>2, <2>3
  <1> QED
    BY <1>3, <1>4, <1>5

\* An execution that records its action and goes on with the next one.
LEMMA RowBegins ==
    ASSUME CardInv, CardInv', RowInv, NEW a \in Actor, NEW p \in Proof, NEW x, Begins(x, a, p),
           Advanced(a, p), actor' = [actor EXCEPT ![a] = x], UNCHANGED taken,
           actor[a].pc \in {"advance", "unsure"}, actor[a].out # "norestore",
           HoldsAction(a), Mine(a).cursor = actor[a].cur, ~p.refill,
           Contents(p) = Contents(actor[a].proof) \cup Contents(actor[a].got)
    PROVE  RowInv'
  <1>0. PICK r \in Run : r = actor[a].run
    BY RowTypes
  <1>1. /\ actor[a] \in ActorState /\ Mine(a) = runs[r] /\ runs[r] \in RunRow
        /\ Local(actor[a]) /\ ActorRow(a)
    BY <1>0, RowTypes DEF RowInv
  <1>2. /\ ~actor[a].replay /\ actor[a].cur \in {1, 2}
        /\ (actor[a].cur = 2 => Contents(actor[a].got) = {})
    BY <1>1 DEF Local, Resending, Taking, Empty
  <1>3. PICK row \in RunRow :
          /\ Write(r, row) /\ row.proof = p /\ row.cursor = runs[r].cursor + 1
          /\ row.attempt = runs[r].attempt /\ row.status = runs[r].status /\ ~row.started
    BY <1>0, <1>1, <1>2, AdvancedIs
  <1>4. /\ x.pc = "ready" /\ x.run = r /\ x.att = actor[a].att /\ x.cur = actor[a].cur + 1
        /\ ~x.replay /\ x.proof = p
    BY <1>0, <1>2 DEF Begins
  <1>5. Moves(a, r, x) /\ taken'[r] = taken[r]
    BY <1>3, <1>4, OneRow
  <1>6. runs'[r] = row /\ actor'[a] = x /\ Mine(a)' = row
    BY <1>3, <1>4 DEF Write, CardInv, TypeOK, Mine
  <1>7. /\ runs[r].status = "running" /\ runs[r].attempt = actor[a].att /\ Live(a)
        /\ runs[r].cursor = actor[a].cur
    BY <1>0, <1>1 DEF HoldsAction, Holds, Live
  <1>8. Claimant(a)
    BY <1>2, <1>7 DEF Claimant, Acting
  <1>9. /\ Contents(runs[r].proof) = Contents(actor[a].proof) /\ ~runs[r].proof.refill
        /\ (actor[a].cur = 1 => Contents(runs[r].proof) = {})
    BY <1>1, <1>8 DEF ActorRow, ClaimantRow, SameContents
  <1>10. \A b \in Actor : b # a /\ actor[b].run = r => ~Writer(b)
    BY <1>0, <1>8 DEF RowInv, OneWriter, Writer
  <1>11. ~Claimant(a)' /\ ~Replayer(a)'
    BY <1>4, <1>6 DEF Claimant, Replayer, Acting, Taking
  <1>12. \/ SameProof(r) /\ ~(runs'[r].status = "running" /\ runs'[r].started)
         \/ \A b \in Actor : b # a /\ actor[b].run = r /\ actor[b].pc = "claim" => ~Live(b)
    <2>1. CASE actor[a].cur = 1
      <3> SUFFICES ASSUME NEW b \in Actor, actor[b].run = r, actor[b].pc = "claim", Live(b)
                   PROVE  FALSE
        OBVIOUS
      <3>1. Mine(b) = runs[r] /\ ActorRow(b) /\ Local(actor[b])
        BY RowTypes DEF RowInv
      <3> QED
        BY <1>9, <2>1, <3>1 DEF ActorRow, ClaimRow, SameContents, Local, Present
    <2>2. CASE actor[a].cur = 2
      <3>1. Contents(runs'[r].proof) = Contents(runs[r].proof)
        BY <1>2, <1>3, <1>6, <1>9, <2>2
      <3>2. runs'[r].proof.refill = FALSE /\ runs[r].proof.refill = FALSE
        BY <1>1, <1>3, <1>6, <1>9 DEF RunRow, Proof
      <3> QED
        BY <1>3, <1>6, <3>1, <3>2 DEF SameProof
    <2> QED
      BY <1>2, <2>1, <2>2
  <1>13. ActorRow(a)'
    <2>1. actor'[a].att <= Mine(a)'.attempt /\ actor'[a].cur <= Mine(a)'.cursor
      BY <1>1, <1>3, <1>4, <1>6, <1>7 DEF ActorState, RunRow
    <2>2. SameContents(a)' /\ ~Mine(a)'.proof.refill
      BY <1>3, <1>4, <1>6 DEF SameContents
    <2> QED
      BY <1>4, <1>6, <1>11, <2>1, <2>2
      DEF ActorRow, ClaimantRow, ReadyRow, ReplayRow, ClaimRow, TakenKnown
  <1>14. RowFresh(r)'
    BY <1>1, <1>3, <1>6 DEF RowFresh, RunRow
  <1>15. RowComplete(r)'
    <2>1. taken[r] \subseteq Contents(p)
      <3>1. CASE actor[a].cur = 1
        BY <1>0, <1>1, <1>8, <3>1 DEF ActorRow, TakenKnown, Hand, InTransit
      <3>2. CASE actor[a].cur = 2
        BY <1>7, <1>9, <3>2 DEF RowInv, RowComplete
      <3> QED
        BY <1>2, <3>1, <3>2
    <2> QED
      BY <1>3, <1>5, <1>6, <2>1 DEF RowComplete
  <1>16. runs'[r].cursor > runs[r].cursor /\ Cardinality(taken'[r]) <= Units
    BY <1>1, <1>3, <1>5, <1>6 DEF RunRow, RowInv
  <1>17. /\ runs'[r].attempt = runs[r].attempt
         /\ runs[r].status \notin {"canceled", "success"}
         /\ runs'[r].status \notin {"canceled", "absent"} /\ runs'[r].cursor >= runs[r].cursor
    BY <1>1, <1>3, <1>6, <1>7, <1>16 DEF RunRow
  <1> QED
    BY <1>5, <1>10, <1>12, <1>13, <1>14, <1>15, <1>16, <1>17, OutsiderStep

LEMMA RowAdvanceRunAction ==
    ASSUME CardInv, CardInv', RowInv, NEW a \in Actor, AdvanceRunAction(a)
    PROVE  RowInv'
  <1> DEFINE p == Merge(actor[a].proof, actor[a].got)
  <1>1. actor[a] \in ActorState /\ Local(actor[a]) /\ UNCHANGED taken
    BY RowTypes DEF AdvanceRunAction, history
  <1>2. /\ actor[a].pc = "advance" /\ actor[a].cur \in {1, 2} /\ ~actor[a].got.refill
        /\ ~actor[a].replay /\ ~actor[a].proof.refill /\ actor[a].out = "none"
        /\ actor[a].proof \in Proof /\ actor[a].got \in Proof
    BY <1>1 DEF AdvanceRunAction, In, Local, Resending, Taking, Acting, ActorState
  <1>3. CASE /\ HoldsAction(a) /\ Mine(a).cursor = actor[a].cur /\ Advanced(a, p)
             /\ Set(a, NextAction(a, p))
    <2>1. /\ p \in Proof /\ ~p.refill
          /\ Contents(p) = Contents(actor[a].proof) \cup Contents(actor[a].got)
      BY <1>2, MergeIs
    <2> HIDE DEF p
    <2> DEFINE x == NextAction(a, p)
    <2>2. Begins(x, a, p) /\ actor' = [actor EXCEPT ![a] = x]
      BY <1>1, <1>2, <1>3, <2>1, NextIs DEF Set
    <2> HIDE DEF x
    <2> QED
      BY <1>1, <1>2, <1>3, <2>1, <2>2, RowBegins
  <1>4. CASE Goto(a, "quarantine") /\ Unwritten
    <2> DEFINE x == [actor[a] EXCEPT !.pc = "quarantine"]
    <2>1. "quarantine" \in Place
      BY DEF Place
    <2>2. /\ x.pc = "quarantine" /\ x.run = actor[a].run /\ x.replay = actor[a].replay
          /\ x.cur = actor[a].cur /\ x.att = actor[a].att
      BY <1>1, <2>1, PcSet
    <2>3. actor' = [actor EXCEPT ![a] = x] /\ UNCHANGED <<runs, taken>>
      BY <1>1, <1>4 DEF Goto, Set, Unwritten
    <2> HIDE DEF x
    <2> QED
      BY <1>2, <2>2, <2>3, RowGivesUp
  <1> QED
    BY <1>3, <1>4 DEF AdvanceRunAction

LEMMA RowQuarantineRun ==
    ASSUME CardInv, CardInv', RowInv, NEW a \in Actor, QuarantineRun(a)
    PROVE  RowInv'
  <1>1. /\ actor' = [actor EXCEPT ![a] = IdleActor] /\ UNCHANGED taken
    BY DEF QuarantineRun, Set, history
  <1>0. PICK r \in Run : r = actor[a].run
    BY RowTypes
  <1>2. CASE Unwritten
    BY <1>1, <1>2, RowStops DEF Unwritten
  <1>3. CASE /\ Quarantinable(a)
             /\ Write(actor[a].run,
                      [UnderReview(actor[a].run) EXCEPT
                          !.sent = IF In(a, "review") THEN actor[a].sent ELSE @])
    <2> DEFINE sent == IF In(a, "review") THEN actor[a].sent ELSE UnderReview(r).sent
               row == [UnderReview(r) EXCEPT !.sent = sent]
    <2>1. runs[r] \in RunRow /\ Mine(a) = runs[r] /\ actor[a] \in ActorState
          /\ UnderReview(r) \in RunRow
      BY <1>0, RowTypes, RowStates
    <2>2. sent \in Nat
      BY <2>1 DEF RunRow, ActorState
    <2>3. Write(r, row)
      BY <1>0, <1>3, <2>1 DEF RunRow
    <2> HIDE DEF sent
    <2>4. /\ UnderReview(r).status = "needs_review" /\ UnderReview(r).proof = runs[r].proof
          /\ UnderReview(r).attempt = runs[r].attempt /\ UnderReview(r).cursor = runs[r].cursor
          /\ UnderReview(r).started = runs[r].started
      BY <2>1 DEF UnderReview, RunRow
    <2>5. /\ row \in RunRow /\ row.status = "needs_review" /\ row.proof = runs[r].proof
          /\ row.attempt = runs[r].attempt /\ row.cursor = runs[r].cursor
          /\ row.started = runs[r].started
      BY <2>1, <2>2, <2>4 DEF RunRow
    <2> HIDE DEF row
    <2>6. runs'[r] = row /\ actor'[a] = IdleActor
      BY <1>1, <2>3 DEF Write, CardInv, TypeOK
    <2>7. runs[r].status \in {"running", "failed"}
      BY <1>3, <2>1 DEF Quarantinable
    <2>8. RowTame(r)
      BY <2>5, <2>6, <2>7 DEF RowTame, SameProof
    <2>9. Moves(a, r, IdleActor) /\ taken'[r] = taken[r]
      BY <1>1, <2>3, <2>5, OneRow DEF IdleActor
    <2> QED
      BY <2>6, <2>8, <2>9, IdleRow, TameStep
  <1> QED
    BY <1>2, <1>3 DEF QuarantineRun

\* An action whose outcome is unknown ends under review, with all that it has sent.
LEMMA RowReviewed ==
    ASSUME CardInv, CardInv', RowInv, NEW a \in Actor, NEW p \in Proof, NEW total \in Nat,
           Quarantinable(a), Set(a, IdleActor), UNCHANGED taken,
           Write(actor[a].run, [UnderReview(actor[a].run) EXCEPT !.sent = total, !.proof = p]),
           actor[a].pc = "unsure", actor[a].cur \in {1, 2}, ~actor[a].replay,
           p.refill <=> actor[a].out = "norestore",
           actor[a].got.refill <=> actor[a].out = "norestore",
           actor[a].cur = 2 => Empty(actor[a].got),
           Contents(p) = Contents(actor[a].proof) \cup Contents(actor[a].got)
    PROVE  RowInv'
  <1>0. PICK r \in Run : r = actor[a].run
    BY RowTypes
  <1>1. /\ actor[a] \in ActorState /\ Mine(a) = runs[r] /\ runs[r] \in RunRow
        /\ Local(actor[a]) /\ ActorRow(a) /\ UnderReview(r) \in RunRow
    BY <1>0, RowTypes, RowStates DEF RowInv
  <1> DEFINE row == [UnderReview(r) EXCEPT !.sent = total, !.proof = p]
  <1>2. /\ UnderReview(r).status = "needs_review" /\ UnderReview(r).started = runs[r].started
        /\ UnderReview(r).attempt = runs[r].attempt /\ UnderReview(r).cursor = runs[r].cursor
    BY <1>1 DEF UnderReview, RunRow
  <1>3. /\ row \in RunRow /\ row.status = "needs_review" /\ row.proof = p
        /\ row.attempt = runs[r].attempt /\ row.cursor = runs[r].cursor
        /\ row.started = runs[r].started
    BY <1>1, <1>2 DEF RunRow
  <1>4. Write(r, row) /\ actor' = [actor EXCEPT ![a] = IdleActor]
    BY <1>0 DEF Set
  <1> HIDE DEF row
  <1>5. runs'[r] = row /\ actor'[a] = IdleActor
    BY <1>4 DEF Write, CardInv, TypeOK
  <1>6. Moves(a, r, IdleActor) /\ taken'[r] = taken[r]
    BY <1>3, <1>4, OneRow DEF IdleActor
  <1>7. /\ runs[r].status \in {"running", "failed"} /\ runs[r].attempt = actor[a].att /\ Live(a)
    BY <1>0, <1>1 DEF Quarantinable, Live
  <1>8. Claimant(a)
    BY <1>7 DEF Claimant, Acting
  <1>9. /\ Contents(runs[r].proof) = Contents(actor[a].proof) /\ ~runs[r].proof.refill
        /\ actor[a].cur = 1 =>
             Contents(runs[r].proof) = {} /\ runs[r].started /\ runs[r].cursor = 1
        /\ actor[a].cur = 2 => runs[r].cursor >= 2
    BY <1>1, <1>8 DEF ActorRow, ClaimantRow, SameContents
  <1>10. \A b \in Actor : b # a /\ actor[b].run = r => ~Writer(b)
    BY <1>0, <1>8 DEF RowInv, OneWriter, Writer
  <1>11. ActorRow(a)' /\ ~Claimant(a)' /\ ~Replayer(a)'
    BY <1>5, IdleRow
  <1>12. actor[a].cur = 2 => SameProof(r)
    <2> SUFFICES ASSUME actor[a].cur = 2 PROVE SameProof(r)
      OBVIOUS
    <2>1. Contents(runs'[r].proof) = Contents(runs[r].proof)
      BY <1>3, <1>5, <1>9 DEF Empty
    <2>2. actor[a].out # "norestore"
      BY DEF Empty
    <2>3. runs'[r].proof.refill = FALSE /\ runs[r].proof.refill = FALSE
      BY <1>1, <1>3, <1>5, <1>9, <2>2 DEF RunRow, Proof
    <2> QED
      BY <2>1, <2>3 DEF SameProof
  <1>13. \/ runs'[r].started /\ ~Claimant(a)'
         \/ SameProof(r) /\ actor[a].run = r /\ Claimant(a)
    BY <1>0, <1>3, <1>5, <1>8, <1>9, <1>11, <1>12
  <1>14. \/ SameProof(r) /\ ~Replayer(a)'
         \/ \A b \in Actor : b # a /\ actor[b].run = r /\ actor[b].pc = "claim" => ~Live(b)
    <2> SUFFICES ASSUME actor[a].cur = 1, NEW b \in Actor, actor[b].run = r,
                        actor[b].pc = "claim", Live(b)
                 PROVE  FALSE
      BY <1>11, <1>12
    <2>1. Mine(b) = runs[r] /\ ActorRow(b) /\ Local(actor[b])
      BY RowTypes DEF RowInv
    <2> QED
      BY <1>9, <2>1 DEF ActorRow, ClaimRow, SameContents, Local, Present
  <1>15. RowFresh(r)'
    BY <1>3, <1>5, <1>9 DEF RowFresh
  <1>16. RowComplete(r)'
    <2> SUFFICES ASSUME ~p.refill PROVE taken[r] \subseteq Contents(p)
      BY <1>3, <1>5, <1>6 DEF RowComplete
    <2>1. CASE actor[a].cur = 1
      BY <1>0, <1>1, <1>8, <2>1 DEF ActorRow, TakenKnown, Hand, InTransit
    <2>2. CASE actor[a].cur = 2
      BY <1>7, <1>9, <2>2 DEF RowInv, RowComplete
    <2> QED
      BY <2>1, <2>2
  <1>17. /\ runs'[r].attempt = runs[r].attempt /\ Cardinality(taken'[r]) <= Units
         /\ runs[r].status \notin {"canceled", "success"}
         /\ runs'[r].status \notin {"canceled", "absent"} /\ runs'[r].cursor = runs[r].cursor
         /\ runs[r].cursor \in 1 .. 3
    BY <1>1, <1>3, <1>5, <1>6, <1>7 DEF RunRow, RowInv
  <1>18. runs'[r].cursor >= runs[r].cursor
    BY <1>17
  <1> QED
    BY <1>6, <1>10, <1>11, <1>13, <1>14, <1>15, <1>16, <1>17, <1>18, OutsiderStep

LEMMA RowSettleUnsure ==
    ASSUME CardInv, CardInv', RowInv, NEW a \in Actor, SettleUnsure(a)
    PROVE  RowInv'
  <1> DEFINE m == Merge(actor[a].proof, actor[a].got)
             p == Stored(m)
             total == actor[a].sent + actor[a].n
  <1>1. actor[a] \in ActorState /\ Local(actor[a]) /\ UNCHANGED taken
    BY RowTypes DEF SettleUnsure, history
  <1>2. /\ actor[a].pc = "unsure" /\ actor[a].cur \in {1, 2}
        /\ (actor[a].got.refill <=> actor[a].out = "norestore")
        /\ ~actor[a].replay /\ ~actor[a].proof.refill
        /\ actor[a].proof \in Proof /\ actor[a].got \in Proof
        /\ (actor[a].cur = 2 => Empty(actor[a].got))
    BY <1>1 DEF SettleUnsure, In, Local, Resending, Taking, Acting, ActorState
  <1>4. /\ m \in Proof /\ (m.refill <=> actor[a].out = "norestore")
        /\ Contents(m) = Contents(actor[a].proof) \cup Contents(actor[a].got)
    BY <1>2, MergeIs
  <1>7. \/ /\ actor[a].cur = 1 /\ actor[a].out \in {"plain", "uncertain"}
           /\ HoldsAction(a) /\ Mine(a).cursor = actor[a].cur /\ Advanced(a, p)
           /\ Set(a, [NextAction(a, p) EXCEPT !.unsafe = TRUE])
        \/ /\ Quarantinable(a)
           /\ Write(actor[a].run, [UnderReview(actor[a].run) EXCEPT !.sent = total, !.proof = p])
           /\ Set(a, IdleActor)
        \/ Set(a, IdleActor) /\ Unwritten
    BY DEF SettleUnsure
  <1> HIDE DEF m
  <1>5. /\ p \in Proof /\ (p.refill <=> actor[a].out = "norestore")
        /\ Contents(p) = Contents(actor[a].proof) \cup Contents(actor[a].got)
    BY <1>4, MergeIs
  <1>6. total \in Nat
    BY <1>1 DEF ActorState
  <1> HIDE DEF p, total
  <1>8. CASE /\ actor[a].cur = 1 /\ actor[a].out \in {"plain", "uncertain"}
             /\ HoldsAction(a) /\ Mine(a).cursor = actor[a].cur /\ Advanced(a, p)
             /\ Set(a, [NextAction(a, p) EXCEPT !.unsafe = TRUE])
    <2> DEFINE x == [NextAction(a, p) EXCEPT !.unsafe = TRUE]
    <2>1. Begins(x, a, p) /\ actor' = [actor EXCEPT ![a] = x]
      BY <1>1, <1>2, <1>5, <1>8, NextIs DEF Set
    <2> HIDE DEF x
    <2> QED
      BY <1>1, <1>2, <1>5, <1>8, <2>1, RowBegins
  <1>9. CASE /\ Quarantinable(a)
             /\ Write(actor[a].run, [UnderReview(actor[a].run) EXCEPT !.sent = total, !.proof = p])
             /\ Set(a, IdleActor)
    BY <1>1, <1>2, <1>5, <1>6, <1>9, RowReviewed
  <1>10. CASE Set(a, IdleActor) /\ Unwritten
    BY <1>1, <1>10, RowStops DEF Set, Unwritten
  <1> QED
    BY <1>7, <1>8, <1>9, <1>10

LEMMA RowAbortRunAction ==
    ASSUME CardInv, CardInv', RowInv, NEW a \in Actor, AbortRunAction(a)
    PROVE  RowInv'
  <1>0. PICK r \in Run : r = actor[a].run
    BY RowTypes
  <1>1. /\ actor[a] \in ActorState /\ Mine(a) = runs[r] /\ runs[r] \in RunRow
        /\ Local(actor[a]) /\ ActorRow(a) /\ actor[a].pc = "abort" /\ UNCHANGED taken
    BY <1>0, RowTypes DEF RowInv, AbortRunAction, In, history
  <1>2. /\ ~actor[a].replay /\ actor[a].cur \in {1, 2} /\ Empty(actor[a].got)
        /\ actor[a].out \in {"plain", "notsent"}
    BY <1>1 DEF Local, Resending, Taking
  <1>3. ASSUME NEW p \in {"fail", "quarantine"}
        PROVE  LET x == [actor[a] EXCEPT !.pc = p]
               IN x.pc = p /\ x.run = r /\ ~x.replay /\ x.att = actor[a].att /\ x.cur = actor[a].cur
    <2>1. p \in Place
      BY DEF Place
    <2> QED
      BY <1>0, <1>1, <1>2, <2>1, PcSet
  <1>4. CASE Goto(a, "quarantine") /\ Unwritten
    <2> DEFINE x == [actor[a] EXCEPT !.pc = "quarantine"]
    <2>1. x.pc = "quarantine" /\ x.run = r /\ ~x.replay /\ x.att = actor[a].att /\ x.cur = actor[a].cur
      BY <1>3
    <2>2. actor' = [actor EXCEPT ![a] = x] /\ UNCHANGED <<runs, taken>>
      BY <1>1, <1>4 DEF Goto, Set, Unwritten
    <2> HIDE DEF x
    <2> QED
      BY <1>0, <2>1, <2>2, RowGivesUp
  <1>5. CASE /\ Holds(a) /\ Mine(a).cursor = actor[a].cur
             /\ Write(actor[a].run, [Mine(a) EXCEPT !.started = FALSE]) /\ Goto(a, "fail")
    <2> DEFINE x == [actor[a] EXCEPT !.pc = "fail"]
               row == [runs[r] EXCEPT !.started = FALSE]
    <2>1. x.pc = "fail" /\ x.run = r /\ ~x.replay /\ x.att = actor[a].att /\ x.cur = actor[a].cur
      BY <1>3
    <2>2. /\ row \in RunRow /\ ~row.started /\ row.status = runs[r].status
          /\ row.attempt = runs[r].attempt /\ row.cursor = runs[r].cursor
          /\ row.proof = runs[r].proof
      BY <1>1 DEF RunRow
    <2>3. Write(r, row) /\ actor' = [actor EXCEPT ![a] = x]
      BY <1>0, <1>1, <1>5 DEF Goto, Set
    <2> HIDE DEF x, row
    <2>4. runs'[r] = row /\ actor'[a] = x /\ Mine(a)' = row
      BY <2>1, <2>3 DEF Write, CardInv, TypeOK, Mine
    <2>5. Moves(a, r, x) /\ taken'[r] = taken[r]
      BY <1>1, <2>1, <2>2, <2>3, OneRow
    <2>6. /\ runs[r].status = "running" /\ runs[r].attempt = actor[a].att /\ Live(a)
          /\ runs[r].cursor = actor[a].cur
      BY <1>0, <1>1, <1>5 DEF Holds, Live
    <2>7. Claimant(a)
      BY <1>1, <1>2, <2>6 DEF Claimant, Acting
    <2>8. /\ Contents(runs[r].proof) = Contents(actor[a].proof) /\ ~runs[r].proof.refill
          /\ (actor[a].cur = 1 => Contents(runs[r].proof) = {})
      BY <1>1, <2>7 DEF ActorRow, ClaimantRow, SameContents
    <2>9. actor[a].cur = 1 => taken[r] = {}
      BY <1>0, <1>1, <1>2, <2>7, <2>8 DEF ActorRow, TakenKnown, Hand, InTransit, Empty
    <2>10. RowFresh(r)'
      BY <2>2, <2>4, <2>5, <2>6, <2>8, <2>9 DEF RowFresh, Empty
    <2>11. RowComplete(r)'
      <3>1. taken[r] \subseteq Contents(runs[r].proof)
        BY <1>2, <2>6, <2>8, <2>9 DEF RowInv, RowComplete
      <3> QED
        BY <2>2, <2>4, <2>5, <3>1 DEF RowComplete
    <2>12. ActorRow(a)' /\ ~Claimant(a)' /\ ~Replayer(a)'
      <3>1. actor'[a].att <= Mine(a)'.attempt /\ actor'[a].cur <= Mine(a)'.cursor
        BY <1>1, <2>1, <2>2, <2>4 DEF ActorRow
      <3> QED
        BY <2>1, <2>4, <3>1, BystanderRow DEF Acting, Taking
    <2>13. \A b \in Actor : b # a /\ actor[b].run = r => ~Writer(b)
      BY <1>0, <2>7 DEF RowInv, OneWriter, Writer
    <2>14. SameProof(r) /\ ~runs'[r].started
      BY <2>2, <2>4 DEF SameProof
    <2>15. /\ runs'[r].attempt = runs[r].attempt /\ Cardinality(taken'[r]) <= Units
           /\ runs[r].status \notin {"canceled", "success"}
           /\ runs'[r].status \notin {"canceled", "absent"} /\ runs'[r].cursor = runs[r].cursor
           /\ runs[r].cursor \in 1 .. 3
      BY <1>1, <2>2, <2>4, <2>5, <2>6 DEF RunRow, RowInv
    <2>16. runs'[r].cursor >= runs[r].cursor
      BY <2>15
    <2> QED
      BY <1>0, <2>5, <2>7, <2>10, <2>11, <2>12, <2>13, <2>14, <2>15, <2>16, OutsiderStep
  <1> QED
    BY <1>4, <1>5 DEF AbortRunAction

\* An execution ends, and its row with it.
LEMMA RowEnds ==
    ASSUME CardInv, CardInv', RowInv, NEW a \in Actor, NEW r \in Run, NEW row \in RunRow,
           Write(r, row), actor' = [actor EXCEPT ![a] = IdleActor], UNCHANGED taken,
           row.proof = runs[r].proof, row.attempt = runs[r].attempt,
           row.cursor = runs[r].cursor, row.started = runs[r].started,
           row.status \in {"success", "failed", "needs_review"},
           runs[r].status \in {"running", "failed"}
    PROVE  RowInv'
  <1>1. runs'[r] = row /\ actor'[a] = IdleActor
    BY DEF Write, CardInv, TypeOK
  <1>2. RowTame(r)
    BY <1>1 DEF RowTame, SameProof
  <1>3. Moves(a, r, IdleActor) /\ taken'[r] = taken[r]
    BY OneRow DEF IdleActor
  <1> QED
    BY <1>1, <1>2, <1>3, IdleRow, TameStep

LEMMA RowFinish ==
    ASSUME CardInv, CardInv', RowInv, NEW a \in Actor, FinishFailed(a) \/ FinishRun(a)
    PROVE  RowInv'
  <1>0. PICK r \in Run : r = actor[a].run
    BY RowTypes
  <1>1. /\ actor[a] \in ActorState /\ Mine(a) = runs[r] /\ runs[r] \in RunRow
        /\ Local(actor[a]) /\ UNCHANGED taken /\ actor[a].sent \in Nat /\ ~actor[a].replay
    BY <1>0, RowTypes DEF FinishFailed, FinishRun, In, history, ActorState, Local, Resending, Taking
  <1> DEFINE err == IF actor[a].out = "notsent" /\ ~(actor[a].run = "manual") THEN "safe_retry"
                    ELSE "plain"
             failed == [runs[r] EXCEPT !.status = "failed", !.leased = FALSE,
                                       !.sent = actor[a].sent, !.err = err]
             success == [runs[r] EXCEPT !.status = "success", !.leased = FALSE,
                                        !.err = "none", !.sent = actor[a].sent]
  <1>2. \/ Goto(a, "review") /\ Unwritten
        \/ Holds(a) /\ Write(r, failed) /\ Set(a, IdleActor)
        \/ Holds(a) /\ Write(r, success) /\ Set(a, IdleActor)
    BY <1>0, <1>1 DEF FinishFailed, FinishRun
  <1>3. CASE Goto(a, "review") /\ Unwritten
    <2> DEFINE x == [actor[a] EXCEPT !.pc = "review"]
    <2>1. "review" \in Place
      BY DEF Place
    <2>2. /\ x.pc = "review" /\ x.run = actor[a].run /\ x.replay = actor[a].replay
          /\ x.cur = actor[a].cur /\ x.att = actor[a].att
      BY <1>1, <2>1, PcSet
    <2>3. actor' = [actor EXCEPT ![a] = x] /\ UNCHANGED <<runs, taken>>
      BY <1>1, <1>3 DEF Goto, Set, Unwritten
    <2> HIDE DEF x
    <2> QED
      BY <1>1, <2>2, <2>3, RowGivesUp
  <1>4. CASE Holds(a) /\ Write(r, failed) /\ Set(a, IdleActor)
    <2>1. err \in {"safe_retry", "plain"}
      OBVIOUS
    <2> HIDE DEF err
    <2> DEFINE m == [runs[r] EXCEPT !.status = "failed", !.leased = FALSE]
    <2>2. /\ m \in RunRow /\ m.status = "failed" /\ m.proof = runs[r].proof
          /\ m.attempt = runs[r].attempt /\ m.cursor = runs[r].cursor
          /\ m.started = runs[r].started
      BY <1>1 DEF RunRow
    <2>3. failed = [m EXCEPT !.sent = actor[a].sent, !.err = err]
      BY <1>1 DEF RunRow
    <2> HIDE DEF m, failed
    <2>4. /\ failed \in RunRow /\ failed.status = "failed" /\ failed.proof = runs[r].proof
          /\ failed.attempt = runs[r].attempt /\ failed.cursor = runs[r].cursor
          /\ failed.started = runs[r].started
      BY <1>1, <2>1, <2>2, <2>3 DEF RunRow
    <2> QED
      BY <1>1, <1>4, <2>4, RowEnds DEF Holds, Set
  <1>5. CASE Holds(a) /\ Write(r, success) /\ Set(a, IdleActor)
    <2> DEFINE m == [runs[r] EXCEPT !.status = "success", !.leased = FALSE]
    <2>2. /\ m \in RunRow /\ m.status = "success" /\ m.proof = runs[r].proof
          /\ m.attempt = runs[r].attempt /\ m.cursor = runs[r].cursor
          /\ m.started = runs[r].started
      BY <1>1 DEF RunRow
    <2>3. success = [m EXCEPT !.sent = actor[a].sent, !.err = "none"]
      BY <1>1 DEF RunRow
    <2> HIDE DEF m, success
    <2>4. /\ success \in RunRow /\ success.status = "success" /\ success.proof = runs[r].proof
          /\ success.attempt = runs[r].attempt /\ success.cursor = runs[r].cursor
          /\ success.started = runs[r].started
      BY <1>1, <2>2, <2>3 DEF RunRow
    <2> QED
      BY <1>1, <1>5, <2>4, RowEnds DEF Holds, Set
  <1> QED
    BY <1>2, <1>3, <1>4, <1>5

LEMMA RowClaimDeliveryReplay ==
    ASSUME CardInv, CardInv', RowInv, NEW a \in Actor, ClaimDeliveryReplay(a)
    PROVE  RowInv'
  <1>0. PICK r \in Run : r = actor[a].run
    BY RowTypes
  <1>1. /\ actor[a] \in ActorState /\ Mine(a) = runs[r] /\ runs[r] \in RunRow
        /\ Local(actor[a]) /\ ActorRow(a) /\ actor[a].pc = "claim" /\ UNCHANGED taken
    BY <1>0, RowTypes DEF RowInv, ClaimDeliveryReplay, In, history
  <1>2. /\ Empty(actor[a].got) /\ actor[a].out = "none" /\ Present(actor[a].proof)
        /\ actor[a].cur \in 1 .. 3 /\ actor[a].att \in Nat
    BY <1>1 DEF Local, ActorState
  <1>3. CASE Set(a, IdleActor) /\ Unwritten
    BY <1>1, <1>3, RowStops DEF Set, Unwritten
  <1>4. CASE /\ Mine(a).attempt = actor[a].att /\ Mine(a).status \in {"failed", "needs_review"}
             /\ Write(actor[a].run, [Mine(a) EXCEPT !.status = "running", !.attempt = @ + 1,
                                                    !.started = TRUE, !.leased = TRUE])
             /\ Set(a, [actor[a] EXCEPT !.pc = "resend", !.att = @ + 1, !.replay = TRUE])
    <2> DEFINE attempt == runs[r].attempt + 1
               att == actor[a].att + 1
               m == [runs[r] EXCEPT !.status = "running", !.attempt = attempt]
               row == [m EXCEPT !.started = TRUE, !.leased = TRUE]
               x == [actor[a] EXCEPT !.pc = "resend", !.att = att, !.replay = TRUE]
    <2>1. /\ attempt \in Nat /\ att \in Nat /\ attempt > runs[r].attempt /\ attempt = att
      BY <1>1, <1>4 DEF RunRow, ActorState
    <2>2. Write(r, row) /\ actor' = [actor EXCEPT ![a] = x]
      BY <1>0, <1>1, <1>4 DEF Set, RunRow, ActorState
    <2> HIDE DEF attempt, att
    <2>3. /\ m \in RunRow /\ m.proof = runs[r].proof /\ m.status = "running"
          /\ m.attempt = attempt /\ m.cursor = runs[r].cursor
      BY <1>1, <2>1 DEF RunRow
    <2> HIDE DEF m
    <2>4. /\ row \in RunRow /\ row.proof = runs[r].proof /\ row.status = "running"
          /\ row.attempt = attempt /\ row.cursor = runs[r].cursor /\ row.started
      BY <2>3 DEF RunRow
    <2>5. /\ x.pc = "resend" /\ x.run = r /\ x.replay /\ x.att = att /\ x.cur = actor[a].cur
          /\ x.out = actor[a].out /\ x.proof = actor[a].proof /\ x.got = actor[a].got
      BY <1>0, <1>1, <2>1 DEF ActorState
    <2> HIDE DEF x, row
    <2>6. runs'[r] = row /\ actor'[a] = x /\ Mine(a)' = row
      BY <2>2, <2>5 DEF Write, CardInv, TypeOK, Mine
    <2>7. Moves(a, r, x) /\ taken'[r] = taken[r]
      BY <1>1, <2>2, <2>4, <2>5, OneRow
    <2>8. Live(a)
      BY <1>1, <1>4 DEF Live
    <2>9. /\ Contents(runs[r].proof) = Contents(actor[a].proof) /\ ~runs[r].proof.refill
      BY <1>1, <2>8 DEF ActorRow, ClaimRow, SameContents
    <2>10. taken[r] \subseteq Contents(runs[r].proof)
      BY <1>1, <1>2, <1>4, <2>9 DEF RowInv, RowComplete, Present
    <2>11. RowFresh(r)' /\ RowComplete(r)'
      BY <2>4, <2>6, <2>7, <2>10 DEF RowFresh, RowComplete
    <2>12. ~Claimant(a)' /\ Hand(a)' = {}
      BY <2>5, <2>6 DEF Claimant, Hand, InTransit
    <2>13. actor'[a].att <= Mine(a)'.attempt /\ actor'[a].cur <= Mine(a)'.cursor
      BY <1>1, <2>1, <2>4, <2>5, <2>6 DEF ActorRow
    <2>14. SameContents(a)'
      BY <2>4, <2>5, <2>6, <2>9 DEF SameContents
    <2>15. ReplayRow(a)'
      BY <2>4, <2>5, <2>6, <2>9, <2>14 DEF ReplayRow, Taking
    <2>16. TakenKnown(a)'
      BY <2>5, <2>6, <2>7, <2>9, <2>10 DEF TakenKnown
    <2>17. ActorRow(a)'
      BY <2>5, <2>6, <2>12, <2>13, <2>15, <2>16
      DEF ActorRow, ClaimantRow, ReadyRow, ClaimRow
    <2> QED
      BY <2>1, <2>4, <2>6, <2>7, <2>11, <2>17, GrowStep
  <1> QED
    BY <1>3, <1>4 DEF ClaimDeliveryReplay

LEMMA RowResendMessage ==
    ASSUME CardInv, CardInv', RowInv, NEW a \in Actor, ResendMessage(a)
    PROVE  RowInv'
  <1>1. /\ actor[a] \in ActorState /\ Local(actor[a]) /\ actor[a].pc = "resend"
        /\ UNCHANGED <<runs, taken>>
    BY RowTypes DEF ResendMessage, In
  <1>2. actor[a].replay /\ actor[a].out = "none" /\ Hand(a) = {}
    BY <1>1 DEF Local, Resending, Hand, InTransit
  <1>3. ASSUME NEW x, actor' = [actor EXCEPT ![a] = x], x.run = actor[a].run,
               x.att = actor[a].att, x.cur = actor[a].cur, x.replay = actor[a].replay,
               x.proof = actor[a].proof, x.got = actor[a].got,
               x.pc \in {"resend", "mark", "consign", "release"}
        PROVE  RowInv'
    <2>1. /\ x.pc \notin {"ready", "claim"} /\ x.pc \notin Acting
          /\ x.pc \notin Taking \cup {"save"}
      BY <1>3 DEF Acting, Taking
    <2>2. Contents(actor[a].proof) \cup Contents(actor[a].got) \cup Hand(a)
            \subseteq Contents(x.proof) \cup Contents(x.got) \cup Hand(a)'
      BY <1>2, <1>3
    <2> QED
      BY <1>1, <1>2, <1>3, <2>1, <2>2, RoleStep
  <1>4. CASE \E c \in actor[a].todo : Set(a, [actor[a] EXCEPT !.todo = @ \ {c}])
    <2>1. PICK c \in actor[a].todo : Set(a, [actor[a] EXCEPT !.todo = @ \ {c}])
      BY <1>4
    <2> DEFINE x == [actor[a] EXCEPT !.todo = @ \ {c}]
    <2>2. /\ x.pc = "resend" /\ x.run = actor[a].run /\ x.att = actor[a].att
          /\ x.cur = actor[a].cur /\ x.replay = actor[a].replay
          /\ x.proof = actor[a].proof /\ x.got = actor[a].got
      BY <1>1 DEF ActorState
    <2>3. actor' = [actor EXCEPT ![a] = x]
      BY <2>1 DEF Set
    <2> HIDE DEF x
    <2> QED
      BY <1>3, <2>2, <2>3
  <1>5. CASE \E p \in {"mark", "consign", "release"} : Goto(a, p)
    <2>1. PICK p \in {"mark", "consign", "release"} : Goto(a, p)
      BY <1>5
    <2> DEFINE x == [actor[a] EXCEPT !.pc = p]
    <2>2. p \in Place
      BY DEF Place
    <2>3. /\ x.pc = p /\ x.run = actor[a].run /\ x.att = actor[a].att
          /\ x.cur = actor[a].cur /\ x.replay = actor[a].replay
          /\ x.proof = actor[a].proof /\ x.got = actor[a].got
      BY <1>1, <2>2, PcSet
    <2>4. actor' = [actor EXCEPT ![a] = x]
      BY <2>1 DEF Goto, Set
    <2> HIDE DEF x
    <2> QED
      BY <1>3, <2>3, <2>4
  <1>6. CASE actor[a].todo # {} /\
             Set(a, [actor[a] EXCEPT !.todo = @ \ {CHOOSE x \in actor[a].todo : TRUE}])
    BY <1>4, <1>6
  <1> QED
    BY <1>5, <1>6 DEF ResendMessage

\* The holder of a replay writes the proof with the refill in it.
LEMMA RowProofWritten ==
    ASSUME CardInv, CardInv', RowInv, NEW a \in Actor, NEW p \in Proof, NEW x,
           actor' = [actor EXCEPT ![a] = x], UNCHANGED taken,
           HoldsAction(a), Write(actor[a].run, [Mine(a) EXCEPT !.proof = p]),
           actor[a].replay, actor[a].pc \in {"mark", "save"},
           x.run = actor[a].run, x.att = actor[a].att, x.cur = actor[a].cur, x.replay,
           x.out = actor[a].out, x.pc \in {"unit", "consign", "release"},
           x.pc # "release" => Contents(x.proof) = Contents(p),
           x.pc = "unit" => p.refill, x.pc = "consign" => ~p.refill,
           x.pc # "release" =>
               Contents(actor[a].proof) \cup Contents(actor[a].got)
                   \subseteq Contents(x.proof) \cup Contents(x.got),
           \/ p.refill
           \/ /\ actor[a].out # "norestore"
              /\ Contents(actor[a].proof) \cup Contents(actor[a].got) \subseteq Contents(p)
    PROVE  RowInv'
  <1>0. PICK r \in Run : r = actor[a].run
    BY RowTypes
  <1>1. Mine(a) = runs[r] /\ runs[r] \in RunRow /\ ActorRow(a)
    BY <1>0, RowTypes DEF RowInv
  <1> DEFINE row == [runs[r] EXCEPT !.proof = p]
  <1>2. /\ row \in RunRow /\ row.proof = p /\ row.status = runs[r].status
        /\ row.attempt = runs[r].attempt /\ row.cursor = runs[r].cursor
        /\ row.started = runs[r].started
    BY <1>1 DEF RunRow
  <1>3. Write(r, row)
    BY <1>0, <1>1
  <1> HIDE DEF row
  <1>4. runs'[r] = row /\ actor'[a] = x /\ Mine(a)' = row
    BY <1>0, <1>3 DEF Write, CardInv, TypeOK, Mine
  <1>5. Moves(a, r, x) /\ taken'[r] = taken[r]
    BY <1>0, <1>2, <1>3, OneRow
  <1>6. /\ runs[r].status = "running" /\ runs[r].started /\ runs[r].attempt = actor[a].att
        /\ Live(a)
    BY <1>1 DEF HoldsAction, Holds, Live
  <1>7. Replayer(a) /\ actor[a].pc # "release" /\ Hand(a) = {}
    BY <1>6 DEF Replayer, Hand, InTransit
  <1>8. \A b \in Actor : b # a /\ actor[b].run = r => ~Writer(b)
    BY <1>0, <1>7 DEF RowInv, OneWriter, Writer
  <1>9. \A b \in Actor : b # a /\ actor[b].run = r /\ actor[b].pc = "claim" => ~Live(b)
    <2> SUFFICES ASSUME NEW b \in Actor, actor[b].run = r, actor[b].pc = "claim", Live(b)
                 PROVE  FALSE
      OBVIOUS
    <2>1. Mine(b) = runs[r] /\ ActorRow(b)
      BY RowTypes DEF RowInv
    <2> QED
      BY <1>0, <1>6, <1>7, <2>1 DEF ActorRow, ClaimRow
  <1>10. ~Claimant(a)' /\ runs'[r].started
    BY <1>2, <1>4, <1>6 DEF Claimant
  <1>11. \/ actor[a].out = "norestore"
         \/ taken[r] \subseteq Contents(actor[a].proof) \cup Contents(actor[a].got)
    BY <1>0, <1>1, <1>7 DEF ActorRow, TakenKnown
  <1>12. RowFresh(r)' /\ RowComplete(r)'
    BY <1>2, <1>4, <1>5, <1>10, <1>11 DEF RowFresh, RowComplete
  <1>13. ActorRow(a)'
    <2>1. actor'[a].att <= Mine(a)'.attempt /\ actor'[a].cur <= Mine(a)'.cursor
      BY <1>1, <1>2, <1>4 DEF ActorRow
    <2>2. x.pc # "release" => SameContents(a)'
      BY <1>2, <1>4 DEF SameContents
    <2>3. ReplayRow(a)'
      BY <1>2, <1>4, <1>10, <2>2 DEF ReplayRow, Taking
    <2>4. TakenKnown(a)'
      BY <1>0, <1>4, <1>5, <1>10, <1>11 DEF TakenKnown
    <2>5. ReadyRow(a)' /\ ClaimRow(a)' /\ ClaimantRow(a)'
      BY <1>4, <1>10 DEF ReadyRow, ClaimRow, ClaimantRow
    <2> QED
      BY <2>1, <2>3, <2>4, <2>5 DEF ActorRow
  <1>14. /\ runs'[r].attempt = runs[r].attempt /\ Cardinality(taken'[r]) <= Units
         /\ runs[r].status \notin {"canceled", "success"}
         /\ runs'[r].status \notin {"canceled", "absent"} /\ runs'[r].cursor = runs[r].cursor
         /\ runs[r].cursor \in 1 .. 3
    BY <1>1, <1>2, <1>4, <1>5, <1>6 DEF RunRow, RowInv
  <1>15. runs'[r].cursor >= runs[r].cursor
    BY <1>14
  <1> QED
    BY <1>5, <1>8, <1>9, <1>10, <1>12, <1>13, <1>14, <1>15, OutsiderStep

LEMMA RowReleases ==
    ASSUME CardInv, CardInv', RowInv, NEW a \in Actor, Goto(a, "release"),
           UNCHANGED <<runs, taken>>, actor[a].replay
    PROVE  RowInv'
  <1> DEFINE x == [actor[a] EXCEPT !.pc = "release"]
  <1>1. actor[a] \in ActorState /\ "release" \in Place
    BY RowTypes DEF Place
  <1>2. /\ x.pc = "release" /\ x.run = actor[a].run /\ x.att = actor[a].att
        /\ x.cur = actor[a].cur /\ x.replay = actor[a].replay /\ x.proof = actor[a].proof
    BY <1>1, PcSet
  <1>3. actor' = [actor EXCEPT ![a] = x]
    BY DEF Goto, Set
  <1> HIDE DEF x
  <1>4. /\ x.pc \notin {"ready", "claim"} /\ x.pc \notin Acting
        /\ x.pc \notin Taking \cup {"save"} /\ x.pc \notin {"resend", "mark", "consign", "complete"}
    BY <1>2 DEF Acting, Taking
  <1> QED
    BY <1>2, <1>3, <1>4, RoleStep

LEMMA RowMarkRefill ==
    ASSUME CardInv, CardInv', RowInv, NEW a \in Actor, MarkRefill(a)
    PROVE  RowInv'
  <1> DEFINE p == [actor[a].proof EXCEPT !.refill = TRUE]
  <1>1. /\ actor[a] \in ActorState /\ Local(actor[a]) /\ actor[a].pc = "mark"
        /\ actor[a].proof \in Proof /\ UNCHANGED taken
    BY RowTypes DEF MarkRefill, In, ActorState, history
  <1>2. actor[a].replay /\ Empty(actor[a].got)
    BY <1>1 DEF Local, Resending
  <1>3. CASE HoldsAction(a) /\ Write(actor[a].run, [Mine(a) EXCEPT !.proof = p]) /\ Goto(a, "unit")
    <2> DEFINE x == [actor[a] EXCEPT !.pc = "unit"]
    <2>1. p \in Proof /\ Contents(p) = Contents(actor[a].proof) /\ p.refill
      BY <1>1 DEF Proof, Contents
    <2>2. "unit" \in Place
      BY DEF Place
    <2>3. /\ x.pc = "unit" /\ x.run = actor[a].run /\ x.att = actor[a].att
          /\ x.cur = actor[a].cur /\ x.replay = actor[a].replay /\ x.out = actor[a].out
          /\ x.proof = actor[a].proof /\ x.got = actor[a].got
      BY <1>1, <2>2, PcSet
    <2>4. actor' = [actor EXCEPT ![a] = x]
      BY <1>3 DEF Goto, Set
    <2> HIDE DEF p, x
    <2> QED
      BY <1>1, <1>2, <1>3, <2>1, <2>3, <2>4, RowProofWritten
  <1>4. CASE Goto(a, "release") /\ Unwritten
    BY <1>1, <1>2, <1>4, RowReleases DEF Unwritten
  <1> QED
    BY <1>3, <1>4 DEF MarkRefill

LEMMA RowSaveRefill ==
    ASSUME CardInv, CardInv', RowInv, NEW a \in Actor, SaveRefill(a)
    PROVE  RowInv'
  <1> DEFINE m == Merge(actor[a].proof, actor[a].got)
             mark == (actor[a].out = "norestore")
             p == [m EXCEPT !.refill = mark]
             pc == IF actor[a].out = "none" THEN "consign" ELSE "release"
             x == [actor[a] EXCEPT !.pc = pc, !.proof = p, !.got = NoProof]
  <1>1. /\ actor[a] \in ActorState /\ Local(actor[a]) /\ actor[a].pc = "save"
        /\ actor[a].proof \in Proof /\ actor[a].got \in Proof /\ UNCHANGED taken
    BY RowTypes DEF SaveRefill, In, ActorState, history
  <1>2. actor[a].replay
    BY <1>1 DEF Local, Resending
  <1>3. CASE HoldsAction(a) /\ Write(actor[a].run, [Mine(a) EXCEPT !.proof = p]) /\ Set(a, x)
    <2>1. m \in Proof /\ Contents(m) = Contents(actor[a].proof) \cup Contents(actor[a].got)
      BY <1>1, MergeIs
    <2>2. mark \in BOOLEAN /\ (mark <=> actor[a].out = "norestore")
      OBVIOUS
    <2> HIDE DEF m, mark
    <2>3. p \in Proof /\ Contents(p) = Contents(m) /\ p.refill = mark
      BY <2>1, <2>2 DEF Proof, Contents
    <2>4. pc \in {"consign", "release"} /\ (pc = "consign" <=> actor[a].out = "none")
      OBVIOUS
    <2> HIDE DEF p, pc
    <2>5. /\ x.pc = pc /\ x.run = actor[a].run /\ x.replay = actor[a].replay
          /\ x.att = actor[a].att /\ x.cur = actor[a].cur /\ x.out = actor[a].out
          /\ x.proof = p
      BY <1>1, <2>3, <2>4 DEF ActorState
    <2>6. actor' = [actor EXCEPT ![a] = x]
      BY <1>3 DEF Set
    <2> HIDE DEF x
    <2> QED
      BY <1>1, <1>2, <1>3, <2>1, <2>2, <2>3, <2>4, <2>5, <2>6, RowProofWritten
  <1>4. CASE Goto(a, "release") /\ Unwritten
    BY <1>1, <1>2, <1>4, RowReleases DEF Unwritten
  <1> QED
    BY <1>3, <1>4 DEF SaveRefill

LEMMA RowCompleteDeliveryReplay ==
    ASSUME CardInv, CardInv', RowInv, NEW a \in Actor, CompleteDeliveryReplay(a)
    PROVE  RowInv'
  <1>0. PICK r \in Run : r = actor[a].run
    BY RowTypes
  <1>1. /\ actor[a] \in ActorState /\ Local(actor[a]) /\ actor[a].pc = "complete"
        /\ Mine(a) = runs[r] /\ runs[r] \in RunRow /\ ActorRow(a) /\ UNCHANGED taken
    BY <1>0, RowTypes DEF CompleteDeliveryReplay, In, RowInv, history
  <1>2. actor[a].replay /\ Empty(actor[a].got) /\ actor[a].out = "none" /\ Hand(a) = {}
    BY <1>1 DEF Local, Resending, Hand, InTransit
  <1> DEFINE row == [runs[r] EXCEPT !.status = "success", !.started = FALSE,
                                    !.leased = FALSE, !.err = "none"]
  <1>3. CASE HoldsAction(a) /\ Write(r, row) /\ Set(a, IdleActor)
    <2> DEFINE m == [runs[r] EXCEPT !.status = "success", !.started = FALSE]
    <2>1. /\ m \in RunRow /\ m.status = "success" /\ ~m.started /\ m.proof = runs[r].proof
          /\ m.attempt = runs[r].attempt /\ m.cursor = runs[r].cursor
      BY <1>1 DEF RunRow
    <2>2. row = [m EXCEPT !.leased = FALSE, !.err = "none"]
      BY <1>1 DEF RunRow
    <2> HIDE DEF m, row
    <2>3. /\ row \in RunRow /\ row.status = "success" /\ ~row.started
          /\ row.proof = runs[r].proof /\ row.attempt = runs[r].attempt
          /\ row.cursor = runs[r].cursor
      BY <2>1, <2>2 DEF RunRow
    <2>4. runs'[r] = row /\ actor'[a] = IdleActor /\ actor' = [actor EXCEPT ![a] = IdleActor]
      BY <1>3 DEF Write, Set, CardInv, TypeOK
    <2>5. Moves(a, r, IdleActor) /\ taken'[r] = taken[r]
      BY <1>1, <1>3, <2>3, <2>4, OneRow DEF IdleActor
    <2>6. /\ runs[r].status = "running" /\ runs[r].attempt = actor[a].att /\ Live(a)
      BY <1>1, <1>3 DEF HoldsAction, Holds, Live
    <2>7. Replayer(a) /\ actor[a].pc # "release"
      BY <1>1, <1>2, <2>6 DEF Replayer
    <2>8. Contents(runs[r].proof) = Contents(actor[a].proof)
      BY <1>1, <2>7 DEF ActorRow, ReplayRow, SameContents
    <2>9. taken[r] \subseteq Contents(runs[r].proof)
      BY <1>0, <1>1, <1>2, <2>7, <2>8 DEF ActorRow, TakenKnown, Empty
    <2>10. RowFresh(r)' /\ RowComplete(r)'
      BY <2>3, <2>4, <2>5, <2>9 DEF RowFresh, RowComplete
    <2>11. ActorRow(a)' /\ ~Claimant(a)' /\ ~Replayer(a)'
      BY <2>4, IdleRow
    <2>12. \A b \in Actor : b # a /\ actor[b].run = r => ~Writer(b)
      BY <1>0, <2>7 DEF RowInv, OneWriter, Writer
    <2>13. SameProof(r)
      BY <2>3, <2>4 DEF SameProof
    <2>14. /\ runs'[r].attempt = runs[r].attempt /\ Cardinality(taken'[r]) <= Units
           /\ runs[r].status \notin {"canceled", "success"} /\ runs'[r].status = "success"
           /\ runs'[r].status \notin {"canceled", "absent"} /\ runs'[r].cursor = runs[r].cursor
           /\ runs[r].cursor \in 1 .. 3
      BY <1>1, <2>3, <2>4, <2>5, <2>6 DEF RunRow, RowInv
    <2>15. runs'[r].cursor >= runs[r].cursor
      BY <2>14
    <2> QED
      BY <2>5, <2>10, <2>11, <2>12, <2>13, <2>14, <2>15, OutsiderStep
  <1>4. CASE Goto(a, "release") /\ Unwritten
    BY <1>1, <1>2, <1>4, RowReleases DEF Unwritten
  <1> QED
    BY <1>0, <1>1, <1>3, <1>4 DEF CompleteDeliveryReplay

LEMMA RowReleaseDeliveryReplay ==
    ASSUME CardInv, CardInv', RowInv, NEW a \in Actor, ReleaseDeliveryReplay(a)
    PROVE  RowInv'
  <1>0. PICK r \in Run : r = actor[a].run
    BY RowTypes
  <1>1. /\ Mine(a) = runs[r] /\ runs[r] \in RunRow /\ UNCHANGED taken
        /\ actor' = [actor EXCEPT ![a] = IdleActor]
    BY <1>0, RowTypes DEF ReleaseDeliveryReplay, Set, history
  <1> DEFINE row == [runs[r] EXCEPT !.status = "needs_review", !.leased = FALSE, !.err = "replay"]
  <1>2. CASE HoldsAction(a) /\ Write(r, row)
    <2>1. /\ row \in RunRow /\ row.status = "needs_review" /\ row.proof = runs[r].proof
          /\ row.attempt = runs[r].attempt /\ row.cursor = runs[r].cursor
          /\ row.started = runs[r].started
      BY <1>1 DEF RunRow
    <2>2. runs[r].status = "running"
      BY <1>1, <1>2 DEF HoldsAction, Holds
    <2> HIDE DEF row
    <2> QED
      BY <1>1, <1>2, <2>1, <2>2, RowEnds
  <1>3. CASE Unwritten
    BY <1>1, <1>3, RowStops DEF Unwritten
  <1> QED
    BY <1>0, <1>1, <1>2, <1>3 DEF ReleaseDeliveryReplay

\* A row is written while no execution moves.
LEMMA RowChanges ==
    ASSUME CardInv, CardInv', RowInv, NEW r \in Run, UNCHANGED <<actor, taken>>, RowTame(r),
           \A q \in Run : q # r => runs'[q] = runs[q]
    PROVE  RowInv'
  <1>1. PICK a \in Actor : a = "event"
    BY DEF Actor
  <1>2. Moves(a, r, actor[a])
    BY DEF Moves, CardInv, TypeOK
  <1>3. taken'[r] \subseteq taken[r]
    OBVIOUS
  <1> QED
    BY <1>2, <1>3, TameStep

LEMMA RowCanceled ==
    ASSUME CardInv, CardInv', RowInv, NEW r \in Run, UNCHANGED <<actor, taken>>,
           Write(r, Canceled(r))
    PROVE  RowInv'
  <1>1. PICK a \in Actor : a = "event"
    BY DEF Actor
  <1>2. runs[r] \in RunRow /\ Canceled(r) \in RunRow
    BY RowStates DEF CardInv, TypeOK
  <1>3. /\ Canceled(r).status = "canceled" /\ Canceled(r).attempt = runs[r].attempt
        /\ Canceled(r).cursor = runs[r].cursor
    BY <1>2 DEF Canceled, RunRow
  <1>4. runs'[r] = Canceled(r) /\ \A q \in Run : q # r => runs'[q] = runs[q]
    BY DEF Write, CardInv, TypeOK
  <1>5. Moves(a, r, actor[a]) /\ taken'[r] \subseteq taken[r]
    BY <1>4 DEF Moves, CardInv, TypeOK
  <1>6. RowFresh(r)' /\ RowComplete(r)'
    BY <1>3, <1>4 DEF RowFresh, RowComplete
  <1> QED
    BY <1>3, <1>4, <1>5, <1>6, GrowStep

LEMMA RowRecovery ==
    ASSUME CardInv, CardInv', RowInv,
           \/ \E r \in Run : QuarantineRecoveryRun(r)
           \/ CancelObsoletePaidRecoveryRun \/ ClaimRecoveryRun
           \/ \E r \in Run : ReopenRunForRecovery(r)
    PROVE  RowInv'
  <1>1. CASE \E r \in Run : QuarantineRecoveryRun(r)
    <2>1. PICK r \in Run : QuarantineRecoveryRun(r)
      BY <1>1
    <2>2. /\ UNCHANGED <<actor, taken>> /\ Write(r, UnderReview(r))
          /\ runs[r].status \in {"running", "failed"}
      BY <2>1 DEF QuarantineRecoveryRun, Due, history
    <2>3. runs[r] \in RunRow /\ runs'[r] = UnderReview(r)
          /\ \A q \in Run : q # r => runs'[q] = runs[q]
      BY <2>2 DEF Write, CardInv, TypeOK
    <2>4. /\ UnderReview(r).status = "needs_review" /\ UnderReview(r).proof = runs[r].proof
          /\ UnderReview(r).attempt = runs[r].attempt /\ UnderReview(r).cursor = runs[r].cursor
          /\ UnderReview(r).started = runs[r].started
      BY <2>3 DEF UnderReview, RunRow
    <2>5. RowTame(r)
      BY <2>2, <2>3, <2>4 DEF RowTame, SameProof
    <2> QED
      BY <2>2, <2>3, <2>5, RowChanges
  <1>2. CASE CancelObsoletePaidRecoveryRun
    BY <1>2, EveryRun, RowCanceled DEF CancelObsoletePaidRecoveryRun, history
  <1>3. ASSUME NEW r \in Run, Write(r, Reclaimed(r)),
               Set("scheduler", [IdleActor EXCEPT !.pc = "load", !.run = r]),
               UNCHANGED taken, runs[r].status \in {"running", "failed", "needs_review"},
               ~runs[r].started
        PROVE  RowInv'
    <2>1. PICK a \in Actor : a = "scheduler"
      BY DEF Actor
    <2> QED
      BY <1>3, <2>1, RowFreshRun
  <1>4. CASE ClaimRecoveryRun
    <2>1. [IdleActor EXCEPT !.pc = "load"] = [IdleActor EXCEPT !.pc = "load", !.run = "auto"]
      <3>1. IdleActor \in ActorState
        BY IdleSound DEF Sound, SoundWith
      <3>2. IdleActor.run = "auto"
        BY DEF IdleActor
      <3> QED
        BY <3>1, <3>2 DEF ActorState
    <2>2. Set("scheduler", [IdleActor EXCEPT !.pc = "load", !.run = "auto"])
      BY <1>4, <2>1 DEF ClaimRecoveryRun
    <2>3. /\ Write("auto", Reclaimed("auto")) /\ UNCHANGED taken /\ ~runs["auto"].started
          /\ runs["auto"].status \in {"running", "failed", "needs_review"}
      BY <1>4 DEF ClaimRecoveryRun, Due, history
    <2> QED
      BY <1>3, <2>2, <2>3, EveryRun
  <1>5. CASE \E r \in Run : ReopenRunForRecovery(r)
    <2>1. PICK r \in Run : ReopenRunForRecovery(r)
      BY <1>5
    <2>2. /\ Write(r, Reclaimed(r)) /\ UNCHANGED taken /\ ~runs[r].started
          /\ runs[r].status \in {"running", "failed", "needs_review"}
          /\ Set("scheduler", [IdleActor EXCEPT !.pc = "load", !.run = r])
      BY <2>1 DEF ReopenRunForRecovery, history
    <2> QED
      BY <1>3, <2>2
  <1> QED
    BY <1>1, <1>2, <1>4, <1>5

\* An operator lets a run go on past a confirmation whose outcome is unknown.
LEMMA RowContinues ==
    ASSUME CardInv, CardInv', RowInv, NEW r \in Run, UNCHANGED <<actor, taken>>,
           NEW row \in RunRow, Write(r, row), runs[r].status = "needs_review",
           runs[r].started, runs[r].cursor = 2, row.cursor = 3, ~row.started,
           row.status = "running", row.attempt = runs[r].attempt, row.proof = runs[r].proof
    PROVE  RowInv'
  <1>1. PICK a \in Actor : a = "event"
    BY DEF Actor
  <1>2. runs'[r] = row /\ \A q \in Run : q # r => runs'[q] = runs[q]
    BY DEF Write, CardInv, TypeOK
  <1>3. Moves(a, r, actor[a])
    BY <1>2 DEF Moves, CardInv, TypeOK
  <1>4. ASSUME NEW b \in Actor, actor[b].run = r
        PROVE  ActorRow(b)' /\ (Writer(b)' => Writer(b))
    <2>1. /\ Mine(b) = runs[r] /\ Mine(b)' = row /\ ActorRow(b) /\ actor'[b] = actor[b]
          /\ actor[b].cur \in 1 .. 3
      BY <1>2, <1>4, RowTypes DEF Mine, RowInv
    <2>2. (Live(b)' <=> Live(b)) /\ (SameContents(b)' <=> SameContents(b))
      BY <2>1 DEF Live, SameContents
    <2>3. (Claimant(b)' <=> Claimant(b)) /\ (Replayer(b)' <=> Replayer(b))
      BY <2>1, <2>2 DEF Claimant, Replayer
    <2>4. actor'[b].att <= Mine(b)'.attempt /\ actor'[b].cur <= Mine(b)'.cursor
      BY <2>1 DEF ActorRow
    <2>5. ClaimantRow(b)'
      BY <2>1, <2>2, <2>3 DEF ActorRow, ClaimantRow
    <2>6. ReadyRow(b)' /\ ClaimRow(b)'
      BY <2>1, <2>2 DEF ActorRow, ReadyRow, ClaimRow
    <2>7. ReplayRow(b)'
      BY <2>1, <2>2, <2>3 DEF ActorRow, ReplayRow
    <2>8. TakenKnown(b)'
      BY <2>1, <2>3 DEF ActorRow, TakenKnown, Hand, InTransit
    <2> QED
      BY <2>3, <2>4, <2>5, <2>6, <2>7, <2>8 DEF ActorRow, Writer
  <1>5. RowFresh(r)' /\ AbsentRow(r)'
    BY <1>2 DEF RowFresh, AbsentRow
  <1>6. RowComplete(r)' /\ Cardinality(taken'[r]) <= Units
    BY <1>2 DEF RowInv, RowComplete
  <1> QED
    BY <1>3, <1>4, <1>5, <1>6, Assembled

LEMMA RowOperator ==
    ASSUME CardInv, CardInv', RowInv, NEW r \in Run, ResolveRunIssue(r) \/ Lapse(r)
    PROVE  RowInv'
  <1>1. runs[r] \in RunRow
    BY DEF CardInv, TypeOK
  <1>2. CASE ResolveRunIssue(r)
    <2> DEFINE m == [runs[r] EXCEPT !.status = "running", !.started = FALSE]
               going == [runs[r] EXCEPT !.status = "running", !.started = FALSE,
                                        !.leased = FALSE, !.err = "none"]
    <2>1. /\ m \in RunRow /\ m.proof = runs[r].proof /\ m.cursor = runs[r].cursor
          /\ m.status = "running" /\ ~m.started /\ m.attempt = runs[r].attempt
      BY <1>1 DEF RunRow
    <2>2. going = [m EXCEPT !.leased = FALSE, !.err = "none"]
      BY <1>1 DEF RunRow
    <2>3. /\ UNCHANGED <<actor, taken>> /\ runs[r].status = "needs_review"
          /\ \/ Write(r, Canceled(r))
             \/ "retry" \in Decisions(r) /\ Write(r, going)
             \/ "continue" \in Decisions(r) /\ Write(r, [going EXCEPT !.cursor = @ + 1])
      BY <1>2 DEF ResolveRunIssue, history
    <2> HIDE DEF m, going
    <2>4. /\ going \in RunRow /\ going.proof = runs[r].proof /\ going.cursor = runs[r].cursor
          /\ going.status = "running" /\ ~going.started /\ going.attempt = runs[r].attempt
      BY <2>1, <2>2 DEF RunRow
    <2>5. CASE Write(r, Canceled(r))
      BY <2>3, <2>5, RowCanceled
    <2>6. CASE "retry" \in Decisions(r) /\ Write(r, going)
      <3>1. ~runs[r].started
        BY <2>6 DEF Decisions
      <3>2. runs'[r] = going /\ \A q \in Run : q # r => runs'[q] = runs[q]
        BY <2>6 DEF Write, CardInv, TypeOK
      <3>3. RowTame(r)
        BY <2>3, <2>4, <3>1, <3>2 DEF RowTame, SameProof
      <3> QED
        BY <2>3, <3>2, <3>3, RowChanges
    <2>7. CASE "continue" \in Decisions(r) /\ Write(r, [going EXCEPT !.cursor = @ + 1])
      <3>1. runs[r].started /\ runs[r].cursor = 2
        BY <2>7 DEF Decisions
      <3> DEFINE row == [going EXCEPT !.cursor = 3]
      <3>2. /\ row \in RunRow /\ row.proof = runs[r].proof /\ row.cursor = 3
            /\ row.status = "running" /\ ~row.started /\ row.attempt = runs[r].attempt
        BY <2>4 DEF RunRow
      <3>3. Write(r, row)
        BY <2>4, <2>7, <3>1 DEF RunRow
      <3> HIDE DEF row
      <3> QED
        BY <2>3, <3>1, <3>2, <3>3, RowContinues
    <2> QED
      BY <2>3, <2>5, <2>6, <2>7
  <1>3. CASE Lapse(r)
    <2>1. /\ UNCHANGED <<actor, taken>> /\ runs[r].status = "running"
          /\ runs' = [runs EXCEPT ![r].leased = FALSE]
      BY <1>3 DEF Lapse, history
    <2> DEFINE row == [runs[r] EXCEPT !.leased = FALSE]
    <2>2. /\ row.status = runs[r].status /\ row.attempt = runs[r].attempt
          /\ row.cursor = runs[r].cursor /\ row.started = runs[r].started
          /\ row.proof = runs[r].proof
      BY <1>1 DEF RunRow
    <2>3. runs'[r] = row /\ \A q \in Run : q # r => runs'[q] = runs[q]
      BY <2>1 DEF CardInv, TypeOK
    <2> HIDE DEF row
    <2>4. RowTame(r)
      BY <2>1, <2>2, <2>3 DEF RowTame, SameProof
    <2> QED
      BY <2>1, <2>3, <2>4, RowChanges
  <1> QED
    BY <1>2, <1>3

LEMMA RowCrash ==
    ASSUME CardInv, CardInv', RowInv, Crash
    PROVE  RowInv'
  <1>1. UNCHANGED <<runs, taken>> /\ \A b \in Actor : actor'[b] = IdleActor
    BY DEF Crash, history
  <1>2. \A b \in Actor : ActorRow(b)' /\ ~Claimant(b)' /\ ~Replayer(b)'
    BY <1>1, IdleRow
  <1> QED
    BY <1>1, <1>2 DEF RowInv, OneWriter, RowFresh, RowComplete, AbsentRow

LEMMA RowKept ==
    ASSUME CardInv, CardInv', RowInv, [Next]_vars
    PROVE  RowInv'
  <1>1. CASE UNCHANGED vars
    <2>1. PICK r \in Run : r = "auto"
      BY DEF Run
    <2>2. UNCHANGED <<actor, taken>> /\ runs' = runs
      BY <1>1 DEF vars, history
    <2> QED
      BY <2>2, Untouched, RowChanges
  <1>2. CASE \E a \in Actor : Work(a) \/ TryStartRun(a, "auto") \/ RequestDelivery(a)
    <2>1. PICK a \in Actor : Work(a) \/ TryStartRun(a, "auto") \/ RequestDelivery(a)
      BY <1>2
    <2>2. CASE TryStartRun(a, "auto") \/ TryStartRun(a, "manual")
      BY <2>2, EveryRun, RowTryStartRun
    <2>3. CASE RequestDelivery(a) \/ StartRefused(a) \/ LoadRun(a) \/ StartRunAction(a)
      BY <2>3, RowRequests, RowLoadRun, RowStartRunAction
    <2>4. CASE TakeCard(a) \/ SendCard(a) \/ RestoreCard(a) \/ CardsDone(a) \/ ConfirmShipment(a)
      BY <2>4, RowTakeCard, RowSendCard, RowRestoreCard, RowPlaces
    <2>5. CASE AdvanceRunAction(a) \/ QuarantineRun(a) \/ SettleUnsure(a) \/ AbortRunAction(a)
               \/ FinishFailed(a) \/ FinishRun(a)
      BY <2>5, RowAdvanceRunAction, RowQuarantineRun, RowSettleUnsure, RowAbortRunAction,
         RowFinish
    <2>6. CASE ClaimDeliveryReplay(a) \/ ResendMessage(a) \/ MarkRefill(a) \/ SaveRefill(a)
               \/ ConsignReplay(a) \/ CompleteDeliveryReplay(a) \/ ReleaseDeliveryReplay(a)
      BY <2>6, RowClaimDeliveryReplay, RowResendMessage, RowMarkRefill, RowSaveRefill,
         RowPlaces, RowCompleteDeliveryReplay, RowReleaseDeliveryReplay
    <2> QED
      BY <2>1, <2>2, <2>3, <2>4, <2>5, <2>6 DEF Work
  <1>3. CASE Recover \/ \E r \in Run : ReopenRunForRecovery(r)
    BY <1>3, RowRecovery DEF Recover
  <1>4. CASE \E r \in Run : ResolveRunIssue(r) \/ Lapse(r)
    BY <1>4, RowOperator
  <1>5. CASE Crash
    BY <1>5, RowCrash
  <1> QED
    BY <1>1, <1>2, <1>3, <1>4, <1>5 DEF Next

LEMMA RowStarts ==
    ASSUME Init
    PROVE  RowInv
  <1>1. \A r \in Run : runs[r] = NoRun /\ taken[r] = {}
    BY DEF Init
  <1>2. \A a \in Actor : actor[a] = IdleActor
    BY DEF Init
  <1>3. /\ NoRun.attempt = 0 /\ NoRun.cursor = 1 /\ NoRun.proof = NoProof
    BY DEF NoRun
  <1>4. /\ IdleActor.pc = "idle" /\ IdleActor.run = "auto" /\ ~IdleActor.replay
        /\ IdleActor.att = 0 /\ IdleActor.cur = 1
    BY DEF IdleActor
  <1>5. \A a \in Actor : Mine(a) = NoRun /\ ~Claimant(a) /\ ~Replayer(a)
    BY <1>1, <1>2, <1>4, EveryRun DEF Mine, Claimant, Replayer, Acting, Taking
  <1>6. \A a \in Actor : ActorRow(a)
    BY <1>2, <1>3, <1>4, <1>5
    DEF ActorRow, ClaimantRow, ReadyRow, ReplayRow, ClaimRow, TakenKnown
  <1>7. Cardinality({}) <= Units
    BY OrderAssumption, FS_EmptySet
  <1>8. \A r \in Run : RowFresh(r) /\ RowComplete(r) /\ AbsentRow(r) /\ Cardinality(taken[r]) <= Units
    BY <1>1, <1>3, <1>7, EmptyProof DEF RowFresh, RowComplete, AbsentRow
  <1> QED
    BY <1>5, <1>6, <1>8 DEF RowInv, OneWriter

\* Every behaviour keeps the cards in one place each, and every row knows what
\* was taken for it: the two invariants the properties below rest on.
THEOREM DeliveryInvariant == Spec => [](CardInv /\ RowInv)
  <1>1. Init => CardInv /\ RowInv
    BY CardStarts, RowStarts
  <1>2. CardInv /\ RowInv /\ [Next]_vars => (CardInv /\ RowInv)'
    BY CardKept, RowKept
  <1> QED
    BY <1>1, <1>2, PTL DEF Spec

\* The rows of the order and the goroutines at work on it keep their types
\* (TypeOK): an automatic and a manual run, replays and refills of either.
THEOREM DeliveryTypesOK == Spec => []TypeOK
  BY DeliveryInvariant, PTL DEF CardInv

\* However often deliveries of the order crash, are retried, replayed and
\* refilled, each run takes at most the cards the order is owed (RunOwes):
\* sendDataCardWithProof takes for a refill only what the proof does not name.
THEOREM NeverOwesMore == Spec => []RunOwes
  <1>1. RowInv => RunOwes
    BY DEF RowInv, RunOwes
  <1> QED
    BY <1>1, DeliveryInvariant, PTL

\* A card that was given to the platform never returns to the stock
\* (StockNeverSent): RestoreBatchData is called only for a message that was
\* certainly not sent.
THEOREM SentNeverRestocked == Spec => []StockNeverSent
  <1>1. CardInv => StockNeverSent
    BY DEF CardInv, KnownHanded, StockApart, StockNeverSent
  <1> QED
    BY <1>1, DeliveryInvariant, PTL

\* What the two runs of an order do to the stock (StockSafe): neither takes more than
\* the order is owed, and nothing that was given to the platform comes back.
THEOREM StockIsSafe == Spec => []StockSafe
  BY NeverOwesMore, SentNeverRestocked, PTL DEF StockSafe

\* A card that left the stock is named by the proof of its run, in somebody's
\* hands, or the row shows that something is amiss (LostVisible); the theorem
\* does not need the hands: a row without a mark names all that was taken.
THEOREM LossIsVisible == Spec => []LostVisible
  <1>1. RowInv => LostVisible
    BY DEF RowInv, RowComplete, LostVisible, Flagged
  <1> QED
    BY <1>1, DeliveryInvariant, PTL

\* A replay confirms the shipment only when the platform has confirmed as many
\* cards as the order is owed (ReplayWhole), whatever earlier attempts sent.
THEOREM ReplayConfirmsAll == Spec => []ReplayWhole
  <1>1. CardInv => ReplayWhole
    BY DEF CardInv, Confirmed, ReplayWhole, In
  <1> QED
    BY <1>1, DeliveryInvariant, PTL

------------------------------------------------------------------------------
(* The deliveries implement the ledger of the stock                        *)

StockStep == [Ledger!Next]_(Ledger!ledger)

\* A step that leaves the cards alone is none of the ledger's.
LEMMA StockQuiet ==
    ASSUME UNCHANGED <<stock, history>>
    PROVE  StockStep
  BY DEF StockStep, history, Ledger!ledger, Owed

LEMMA TakenCount ==
    ASSUME CardInv, NEW r \in Run
    PROVE  IsFiniteSet(taken[r]) /\ Cardinality(taken[r]) \in Nat
  BY CardsFinite DEF CardInv, TypeOK

LEMMA OwedIs ==
    ASSUME CardInv
    PROVE  /\ Owed \in [Run -> Int] /\ \A r \in Run : Owed[r] = Units - Cardinality(taken[r])
           /\ DOMAIN Owed' = Run /\ \A r \in Run : Owed'[r] = Units - Cardinality(taken'[r])
  BY TakenCount, OrderAssumption DEF Owed

\* What a run is owed after a card was taken for it, or put back.
LEMMA OwedChanges ==
    ASSUME CardInv, NEW r \in Run, NEW n \in Int,
           \A s \in Run : s # r => taken'[s] = taken[s],
           Cardinality(taken'[r]) = Cardinality(taken[r]) - n
    PROVE  Owed' = [Owed EXCEPT ![r] = @ + n]
  <1> DEFINE f == [Owed EXCEPT ![r] = @ + n]
  <1>1. Owed' = [s \in Run |-> Owed'[s]] /\ f = [s \in Run |-> f[s]]
    BY OwedIs DEF Owed
  <1>2. ASSUME NEW s \in Run PROVE Owed'[s] = f[s]
    <2>1. CASE s = r
      BY <2>1, OwedIs, TakenCount, OrderAssumption
    <2>2. CASE s # r
      BY <2>2, OwedIs
    <2> QED
      BY <2>1, <2>2
  <1> HIDE DEF f
  <1>3. Owed' = f
    BY <1>1, <1>2
  <1> QED
    BY <1>3 DEF f

LEMMA OwedTaken ==
    ASSUME CardInv, NEW r \in Run, NEW c, c \notin taken[r], taken' = [taken EXCEPT ![r] = @ \cup {c}]
    PROVE  Owed' = [Owed EXCEPT ![r] = @ - 1]
  <1>1. taken'[r] = taken[r] \cup {c} /\ \A s \in Run : s # r => taken'[s] = taken[s]
    BY DEF CardInv, TypeOK
  <1> DEFINE T == taken[r]
  <1>2. IsFiniteSet(T) /\ Cardinality(T) \in Nat /\ c \notin T
    BY TakenCount
  <1> HIDE DEF T
  <1>3. Cardinality(T \cup {c}) = Cardinality(T) + 1
    BY <1>2, FS_AddElement
  <1>4. Cardinality(taken'[r]) = Cardinality(taken[r]) + 1
    BY <1>1, <1>3 DEF T
  <1>5. PICK n \in Int : n = -1
    OBVIOUS
  <1>6. Cardinality(taken'[r]) = Cardinality(taken[r]) - n
    BY <1>4, <1>5, <1>2 DEF T
  <1>7. Owed' = [Owed EXCEPT ![r] = @ + n]
    BY <1>1, <1>6, OwedChanges
  <1>8. Owed[r] + n = Owed[r] - 1
    BY <1>5, OwedIs
  <1> QED
    BY <1>7, <1>8

LEMMA OwedAgain ==
    ASSUME CardInv, NEW r \in Run, NEW c \in taken[r], taken' = [taken EXCEPT ![r] = @ \ {c}]
    PROVE  Owed' = [Owed EXCEPT ![r] = @ + 1]
  <1>1. taken'[r] = taken[r] \ {c} /\ \A s \in Run : s # r => taken'[s] = taken[s]
    BY DEF CardInv, TypeOK
  <1>2. Cardinality(taken'[r]) = Cardinality(taken[r]) - 1
    BY <1>1, TakenCount, FS_RemoveElement
  <1> QED
    BY <1>1, <1>2, OwedChanges

LEMMA StockGiven ==
    ASSUME NEW r \in Run, NEW c \in taken[r], Ledger!Give(r, c) \/ Ledger!PutBack(r, c)
    PROVE  StockStep
  BY DEF StockStep, Ledger!Next

LEMMA StockTakeCard ==
    ASSUME CardInv, RowInv, NEW a \in Actor, TakeCard(a)
    PROVE  StockStep
  <1>1. CASE Executing(a) /\ stock # <<>> /\ stock' = Tail(stock)
               /\ taken' = [taken EXCEPT ![actor[a].run] = @ \cup {Head(stock)}]
    <2>1. actor[a].run \in Run
      BY RowTypes
    <2>2. Cardinality(taken[actor[a].run]) < Units
      BY <1>1, TakerKnows DEF TakeCard, In
    <2>3. UNCHANGED <<handed, accepted>>
      BY DEF TakeCard
    <2>4. stock[1] = Head(stock) /\ 1 \in 1 .. Len(stock)
      BY <1>1 DEF CardInv, TypeOK
    <2>5. Head(stock) \notin taken[actor[a].run] /\ Head(stock) \in Card
      BY <2>1, <2>4 DEF CardInv, TypeOK, StockApart
    <2>6. Owed' = [Owed EXCEPT ![actor[a].run] = @ - 1]
      BY <1>1, <2>1, <2>5, OwedTaken
    <2>7. Owed[actor[a].run] > 0
      BY <2>1, <2>2, OwedIs, TakenCount, OrderAssumption
    <2>8. Ledger!Take(actor[a].run)
      BY <1>1, <2>3, <2>6, <2>7 DEF Ledger!Take
    <2> QED
      BY <2>1, <2>8 DEF StockStep, Ledger!Next
  <1>2. CASE UNCHANGED <<stock, taken>>
    BY <1>2, StockQuiet DEF TakeCard, history
  <1> QED
    BY <1>1, <1>2 DEF TakeCard

LEMMA StockSendCard ==
    ASSUME CardInv, NEW a \in Actor, SendCard(a)
    PROVE  StockStep
  <1> DEFINE r == actor[a].run
             c == actor[a].card
  <1>1. r \in Run /\ c \in taken[r]
    BY RowTypes DEF SendCard, In, CardInv, HandsApart, InTransit
  <1>2. CASE UNCHANGED <<handed, accepted>>
    BY <1>2, StockQuiet DEF SendCard, history
  <1>3. CASE /\ handed' = [handed EXCEPT ![r] = @ \cup {c}]
             /\ accepted' \in {accepted, [accepted EXCEPT ![r] = @ \cup {c}]}
    <2>1. Ledger!Give(r, c)
      BY <1>1, <1>3 DEF Ledger!Give, SendCard, Owed
    <2> QED
      BY <1>1, <2>1, StockGiven
  <1> QED
    BY <1>2, <1>3 DEF SendCard

LEMMA StockRestoreCard ==
    ASSUME CardInv, NEW a \in Actor, RestoreCard(a)
    PROVE  StockStep
  <1> DEFINE r == actor[a].run
             c == actor[a].card
  <1>1. r \in Run /\ c \in taken[r] /\ \A s \in Run : c \notin handed[s]
    BY RowTypes DEF RestoreCard, In, CardInv, HandsApart, InTransit
  <1>2. CASE stock' = <<c>> \o stock /\ taken' = [taken EXCEPT ![r] = @ \ {c}]
    <2>1. UNCHANGED <<handed, accepted>>
      BY DEF RestoreCard
    <2>2. Owed' = [Owed EXCEPT ![r] = @ + 1]
      BY <1>1, <1>2, OwedAgain
    <2>3. Ledger!PutBack(r, c)
      BY <1>1, <1>2, <2>1, <2>2 DEF Ledger!PutBack
    <2> QED
      BY <1>1, <2>3, StockGiven
  <1>3. CASE UNCHANGED <<stock, taken>>
    BY <1>3, StockQuiet DEF RestoreCard, history
  <1> QED
    BY <1>2, <1>3 DEF RestoreCard

\* What a replay sends again was handed over before, and so was taken.
LEMMA StockResendMessage ==
    ASSUME CardInv, NEW a \in Actor, ResendMessage(a)
    PROVE  StockStep
  <1> DEFINE r == actor[a].run
             c == CHOOSE x \in actor[a].todo : TRUE
  <1>1. CASE /\ actor[a].todo # {}
             /\ handed' = [handed EXCEPT ![r] = @ \cup {c}]
             /\ accepted' = [accepted EXCEPT ![r] = @ \cup {c}]
    <2>1. r \in Run /\ c \in actor[a].todo
      BY <1>1, RowTypes
    <2>2. actor[a].todo \subseteq handed[r] /\ handed[r] \subseteq taken[r]
      BY <2>1 DEF CardInv, LocalHanded, KnownHanded
    <2> HIDE DEF c
    <2>3. Ledger!Give(r, c)
      BY <1>1, <2>1, <2>2 DEF Ledger!Give, ResendMessage, Owed
    <2> QED
      BY <2>1, <2>2, <2>3, StockGiven
  <1>2. CASE UNCHANGED <<handed, accepted>>
    BY <1>2, StockQuiet DEF ResendMessage, history
  <1> QED
    BY <1>1, <1>2 DEF ResendMessage

LEMMA StockKept ==
    ASSUME CardInv, RowInv, [Next]_vars
    PROVE  StockStep
  <1>1. CASE UNCHANGED vars
    BY <1>1, StockQuiet DEF vars
  <1>2. CASE \E a \in Actor : Work(a) \/ TryStartRun(a, "auto") \/ RequestDelivery(a)
    <2>1. PICK a \in Actor : Work(a) \/ TryStartRun(a, "auto") \/ RequestDelivery(a)
      BY <1>2
    <2>2. CASE TakeCard(a) \/ SendCard(a) \/ RestoreCard(a) \/ ResendMessage(a)
      BY <2>2, StockTakeCard, StockSendCard, StockRestoreCard, StockResendMessage
    <2>3. CASE TryStartRun(a, "auto") \/ TryStartRun(a, "manual") \/ RequestDelivery(a) \/ StartRefused(a)
      <3>1. UNCHANGED stock /\ UNCHANGED history
        <4>1. CASE TryStartRun(a, "auto") \/ TryStartRun(a, "manual")
          BY <4>1 DEF TryStartRun
        <4>2. CASE RequestDelivery(a)
          BY <4>2 DEF RequestDelivery
        <4>3. CASE StartRefused(a)
          BY <4>3 DEF StartRefused
        <4> QED
          BY <2>3, <4>1, <4>2, <4>3
      <3> QED
        BY <3>1, StockQuiet
    <2>6. CASE LoadRun(a) \/ StartRunAction(a) \/ CardsDone(a) \/ ConfirmShipment(a)
      BY <2>6, StockQuiet DEF LoadRun, StartRunAction, CardsDone, ConfirmShipment
    <2>4. CASE \/ AdvanceRunAction(a) \/ QuarantineRun(a) \/ SettleUnsure(a) \/ AbortRunAction(a)
               \/ FinishFailed(a) \/ FinishRun(a)
      BY <2>4, StockQuiet
      DEF AdvanceRunAction, QuarantineRun, SettleUnsure, AbortRunAction, FinishFailed, FinishRun
    <2>5. CASE \/ ClaimDeliveryReplay(a) \/ MarkRefill(a) \/ SaveRefill(a) \/ ConsignReplay(a)
               \/ CompleteDeliveryReplay(a) \/ ReleaseDeliveryReplay(a)
      BY <2>5, StockQuiet
      DEF ClaimDeliveryReplay, MarkRefill, SaveRefill, ConsignReplay, CompleteDeliveryReplay,
          ReleaseDeliveryReplay
    <2> QED
      BY <2>1, <2>2, <2>3, <2>4, <2>5, <2>6 DEF Work
  <1>3. CASE Recover \/ \E r \in Run : ReopenRunForRecovery(r) \/ ResolveRunIssue(r) \/ Lapse(r)
    BY <1>3, StockQuiet
    DEF Recover, QuarantineRecoveryRun, CancelObsoletePaidRecoveryRun, ClaimRecoveryRun,
        ReopenRunForRecovery, ResolveRunIssue, Lapse
  <1>4. CASE Crash
    BY <1>4, StockQuiet DEF Crash
  <1> QED
    BY <1>1, <1>2, <1>3, <1>4 DEF Next

\* The two runs of an order implement the ledger of StockLedger (StockSpec): with any
\* stock, any number of requests, crashes, replays, refills and decisions, a card is taken
\* only while the order is owed one, given only by the run it was taken for, and put back
\* only when no message carried it.
THEOREM ImplementsStockLedger == Spec => StockSpec
  <1>1. Init => Ledger!Init
    <2>1. ASSUME Init PROVE Owed = [r \in Run |-> Units]
      <3>1. \A r \in Run : Units - Cardinality(taken[r]) = Units
        BY <2>1, FS_EmptySet, OrderAssumption DEF Init
      <3> QED
        BY <3>1 DEF Owed
    <2> QED
      BY <2>1 DEF Init, Ledger!Init
  <1>2. CardInv /\ RowInv /\ [Next]_vars => StockStep
    BY StockKept
  <1> QED
    BY <1>1, <1>2, DeliveryInvariant, PTL DEF Spec, StockSpec, Ledger!Spec, StockStep

-----------------------------------------------------------------------------
(* The stored conversation                                                 *)

\* The platform's messages and their pushes.
PostsOK ==
    /\ posts \in Seq({"buyer", "own"}) /\ Posted <= MaxPosts
    /\ chatPushes \in [Post -> {"none", "due", "held", "done", "lost"}]
    /\ \A m \in Post : chatPushes[m] = "none" <=> m > Posted

\* The epochs are in order.
EpochsOK ==
    /\ epoch \in 0 .. MaxDeletes
    /\ observedAt \in [Post -> Nat] /\ wipedAt \in [Post -> Nat]
    /\ \A m \in Post : observedAt[m] <= epoch /\ wipedAt[m] <= session.cleared

\* A row is not older than its message.
RowsOK ==
    /\ messageRows \in [Post -> 0 .. 2 * MaxPosts + 1]
    /\ \A m \in Post : messageRows[m] > 0 => TimeOf(m) <= messageRows[m] /\ m <= Posted

LocalOK == localRows \in Seq(0 .. 2 * MaxPosts + 1)

SessionOK ==
    session \in [hidden : BOOLEAN, cleared : 0 .. epoch, cutoff : 0 .. 2 * MaxPosts + 1,
                 last : 0 .. 2 * MaxPosts + 1]

\* The gate has one holder; the epoch is that of the deletion under way.
CallsOK ==
    /\ deleter \in [pc : {"idle", "deleting"}, stamp : Nat]
    /\ sender \in [pc : {"idle", "sending", "recording"}, row : Nat]
    /\ deleter.pc = "idle" \/ sender.pc = "idle"
    /\ deleter.pc = "deleting" => deleter.stamp = epoch /\ session.cleared < epoch

\* A page shows what was posted.
PageOK ==
    /\ page \in [kind : {"none", "history", "conversations"}, upto : Nat, next : Nat]
    /\ page.kind # "none" => page.upto \in 1 .. Posted /\ page.next > 0
    /\ page.kind = "history" => page.next <= page.upto

\* The cutoff is not before what was ever deleted.
CutOff == \A m \in Post : wipedAt[m] > 0 => TimeOf(m) <= session.cutoff

\* What was observed after the deletion under way began, and was handled, has
\* its row: it was accepted, and nothing was deleted since.
SavedDuringDeletion ==
    deleter.pc = "deleting" =>
        \A m \in Post : chatPushes[m] = "done" /\ observedAt[m] >= epoch => messageRows[m] > 0

RowFound == sender.pc # "idle" => sender.row \in 1 .. Len(localRows) /\ localRows[sender.row] > 0

\* The inductive invariant: the above with what ConversationSafe says.
ChatInv ==
    /\ PostsOK /\ EpochsOK /\ RowsOK /\ LocalOK /\ SessionOK /\ CallsOK /\ PageOK /\ CutOff
    /\ SavedDuringDeletion /\ RowFound /\ NothingSwallowed /\ HiddenIsEmpty


\* SaveMessage shows the session and moves its last time only.
LEMMA ShownSession ==
    ASSUME SessionOK, NEW at \in 0 .. 2 * MaxPosts + 1
    PROVE  /\ Shown(at).cleared = session.cleared /\ Shown(at).cutoff = session.cutoff
           /\ ~Shown(at).hidden
           /\ Shown(at) \in [hidden : BOOLEAN, cleared : 0 .. epoch, cutoff : 0 .. 2 * MaxPosts + 1,
                             last : 0 .. 2 * MaxPosts + 1]
<1>1. session.last \in 0 .. 2 * MaxPosts + 1
  BY DEF SessionOK
<1>. DEFINE newLast == IF session.last <= at THEN at ELSE session.last
<1>2. newLast \in 0 .. 2 * MaxPosts + 1
  BY <1>1
<1>3. Shown(at) = [session EXCEPT !.hidden = FALSE, !.last = newLast]
  BY DEF Shown
<1>. HIDE DEF newLast
<1>. QED
  BY <1>2, <1>3 DEF SessionOK

\* A row inserted for message m, not older than the message, in a session that
\* goes on: what is known of pushes, rows and deletions stays true, and what the
\* session accepted is the caller's to say for the message itself.
LEMMA RowInserted ==
    ASSUME ChatInv, NEW m \in Post, NEW at \in 0 .. 2 * MaxPosts + 1,
           TimeOf(m) <= at, m <= Posted,
           messageRows' = [messageRows EXCEPT ![m] = at], session' = Shown(at),
           UNCHANGED <<posts, observedAt, localRows, deleter, sender, epoch, wipedAt, pages>>,
           \A k \in Post : k # m => chatPushes'[k] = chatPushes[k]
    PROVE  RowsOK' /\ SessionOK' /\ CutOff' /\ SavedDuringDeletion' /\ NothingSwallowed' /\ HiddenIsEmpty'
<1>1. /\ session'.cleared = session.cleared /\ session'.cutoff = session.cutoff /\ ~session'.hidden
      /\ SessionOK'
  BY ShownSession DEF ChatInv, SessionOK
<1>2. at > 0 /\ at \in Nat
  BY ChatBounds DEF TimeOf, Post
<1>3. RowsOK'
  BY <1>2, ChatBounds DEF ChatInv, RowsOK, Post, TimeOf, Posted
<1>4. /\ messageRows \in [Post -> Nat] /\ messageRows' \in [Post -> Nat]
      /\ messageRows'[m] > 0 /\ \A k \in Post : k # m => messageRows'[k] = messageRows[k]
  BY <1>2, ChatBounds DEF ChatInv, RowsOK
<1>5. CutOff'
  BY <1>1 DEF ChatInv, CutOff
<1>6. SavedDuringDeletion'
  BY <1>4 DEF ChatInv, SavedDuringDeletion
<1>7. NothingSwallowed'
  BY <1>1, <1>4 DEF ChatInv, NothingSwallowed
<1>8. HiddenIsEmpty'
  BY <1>1 DEF HiddenIsEmpty
<1>. QED
  BY <1>1, <1>3, <1>5, <1>6, <1>7, <1>8

LEMMA PlatformPostsKept == ASSUME ChatInv, NEW kind \in {"buyer", "own"}, PlatformPosts(kind) PROVE ChatInv'
<1> USE ChatBounds DEF Posted, Post, TimeOf, LocalNow, PlatformPosts, PostMessage
<1>1. PostsOK'
  BY DEF ChatInv, PostsOK
<1>2. EpochsOK'
  BY DEF ChatInv, EpochsOK, SessionOK, CallsOK
<1>3. RowsOK'
  BY DEF ChatInv, RowsOK, PostsOK, PageOK
<1>4. LocalOK'
  BY DEF ChatInv, LocalOK, PostsOK
<1>5. SessionOK'
  BY DEF ChatInv, SessionOK, EpochsOK, RowsOK, PostsOK, LocalOK, CallsOK, PageOK
<1>6. CallsOK'
  BY DEF ChatInv, CallsOK, EpochsOK, SessionOK
<1>7. PageOK'
  BY DEF ChatInv, PageOK, PostsOK
<1>8. CutOff'
  BY DEF ChatInv, CutOff, RowsOK, EpochsOK, LocalOK, PostsOK
<1>9. SavedDuringDeletion'
  BY DEF ChatInv, SavedDuringDeletion, CallsOK, EpochsOK, PostsOK, SessionOK, RowsOK
<1>10. RowFound'
  BY DEF ChatInv, RowFound, CallsOK, LocalOK, PostsOK
<1>11. NothingSwallowed'
  BY DEF ChatInv, NothingSwallowed, SavedDuringDeletion, CallsOK, EpochsOK, RowsOK, PostsOK, SessionOK
<1>12. HiddenIsEmpty'
  BY DEF ChatInv, HiddenIsEmpty, LocalOK, RowsOK, SessionOK
<1>. QED
  BY <1>1, <1>2, <1>3, <1>4, <1>5, <1>6, <1>7, <1>8, <1>9, <1>10, <1>11, <1>12 DEF ChatInv

LEMMA ObservePushKept == ASSUME ChatInv, NEW m \in Post, ObservePush(m) PROVE ChatInv'
<1> USE ChatBounds DEF Posted, Post, TimeOf, LocalNow, ObservePush
<1>1. PostsOK'
  BY DEF ChatInv, PostsOK
<1>2. EpochsOK'
  BY DEF ChatInv, EpochsOK, SessionOK, CallsOK
<1>3. RowsOK'
  BY DEF ChatInv, RowsOK, PostsOK, PageOK
<1>4. LocalOK'
  BY DEF ChatInv, LocalOK, PostsOK
<1>5. SessionOK'
  BY DEF ChatInv, SessionOK, EpochsOK, RowsOK, PostsOK, LocalOK, CallsOK, PageOK
<1>6. CallsOK'
  BY DEF ChatInv, CallsOK, EpochsOK, SessionOK
<1>7. PageOK'
  BY DEF ChatInv, PageOK, PostsOK
<1>8. CutOff'
  BY DEF ChatInv, CutOff, RowsOK, EpochsOK, LocalOK, PostsOK
<1>9. SavedDuringDeletion'
  BY DEF ChatInv, SavedDuringDeletion, CallsOK, EpochsOK, PostsOK, SessionOK, RowsOK
<1>10. RowFound'
  BY DEF ChatInv, RowFound, CallsOK, LocalOK, PostsOK
<1>11. NothingSwallowed'
  BY DEF ChatInv, NothingSwallowed, SavedDuringDeletion, CallsOK, EpochsOK, RowsOK, PostsOK, SessionOK
<1>12. HiddenIsEmpty'
  BY DEF ChatInv, HiddenIsEmpty, LocalOK, RowsOK, SessionOK
<1>. QED
  BY <1>1, <1>2, <1>3, <1>4, <1>5, <1>6, <1>7, <1>8, <1>9, <1>10, <1>11, <1>12 DEF ChatInv

LEMMA LosePushKept == ASSUME ChatInv, NEW m \in Post, LosePush(m) PROVE ChatInv'
<1> USE ChatBounds DEF Posted, Post, TimeOf, LocalNow, LosePush
<1>1. PostsOK'
  BY DEF ChatInv, PostsOK
<1>2. EpochsOK'
  BY DEF ChatInv, EpochsOK, SessionOK, CallsOK
<1>3. RowsOK'
  BY DEF ChatInv, RowsOK, PostsOK, PageOK
<1>4. LocalOK'
  BY DEF ChatInv, LocalOK, PostsOK
<1>5. SessionOK'
  BY DEF ChatInv, SessionOK, EpochsOK, RowsOK, PostsOK, LocalOK, CallsOK, PageOK
<1>6. CallsOK'
  BY DEF ChatInv, CallsOK, EpochsOK, SessionOK
<1>7. PageOK'
  BY DEF ChatInv, PageOK, PostsOK
<1>8. CutOff'
  BY DEF ChatInv, CutOff, RowsOK, EpochsOK, LocalOK, PostsOK
<1>9. SavedDuringDeletion'
  BY DEF ChatInv, SavedDuringDeletion, CallsOK, EpochsOK, PostsOK, SessionOK, RowsOK
<1>10. RowFound'
  BY DEF ChatInv, RowFound, CallsOK, LocalOK, PostsOK
<1>11. NothingSwallowed'
  BY DEF ChatInv, NothingSwallowed, SavedDuringDeletion, CallsOK, EpochsOK, RowsOK, PostsOK, SessionOK
<1>12. HiddenIsEmpty'
  BY DEF ChatInv, HiddenIsEmpty, LocalOK, RowsOK, SessionOK
<1>. QED
  BY <1>1, <1>2, <1>3, <1>4, <1>5, <1>6, <1>7, <1>8, <1>9, <1>10, <1>11, <1>12 DEF ChatInv

LEMMA SaveObservedKept == ASSUME ChatInv, NEW m \in Post, SaveObserved(m) PROVE ChatInv'
<1> USE ChatBounds DEF Post
<1>1. /\ chatPushes[m] = "held" /\ chatPushes' = [chatPushes EXCEPT ![m] = "done"]
      /\ UNCHANGED <<posts, observedAt, localRows, deleter, sender, page, epoch, wipedAt, pages>>
      /\ \A k \in Post : k # m => chatPushes'[k] = chatPushes[k]
  BY DEF SaveObserved, ChatInv, PostsOK
<1>2. PostsOK' /\ LocalOK' /\ PageOK' /\ m <= Posted
  BY <1>1 DEF ChatInv, PostsOK, LocalOK, PageOK, Posted
<1>3. CASE LiveAccepted(observedAt[m]) /\ messageRows[m] = 0
  <2>1. /\ messageRows' = [messageRows EXCEPT ![m] = RowTime(m)] /\ session' = Shown(RowTime(m))
    BY <1>3 DEF SaveObserved
  <2>2. RowTime(m) \in 0 .. 2 * MaxPosts + 1 /\ TimeOf(m) <= RowTime(m)
    BY <1>2 DEF RowTime, LocalNow, TimeOf, Posted, ChatInv, PostsOK
  <2>3. RowsOK' /\ SessionOK' /\ CutOff' /\ SavedDuringDeletion' /\ NothingSwallowed' /\ HiddenIsEmpty'
    BY <1>1, <1>2, <2>1, <2>2, RowInserted
  <2>4. session'.cleared = session.cleared
    BY <2>1, <2>2, ShownSession DEF ChatInv
  <2>5. EpochsOK' /\ CallsOK' /\ RowFound'
    BY <1>1, <2>4 DEF ChatInv, EpochsOK, CallsOK, RowFound
  <2>. QED
    BY <1>2, <2>3, <2>5 DEF ChatInv
<1>4. CASE ~(LiveAccepted(observedAt[m]) /\ messageRows[m] = 0)
  <2>1. UNCHANGED <<messageRows, session>>
    BY <1>4 DEF SaveObserved
  <2>2. /\ EpochsOK' /\ RowsOK' /\ SessionOK' /\ CallsOK' /\ CutOff' /\ RowFound' /\ HiddenIsEmpty'
    BY <1>1, <2>1 DEF ChatInv, EpochsOK, RowsOK, SessionOK, CallsOK, CutOff, RowFound, HiddenIsEmpty, Posted
  <2>3. observedAt[m] >= session.cleared => messageRows[m] > 0
    BY <1>4 DEF LiveAccepted, ChatInv, RowsOK
  <2>4. deleter.pc = "deleting" => session.cleared <= epoch
    BY DEF ChatInv, CallsOK, SessionOK, EpochsOK
  <2>5. /\ observedAt[m] \in Nat /\ session.cleared \in Nat /\ epoch \in Nat
    BY DEF ChatInv, EpochsOK, SessionOK
  <2>6. SavedDuringDeletion' /\ NothingSwallowed'
    BY <1>1, <2>1, <2>3, <2>4, <2>5 DEF ChatInv, SavedDuringDeletion, NothingSwallowed
  <2>. QED
    BY <1>2, <2>2, <2>6 DEF ChatInv
<1>. QED
  BY <1>3, <1>4

LEMMA StartDeleteKept == ASSUME ChatInv, StartDelete PROVE ChatInv'
<1>e. EpochsOK'
  <2>1. /\ epoch < MaxDeletes /\ epoch' = epoch + 1
        /\ observedAt' = observedAt /\ wipedAt' = wipedAt /\ session' = session
    BY DEF StartDelete
  <2>2. EpochsOK /\ MaxDeletes \in Nat
    BY ChatBounds DEF ChatInv
  <2>. QED
    BY <2>1, <2>2 DEF EpochsOK
<1> USE ChatBounds DEF Posted, Post, TimeOf, LocalNow, StartDelete, GateFree
<1>1. PostsOK'
  BY DEF ChatInv, PostsOK
<1>2. EpochsOK'
  BY <1>e
<1>3. RowsOK'
  BY DEF ChatInv, RowsOK, PostsOK, PageOK
<1>4. LocalOK'
  BY DEF ChatInv, LocalOK, PostsOK
<1>5. SessionOK'
  BY DEF ChatInv, SessionOK, EpochsOK, RowsOK, PostsOK, LocalOK, CallsOK, PageOK
<1>6. CallsOK'
  BY DEF ChatInv, CallsOK, EpochsOK, SessionOK
<1>7. PageOK'
  BY DEF ChatInv, PageOK, PostsOK
<1>8. CutOff'
  BY DEF ChatInv, CutOff, RowsOK, EpochsOK, LocalOK, PostsOK
<1>9. SavedDuringDeletion'
  BY DEF ChatInv, SavedDuringDeletion, CallsOK, EpochsOK, PostsOK, SessionOK, RowsOK
<1>10. RowFound'
  BY DEF ChatInv, RowFound, CallsOK, LocalOK, PostsOK
<1>11. NothingSwallowed'
  BY DEF ChatInv, NothingSwallowed, SavedDuringDeletion, CallsOK, EpochsOK, RowsOK, PostsOK, SessionOK
<1>12. HiddenIsEmpty'
  BY DEF ChatInv, HiddenIsEmpty, LocalOK, RowsOK, SessionOK
<1>. QED
  BY <1>1, <1>2, <1>3, <1>4, <1>5, <1>6, <1>7, <1>8, <1>9, <1>10, <1>11, <1>12 DEF ChatInv

LEMMA CommitDeleteKept == ASSUME ChatInv, CommitDelete PROVE ChatInv'
<1> USE ChatBounds DEF Post
<1>1. /\ deleter.pc = "deleting" /\ deleter' = [pc |-> "idle", stamp |-> 0]
      /\ UNCHANGED <<posts, chatPushes, observedAt, sender, page, epoch, pages>>
  BY DEF CommitDelete
<1>2. /\ deleter.stamp = epoch /\ session.cleared < epoch /\ sender.pc = "idle"
      /\ epoch \in Nat /\ session.cleared \in Nat
  BY <1>1 DEF ChatInv, CallsOK, SessionOK, EpochsOK
<1>3. PostsOK' /\ PageOK' /\ RowFound' /\ SavedDuringDeletion'
  BY <1>1, <1>2 DEF ChatInv, PostsOK, PageOK, RowFound, SavedDuringDeletion, Posted
<1>4. CASE session.hidden
  <2>1. UNCHANGED <<session, messageRows, localRows, wipedAt>>
    BY <1>4 DEF CommitDelete
  <2>. QED
    BY <1>1, <1>3, <2>1 DEF ChatInv, EpochsOK, RowsOK, LocalOK, SessionOK, CallsOK, CutOff, HiddenIsEmpty,
                           NothingSwallowed, Posted
<1>5. CASE ~session.hidden
  <2>1. /\ messageRows' = [k \in Post |-> 0]
        /\ localRows' = [i \in DOMAIN localRows |-> 0]
        /\ wipedAt' = [k \in Post |-> IF messageRows[k] > 0 THEN epoch ELSE wipedAt[k]]
    BY <1>2, <1>5 DEF CommitDelete
  <2>2. PICK newest \in ShownTimes :
          /\ \A t \in ShownTimes : t <= newest
          /\ session' = [hidden |-> TRUE, cleared |-> epoch, cutoff |-> newest, last |-> 0]
    BY <1>2, <1>5 DEF CommitDelete
  <2>3. newest \in 0 .. 2 * MaxPosts + 1
    <3>1. CASE newest \in {session.cutoff, session.last}
      BY <3>1 DEF ChatInv, SessionOK
    <3>2. CASE \E k \in Post : newest = messageRows[k]
      BY <3>2 DEF ChatInv, RowsOK
    <3>3. CASE \E i \in DOMAIN localRows : newest = localRows[i]
      BY <3>3 DEF ChatInv, LocalOK
    <3>. QED
      BY <2>2, <3>1, <3>2, <3>3 DEF ShownTimes
  <2>4. session.cutoff <= newest /\ \A k \in Post : messageRows[k] <= newest
    BY <2>2 DEF ShownTimes
  <2>5. SessionOK' /\ session'.cleared = epoch /\ session'.cutoff = newest
    BY <1>1, <1>2, <2>2, <2>3 DEF SessionOK
  <2>6. EpochsOK'
    <3>1. observedAt \in [Post -> Nat] /\ wipedAt' \in [Post -> Nat]
      BY <1>2, <2>1 DEF ChatInv, EpochsOK
    <3>2. \A k \in Post : wipedAt'[k] <= epoch /\ observedAt[k] <= epoch
      BY <1>2, <2>1 DEF ChatInv, EpochsOK, SessionOK
    <3>. QED
      BY <1>1, <2>5, <3>1, <3>2 DEF EpochsOK, ChatInv
  <2>7. RowsOK' /\ HiddenIsEmpty'
    BY <2>1, <2>2 DEF RowsOK, HiddenIsEmpty
  <2>8. LocalOK' /\ CallsOK'
    BY <1>1, <1>2, <2>1 DEF LocalOK, CallsOK, ChatInv
  <2>9. CutOff'
    <3>1. SUFFICES ASSUME NEW k \in Post, wipedAt'[k] > 0 PROVE TimeOf(k) <= newest
      BY <2>5 DEF CutOff
    <3>2. messageRows[k] \in Nat /\ TimeOf(k) \in Nat /\ session.cutoff \in Nat /\ newest \in Nat
      BY <2>3 DEF ChatInv, RowsOK, TimeOf, SessionOK
    <3>3. CASE messageRows[k] > 0
      BY <2>4, <3>2, <3>3 DEF ChatInv, RowsOK
    <3>4. CASE ~(messageRows[k] > 0)
      BY <2>1, <2>4, <3>1, <3>2, <3>4 DEF ChatInv, CutOff
    <3>. QED
      BY <3>3, <3>4
  <2>10. NothingSwallowed'
    <3>1. SUFFICES ASSUME NEW k \in Post, chatPushes[k] = "done", observedAt[k] >= epoch
                   PROVE  wipedAt'[k] = epoch /\ epoch > 0
      BY <1>1, <2>5 DEF NothingSwallowed
    <3>2. messageRows[k] > 0
      BY <1>1, <3>1 DEF ChatInv, SavedDuringDeletion
    <3>. QED
      BY <1>2, <2>1, <3>2
  <2>. QED
    BY <1>3, <2>5, <2>6, <2>7, <2>8, <2>9, <2>10 DEF ChatInv
<1>. QED
  BY <1>4, <1>5

LEMMA CreateOutgoingKept == ASSUME ChatInv, CreateOutgoing PROVE ChatInv'
<1> USE ChatBounds DEF Posted, Post, TimeOf, LocalNow, CreateOutgoing, GateFree, Shown
<1>1. PostsOK'
  BY DEF ChatInv, PostsOK
<1>2. EpochsOK'
  BY DEF ChatInv, EpochsOK, SessionOK, CallsOK
<1>3. RowsOK'
  BY DEF ChatInv, RowsOK, PostsOK, PageOK
<1>4. LocalOK'
  BY DEF ChatInv, LocalOK, PostsOK
<1>5. SessionOK'
  <2>1. LocalNow \in 0 .. 2 * MaxPosts + 1 /\ session' = Shown(LocalNow) /\ UNCHANGED epoch
    BY DEF ChatInv, PostsOK
  <2>. HIDE DEF LocalNow, Shown, CreateOutgoing
  <2>. QED
    BY <2>1, ShownSession DEF ChatInv, SessionOK
<1>6. CallsOK'
  BY DEF ChatInv, CallsOK, EpochsOK, SessionOK
<1>7. PageOK'
  BY DEF ChatInv, PageOK, PostsOK
<1>8. CutOff'
  BY DEF ChatInv, CutOff, RowsOK, EpochsOK, LocalOK, PostsOK
<1>9. SavedDuringDeletion'
  BY DEF ChatInv, SavedDuringDeletion, CallsOK, EpochsOK, PostsOK, SessionOK, RowsOK
<1>10. RowFound'
  BY DEF ChatInv, RowFound, CallsOK, LocalOK, PostsOK
<1>11. NothingSwallowed'
  BY DEF ChatInv, NothingSwallowed, SavedDuringDeletion, CallsOK, EpochsOK, RowsOK, PostsOK, SessionOK
<1>12. HiddenIsEmpty'
  BY DEF ChatInv, HiddenIsEmpty, LocalOK, RowsOK, SessionOK
<1>. QED
  BY <1>1, <1>2, <1>3, <1>4, <1>5, <1>6, <1>7, <1>8, <1>9, <1>10, <1>11, <1>12 DEF ChatInv

LEMMA SendReachesPlatformKept == ASSUME ChatInv, SendReachesPlatform PROVE ChatInv'
<1>e. EpochsOK'
  BY DEF ChatInv, SendReachesPlatform, EpochsOK
<1> USE ChatBounds DEF Posted, Post, TimeOf, LocalNow, SendReachesPlatform, PostMessage
<1>1. PostsOK'
  <2>1. CASE PostMessage("own")
    BY <2>1 DEF ChatInv, PostsOK
  <2>2. CASE UNCHANGED <<posts, chatPushes>>
    BY <2>2 DEF ChatInv, PostsOK
  <2>. QED
    BY <2>1, <2>2
<1>2. EpochsOK'
  BY <1>e
<1>3. RowsOK'
  BY DEF ChatInv, RowsOK, PostsOK, PageOK
<1>4. LocalOK'
  BY DEF ChatInv, LocalOK, PostsOK
<1>5. SessionOK'
  BY DEF ChatInv, SessionOK, EpochsOK, RowsOK, PostsOK, LocalOK, CallsOK, PageOK
<1>6. CallsOK'
  BY DEF ChatInv, CallsOK, EpochsOK, SessionOK
<1>7. PageOK'
  BY DEF ChatInv, PageOK, PostsOK
<1>8. CutOff'
  BY DEF ChatInv, CutOff, RowsOK, EpochsOK, LocalOK, PostsOK
<1>9. SavedDuringDeletion'
  BY DEF ChatInv, SavedDuringDeletion, CallsOK, EpochsOK, PostsOK, SessionOK, RowsOK
<1>10. RowFound'
  BY DEF ChatInv, RowFound, CallsOK, LocalOK, PostsOK
<1>11. NothingSwallowed'
  BY DEF ChatInv, NothingSwallowed, SavedDuringDeletion, CallsOK, EpochsOK, RowsOK, PostsOK, SessionOK
<1>12. HiddenIsEmpty'
  BY DEF ChatInv, HiddenIsEmpty, LocalOK, RowsOK, SessionOK
<1>. QED
  BY <1>1, <1>2, <1>3, <1>4, <1>5, <1>6, <1>7, <1>8, <1>9, <1>10, <1>11, <1>12 DEF ChatInv

LEMMA RecordSendStatusKept == ASSUME ChatInv, RecordSendStatus PROVE ChatInv'
<1> USE ChatBounds DEF Posted, Post, TimeOf, LocalNow, RecordSendStatus
<1>1. PostsOK'
  BY DEF ChatInv, PostsOK
<1>2. EpochsOK'
  BY DEF ChatInv, EpochsOK, SessionOK, CallsOK
<1>3. RowsOK'
  BY DEF ChatInv, RowsOK, PostsOK, PageOK
<1>4. LocalOK'
  BY DEF ChatInv, LocalOK, PostsOK
<1>5. SessionOK'
  BY DEF ChatInv, SessionOK, EpochsOK, RowsOK, PostsOK, LocalOK, CallsOK, PageOK
<1>6. CallsOK'
  BY DEF ChatInv, CallsOK, EpochsOK, SessionOK
<1>7. PageOK'
  BY DEF ChatInv, PageOK, PostsOK
<1>8. CutOff'
  BY DEF ChatInv, CutOff, RowsOK, EpochsOK, LocalOK, PostsOK
<1>9. SavedDuringDeletion'
  BY DEF ChatInv, SavedDuringDeletion, CallsOK, EpochsOK, PostsOK, SessionOK, RowsOK
<1>10. RowFound'
  BY DEF ChatInv, RowFound, CallsOK, LocalOK, PostsOK
<1>11. NothingSwallowed'
  BY DEF ChatInv, NothingSwallowed, SavedDuringDeletion, CallsOK, EpochsOK, RowsOK, PostsOK, SessionOK
<1>12. HiddenIsEmpty'
  BY DEF ChatInv, HiddenIsEmpty, LocalOK, RowsOK, SessionOK
<1>. QED
  BY <1>1, <1>2, <1>3, <1>4, <1>5, <1>6, <1>7, <1>8, <1>9, <1>10, <1>11, <1>12 DEF ChatInv

LEMMA FetchPageKept == ASSUME ChatInv, NEW kind \in {"history", "conversations"}, FetchPage(kind) PROVE ChatInv'
<1> USE ChatBounds DEF Posted, Post, TimeOf, LocalNow, FetchPage
<1>1. PostsOK'
  BY DEF ChatInv, PostsOK
<1>2. EpochsOK'
  BY DEF ChatInv, EpochsOK, SessionOK, CallsOK
<1>3. RowsOK'
  BY DEF ChatInv, RowsOK, PostsOK, PageOK
<1>4. LocalOK'
  BY DEF ChatInv, LocalOK, PostsOK
<1>5. SessionOK'
  BY DEF ChatInv, SessionOK, EpochsOK, RowsOK, PostsOK, LocalOK, CallsOK, PageOK
<1>6. CallsOK'
  BY DEF ChatInv, CallsOK, EpochsOK, SessionOK
<1>7. PageOK'
  BY DEF ChatInv, PageOK, PostsOK
<1>8. CutOff'
  BY DEF ChatInv, CutOff, RowsOK, EpochsOK, LocalOK, PostsOK
<1>9. SavedDuringDeletion'
  BY DEF ChatInv, SavedDuringDeletion, CallsOK, EpochsOK, PostsOK, SessionOK, RowsOK
<1>10. RowFound'
  BY DEF ChatInv, RowFound, CallsOK, LocalOK, PostsOK
<1>11. NothingSwallowed'
  BY DEF ChatInv, NothingSwallowed, SavedDuringDeletion, CallsOK, EpochsOK, RowsOK, PostsOK, SessionOK
<1>12. HiddenIsEmpty'
  BY DEF ChatInv, HiddenIsEmpty, LocalOK, RowsOK, SessionOK
<1>. QED
  BY <1>1, <1>2, <1>3, <1>4, <1>5, <1>6, <1>7, <1>8, <1>9, <1>10, <1>11, <1>12 DEF ChatInv

LEMMA SaveHistoryKept == ASSUME ChatInv, SaveHistory PROVE ChatInv'
<1> USE ChatBounds DEF Post
<1>. DEFINE m == page.next
<1>1. /\ page.kind = "history"
      /\ UNCHANGED <<posts, chatPushes, observedAt, localRows, deleter, sender, epoch, wipedAt, pages>>
  BY DEF SaveHistory
<1>2. m \in Post /\ m <= Posted
  BY <1>1 DEF ChatInv, PageOK, PostsOK, Posted
<1>3. PostsOK' /\ LocalOK'
  BY <1>1 DEF ChatInv, PostsOK, LocalOK, Posted
<1>4. PageOK'
  BY <1>1 DEF SaveHistory, PageMoves, ChatInv, PageOK, Posted
<1>. HIDE DEF m
<1>5. CASE HistoryAccepted(m) /\ messageRows[m] = 0
  <2>1. messageRows' = [messageRows EXCEPT ![m] = TimeOf(m)] /\ session' = Shown(TimeOf(m))
    BY <1>5 DEF SaveHistory, m
  <2>2. TimeOf(m) \in 0 .. 2 * MaxPosts + 1 /\ TimeOf(m) <= TimeOf(m)
    BY <1>2 DEF TimeOf
  <2>3. RowsOK' /\ SessionOK' /\ CutOff' /\ SavedDuringDeletion' /\ NothingSwallowed' /\ HiddenIsEmpty'
    BY <1>1, <1>2, <2>1, <2>2, RowInserted
  <2>4. session'.cleared = session.cleared
    BY <2>1, <2>2, ShownSession DEF ChatInv
  <2>5. EpochsOK' /\ CallsOK' /\ RowFound'
    BY <1>1, <2>4 DEF ChatInv, EpochsOK, CallsOK, RowFound
  <2>. QED
    BY <1>3, <1>4, <2>3, <2>5 DEF ChatInv
<1>6. CASE ~(HistoryAccepted(m) /\ messageRows[m] = 0)
  <2>1. UNCHANGED <<messageRows, session>>
    BY <1>6 DEF SaveHistory, m
  <2>2. /\ EpochsOK' /\ RowsOK' /\ SessionOK' /\ CallsOK' /\ CutOff' /\ RowFound' /\ HiddenIsEmpty'
        /\ SavedDuringDeletion' /\ NothingSwallowed'
    BY <1>1, <2>1 DEF ChatInv, EpochsOK, RowsOK, SessionOK, CallsOK, CutOff, RowFound, HiddenIsEmpty,
                     SavedDuringDeletion, NothingSwallowed, Posted
  <2>. QED
    BY <1>3, <1>4, <2>2 DEF ChatInv
<1>. QED
  BY <1>5, <1>6

LEMMA SaveConversationKept == ASSUME ChatInv, SaveConversation PROVE ChatInv'
<1> USE ChatBounds DEF Posted, Post, TimeOf, LocalNow, SaveConversation, UpsertSession, SyncSummary, PageMoves
<1>1. PostsOK'
  BY DEF ChatInv, PostsOK
<1>2. EpochsOK'
  BY DEF ChatInv, EpochsOK, SessionOK, CallsOK
<1>3. RowsOK'
  BY DEF ChatInv, RowsOK, PostsOK, PageOK
<1>4. LocalOK'
  BY DEF ChatInv, LocalOK, PostsOK
<1>5. SessionOK'
  <2>1. TimeOf(page.upto) \in 0 .. 2 * MaxPosts + 1 /\ UNCHANGED epoch
    BY DEF ChatInv, PageOK, PostsOK
  <2>2. session' = UpsertSession(TimeOf(page.upto)) \/ session' = SyncSummary(TimeOf(page.upto))
    OBVIOUS
  <2>3. CASE session' = UpsertSession(TimeOf(page.upto))
    BY <2>1, <2>3 DEF ChatInv, SessionOK
  <2>4. CASE session' = SyncSummary(TimeOf(page.upto))
    BY <2>1, <2>4 DEF ChatInv, SessionOK
  <2>. QED
    BY <2>2, <2>3, <2>4
<1>6. CallsOK'
  BY DEF ChatInv, CallsOK, EpochsOK, SessionOK
<1>7. PageOK'
  BY DEF ChatInv, PageOK, PostsOK
<1>8. CutOff'
  BY DEF ChatInv, CutOff, RowsOK, EpochsOK, LocalOK, PostsOK
<1>9. SavedDuringDeletion'
  BY DEF ChatInv, SavedDuringDeletion, CallsOK, EpochsOK, PostsOK, SessionOK, RowsOK
<1>10. RowFound'
  BY DEF ChatInv, RowFound, CallsOK, LocalOK, PostsOK
<1>11. NothingSwallowed'
  BY DEF ChatInv, NothingSwallowed, SavedDuringDeletion, CallsOK, EpochsOK, RowsOK, PostsOK, SessionOK
<1>12. HiddenIsEmpty'
  BY DEF ChatInv, HiddenIsEmpty, LocalOK, RowsOK, SessionOK
<1>. QED
  BY <1>1, <1>2, <1>3, <1>4, <1>5, <1>6, <1>7, <1>8, <1>9, <1>10, <1>11, <1>12 DEF ChatInv

LEMMA ChatStarts == ChatInit => ChatInv
BY ChatBounds DEF ChatInit, ChatInv, PostsOK, EpochsOK, RowsOK, LocalOK, SessionOK, CallsOK, PageOK, CutOff,
                  SavedDuringDeletion, RowFound, NothingSwallowed, HiddenIsEmpty, Posted, Post, TimeOf

\* Every step of the chat preserves the invariant.
LEMMA ChatSteps == ASSUME ChatInv, [ChatNext]_chatVars PROVE ChatInv'
<1>1. CASE \E kind \in {"buyer", "own"} : PlatformPosts(kind)
  BY <1>1, PlatformPostsKept
<1>2. CASE \E m \in Post : ObservePush(m) \/ LosePush(m) \/ SaveObserved(m)
  BY <1>2, ObservePushKept, LosePushKept, SaveObservedKept
<1>3. CASE StartDelete \/ CommitDelete
  BY <1>3, StartDeleteKept, CommitDeleteKept
<1>4. CASE CreateOutgoing \/ SendReachesPlatform \/ RecordSendStatus
  BY <1>4, CreateOutgoingKept, SendReachesPlatformKept, RecordSendStatusKept
<1>5. CASE \E kind \in {"history", "conversations"} : FetchPage(kind)
  BY <1>5, FetchPageKept
<1>6. CASE SaveHistory \/ SaveConversation
  BY <1>6, SaveHistoryKept, SaveConversationKept
<1>7. CASE UNCHANGED chatVars
  BY <1>7 DEF chatVars, ChatInv, PostsOK, EpochsOK, RowsOK, LocalOK, SessionOK, CallsOK, PageOK, CutOff,
              SavedDuringDeletion, RowFound, NothingSwallowed, HiddenIsEmpty, Posted
<1>. QED
  BY <1>1, <1>2, <1>3, <1>4, <1>5, <1>6, <1>7 DEF ChatNext

\* The invariant of a conversation.
THEOREM ChatInvariant == ChatSpec => []ChatInv
<1>1. ChatInit => ChatInv
  BY ChatStarts
<1>2. ChatInv /\ [ChatNext]_chatVars => ChatInv'
  BY ChatSteps
<1>. QED
  BY <1>1, <1>2, PTL DEF ChatSpec

\* A message observed after a deletion is kept, a hidden chat is empty, and a
\* send under way finds its row, for any number of messages, deletions and pages
\* (db/chat.go, SaveMessage and HideAndClearSession).
THEOREM ConversationKept == ChatSpec => []ConversationSafe
<1>1. ChatInv => ConversationSafe
  BY DEF ChatInv, ConversationSafe, SentRecorded, RowFound
<1>. QED
  BY <1>1, ChatInvariant, PTL

\* The types of a conversation, and that its gate has one holder.
THEOREM ChatTypesOK == ChatSpec => []ChatTypeOK
<1>1. ASSUME ChatInv PROVE ChatTypeOK
  <2>1. posts \in UNION {[1 .. n -> {"buyer", "own"}] : n \in 0 .. MaxPosts}
    <3>1. Len(posts) \in 0 .. MaxPosts /\ posts \in [1 .. Len(posts) -> {"buyer", "own"}]
      BY <1>1, ChatBounds DEF ChatInv, PostsOK, Posted
    <3>. QED
      BY <3>1
  <2>2. session \in [hidden : BOOLEAN, cleared : 0 .. MaxDeletes, cutoff : 0 .. 2 * MaxPosts + 1,
                     last : 0 .. 2 * MaxPosts + 1] /\ session.cleared <= epoch
    BY <1>1, ChatBounds DEF ChatInv, SessionOK, EpochsOK
  <2>. QED
    BY <1>1, <2>1, <2>2 DEF ChatTypeOK, ChatInv, PostsOK, RowsOK, CallsOK
<1>. QED
  BY <1>1, ChatInvariant, PTL

\* What a deletion removed is shown again only when the platform delivers it
\* again later: neither history nor a push observed before brings it back.
THEOREM DeletedStays == ChatSpec => DeletedForGood
<1>1. ASSUME ChatInv, [ChatNext]_chatVars
      PROVE  [\A m \in Post : wipedAt[m] > 0 /\ messageRows[m] = 0 /\ messageRows'[m] > 0
                                => observedAt[m] >= wipedAt[m]]_chatVars
  <2>1. SUFFICES ASSUME NEW m \in Post, wipedAt[m] > 0, messageRows[m] = 0, messageRows'[m] > 0,
                        ChatNext
                 PROVE  observedAt[m] >= wipedAt[m]
    BY <1>1
  <2>2. /\ wipedAt[m] \in Nat /\ observedAt[m] \in Nat /\ session.cleared \in Nat
        /\ wipedAt[m] <= session.cleared /\ TimeOf(m) <= session.cutoff
        /\ TimeOf(m) \in Nat \ {0} /\ session.cutoff \in Nat
    BY <1>1, <2>1, ChatBounds DEF ChatInv, EpochsOK, SessionOK, CutOff, TimeOf, Post
  <2>3. CASE \E k \in Post : SaveObserved(k)
    <3>1. PICK k \in Post : SaveObserved(k)
      BY <2>3
    <3>2. k = m /\ LiveAccepted(observedAt[m])
      BY <1>1, <2>1, <3>1 DEF SaveObserved, ChatInv, RowsOK
    <3>. QED
      BY <2>2, <3>2 DEF LiveAccepted
  <2>4. CASE SaveHistory
    <3>1. m = page.next /\ HistoryAccepted(m)
      BY <1>1, <2>1, <2>4 DEF SaveHistory, ChatInv, RowsOK
    <3>. QED
      BY <2>2, <3>1 DEF HistoryAccepted
  <2>5. CASE CommitDelete
    BY <2>1, <2>5 DEF CommitDelete
  <2>6. CASE ~(\E k \in Post : SaveObserved(k)) /\ ~SaveHistory /\ ~CommitDelete
    <3>1. messageRows' = messageRows
      BY <2>1, <2>6 DEF ChatNext, PlatformPosts, ObservePush, LosePush, StartDelete, CreateOutgoing,
                       SendReachesPlatform, RecordSendStatus, FetchPage, SaveConversation
    <3>. QED
      BY <2>1, <3>1
  <2>. QED
    BY <2>3, <2>4, <2>5, <2>6
<1>. QED
  BY <1>1, ChatInvariant, PTL DEF ChatSpec, DeletedForGood

-----------------------------------------------------------------------------
(* The reply that is sent once                                             *)

\* A reply in progress has its row, and is alone.
SoleSender == \A r, s \in Replier : Sends(r) /\ Sends(s) => r = s

SenderHasRow ==
    \A r \in Replier : Sends(r) =>
        replyRecord.status \in {"sending", "pending"} /\ ~replyRecord.quarantined /\ ~replyRecord.lapsed

\* Without a row nothing went out; what the row says went out did, once.
FreshChat == replyRecord.status = "none" => \A p \in Part : copies[p] = 0

RecordedWentOut == \A p \in Part : copies[p] \in {0, 1} /\ (p \in replyRecord.sent => copies[p] = 1)

\* A row that may be retaken names everything that went out.
RestUnsent ==
    (\A r \in Replier : ~Sends(r)) /\ replyRecord.status \in {"failed", "pending"} /\ ~replyRecord.quarantined
        => \A p \in Part : copies[p] = 1 => p \in replyRecord.sent

\* What the call knows of the parts that went out.
GotWentOut == \A r \in Replier : Sends(r) => \A p \in repliers[r].got : copies[p] = 1

Knows(r) == \A p \in Part : copies[p] = 1 => p \in replyRecord.sent \cup repliers[r].got

SendingKnows ==
    \A r \in Replier :
        /\ repliers[r].pc \in {"image", "text"} => repliers[r].sent = replyRecord.sent /\ Knows(r)
        /\ repliers[r].pc = "image" => repliers[r].got = {}
        /\ repliers[r].pc = "text" => repliers[r].got \subseteq {"image"}

FailedKnows ==
    \A r \in Replier :
        /\ repliers[r].pc \in {"marking", "settling"} /\ repliers[r].outcome = "failed" => Knows(r)
        /\ repliers[r].pc = "settling" => repliers[r].got = {}

\* A call that does not send yet holds nothing but the flags it read.
NothingHeld ==
    \A r \in Replier :
        /\ ~Sends(r) => repliers[r].got = {}
        /\ repliers[r].pc \in {"idle", "reading"} => repliers[r].sent = {}

\* What the variables hold, as sets of records.
ReplyRows == [status : {"none", "sending", "pending", "failed", "uncertain", "sent"},
         sent : SUBSET Part, quarantined : BOOLEAN, lapsed : BOOLEAN]

ReplyCalls == [pc : {"idle", "reading", "claiming", "image", "text", "marking", "settling"},
          sent : SUBSET Part, got : SUBSET Part, outcome : {"none", "sent", "failed", "uncertain"}]

\* The inductive invariant: what holds while no gap was gone through.
ReplyInv ==
    /\ ReplyTypeOK /\ NothingHeld
    /\ windows = {} =>
         /\ SoleSender /\ SenderHasRow /\ FreshChat /\ RecordedWentOut /\ RestUnsent
         /\ GotWentOut /\ SendingKnows /\ FailedKnows

\* A call that ends leaves nobody sending, where it was the sender.
LEMMA CallEnds ==
    ASSUME ReplyInv, NEW r \in Replier, repliers' = [repliers EXCEPT ![r] = NoReply]
    PROVE  /\ repliers' \in [Replier -> ReplyCalls] /\ ~Sends(r)' /\ repliers'[r].got = {} /\ repliers'[r].sent = {}
           /\ repliers'[r].pc = "idle" /\ \A s \in Replier : s # r => repliers'[s] = repliers[s]
           /\ NothingHeld'
           /\ windows = {} /\ Sends(r) => \A s \in Replier : ~Sends(s)'
<1>1. NoReply \in ReplyCalls /\ NoReply.pc = "idle" /\ NoReply.got = {} /\ NoReply.sent = {}
  BY DEF NoReply, ReplyCalls
<1>2. /\ repliers' \in [Replier -> ReplyCalls] /\ repliers'[r] = NoReply
      /\ \A s \in Replier : s # r => repliers'[s] = repliers[s]
  BY <1>1 DEF ReplyInv, ReplyTypeOK, ReplyCalls
<1>. QED
  BY <1>1, <1>2 DEF ReplyInv, NothingHeld, SoleSender, Sends

\* A call that ends with a row nobody may retake: whatever it is not sure of
\* stays as it is.
LEMMA EndedSafely ==
    ASSUME ReplyInv, NEW r \in Replier, Sends(r), repliers' = [repliers EXCEPT ![r] = NoReply],
           replyRecord' \in ReplyRows, replyRecord'.lapsed \/ replyRecord'.quarantined => replyRecord'.status = "pending",
           replyRecord'.sent = replyRecord.sent \/ replyRecord.status = "none",
           windows = {} => replyRecord'.status # "none", UNCHANGED copies,
           windows' \in {windows, windows \cup {"unquarantined"}},
           windows' = {} /\ replyRecord'.status \in {"failed", "pending"} /\ ~replyRecord'.quarantined
             => \A p \in Part : copies[p] = 1 => p \in replyRecord'.sent
    PROVE  ReplyInv'
<1>1. /\ repliers' \in [Replier -> ReplyCalls] /\ NothingHeld'
      /\ windows = {} => \A s \in Replier : ~Sends(s)'
  BY CallEnds
<1>2. ReplyTypeOK'
  BY <1>1 DEF ReplyInv, ReplyTypeOK, ReplyRows, ReplyCalls
<1>3. SUFFICES ASSUME windows' = {}
             PROVE  /\ SoleSender' /\ SenderHasRow' /\ FreshChat' /\ RecordedWentOut'
                    /\ RestUnsent' /\ GotWentOut' /\ SendingKnows' /\ FailedKnows'
  BY <1>1, <1>2 DEF ReplyInv
<1>4. windows = {} /\ \A s \in Replier : ~Sends(s)'
  BY <1>1, <1>3
<1>5. replyRecord'.sent = replyRecord.sent /\ replyRecord'.status # "none"
  BY <1>4 DEF ReplyInv, SenderHasRow
<1>6. SoleSender' /\ SenderHasRow' /\ GotWentOut'
  BY <1>4 DEF SoleSender, SenderHasRow, GotWentOut
<1>7. FreshChat' /\ RecordedWentOut'
  BY <1>4, <1>5 DEF ReplyInv, FreshChat, RecordedWentOut
<1>8. RestUnsent'
  BY <1>3 DEF RestUnsent
<1>9. SendingKnows' /\ FailedKnows'
  BY <1>4, <1>1 DEF SendingKnows, FailedKnows, Sends
<1>. QED
  BY <1>6, <1>7, <1>8, <1>9

LEMMA QuarantineKept ==
    ASSUME ReplyInv, NEW r \in Replier, repliers[r].pc \in {"marking", "settling"}, Quarantine(r),
           UNCHANGED copies
    PROVE  ReplyInv'
<1>1. Sends(r)
  BY DEF Sends
<1>2. replyRecord \in ReplyRows /\ NoRecord \in ReplyRows
  BY DEF ReplyInv, ReplyTypeOK, ReplyRows, NoRecord
<1>3. /\ repliers' = [repliers EXCEPT ![r] = NoReply] /\ replyRecord' \in Quarantined
      /\ windows' = IF replyRecord' = replyRecord /\ replyRecord.status = "pending"
                     THEN windows \cup {"unquarantined"} ELSE windows
  BY DEF Quarantine, Gap
<1>4. windows = {} => replyRecord.status \in {"sending", "pending"} /\ ~replyRecord.quarantined
  BY <1>1 DEF ReplyInv, SenderHasRow
<1>5. CASE replyRecord' = replyRecord
  BY <1>1, <1>2, <1>3, <1>4, <1>5, EndedSafely DEF ReplyInv, ReplyTypeOK
<1>6. CASE replyRecord.status = "none" /\ replyRecord' = NoRecord
  BY <1>1, <1>2, <1>3, <1>4, <1>6, EndedSafely DEF NoRecord
<1>7. CASE replyRecord' = [replyRecord EXCEPT !.status = "uncertain", !.lapsed = FALSE, !.quarantined = FALSE]
  <2>1. /\ replyRecord' \in ReplyRows /\ replyRecord'.status = "uncertain" /\ replyRecord'.sent = replyRecord.sent
        /\ ~replyRecord'.lapsed /\ ~replyRecord'.quarantined
    BY <1>2, <1>7 DEF ReplyRows
  <2>. QED
    BY <1>1, <1>3, <2>1, EndedSafely
<1>8. CASE replyRecord' = [replyRecord EXCEPT !.status = "pending", !.lapsed = TRUE, !.quarantined = TRUE]
  <2>1. /\ replyRecord' \in ReplyRows /\ replyRecord'.status = "pending" /\ replyRecord'.sent = replyRecord.sent
        /\ replyRecord'.lapsed /\ replyRecord'.quarantined
    BY <1>2, <1>8 DEF ReplyRows
  <2>. QED
    BY <1>1, <1>3, <2>1, EndedSafely
<1>. QED
  BY <1>3, <1>5, <1>6, <1>7, <1>8 DEF Quarantined, Existing

LEMMA InsertRecordKept == ASSUME ReplyInv, NEW r \in Replier, InsertRecord(r) PROVE ReplyInv'
<1>1. ReplyTypeOK'
  <2>1. CASE replyRecord.status = "none"
    <3>1. replyRecord' = [status |-> "sending", sent |-> {}, quarantined |-> FALSE, lapsed |-> FALSE]
      BY <2>1 DEF InsertRecord, NoRecord
    <3>2. replyRecord' \in ReplyRows /\ ~replyRecord'.lapsed /\ ~replyRecord'.quarantined
      BY <3>1 DEF ReplyRows
    <3>3. repliers' \in [Replier -> ReplyCalls]
      BY <2>1 DEF ReplyInv, ReplyTypeOK, InsertRecord, ReplyCalls
    <3>. QED
      BY <3>2, <3>3 DEF ReplyInv, ReplyTypeOK, InsertRecord, ReplyRows, ReplyCalls
  <2>2. CASE replyRecord.status # "none"
    <3>1. repliers' \in [Replier -> ReplyCalls]
      BY <2>2 DEF ReplyInv, ReplyTypeOK, InsertRecord, ReplyCalls
    <3>. QED
      BY <2>2, <3>1 DEF ReplyInv, ReplyTypeOK, InsertRecord, ReplyCalls
  <2>. QED
    BY <2>1, <2>2
<1>0. NothingHeld'
  BY DEF ReplyInv, ReplyTypeOK, NothingHeld, Sends, InsertRecord, Part, NoRecord, NoReply
<1>2. SUFFICES ASSUME windows' = {}
             PROVE  /\ SoleSender' /\ SenderHasRow' /\ FreshChat' /\ RecordedWentOut'
                    /\ RestUnsent' /\ GotWentOut' /\ SendingKnows' /\ FailedKnows'
  BY <1>0, <1>1 DEF ReplyInv
<1>3. windows = {}
  BY <1>2 DEF InsertRecord
<1>4. SoleSender'
  <2>1. replyRecord.status = "none" => \A s \in Replier : ~Sends(s)
    BY <1>3 DEF ReplyInv, SenderHasRow
  <2>2. \A s \in Replier : s # r => repliers'[s] = repliers[s]
    BY DEF InsertRecord, ReplyInv, ReplyTypeOK
  <2>3. replyRecord.status # "none" => ~Sends(r)'
    BY DEF InsertRecord, Sends, ReplyInv, ReplyTypeOK
  <2>. QED
    BY <1>3, <2>1, <2>2, <2>3 DEF ReplyInv, SoleSender, Sends
<1>5. SenderHasRow'
  BY <1>2, <1>3 DEF ReplyInv, ReplyTypeOK, NothingHeld, SoleSender, SenderHasRow, InsertRecord, Sends, Part, NoRecord, NoReply
<1>6. FreshChat'
  BY <1>2, <1>3 DEF ReplyInv, ReplyTypeOK, NothingHeld, FreshChat, SenderHasRow, RecordedWentOut, InsertRecord, Sends, Part, NoRecord, NoReply
<1>7. RecordedWentOut'
  BY <1>2, <1>3 DEF ReplyInv, ReplyTypeOK, NothingHeld, RecordedWentOut, GotWentOut, SenderHasRow, SendingKnows, FreshChat, InsertRecord, Sends, Part, NoRecord, NoReply
<1>8. RestUnsent'
  BY <1>2, <1>3 DEF ReplyInv, ReplyTypeOK, NothingHeld, SoleSender, SenderHasRow, FreshChat, RecordedWentOut, RestUnsent, SendingKnows, FailedKnows, Knows, InsertRecord, Sends, Part, NoRecord, NoReply
<1>9. GotWentOut'
  BY <1>2, <1>3 DEF ReplyInv, ReplyTypeOK, NothingHeld, SoleSender, GotWentOut, RecordedWentOut, SendingKnows, InsertRecord, Sends, Part, NoRecord, NoReply
<1>10. SendingKnows'
  <2>1. \A s \in Replier : s # r => repliers'[s] = repliers[s]
    BY DEF InsertRecord, ReplyInv, ReplyTypeOK
  <2>2. CASE replyRecord.status = "none"
    <3>1. \A s \in Replier : ~Sends(s)
      BY <1>3, <2>2 DEF ReplyInv, SenderHasRow
    <3>2. replyRecord'.sent = {} /\ repliers'[r].pc = "image" /\ repliers'[r].sent = {} /\ repliers'[r].got = {}
      BY <2>2 DEF InsertRecord, NoRecord, ReplyInv, ReplyTypeOK, NothingHeld, Sends
    <3>3. \A p \in Part : copies'[p] = 0
      BY <1>3, <2>2 DEF InsertRecord, ReplyInv, FreshChat
    <3>. QED
      BY <2>1, <3>1, <3>2, <3>3 DEF SendingKnows, Knows, Sends
  <2>3. CASE replyRecord.status # "none"
    <3>1. UNCHANGED <<replyRecord, copies>> /\ repliers'[r].pc = "reading"
      BY <2>3 DEF InsertRecord, ReplyInv, ReplyTypeOK
    <3>. QED
      BY <1>3, <2>1, <3>1 DEF ReplyInv, SendingKnows, Knows
  <2>. QED
    BY <2>2, <2>3
<1>11. FailedKnows'
  BY <1>2, <1>3 DEF ReplyInv, ReplyTypeOK, NothingHeld, SoleSender, SenderHasRow, SendingKnows, FailedKnows, RecordedWentOut, Knows, InsertRecord, Sends, Part, NoRecord, NoReply
<1>. QED
  BY <1>4, <1>5, <1>6, <1>7, <1>8, <1>9, <1>10, <1>11

LEMMA ReadRecordKept == ASSUME ReplyInv, NEW r \in Replier, ReadRecord(r) PROVE ReplyInv'
<1>1. ReplyTypeOK'
  <2>. DEFINE call == IF replyRecord.status \in {"none", "sent"} THEN NoReply
                     ELSE [repliers[r] EXCEPT !.pc = "claiming", !.sent = replyRecord.sent]
  <2>1. call \in ReplyCalls
    BY DEF ReplyInv, ReplyTypeOK, ReplyCalls, NoReply
  <2>2. repliers' = [repliers EXCEPT ![r] = call]
    BY DEF ReadRecord
  <2>. HIDE DEF call
  <2>3. repliers' \in [Replier -> ReplyCalls]
    BY <2>1, <2>2 DEF ReplyInv, ReplyTypeOK, ReplyCalls
  <2>. QED
    BY <2>3 DEF ReplyInv, ReplyTypeOK, ReadRecord, ReplyCalls
<1>0. NothingHeld'
  BY DEF ReplyInv, ReplyTypeOK, NothingHeld, Sends, ReadRecord, Part, NoRecord, NoReply
<1>2. SUFFICES ASSUME windows' = {}
             PROVE  /\ SoleSender' /\ SenderHasRow' /\ FreshChat' /\ RecordedWentOut'
                    /\ RestUnsent' /\ GotWentOut' /\ SendingKnows' /\ FailedKnows'
  BY <1>0, <1>1 DEF ReplyInv
<1>3. windows = {}
  BY <1>2 DEF ReadRecord
<1>4. SoleSender'
  BY <1>2, <1>3 DEF ReplyInv, ReplyTypeOK, NothingHeld, SoleSender, ReadRecord, Sends, Part, NoRecord, NoReply
<1>5. SenderHasRow'
  BY <1>2, <1>3 DEF ReplyInv, ReplyTypeOK, NothingHeld, SoleSender, SenderHasRow, ReadRecord, Sends, Part, NoRecord, NoReply
<1>6. FreshChat'
  BY <1>2, <1>3 DEF ReplyInv, ReplyTypeOK, NothingHeld, FreshChat, SenderHasRow, RecordedWentOut, ReadRecord, Sends, Part, NoRecord, NoReply
<1>7. RecordedWentOut'
  BY <1>2, <1>3 DEF ReplyInv, ReplyTypeOK, NothingHeld, RecordedWentOut, GotWentOut, SenderHasRow, SendingKnows, FreshChat, ReadRecord, Sends, Part, NoRecord, NoReply
<1>8. RestUnsent'
  BY <1>2, <1>3 DEF ReplyInv, ReplyTypeOK, NothingHeld, SoleSender, SenderHasRow, FreshChat, RecordedWentOut, RestUnsent, SendingKnows, FailedKnows, Knows, ReadRecord, Sends, Part, NoRecord, NoReply
<1>9. GotWentOut'
  BY <1>2, <1>3 DEF ReplyInv, ReplyTypeOK, NothingHeld, SoleSender, GotWentOut, RecordedWentOut, SendingKnows, ReadRecord, Sends, Part, NoRecord, NoReply
<1>10. SendingKnows'
  BY <1>2, <1>3 DEF ReplyInv, ReplyTypeOK, NothingHeld, SoleSender, SenderHasRow, FreshChat, SendingKnows, RestUnsent, RecordedWentOut, Knows, ReadRecord, Sends, Part, NoRecord, NoReply
<1>11. FailedKnows'
  BY <1>2, <1>3 DEF ReplyInv, ReplyTypeOK, NothingHeld, SoleSender, SenderHasRow, SendingKnows, FailedKnows, RecordedWentOut, Knows, ReadRecord, Sends, Part, NoRecord, NoReply
<1>. QED
  BY <1>4, <1>5, <1>6, <1>7, <1>8, <1>9, <1>10, <1>11

LEMMA TakeOverKept == ASSUME ReplyInv, NEW r \in Replier, TakeOver(r) PROVE ReplyInv'
<1>a. CASE ~Retakable
  <2>1. repliers' = [repliers EXCEPT ![r] = NoReply] /\ UNCHANGED <<replyRecord, windows, copies>> /\ ~Sends(r)
    BY <1>a DEF TakeOver, Sends
  <2>2. /\ repliers' \in [Replier -> ReplyCalls] /\ ~Sends(r)' /\ repliers'[r].pc = "idle" /\ NothingHeld'
        /\ \A s \in Replier : s # r => repliers'[s] = repliers[s]
    BY <2>1, CallEnds
  <2>3. ReplyTypeOK'
    BY <2>1, <2>2 DEF ReplyInv, ReplyTypeOK, ReplyCalls
  <2>4. \A s \in Replier : (Sends(s)' <=> Sends(s)) /\ (Sends(s)' => repliers'[s] = repliers[s])
    BY <2>1, <2>2 DEF Sends
  <2>5. SoleSender \/ windows # {} => (SoleSender \/ windows # {})'
    BY <2>1, <2>4 DEF SoleSender
  <2>6. windows = {} => SenderHasRow' /\ FreshChat' /\ RecordedWentOut' /\ RestUnsent'
    BY <2>1, <2>4 DEF ReplyInv, SenderHasRow, FreshChat, RecordedWentOut, RestUnsent
  <2>7. windows = {} => GotWentOut' /\ SendingKnows' /\ FailedKnows'
    BY <2>1, <2>2, <2>4 DEF ReplyInv, GotWentOut, SendingKnows, FailedKnows, Knows, Sends
  <2>. QED
    BY <2>1, <2>2, <2>3, <2>5, <2>6, <2>7 DEF ReplyInv
<1>b. SUFFICES ASSUME Retakable PROVE ReplyInv'
  BY <1>a
<1>. DEFINE call == IF repliers[r].sent = Part THEN NoReply ELSE [repliers[r] EXCEPT !.pc = "image"]
<1>c. /\ repliers[r].pc = "claiming" /\ repliers' = [repliers EXCEPT ![r] = call]
      /\ replyRecord' = [replyRecord EXCEPT !.status = "pending", !.lapsed = FALSE, !.quarantined = FALSE]
      /\ Gap("staleFlags", repliers[r].sent # replyRecord.sent) /\ UNCHANGED copies
  BY <1>b DEF TakeOver
<1>d. /\ call \in ReplyCalls /\ call.pc \in {"idle", "image"} /\ call.got = {}
      /\ call.pc = "idle" => repliers[r].sent = Part /\ call.sent = {}
      /\ call.pc = "image" => call.sent = repliers[r].sent
  <2>1. repliers[r] \in ReplyCalls /\ repliers[r].got = {}
    BY <1>c DEF ReplyInv, ReplyTypeOK, NothingHeld, Sends, ReplyCalls
  <2>. QED
    BY <2>1 DEF ReplyCalls, NoReply, Part
<1>e. /\ replyRecord' \in ReplyRows /\ replyRecord'.status = "pending" /\ ~replyRecord'.lapsed
      /\ ~replyRecord'.quarantined /\ replyRecord'.sent = replyRecord.sent
  BY <1>c DEF ReplyInv, ReplyTypeOK, ReplyRows
<1>. HIDE DEF call
<1>f. /\ repliers' \in [Replier -> ReplyCalls] /\ repliers'[r] = call
      /\ \A s \in Replier : s # r => repliers'[s] = repliers[s]
  BY <1>c, <1>d DEF ReplyInv, ReplyTypeOK, ReplyCalls
<1>1. ReplyTypeOK'
  BY <1>c, <1>e, <1>f DEF ReplyInv, ReplyTypeOK, Gap, ReplyRows, ReplyCalls
<1>0. NothingHeld'
  BY <1>d, <1>f DEF ReplyInv, NothingHeld, Sends
<1>2. SUFFICES ASSUME windows' = {}
             PROVE  /\ SoleSender' /\ SenderHasRow' /\ FreshChat' /\ RecordedWentOut'
                    /\ RestUnsent' /\ GotWentOut' /\ SendingKnows' /\ FailedKnows'
  BY <1>0, <1>1 DEF ReplyInv
<1>3. windows = {} /\ repliers[r].sent = replyRecord.sent /\ \A s \in Replier : ~Sends(s)
  <2>1. windows = {} /\ repliers[r].sent = replyRecord.sent
    BY <1>2, <1>c DEF Gap
  <2>2. replyRecord.status \notin {"sending"} /\ (replyRecord.status = "pending" => replyRecord.lapsed)
    BY <1>b DEF Retakable
  <2>3. ASSUME NEW s \in Replier PROVE ~Sends(s)
    BY <2>1, <2>2 DEF ReplyInv, SenderHasRow
  <2>. QED
    BY <2>1, <2>3
<1>4. SoleSender'
  BY <1>3, <1>f DEF SoleSender, Sends
<1>5. SenderHasRow'
  BY <1>e DEF SenderHasRow
<1>6. FreshChat'
  BY <1>e DEF FreshChat
<1>7. RecordedWentOut'
  BY <1>3, <1>c, <1>e DEF ReplyInv, RecordedWentOut
<1>8. RestUnsent'
  <2>1. \A p \in Part : copies[p] = 1 => p \in replyRecord.sent
    BY <1>b, <1>3 DEF ReplyInv, ReplyTypeOK, RestUnsent, Retakable
  <2>. QED
    BY <2>1, <1>c, <1>e DEF RestUnsent
<1>9. GotWentOut'
  BY <1>3, <1>d, <1>f DEF GotWentOut, Sends
<1>10. SendingKnows'
  <2>1. \A p \in Part : copies[p] = 1 => p \in replyRecord.sent
    BY <1>b, <1>3 DEF ReplyInv, ReplyTypeOK, RestUnsent, Retakable
  <2>. QED
    BY <2>1, <1>3, <1>c, <1>d, <1>e, <1>f DEF SendingKnows, Knows, Sends
<1>11. FailedKnows'
  BY <1>3, <1>d, <1>f DEF FailedKnows, Sends
<1>. QED
  BY <1>4, <1>5, <1>6, <1>7, <1>8, <1>9, <1>10, <1>11

LEMMA SkipPartKept == ASSUME ReplyInv, NEW r \in Replier, NEW p \in Part, SkipPart(r, p) PROVE ReplyInv'
<1>1. ReplyTypeOK'
  BY ReplyBounds DEF ReplyInv, ReplyTypeOK, SkipPart, Part, NoRecord, NoReply, AfterPart
<1>0. NothingHeld'
  BY DEF ReplyInv, ReplyTypeOK, NothingHeld, Sends, SkipPart, Part, NoRecord, NoReply, AfterPart
<1>2. SUFFICES ASSUME windows' = {}
             PROVE  /\ SoleSender' /\ SenderHasRow' /\ FreshChat' /\ RecordedWentOut'
                    /\ RestUnsent' /\ GotWentOut' /\ SendingKnows' /\ FailedKnows'
  BY <1>0, <1>1 DEF ReplyInv
<1>3. windows = {}
  BY <1>2 DEF SkipPart, AfterPart
<1>4. SoleSender'
  BY <1>2, <1>3 DEF ReplyInv, ReplyTypeOK, NothingHeld, SoleSender, SkipPart, AfterPart, Sends, Part, NoRecord, NoReply
<1>5. SenderHasRow'
  BY <1>2, <1>3 DEF ReplyInv, ReplyTypeOK, NothingHeld, SoleSender, SenderHasRow, SkipPart, AfterPart, Sends, Part, NoRecord, NoReply
<1>6. FreshChat'
  BY <1>2, <1>3 DEF ReplyInv, ReplyTypeOK, NothingHeld, FreshChat, SenderHasRow, RecordedWentOut, SkipPart, AfterPart, Sends, Part, NoRecord, NoReply
<1>7. RecordedWentOut'
  BY <1>2, <1>3 DEF ReplyInv, ReplyTypeOK, NothingHeld, RecordedWentOut, GotWentOut, SenderHasRow, SendingKnows, FreshChat, SkipPart, AfterPart, Sends, Part, NoRecord, NoReply
<1>8. RestUnsent'
  BY <1>2, <1>3 DEF ReplyInv, ReplyTypeOK, NothingHeld, SoleSender, SenderHasRow, FreshChat, RecordedWentOut, RestUnsent, SendingKnows, FailedKnows, Knows, SkipPart, AfterPart, Sends, Part, NoRecord, NoReply
<1>9. GotWentOut'
  BY <1>2, <1>3 DEF ReplyInv, ReplyTypeOK, NothingHeld, SoleSender, GotWentOut, RecordedWentOut, SendingKnows, SkipPart, AfterPart, Sends, Part, NoRecord, NoReply
<1>10. SendingKnows'
  BY <1>2, <1>3 DEF ReplyInv, ReplyTypeOK, NothingHeld, SoleSender, SenderHasRow, FreshChat, SendingKnows, RestUnsent, RecordedWentOut, Knows, SkipPart, AfterPart, Sends, Part, NoRecord, NoReply
<1>11. FailedKnows'
  BY <1>2, <1>3 DEF ReplyInv, ReplyTypeOK, NothingHeld, SoleSender, SenderHasRow, SendingKnows, FailedKnows, RecordedWentOut, Knows, SkipPart, AfterPart, Sends, Part, NoRecord, NoReply
<1>. QED
  BY <1>4, <1>5, <1>6, <1>7, <1>8, <1>9, <1>10, <1>11

LEMMA SendPartKept == ASSUME ReplyInv, NEW r \in Replier, NEW p \in Part, SendPart(r, p) PROVE ReplyInv'
<1>a. PICK result \in PartResults :
        /\ copies[p] + result.accepted <= MaxCopies
        /\ copies' = [copies EXCEPT ![p] = @ + result.accepted]
        /\ repliers' = [repliers EXCEPT ![r] =
              [repliers[r] EXCEPT
                 !.got = IF result.told \in {"delivered", "unsaved"} THEN @ \cup {p} ELSE @,
                 !.outcome = CASE result.told = "refused" -> "failed"
                               [] result.told \in {"unsaved", "unknown"} -> "uncertain"
                               [] OTHER -> "sent",
                 !.pc = IF result.told = "delivered" THEN AfterPart(p) ELSE "marking"]]
  BY DEF SendPart
<1>b. /\ repliers[r].pc = p /\ p \notin repliers[r].sent /\ UNCHANGED <<replyRecord, windows>>
  BY DEF SendPart
<1>c. /\ result.accepted \in {0, 1} /\ result.told \in {"delivered", "unsaved", "unknown", "refused"}
      /\ result.told \in {"delivered", "unsaved"} => result.accepted = 1
      /\ result.told = "refused" => result.accepted = 0
  BY DEF PartResults
<1>. DEFINE call == [repliers[r] EXCEPT
               !.got = IF result.told \in {"delivered", "unsaved"} THEN repliers[r].got \cup {p} ELSE repliers[r].got,
               !.outcome = CASE result.told = "refused" -> "failed"
                             [] result.told \in {"unsaved", "unknown"} -> "uncertain"
                             [] OTHER -> "sent",
               !.pc = IF result.told = "delivered" THEN AfterPart(p) ELSE "marking"]
<1>d. /\ call \in ReplyCalls /\ call.sent = repliers[r].sent
      /\ call.pc = IF result.told = "delivered" THEN AfterPart(p) ELSE "marking"
      /\ call.got = IF result.told \in {"delivered", "unsaved"} THEN repliers[r].got \cup {p} ELSE repliers[r].got
      /\ call.outcome = "failed" <=> result.told = "refused"
  <2>1. repliers[r] \in ReplyCalls /\ AfterPart(p) \in {"text", "marking"}
    BY DEF ReplyInv, ReplyTypeOK, ReplyCalls, AfterPart
  <2>. QED
    BY <1>c, <2>1 DEF ReplyCalls
<1>. HIDE DEF call
<1>e. repliers' = [repliers EXCEPT ![r] = call]
  BY <1>a DEF call
<1>f. /\ repliers' \in [Replier -> ReplyCalls] /\ repliers'[r] = call
      /\ \A s \in Replier : s # r => repliers'[s] = repliers[s]
  BY <1>d, <1>e DEF ReplyInv, ReplyTypeOK, ReplyCalls
<1>g. /\ copies \in [Part -> Nat] /\ copies' \in [Part -> 0 .. MaxCopies]
      /\ copies'[p] = copies[p] + result.accepted
      /\ \A q \in Part : q # p => copies'[q] = copies[q]
  BY <1>a, <1>c, ReplyBounds DEF ReplyInv, ReplyTypeOK
<1>h. Sends(r)
  BY <1>b DEF Sends, Part
<1>1. ReplyTypeOK'
  BY <1>b, <1>f, <1>g DEF ReplyInv, ReplyTypeOK, ReplyCalls
<1>0. NothingHeld'
  <2>1. call.pc \in {"text", "marking"}
    BY <1>d DEF AfterPart
  <2>. QED
    BY <2>1, <1>f DEF ReplyInv, NothingHeld, Sends
<1>2. SUFFICES ASSUME windows' = {}
             PROVE  /\ SoleSender' /\ SenderHasRow' /\ FreshChat' /\ RecordedWentOut'
                    /\ RestUnsent' /\ GotWentOut' /\ SendingKnows' /\ FailedKnows'
  BY <1>0, <1>1 DEF ReplyInv
<1>3. /\ windows = {} /\ repliers[r].sent = replyRecord.sent /\ Knows(r) /\ p \notin repliers[r].got
      /\ copies[p] = 0 /\ \A s \in Replier : s # r => ~Sends(s)
  <2>1. windows = {}
    BY <1>2, <1>b
  <2>2. repliers[r].sent = replyRecord.sent /\ Knows(r) /\ p \notin repliers[r].got
    BY <1>b, <2>1 DEF ReplyInv, SendingKnows, Part
  <2>3. copies[p] = 0
    BY <1>b, <2>1, <2>2 DEF ReplyInv, Knows, RecordedWentOut
  <2>4. \A s \in Replier : s # r => ~Sends(s)
    BY <1>h, <2>1 DEF ReplyInv, SoleSender
  <2>. QED
    BY <2>1, <2>2, <2>3, <2>4
<1>4. SoleSender'
  BY <1>3, <1>f DEF SoleSender, Sends
<1>5. SenderHasRow'
  BY <1>3, <1>b, <1>f, <1>h DEF ReplyInv, SenderHasRow, Sends
<1>6. FreshChat'
  BY <1>3, <1>b, <1>h DEF ReplyInv, FreshChat, SenderHasRow
<1>7. RecordedWentOut'
  BY <1>3, <1>b, <1>c, <1>g DEF ReplyInv, RecordedWentOut
<1>8. RestUnsent'
  <2>1. call.pc \in {"text", "marking"}
    BY <1>d DEF AfterPart
  <2>. QED
    BY <2>1, <1>f DEF RestUnsent, Sends
<1>9. GotWentOut'
  <2>1. \A q \in repliers[r].got : copies[q] = 1 /\ q \in Part /\ q # p
    BY <1>3, <1>h DEF ReplyInv, ReplyTypeOK, GotWentOut
  <2>2. \A q \in call.got : copies'[q] = 1
    BY <2>1, <1>3, <1>c, <1>d, <1>g
  <2>. QED
    BY <2>2, <1>3, <1>f DEF GotWentOut, Sends
<1>10. SendingKnows'
  <2>1. CASE result.told = "delivered"
    <3>1. call.got = repliers[r].got \cup {p} /\ call.pc = AfterPart(p)
      BY <2>1, <1>d
    <3>2. Knows(r)'
      BY <3>1, <1>3, <1>b, <1>f, <1>g DEF Knows
    <3>3. call.pc = "text" => p = "image" /\ repliers[r].got = {}
      BY <3>1, <1>3, <1>b DEF AfterPart, Part, ReplyInv, SendingKnows
    <3>4. call.pc # "image" /\ (call.pc = "text" => call.got \subseteq {"image"})
      BY <3>1, <3>3 DEF AfterPart
    <3>. QED
      BY <3>2, <3>4, <1>3, <1>b, <1>d, <1>f DEF SendingKnows, Sends
  <2>2. CASE result.told # "delivered"
    BY <2>2, <1>3, <1>d, <1>f DEF SendingKnows, Sends
  <2>. QED
    BY <2>1, <2>2
<1>11. FailedKnows'
  <2>1. call.pc \in {"text", "marking"}
    BY <1>d DEF AfterPart
  <2>2. call.outcome = "failed" => Knows(r)'
    BY <1>3, <1>b, <1>c, <1>d, <1>f, <1>g DEF Knows
  <2>. QED
    BY <2>1, <2>2, <1>3, <1>f DEF FailedKnows, Sends
<1>. QED
  BY <1>4, <1>5, <1>6, <1>7, <1>8, <1>9, <1>10, <1>11

LEMMA MarkPartKept == ASSUME ReplyInv, NEW r \in Replier, NEW p \in Part, MarkPart(r, p) PROVE ReplyInv'
<1>1. CASE Quarantine(r)
  BY <1>1, QuarantineKept DEF MarkPart
<1>2. SUFFICES ASSUME /\ replyRecord' = Existing([replyRecord EXCEPT !.sent = @ \cup {p}])
                      /\ repliers' = [repliers EXCEPT ![r].got = @ \ {p}] /\ UNCHANGED windows
             PROVE  ReplyInv'
  BY <1>1 DEF MarkPart
<1>3. repliers[r].pc = "marking" /\ p \in repliers[r].got /\ Sends(r) /\ UNCHANGED <<copies, windows>>
  BY <1>2 DEF MarkPart, Sends
<1>4. /\ replyRecord' \in ReplyRows
      /\ replyRecord'.lapsed \/ replyRecord'.quarantined => replyRecord'.status = "pending"
      /\ replyRecord.status # "none" => /\ replyRecord'.status = replyRecord.status
                                       /\ replyRecord'.sent = replyRecord.sent \cup {p}
                                       /\ replyRecord'.lapsed = replyRecord.lapsed
                                       /\ replyRecord'.quarantined = replyRecord.quarantined
  <2>1. replyRecord.status = "none" => replyRecord' = NoRecord
    BY <1>2 DEF Existing
  <2>2. replyRecord.status # "none" => replyRecord' = [replyRecord EXCEPT !.sent = @ \cup {p}]
    BY <1>2 DEF Existing
  <2>3. NoRecord \in ReplyRows /\ ~NoRecord.lapsed /\ ~NoRecord.quarantined
    BY DEF ReplyRows, NoRecord
  <2>. QED
    BY <2>1, <2>2, <2>3 DEF ReplyInv, ReplyTypeOK, ReplyRows
<1>5. /\ repliers' \in [Replier -> ReplyCalls] /\ repliers'[r].got = repliers[r].got \ {p}
      /\ repliers'[r].pc = "marking" /\ repliers'[r].outcome = repliers[r].outcome
      /\ \A s \in Replier : s # r => repliers'[s] = repliers[s]
  BY <1>2, <1>3 DEF ReplyInv, ReplyTypeOK, ReplyCalls
<1>6. ReplyTypeOK'
  <2>1. replyRecord'.lapsed \/ replyRecord'.quarantined => replyRecord'.status = "pending"
    BY <1>4
  <2>2. copies' \in [Part -> 0 .. MaxCopies] /\ windows' \subseteq {"staleFlags", "unquarantined", "overrun", "clearedUnder", "cutRetry"}
    BY <1>3 DEF ReplyInv, ReplyTypeOK
  <2>3. replyRecord' \in ReplyRows /\ repliers' \in [Replier -> ReplyCalls]
    BY <1>4, <1>5
  <2>. QED
    BY <2>1, <2>2, <2>3 DEF ReplyTypeOK, ReplyRows, ReplyCalls
<1>7. NothingHeld'
  BY <1>5 DEF ReplyInv, NothingHeld, Sends
<1>8. SUFFICES ASSUME windows' = {}
             PROVE  /\ SoleSender' /\ SenderHasRow' /\ FreshChat' /\ RecordedWentOut'
                    /\ RestUnsent' /\ GotWentOut' /\ SendingKnows' /\ FailedKnows'
  BY <1>6, <1>7 DEF ReplyInv
<1>9. windows = {} /\ replyRecord.status \in {"sending", "pending"} /\ (\A s \in Replier : s # r => ~Sends(s))
  BY <1>2, <1>3, <1>8 DEF ReplyInv, SenderHasRow, SoleSender
<1>10. SoleSender' /\ SenderHasRow'
  BY <1>3, <1>4, <1>5, <1>9 DEF ReplyInv, SoleSender, SenderHasRow, Sends
<1>11. FreshChat' /\ RecordedWentOut'
  BY <1>3, <1>4, <1>9 DEF ReplyInv, FreshChat, RecordedWentOut, GotWentOut
<1>12. RestUnsent'
  BY <1>5 DEF RestUnsent, Sends
<1>13. GotWentOut'
  BY <1>3, <1>5, <1>9 DEF ReplyInv, GotWentOut, Sends
<1>14. SendingKnows'
  BY <1>3, <1>5, <1>9 DEF ReplyInv, SendingKnows, Sends
<1>15. FailedKnows'
  BY <1>3, <1>4, <1>5, <1>9 DEF ReplyInv, FailedKnows, Knows, Sends
<1>. QED
  BY <1>10, <1>11, <1>12, <1>13, <1>14, <1>15

LEMMA MarksDoneKept == ASSUME ReplyInv, NEW r \in Replier, MarksDone(r) PROVE ReplyInv'
<1>1. ReplyTypeOK'
  BY ReplyBounds DEF ReplyInv, ReplyTypeOK, MarksDone, Part, NoRecord, NoReply
<1>0. NothingHeld'
  BY DEF ReplyInv, ReplyTypeOK, NothingHeld, Sends, MarksDone, Part, NoRecord, NoReply
<1>2. SUFFICES ASSUME windows' = {}
             PROVE  /\ SoleSender' /\ SenderHasRow' /\ FreshChat' /\ RecordedWentOut'
                    /\ RestUnsent' /\ GotWentOut' /\ SendingKnows' /\ FailedKnows'
  BY <1>0, <1>1 DEF ReplyInv
<1>3. windows = {}
  BY <1>2 DEF MarksDone
<1>4. SoleSender'
  BY <1>2, <1>3 DEF ReplyInv, ReplyTypeOK, NothingHeld, SoleSender, MarksDone, Sends, Part, NoRecord, NoReply
<1>5. SenderHasRow'
  BY <1>2, <1>3 DEF ReplyInv, ReplyTypeOK, NothingHeld, SoleSender, SenderHasRow, MarksDone, Sends, Part, NoRecord, NoReply
<1>6. FreshChat'
  BY <1>2, <1>3 DEF ReplyInv, ReplyTypeOK, NothingHeld, FreshChat, SenderHasRow, RecordedWentOut, MarksDone, Sends, Part, NoRecord, NoReply
<1>7. RecordedWentOut'
  BY <1>2, <1>3 DEF ReplyInv, ReplyTypeOK, NothingHeld, RecordedWentOut, GotWentOut, SenderHasRow, SendingKnows, FreshChat, MarksDone, Sends, Part, NoRecord, NoReply
<1>8. RestUnsent'
  BY <1>2, <1>3 DEF ReplyInv, ReplyTypeOK, NothingHeld, SoleSender, SenderHasRow, FreshChat, RecordedWentOut, RestUnsent, SendingKnows, FailedKnows, Knows, MarksDone, Sends, Part, NoRecord, NoReply
<1>9. GotWentOut'
  BY <1>2, <1>3 DEF ReplyInv, ReplyTypeOK, NothingHeld, SoleSender, GotWentOut, RecordedWentOut, SendingKnows, MarksDone, Sends, Part, NoRecord, NoReply
<1>10. SendingKnows'
  BY <1>2, <1>3 DEF ReplyInv, ReplyTypeOK, NothingHeld, SoleSender, SenderHasRow, FreshChat, SendingKnows, RestUnsent, RecordedWentOut, Knows, MarksDone, Sends, Part, NoRecord, NoReply
<1>11. FailedKnows'
  BY <1>2, <1>3 DEF ReplyInv, ReplyTypeOK, NothingHeld, SoleSender, SenderHasRow, SendingKnows, FailedKnows, RecordedWentOut, Knows, MarksDone, Sends, Part, NoRecord, NoReply
<1>. QED
  BY <1>4, <1>5, <1>6, <1>7, <1>8, <1>9, <1>10, <1>11

LEMMA SettleReplyKept == ASSUME ReplyInv, NEW r \in Replier, SettleReply(r) PROVE ReplyInv'
<1>1. repliers[r].pc = "settling" /\ Sends(r) /\ UNCHANGED copies
  BY DEF SettleReply, Sends
<1>2. CASE Quarantine(r)
  BY <1>1, <1>2, QuarantineKept
<1>3. replyRecord \in ReplyRows /\ NoRecord \in ReplyRows /\ NoRecord.status = "none" /\ ~NoRecord.lapsed /\ ~NoRecord.quarantined
  BY DEF ReplyInv, ReplyTypeOK, ReplyRows, NoRecord
<1>4. windows = {} => replyRecord.status \in {"sending", "pending"}
  BY <1>1 DEF ReplyInv, SenderHasRow
<1>5. CASE /\ repliers[r].outcome = "sent"
           /\ replyRecord' = Existing([replyRecord EXCEPT !.status = "sent", !.quarantined = FALSE, !.lapsed = FALSE])
           /\ repliers' = [repliers EXCEPT ![r] = NoReply] /\ UNCHANGED windows
  <2>1. CASE replyRecord.status = "none"
    BY <1>1, <1>3, <1>4, <1>5, <2>1, EndedSafely DEF Existing
  <2>2. CASE replyRecord.status # "none"
    <3>1. replyRecord' = [replyRecord EXCEPT !.status = "sent", !.quarantined = FALSE, !.lapsed = FALSE]
      BY <1>5, <2>2 DEF Existing
    <3>2. /\ replyRecord' \in ReplyRows /\ replyRecord'.status = "sent" /\ replyRecord'.sent = replyRecord.sent
          /\ ~replyRecord'.lapsed /\ ~replyRecord'.quarantined
      BY <1>3, <3>1 DEF ReplyRows
    <3>. QED
      BY <1>1, <1>5, <3>2, EndedSafely
  <2>. QED
    BY <2>1, <2>2
<1>6. CASE /\ repliers[r].outcome = "failed"
           /\ replyRecord' \in {Existing([replyRecord EXCEPT !.status = "failed", !.lapsed = FALSE,
                                                             !.quarantined = FALSE]),
                                replyRecord}
           /\ repliers' = [repliers EXCEPT ![r] = NoReply] /\ UNCHANGED windows
  <2>1. windows = {} => \A p \in Part : copies[p] = 1 => p \in replyRecord.sent
    BY <1>1, <1>6 DEF ReplyInv, FailedKnows, Knows
  <2>2. CASE replyRecord' = replyRecord
    BY <1>1, <1>3, <1>4, <1>6, <2>1, <2>2, EndedSafely DEF ReplyInv, ReplyTypeOK
  <2>3. CASE replyRecord.status = "none" /\ replyRecord' = NoRecord
    BY <1>1, <1>3, <1>4, <1>6, <2>3, EndedSafely
  <2>4. CASE replyRecord' = [replyRecord EXCEPT !.status = "failed", !.lapsed = FALSE, !.quarantined = FALSE]
    <3>1. /\ replyRecord' \in ReplyRows /\ replyRecord'.status = "failed" /\ replyRecord'.sent = replyRecord.sent
          /\ ~replyRecord'.lapsed /\ ~replyRecord'.quarantined
      BY <1>3, <2>4 DEF ReplyRows
    <3>. QED
      BY <1>1, <1>6, <2>1, <3>1, EndedSafely
  <2>. QED
    BY <1>6, <2>2, <2>3, <2>4 DEF Existing
<1>. QED
  BY <1>2, <1>5, <1>6 DEF SettleReply

LEMMA PendingLapsesKept == ASSUME ReplyInv, PendingLapses PROVE ReplyInv'
<1>1. ReplyTypeOK'
  BY ReplyBounds DEF ReplyInv, ReplyTypeOK, PendingLapses, Part, NoRecord, NoReply, Gap
<1>0. NothingHeld'
  BY DEF ReplyInv, ReplyTypeOK, NothingHeld, Sends, PendingLapses, Part, NoRecord, NoReply, Gap
<1>2. SUFFICES ASSUME windows' = {}
             PROVE  /\ SoleSender' /\ SenderHasRow' /\ FreshChat' /\ RecordedWentOut'
                    /\ RestUnsent' /\ GotWentOut' /\ SendingKnows' /\ FailedKnows'
  BY <1>0, <1>1 DEF ReplyInv
<1>3. windows = {}
  BY <1>2 DEF PendingLapses, Gap
<1>4. SoleSender'
  BY <1>2, <1>3 DEF ReplyInv, ReplyTypeOK, NothingHeld, SoleSender, PendingLapses, Gap, Sends, Part, NoRecord, NoReply
<1>5. SenderHasRow'
  BY <1>2, <1>3 DEF ReplyInv, ReplyTypeOK, NothingHeld, SoleSender, SenderHasRow, PendingLapses, Gap, Sends, Part, NoRecord, NoReply
<1>6. FreshChat'
  BY <1>2, <1>3 DEF ReplyInv, ReplyTypeOK, NothingHeld, FreshChat, SenderHasRow, RecordedWentOut, PendingLapses, Gap, Sends, Part, NoRecord, NoReply
<1>7. RecordedWentOut'
  BY <1>2, <1>3 DEF ReplyInv, ReplyTypeOK, NothingHeld, RecordedWentOut, GotWentOut, SenderHasRow, SendingKnows, FreshChat, PendingLapses, Gap, Sends, Part, NoRecord, NoReply
<1>8. RestUnsent'
  BY <1>2, <1>3 DEF ReplyInv, ReplyTypeOK, NothingHeld, SoleSender, SenderHasRow, FreshChat, RecordedWentOut, RestUnsent, SendingKnows, FailedKnows, Knows, PendingLapses, Gap, Sends, Part, NoRecord, NoReply
<1>9. GotWentOut'
  BY <1>2, <1>3 DEF ReplyInv, ReplyTypeOK, NothingHeld, SoleSender, GotWentOut, RecordedWentOut, SendingKnows, PendingLapses, Gap, Sends, Part, NoRecord, NoReply
<1>10. SendingKnows'
  BY <1>2, <1>3 DEF ReplyInv, ReplyTypeOK, NothingHeld, SoleSender, SenderHasRow, FreshChat, SendingKnows, RestUnsent, RecordedWentOut, Knows, PendingLapses, Gap, Sends, Part, NoRecord, NoReply
<1>11. FailedKnows'
  BY <1>2, <1>3 DEF ReplyInv, ReplyTypeOK, NothingHeld, SoleSender, SenderHasRow, SendingKnows, FailedKnows, RecordedWentOut, Knows, PendingLapses, Gap, Sends, Part, NoRecord, NoReply
<1>. QED
  BY <1>4, <1>5, <1>6, <1>7, <1>8, <1>9, <1>10, <1>11

LEMMA ClearRecordsKept == ASSUME ReplyInv, ClearRecords PROVE ReplyInv'
<1>1. ReplyTypeOK'
  BY ReplyBounds DEF ReplyInv, ReplyTypeOK, ClearRecords, Part, NoRecord, NoReply, Gap, Under
<1>0. NothingHeld'
  BY DEF ReplyInv, ReplyTypeOK, NothingHeld, Sends, ClearRecords, Part, NoRecord, NoReply, Gap, Under
<1>2. SUFFICES ASSUME windows' = {}
             PROVE  /\ SoleSender' /\ SenderHasRow' /\ FreshChat' /\ RecordedWentOut'
                    /\ RestUnsent' /\ GotWentOut' /\ SendingKnows' /\ FailedKnows'
  BY <1>0, <1>1 DEF ReplyInv
<1>3. windows = {}
  BY <1>2 DEF ClearRecords, Gap, Under
<1>4. SoleSender'
  BY <1>2, <1>3 DEF ReplyInv, ReplyTypeOK, NothingHeld, SoleSender, ClearRecords, Gap, Under, Sends, Part, NoRecord, NoReply
<1>5. SenderHasRow'
  BY <1>2, <1>3 DEF ReplyInv, ReplyTypeOK, NothingHeld, SoleSender, SenderHasRow, ClearRecords, Gap, Under, Sends, Part, NoRecord, NoReply
<1>6. FreshChat'
  BY <1>2, <1>3 DEF ReplyInv, ReplyTypeOK, NothingHeld, FreshChat, SenderHasRow, RecordedWentOut, ClearRecords, Gap, Under, Sends, Part, NoRecord, NoReply
<1>7. RecordedWentOut'
  BY <1>2, <1>3 DEF ReplyInv, ReplyTypeOK, NothingHeld, RecordedWentOut, GotWentOut, SenderHasRow, SendingKnows, FreshChat, ClearRecords, Gap, Under, Sends, Part, NoRecord, NoReply
<1>8. RestUnsent'
  BY <1>2, <1>3 DEF ReplyInv, ReplyTypeOK, NothingHeld, SoleSender, SenderHasRow, FreshChat, RecordedWentOut, RestUnsent, SendingKnows, FailedKnows, Knows, ClearRecords, Gap, Under, Sends, Part, NoRecord, NoReply
<1>9. GotWentOut'
  BY <1>2, <1>3 DEF ReplyInv, ReplyTypeOK, NothingHeld, SoleSender, GotWentOut, RecordedWentOut, SendingKnows, ClearRecords, Gap, Under, Sends, Part, NoRecord, NoReply
<1>10. SendingKnows'
  BY <1>2, <1>3 DEF ReplyInv, ReplyTypeOK, NothingHeld, SoleSender, SenderHasRow, FreshChat, SendingKnows, RestUnsent, RecordedWentOut, Knows, ClearRecords, Gap, Under, Sends, Part, NoRecord, NoReply
<1>11. FailedKnows'
  BY <1>2, <1>3 DEF ReplyInv, ReplyTypeOK, NothingHeld, SoleSender, SenderHasRow, SendingKnows, FailedKnows, RecordedWentOut, Knows, ClearRecords, Gap, Under, Sends, Part, NoRecord, NoReply
<1>. QED
  BY <1>4, <1>5, <1>6, <1>7, <1>8, <1>9, <1>10, <1>11

LEMMA ReplyCrashKept == ASSUME ReplyInv, ReplyCrash PROVE ReplyInv'
<1>1. ReplyTypeOK'
  BY ReplyBounds DEF ReplyInv, ReplyTypeOK, ReplyCrash, Part, NoRecord, NoReply, Gap, Under
<1>0. NothingHeld'
  BY DEF ReplyInv, ReplyTypeOK, NothingHeld, Sends, ReplyCrash, Part, NoRecord, NoReply, Gap, Under
<1>2. SUFFICES ASSUME windows' = {}
             PROVE  /\ SoleSender' /\ SenderHasRow' /\ FreshChat' /\ RecordedWentOut'
                    /\ RestUnsent' /\ GotWentOut' /\ SendingKnows' /\ FailedKnows'
  BY <1>0, <1>1 DEF ReplyInv
<1>3. windows = {}
  BY <1>2 DEF ReplyCrash, Gap, Under
<1>4. SoleSender'
  BY <1>2, <1>3 DEF ReplyInv, ReplyTypeOK, NothingHeld, SoleSender, ReplyCrash, Gap, Under, Sends, Part, NoRecord, NoReply
<1>5. SenderHasRow'
  BY <1>2, <1>3 DEF ReplyInv, ReplyTypeOK, NothingHeld, SoleSender, SenderHasRow, ReplyCrash, Gap, Under, Sends, Part, NoRecord, NoReply
<1>6. FreshChat'
  BY <1>2, <1>3 DEF ReplyInv, ReplyTypeOK, NothingHeld, FreshChat, SenderHasRow, RecordedWentOut, ReplyCrash, Gap, Under, Sends, Part, NoRecord, NoReply
<1>7. RecordedWentOut'
  BY <1>2, <1>3 DEF ReplyInv, ReplyTypeOK, NothingHeld, RecordedWentOut, GotWentOut, SenderHasRow, SendingKnows, FreshChat, ReplyCrash, Gap, Under, Sends, Part, NoRecord, NoReply
<1>8. RestUnsent'
  BY <1>2, <1>3 DEF ReplyInv, ReplyTypeOK, NothingHeld, SoleSender, SenderHasRow, FreshChat, RecordedWentOut, RestUnsent, SendingKnows, FailedKnows, Knows, ReplyCrash, Gap, Under, Sends, Part, NoRecord, NoReply
<1>9. GotWentOut'
  BY <1>2, <1>3 DEF ReplyInv, ReplyTypeOK, NothingHeld, SoleSender, GotWentOut, RecordedWentOut, SendingKnows, ReplyCrash, Gap, Under, Sends, Part, NoRecord, NoReply
<1>10. SendingKnows'
  BY <1>2, <1>3 DEF ReplyInv, ReplyTypeOK, NothingHeld, SoleSender, SenderHasRow, FreshChat, SendingKnows, RestUnsent, RecordedWentOut, Knows, ReplyCrash, Gap, Under, Sends, Part, NoRecord, NoReply
<1>11. FailedKnows'
  BY <1>2, <1>3 DEF ReplyInv, ReplyTypeOK, NothingHeld, SoleSender, SenderHasRow, SendingKnows, FailedKnows, RecordedWentOut, Knows, ReplyCrash, Gap, Under, Sends, Part, NoRecord, NoReply
<1>. QED
  BY <1>4, <1>5, <1>6, <1>7, <1>8, <1>9, <1>10, <1>11

LEMMA ReplyNextKept == ASSUME ReplyInv, [ReplyNext]_replyVars PROVE ReplyInv'
<1>1. ASSUME NEW r \in Replier, InsertRecord(r) \/ ReadRecord(r) \/ TakeOver(r) PROVE ReplyInv'
  BY <1>1, InsertRecordKept, ReadRecordKept, TakeOverKept
<1>2. ASSUME NEW r \in Replier, MarksDone(r) \/ SettleReply(r) PROVE ReplyInv'
  BY <1>2, MarksDoneKept, SettleReplyKept
<1>3. ASSUME NEW r \in Replier, NEW p \in Part, SkipPart(r, p) \/ SendPart(r, p) \/ MarkPart(r, p)
      PROVE  ReplyInv'
  BY <1>3, SkipPartKept, SendPartKept, MarkPartKept
<1>4. CASE PendingLapses \/ ClearRecords \/ ReplyCrash
  BY <1>4, PendingLapsesKept, ClearRecordsKept, ReplyCrashKept
<1>5. CASE UNCHANGED replyVars
  BY <1>5 DEF replyVars, ReplyInv, ReplyTypeOK, NothingHeld, SoleSender, SenderHasRow, FreshChat, RecordedWentOut,
              RestUnsent, GotWentOut, SendingKnows, FailedKnows, Knows, Sends
<1>. QED
  BY <1>1, <1>2, <1>3, <1>4, <1>5 DEF ReplyNext

\* While no gap of the record was gone through, one call at a time replies to
\* the chat, to a row that says so, and what the row and the call know of the
\* parts is what the platform accepted (ReplyService.Handle, default_reply_records).
THEOREM ReplyInvariant == ReplySpec => []ReplyInv
<1>1. ReplyInit => ReplyInv
  BY ReplyBounds DEF ReplyInit, ReplyInv, ReplyTypeOK, NothingHeld, NoRecord, NoReply, Part, SoleSender, SenderHasRow,
                     FreshChat, RecordedWentOut, RestUnsent, GotWentOut, SendingKnows, FailedKnows, Knows, Sends
<1>2. ReplyInv /\ [ReplyNext]_replyVars => ReplyInv'
  BY ReplyNextKept
<1>. QED
  BY <1>1, <1>2, PTL DEF ReplySpec

\* Outside the named gaps the buyer gets each part of the reply at most once
\* (RepliesSafe), for any number of callbacks, crashes and resets.
THEOREM RepliedOnce == ReplySpec => []RepliesSafe
<1>1. ASSUME ReplyInv PROVE RepliesSafe
  <2>1. SUFFICES ASSUME windows = {} PROVE RepliesSafe
    BY DEF RepliesSafe
  <2>. DEFINE senders == {r \in Replier : Sends(r)}
  <2>2. Cardinality(senders) <= 1
    <3>1. CASE senders = {}
      BY <3>1, FS_EmptySet
    <3>2. CASE senders # {}
      <4>1. PICK r \in senders : TRUE
        BY <3>2
      <4>2. senders = {r}
        BY <1>1, <2>1, <4>1 DEF ReplyInv, SoleSender
      <4>. HIDE DEF senders
      <4>3. Cardinality({r}) = 1
        BY FS_Singleton
      <4>. QED
        BY <4>2, <4>3
    <3>. QED
      BY <3>1, <3>2
  <2>3. replyRecord.status \in {"uncertain", "sent", "failed"} \/ replyRecord.quarantined
          => \A r \in Replier : ~Sends(r)
    BY <1>1, <2>1 DEF ReplyInv, SenderHasRow
  <2>4. ASSUME NEW p \in Part
        PROVE  /\ copies[p] <= 1
               /\ p \in replyRecord.sent => copies[p] = 1
               /\ replyRecord.status = "failed" /\ p \notin replyRecord.sent => copies[p] = 0
    BY <1>1, <2>1, <2>3 DEF ReplyInv, ReplyTypeOK, RecordedWentOut, RestUnsent
  <2>. HIDE DEF senders
  <2>. QED
    BY <2>2, <2>3, <2>4 DEF RepliesSafe, senders
<1>. QED
  BY <1>1, ReplyInvariant, PTL

\* The kinds of values the record, the calls and the histories hold, and that a
\* mark or a lapsed lease belongs to a pending row (ReplyTypeOK).
THEOREM ReplyTypesOK == ReplySpec => []ReplyTypeOK
<1>1. ReplyInv => ReplyTypeOK
  BY DEF ReplyInv
<1>. QED
  BY <1>1, ReplyInvariant, PTL

-----------------------------------------------------------------------------
(* The scheduled tasks                                                     *)

\* What an execution holds, and the row of a key.
HoldPC == {"call", "fetch", "item", "save", "mark", "finish", "review"}

FlowRec ==
    [pc : {"idle", "gate", "list", "claim", "block", "renew"} \cup HoldPC, task : {"rate", "polish"},
     left : Seq(RateKey), key : Key, items : Nat, bad : BOOLEAN, before : Nat, moved : BOOLEAN,
     verdict : {"none", "ok", "listed", "refused", "too_late", "session", "token"},
     result : {"none", "success", "failed"}, retry : {"now", "later", "never"}, expired : BOOLEAN,
     due : BOOLEAN]

\* The fields of an execution, their sets by name: a record is shown to be one without looking into them.
FlowPC == {"idle", "gate", "list", "claim", "block", "renew"} \cup HoldPC
Verdict == {"none", "ok", "listed", "refused", "too_late", "session", "token"}
Result == {"none", "success", "failed"}
RetryWhen == {"now", "later", "never"}
KeyList == Seq(RateKey)

LEMMA FlowSet ==
    /\ FlowRec = [pc : FlowPC, task : {"rate", "polish"}, left : KeyList, key : Key, items : Nat, bad : BOOLEAN,
                  before : Nat, moved : BOOLEAN, verdict : Verdict, result : Result, retry : RetryWhen,
                  expired : BOOLEAN, due : BOOLEAN]
    /\ {"claim", "call", "fetch", "save", "finish", "review"} \subseteq FlowPC
    /\ <<>> \in KeyList /\ {"success", "failed"} \subseteq Result
    /\ {"ok", "refused", "too_late", "session", "token"} \subseteq Verdict
  BY DEF FlowRec, FlowPC, Verdict, Result, RetryWhen, KeyList, HoldPC

TaskRow == [status : {"absent", "running", "failed", "needs_review", "success"},
            attempts : 0 .. MaxAttempts, retry : {"now", "later", "never"}]

\* The fields that a place in the code determines.
Shape(x) ==
    /\ x.task = "polish" => x.left = <<>>
    /\ x.pc = "claim" /\ x.task = "rate" => x.left # <<>> /\ x.before # 0
    /\ x.pc \in HoldPC => x.before # 0 /\ (x.task = "rate" <=> x.key # Polish)
    /\ x.pc \in {"list", "call"} => x.task = "rate"
    /\ x.pc \in {"fetch", "item", "mark"} => x.task = "polish"
    /\ x.pc \in {"gate", "list", "claim", "call", "fetch"} => ~x.bad
    /\ x.pc = "item" => x.items > 0
    /\ x.pc = "finish" => x.result \in {"success", "failed"}

\* The call was a complete success, and the execution goes on to say so.
Succeeded(x) ==
    \/ x.pc = "save" /\ x.task = "rate" /\ x.verdict = "ok"
    \/ x.pc = "save" /\ x.task = "polish" /\ x.verdict \in {"ok", "listed"} /\ x.items = 0 /\ ~x.bad
    \/ x.pc = "mark"
    \/ x.pc = "finish" /\ x.result = "success"

\* The execution that holds a key and does not give it up yet.
Works(f, k) == flow[f].pc \in HoldPC \ {"review"} /\ flow[f].key = k

TaskTypes ==
    /\ enabled \subseteq {"rate", "polish"} /\ completed \in 0 .. MaxOrders /\ polishedToday \in BOOLEAN
    /\ tasks \in [Key -> TaskRow] /\ flow \in [Flow -> FlowRec]
    /\ cookie \in Nat \ {0} /\ expiredCookie \in 0 .. cookie
    /\ \A k \in Key : tasks[k].status = "absent" => tasks[k].attempts = 0

FlowShapes == \A f \in Flow : Shape(flow[f]) /\ flow[f].before <= cookie

\* A key that is worked on has one execution, and its row cannot be claimed.
OneWorks == \A f, g \in Flow, k \in Key : Works(f, k) /\ Works(g, k) => f = g

WorkedRow == \A f \in Flow, k \in Key : Works(f, k) => tasks[k].status \in {"running", "needs_review"}

\* A key that had its complete success is not claimed again, and whoever works
\* on it will say success.
FulfilledRow == \A k \in fulfilled \cap Key : tasks[k].status \notin {"absent", "failed"}

FulfilledFlow == \A f \in Flow : flow[f].key \in fulfilled /\ flow[f].pc \in HoldPC \ {"review"} => Succeeded(flow[f])

\* The date of the polishing is written before its success.
PolishDated ==
    /\ PolishMarked
    /\ \A f \in Flow : flow[f].pc = "finish" /\ flow[f].key = Polish /\ flow[f].result = "success" => polishedToday

\* The inductive invariant.
TasksInv ==
    /\ TaskTypes /\ FlowShapes /\ OneWorks /\ WorkedRow /\ FulfilledRow /\ FulfilledFlow
    /\ RunningAccounted /\ PolishDated /\ NothingRepeated /\ LoginStays

LEMMA IdleOK ==
    /\ Idle \in FlowRec /\ Idle.pc = "idle" /\ Idle.before = 0 /\ Shape(Idle)
    /\ Idle.left = <<>> /\ ~Idle.bad /\ Idle.task = "rate"
  BY DEF Idle, FlowRec, HoldPC, Key, Shape

\* After the rating the scan begins the polishing, or the execution ends.
LEMMA ContinueOK ==
    ASSUME NEW f \in Flow, flow[f] \in FlowRec
    PROVE  /\ Continue(f) \in FlowRec /\ Shape(Continue(f)) /\ Continue(f).pc \in {"idle", "gate"}
           /\ Continue(f).before = 0
<1>1. /\ Idle \in FlowRec /\ Idle.pc = "idle" /\ Idle.before = 0 /\ Shape(Idle)
  BY IdleOK
<1>. DEFINE next == [Idle EXCEPT !.pc = "gate", !.task = "polish"]
<1>2. /\ next \in FlowRec /\ next.pc = "gate" /\ next.before = 0 /\ next.left = <<>> /\ ~next.bad
  BY IdleOK DEF FlowRec
<1>4. Shape(next)
  BY <1>2 DEF Shape, HoldPC
<1>3. Continue(f) \in {Idle, next}
  BY DEF Continue
<1>. QED
  BY <1>1, <1>2, <1>3, <1>4

\* A task that returns holds no key.
LEMMA ReturnedOK ==
    ASSUME NEW f \in Flow, flow[f] \in FlowRec
    PROVE  /\ Returned(f) \in FlowRec /\ Shape(Returned(f)) /\ Returned(f).pc \in {"idle", "gate", "block"}
           /\ Returned(f).before = 0
<1>1. CASE flow[f].expired
  <2>. DEFINE next == [Idle EXCEPT !.pc = "block", !.task = flow[f].task, !.due = flow[f].due]
  <2>1. /\ next \in FlowRec /\ next.pc = "block" /\ next.before = 0 /\ next.left = <<>>
    BY IdleOK DEF FlowRec
  <2>2. Shape(next)
    BY <2>1 DEF Shape, HoldPC
  <2>. QED
    BY <1>1, <2>1, <2>2 DEF Returned
<1>2. CASE ~flow[f].expired
  BY <1>2, ContinueOK DEF Returned
<1>. QED
  BY <1>1, <1>2

\* After a key comes the next one of the list, or the end of the task.
LEMMA AfterOK ==
    ASSUME NEW f \in Flow, flow[f] \in FlowRec, Shape(flow[f]), flow[f].pc \in {"claim", "finish"}
    PROVE  /\ After(f) \in FlowRec /\ Shape(After(f)) /\ After(f).pc \in {"idle", "gate", "block", "claim"}
           /\ After(f).before \in {0, flow[f].before}
<1>1. CASE Len(flow[f].left) > 1
  <2>. DEFINE next == [Idle EXCEPT !.pc = "claim", !.left = Tail(flow[f].left), !.before = flow[f].before,
                                   !.due = flow[f].due]
  <2>1. flow[f].left \in Seq(RateKey) /\ flow[f].before \in Nat /\ flow[f].due \in BOOLEAN
    BY DEF FlowRec
  <2>2. Tail(flow[f].left) \in Seq(RateKey) /\ Tail(flow[f].left) # <<>>
    BY <1>1, <2>1
  <2>3. flow[f].task = "rate" /\ flow[f].before # 0
    <3>1. flow[f].left # <<>>
      BY <1>1
    <3>2. flow[f].task = "rate"
      BY <3>1 DEF Shape, FlowRec
    <3>. QED
      BY <3>2 DEF Shape, HoldPC
  <2>4. /\ next \in FlowRec /\ next.pc = "claim" /\ next.before = flow[f].before /\ next.task = "rate"
        /\ next.left = Tail(flow[f].left) /\ ~next.bad
    BY <2>1, <2>2, IdleOK DEF FlowRec
  <2>5. Shape(next)
    BY <2>2, <2>3, <2>4 DEF Shape, HoldPC
  <2>. HIDE DEF next
  <2>6. After(f) = next
    BY <1>1 DEF After, next
  <2>. QED
    BY <2>4, <2>5, <2>6
<1>2. CASE ~(Len(flow[f].left) > 1)
  BY <1>2, ReturnedOK DEF After
<1>. QED
  BY <1>1, <1>2

\* Settle and Review, of an execution that has its answer.
LEMMA SettleOK ==
    ASSUME NEW f \in Flow, flow[f] \in FlowRec, Shape(flow[f]), flow[f].pc \in {"save", "mark"},
           NEW result \in {"success", "failed"}, NEW retry \in {"now", "later", "never"}
    PROVE  LET new == Settle(f, result, retry) IN
           /\ new \in FlowRec /\ Shape(new) /\ new.pc = "finish" /\ new.result = result
           /\ new.key = flow[f].key /\ new.before = flow[f].before /\ new.task = flow[f].task
           /\ new.left = flow[f].left
<1>. DEFINE new == Settle(f, result, retry)
<1>. DEFINE expired == (flow[f].verdict = "session")
<1>1. expired \in BOOLEAN /\ new = [flow[f] EXCEPT !.pc = "finish", !.result = result, !.retry = retry,
                                                 !.moved = FALSE, !.expired = expired]
  BY DEF Settle
<1>. HIDE DEF expired, new
<1>2. /\ new \in FlowRec /\ new.pc = "finish" /\ new.result = result /\ new.key = flow[f].key
      /\ new.before = flow[f].before /\ new.task = flow[f].task /\ new.left = flow[f].left
  <2>1. retry \in RetryWhen /\ result \in Result /\ expired \in BOOLEAN
    BY <1>1 DEF RetryWhen, Result
  <2>2. new \in FlowRec
    BY <1>1, <2>1, FlowSet
  <2>. QED
    BY <1>1, <2>2 DEF FlowRec
<1>3. Shape(new)
  BY <1>2 DEF Shape, HoldPC
<1>. QED
  BY <1>2, <1>3 DEF new

LEMMA ReviewOK ==
    ASSUME NEW f \in Flow, flow[f] \in FlowRec, Shape(flow[f]), flow[f].pc \in {"save", "mark"}
    PROVE  LET new == Review(f) IN
           /\ new \in FlowRec /\ Shape(new) /\ new.pc = "review"
           /\ new.key = flow[f].key /\ new.before = flow[f].before
<1>. DEFINE new == Review(f)
            expired == (flow[f].verdict = "session")
<1>a. expired \in BOOLEAN /\ <<>> \in Seq(RateKey)
      /\ new = [flow[f] EXCEPT !.pc = "review", !.moved = FALSE, !.expired = expired, !.left = <<>>]
  BY DEF Review
<1>. HIDE DEF expired, new
<1>1. /\ new \in FlowRec /\ new.pc = "review" /\ new.key = flow[f].key
      /\ new.before = flow[f].before /\ new.task = flow[f].task /\ new.left = <<>>
  BY <1>a DEF FlowRec, HoldPC
<1>2. Shape(new)
  BY <1>1 DEF Shape, HoldPC
<1>. QED
  BY <1>1, <1>2 DEF new

LEMMA NextItemOK ==
    ASSUME NEW f \in Flow, flow[f] \in FlowRec, Shape(flow[f]), flow[f].pc = "save", flow[f].task = "polish"
    PROVE  LET new == NextItem(f) IN
           /\ new \in FlowRec /\ Shape(new) /\ new.pc \in {"item", "finish", "mark"}
           /\ new.key = flow[f].key /\ new.before = flow[f].before
           /\ flow[f].items = 0 /\ ~flow[f].bad => new.pc = "mark"
           /\ new.pc = "finish" => new.result = "failed"
<1>1. CASE flow[f].items > 0
  <2>. DEFINE new == [flow[f] EXCEPT !.pc = "item", !.moved = FALSE]
  <2>1. /\ new \in FlowRec /\ new.pc = "item" /\ new.key = flow[f].key /\ new.before = flow[f].before
        /\ new.task = "polish" /\ new.left = flow[f].left /\ new.items = flow[f].items
    BY DEF FlowRec, HoldPC
  <2>2. Shape(new)
    BY <1>1, <2>1 DEF Shape, HoldPC
  <2>3. NextItem(f) = new
    BY <1>1 DEF NextItem
  <2>. HIDE DEF new
  <2>. QED
    BY <1>1, <2>1, <2>2, <2>3
<1>2. CASE ~(flow[f].items > 0) /\ flow[f].bad
  BY <1>2, SettleOK DEF NextItem
<1>3. CASE ~(flow[f].items > 0) /\ ~flow[f].bad
  <2>. DEFINE new == [flow[f] EXCEPT !.pc = "mark", !.moved = FALSE]
  <2>1. /\ new \in FlowRec /\ new.pc = "mark" /\ new.key = flow[f].key /\ new.before = flow[f].before
        /\ new.task = "polish" /\ new.left = flow[f].left
    BY DEF FlowRec, HoldPC
  <2>2. Shape(new)
    BY <2>1 DEF Shape, HoldPC
  <2>3. NextItem(f) = new
    BY <1>3 DEF NextItem
  <2>. HIDE DEF new
  <2>. QED
    BY <2>1, <2>2, <2>3
<1>. QED
  BY <1>1, <1>2, <1>3

\* What an answer leads to, whether its cookie was saved or not: the execution
\* keeps its key, and a complete success is not settled as a failure.
LEMMA AnsweredOK ==
    ASSUME NEW f \in Flow, flow[f] \in FlowRec, Shape(flow[f]), flow[f].pc = "save", NEW saved \in BOOLEAN
    PROVE  LET new == Answered(f, saved) IN
           /\ new \in FlowRec /\ Shape(new) /\ new.pc \in {"item", "finish", "mark", "review"}
           /\ new.key = flow[f].key /\ new.before = flow[f].before
           /\ Succeeded(flow[f]) => new.pc = "review" \/ Succeeded(new)
           /\ new.pc = "finish" /\ new.result = "success" => flow[f].key # Polish
<1>1. CASE flow[f].task = "rate"
  <2>1. flow[f].key # Polish
    BY <1>1 DEF Shape, HoldPC
  <2>2. CASE flow[f].verdict = "ok"
    <3>1. Answered(f, saved) = IF saved THEN Settle(f, "success", "now") ELSE Review(f)
      BY <1>1, <2>2 DEF Answered, RateAnswered
    <3>. QED
      BY <2>1, <3>1, SettleOK, ReviewOK DEF Succeeded
  <2>3. CASE flow[f].verdict # "ok"
    <3>. DEFINE retry == IF flow[f].verdict = "too_late" THEN "never" ELSE "later"
                settled == Settle(f, "failed", retry)
                last == [settled EXCEPT !.left = <<>>]
    <3>1. retry \in {"now", "later", "never"}
      OBVIOUS
    <3>2. /\ settled \in FlowRec /\ Shape(settled) /\ settled.pc = "finish" /\ settled.result = "failed"
          /\ settled.key = flow[f].key /\ settled.before = flow[f].before /\ settled.task = "rate"
      BY <1>1, <3>1, SettleOK
    <3>3. Answered(f, saved) \in {settled, last}
      BY <1>1, <2>3 DEF Answered, RateAnswered
    <3>. HIDE DEF settled
    <3>a. <<>> \in Seq(RateKey)
      OBVIOUS
    <3>4. /\ last \in FlowRec /\ last.pc = "finish" /\ last.result = "failed" /\ last.task = "rate"
          /\ last.key = flow[f].key /\ last.before = flow[f].before
      BY <3>2, <3>a DEF FlowRec, HoldPC
    <3>. HIDE DEF last
    <3>5. Shape(last)
      BY <3>2, <3>4 DEF Shape, HoldPC
    <3>6. ~Succeeded(flow[f])
      BY <1>1, <2>3 DEF Succeeded
    <3>. QED
      BY <3>2, <3>3, <3>4, <3>5, <3>6
  <2>. QED
    BY <2>2, <2>3
<1>2. CASE flow[f].task # "rate"
  <2>1. flow[f].task = "polish" /\ Answered(f, saved) = PolishAnswered(f, saved)
    BY <1>2 DEF FlowRec, Answered
  <2>2. CASE flow[f].verdict \in {"session", "token"}
    <3>1. Answered(f, saved) = Settle(f, "failed", IF flow[f].bad THEN "now" ELSE "later")
      BY <2>1, <2>2 DEF PolishAnswered
    <3>2. ~Succeeded(flow[f])
      BY <2>1, <2>2 DEF Succeeded
    <3>3. (IF flow[f].bad THEN "now" ELSE "later") \in {"now", "later", "never"}
      OBVIOUS
    <3>. QED
      BY <3>1, <3>2, <3>3, SettleOK
  <2>3. CASE flow[f].verdict = "refused" /\ ~flow[f].bad
    <3>1. Answered(f, saved) = Settle(f, "failed", "later")
      BY <2>1, <2>3 DEF PolishAnswered
    <3>2. ~Succeeded(flow[f])
      BY <2>1, <2>3 DEF Succeeded
    <3>. QED
      BY <3>1, <3>2, SettleOK
  <2>4. CASE flow[f].verdict \notin {"session", "token"} /\ ~(flow[f].verdict = "refused" /\ ~flow[f].bad)
    <3>1. Answered(f, saved) \in {Review(f), NextItem(f)}
      BY <2>1, <2>4 DEF PolishAnswered
    <3>2. CASE Answered(f, saved) = Review(f)
      BY <3>2, ReviewOK
    <3>3. CASE Answered(f, saved) = NextItem(f)
      <4>1. Succeeded(flow[f]) => flow[f].items = 0 /\ ~flow[f].bad
        BY <2>1 DEF Succeeded
      <4>. QED
        BY <2>1, <3>3, <4>1, NextItemOK DEF Succeeded
    <3>. QED
      BY <3>1, <3>2, <3>3
  <2>. QED
    BY <2>2, <2>3, <2>4
<1>. QED
  BY <1>1, <1>2

------------------------------------------------------------------------------
\* An execution goes on without writing a row: it takes up no key it did not
\* work on, and a key it drops is abandoned.
LEMMA OnwardKept ==
    ASSUME TasksInv, NEW f \in Flow, NEW new \in FlowRec, Step(f, new), Shape(new), new.before <= cookie',
           new.pc \in HoldPC => flow[f].pc \in HoldPC \ {"review"} /\ new.key = flow[f].key,
           flow[f].pc \in HoldPC /\ new.pc \notin HoldPC => flow[f].key \in abandoned',
           abandoned \subseteq abandoned', UNCHANGED <<enabled, completed, tasks>>,
           cookie' \in Nat \ {0}, cookie <= cookie', expiredCookie' \in 0 .. cookie',
           polishedToday' \in BOOLEAN, polishedToday => polishedToday',
           fulfilled' = fulfilled \/ (flow[f].pc \in HoldPC \ {"review"} /\ fulfilled' = fulfilled \cup {flow[f].key}),
           new.pc \in HoldPC \ {"review"} /\ new.key \in fulfilled' => Succeeded(new),
           new.pc = "finish" /\ new.key = Polish /\ new.result = "success" => polishedToday',
           repeated' = {}, replaced' = {}
    PROVE  TasksInv'
<1>1. /\ flow' \in [Flow -> FlowRec] /\ flow'[f] = new /\ \A g \in Flow : g # f => flow'[g] = flow[g]
  BY DEF TasksInv, TaskTypes, Step
<1>2. TaskTypes'
  BY <1>1 DEF TasksInv, TaskTypes
<1>3. FlowShapes'
  <2>1. \A g \in Flow : flow[g].before \in Nat
    BY DEF TasksInv, TaskTypes, FlowRec
  <2>2. cookie \in Nat
    BY DEF TasksInv, TaskTypes
  <2>3. ASSUME NEW g \in Flow PROVE (Shape(flow[g]) /\ flow[g].before <= cookie)'
    BY <1>1, <2>1, <2>2 DEF TasksInv, FlowShapes
  <2>. QED
    BY <2>3 DEF FlowShapes
<1>4. \A g \in Flow, k \in Key : Works(g, k)' => Works(g, k)
  BY <1>1 DEF Works
<1>5. OneWorks'
  BY <1>4 DEF TasksInv, OneWorks
<1>6. WorkedRow'
  BY <1>4 DEF TasksInv, WorkedRow
<1>7. FulfilledRow'
  <2>1. flow[f].key \in Key
    BY DEF TasksInv, TaskTypes, FlowRec
  <2>2. flow[f].pc \in HoldPC \ {"review"} => tasks[flow[f].key].status \in {"running", "needs_review"}
    BY <2>1 DEF TasksInv, WorkedRow, Works
  <2>. QED
    BY <2>1, <2>2 DEF TasksInv, FulfilledRow
<1>8. FulfilledFlow'
  <2>1. ASSUME NEW g \in Flow, g # f, flow'[g].key \in fulfilled', flow'[g].pc \in HoldPC \ {"review"}
        PROVE  Succeeded(flow'[g])
    <3>1. flow'[g] = flow[g] /\ flow[g].key \in Key
      BY <1>1, <2>1 DEF TasksInv, TaskTypes, FlowRec
    <3>2. CASE flow[g].key \in fulfilled
      BY <2>1, <3>1, <3>2 DEF TasksInv, FulfilledFlow
    <3>3. CASE flow[g].key \notin fulfilled
      <4>1. flow[f].pc \in HoldPC \ {"review"} /\ flow[g].key = flow[f].key
        BY <2>1, <3>1, <3>3
      <4>2. Works(f, flow[g].key) /\ Works(g, flow[g].key)
        BY <2>1, <3>1, <4>1 DEF Works
      <4>. QED
        BY <2>1, <3>1, <4>2 DEF TasksInv, OneWorks
    <3>. QED
      BY <3>2, <3>3
  <2>. QED
    BY <1>1, <2>1 DEF FulfilledFlow
<1>9. RunningAccounted'
  <2>1. ASSUME NEW k \in Key, tasks'[k].status = "running", k \notin abandoned'
        PROVE  \E g \in Flow : HoldsTask(g, k)'
    <3>1. PICK g \in Flow : HoldsTask(g, k)
      BY <2>1 DEF TasksInv, RunningAccounted
    <3>2. g = f => new.pc \in HoldPC /\ new.key = k
      BY <2>1, <3>1 DEF HoldsTask, HoldPC
    <3>3. HoldsTask(g, k)'
      BY <1>1, <3>1, <3>2 DEF HoldsTask, HoldPC
    <3>. QED
      BY <3>3
  <2>. QED
    BY <2>1 DEF RunningAccounted
<1>10. PolishDated'
  BY <1>1 DEF TasksInv, PolishDated, PolishMarked
<1>. QED
  BY <1>2, <1>3, <1>5, <1>6, <1>7, <1>8, <1>9, <1>10 DEF TasksInv, NothingRepeated, LoginStays

\* A row is written by its holder: the result, or that it is for review.
LEMMA RowWrittenKept ==
    ASSUME TasksInv, NEW f \in Flow, NEW new \in FlowRec, Step(f, new), Shape(new), new.before <= cookie,
           NEW status \in {"success", "failed", "needs_review"}, NEW retry \in {"now", "later", "never"},
           tasks' = Written(flow[f].key, status, retry),
           \/ flow[f].pc = "review" /\ status = "needs_review"
           \/ flow[f].pc = "finish" /\ status = flow[f].result,
           new.pc \in HoldPC => new.pc = "review",
           UNCHANGED <<enabled, completed, cookie, expiredCookie, polishedToday, fulfilled, repeated, abandoned,
                       replaced>>
    PROVE  TasksInv'
<1>. DEFINE k == flow[f].key
<1>1. /\ flow' \in [Flow -> FlowRec] /\ flow'[f] = new /\ \A g \in Flow : g # f => flow'[g] = flow[g]
  BY DEF TasksInv, TaskTypes, Step
<1>2. k \in Key /\ flow[f].pc \in HoldPC
  BY DEF TasksInv, TaskTypes, FlowRec, HoldPC
<1>3. /\ tasks' \in [Key -> TaskRow] /\ tasks'[k].status = status
      /\ \A j \in Key : j # k => tasks'[j] = tasks[j]
      /\ \A j \in Key : tasks'[j].status = "absent" => tasks'[j].attempts = 0
  <2>1. tasks' = [tasks EXCEPT ![k] = [tasks[k] EXCEPT !.status = status, !.retry = retry]]
    BY <1>2 DEF Written, TasksInv, TaskTypes
  <2>2. [tasks[k] EXCEPT !.status = status, !.retry = retry] \in TaskRow
    BY <1>2 DEF TasksInv, TaskTypes, TaskRow
  <2>3. /\ tasks'[k] = [tasks[k] EXCEPT !.status = status, !.retry = retry] /\ tasks' \in [Key -> TaskRow]
        /\ \A j \in Key : j # k => tasks'[j] = tasks[j]
    BY <1>2, <2>1, <2>2 DEF TasksInv, TaskTypes
  <2>4. tasks'[k].status = status
    BY <1>2, <2>3 DEF TasksInv, TaskTypes, TaskRow
  <2>. QED
    BY <2>3, <2>4 DEF TasksInv, TaskTypes
<1>. HIDE DEF k
<1>4. TaskTypes'
  BY <1>1, <1>3 DEF TasksInv, TaskTypes
<1>5. FlowShapes'
  BY <1>1 DEF TasksInv, FlowShapes
<1>6. \A g \in Flow, j \in Key : Works(g, j)' => Works(g, j) /\ g # f
  BY <1>1 DEF Works, HoldPC
<1>7. OneWorks'
  BY <1>6 DEF TasksInv, OneWorks
<1>8. WorkedRow'
  <2>1. ASSUME NEW g \in Flow, Works(g, k), g # f PROVE status = "needs_review"
    <3>1. flow[f].pc # "finish"
      BY <1>2, <2>1 DEF TasksInv, OneWorks, Works, HoldPC, k
    <3>. QED
      BY <3>1
  <2>. QED
    BY <1>3, <1>6, <2>1 DEF TasksInv, WorkedRow
<1>9. FulfilledRow'
  <2>1. k \in fulfilled => status # "failed"
    BY <1>2 DEF TasksInv, FulfilledFlow, Succeeded, HoldPC, k
  <2>. QED
    BY <1>3, <2>1 DEF TasksInv, FulfilledRow
<1>10. FulfilledFlow'
  BY <1>1 DEF TasksInv, FulfilledFlow, HoldPC
<1>11. RunningAccounted'
  <2>1. ASSUME NEW j \in Key, tasks'[j].status = "running", j \notin abandoned
        PROVE  \E g \in Flow : HoldsTask(g, j)'
    <3>1. j # k /\ tasks[j].status = "running"
      BY <1>3, <2>1
    <3>2. PICK g \in Flow : HoldsTask(g, j)
      BY <2>1, <3>1 DEF TasksInv, RunningAccounted
    <3>3. g # f
      BY <3>1, <3>2 DEF HoldsTask, k
    <3>. QED
      BY <1>1, <3>2, <3>3 DEF HoldsTask
  <2>. QED
    BY <2>1 DEF RunningAccounted
<1>12. PolishDated'
  <2>1. Polish \in Key
    BY DEF Key
  <2>2. k = Polish /\ status = "success" => polishedToday
    BY DEF TasksInv, PolishDated, k
  <2>3. PolishMarked'
    BY <1>3, <2>1, <2>2 DEF TasksInv, PolishDated, PolishMarked
  <2>. QED
    BY <1>1, <2>3 DEF TasksInv, PolishDated, HoldPC
<1>. QED
  BY <1>4, <1>5, <1>7, <1>8, <1>9, <1>10, <1>11, <1>12 DEF TasksInv, NothingRepeated, LoginStays

------------------------------------------------------------------------------
\* What a step of an execution may use of the invariant.
LEMMA FlowFacts ==
    ASSUME TasksInv, NEW f \in Flow
    PROVE  /\ flow[f] \in FlowRec /\ Shape(flow[f]) /\ flow[f].before <= cookie /\ flow[f].before \in Nat
           /\ cookie \in Nat \ {0} /\ expiredCookie \in 0 .. cookie /\ polishedToday \in BOOLEAN
           /\ repeated = {} /\ replaced = {} /\ flow[f].key \in Key
  BY DEF TasksInv, TaskTypes, FlowShapes, NothingRepeated, LoginStays, FlowRec

\* The execution goes to a place where it holds no key, from one where it held none.
LEMMA UnheldKept ==
    ASSUME TasksInv, NEW f \in Flow, NEW new \in FlowRec, Step(f, new), Shape(new), new.before <= cookie,
           flow[f].pc \notin HoldPC, new.pc \notin HoldPC, expiredCookie' \in 0 .. cookie,
           UNCHANGED <<enabled, completed, tasks, abandoned, cookie, polishedToday, fulfilled, repeated,
                       replaced>>
    PROVE  TasksInv'
<1>1. /\ cookie \in Nat \ {0} /\ polishedToday \in BOOLEAN /\ repeated = {} /\ replaced = {}
  BY FlowFacts
<1>. QED
  BY <1>1, OnwardKept DEF HoldPC

LEMMA StartScanKept == ASSUME TasksInv, StartScan, UNCHANGED enabled PROVE TasksInv'
<1>. DEFINE due == "polish" \in enabled /\ ~polishedToday
            task == IF "rate" \in enabled THEN "rate" ELSE "polish"
            new == [Idle EXCEPT !.pc = "gate", !.task = task, !.due = due]
<1>1. "scan" \in Flow /\ due \in BOOLEAN /\ task \in {"rate", "polish"}
  BY DEF Flow
<1>2. /\ flow["scan"].pc = "idle" /\ Step("scan", new)
      /\ UNCHANGED <<completed, tasks, cookie, expiredCookie, polishedToday, fulfilled, repeated, abandoned,
                     replaced>>
  BY DEF StartScan
<1>. HIDE DEF due, task
<1>3. new \in FlowRec /\ new.pc = "gate" /\ new.left = <<>> /\ ~new.bad /\ new.before = 0
  BY <1>1, IdleOK DEF FlowRec, HoldPC
<1>. HIDE DEF new
<1>4. Shape(new) /\ new.pc \notin HoldPC
  BY <1>3 DEF Shape, HoldPC
<1>. QED
  BY <1>1, <1>2, <1>3, <1>4, FlowFacts, UnheldKept DEF HoldPC

LEMMA StartManualKept ==
    ASSUME TasksInv, NEW f \in Manual, NEW task \in enabled, StartManual(f, task), UNCHANGED enabled
    PROVE  TasksInv'
<1>. DEFINE new == [Idle EXCEPT !.pc = "gate", !.task = task]
<1>1. f \in Flow /\ task \in {"rate", "polish"}
  BY DEF Flow, TasksInv, TaskTypes
<1>2. /\ flow[f].pc = "idle" /\ Step(f, new)
      /\ UNCHANGED <<completed, tasks, cookie, expiredCookie, polishedToday, fulfilled, repeated, abandoned,
                     replaced>>
  BY DEF StartManual
<1>3. new \in FlowRec /\ new.pc = "gate" /\ new.left = <<>> /\ ~new.bad /\ new.before = 0
  BY <1>1, IdleOK DEF FlowRec, HoldPC
<1>. HIDE DEF new
<1>4. Shape(new) /\ new.pc \notin HoldPC
  BY <1>3 DEF Shape, HoldPC
<1>. QED
  BY <1>1, <1>2, <1>3, <1>4, FlowFacts, UnheldKept DEF HoldPC

LEMMA PassGateKept == ASSUME TasksInv, NEW f \in Flow, PassGate(f), UNCHANGED enabled PROVE TasksInv'
<1>1. /\ flow[f].pc = "gate"
      /\ UNCHANGED <<completed, tasks, cookie, polishedToday, fulfilled, repeated, abandoned, replaced>>
  BY DEF PassGate
<1>2. flow[f].pc \notin HoldPC
  BY <1>1 DEF HoldPC
<1>3. CASE Blocked
  <2>1. Step(f, Idle) /\ UNCHANGED expiredCookie
    BY <1>3 DEF PassGate
  <2>. QED
    BY <1>1, <1>2, <2>1, IdleOK, FlowFacts, UnheldKept DEF HoldPC
<1>4. CASE ~Blocked /\ flow[f].task = "rate"
  <2>. DEFINE new == [flow[f] EXCEPT !.pc = "list", !.key = Polish]
  <2>1. Step(f, new) /\ expiredCookie' = 0
    BY <1>4 DEF PassGate
  <2>a. flow[f] \in FlowRec /\ ~flow[f].bad /\ Polish \in Key
    BY <1>1, FlowFacts DEF Shape, Key
  <2>2. /\ new \in FlowRec /\ new.pc = "list" /\ ~new.bad /\ new.before = flow[f].before /\ new.task = "rate"
    BY <1>4, <2>a DEF FlowRec, HoldPC
  <2>. HIDE DEF new
  <2>3. Shape(new) /\ new.pc \notin HoldPC
    BY <2>2 DEF Shape, HoldPC
  <2>. QED
    BY <1>1, <1>2, <2>1, <2>2, <2>3, FlowFacts, UnheldKept
<1>5. CASE ~Blocked /\ flow[f].task # "rate"
  <2>. DEFINE new == [flow[f] EXCEPT !.pc = "claim", !.key = Polish]
  <2>1. Step(f, new) /\ expiredCookie' = 0
    BY <1>5 DEF PassGate
  <2>2. flow[f].task = "polish" /\ ~flow[f].bad /\ flow[f].left = <<>>
    BY <1>1, <1>5, FlowFacts DEF FlowRec, Shape
  <2>a. flow[f] \in FlowRec
    BY FlowFacts
  <2>b. Polish \in Key
    BY DEF Key
  <2>c. new \in FlowRec
    BY <2>a, <2>b, FlowSet
  <2>3. /\ new \in FlowRec /\ new.pc = "claim" /\ ~new.bad /\ new.before = flow[f].before
        /\ new.task = "polish" /\ new.left = <<>>
    BY <2>2, <2>a, <2>c DEF FlowRec
  <2>. HIDE DEF new
  <2>4. Shape(new) /\ new.pc \notin HoldPC
    BY <2>3 DEF Shape, HoldPC
  <2>. QED
    BY <1>1, <1>2, <2>1, <2>3, <2>4, FlowFacts, UnheldKept
<1>. QED
  BY <1>3, <1>4, <1>5

LEMMA DueListOK == ASSUME TasksInv PROVE DueList \in Seq(RateKey)
<1>. DEFINE n == IF completed < DueLimit THEN completed ELSE DueLimit
<1>1. n \in Nat /\ n <= MaxOrders
  BY TaskBounds DEF TasksInv, TaskTypes
<1>2. DueList = [i \in 1 .. n |-> i]
  BY DEF DueList
<1>. HIDE DEF n
<1>3. \A i \in 1 .. n : i \in RateKey
  BY <1>1, TaskBounds DEF RateKey
<1>. QED
  BY <1>1, <1>2, <1>3

LEMMA ReadDueKept == ASSUME TasksInv, NEW f \in Flow, ReadDue(f), UNCHANGED enabled PROVE TasksInv'
<1>1. /\ flow[f].pc = "list"
      /\ UNCHANGED <<completed, tasks, cookie, expiredCookie, polishedToday, fulfilled, repeated, abandoned,
                     replaced>>
  BY DEF ReadDue
<1>2. flow[f].pc \notin HoldPC
  BY <1>1 DEF HoldPC
<1>3. CASE DueList = <<>>
  <2>1. Step(f, Continue(f))
    BY <1>3 DEF ReadDue
  <2>. QED
    BY <1>1, <1>2, <2>1, ContinueOK, FlowFacts, UnheldKept DEF HoldPC
<1>4. CASE DueList # <<>> /\ flow[f].task = "rate"
  <2>. DEFINE new == [flow[f] EXCEPT !.pc = "claim", !.left = DueList, !.before = cookie]
  <2>1. Step(f, new) /\ DueList \in Seq(RateKey)
    BY <1>4, DueListOK DEF ReadDue
  <2>a. flow[f] \in FlowRec /\ ~flow[f].bad /\ cookie \in Nat /\ cookie # 0
    BY <1>1, FlowFacts DEF Shape
  <2>b. /\ new.pc = "claim" /\ new.bad = flow[f].bad /\ new.before = cookie /\ new.task = flow[f].task
        /\ new.left = DueList
    BY <2>a DEF FlowRec
  <2>c. new \in FlowRec
    BY <2>1, <2>a, FlowSet DEF KeyList
  <2>2. /\ new \in FlowRec /\ new.pc = "claim" /\ ~new.bad /\ new.before = cookie /\ new.task = "rate"
        /\ new.left # <<>> /\ cookie # 0
    BY <1>4, <2>a, <2>b, <2>c
  <2>. HIDE DEF new
  <2>3. Shape(new) /\ new.pc \notin HoldPC
    BY <2>2 DEF Shape, HoldPC
  <2>. QED
    BY <1>1, <1>2, <2>1, <2>2, <2>3, FlowFacts, UnheldKept
<1>5. flow[f].task = "rate"
  BY <1>1, FlowFacts DEF Shape
<1>. QED
  BY <1>3, <1>4, <1>5

LEMMA ClaimFailsKept == ASSUME TasksInv, NEW f \in Flow, ClaimFails(f), UNCHANGED enabled PROVE TasksInv'
<1>1. /\ flow[f].pc = "claim" /\ Step(f, Returned(f))
      /\ UNCHANGED <<completed, tasks, cookie, expiredCookie, polishedToday, fulfilled, repeated, abandoned,
                     replaced>>
  BY DEF ClaimFails
<1>. QED
  BY <1>1, ReturnedOK, FlowFacts, UnheldKept DEF HoldPC

LEMMA BlockCookieKept == ASSUME TasksInv, NEW f \in Flow, BlockCookie(f), UNCHANGED enabled PROVE TasksInv'
<1>. DEFINE new == [flow[f] EXCEPT !.pc = "renew"]
<1>1. /\ flow[f].pc = "block" /\ Step(f, new) /\ expiredCookie' = cookie
      /\ UNCHANGED <<completed, tasks, cookie, polishedToday, fulfilled, repeated, abandoned, replaced>>
  BY DEF BlockCookie
<1>2. /\ new \in FlowRec /\ new.pc = "renew" /\ new.before = flow[f].before /\ new.task = flow[f].task
      /\ new.left = flow[f].left
  BY FlowFacts DEF FlowRec, HoldPC
<1>. HIDE DEF new
<1>3. Shape(new) /\ new.pc \notin HoldPC
  BY <1>2, FlowFacts DEF Shape, HoldPC
<1>. QED
  BY <1>1, <1>2, <1>3, FlowFacts, UnheldKept DEF HoldPC

LEMMA RenewCookieKept == ASSUME TasksInv, NEW f \in Flow, RenewCookie(f), UNCHANGED enabled PROVE TasksInv'
<1>1. /\ flow[f].pc = "renew" /\ Step(f, Continue(f)) /\ cookie' \in {cookie, Newest}
      /\ expiredCookie' \in {0, expiredCookie}
      /\ UNCHANGED <<completed, tasks, polishedToday, fulfilled, repeated, abandoned, replaced>>
  BY DEF RenewCookie
<1>2. cookie' \in Nat \ {0} /\ cookie <= cookie' /\ expiredCookie' \in 0 .. cookie'
  BY <1>1, FlowFacts DEF Newest
<1>3. Continue(f).before <= cookie' /\ Continue(f).pc \notin HoldPC /\ flow[f].pc \notin HoldPC
  BY <1>1, <1>2, ContinueOK, FlowFacts DEF HoldPC
<1>. QED
  BY <1>1, <1>2, <1>3, ContinueOK, FlowFacts, OnwardKept DEF HoldPC

\* A call of a key in its place: nobody had its complete success before.
LEMMA CallingKept ==
    ASSUME TasksInv, NEW f \in Flow, flow[f].pc \in {"call", "fetch", "item"}, NEW new \in FlowRec, Step(f, new),
           new.pc = "save", new.key = flow[f].key, new.before = flow[f].before, new.task = flow[f].task,
           new.left = flow[f].left,
           fulfilled' = fulfilled \/ (fulfilled' = fulfilled \cup {flow[f].key} /\ Succeeded(new)),
           Called(flow[f].key),
           UNCHANGED <<enabled, completed, tasks, cookie, expiredCookie, polishedToday, abandoned, replaced>>
    PROVE  TasksInv'
<1>1. flow[f].key \notin fulfilled
  BY FlowFacts DEF TasksInv, FulfilledFlow, Succeeded, HoldPC
<1>2. repeated' = {}
  BY <1>1, FlowFacts DEF Called
<1>3. Shape(new)
  BY FlowFacts DEF Shape, HoldPC
<1>4. /\ flow[f].pc \in HoldPC \ {"review"} /\ new.pc \in HoldPC
      /\ new.key \in fulfilled' => Succeeded(new)
  BY <1>1 DEF HoldPC
<1>. QED
  BY <1>2, <1>3, <1>4, FlowFacts, OnwardKept

LEMMA RateBuyerKept == ASSUME TasksInv, NEW f \in Flow, RateBuyer(f), UNCHANGED enabled PROVE TasksInv'
<1>1. PICK verdict \in {"ok", "refused", "too_late", "session", "token"}, moved \in MayMove :
        /\ Step(f, [flow[f] EXCEPT !.pc = "save", !.verdict = verdict, !.moved = @ \/ moved])
        /\ fulfilled' = IF verdict = "ok" THEN fulfilled \cup {flow[f].key} ELSE fulfilled
  BY ZenonT(20) DEF RateBuyer
<1>2. /\ flow[f].pc = "call" /\ Called(flow[f].key)
      /\ UNCHANGED <<completed, tasks, cookie, expiredCookie, polishedToday, abandoned, replaced>>
  BY DEF RateBuyer
<1>. DEFINE sum == flow[f].moved \/ moved
            new == [flow[f] EXCEPT !.pc = "save", !.verdict = verdict, !.moved = sum]
<1>3. sum \in BOOLEAN /\ Step(f, new)
  BY <1>1
<1>a. verdict \in {"ok", "refused", "too_late", "session", "token"}
  BY <1>1
<1>. HIDE DEF sum
<1>4. /\ new \in FlowRec /\ new.pc = "save" /\ new.key = flow[f].key /\ new.before = flow[f].before
      /\ new.task = flow[f].task /\ new.left = flow[f].left /\ new.verdict = verdict
  <2>1. flow[f] \in FlowRec
    BY FlowFacts
  <2>2. new \in FlowRec
    BY <1>3, <1>a, <2>1, FlowSet
  <2>. QED
    BY <2>1, <2>2 DEF FlowRec
<1>. HIDE DEF new
<1>5. verdict = "ok" => Succeeded(new)
  BY <1>2, <1>4, FlowFacts DEF Succeeded, Shape
<1>. QED
  BY <1>1, <1>2, <1>3, <1>4, <1>5, CallingKept

LEMMA FetchAllItemsKept == ASSUME TasksInv, NEW f \in Flow, FetchAllItems(f), UNCHANGED enabled PROVE TasksInv'
<1>1. PICK n \in {0, MaxItems}, verdict \in {"listed", "refused", "session"}, moved \in MayMove :
        /\ Step(f, [flow[f] EXCEPT !.pc = "save", !.verdict = verdict, !.items = n, !.moved = @ \/ moved])
        /\ fulfilled' = IF verdict = "listed" /\ n = 0 THEN fulfilled \cup {Polish} ELSE fulfilled
  BY DEF FetchAllItems
<1>2. /\ flow[f].pc = "fetch" /\ Called(Polish)
      /\ UNCHANGED <<completed, tasks, cookie, expiredCookie, polishedToday, abandoned, replaced>>
  BY DEF FetchAllItems
<1>. DEFINE sum == flow[f].moved \/ moved
            new == [flow[f] EXCEPT !.pc = "save", !.verdict = verdict, !.items = n, !.moved = sum]
<1>3. sum \in BOOLEAN /\ Step(f, new) /\ n \in Nat
  BY <1>1, TaskBounds
<1>a. verdict \in {"listed", "refused", "session"}
  BY <1>1
<1>. HIDE DEF sum
<1>. HIDE DEF new
<1>4. /\ new \in FlowRec /\ new.pc = "save" /\ new.key = flow[f].key /\ new.before = flow[f].before
      /\ new.task = flow[f].task /\ new.left = flow[f].left /\ new.verdict = verdict /\ new.items = n
      /\ new.bad = flow[f].bad
  <2>. DEFINE mid == [flow[f] EXCEPT !.pc = "save", !.verdict = verdict, !.items = n]
  <2>a. n \in Nat /\ flow[f] \in FlowRec
    BY <1>3, FlowFacts
  <2>b. verdict \in {"none", "ok", "listed", "refused", "too_late", "session", "token"}
    BY <1>a
  <2>1. mid \in FlowRec
    BY <2>a, <2>b DEF FlowRec, HoldPC
  <2>2. new = [mid EXCEPT !.moved = sum]
    BY DEF new
  <2>3. /\ mid.pc = "save" /\ mid.key = flow[f].key /\ mid.before = flow[f].before /\ mid.task = flow[f].task
        /\ mid.left = flow[f].left /\ mid.verdict = verdict /\ mid.items = n /\ mid.bad = flow[f].bad
    BY <2>a DEF FlowRec
  <2>. HIDE DEF mid
  <2>. QED
    BY <1>3, <2>1, <2>2, <2>3 DEF FlowRec
<1>5. flow[f].key = Polish /\ flow[f].task = "polish" /\ ~flow[f].bad
  BY <1>2, FlowFacts DEF Shape, HoldPC
<1>6. verdict = "listed" /\ n = 0 => Succeeded(new)
  BY <1>4, <1>5 DEF Succeeded
<1>. QED
  BY <1>1, <1>2, <1>3, <1>4, <1>5, <1>6, CallingKept

LEMMA PolishItemKept == ASSUME TasksInv, NEW f \in Flow, PolishItem(f), UNCHANGED enabled PROVE TasksInv'
<1>1. PICK verdict \in {"ok", "refused", "session", "token"}, moved \in MayMove :
        /\ Step(f, [flow[f] EXCEPT !.pc = "save", !.verdict = verdict, !.items = @ - 1,
                                   !.bad = @ \/ verdict # "ok", !.moved = @ \/ moved])
        /\ fulfilled' = IF verdict = "ok" /\ flow[f].items = 1 /\ ~flow[f].bad
                        THEN fulfilled \cup {Polish} ELSE fulfilled
  BY DEF PolishItem
<1>2. /\ flow[f].pc = "item" /\ Called(Polish)
      /\ UNCHANGED <<completed, tasks, cookie, expiredCookie, polishedToday, abandoned, replaced>>
  BY DEF PolishItem
<1>. DEFINE sum == flow[f].moved \/ moved
            wrong == flow[f].bad \/ verdict # "ok"
            n == flow[f].items - 1
            new == [flow[f] EXCEPT !.pc = "save", !.verdict = verdict, !.items = n, !.bad = wrong, !.moved = sum]
<1>3. sum \in BOOLEAN /\ wrong \in BOOLEAN /\ Step(f, new)
  BY <1>1
<1>4. n \in Nat /\ flow[f].key = Polish /\ flow[f].task = "polish" /\ (flow[f].items = 1 => n = 0)
  BY <1>2, FlowFacts DEF Shape, HoldPC, FlowRec
<1>a. verdict \in {"ok", "refused", "session", "token"}
  BY <1>1
<1>. HIDE DEF sum, n
<1>5. verdict = "ok" /\ ~flow[f].bad => ~wrong
  OBVIOUS
<1>. HIDE DEF wrong
<1>b. wrong \in BOOLEAN /\ sum \in BOOLEAN /\ n \in Nat
  BY <1>3, <1>4
<1>. HIDE DEF new
<1>c. new \in FlowRec
  <2>. DEFINE mid == [flow[f] EXCEPT !.pc = "save", !.verdict = verdict, !.items = n]
  <2>a. n \in Nat /\ flow[f] \in FlowRec
    BY <1>b, FlowFacts
  <2>b. verdict \in {"none", "ok", "listed", "refused", "too_late", "session", "token"}
    BY <1>a
  <2>1. mid \in FlowRec
    BY <2>a, <2>b DEF FlowRec, HoldPC
  <2>2. new = [mid EXCEPT !.bad = wrong, !.moved = sum]
    BY DEF new
  <2>. HIDE DEF mid
  <2>. QED
    BY <1>b, <2>1, <2>2 DEF FlowRec
<1>6. /\ new \in FlowRec /\ new.pc = "save" /\ new.key = flow[f].key /\ new.before = flow[f].before
      /\ new.task = flow[f].task /\ new.left = flow[f].left /\ new.verdict = verdict /\ new.items = n
      /\ new.bad = wrong
  BY <1>c, FlowFacts DEF FlowRec, HoldPC, new
<1>7. verdict = "ok" /\ flow[f].items = 1 /\ ~flow[f].bad => Succeeded(new)
  BY <1>4, <1>5, <1>6 DEF Succeeded
<1>. QED
  BY <1>1, <1>2, <1>3, <1>4, <1>6, <1>7, CallingKept

\* After the answer the execution goes on with its key; a complete success is
\* kept, and the date of the polishing was written before its success.
LEMMA AnswerKept ==
    ASSUME TasksInv, NEW f \in Flow, flow[f].pc \in {"save", "mark"}, NEW new \in FlowRec, Step(f, new), Shape(new),
           new.pc \in {"item", "finish", "mark", "review"}, new.key = flow[f].key, new.before <= cookie',
           Succeeded(flow[f]) => new.pc = "review" \/ Succeeded(new),
           new.pc = "finish" /\ new.result = "success" => flow[f].key # Polish \/ polishedToday',
           cookie' \in Nat \ {0}, cookie <= cookie', polishedToday' \in BOOLEAN, polishedToday => polishedToday',
           replaced' = {},
           UNCHANGED <<enabled, completed, tasks, expiredCookie, fulfilled, repeated, abandoned>>
    PROVE  TasksInv'
<1>1. flow[f].pc \in HoldPC \ {"review"} /\ new.pc \in HoldPC /\ expiredCookie' \in 0 .. cookie'
  BY FlowFacts DEF HoldPC
<1>2. flow[f].key \in fulfilled => Succeeded(flow[f])
  BY <1>1 DEF TasksInv, FulfilledFlow
<1>. QED
  BY <1>1, <1>2, FlowFacts, OnwardKept

LEMMA SaveCookieKept == ASSUME TasksInv, NEW f \in Flow, SaveCookie(f), UNCHANGED enabled PROVE TasksInv'
<1>1. /\ flow[f].pc = "save"
      /\ UNCHANGED <<completed, tasks, expiredCookie, polishedToday, fulfilled, repeated, abandoned>>
  BY DEF SaveCookie
<1>2. CASE ~flow[f].moved \/ ~CookieUntouched(f)
  <2>1. PICK saved \in BOOLEAN : Step(f, Answered(f, saved)) /\ UNCHANGED <<cookie, replaced>>
    BY <1>2 DEF SaveCookie
  <2>. QED
    BY <1>1, <2>1, AnsweredOK, FlowFacts, AnswerKept
<1>3. CASE flow[f].moved /\ CookieUntouched(f)
  <2>. DEFINE answer == Answered(f, TRUE)
              new == [answer EXCEPT !.before = Newest]
  <2>1. cookie' = Newest /\ Step(f, new) /\ replaced' = replaced
    BY <1>3 DEF SaveCookie, CookieUntouched
  <2>2. /\ answer \in FlowRec /\ Shape(answer) /\ answer.pc \in {"item", "finish", "mark", "review"}
        /\ answer.key = flow[f].key /\ (Succeeded(flow[f]) => answer.pc = "review" \/ Succeeded(answer))
        /\ answer.pc = "finish" /\ answer.result = "success" => flow[f].key # Polish
    BY <1>1, AnsweredOK, FlowFacts
  <2>. HIDE DEF answer
  <2>3. Newest \in Nat \ {0} /\ cookie <= Newest
    BY FlowFacts DEF Newest
  <2>4. /\ new \in FlowRec /\ new.before = Newest /\ new.pc = answer.pc /\ new.key = answer.key
        /\ new.task = answer.task /\ new.left = answer.left /\ new.bad = answer.bad /\ new.items = answer.items
        /\ new.result = answer.result /\ new.verdict = answer.verdict
    BY <2>2, <2>3 DEF FlowRec
  <2>. HIDE DEF new
  <2>5. Shape(new) /\ (Succeeded(answer) => Succeeded(new))
    BY <2>2, <2>3, <2>4 DEF Shape, Succeeded
  <2>. QED
    BY <1>1, <2>1, <2>2, <2>3, <2>4, <2>5, FlowFacts, AnswerKept
<1>. QED
  BY <1>2, <1>3

LEMMA SaveFailsKept == ASSUME TasksInv, NEW f \in Flow, SaveFails(f), UNCHANGED enabled PROVE TasksInv'
<1>1. PICK saved \in BOOLEAN : Step(f, Answered(f, saved))
  BY DEF SaveFails
<1>2. /\ flow[f].pc = "save"
      /\ UNCHANGED <<completed, tasks, cookie, expiredCookie, polishedToday, fulfilled, repeated, abandoned,
                     replaced>>
  BY DEF SaveFails
<1>. QED
  BY <1>1, <1>2, AnsweredOK, FlowFacts, AnswerKept

LEMMA MarkPolishedKept == ASSUME TasksInv, NEW f \in Flow, MarkPolished(f), UNCHANGED enabled PROVE TasksInv'
<1>1. /\ flow[f].pc = "mark"
      /\ UNCHANGED <<completed, tasks, cookie, expiredCookie, fulfilled, repeated, abandoned, replaced>>
  BY DEF MarkPolished
<1>2. CASE polishedToday' = TRUE /\ Step(f, Settle(f, "success", "now"))
  <2>. DEFINE new == Settle(f, "success", "now")
  <2>1. /\ new \in FlowRec /\ Shape(new) /\ new.pc = "finish" /\ new.result = "success"
        /\ new.key = flow[f].key /\ new.before = flow[f].before
    BY <1>1, SettleOK, FlowFacts
  <2>. HIDE DEF new
  <2>2. Succeeded(new)
    BY <2>1 DEF Succeeded
  <2>3. Step(f, new)
    BY <1>2 DEF new
  <2>. QED
    BY <1>1, <1>2, <2>1, <2>2, <2>3, FlowFacts, AnswerKept
<1>3. CASE Step(f, Review(f)) /\ UNCHANGED polishedToday
  BY <1>1, <1>3, ReviewOK, FlowFacts, AnswerKept
<1>. QED
  BY <1>2, <1>3 DEF MarkPolished

LEMMA FinishTaskKept == ASSUME TasksInv, NEW f \in Flow, FinishTask(f), UNCHANGED enabled PROVE TasksInv'
<1>1. /\ flow[f].pc = "finish" /\ tasks' = Written(flow[f].key, flow[f].result, flow[f].retry)
      /\ Step(f, After(f))
      /\ UNCHANGED <<completed, cookie, expiredCookie, polishedToday, fulfilled, repeated, abandoned, replaced>>
  BY DEF FinishTask
<1>2. flow[f].result \in {"success", "failed"} /\ flow[f].retry \in {"now", "later", "never"}
  BY <1>1, FlowFacts DEF Shape, FlowRec
<1>3. After(f).before <= cookie /\ After(f).pc \notin HoldPC
  BY <1>1, AfterOK, FlowFacts DEF HoldPC
<1>. QED
  BY <1>1, <1>2, <1>3, AfterOK, FlowFacts, RowWrittenKept

LEMMA FinishFailsKept == ASSUME TasksInv, NEW f \in Flow, FinishFails(f), UNCHANGED enabled PROVE TasksInv'
<1>. DEFINE new == [flow[f] EXCEPT !.pc = "review", !.left = <<>>]
<1>1. /\ flow[f].pc = "finish" /\ Step(f, new)
      /\ UNCHANGED <<completed, cookie, expiredCookie, polishedToday, fulfilled, repeated, abandoned, replaced>>
  BY DEF FinishFails
<1>a. <<>> \in Seq(RateKey)
  OBVIOUS
<1>2. /\ new \in FlowRec /\ new.pc = "review" /\ new.key = flow[f].key /\ new.before = flow[f].before
      /\ new.task = flow[f].task /\ new.left = <<>>
  <2>1. flow[f] \in FlowRec
    BY FlowFacts
  <2>2. new \in FlowRec
    BY <1>a, <2>1, FlowSet
  <2>. QED
    BY <2>1, <2>2 DEF FlowRec
<1>. HIDE DEF new
<1>3. Shape(new)
  BY <1>1, <1>2, FlowFacts DEF Shape, HoldPC
<1>4. CASE UNCHANGED tasks
  BY <1>1, <1>2, <1>3, <1>4, FlowFacts, OnwardKept DEF HoldPC
<1>5. CASE tasks' = Written(flow[f].key, flow[f].result, flow[f].retry)
  <2>1. flow[f].result \in {"success", "failed"} /\ flow[f].retry \in {"now", "later", "never"}
    BY <1>1, FlowFacts DEF Shape, FlowRec
  <2>. QED
    BY <1>1, <1>2, <1>3, <1>5, <2>1, FlowFacts, RowWrittenKept
<1>. QED
  BY <1>4, <1>5 DEF FinishFails

LEMMA QuarantineTaskKept == ASSUME TasksInv, NEW f \in Flow, QuarantineTask(f), UNCHANGED enabled PROVE TasksInv'
<1>1. /\ flow[f].pc = "review" /\ Step(f, Returned(f))
      /\ UNCHANGED <<completed, cookie, expiredCookie, polishedToday, fulfilled, repeated, replaced>>
  BY DEF QuarantineTask
<1>2. /\ Returned(f) \in FlowRec /\ Shape(Returned(f)) /\ Returned(f).pc \notin HoldPC /\ Returned(f).before <= cookie
  BY ReturnedOK, FlowFacts DEF HoldPC
<1>3. CASE tasks' = Written(flow[f].key, "needs_review", "now") /\ UNCHANGED abandoned
  BY <1>1, <1>2, <1>3, FlowFacts, RowWrittenKept
<1>4. CASE abandoned' = abandoned \cup {flow[f].key} /\ UNCHANGED tasks
  <2>1. abandoned \subseteq abandoned' /\ flow[f].key \in abandoned' /\ UNCHANGED tasks
    BY <1>4
  <2>2. cookie \in Nat \ {0} /\ cookie <= cookie /\ polishedToday \in BOOLEAN /\ repeated = {} /\ replaced = {}
    BY FlowFacts
  <2>3. expiredCookie \in 0 .. cookie
    BY FlowFacts
  <2>. QED
    BY <1>1, <1>2, <2>1, <2>2, <2>3, OnwardKept DEF HoldPC
<1>. QED
  BY <1>3, <1>4 DEF QuarantineTask

\* A claim takes a key whose row nobody works on.
LEMMA ClaimRunKept == ASSUME TasksInv, NEW f \in Flow, ClaimRun(f), UNCHANGED enabled PROVE TasksInv'
<1>. DEFINE k == NextKey(f)
<1>1. /\ flow[f].pc = "claim"
      /\ UNCHANGED <<completed, cookie, expiredCookie, polishedToday, fulfilled, repeated, abandoned, replaced>>
  BY DEF ClaimRun
<1>2. CASE ~Claimable(k, Immediately(f))
  <2>1. Step(f, After(f)) /\ UNCHANGED tasks
    BY <1>2 DEF ClaimRun
  <2>2. After(f).before <= cookie /\ After(f).pc \notin HoldPC /\ flow[f].pc \notin HoldPC
    BY <1>1, AfterOK, FlowFacts DEF HoldPC
  <2>. QED
    BY <1>1, <2>1, <2>2, AfterOK, FlowFacts, UnheldKept
<1>3. CASE Claimable(k, Immediately(f))
  <2>1. /\ k \in Key /\ (flow[f].task = "rate" <=> k # Polish) /\ flow[f].task \in {"rate", "polish"}
    <3>1. CASE flow[f].task = "rate"
      <4>1. flow[f].left \in Seq(RateKey) /\ flow[f].left # <<>> /\ k = Head(flow[f].left)
        BY <1>1, <3>1, FlowFacts DEF Shape, FlowRec, NextKey
      <4>2. k \in RateKey
        BY <4>1
      <4>. QED
        BY <3>1, <4>2 DEF RateKey, Key, Polish
    <3>2. CASE flow[f].task # "rate"
      BY <3>2, FlowFacts DEF FlowRec, NextKey, Key
    <3>. QED
      BY <3>1, <3>2
  <2>2. /\ tasks' = [tasks EXCEPT ![k].status = "running", ![k].attempts = @ + 1]
        /\ Step(f, IF flow[f].task = "rate" THEN [flow[f] EXCEPT !.pc = "call", !.key = k]
                   ELSE [flow[f] EXCEPT !.pc = "fetch", !.key = k, !.before = cookie])
    BY <1>3 DEF ClaimRun
  <2>3. tasks[k].status \in {"absent", "failed"} /\ tasks[k].attempts < MaxAttempts
    BY <1>3, <2>1, TaskBounds DEF Claimable, TasksInv, TaskTypes
  <2>4. PICK new \in FlowRec :
          /\ Step(f, new) /\ Shape(new) /\ new.before <= cookie /\ new.pc \in {"call", "fetch"} /\ new.key = k
    <3>1. CASE flow[f].task = "rate"
      <4>. DEFINE new == [flow[f] EXCEPT !.pc = "call", !.key = k]
      <4>1. Step(f, new)
        BY <2>2, <3>1
      <4>. HIDE DEF k
      <4>2. /\ new \in FlowRec /\ new.pc = "call" /\ new.key = k /\ new.before = flow[f].before
            /\ new.task = "rate" /\ new.bad = flow[f].bad
        <5>1. flow[f] \in FlowRec /\ k \in Key
          BY <2>1, FlowFacts
        <5>2. new \in FlowRec
          BY <5>1, FlowSet
        <5>. QED
          BY <2>1, <3>1, <5>1, <5>2 DEF FlowRec
      <4>. HIDE DEF new
      <4>3. Shape(new)
        BY <1>1, <2>1, <3>1, <4>2, FlowFacts DEF Shape, HoldPC
      <4>. QED
        BY <4>1, <4>2, <4>3, FlowFacts
    <3>2. CASE flow[f].task # "rate"
      <4>. DEFINE new == [flow[f] EXCEPT !.pc = "fetch", !.key = k, !.before = cookie]
      <4>1. Step(f, new)
        BY <2>2, <3>2
      <4>. HIDE DEF k
      <4>2. /\ new \in FlowRec /\ new.pc = "fetch" /\ new.key = k /\ new.before = cookie
            /\ new.task = "polish" /\ new.bad = flow[f].bad /\ new.left = flow[f].left
        <5>1. flow[f] \in FlowRec /\ k \in Key /\ cookie \in Nat
          BY <2>1, FlowFacts
        <5>2. new \in FlowRec
          BY <5>1, FlowSet
        <5>. QED
          BY <2>1, <3>2, <5>1, <5>2 DEF FlowRec
      <4>. HIDE DEF new
      <4>3. Shape(new) /\ cookie <= cookie
        BY <1>1, <2>1, <3>2, <4>2, FlowFacts DEF Shape, HoldPC
      <4>. QED
        BY <4>1, <4>2, <4>3
    <3>. QED
      BY <3>1, <3>2
  <2>. HIDE DEF k
  <2>5. /\ flow' \in [Flow -> FlowRec] /\ flow'[f] = new /\ \A g \in Flow : g # f => flow'[g] = flow[g]
    BY <2>4 DEF TasksInv, TaskTypes, Step
  <2>6. /\ tasks' \in [Key -> TaskRow] /\ tasks'[k].status = "running"
        /\ \A j \in Key : j # k => tasks'[j] = tasks[j]
    <3>1. tasks[k] \in TaskRow /\ tasks[k].attempts + 1 \in 0 .. MaxAttempts
      BY <2>1, <2>3, TaskBounds DEF TasksInv, TaskTypes, TaskRow
    <3>. DEFINE row == [tasks[k] EXCEPT !.status = "running", !.attempts = @ + 1]
    <3>2. row \in TaskRow /\ row.status = "running"
      BY <3>1 DEF TaskRow
    <3>3. tasks' = [tasks EXCEPT ![k] = row]
      BY <2>1, <2>2 DEF TasksInv, TaskTypes
    <3>. HIDE DEF row
    <3>. QED
      BY <2>1, <3>2, <3>3 DEF TasksInv, TaskTypes
  <2>7. TaskTypes'
    BY <1>1, <2>5, <2>6 DEF TasksInv, TaskTypes
  <2>8. FlowShapes'
    BY <1>1, <2>4, <2>5 DEF TasksInv, FlowShapes
  <2>9. \A g \in Flow : ~Works(g, k)
    BY <2>1, <2>3 DEF TasksInv, WorkedRow
  <2>10. \A g \in Flow, j \in Key : Works(g, j)' => (g = f /\ j = k) \/ (g # f /\ j # k /\ Works(g, j))
    BY <2>4, <2>5, <2>9 DEF Works
  <2>11. OneWorks'
    BY <2>10 DEF TasksInv, OneWorks
  <2>12. WorkedRow'
    BY <2>6, <2>10 DEF TasksInv, WorkedRow
  <2>13. FulfilledRow' /\ k \notin fulfilled
    BY <1>1, <2>1, <2>3, <2>6 DEF TasksInv, FulfilledRow
  <2>14. FulfilledFlow'
    BY <1>1, <2>4, <2>5, <2>13 DEF TasksInv, FulfilledFlow
  <2>15. RunningAccounted'
    <3>1. ASSUME NEW j \in Key, tasks'[j].status = "running", j \notin abandoned'
          PROVE  \E g \in Flow : HoldsTask(g, j)'
      <4>1. CASE j = k
        BY <2>4, <2>5, <4>1 DEF HoldsTask
      <4>2. CASE j # k
        <5>1. PICK g \in Flow : HoldsTask(g, j)
          BY <1>1, <2>6, <3>1, <4>2 DEF TasksInv, RunningAccounted
        <5>2. g # f
          BY <1>1, <5>1 DEF HoldsTask
        <5>. QED
          BY <2>5, <5>1, <5>2 DEF HoldsTask
      <4>. QED
        BY <4>1, <4>2
    <3>. QED
      BY <3>1 DEF RunningAccounted
  <2>16. PolishDated'
    BY <1>1, <2>1, <2>4, <2>5, <2>6 DEF TasksInv, PolishDated, PolishMarked, Key
  <2>. QED
    BY <1>1, <2>7, <2>8, <2>11, <2>12, <2>13, <2>14, <2>15, <2>16 DEF TasksInv, NothingRepeated, LoginStays
<1>. QED
  BY <1>2, <1>3

\* What happens around the tasks.
LEMMA CompleteOrderKept == ASSUME TasksInv, CompleteOrder, UNCHANGED enabled PROVE TasksInv'
<1>1. completed' \in 0 .. MaxOrders
  BY TaskBounds DEF CompleteOrder, TasksInv, TaskTypes
<1>. QED
  BY <1>1 DEF CompleteOrder, TasksInv, TaskTypes, FlowShapes, OneWorks, WorkedRow, Works, FulfilledRow,
              FulfilledFlow, RunningAccounted, HoldsTask, PolishDated, PolishMarked, NothingRepeated, LoginStays

LEMMA LoginAgainKept == ASSUME TasksInv, LoginAgain, UNCHANGED enabled PROVE TasksInv'
<1>1. /\ cookie' = cookie + 1
      /\ UNCHANGED <<completed, tasks, flow, expiredCookie, polishedToday, fulfilled, repeated, abandoned, replaced>>
  BY DEF LoginAgain, Newest
<1>2. TaskTypes'
  BY <1>1 DEF TasksInv, TaskTypes
<1>3. FlowShapes'
  <2>1. \A f \in Flow : flow[f].before \in Nat /\ cookie \in Nat
    BY DEF TasksInv, TaskTypes, FlowRec
  <2>. QED
    BY <1>1, <2>1 DEF TasksInv, FlowShapes
<1>. QED
  BY <1>1, <1>2, <1>3 DEF TasksInv, OneWorks, WorkedRow, Works, FulfilledRow, FulfilledFlow, RunningAccounted,
                          HoldsTask, PolishDated, PolishMarked, NothingRepeated, LoginStays

LEMMA RetryDueKept == ASSUME TasksInv, RetryDue, UNCHANGED enabled PROVE TasksInv'
<1>1. /\ tasks' = [k \in Key |-> IF tasks[k].retry = "later" THEN [tasks[k] EXCEPT !.retry = "now"] ELSE tasks[k]]
      /\ UNCHANGED <<completed, flow, cookie, expiredCookie, polishedToday, fulfilled, repeated, abandoned, replaced>>
  BY DEF RetryDue
<1>2. ASSUME NEW k \in Key
      PROVE  tasks'[k] \in TaskRow /\ tasks'[k].status = tasks[k].status /\ tasks'[k].attempts = tasks[k].attempts
  <2>1. tasks[k] \in TaskRow
    BY DEF TasksInv, TaskTypes
  <2>2. CASE tasks[k].retry = "later"
    <3>1. tasks'[k] = [tasks[k] EXCEPT !.retry = "now"]
      BY <1>1, <2>2
    <3>. QED
      BY <2>1, <3>1 DEF TaskRow
  <2>3. CASE tasks[k].retry # "later"
    BY <1>1, <2>1, <2>3
  <2>. QED
    BY <2>2, <2>3
<1>3. tasks' \in [Key -> TaskRow]
  BY <1>1, <1>2
<1>4. TaskTypes'
  BY <1>1, <1>2, <1>3 DEF TasksInv, TaskTypes
<1>5. Polish \in Key
  BY DEF Key
<1>. QED
  BY <1>1, <1>2, <1>4, <1>5 DEF TasksInv, FlowShapes, OneWorks, WorkedRow, Works, FulfilledRow, FulfilledFlow,
                                RunningAccounted, HoldsTask, PolishDated, PolishMarked, NothingRepeated, LoginStays

LEMMA CrashTasksKept == ASSUME TasksInv, CrashTasks, UNCHANGED enabled PROVE TasksInv'
<1>1. /\ flow' = [f \in Flow |-> Idle] /\ expiredCookie' = 0
      /\ abandoned' = abandoned \cup {k \in Key : \E f \in Flow : HoldsTask(f, k)}
      /\ UNCHANGED <<completed, tasks, cookie, polishedToday, fulfilled, repeated, replaced>>
  BY DEF CrashTasks
<1>2. flow' \in [Flow -> FlowRec] /\ \A f \in Flow : flow'[f] = Idle
  BY <1>1, IdleOK
<1>3. TaskTypes'
  BY <1>1, <1>2 DEF TasksInv, TaskTypes
<1>4. FlowShapes' /\ (\A f \in Flow, k \in Key : ~Works(f, k)') /\ FulfilledFlow'
  <2>1. cookie \in Nat
    BY DEF TasksInv, TaskTypes
  <2>. QED
    BY <1>1, <1>2, <2>1, IdleOK DEF FlowShapes, Works, HoldPC, FulfilledFlow
<1>5. OneWorks' /\ WorkedRow'
  BY <1>4 DEF OneWorks, WorkedRow
<1>6. RunningAccounted'
  BY <1>1 DEF TasksInv, RunningAccounted
<1>7. PolishDated'
  BY <1>1, <1>2, IdleOK DEF TasksInv, PolishDated, PolishMarked
<1>. QED
  BY <1>1, <1>3, <1>4, <1>5, <1>6, <1>7 DEF TasksInv, FulfilledRow, NothingRepeated, LoginStays

LEMMA TasksNextKept == ASSUME TasksInv, [TasksNext]_taskVars PROVE TasksInv'
<1>1. CASE StartScan /\ UNCHANGED enabled
  BY <1>1, StartScanKept
<1>2. ASSUME UNCHANGED enabled, NEW f \in Manual, NEW task \in enabled, StartManual(f, task) PROVE TasksInv'
  BY <1>2, StartManualKept
<1>3. ASSUME UNCHANGED enabled, NEW f \in Flow, TasksStep(f) PROVE TasksInv'
  BY <1>3, PassGateKept, ReadDueKept, ClaimRunKept, ClaimFailsKept, RateBuyerKept, FetchAllItemsKept,
     PolishItemKept, SaveCookieKept, SaveFailsKept, MarkPolishedKept, FinishTaskKept, FinishFailsKept,
     QuarantineTaskKept, BlockCookieKept, RenewCookieKept DEF TasksStep
<1>4. CASE (CompleteOrder \/ LoginAgain \/ RetryDue \/ CrashTasks) /\ UNCHANGED enabled
  BY <1>4, CompleteOrderKept, LoginAgainKept, RetryDueKept, CrashTasksKept
<1>5. CASE UNCHANGED taskVars
  BY <1>5 DEF taskVars, TasksInv, TaskTypes, FlowShapes, OneWorks, WorkedRow, Works, FulfilledRow, FulfilledFlow,
              RunningAccounted, HoldsTask, PolishDated, PolishMarked, NothingRepeated, LoginStays
<1>. QED
  BY <1>1, <1>2, <1>3, <1>4, <1>5 DEF TasksNext

LEMMA TasksInitOK == ASSUME TasksInit PROVE TasksInv
<1>1. /\ enabled \in Settings /\ completed = 0 /\ tasks = [k \in Key |-> NoTaskRow]
      /\ flow = [f \in Flow |-> Idle] /\ cookie = 1 /\ expiredCookie = 0 /\ polishedToday = FALSE
      /\ fulfilled = {} /\ repeated = {} /\ replaced = {}
  BY DEF TasksInit
<1>2. NoTaskRow \in TaskRow /\ NoTaskRow.status = "absent" /\ NoTaskRow.attempts = 0
  BY TaskBounds DEF NoTaskRow, TaskRow
<1>3. \A f \in Flow : flow[f] = Idle
  BY <1>1
<1>a. enabled \subseteq {"rate", "polish"}
  BY <1>1, TaskBounds
<1>b. completed \in 0 .. MaxOrders /\ tasks \in [Key -> TaskRow] /\ flow \in [Flow -> FlowRec]
  BY <1>1, <1>2, IdleOK, TaskBounds
<1>c. \A k \in Key : tasks[k].attempts = 0
  BY <1>1, <1>2
<1>d. cookie = 1 /\ expiredCookie = 0
  BY <1>1
<1>e. polishedToday \in BOOLEAN
  BY <1>1, Zenon
<1>4. TaskTypes
  BY <1>a, <1>b, <1>c, <1>d, <1>e DEF TaskTypes
<1>5. FlowShapes /\ (\A f \in Flow, k \in Key : ~Works(f, k)) /\ FulfilledFlow
  BY <1>1, <1>3, IdleOK DEF FlowShapes, Works, HoldPC, FulfilledFlow
<1>6. OneWorks /\ WorkedRow /\ FulfilledRow
  BY <1>1, <1>5 DEF OneWorks, WorkedRow, FulfilledRow
<1>7. RunningAccounted
  BY <1>1, <1>2 DEF RunningAccounted
<1>8. PolishDated
  BY <1>1, <1>2, <1>3, IdleOK DEF PolishDated, PolishMarked, Key
<1>. QED
  BY <1>1, <1>4, <1>5, <1>6, <1>7, <1>8 DEF TasksInv, NothingRepeated, LoginStays

\* One execution works on a key whose row cannot be claimed; what had its
\* complete success is never claimed again, and whoever works on it will say
\* so; a running row has its holder or lost it (accountTaskCoordinator,
\* account_task_runs).
THEOREM TasksInvariant == TasksSpec => []TasksInv
<1>1. TasksInv /\ [TasksNext]_taskVars => TasksInv'
  BY TasksNextKept
<1>. QED
  BY <1>1, TasksInitOK, PTL DEF TasksSpec

\* Nothing that succeeded is called again, two executions never call for the
\* same key, running rows are accounted for, a polishing's success has its
\* date, and no login is replaced by a task's cookie (TasksSafe).
THEOREM TasksKept == TasksSpec => []TasksSafe
<1>1. ASSUME TasksInv PROVE TasksSafe
  <2>1. \A f \in Flow, k \in Key : Calls(f, k) => Works(f, k)
    BY DEF Calls, HoldsTask, Works, HoldPC
  <2>2. OneHolder
    BY <1>1, <2>1 DEF TasksInv, OneWorks, OneHolder
  <2>. QED
    BY <1>1, <2>2 DEF TasksInv, TasksSafe, PolishDated
<1>. QED
  BY <1>1, TasksInvariant, PTL

\* The kinds of values the rows, the executions and the cookies hold, and that a
\* task holds a key only with the cookie it read (TasksTypeOK).
THEOREM TasksTypesOK == TasksSpec => []TasksTypeOK
<1>1. ASSUME TasksInv PROVE TasksTypeOK
  <2>1. \A k \in Key : /\ tasks[k].status \in {"absent", "running", "failed", "needs_review", "success"}
                       /\ tasks[k].attempts \in 0 .. MaxAttempts /\ tasks[k].retry \in {"now", "later", "never"}
    BY <1>1 DEF TasksInv, TaskTypes, TaskRow
  <2>2. ASSUME NEW f \in Flow
        PROVE  flow[f].before \in 0 .. cookie /\ (HoldsTask(f, flow[f].key) => flow[f].before # 0)
    BY <1>1, FlowFacts DEF HoldsTask, Shape, HoldPC
  <2>. QED
    BY <1>1, <2>1, <2>2 DEF TasksInv, TaskTypes, TasksTypeOK
<1>. QED
  BY <1>1, TasksInvariant, PTL

=============================================================================
