-------------------------- MODULE MCAccountWork_proofs -------------------------
(***************************************************************************)
(* Proofs about sending chat texts (OutgoingMessage), for any number of    *)
(* sends, connections and answers; and that what is proved of this and of  *)
(* the other parts of an account's work (AccountWork_proofs) holds when    *)
(* they run side by side (MCAccountWork).                                  *)
(*                                                                         *)
(* MessagesSafe is not inductive: it speaks of what a caller was told, and *)
(* not of what an answer on its way, an answer in a channel or a send at   *)
(* its last step may still tell.  MessageInv says what each of these       *)
(* already proves about the platform's copy of the frame.  It is a         *)
(* conjunction over the sends, and a step writes the entries of one of     *)
(* them: OtherSends frees every step of the rest.                          *)
(***************************************************************************)
EXTENDS MCAccountWork, AccountWork_proofs, TLAPS

Pc == {"idle", "ready", "writing", "awaiting", "observing", "confirming", "over"}
Call == [pc : Pc, automation : BOOLEAN, link : 0 .. MaxLinks,
         ctx : {"live", "expired", "canceled"}, answer : Kinds \cup {"none"},
         done : BOOLEAN, result : {"none", "delivered", "notSent", "unknown"}]

\* An answer of that kind proves that the frame was taken, or refused.
Proves(kind, m) ==
    /\ kind = "verified" => frames[m] = "taken"
    /\ kind = "rejected" => frames[m] = "refused"

\* Nothing leaves before the write, and no answer comes before the frame.
WrittenLate(m) == sends[m].pc \in {"idle", "ready", "writing"} => frames[m] = "none"

\* What each stage of a send has been told.
Told(m) ==
    /\ sends[m].pc \in {"idle", "ready", "writing", "awaiting"} => sends[m].answer = "none"
    /\ sends[m].pc = "observing" => sends[m].answer = "verified"
    /\ sends[m].pc = "confirming" => sends[m].answer \in {"verified", "bare"}
    /\ Proves(sends[m].answer, m)
    /\ channels[m] \in Kinds => Proves(channels[m], m)

\* A result is given at the end and only there; "not sent" is true.
ResultTrue(m) ==
    /\ sends[m].pc # "over" => sends[m].result = "none"
    /\ sends[m].result = "notSent" => frames[m] \in {"none", "refused"}

\* Who was woken was woken by an answer; the answer with the text has woken
\* its automation before the send is confirmed.
Woken(m) ==
    /\ sends[m].done => sends[m].pc \in {"confirming", "over"} /\ sends[m].answer = "verified"
    /\ sends[m].pc = "confirming" /\ sends[m].answer = "verified" /\ sends[m].automation
         => sends[m].done
    /\ sends[m].automation /\ sends[m].pc = "over" =>
         /\ sends[m].result = "delivered" => sends[m].done
         /\ sends[m].answer = "verified" /\ sends[m].ctx # "canceled"
              => sends[m].result = "delivered"

\* The entries of a send: its waiter, its channel, the late echo it may still
\* have and the id that confirmed it.
Entries(m) ==
    /\ m \in waiters <=> (InFlight(m) /\ sends[m].automation /\ ~sends[m].done)
    /\ channels[m] # "closed" <=> sends[m].pc \in {"writing", "awaiting"}
    /\ m \in canceledEchoes => sends[m].pc = "over"
    /\ m \in seenKeys => sends[m].done

\* The send agrees with the platform and the tables.
SendTrue(m) == WrittenLate(m) /\ Told(m) /\ ResultTrue(m) /\ Woken(m) /\ Entries(m)

\* An answer on its way is the answer to a frame that the platform acted on.
AnswersTrue == \A a \in answers : frames[a.mid] \in {"taken", "refused"} /\ Proves(a.kind, a.mid)

MessageInv ==
    /\ MessageTypeOK /\ waiters \subseteq Mid
    /\ AnswersTrue /\ \A m \in Mid : SendTrue(m)

-----------------------------------------------------------------------------
(* What every step uses                                                    *)

\* The records and functions of the type invariant, by name.
LEMMA Shapes ==
    ASSUME MessageInv
    PROVE  /\ sends \in [Mid -> Call]
           /\ channels \in [Mid -> Kinds \cup {"closed", "empty"}]
           /\ frames \in [Mid -> {"none", "written", "taken", "refused"}]
           /\ answers \subseteq [mid : Mid, kind : Kinds]
           /\ link \in [id : 1 .. MaxLinks, up : BOOLEAN]
           /\ canceledEchoes \subseteq Mid /\ seenKeys \subseteq Mid /\ pushes \subseteq Mid
           /\ waiters \subseteq Mid
           /\ \A k \in Mid : sends[k] \in Call /\ SendTrue(k)
  BY DEF MessageInv, MessageTypeOK, Call, Pc

\* A step that leaves the entries of a send alone leaves it true.
LEMMA OtherSends ==
    ASSUME NEW k \in Mid, SendTrue(k),
           sends'[k] = sends[k], channels'[k] = channels[k], frames'[k] = frames[k],
           k \in waiters' <=> k \in waiters,
           k \in canceledEchoes' => k \in canceledEchoes,
           k \in seenKeys' => k \in seenKeys
    PROVE  SendTrue(k)'
  BY DEF SendTrue, WrittenLate, Told, ResultTrue, Woken, Entries, Proves, InFlight

\* A step of one send, which no answer on its way is about to contradict.
LEMMA OneSend ==
    ASSUME MessageInv, NEW m \in Mid,
           sends' \in [Mid -> Call],
           channels' \in [Mid -> Kinds \cup {"closed", "empty"}],
           frames' \in [Mid -> {"none", "written", "taken", "refused"}],
           answers' \subseteq [mid : Mid, kind : Kinds],
           link' \in [id : 1 .. MaxLinks, up : BOOLEAN],
           canceledEchoes' \subseteq canceledEchoes \cup {m}, seenKeys' \subseteq seenKeys \cup {m},
           pushes' \subseteq pushes \cup {m},
           waiters' \cup {m} = waiters \cup {m},
           \A k \in Mid : k # m => /\ sends'[k] = sends[k] /\ channels'[k] = channels[k]
                                   /\ frames'[k] = frames[k],
           SendTrue(m)', AnswersTrue'
    PROVE  MessageInv'
  <1>1. MessageTypeOK' /\ (waiters \subseteq Mid)'
    BY Shapes DEF MessageTypeOK, Call, Pc
  <1>2. ASSUME NEW k \in Mid, k # m
        PROVE  SendTrue(k)'
    <2>1. /\ k \in waiters' <=> k \in waiters
          /\ k \in canceledEchoes' => k \in canceledEchoes
          /\ k \in seenKeys' => k \in seenKeys
      BY <1>2
    <2> QED
      BY <1>2, <2>1, Shapes, OtherSends
  <1> QED
    BY <1>1, <1>2 DEF MessageInv

\* The answers on their way stay true while the frames that were acted on stay.
LEMMA AnswersKept ==
    ASSUME MessageInv, answers' \subseteq answers,
           \A k \in Mid : frames[k] \in {"taken", "refused"} => frames'[k] = frames[k]
    PROVE  AnswersTrue'
  BY Shapes DEF MessageInv, AnswersTrue, Proves

\* What a send's call is after a step that writes it.
LEMMA CallStep ==
    ASSUME sends \in [Mid -> Call], NEW m \in Mid, NEW c \in Call, sends' = [sends EXCEPT ![m] = c]
    PROVE  /\ sends' \in [Mid -> Call] /\ sends'[m] = c
           /\ \A k \in Mid : k # m => sends'[k] = sends[k]
  OBVIOUS

\* The end of a send, with its result.
LEMMA OverCall ==
    ASSUME NEW m \in Mid, sends[m] \in Call, NEW result \in {"delivered", "notSent", "unknown"}
    PROVE  /\ Over(m, result) \in Call
           /\ Over(m, result).pc = "over" /\ Over(m, result).result = result
           /\ Over(m, result).automation = sends[m].automation
           /\ Over(m, result).ctx = sends[m].ctx /\ Over(m, result).answer = sends[m].answer
           /\ Over(m, result).done = sends[m].done
  BY DEF Over, Call, Pc

-----------------------------------------------------------------------------
(* One lemma per action                                                    *)

LEMMA BeginSendInv ==
    ASSUME MessageInv, NEW m \in Mid, NEW automation \in BOOLEAN, BeginSend(m, automation)
    PROVE  MessageInv'
  <1>0. sends[m] \in Call /\ sends[m].pc = "idle" /\ SendTrue(m)
    BY Shapes DEF BeginSend, SendAt
  <1>1. /\ canceledEchoes' = canceledEchoes /\ seenKeys' = seenKeys /\ channels' = channels
        /\ frames' = frames /\ answers' = answers /\ pushes' = pushes /\ link' = link
    BY DEF BeginSend
  <1>2. AnswersTrue'
    BY <1>1, AnswersKept
  <1>3. CASE link.up
    <2> DEFINE c == [sends[m] EXCEPT !.pc = "ready", !.link = link.id, !.automation = automation]
    <2>1. link.id \in 0 .. MaxLinks
      BY Shapes, MessageBounds
    <2>2. /\ c \in Call /\ c.pc = "ready" /\ c.automation = automation /\ c.answer = sends[m].answer
          /\ c.done = sends[m].done /\ c.result = sends[m].result
      BY <1>0, <2>1 DEF Call, Pc
    <2>3. sends' = [sends EXCEPT ![m] = c]
      BY <1>0, <1>3, Shapes DEF BeginSend, Call
    <2> HIDE DEF c
    <2>4. /\ sends' \in [Mid -> Call] /\ sends'[m] = c
          /\ \A k \in Mid : k # m => sends'[k] = sends[k]
      BY <2>2, <2>3, CallStep, Shapes
    <2>5. waiters' = IF automation THEN waiters \cup {m} ELSE waiters
      BY <1>3 DEF BeginSend
    <2>6. SendTrue(m)'
      BY <1>0, <1>1, <2>2, <2>4, <2>5 DEF SendTrue, WrittenLate, Told, ResultTrue, Woken, Entries, Proves, InFlight
    <2> QED
      BY <1>1, <1>2, <2>4, <2>5, <2>6, Shapes, OneSend
  <1>4. CASE ~link.up
    <2>1. sends' = [sends EXCEPT ![m] = Over(m, "notSent")] /\ waiters' = waiters
      BY <1>4 DEF BeginSend
    <2>2. /\ sends' \in [Mid -> Call] /\ sends'[m] = Over(m, "notSent")
          /\ \A k \in Mid : k # m => sends'[k] = sends[k]
      BY <1>0, <2>1, OverCall, CallStep, Shapes
    <2>3. SendTrue(m)'
      BY <1>0, <1>1, <2>1, <2>2, OverCall DEF SendTrue, WrittenLate, Told, ResultTrue, Woken, Entries, Proves, InFlight
    <2> QED
      BY <1>1, <1>2, <2>1, <2>2, <2>3, Shapes, OneSend
  <1> QED
    BY <1>3, <1>4

LEMMA CheckContextInv ==
    ASSUME MessageInv, NEW m \in Mid, CheckContext(m)
    PROVE  MessageInv'
  <1>0. sends[m] \in Call /\ sends[m].pc = "ready" /\ SendTrue(m)
    BY Shapes DEF CheckContext, SendAt
  <1>1. /\ seenKeys' = seenKeys /\ frames' = frames /\ answers' = answers /\ pushes' = pushes
        /\ link' = link
    BY DEF CheckContext
  <1>2. AnswersTrue'
    BY <1>1, AnswersKept
  <1>3. CASE sends[m].ctx = "live"
    <2> DEFINE c == [sends[m] EXCEPT !.pc = "writing"]
    <2>1. /\ c \in Call /\ c.pc = "writing" /\ c.automation = sends[m].automation
          /\ c.answer = sends[m].answer /\ c.done = sends[m].done /\ c.result = sends[m].result
      BY <1>0 DEF Call, Pc
    <2>2. sends' = [sends EXCEPT ![m] = c]
      BY <1>3 DEF CheckContext
    <2> HIDE DEF c
    <2>3. /\ sends' \in [Mid -> Call] /\ sends'[m] = c
          /\ \A k \in Mid : k # m => sends'[k] = sends[k]
      BY <2>1, <2>2, CallStep, Shapes
    <2>4. /\ channels' = [channels EXCEPT ![m] = "empty"]
          /\ waiters' = waiters /\ canceledEchoes' = canceledEchoes
      BY <1>3 DEF CheckContext
    <2>5. channels' \in [Mid -> Kinds \cup {"closed", "empty"}] /\ channels'[m] = "empty"
      BY <2>4, Shapes
    <2>6. SendTrue(m)'
      BY <1>0, <1>1, <2>1, <2>3, <2>4, <2>5 DEF SendTrue, WrittenLate, Told, ResultTrue, Woken, Entries, Proves, InFlight, Kinds
    <2> QED
      BY <1>1, <1>2, <2>3, <2>4, <2>5, <2>6, Shapes, OneSend
  <1>4. CASE sends[m].ctx # "live"
    <2>1. /\ sends' = [sends EXCEPT ![m] = Over(m, "notSent")] /\ waiters' = waiters \ {m}
          /\ canceledEchoes' = canceledEchoes /\ channels' = channels
      BY <1>4 DEF CheckContext, CancelWaiter
    <2>2. /\ sends' \in [Mid -> Call] /\ sends'[m] = Over(m, "notSent")
          /\ \A k \in Mid : k # m => sends'[k] = sends[k]
      BY <1>0, <2>1, OverCall, CallStep, Shapes
    <2>3. SendTrue(m)'
      BY <1>0, <1>1, <2>1, <2>2, OverCall DEF SendTrue, WrittenLate, Told, ResultTrue, Woken, Entries, Proves, InFlight
    <2> QED
      BY <1>1, <1>2, <2>1, <2>2, <2>3, Shapes, OneSend
  <1> QED
    BY <1>3, <1>4

LEMMA WriteFrameInv ==
    ASSUME MessageInv, NEW m \in Mid, WriteFrame(m)
    PROVE  MessageInv'
  <1>0. sends[m] \in Call /\ sends[m].pc = "writing" /\ SendTrue(m)
    BY Shapes DEF WriteFrame, SendAt
  <1>1. /\ waiters' = waiters /\ canceledEchoes' = canceledEchoes /\ seenKeys' = seenKeys
        /\ channels' = channels /\ answers' = answers /\ pushes' = pushes /\ link' = link
    BY DEF WriteFrame
  <1> DEFINE c == [sends[m] EXCEPT !.pc = "awaiting"]
  <1>2. /\ c \in Call /\ c.pc = "awaiting" /\ c.automation = sends[m].automation
        /\ c.answer = sends[m].answer /\ c.done = sends[m].done /\ c.result = sends[m].result
    BY <1>0 DEF Call, Pc
  <1>3. sends' = [sends EXCEPT ![m] = c] /\ frames' = [frames EXCEPT ![m] = "written"]
    BY DEF WriteFrame
  <1> HIDE DEF c
  <1>4. /\ sends' \in [Mid -> Call] /\ sends'[m] = c
        /\ \A k \in Mid : k # m => sends'[k] = sends[k]
    BY <1>2, <1>3, CallStep, Shapes
  <1>5. /\ frames' \in [Mid -> {"none", "written", "taken", "refused"}] /\ frames'[m] = "written"
        /\ \A k \in Mid : k # m => frames'[k] = frames[k]
    BY <1>3, Shapes
  <1>6. frames[m] = "none"
    BY <1>0 DEF SendTrue, WrittenLate
  <1>7. AnswersTrue'
    BY <1>1, <1>5, <1>6, AnswersKept
  <1>8. SendTrue(m)'
    <2>1. channels[m] \in Kinds => channels[m] \notin {"verified", "rejected"}
      BY <1>0, <1>6 DEF SendTrue, Told, Proves
    <2> QED
      BY <1>0, <1>1, <1>2, <1>4, <1>5, <2>1 DEF SendTrue, WrittenLate, Told, ResultTrue, Woken, Entries, Proves, InFlight
  <1> QED
    BY <1>1, <1>4, <1>5, <1>7, <1>8, Shapes, OneSend

\* A request that ends without an answer that settles it.
LEMMA EndUnknownInv ==
    ASSUME MessageInv, NEW m \in Mid, EndUnknown(m),
           sends[m].pc \in {"writing", "awaiting"},
           frames' \in [Mid -> {"none", "written", "taken", "refused"}],
           \A k \in Mid : k # m => frames'[k] = frames[k],
           frames[m] \in {"taken", "refused"} => frames'[m] = frames[m],
           UNCHANGED <<seenKeys, answers, pushes, link>>
    PROVE  MessageInv'
  <1>0. sends[m] \in Call /\ SendTrue(m)
    BY Shapes
  <1>1. /\ sends' = [sends EXCEPT ![m] = Over(m, "unknown")]
        /\ channels' = [channels EXCEPT ![m] = "closed"]
        /\ waiters' = waiters \ {m} /\ canceledEchoes' \subseteq canceledEchoes \cup {m}
    BY DEF EndUnknown, CancelWaiter
  <1>2. /\ sends' \in [Mid -> Call] /\ sends'[m] = Over(m, "unknown")
        /\ \A k \in Mid : k # m => sends'[k] = sends[k]
    BY <1>0, <1>1, OverCall, CallStep, Shapes
  <1>3. /\ channels' \in [Mid -> Kinds \cup {"closed", "empty"}] /\ channels'[m] = "closed"
        /\ \A k \in Mid : k # m => channels'[k] = channels[k]
    BY <1>1, Shapes
  <1>4. AnswersTrue'
    BY AnswersKept
  <1>5. sends[m].answer = "none"
    BY <1>0 DEF SendTrue, Told
  <1>6. ~sends[m].done
    BY <1>0 DEF SendTrue, Woken
  <1>7. SendTrue(m)'
    BY <1>0, <1>1, <1>2, <1>3, <1>5, <1>6, OverCall DEF SendTrue, WrittenLate, Told, ResultTrue, Woken, Entries, Proves, InFlight, Kinds
  <1> QED
    BY <1>1, <1>2, <1>3, <1>4, <1>7, Shapes, OneSend

LEMMA WriteCutShortInv ==
    ASSUME MessageInv, NEW m \in Mid, WriteCutShort(m)
    PROVE  MessageInv'
  <1>1. sends[m].pc = "writing" /\ frames[m] = "none"
    BY Shapes DEF WriteCutShort, SendAt, SendTrue, WrittenLate
  <1>2. PICK left \in {"none", "written"} : frames' = [frames EXCEPT ![m] = left]
    BY DEF WriteCutShort
  <1>3. /\ frames' \in [Mid -> {"none", "written", "taken", "refused"}]
        /\ \A k \in Mid : k # m => frames'[k] = frames[k]
    BY <1>2, Shapes
  <1> QED
    BY <1>1, <1>3, EndUnknownInv DEF WriteCutShort

LEMMA GiveUpRequestInv ==
    ASSUME MessageInv, NEW m \in Mid, GiveUpRequest(m)
    PROVE  MessageInv'
  BY Shapes, EndUnknownInv DEF GiveUpRequest, SendAt

LEMMA DispatchResponseInv ==
    ASSUME MessageInv, NEW a \in answers, DispatchResponse(a)
    PROVE  MessageInv'
  <1>0. a.mid \in Mid /\ a.kind \in Kinds
    BY Shapes
  <1> DEFINE m == a.mid
  <1>1. /\ sends' = sends /\ waiters' = waiters /\ canceledEchoes' = canceledEchoes
        /\ seenKeys' = seenKeys /\ frames' = frames /\ pushes' = pushes /\ link' = link
        /\ answers' = answers \ {a}
    BY DEF DispatchResponse
  <1>2. /\ channels' \in [Mid -> Kinds \cup {"closed", "empty"}]
        /\ \A k \in Mid : k # m => channels'[k] = channels[k]
        /\ channels'[m] = IF channels[m] = "empty" THEN a.kind ELSE channels[m]
    BY <1>0, Shapes DEF DispatchResponse
  <1>3. AnswersTrue'
    BY <1>1, AnswersKept
  <1>4. Proves(a.kind, m) /\ SendTrue(m)
    BY <1>0, Shapes DEF MessageInv, AnswersTrue
  <1>5. SendTrue(m)'
    BY <1>0, <1>1, <1>2, <1>4 DEF SendTrue, WrittenLate, Told, ResultTrue, Woken, Entries, Proves, InFlight, Kinds
  <1> HIDE DEF m
  <1>6. m \in Mid
    BY <1>0 DEF m
  <1> QED
    BY <1>1, <1>2, <1>3, <1>5, <1>6, Shapes, OneSend

LEMMA TakeAnswerInv ==
    ASSUME MessageInv, NEW m \in Mid, TakeAnswer(m)
    PROVE  MessageInv'
  <1>0. /\ sends[m] \in Call /\ sends[m].pc = "awaiting" /\ SendTrue(m)
        /\ channels[m] \in Kinds /\ Proves(channels[m], m)
    BY Shapes DEF TakeAnswer, SendAt, SendTrue, Told
  <1>1. /\ seenKeys' = seenKeys /\ frames' = frames /\ answers' = answers /\ pushes' = pushes
        /\ link' = link
    BY DEF TakeAnswer
  <1>2. /\ channels' \in [Mid -> Kinds \cup {"closed", "empty"}] /\ channels'[m] = "closed"
        /\ \A k \in Mid : k # m => channels'[k] = channels[k]
    BY Shapes DEF TakeAnswer
  <1>3. AnswersTrue'
    BY <1>1, AnswersKept
  <1>4. ASSUME NEW pc \in Pc, NEW result \in {"none", "notSent", "unknown"},
               sends' = [sends EXCEPT ![m] = [sends[m] EXCEPT !.answer = channels[m], !.pc = pc,
                                                              !.result = result]],
               \/ /\ channels[m] = "verified" /\ pc = "observing" /\ result = "none"
                  /\ waiters' = waiters /\ canceledEchoes' = canceledEchoes
               \/ /\ channels[m] = "bare" /\ pc = "confirming" /\ result = "none"
                  /\ waiters' = waiters /\ canceledEchoes' = canceledEchoes
               \/ /\ channels[m] = "rejected" /\ pc = "over" /\ result = "notSent"
                  /\ waiters' = waiters \ {m} /\ canceledEchoes' = canceledEchoes
               \/ /\ channels[m] = "unclear" /\ pc = "over" /\ result = "unknown"
                  /\ waiters' = waiters \ {m} /\ canceledEchoes' \subseteq canceledEchoes \cup {m}
        PROVE  MessageInv'
    <2> DEFINE c == [sends[m] EXCEPT !.answer = channels[m], !.pc = pc, !.result = result]
    <2>1. /\ c \in Call /\ c.pc = pc /\ c.automation = sends[m].automation
          /\ c.ctx = sends[m].ctx /\ c.answer = channels[m] /\ c.done = sends[m].done
          /\ c.result = result
      BY <1>0 DEF Call, Pc
    <2>2. sends' = [sends EXCEPT ![m] = c]
      BY <1>4
    <2> HIDE DEF c
    <2>3. /\ sends' \in [Mid -> Call] /\ sends'[m] = c
          /\ \A k \in Mid : k # m => sends'[k] = sends[k]
      BY <2>1, <2>2, CallStep, Shapes
    <2>4. ~sends[m].done
      BY <1>0 DEF SendTrue, Woken
    <2>5. waiters' \cup {m} = waiters \cup {m} /\ canceledEchoes' \subseteq canceledEchoes \cup {m}
      BY <1>4
    <2>6. SendTrue(m)'
      <3>1. CASE channels[m] = "verified"
        BY <1>0, <1>1, <1>2, <1>4, <2>1, <2>3, <2>4, <3>1 DEF SendTrue, WrittenLate, Told, ResultTrue, Woken, Entries, Proves, InFlight, Kinds
      <3>2. CASE channels[m] = "bare"
        BY <1>0, <1>1, <1>2, <1>4, <2>1, <2>3, <2>4, <3>2 DEF SendTrue, WrittenLate, Told, ResultTrue, Woken, Entries, Proves, InFlight, Kinds
      <3>3. CASE channels[m] = "rejected"
        BY <1>0, <1>1, <1>2, <1>4, <2>1, <2>3, <2>4, <3>3 DEF SendTrue, WrittenLate, Told, ResultTrue, Woken, Entries, Proves, InFlight, Kinds
      <3>4. CASE channels[m] = "unclear"
        BY <1>0, <1>1, <1>2, <1>4, <2>1, <2>3, <2>4, <3>4 DEF SendTrue, WrittenLate, Told, ResultTrue, Woken, Entries, Proves, InFlight, Kinds
      <3> QED
        BY <1>0, <3>1, <3>2, <3>3, <3>4 DEF Kinds
    <2> QED
      BY <1>1, <1>2, <1>3, <2>3, <2>5, <2>6, Shapes, OneSend
  <1>5. sends[m].result = "none"
    BY <1>0 DEF SendTrue, ResultTrue
  <1>6. CASE channels[m] = "verified"
    <2>1. sends' = [sends EXCEPT ![m] = [sends[m] EXCEPT !.answer = channels[m],
                                                         !.pc = "observing", !.result = "none"]]
      BY <1>0, <1>5, <1>6, Shapes DEF TakeAnswer, Call
    <2> QED
      BY <1>4, <1>6, <2>1 DEF TakeAnswer, Pc
  <1>7. CASE channels[m] = "bare"
    <2>1. sends' = [sends EXCEPT ![m] = [sends[m] EXCEPT !.answer = channels[m],
                                                         !.pc = "confirming", !.result = "none"]]
      BY <1>0, <1>5, <1>7, Shapes DEF TakeAnswer, Call
    <2> QED
      BY <1>4, <1>7, <2>1 DEF TakeAnswer, Pc
  <1>8. CASE channels[m] = "rejected"
    <2>1. sends' = [sends EXCEPT ![m] = [sends[m] EXCEPT !.answer = channels[m],
                                                         !.pc = "over", !.result = "notSent"]]
      BY <1>0, <1>8, Shapes DEF TakeAnswer, Call
    <2> QED
      BY <1>4, <1>8, <2>1 DEF TakeAnswer, CancelWaiter, Pc
  <1>9. CASE channels[m] = "unclear"
    <2>1. sends' = [sends EXCEPT ![m] = [sends[m] EXCEPT !.answer = channels[m],
                                                         !.pc = "over", !.result = "unknown"]]
      BY <1>0, <1>9, Shapes DEF TakeAnswer, Call
    <2> QED
      BY <1>4, <1>9, <2>1 DEF TakeAnswer, CancelWaiter, Pc
  <1> QED
    BY <1>0, <1>6, <1>7, <1>8, <1>9 DEF Kinds

\* The answer with the text wakes the automation's own waiter, and no other.
LEMMA ObserveAnswerInv ==
    ASSUME MessageInv, NEW m \in Mid, ObserveAnswer(m)
    PROVE  MessageInv'
  <1>0. sends[m] \in Call /\ sends[m].pc = "observing" /\ SendTrue(m)
    BY Shapes DEF ObserveAnswer, SendAt
  <1>1. /\ channels' = channels /\ frames' = frames /\ answers' = answers /\ pushes' = pushes
        /\ link' = link
    BY DEF ObserveAnswer
  <1>2. AnswersTrue'
    BY <1>1, AnswersKept
  <1>3. /\ sends[m].answer = "verified" /\ ~sends[m].done
        /\ m \in waiters <=> sends[m].automation
        /\ m \notin seenKeys /\ m \notin canceledEchoes
    BY <1>0 DEF SendTrue, Told, Woken, Entries, InFlight
  <1>4. Echoed(m) = IF sends[m].automation THEN {m} ELSE {}
    BY <1>3 DEF Echoed
  <1> DEFINE calls == [sends EXCEPT ![m].pc = "confirming"]
  <1>5. /\ waiters' = waiters \ Echoed(m)
        /\ sends' = [k \in Mid |->
                       IF k \in Echoed(m) THEN [calls[k] EXCEPT !.done = TRUE] ELSE calls[k]]
        /\ seenKeys' \subseteq seenKeys \cup {m}
        /\ ~sends[m].automation => seenKeys' = seenKeys
        /\ canceledEchoes' = canceledEchoes
    <2>1. m # NoMid
      BY MessageBounds DEF Mid, NoMid
    <2> QED
      BY <1>3, <1>4, <2>1 DEF ObserveAnswer, ObservePlatform
  <1> DEFINE c == [sends[m] EXCEPT !.pc = "confirming", !.done = sends[m].automation]
  <1>6. /\ c \in Call /\ c.pc = "confirming" /\ c.automation = sends[m].automation
        /\ c.answer = sends[m].answer /\ c.done = sends[m].automation
        /\ c.result = sends[m].result
    BY <1>0 DEF Call, Pc
  <1>7. sends' = [sends EXCEPT ![m] = c]
    <2>1. CASE sends[m].automation
      <3>1. calls[m] = [sends[m] EXCEPT !.pc = "confirming"]
        BY Shapes
      <3>2. [calls[m] EXCEPT !.done = TRUE] = c
        BY <1>0, <2>1, <3>1 DEF Call
      <3>3. \A k \in Mid : k # m => calls[k] = sends[k]
        BY Shapes
      <3>4. \A k \in Mid : k \in Echoed(m) <=> k = m
        BY <1>4, <2>1
      <3> HIDE DEF c, calls
      <3>5. sends' = [k \in Mid |-> IF k = m THEN c ELSE sends[k]]
        BY <1>5, <3>2, <3>3, <3>4
      <3> QED
        BY <3>5, Shapes
    <2>2. CASE ~sends[m].automation
      <3>1. [sends[m] EXCEPT !.pc = "confirming"] = c
        BY <1>0, <1>3, <2>2 DEF Call
      <3>2. Echoed(m) = {} /\ calls \in [Mid -> Call]
        BY <1>0, <1>4, <2>2, Shapes DEF Call, Pc
      <3>3. sends' = calls
        BY <1>5, <3>2
      <3> QED
        BY <3>1, <3>3
    <2> QED
      BY <2>1, <2>2
  <1> HIDE DEF c, calls
  <1>8. /\ sends' \in [Mid -> Call] /\ sends'[m] = c
        /\ \A k \in Mid : k # m => sends'[k] = sends[k]
    BY <1>6, <1>7, CallStep, Shapes
  <1>9. SendTrue(m)'
    BY <1>0, <1>1, <1>3, <1>4, <1>5, <1>6, <1>8 DEF SendTrue, WrittenLate, Told, ResultTrue, Woken, Entries, Proves, InFlight, Kinds
  <1> QED
    BY <1>1, <1>2, <1>4, <1>5, <1>8, <1>9, Shapes, OneSend

\* A push of an own message, which has no mid, wakes nobody.
LEMMA OwnPushInv ==
    ASSUME MessageInv, NEW m \in Mid, OwnPush(m)
    PROVE  MessageInv'
  <1>1. /\ channels' = channels /\ frames' = frames /\ answers' = answers /\ link' = link
        /\ pushes' = pushes \ {m}
    BY DEF OwnPush
  <1>2. AnswersTrue'
    BY <1>1, AnswersKept
  <1>3. NoMid \notin Mid
    BY MessageBounds DEF Mid, NoMid
  <1>4. Echoed(NoMid) = {} /\ NoMid \notin canceledEchoes
    BY <1>3, Shapes DEF Echoed
  <1>5. sends = [k \in Mid |-> sends[k]]
    BY Shapes
  <1>6. /\ sends' = sends /\ waiters' = waiters /\ canceledEchoes' = canceledEchoes
        /\ seenKeys' = seenKeys
    BY <1>4, <1>5 DEF OwnPush, ObservePlatform
  <1>7. SendTrue(m)'
    BY <1>1, <1>6, Shapes, OtherSends
  <1> QED
    BY <1>1, <1>2, <1>6, <1>7, Shapes, OneSend

LEMMA ConfirmEchoInv ==
    ASSUME MessageInv, NEW m \in Mid, ConfirmEcho(m)
    PROVE  MessageInv'
  <1>0. sends[m] \in Call /\ sends[m].pc = "confirming" /\ SendTrue(m)
    BY Shapes DEF ConfirmEcho, SendAt
  <1>1. /\ seenKeys' = seenKeys /\ channels' = channels /\ frames' = frames /\ answers' = answers
        /\ pushes' = pushes /\ link' = link
    BY DEF ConfirmEcho
  <1>2. AnswersTrue'
    BY <1>1, AnswersKept
  <1>3. ASSUME NEW result \in {"delivered", "unknown"}, sends' = [sends EXCEPT ![m] = Over(m, result)],
               \/ /\ result = "delivered" /\ (~sends[m].automation \/ sends[m].done)
                  /\ waiters' = waiters /\ canceledEchoes' = canceledEchoes
               \/ /\ result = "unknown" /\ sends[m].automation
                  /\ (~sends[m].done \/ sends[m].ctx = "canceled")
                  /\ waiters' = waiters \ {m} /\ canceledEchoes' \subseteq canceledEchoes \cup {m}
        PROVE  MessageInv'
    <2>1. /\ sends' \in [Mid -> Call] /\ sends'[m] = Over(m, result)
          /\ \A k \in Mid : k # m => sends'[k] = sends[k]
      BY <1>0, <1>3, OverCall, CallStep, Shapes
    <2>2. waiters' \cup {m} = waiters \cup {m} /\ canceledEchoes' \subseteq canceledEchoes \cup {m}
      BY <1>3
    <2>3. sends[m].answer \in {"verified", "bare"} /\ channels[m] = "closed"
      BY <1>0 DEF SendTrue, Told, Entries
    <2>4. SendTrue(m)'
      <3>1. WrittenLate(m)' /\ Told(m)' /\ ResultTrue(m)'
        BY <1>0, <1>1, <2>1, <2>3, OverCall DEF SendTrue, WrittenLate, Told, ResultTrue, Woken, Entries, Proves, InFlight, Kinds
      <3>2. Woken(m)'
        BY <1>0, <1>1, <1>3, <2>1, <2>3, OverCall DEF SendTrue, Woken
      <3>3. Entries(m)'
        BY <1>0, <1>1, <1>3, <2>1, <2>3, OverCall DEF SendTrue, Entries, InFlight
      <3> QED
        BY <3>1, <3>2, <3>3 DEF SendTrue
    <2> QED
      BY <1>1, <1>2, <2>1, <2>2, <2>4, Shapes, OneSend
  <1>4. CASE /\ ~sends[m].automation \/ sends[m].done
             /\ sends' = [sends EXCEPT ![m] = Over(m, "delivered")]
             /\ UNCHANGED <<waiters, canceledEchoes>>
    BY <1>3, <1>4
  <1>5. CASE /\ sends[m].automation /\ (~sends[m].done \/ sends[m].ctx = "canceled")
             /\ sends' = [sends EXCEPT ![m] = Over(m, "unknown")]
             /\ CancelWaiter(m, TRUE)
    BY <1>3, <1>5 DEF CancelWaiter
  <1> QED
    BY <1>4, <1>5 DEF ConfirmEcho

LEMMA EndContextInv ==
    ASSUME MessageInv, NEW m \in Mid, EndContext(m)
    PROVE  MessageInv'
  <1>0. sends[m] \in Call /\ InFlight(m) /\ SendTrue(m)
    BY Shapes DEF EndContext
  <1>1. /\ waiters' = waiters /\ canceledEchoes' = canceledEchoes /\ seenKeys' = seenKeys
        /\ channels' = channels /\ frames' = frames /\ answers' = answers /\ pushes' = pushes
        /\ link' = link
    BY DEF EndContext
  <1>2. AnswersTrue'
    BY <1>1, AnswersKept
  <1>3. PICK ctx \in {"expired", "canceled"} : sends' = [sends EXCEPT ![m].ctx = ctx]
    BY DEF EndContext
  <1> DEFINE c == [sends[m] EXCEPT !.ctx = ctx]
  <1>4. /\ c \in Call /\ c.pc = sends[m].pc /\ c.automation = sends[m].automation
        /\ c.answer = sends[m].answer /\ c.done = sends[m].done /\ c.result = sends[m].result
    BY <1>0 DEF Call
  <1>5. sends' = [sends EXCEPT ![m] = c]
    BY <1>3
  <1> HIDE DEF c
  <1>6. /\ sends' \in [Mid -> Call] /\ sends'[m] = c
        /\ \A k \in Mid : k # m => sends'[k] = sends[k]
    BY <1>4, <1>5, CallStep, Shapes
  <1>7. SendTrue(m)'
    BY <1>0, <1>1, <1>4, <1>6 DEF SendTrue, WrittenLate, Told, ResultTrue, Woken, Entries, Proves, InFlight
  <1> QED
    BY <1>1, <1>2, <1>6, <1>7, Shapes, OneSend

LEMMA ForgetCanceledInv ==
    ASSUME MessageInv, NEW m \in Mid, ForgetCanceled(m)
    PROVE  MessageInv'
  <1>1. /\ sends' = sends /\ waiters' = waiters /\ seenKeys' = seenKeys /\ channels' = channels
        /\ frames' = frames /\ answers' = answers /\ pushes' = pushes /\ link' = link
        /\ canceledEchoes' = canceledEchoes \ {m}
    BY DEF ForgetCanceled
  <1>2. AnswersTrue'
    BY <1>1, AnswersKept
  <1>3. SendTrue(m)'
    BY <1>1, Shapes, OtherSends
  <1> QED
    BY <1>1, <1>2, <1>3, Shapes, OneSend

\* What the platform does with a frame it does once, and its answer says so.
LEMMA PlatformActsInv ==
    ASSUME MessageInv, NEW m \in Mid, NEW got \in BOOLEAN, PlatformActs(m, got)
    PROVE  MessageInv'
  <1> DEFINE fate == IF got THEN "taken" ELSE "refused"
  <1>0. frames[m] = "written" /\ SendTrue(m)
    BY Shapes DEF PlatformActs
  <1>1. /\ sends' = sends /\ waiters' = waiters /\ canceledEchoes' = canceledEchoes
        /\ seenKeys' = seenKeys /\ channels' = channels /\ link' = link
        /\ pushes' \subseteq pushes \cup {m}
    BY DEF PlatformActs
  <1>2. /\ frames' \in [Mid -> {"none", "written", "taken", "refused"}] /\ frames'[m] = fate
        /\ \A k \in Mid : k # m => frames'[k] = frames[k]
    BY Shapes DEF PlatformActs
  <1>3. PICK kind \in Kinds :
            /\ answers' \subseteq answers \cup {[mid |-> m, kind |-> kind]}
            /\ kind = "verified" => got
            /\ kind = "rejected" => ~got
    <2>1. CASE UNCHANGED answers
      BY <2>1 DEF Kinds
    <2>2. CASE \E kind \in {"bare", "unclear", IF got THEN "verified" ELSE "rejected"} :
                 answers' = answers \cup {[mid |-> m, kind |-> kind]}
      <3>1. PICK kind \in {"bare", "unclear", IF got THEN "verified" ELSE "rejected"} :
              answers' = answers \cup {[mid |-> m, kind |-> kind]}
        BY <2>2
      <3>2. kind \in Kinds /\ (kind = "verified" => got) /\ (kind = "rejected" => ~got)
        BY <3>1 DEF Kinds
      <3> QED
        BY <3>1, <3>2
    <2> QED
      BY <2>1, <2>2 DEF PlatformActs
  <1>4. answers' \subseteq [mid : Mid, kind : Kinds]
    BY <1>3, Shapes
  <1>5. AnswersTrue'
    <2> SUFFICES ASSUME NEW a \in answers'
                 PROVE  frames'[a.mid] \in {"taken", "refused"} /\ Proves(a.kind, a.mid)'
      BY DEF AnswersTrue
    <2>1. CASE a \in answers
      <3>1. a.mid \in Mid /\ frames[a.mid] \in {"taken", "refused"} /\ Proves(a.kind, a.mid)
        BY <2>1, Shapes DEF MessageInv, AnswersTrue
      <3>2. a.mid # m
        BY <1>0, <3>1
      <3> QED
        BY <1>2, <3>1, <3>2 DEF Proves
    <2>2. CASE a = [mid |-> m, kind |-> kind]
      <3>1. a.mid = m /\ a.kind = kind
        BY <2>2
      <3> QED
        BY <1>2, <1>3, <3>1 DEF Proves
    <2> QED
      BY <1>3, <2>1, <2>2
  <1>6. SendTrue(m)'
    <2>1. sends[m].pc \notin {"idle", "ready", "writing"} /\ ~sends[m].done
      BY <1>0 DEF SendTrue, WrittenLate, Woken, Told, Proves
    <2>2. sends[m].answer \notin {"verified", "rejected"} /\ sends[m].result # "notSent"
      BY <1>0 DEF SendTrue, Told, Proves, ResultTrue
    <2>3. channels[m] \in Kinds => channels[m] \notin {"verified", "rejected"}
      BY <1>0 DEF SendTrue, Told, Proves
    <2> QED
      BY <1>0, <1>1, <1>2, <2>1, <2>2, <2>3 DEF SendTrue, WrittenLate, Told, ResultTrue, Woken, Entries, Proves, InFlight
  <1> HIDE DEF fate
  <1> QED
    BY <1>1, <1>2, <1>4, <1>5, <1>6, Shapes, OneSend

\* A connection takes its answers with it.
LEMMA LinkInv ==
    ASSUME MessageInv, LoseLink \/ OpenLink
    PROVE  MessageInv'
  <1>1. /\ sends' = sends /\ waiters' = waiters /\ canceledEchoes' = canceledEchoes
        /\ seenKeys' = seenKeys /\ channels' = channels /\ frames' = frames /\ pushes' = pushes
        /\ answers' \subseteq answers
    BY DEF LoseLink, OpenLink
  <1>2. AnswersTrue'
    BY <1>1, AnswersKept
  <1>3. link' \in [id : 1 .. MaxLinks, up : BOOLEAN]
    <2>1. CASE LoseLink
      BY <2>1, Shapes DEF LoseLink
    <2>2. CASE OpenLink
      <3>1. link.id + 1 \in 1 .. MaxLinks
        BY <2>2, Shapes, MessageBounds DEF OpenLink
      <3> QED
        BY <2>2, <3>1 DEF OpenLink
    <2> QED
      BY <2>1, <2>2
  <1>4. \A k \in Mid : SendTrue(k)'
    BY <1>1, Shapes, OtherSends
  <1>5. MessageTypeOK' /\ (waiters \subseteq Mid)'
    BY <1>1, <1>3, Shapes DEF MessageTypeOK, Call, Pc
  <1> QED
    BY <1>2, <1>4, <1>5 DEF MessageInv

-----------------------------------------------------------------------------
(* Theorems                                                                *)

LEMMA MessageInitInv == MessageInit => MessageInv
  <1> SUFFICES ASSUME MessageInit PROVE MessageInv
    OBVIOUS
  <1> DEFINE c == [pc |-> "idle", automation |-> FALSE, link |-> 0, ctx |-> "live",
                   answer |-> "none", done |-> FALSE, result |-> "none"]
  <1>1. /\ c \in Call /\ c.pc = "idle" /\ c.answer = "none" /\ ~c.done /\ c.result = "none"
        /\ ~c.automation
    BY MessageBounds DEF Call, Pc
  <1>2. sends = [m \in Mid |-> c]
    BY DEF MessageInit
  <1> HIDE DEF c
  <1>3. sends \in [Mid -> Call] /\ \A m \in Mid : sends[m] = c
    BY <1>1, <1>2
  <1>4. /\ waiters = {} /\ canceledEchoes = {} /\ seenKeys = {} /\ answers = {} /\ pushes = {}
        /\ channels = [m \in Mid |-> "closed"] /\ frames = [m \in Mid |-> "none"]
        /\ link = [id |-> 1, up |-> TRUE]
    BY DEF MessageInit
  <1>5. link \in [id : 1 .. MaxLinks, up : BOOLEAN]
    BY <1>4, MessageBounds
  <1>6. MessageTypeOK
    BY <1>3, <1>4, <1>5 DEF MessageTypeOK, Call, Pc
  <1>7. \A m \in Mid : SendTrue(m)
    BY <1>1, <1>3, <1>4 DEF SendTrue, WrittenLate, Told, ResultTrue, Woken, Entries, Proves, InFlight, Kinds
  <1> QED
    BY <1>4, <1>6, <1>7 DEF MessageInv, AnswersTrue

\* The invariant needs no fairness.
LEMMA MessageSafety == MessageInit /\ [][MessageNext]_messageVars => []MessageInv
  <1>1. MessageInv /\ [MessageNext]_messageVars => MessageInv'
    <2> SUFFICES ASSUME MessageInv, [MessageNext]_messageVars PROVE MessageInv'
      OBVIOUS
    <2>1. ASSUME NEW m \in Mid, NEW automation \in BOOLEAN, BeginSend(m, automation)
          PROVE  MessageInv'
      BY <2>1, BeginSendInv
    <2>2. ASSUME NEW m \in Mid, SendStep(m)
          PROVE  MessageInv'
      BY <2>2, CheckContextInv, WriteFrameInv, WriteCutShortInv, TakeAnswerInv, GiveUpRequestInv,
         ObserveAnswerInv, ConfirmEchoInv DEF SendStep
    <2>3. ASSUME NEW m \in Mid, EndContext(m) \/ ForgetCanceled(m) \/ OwnPush(m)
          PROVE  MessageInv'
      BY <2>3, EndContextInv, ForgetCanceledInv, OwnPushInv
    <2>4. ASSUME NEW m \in Mid, NEW got \in BOOLEAN, PlatformActs(m, got)
          PROVE  MessageInv'
      BY <2>4, PlatformActsInv
    <2>5. ASSUME NEW a \in answers, DispatchResponse(a)
          PROVE  MessageInv'
      BY <2>5, DispatchResponseInv
    <2>6. CASE LoseLink \/ OpenLink
      BY <2>6, LinkInv
    <2>7. CASE UNCHANGED messageVars
      BY <2>7 DEF messageVars, MessageInv, MessageTypeOK, AnswersTrue, SendTrue, WrittenLate, Told, ResultTrue, Woken, Entries, Proves, InFlight
    <2> QED
      BY <2>1, <2>2, <2>3, <2>4, <2>5, <2>6, <2>7 DEF MessageNext
  <1> QED
    BY <1>1, MessageInitInv, PTL

\* The inductive invariant holds of every reachable state.
THEOREM MessageInvariant == MessageSpec => []MessageInv
  BY MessageSafety, PTL DEF MessageSpec

LEMMA MessageInvSafe == ASSUME MessageInv PROVE MessagesSafe
  <1>1. NotSentIsNotSent
    BY Shapes DEF NotSentIsNotSent, SendTrue, ResultTrue
  <1>2. ConfirmedByOwnEcho
    BY Shapes DEF ConfirmedByOwnEcho, SendTrue, Woken, Told, Proves, SendAt
  <1>3. NothingLeft
    BY Shapes DEF NothingLeft, SendTrue, Entries
  <1> QED
    BY <1>1, <1>2, <1>3 DEF MessagesSafe

\* Whatever the platform does with the frames and its answers, and however
\* contexts end and connections come and go: "not sent" is said only of a
\* message that the platform neither has nor can get, an automation's message
\* is confirmed by its own answer and by nothing else, and no waiter and no
\* pending request outlives its call.
THEOREM MessagesCorrect == MessageSpec => []MessagesSafe
  BY MessageInvariant, MessageInvSafe, PTL

------------------------------------------------------------------------------
(* The parts side by side                                                  *)

\* Each part of MCAccountWork runs under its own specification, whatever the others do.
LEMMA PartsRun == SumSpec => /\ Spec /\ ChatSpec /\ ReplySpec /\ TasksSpec
                            /\ MessageInit /\ [][MessageNext]_messageVars
  <1>1. SumInit => Init /\ ChatInit /\ ReplyInit /\ MessageInit /\ TasksInit
    BY DEF SumInit
  <1>2. [SumNext]_sumVars => /\ [Next]_vars /\ [ChatNext]_chatVars /\ [ReplyNext]_replyVars
                             /\ [MessageNext]_messageVars /\ [TasksNext]_taskVars
    BY DEF SumNext, Only, sumVars
  <1> QED
    BY <1>1, <1>2, PTL DEF SumSpec, Spec, ChatSpec, ReplySpec, TasksSpec

\* PartsTypeOK always holds: each part keeps its type invariant, for all values of the constants.
THEOREM PartsTypesOK == SumSpec => []PartsTypeOK
  <1>1. MessageInit /\ [][MessageNext]_messageVars => []MessageTypeOK
    BY MessageSafety, PTL DEF MessageInv
  <1>2. TypeOK /\ ChatTypeOK /\ ReplyTypeOK /\ MessageTypeOK /\ TasksTypeOK => PartsTypeOK
    BY DEF PartsTypeOK
  <1> QED
    BY <1>1, <1>2, PartsRun, DeliveryTypesOK, ChatTypesOK, ReplyTypesOK, TasksTypesOK, PTL

\* What the parts promise they promise together: the deliveries implement the ledger of the stock and no
\* card is lost unseen, a chat deleted stays deleted, a reply goes out once, "not sent" is said of nothing that went
\* out, and a task that succeeded is not called again.
THEOREM AccountWorkKept ==
    SumSpec => /\ StockSpec /\ [](StockSafe /\ LostVisible /\ ReplayWhole)
               /\ [](ConversationSafe /\ RepliesSafe /\ MessagesSafe /\ TasksSafe)
               /\ DeletedForGood
  <1>1. SumSpec => StockSpec /\ [](StockSafe /\ LostVisible /\ ReplayWhole)
    BY PartsRun, ImplementsStockLedger, StockIsSafe, LossIsVisible, ReplayConfirmsAll, PTL
  <1>2. SumSpec => []MessagesSafe
    BY PartsRun, MessageSafety, MessageInvSafe, PTL
  <1>3. SumSpec => [](ConversationSafe /\ RepliesSafe /\ TasksSafe) /\ DeletedForGood
    BY PartsRun, ConversationKept, RepliedOnce, TasksKept, DeletedStays, PTL
  <1> QED
    BY <1>1, <1>2, <1>3, PTL

=============================================================================
