--------------------------- MODULE OutgoingMessage ---------------------------
(***************************************************************************)
(* Sending chat texts of one content to one chat over the account's        *)
(* WebSocket: outgoingMessageCoordinator.sendText, Conn.request with its   *)
(* table of pending requests, readPump, and the tracker that confirms an   *)
(* automation's message by its own echo.  Every send has a request mid of  *)
(* its own and is named by it; the texts are equal, so that only the mid   *)
(* tells them apart.  The platform is external: it may take, refuse or     *)
(* never see a frame, and answer with or without the message's text.       *)
(*                                                                         *)
(* Simplified: one conversation and text; sendImage differs in its timeout *)
(* only and sendItemCard in having no waiter; the limits of the tracker's  *)
(* caches are left out.                                                    *)
(***************************************************************************)
EXTENDS Naturals, FiniteSets

CONSTANTS
    MaxSends,       \* bound: texts sent
    MaxLinks        \* bound: connections opened

ASSUME MessageBounds == MaxSends \in Nat /\ MaxLinks \in Nat \ {0}

VARIABLES
    sends,          \* [mid -> the call of sendText that uses it]
    waiters,        \* the tracker's pending: mids registered and not yet confirmed
    canceledEchoes, \* mids whose late echo the tracker will drop
    seenKeys,       \* platform ids that have confirmed a send
    channels,       \* [mid -> the answer in the channel of its pending request]
    frames,         \* platform: [mid -> what became of the frame]
    answers,        \* answers on their way to the connection
    pushes,         \* accepted messages whose sync push is on its way
    link            \* the connection: its number, and whether its reader runs

messageVars ==
    <<sends, waiters, canceledEchoes, seenKeys, channels, frames, answers, pushes, link>>

Mid == 1 .. MaxSends
NoMid == 0

\* verified: 200 with the text, the sender and the id; bare: 200 without them;
\* rejected: 4xx but 408; unclear: any other code.
Kinds == {"verified", "bare", "rejected", "unclear"}

MessageInit ==
    /\ sends = [m \in Mid |-> [pc |-> "idle", automation |-> FALSE, link |-> 0, ctx |-> "live",
                               answer |-> "none", done |-> FALSE, result |-> "none"]]
    /\ waiters = {} /\ canceledEchoes = {} /\ seenKeys = {}
    /\ channels = [m \in Mid |-> "closed"]
    /\ frames = [m \in Mid |-> "none"]
    /\ answers = {} /\ pushes = {}
    /\ link = [id |-> 1, up |-> TRUE]

SendAt(m, pc) == sends[m].pc = pc

InFlight(m) == sends[m].pc \notin {"idle", "over"}

\* The connection this send wrote to still has its reader.
LinkAlive(m) == link.up /\ link.id = sends[m].link

Over(m, result) == [sends[m] EXCEPT !.pc = "over", !.result = result]

------------------------------------------------------------------------------
\* sendText takes the connection; an automation registers its waiter first.
BeginSend(m, automation) ==
    /\ SendAt(m, "idle") /\ \A k \in 1 .. m - 1 : ~SendAt(k, "idle")
    /\ IF link.up
         THEN /\ sends' = [sends EXCEPT ![m].pc = "ready", ![m].link = link.id,
                                        ![m].automation = automation]
              /\ waiters' = IF automation THEN waiters \cup {m} ELSE waiters
         ELSE /\ sends' = [sends EXCEPT ![m] = Over(m, "notSent")]
              /\ UNCHANGED waiters
    /\ UNCHANGED <<canceledEchoes, seenKeys, channels, frames, answers, pushes, link>>

\* Mutant: a send that is given up leaves its waiter behind.
CancelKeepsWaiter(m, protect) ==
    /\ canceledEchoes' = IF protect /\ m \in waiters THEN canceledEchoes \cup {m} ELSE canceledEchoes
    /\ UNCHANGED waiters

\* cancel: the waiter leaves; unless the message was surely not sent, a late
\* echo of it is to be dropped.
CancelWaiter(m, protect) ==
    /\ waiters' = waiters \ {m}
    /\ canceledEchoes' = IF protect /\ m \in waiters THEN canceledEchoes \cup {m} ELSE canceledEchoes

\* sendChatContent looks at the context before anything is written.
CheckContext(m) ==
    /\ SendAt(m, "ready")
    /\ IF sends[m].ctx = "live"
         THEN /\ sends' = [sends EXCEPT ![m].pc = "writing"]
              /\ channels' = [channels EXCEPT ![m] = "empty"]
              /\ UNCHANGED <<waiters, canceledEchoes>>
         ELSE /\ sends' = [sends EXCEPT ![m] = Over(m, "notSent")]
              /\ CancelWaiter(m, FALSE)
              /\ UNCHANGED channels
    /\ UNCHANGED <<seenKeys, frames, answers, pushes, link>>

WriteFrame(m) ==
    /\ SendAt(m, "writing") /\ LinkAlive(m)
    /\ frames' = [frames EXCEPT ![m] = "written"]
    /\ sends' = [sends EXCEPT ![m].pc = "awaiting"]
    /\ UNCHANGED <<waiters, canceledEchoes, seenKeys, channels, answers, pushes, link>>

\* Mutant: a request without an answer counts as not sent.
EndNotSent(m) ==
    /\ sends' = [sends EXCEPT ![m] = Over(m, "notSent")]
    /\ channels' = [channels EXCEPT ![m] = "closed"]
    /\ CancelWaiter(m, TRUE)

\* The request ends without an answer that settles it.
EndUnknown(m) ==
    /\ sends' = [sends EXCEPT ![m] = Over(m, "unknown")]
    /\ channels' = [channels EXCEPT ![m] = "closed"]
    /\ CancelWaiter(m, TRUE)

\* A write cut short, by the context or by the connection, may have left.
WriteCutShort(m) ==
    /\ SendAt(m, "writing") /\ (sends[m].ctx # "live" \/ ~LinkAlive(m))
    /\ \E left \in {"none", "written"} : frames' = [frames EXCEPT ![m] = left]
    /\ EndUnknown(m)
    /\ UNCHANGED <<seenKeys, answers, pushes, link>>

\* readPump puts an answer into the channel of the request that waits for it;
\* nobody may wait for it any more, and a channel holds one answer.
DispatchResponse(a) ==
    /\ a \in answers /\ link.up
    /\ answers' = answers \ {a}
    /\ channels' = IF channels[a.mid] = "empty"
                     THEN [channels EXCEPT ![a.mid] = a.kind] ELSE channels
    /\ UNCHANGED <<sends, waiters, canceledEchoes, seenKeys, frames, pushes, link>>

\* The request returns an answer, also when its connection has just ended.
TakeAnswer(m) ==
    /\ SendAt(m, "awaiting") /\ channels[m] \in Kinds
    /\ channels' = [channels EXCEPT ![m] = "closed"]
    /\ LET told == [sends EXCEPT ![m].answer = channels[m]] IN
       CASE channels[m] = "verified" ->
              /\ sends' = [told EXCEPT ![m].pc = "observing"]
              /\ UNCHANGED <<waiters, canceledEchoes>>
         [] channels[m] = "bare" ->
              /\ sends' = [told EXCEPT ![m].pc = "confirming"]
              /\ UNCHANGED <<waiters, canceledEchoes>>
         [] channels[m] = "rejected" ->
              /\ sends' = [told EXCEPT ![m].pc = "over", ![m].result = "notSent"]
              /\ CancelWaiter(m, FALSE)
         [] OTHER ->
              /\ sends' = [told EXCEPT ![m].pc = "over", ![m].result = "unknown"]
              /\ CancelWaiter(m, TRUE)
    /\ UNCHANGED <<seenKeys, frames, answers, pushes, link>>

\* The reader has ended without an answer, or the context has; select may see
\* the context first although the answer is there.
GiveUpRequest(m) ==
    /\ SendAt(m, "awaiting")
    /\ sends[m].ctx # "live" \/ (~LinkAlive(m) /\ channels[m] = "empty")
    /\ EndUnknown(m)
    /\ UNCHANGED <<seenKeys, frames, answers, pushes, link>>

------------------------------------------------------------------------------
\* Mutant: the first waiter of the text is taken for the one that is meant.
EchoedByText(mid) == {w \in waiters : \A k \in waiters : w <= k}

\* The waiter an echo confirms.  Every waiter carries a mid, so an echo
\* without one is nobody's while anyone waits.
Echoed(mid) == {w \in waiters : w = mid}

\* observePlatform: an id confirms once; the late echo of a canceled send is
\* used up; otherwise the waiter with that mid is woken.
ObservePlatform(key, mid, calls) ==
    IF (mid = NoMid /\ waiters # {}) \/ key \in seenKeys
      THEN sends' = calls /\ UNCHANGED <<waiters, canceledEchoes, seenKeys>>
      ELSE IF mid \in canceledEchoes
      THEN sends' = calls /\ canceledEchoes' = canceledEchoes \ {mid} /\ UNCHANGED <<waiters, seenKeys>>
      ELSE /\ waiters' = waiters \ Echoed(mid)
           /\ sends' = [m \in Mid |->
                IF m \in Echoed(mid) THEN [calls[m] EXCEPT !.done = TRUE] ELSE calls[m]]
           /\ seenKeys' = IF Echoed(mid) = {} THEN seenKeys ELSE seenKeys \cup {key}
           /\ UNCHANGED canceledEchoes

\* The sender itself observes the text in its answer.
ObserveAnswer(m) ==
    /\ SendAt(m, "observing")
    /\ ObservePlatform(m, m, [sends EXCEPT ![m].pc = "confirming"])
    /\ UNCHANGED <<channels, frames, answers, pushes, link>>

\* The account's own message comes back in a sync push, which has no mid.
OwnPush(m) ==
    /\ m \in pushes /\ link.up
    /\ pushes' = pushes \ {m}
    /\ ObservePlatform(m, NoMid, sends)
    /\ UNCHANGED <<channels, frames, answers, link>>

\* confirmOutgoingEcho: a send without waiter needs no echo; one that is woken
\* may still see that its caller has gone; one that is not runs out of time.
ConfirmEcho(m) ==
    /\ SendAt(m, "confirming")
    /\ \/ /\ ~sends[m].automation \/ sends[m].done
          /\ sends' = [sends EXCEPT ![m] = Over(m, "delivered")]
          /\ UNCHANGED <<waiters, canceledEchoes>>
       \/ /\ sends[m].automation /\ (~sends[m].done \/ sends[m].ctx = "canceled")
          /\ sends' = [sends EXCEPT ![m] = Over(m, "unknown")]
          /\ CancelWaiter(m, TRUE)
    /\ UNCHANGED <<seenKeys, channels, frames, answers, pushes, link>>

\* The deadline of the send passes, or its caller gives up, which the
\* confirmation notices too.
EndContext(m) ==
    /\ InFlight(m) /\ sends[m].ctx = "live"
    /\ \E ctx \in {"expired", "canceled"} : sends' = [sends EXCEPT ![m].ctx = ctx]
    /\ UNCHANGED <<waiters, canceledEchoes, seenKeys, channels, frames, answers, pushes, link>>

\* A canceled send is protected from its late echo for thirty seconds.
ForgetCanceled(m) ==
    /\ m \in canceledEchoes
    /\ canceledEchoes' = canceledEchoes \ {m}
    /\ UNCHANGED <<sends, waiters, seenKeys, channels, frames, answers, pushes, link>>

------------------------------------------------------------------------------
\* The platform takes or refuses a written frame, and may answer it on the
\* connection it came from.  A bare 200 proves neither.
PlatformActs(m, taken) ==
    /\ frames[m] = "written"
    /\ frames' = [frames EXCEPT ![m] = IF taken THEN "taken" ELSE "refused"]
    /\ pushes' = IF taken THEN pushes \cup {m} ELSE pushes
    /\ \/ UNCHANGED answers
       \/ /\ LinkAlive(m)
          /\ \E kind \in {"bare", "unclear", IF taken THEN "verified" ELSE "rejected"} :
               answers' = answers \cup {[mid |-> m, kind |-> kind]}
    /\ UNCHANGED <<sends, waiters, canceledEchoes, seenKeys, channels, link>>

LoseLink ==
    /\ link.up
    /\ link' = [link EXCEPT !.up = FALSE]
    /\ answers' = {}
    /\ UNCHANGED <<sends, waiters, canceledEchoes, seenKeys, channels, frames, pushes>>

OpenLink ==
    /\ ~link.up /\ link.id < MaxLinks
    /\ link' = [id |-> link.id + 1, up |-> TRUE]
    /\ UNCHANGED <<sends, waiters, canceledEchoes, seenKeys, channels, frames, answers, pushes>>

SendStep(m) ==
    \/ CheckContext(m) \/ WriteFrame(m) \/ WriteCutShort(m) \/ TakeAnswer(m) \/ GiveUpRequest(m)
    \/ ObserveAnswer(m) \/ ConfirmEcho(m)

MessageNext ==
    \/ \E m \in Mid :
         \/ \E automation \in BOOLEAN : BeginSend(m, automation)
         \/ SendStep(m) \/ EndContext(m) \/ ForgetCanceled(m) \/ OwnPush(m)
         \/ \E taken \in BOOLEAN : PlatformActs(m, taken)
    \/ \E a \in answers : DispatchResponse(a)
    \/ LoseLink \/ OpenLink

\* A send runs on, and its deadline comes.
MessageSpec ==
    /\ MessageInit /\ [][MessageNext]_messageVars
    /\ \A m \in Mid : WF_messageVars(SendStep(m)) /\ WF_messageVars(EndContext(m))

------------------------------------------------------------------------------
MessageTypeOK ==
    /\ sends \in [Mid -> [pc : {"idle", "ready", "writing", "awaiting", "observing", "confirming",
                                "over"},
                          automation : BOOLEAN, link : 0 .. MaxLinks,
                          ctx : {"live", "expired", "canceled"}, answer : Kinds \cup {"none"},
                          done : BOOLEAN, result : {"none", "delivered", "notSent", "unknown"}]]
    /\ canceledEchoes \subseteq Mid /\ seenKeys \subseteq Mid /\ pushes \subseteq Mid
    /\ channels \in [Mid -> Kinds \cup {"closed", "empty"}]
    /\ frames \in [Mid -> {"none", "written", "taken", "refused"}]
    /\ answers \subseteq [mid : Mid, kind : Kinds]
    /\ link \in [id : 1 .. MaxLinks, up : BOOLEAN]

\* "Not sent", which lets an automation send again, is never said of a message
\* the platform has or may still get.
NotSentIsNotSent ==
    \A m \in Mid : sends[m].result = "notSent" => frames[m] \in {"none", "refused"}

\* An automation's message is confirmed by its own answer, never by the echo of
\* an equal text; and its own answer does confirm it unless its caller has gone.
ConfirmedByOwnEcho ==
    \A m \in Mid :
        /\ sends[m].done => sends[m].answer = "verified" /\ frames[m] = "taken"
        /\ sends[m].automation /\ SendAt(m, "over") =>
             /\ sends[m].result = "delivered" => sends[m].done
             /\ sends[m].answer = "verified" /\ sends[m].ctx # "canceled"
                  => sends[m].result = "delivered"

\* The tables hold exactly what is under way: no waiter and no request outlives
\* its call.
NothingLeft ==
    /\ waiters = {m \in Mid : InFlight(m) /\ sends[m].automation /\ ~sends[m].done}
    /\ \A m \in Mid : channels[m] # "closed" <=> sends[m].pc \in {"writing", "awaiting"}

\* What a caller of sendText is told agrees with the platform and the tracker.
MessagesSafe == NotSentIsNotSent /\ ConfirmedByOwnEcho /\ NothingLeft

\* Every send returns.
SendReturns == \A m \in Mid : SendAt(m, "ready") ~> SendAt(m, "over")

=============================================================================
