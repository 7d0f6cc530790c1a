----------------------------- MODULE Conversation -----------------------------
(***************************************************************************)
(* One chat of one account as the message page keeps it: the session row,  *)
(* the rows of chat_messages, and what writes them: pushes observed on the *)
(* WebSocket, the operator's own sends, pages of the platform's history,   *)
(* pages of its conversation list, and the operator who deletes the chat   *)
(* (HideAndClearSession), which may be shown again by what comes later.    *)
(*                                                                         *)
(* The platform numbers its messages 1, 2, ..., and message m has the time *)
(* 2m; the local time, which the rows of own messages saved live have, is  *)
(* the odd number after the newest message's.  Observations are dated by   *)
(* the deletions before them: an epoch begins when a deletion takes its    *)
(* clearedAt.  The clocks agree, and no two events fall into one           *)
(* millisecond.                                                            *)
(*                                                                         *)
(* Simplified: the badge, the read receipts, the role and identity columns *)
(* and is_visible are left out; one page is handled at a time.             *)
(***************************************************************************)
EXTENDS Naturals, Sequences, FiniteSets

CONSTANTS
    MaxPosts,       \* bound: messages on the platform
    MaxDeletes,     \* bound: deletions
    MaxPages,       \* bound: pages fetched
    MaxLocal        \* bound: messages sent from the page

ASSUME ChatBounds ==
    MaxPosts \in Nat /\ MaxDeletes \in Nat /\ MaxPages \in Nat /\ MaxLocal \in Nat

VARIABLES
    posts,          \* platform: the kinds of its messages, in order
    chatPushes,     \* [message -> where its push is]
    observedAt,     \* [message -> epoch in which its push was observed]
    messageRows,    \* [message -> time of its row, 0 when there is none]
    localRows,      \* rows of sends, keyed local-: their times
    session,        \* the session row
    deleter,        \* the call of DeleteConversation
    sender,         \* the call of SendText
    page,           \* the page being recorded
    epoch,
    wipedAt,        \* history: [message -> epoch of the last deletion of its row]
    pages

chatVars == <<posts, chatPushes, observedAt, messageRows, localRows, session, deleter, sender, page,
              epoch, wipedAt, pages>>

Post == 1 .. MaxPosts
Posted == Len(posts)

TimeOf(m) == 2 * m
LocalNow == 2 * Posted + 1

ChatInit ==
    /\ posts = <<>>
    /\ chatPushes = [m \in Post |-> "none"] /\ observedAt = [m \in Post |-> 0]
    /\ messageRows = [m \in Post |-> 0] /\ localRows = <<>>
    /\ session = [hidden |-> FALSE, cleared |-> 0, cutoff |-> 0, last |-> 0]
    /\ deleter = [pc |-> "idle", stamp |-> 0]
    /\ sender = [pc |-> "idle", row |-> 0]
    /\ page = [kind |-> "none", upto |-> 0, next |-> 0]
    /\ epoch = 0 /\ wipedAt = [m \in Post |-> 0] /\ pages = 0

\* Mutant: a deletion does not wait for a send.
GateFreeBesideSend == deleter.pc = "idle"

\* The gate of the chat is held by a send or by a deletion.
GateFree == deleter.pc = "idle" /\ sender.pc = "idle"

------------------------------------------------------------------------------
\* Someone writes: the buyer, or the seller from another client.
PostMessage(kind) ==
    /\ Posted < MaxPosts
    /\ posts' = Append(posts, kind)
    /\ chatPushes' = [chatPushes EXCEPT ![Posted + 1] = "due"]

PlatformPosts(kind) ==
    /\ PostMessage(kind)
    /\ UNCHANGED <<observedAt, messageRows, localRows, session, deleter, sender, page, epoch, wipedAt,
                   pages>>

\* handleMessageContext notes when the push was observed, before the debounce;
\* a buyer's message replaces the one that still waits in the debounce.
ObservePush(m) ==
    /\ chatPushes[m] = "due"
    /\ observedAt' = [observedAt EXCEPT ![m] = epoch]
    /\ \E replaced \in IF posts[m] = "own" THEN {{}} ELSE
                       {{}, {k \in Post : chatPushes[k] = "held" /\ posts[k] = "buyer"}} :
         chatPushes' = [k \in Post |-> CASE k = m -> "held" [] k \in replaced -> "lost"
                                         [] OTHER -> chatPushes[k]]
    /\ UNCHANGED <<posts, messageRows, localRows, session, deleter, sender, page, epoch, wipedAt, pages>>

\* A push missed while the connection is down, or dropped at the limit.
LosePush(m) ==
    /\ chatPushes[m] = "due"
    /\ chatPushes' = [chatPushes EXCEPT ![m] = "lost"]
    /\ UNCHANGED <<posts, observedAt, messageRows, localRows, session, deleter, sender, page, epoch,
                   wipedAt, pages>>

------------------------------------------------------------------------------
\* The session after a row of that time was inserted: SaveMessage shows it.
Shown(at) == [session EXCEPT !.hidden = FALSE, !.last = IF @ <= at THEN at ELSE @]

\* Mutant: the deletion's own boundary is excluded.
LiveAcceptedLate(observed) == observed > session.cleared

\* Mutant: what was observed before the deletion is saved after it.
LiveAcceptedAlways(observed) == TRUE

\* Mutant: history ignores the deletion.
HistoryAcceptedAlways(m) == TRUE

\* SaveMessage's two conditions: what this process observed after the last
\* deletion, or what the platform dates later than all that was deleted.
LiveAccepted(observed) == observed >= session.cleared
HistoryAccepted(m) == session.cutoff = 0 \/ TimeOf(m) > session.cutoff

\* RecordIncoming, or RecordOutgoingMessageSent for an own message.
RowTime(m) == IF posts[m] = "own" THEN LocalNow ELSE TimeOf(m)

SaveObserved(m) ==
    /\ chatPushes[m] = "held"
    /\ chatPushes' = [chatPushes EXCEPT ![m] = "done"]
    /\ IF LiveAccepted(observedAt[m]) /\ messageRows[m] = 0
         THEN /\ messageRows' = [messageRows EXCEPT ![m] = RowTime(m)]
              /\ session' = Shown(RowTime(m))
         ELSE UNCHANGED <<messageRows, session>>
    /\ UNCHANGED <<posts, observedAt, localRows, deleter, sender, page, epoch, wipedAt, pages>>

------------------------------------------------------------------------------
\* DeleteConversation takes the gate, then the time.
StartDelete ==
    /\ GateFree /\ epoch < MaxDeletes
    /\ epoch' = epoch + 1
    /\ deleter' = [pc |-> "deleting", stamp |-> epoch + 1]
    /\ UNCHANGED <<posts, chatPushes, observedAt, messageRows, localRows, session, sender, page, wipedAt,
                   pages>>

\* The platform times the chat has shown.
ShownTimes == {session.cutoff, session.last} \cup {messageRows[m] : m \in Post}
                \cup {localRows[i] : i \in DOMAIN localRows}

\* HideAndClearSession, one transaction; a chat already hidden is left alone.
CommitDelete ==
    /\ deleter.pc = "deleting"
    /\ deleter' = [pc |-> "idle", stamp |-> 0]
    /\ IF session.hidden
         THEN UNCHANGED <<session, messageRows, localRows, wipedAt>>
         ELSE /\ \E newest \in ShownTimes :
                   /\ \A t \in ShownTimes : t <= newest
                   /\ session' = [hidden |-> TRUE, cleared |-> deleter.stamp, cutoff |-> newest, last |-> 0]
              /\ messageRows' = [m \in Post |-> 0]
              /\ localRows' = [i \in DOMAIN localRows |-> 0]
              /\ wipedAt' = [m \in Post |-> IF messageRows[m] > 0 THEN deleter.stamp ELSE wipedAt[m]]
    /\ UNCHANGED <<posts, chatPushes, observedAt, sender, page, epoch, pages>>

------------------------------------------------------------------------------
\* SendText, under the gate: the local row, the platform, the row's status.
CreateOutgoing ==
    /\ GateFree /\ Len(localRows) < MaxLocal
    /\ localRows' = Append(localRows, LocalNow)    \* observed now: accepted
    /\ session' = Shown(LocalNow)
    /\ sender' = [pc |-> "sending", row |-> Len(localRows) + 1]
    /\ UNCHANGED <<posts, chatPushes, observedAt, messageRows, deleter, page, epoch, wipedAt, pages>>

SendReachesPlatform ==
    /\ sender.pc = "sending"
    /\ \/ PostMessage("own")
       \/ UNCHANGED <<posts, chatPushes>>           \* refused, or nobody knows
    /\ sender' = [sender EXCEPT !.pc = "recording"]
    /\ UNCHANGED <<observedAt, messageRows, localRows, session, deleter, page, epoch, wipedAt, pages>>

RecordSendStatus ==
    /\ sender.pc = "recording"
    /\ sender' = [pc |-> "idle", row |-> 0]
    /\ UNCHANGED <<posts, chatPushes, observedAt, messageRows, localRows, session, deleter, page, epoch,
                   wipedAt, pages>>

------------------------------------------------------------------------------
\* The platform answers with what it has now; the answer is used later.
FetchPage(kind) ==
    /\ page.kind = "none" /\ pages < MaxPages /\ Posted > 0
    /\ pages' = pages + 1
    /\ page' = [kind |-> kind, upto |-> Posted, next |-> 1]
    /\ UNCHANGED <<posts, chatPushes, observedAt, messageRows, localRows, session, deleter, sender, epoch,
                   wipedAt>>

\* After its last step the page is done.
PageMoves(last) ==
    page' = IF page.next = last THEN [kind |-> "none", upto |-> 0, next |-> 0]
            ELSE [page EXCEPT !.next = @ + 1]

\* RecordHistoryPage saves message by message, the oldest first.
SaveHistory ==
    /\ page.kind = "history"
    /\ LET m == page.next IN
       IF HistoryAccepted(m) /\ messageRows[m] = 0
         THEN messageRows' = [messageRows EXCEPT ![m] = TimeOf(m)] /\ session' = Shown(TimeOf(m))
         ELSE UNCHANGED <<messageRows, session>>
    /\ PageMoves(page.upto)
    /\ UNCHANGED <<posts, chatPushes, observedAt, localRows, deleter, sender, epoch, wipedAt, pages>>

\* Mutant: the summary is written although it is older than the deletion.
UpsertSessionAnyAge(t) ==
    [session EXCEPT !.hidden = @ /\ t <= session.cutoff, !.last = IF @ <= t THEN t ELSE @]

\* RecordConversationPage: UpsertSession, then SyncSessionSummary, each with
\* the time of the newest message the platform had.
UpsertSession(t) ==
    IF t > session.cutoff
      THEN [session EXCEPT !.hidden = FALSE, !.last = IF @ <= t THEN t ELSE @]
      ELSE session

SyncSummary(t) ==
    IF session.last <= t /\ t > session.cutoff
      THEN [session EXCEPT !.hidden = FALSE, !.last = t]
      ELSE session

SaveConversation ==
    /\ page.kind = "conversations"
    /\ session' = IF page.next = 1 THEN UpsertSession(TimeOf(page.upto))
                ELSE SyncSummary(TimeOf(page.upto))
    /\ PageMoves(2)
    /\ UNCHANGED <<posts, chatPushes, observedAt, messageRows, localRows, deleter, sender, epoch, wipedAt,
                   pages>>

ChatNext ==
    \/ \E kind \in {"buyer", "own"} : PlatformPosts(kind)
    \/ \E m \in Post : ObservePush(m) \/ LosePush(m) \/ SaveObserved(m)
    \/ StartDelete \/ CommitDelete
    \/ CreateOutgoing \/ SendReachesPlatform \/ RecordSendStatus
    \/ \E kind \in {"history", "conversations"} : FetchPage(kind)
    \/ SaveHistory \/ SaveConversation

ChatSpec == ChatInit /\ [][ChatNext]_chatVars

------------------------------------------------------------------------------
ChatTypeOK ==
    /\ posts \in UNION {[1 .. n -> {"buyer", "own"}] : n \in 0 .. MaxPosts}
    /\ \A m \in Post : chatPushes[m] = "none" <=> m > Posted
    /\ chatPushes \in [Post -> {"none", "due", "held", "done", "lost"}]
    /\ messageRows \in [Post -> 0 .. 2 * MaxPosts + 1]
    /\ session \in [hidden : BOOLEAN, cleared : 0 .. MaxDeletes, cutoff : 0 .. 2 * MaxPosts + 1,
                    last : 0 .. 2 * MaxPosts + 1]
    /\ session.cleared <= epoch
    /\ deleter.pc = "idle" \/ sender.pc = "idle"

\* A message observed after the deletion is kept, unless a later moment of the
\* same deletion took its row with the others.
NothingSwallowed ==
    \A m \in Post :
        chatPushes[m] = "done" /\ observedAt[m] >= session.cleared =>
            messageRows[m] > 0 \/ (session.cleared > 0 /\ wipedAt[m] = session.cleared)

\* A deleted chat that is hidden has nothing to show.
HiddenIsEmpty ==
    session.hidden =>
        /\ session.last = 0 /\ \A m \in Post : messageRows[m] = 0
        /\ \A i \in DOMAIN localRows : localRows[i] = 0

\* A send under way finds the row it created when it records its status.
SentRecorded == sender.pc # "idle" => localRows[sender.row] > 0

\* Deletion takes all that was there and nothing that comes later.
ConversationSafe == NothingSwallowed /\ HiddenIsEmpty /\ SentRecorded

\* What a deletion removed is shown again only when the platform delivers it
\* again later: no answer fetched before, and no history, brings it back.
DeletedForGood ==
    [][\A m \in Post :
          wipedAt[m] > 0 /\ messageRows[m] = 0 /\ messageRows'[m] > 0 => observedAt[m] >= wipedAt[m]]_chatVars

=============================================================================
