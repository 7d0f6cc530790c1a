------------------------------ MODULE ReplyOnce ------------------------------
(***************************************************************************)
(* The default reply of one chat that is to be sent once (reply_once):     *)
(* ReplyService.Handle claims the chat's row in default_reply_records,     *)
(* sends the image and then the text through the chat application, and     *)
(* writes back what is known: the parts that went out, and whether the     *)
(* reply is sent, failed (the rest may be retried) or uncertain (nobody    *)
(* may retry).  Two debounced messages of a chat may be handled at once.   *)
(*                                                                         *)
(* Simplified: the configured reply has an image and a text throughout;    *)
(* the wording, the other three reply sources and the AI quote are left    *)
(* out; a lease is fresh or lapsed.                                        *)
(***************************************************************************)
EXTENDS Naturals, FiniteSets

CONSTANTS
    Replier,        \* callbacks that may handle a message of the chat
    MaxCopies,      \* bound: times the platform accepts a part
    MaxReplyEnv,    \* bound: crashes and operators' resets
    MaxGaps         \* bound: gaps of the record one behaviour goes through

ASSUME ReplyBounds == MaxCopies \in Nat /\ MaxReplyEnv \in Nat /\ MaxGaps \in Nat

VARIABLES
    replyRecord,    \* the row of default_reply_records
    repliers,       \* [Replier -> where its call of Handle stands]
    copies,         \* history: [part -> messages the platform accepted since the last reset]
    windows,        \* history: the known gaps of the record a behaviour went through
    replyEnv

replyVars == <<replyRecord, repliers, copies, windows, replyEnv>>

Part == {"image", "text"}

NoRecord == [status |-> "none", sent |-> {}, quarantined |-> FALSE, lapsed |-> FALSE]

NoReply == [pc |-> "idle", sent |-> {}, got |-> {}, outcome |-> "none"]

ReplyInit ==
    /\ replyRecord = NoRecord
    /\ repliers = [r \in Replier |-> NoReply]
    /\ copies = [p \in Part |-> 0]
    /\ windows = {}
    /\ replyEnv = 0

Sends(r) == repliers[r].pc \in {"image", "text", "marking", "settling"}

Under(r) == repliers[r].pc # "idle"

\* The step goes through the gap when the condition holds.
Gap(name, condition) ==
    /\ windows' = IF condition THEN windows \cup {name} ELSE windows
    /\ Cardinality(windows') <= MaxGaps

------------------------------------------------------------------------------
\* ClaimRecord inserts a row in status sending, or finds the one there is.
InsertRecord(r) ==
    /\ repliers[r].pc = "idle"
    /\ IF replyRecord.status = "none"
         THEN /\ replyRecord' = [NoRecord EXCEPT !.status = "sending"]
              /\ repliers' = [repliers EXCEPT ![r].pc = "image"]
         ELSE /\ repliers' = [repliers EXCEPT ![r].pc = "reading"]
              /\ UNCHANGED replyRecord
    /\ UNCHANGED <<copies, windows, replyEnv>>

\* It reads the row: a reply that is sent, or a row just deleted, ends the call.
ReadRecord(r) ==
    /\ repliers[r].pc = "reading"
    /\ repliers' = [repliers EXCEPT ![r] =
         IF replyRecord.status \in {"none", "sent"}
           THEN NoReply
           ELSE [@ EXCEPT !.pc = "claiming", !.sent = replyRecord.sent]]
    /\ UNCHANGED <<replyRecord, copies, windows, replyEnv>>

\* Mutant: a reply that was being sent is taken over like a failed one.
RetakableSending == replyRecord.status \in {"failed", "sending"}

\* A failed reply, or a pending one whose lease lapsed, may be taken over.
Retakable ==
    \/ replyRecord.status = "failed"
    \/ replyRecord.status = "pending" /\ replyRecord.lapsed /\ ~replyRecord.quarantined

\* The conditional UPDATE; the caller goes on with the flags it read before.
TakeOver(r) ==
    /\ repliers[r].pc = "claiming"
    /\ IF Retakable
         THEN /\ replyRecord' = [replyRecord EXCEPT !.status = "pending", !.lapsed = FALSE,
                                                    !.quarantined = FALSE]
              /\ repliers' = [repliers EXCEPT ![r] =
                   IF @.sent = Part THEN NoReply ELSE [@ EXCEPT !.pc = "image"]]
              /\ Gap("staleFlags", repliers[r].sent # replyRecord.sent)
         ELSE /\ repliers' = [repliers EXCEPT ![r] = NoReply]
              /\ UNCHANGED <<replyRecord, windows>>
    /\ UNCHANGED <<copies, replyEnv>>

------------------------------------------------------------------------------
\* SendReply sends the parts that are not recorded as sent, the image first.
AfterPart(p) == IF p = "image" THEN "text" ELSE "marking"

SkipPart(r, p) ==
    /\ repliers[r].pc = p /\ p \in repliers[r].sent
    /\ repliers' = [repliers EXCEPT ![r].pc = AfterPart(p)]
    /\ UNCHANGED <<replyRecord, copies, windows, replyEnv>>

\* What SendImageURL or SendText tells of the part, and whether the platform
\* has accepted it: a part delivered whose local status could not be saved
\* counts as sent and ends the reply as uncertain.
PartResults ==
    [told : {"delivered", "unsaved"}, accepted : {1}]
        \cup [told : {"unknown"}, accepted : {0, 1}]
        \cup [told : {"refused"}, accepted : {0}]

SendPart(r, p) ==
    /\ repliers[r].pc = p /\ p \notin repliers[r].sent
    /\ \E result \in PartResults :
         /\ copies[p] + result.accepted <= MaxCopies
         /\ copies' = [copies EXCEPT ![p] = @ + result.accepted]
         /\ repliers' = [repliers EXCEPT ![r] =
              [repliers[r] EXCEPT
                 !.got = IF result.told \in {"delivered", "unsaved"} THEN @ \cup {p} ELSE @,
                 !.outcome = CASE result.told = "refused" -> "failed"
                               [] result.told \in {"unsaved", "unknown"} -> "uncertain"
                               [] OTHER -> "sent",
                 !.pc = IF result.told = "delivered" THEN AfterPart(p) ELSE "marking"]]
    /\ UNCHANGED <<replyRecord, windows, replyEnv>>

------------------------------------------------------------------------------
\* The updates of the row name the chat only: they change whatever row it has.
Existing(row) == IF replyRecord.status = "none" THEN NoRecord ELSE row

\* Mutant: an unknown result is recorded as a failure.
QuarantinedAsFailed == {Existing([replyRecord EXCEPT !.status = "failed"])}

\* Mutant: the substitute for uncertain is an ordinary pending row.
QuarantinedWithoutMark ==
    {Existing([replyRecord EXCEPT !.status = "uncertain"]),
     Existing([replyRecord EXCEPT !.status = "pending", !.lapsed = TRUE])}

\* MarkRecordUncertain: the status, or else a pending row marked not to be
\* retaken; when neither can be written the row stays as it is.
Quarantined ==
    {Existing([replyRecord EXCEPT !.status = "uncertain", !.lapsed = FALSE, !.quarantined = FALSE]),
     Existing([replyRecord EXCEPT !.status = "pending", !.lapsed = TRUE, !.quarantined = TRUE]),
     replyRecord}

Quarantine(r) ==
    /\ replyRecord' \in Quarantined
    /\ Gap("unquarantined", replyRecord' = replyRecord /\ replyRecord.status = "pending")
    /\ repliers' = [repliers EXCEPT ![r] = NoReply]

\* MarkPartSent, the image first, after both parts were tried.
MarkPart(r, p) ==
    /\ repliers[r].pc = "marking" /\ p \in repliers[r].got
    /\ p = "text" => "image" \notin repliers[r].got
    /\ \/ /\ replyRecord' = Existing([replyRecord EXCEPT !.sent = @ \cup {p}])
          /\ repliers' = [repliers EXCEPT ![r].got = @ \ {p}]
          /\ UNCHANGED windows
       \/ Quarantine(r)
    /\ UNCHANGED <<copies, replyEnv>>

MarksDone(r) ==
    /\ repliers[r].pc = "marking" /\ repliers[r].got = {}
    /\ repliers' = [repliers EXCEPT ![r].pc = "settling"]
    /\ UNCHANGED <<replyRecord, copies, windows, replyEnv>>

\* MarkRecordSent (or, when it cannot be written, uncertain), MarkRecordFailed
\* or MarkRecordUncertain, by what SendReply returned.
SettleReply(r) ==
    /\ repliers[r].pc = "settling"
    /\ \/ /\ repliers[r].outcome = "sent"
          /\ replyRecord' = Existing([replyRecord EXCEPT !.status = "sent", !.quarantined = FALSE,
                                                         !.lapsed = FALSE])
          /\ repliers' = [repliers EXCEPT ![r] = NoReply]
          /\ UNCHANGED windows
       \/ /\ repliers[r].outcome = "failed"
          /\ replyRecord' \in {Existing([replyRecord EXCEPT !.status = "failed", !.lapsed = FALSE,
                                                            !.quarantined = FALSE]),
                               replyRecord}
          /\ repliers' = [repliers EXCEPT ![r] = NoReply]
          /\ UNCHANGED windows
       \/ repliers[r].outcome \in {"sent", "uncertain"} /\ Quarantine(r)
    /\ UNCHANGED <<copies, replyEnv>>

------------------------------------------------------------------------------
\* The five minutes of a pending row's lease pass.
PendingLapses ==
    /\ replyRecord.status = "pending" /\ ~replyRecord.lapsed
    /\ replyRecord' = [replyRecord EXCEPT !.lapsed = TRUE]
    /\ Gap("overrun", \E r \in Replier : Sends(r))
    /\ UNCHANGED <<repliers, copies, replyEnv>>

\* The operator resets the account's records, whoever is replying.
ClearRecords ==
    /\ replyEnv < MaxReplyEnv /\ replyEnv' = replyEnv + 1
    /\ replyRecord' = NoRecord
    /\ copies' = [p \in Part |-> 0]
    /\ Gap("clearedUnder", \E r \in Replier : Under(r))
    /\ UNCHANGED repliers

\* The process ends; a retry that is cut off leaves a lease that will lapse.
ReplyCrash ==
    /\ \E r \in Replier : Under(r)
    /\ replyEnv < MaxReplyEnv /\ replyEnv' = replyEnv + 1
    /\ repliers' = [r \in Replier |-> NoReply]
    /\ Gap("cutRetry", replyRecord.status = "pending" /\ \E r \in Replier : Sends(r))
    /\ UNCHANGED <<replyRecord, copies>>

ReplyNext ==
    \/ \E r \in Replier :
         \/ InsertRecord(r) \/ ReadRecord(r) \/ TakeOver(r)
         \/ MarksDone(r) \/ SettleReply(r)
         \/ \E p \in Part : SkipPart(r, p) \/ SendPart(r, p) \/ MarkPart(r, p)
    \/ PendingLapses \/ ClearRecords \/ ReplyCrash

ReplySpec == ReplyInit /\ [][ReplyNext]_replyVars

------------------------------------------------------------------------------
ReplyTypeOK ==
    /\ replyRecord \in [status : {"none", "sending", "pending", "failed", "uncertain", "sent"},
                        sent : SUBSET Part, quarantined : BOOLEAN, lapsed : BOOLEAN]
    /\ replyRecord.lapsed \/ replyRecord.quarantined => replyRecord.status = "pending"
    /\ repliers \in [Replier -> [pc : {"idle", "reading", "claiming", "image", "text", "marking",
                                       "settling"},
                                 sent : SUBSET Part, got : SUBSET Part,
                                 outcome : {"none", "sent", "failed", "uncertain"}]]
    /\ copies \in [Part -> 0 .. MaxCopies]
    /\ windows \subseteq {"staleFlags", "unquarantined", "overrun", "clearedUnder", "cutRetry"}

\* Outside the gaps that windows names the buyer gets each part at most once:
\* one call at a time sends (ClaimRecord), a row that is uncertain, sent or
\* marked not to be retaken is not being replied to, and a failed row says
\* exactly which parts went out.
RepliesSafe ==
    windows = {} =>
        /\ Cardinality({r \in Replier : Sends(r)}) <= 1
        /\ replyRecord.status \in {"uncertain", "sent", "failed"} \/ replyRecord.quarantined
             => \A r \in Replier : ~Sends(r)
        /\ \A p \in Part :
             /\ copies[p] <= 1
             /\ p \in replyRecord.sent => copies[p] = 1
             /\ replyRecord.status = "failed" /\ p \notin replyRecord.sent => copies[p] = 0

=============================================================================
