----------------------------- MODULE AccountTasks -----------------------------
(***************************************************************************)
(* The tasks an account runs by itself: it rates the buyers of completed   *)
(* orders and it polishes its items once a day (accountTaskCoordinator,    *)
(* with the rows of account_task_runs).  The scheduler's scan and requests *)
(* of the page execute the same tasks side by side; the row of a key, one  *)
(* per order and one per day, keeps them apart.                            *)
(*                                                                         *)
(* A cookie is the number of the write that stored it.  Simplified: one    *)
(* day, one account, which is neither paused nor disabled; the polish time *)
(* has passed; the page asks only for what is switched on; reading the     *)
(* orders and opening the session are one step; last_rate_scan_at, which   *)
(* only the page reads, is left out; RecoverExpiredCredential is reduced   *)
(* to what it may leave behind (AccountCredential has it).                 *)
(***************************************************************************)
EXTENDS Naturals, Sequences, FiniteSets

CONSTANTS
    Settings,       \* the tasks that may be switched on together
    MaxOrders,      \* bound: completed orders
    DueLimit,       \* LIMIT of DueAutoRateOrderIDs, 200 in the code
    MaxAttempts,    \* accountTaskMaxAttempts, 6 in the code
    Manual,         \* requests of the page
    MaxItems,       \* bound: items on sale, when there are any
    MaxCookies,     \* bound: cookies stored before answers change no more of them
    MaxTaskEnv      \* bound: failures of the database, logins, crashes, renewals

ASSUME TaskBounds ==
    /\ Settings \subseteq SUBSET {"rate", "polish"}
    /\ MaxAttempts \in Nat \ {0}
    /\ MaxOrders \in Nat /\ DueLimit \in Nat /\ MaxItems \in Nat /\ MaxCookies \in Nat /\ MaxTaskEnv \in Nat

VARIABLES
    enabled,        \* auto_rate_enabled, auto_polish_enabled
    completed,      \* how many orders are completed, in the order of completed_at
    tasks,          \* [key -> row of account_task_runs]
    flow,           \* [execution -> its local variables]
    cookie,         \* the stored cookie
    expiredCookie,  \* sessionExpired: the cookie the account is blocked with, or 0
    polishedToday,  \* last_polish_date is today
    fulfilled,      \* history: keys that answered with a complete success
    repeated,       \* history: keys called again after that
    abandoned,      \* history: keys whose holder died or could not write twice
    replaced,       \* history: logins replaced by a cookie that was not based on them
    logins,         \* history: the cookies that logins stored
    taskEnv

taskVars == <<enabled, completed, tasks, flow, cookie, expiredCookie, polishedToday, fulfilled,
              repeated, abandoned, replaced, logins, taskEnv>>

Polish == 0                       \* the key of today's polishing
RateKey == 1 .. MaxOrders         \* the keys of the orders
Key == {Polish} \cup RateKey
Flow == {"scan"} \cup Manual

NoTaskRow == [status |-> "absent", attempts |-> 0, retry |-> "now"]

\* before: the cookie the session was opened with or last wrote; moved: an
\* answer changed the session's cookie since; verdict: of the last answer;
\* ends: the batch stops after this key; expired: with a session error.
Idle == [pc |-> "idle", task |-> "rate", left |-> <<>>, key |-> Polish, items |-> 0, bad |-> FALSE,
         before |-> 0, moved |-> FALSE, verdict |-> "none", result |-> "none", retry |-> "now",
         expired |-> FALSE, due |-> FALSE]

TasksInit ==
    /\ enabled \in Settings
    /\ completed = 0 /\ tasks = [k \in Key |-> NoTaskRow] /\ flow = [f \in Flow |-> Idle]
    /\ cookie = 1 /\ expiredCookie = 0 /\ polishedToday = FALSE
    /\ fulfilled = {} /\ repeated = {} /\ abandoned = {} /\ replaced = {} /\ logins = {} /\ taskEnv = 0

Disturb == taskEnv < MaxTaskEnv /\ taskEnv' = taskEnv + 1

Step(f, new) == flow' = [flow EXCEPT ![f] = new]

------------------------------------------------------------------------------
(* An execution begins: scanAccountTasks, or RunAccountTask of the page.   *)

StartScan ==
    /\ flow["scan"].pc = "idle" /\ ("rate" \in enabled \/ ~polishedToday)
    /\ Step("scan", [Idle EXCEPT !.pc = "gate", !.task = IF "rate" \in enabled THEN "rate" ELSE "polish",
                                 !.due = "polish" \in enabled /\ ~polishedToday])
    /\ UNCHANGED <<completed, tasks, cookie, expiredCookie, polishedToday, fulfilled, repeated,
                   abandoned, replaced, logins, taskEnv>>

StartManual(f, task) ==
    /\ flow[f].pc = "idle"
    /\ Step(f, [Idle EXCEPT !.pc = "gate", !.task = task])
    /\ UNCHANGED <<completed, tasks, cookie, expiredCookie, polishedToday, fulfilled, repeated,
                   abandoned, replaced, logins, taskEnv>>

\* accountTaskSessionBlocked: the account is blocked until its cookie changes.
Blocked == expiredCookie # 0 /\ expiredCookie = cookie

PassGate(f) ==
    /\ flow[f].pc = "gate"
    /\ IF Blocked
       THEN Step(f, Idle) /\ UNCHANGED expiredCookie
       ELSE /\ expiredCookie' = 0
            /\ Step(f, [flow[f] EXCEPT !.pc = IF flow[f].task = "rate" THEN "list" ELSE "claim", !.key = Polish])
    /\ UNCHANGED <<completed, tasks, cookie, polishedToday, fulfilled, repeated, abandoned, replaced,
                   logins, taskEnv>>

\* After the rating the scan goes on with the polishing, unless the settings
\* it read at its start have today's date.
Continue(f) ==
    IF f = "scan" /\ flow[f].task = "rate" /\ flow[f].due
    THEN [Idle EXCEPT !.pc = "gate", !.task = "polish"]
    ELSE Idle

\* A task returns: a session error is followed by the recovery.
Returned(f) ==
    IF flow[f].expired
    THEN [Idle EXCEPT !.pc = "block", !.task = flow[f].task, !.due = flow[f].due]
    ELSE Continue(f)

\* DueAutoRateOrderIDs: the oldest completed orders, whatever their rows say.
DueList == [i \in 1 .. (IF completed < DueLimit THEN completed ELSE DueLimit) |-> i]

ReadDue(f) ==
    /\ flow[f].pc = "list"
    /\ Step(f, IF DueList = <<>> THEN Continue(f)
               ELSE [flow[f] EXCEPT !.pc = "claim", !.left = DueList, !.before = cookie])
    /\ UNCHANGED <<completed, tasks, cookie, expiredCookie, polishedToday, fulfilled, repeated,
                   abandoned, replaced, logins, taskEnv>>

------------------------------------------------------------------------------
(* The row of a key.                                                       *)

\* Mutant: a running row is claimed once more.
ClaimableRunning(k, immediately) ==
    \/ tasks[k].status \in {"absent", "running"}
    \/ /\ tasks[k].status = "failed" /\ tasks[k].attempts < MaxAttempts
       /\ tasks[k].retry = "now" \/ (immediately /\ tasks[k].retry = "later")

\* Mutant: the rows under review are tried again too.
ClaimableReviewed(k, immediately) ==
    \/ tasks[k].status = "absent"
    \/ /\ tasks[k].status \in {"failed", "needs_review"} /\ tasks[k].attempts < MaxAttempts
       /\ tasks[k].retry = "now" \/ (immediately /\ tasks[k].retry = "later")

\* claimRun: a new row, or a failed one that is due and not beyond its attempts.
Claimable(k, immediately) ==
    \/ tasks[k].status = "absent"
    \/ /\ tasks[k].status = "failed" /\ tasks[k].attempts < MaxAttempts
       /\ tasks[k].retry = "now" \/ (immediately /\ tasks[k].retry = "later")

NextKey(f) == IF flow[f].task = "rate" THEN Head(flow[f].left) ELSE Polish

\* Only the page's polishing is claimed immediately.
Immediately(f) == f # "scan" /\ flow[f].task = "polish"

\* What follows a key: the next one, or the end of the task.
After(f) ==
    IF Len(flow[f].left) > 1
    THEN [Idle EXCEPT !.pc = "claim", !.left = Tail(flow[f].left), !.before = flow[f].before,
                      !.due = flow[f].due]
    ELSE Returned(f)

ClaimRun(f) ==
    /\ flow[f].pc = "claim"
    /\ LET k == NextKey(f) IN
         IF Claimable(k, Immediately(f))
         THEN /\ tasks' = [tasks EXCEPT ![k].status = "running", ![k].attempts = @ + 1]
              /\ Step(f, IF flow[f].task = "rate"
                         THEN [flow[f] EXCEPT !.pc = "call", !.key = k]
                         ELSE [flow[f] EXCEPT !.pc = "fetch", !.key = k, !.before = cookie])
         ELSE Step(f, After(f)) /\ UNCHANGED tasks
    /\ UNCHANGED <<completed, cookie, expiredCookie, polishedToday, fulfilled, repeated, abandoned,
                   replaced, logins, taskEnv>>

\* The claim fails: the task returns the error.
ClaimFails(f) ==
    /\ flow[f].pc = "claim" /\ Disturb
    /\ Step(f, Returned(f))
    /\ UNCHANGED <<completed, tasks, cookie, expiredCookie, polishedToday, fulfilled, repeated,
                   abandoned, replaced, logins>>

------------------------------------------------------------------------------
(* The platform answers.                                                   *)

\* The answer may change the session's cookie.
MayMove == IF cookie < MaxCookies THEN BOOLEAN ELSE {FALSE}

\* A call of the key: one that follows its complete success is a repetition.
Called(k) == repeated' = repeated \cup ({k} \cap fulfilled)

\* RateBuyer.  An unknown outcome is an error like another, refused.
RateBuyer(f) ==
    /\ flow[f].pc = "call"
    /\ \E verdict \in {"ok", "refused", "too_late", "session", "token"}, moved \in MayMove :
         /\ Step(f, [flow[f] EXCEPT !.pc = "save", !.verdict = verdict, !.moved = @ \/ moved])
         /\ fulfilled' = IF verdict = "ok" THEN fulfilled \cup {flow[f].key} ELSE fulfilled
    /\ Called(flow[f].key)
    /\ UNCHANGED <<completed, tasks, cookie, expiredCookie, polishedToday, abandoned, replaced, logins,
                   taskEnv>>

\* FetchAllItems, which for no item at all already is the success of the day.
FetchAllItems(f) ==
    /\ flow[f].pc = "fetch"
    /\ \E n \in {0, MaxItems}, verdict \in {"listed", "refused", "session"}, moved \in MayMove :
         /\ verdict # "listed" => n = 0
         /\ Step(f, [flow[f] EXCEPT !.pc = "save", !.verdict = verdict, !.items = n,
                                    !.moved = @ \/ moved])
         /\ fulfilled' = IF verdict = "listed" /\ n = 0 THEN fulfilled \cup {Polish} ELSE fulfilled
    /\ Called(Polish)
    /\ UNCHANGED <<completed, tasks, cookie, expiredCookie, polishedToday, abandoned, replaced, logins,
                   taskEnv>>

PolishItem(f) ==
    /\ flow[f].pc = "item"
    /\ \E verdict \in {"ok", "refused", "session", "token"}, moved \in MayMove :
         /\ Step(f, [flow[f] EXCEPT !.pc = "save", !.verdict = verdict, !.items = @ - 1,
                                    !.bad = @ \/ verdict # "ok", !.moved = @ \/ moved])
         /\ fulfilled' = IF verdict = "ok" /\ flow[f].items = 1 /\ ~flow[f].bad
                         THEN fulfilled \cup {Polish} ELSE fulfilled
    /\ Called(Polish)
    /\ UNCHANGED <<completed, tasks, cookie, expiredCookie, polishedToday, abandoned, replaced, logins,
                   taskEnv>>

------------------------------------------------------------------------------
(* The answer's cookie is saved, then the row is settled.                  *)

Settle(f, result, retry) ==
    [flow[f] EXCEPT !.pc = "finish", !.result = result, !.retry = retry, !.moved = FALSE,
                    !.expired = (flow[f].verdict = "session")]

Review(f) == [flow[f] EXCEPT !.pc = "review", !.moved = FALSE, !.expired = (flow[f].verdict = "session"),
                             !.left = <<>>]

\* What the rating does with an answer once its cookie was saved, or not.
RateAnswered(f, saved) ==
    LET failed == Settle(f, "failed", IF flow[f].verdict = "too_late" THEN "never" ELSE "later")
    IN IF flow[f].verdict = "ok" THEN (IF saved THEN Settle(f, "success", "now") ELSE Review(f))
       ELSE IF flow[f].verdict \in {"session", "token"} \/ ~saved THEN [failed EXCEPT !.left = <<>>]
       ELSE failed

\* After an item, or after the list: the next item, the date, or the end.
NextItem(f) ==
    IF flow[f].items > 0 THEN [flow[f] EXCEPT !.pc = "item", !.moved = FALSE]
    ELSE IF flow[f].bad THEN Settle(f, "failed", "later")
    ELSE [flow[f] EXCEPT !.pc = "mark", !.moved = FALSE]

\* Mutant: the answer of an item whose cookie was not saved ends nothing.
PolishAnsweredLoosely(f, saved) ==
    CASE flow[f].verdict \in {"session", "token"} -> Settle(f, "failed", "now")
      [] flow[f].verdict \in {"ok", "listed", "refused"} /\ flow[f].items = 0 /\ ~saved -> Returned(f)
      [] OTHER -> NextItem(f)

PolishAnswered(f, saved) ==
    IF flow[f].verdict \in {"session", "token"}
    THEN Settle(f, "failed", IF flow[f].bad THEN "now" ELSE "later")
    ELSE IF flow[f].verdict = "refused" /\ ~flow[f].bad THEN Settle(f, "failed", "later")
    ELSE IF flow[f].verdict \in {"ok", "listed", "refused"} /\ ~saved THEN Review(f)
    ELSE NextItem(f)

Answered(f, saved) ==
    IF flow[f].task = "rate" THEN RateAnswered(f, saved) ELSE PolishAnswered(f, saved)

\* Mutant: the stored cookie is not compared with the session's.
CookieUntouchedAlways(f) == TRUE

\* persistTaskCredentialLocked refuses when another flow wrote meanwhile.
CookieUntouched(f) == cookie = flow[f].before

Newest == cookie + 1

SaveCookie(f) ==
    /\ flow[f].pc = "save"
    /\ IF ~flow[f].moved
       THEN Step(f, Answered(f, TRUE)) /\ UNCHANGED <<cookie, replaced>>
       ELSE IF CookieUntouched(f)
       THEN /\ cookie' = Newest
            /\ Step(f, [Answered(f, TRUE) EXCEPT !.before = Newest])
            /\ replaced' = replaced \cup (IF cookie = flow[f].before THEN {} ELSE {cookie} \cap logins)
       ELSE Step(f, Answered(f, FALSE)) /\ UNCHANGED <<cookie, replaced>>
    /\ UNCHANGED <<completed, tasks, expiredCookie, polishedToday, fulfilled, repeated, abandoned,
                   logins, taskEnv>>

\* The database refuses the cookie.
SaveFails(f) ==
    /\ flow[f].pc = "save" /\ flow[f].moved /\ Disturb
    /\ Step(f, Answered(f, FALSE))
    /\ UNCHANGED <<completed, tasks, cookie, expiredCookie, polishedToday, fulfilled, repeated,
                   abandoned, replaced, logins>>

\* MarkPolished, before the row says success; a failure is for review.
MarkPolished(f) ==
    /\ flow[f].pc = "mark"
    /\ \/ polishedToday' = TRUE /\ Step(f, Settle(f, "success", "now")) /\ UNCHANGED taskEnv
       \/ Disturb /\ Step(f, Review(f)) /\ UNCHANGED polishedToday
    /\ UNCHANGED <<completed, tasks, cookie, expiredCookie, fulfilled, repeated, abandoned, replaced,
                   logins>>

\* FinishRun writes whatever the row holds; beyond the attempts a retry is
\* never due, which the claim refuses by itself.
Written(k, status, retry) == [tasks EXCEPT ![k].status = status, ![k].retry = retry]

FinishTask(f) ==
    /\ flow[f].pc = "finish"
    /\ tasks' = Written(flow[f].key, flow[f].result, flow[f].retry)
    /\ Step(f, After(f))
    /\ UNCHANGED <<completed, cookie, expiredCookie, polishedToday, fulfilled, repeated, abandoned,
                   replaced, logins, taskEnv>>

\* Mutant: a result that could not be written is a failure to be tried again.
FinishFailsOnly(f) ==
    /\ flow[f].pc = "finish" /\ Disturb
    /\ tasks' = Written(flow[f].key, "failed", "now")
    /\ Step(f, Returned(f))
    /\ UNCHANGED <<completed, cookie, expiredCookie, polishedToday, fulfilled, repeated, abandoned,
                   replaced, logins>>

\* finishAccountTaskRun: the write fails, perhaps after it took effect, and
\* the row is put under review.
FinishFails(f) ==
    /\ flow[f].pc = "finish" /\ Disturb
    /\ \/ UNCHANGED tasks
       \/ tasks' = Written(flow[f].key, flow[f].result, flow[f].retry)
    /\ Step(f, [flow[f] EXCEPT !.pc = "review", !.left = <<>>])
    /\ UNCHANGED <<completed, cookie, expiredCookie, polishedToday, fulfilled, repeated, abandoned,
                   replaced, logins>>

\* The second write fails as well, or it does not.
QuarantineTask(f) ==
    /\ flow[f].pc = "review"
    /\ \/ tasks' = Written(flow[f].key, "needs_review", "now") /\ UNCHANGED abandoned
       \/ abandoned' = abandoned \cup {flow[f].key} /\ UNCHANGED tasks
    /\ Step(f, Returned(f))
    /\ UNCHANGED <<completed, cookie, expiredCookie, polishedToday, fulfilled, repeated, replaced,
                   logins, taskEnv>>

------------------------------------------------------------------------------
(* recoverAccountTaskCredential, and what happens around the tasks.        *)

\* The cookie that is blocked is the one stored now.
BlockCookie(f) ==
    /\ flow[f].pc = "block"
    /\ expiredCookie' = cookie
    /\ Step(f, [flow[f] EXCEPT !.pc = "renew"])
    /\ UNCHANGED <<completed, tasks, cookie, polishedToday, fulfilled, repeated, abandoned, replaced,
                   logins, taskEnv>>

\* RecoverExpiredCredential may store a cookie, and may say it recovered.
RenewCookie(f) ==
    /\ flow[f].pc = "renew"
    /\ \/ Disturb /\ cookie' = Newest
       \/ UNCHANGED <<cookie, taskEnv>>
    /\ \E recovered \in BOOLEAN : expiredCookie' = IF recovered THEN 0 ELSE expiredCookie
    /\ Step(f, Continue(f))
    /\ UNCHANGED <<completed, tasks, polishedToday, fulfilled, repeated, abandoned, replaced, logins>>

CompleteOrder ==
    /\ completed < MaxOrders /\ "rate" \in enabled
    /\ completed' = completed + 1
    /\ UNCHANGED <<tasks, flow, cookie, expiredCookie, polishedToday, fulfilled, repeated, abandoned,
                   replaced, logins, taskEnv>>

LoginAgain ==
    /\ Disturb
    /\ cookie' = Newest /\ logins' = logins \cup {Newest}
    /\ UNCHANGED <<completed, tasks, flow, expiredCookie, polishedToday, fulfilled, repeated, abandoned,
                   replaced>>

\* Ten minutes pass.
RetryDue ==
    /\ tasks' = [k \in Key |-> IF tasks[k].retry = "later" THEN [tasks[k] EXCEPT !.retry = "now"]
                               ELSE tasks[k]]
    /\ tasks' # tasks
    /\ UNCHANGED <<completed, flow, cookie, expiredCookie, polishedToday, fulfilled, repeated, abandoned,
                   replaced, logins, taskEnv>>

HoldsTask(f, k) == flow[f].key = k /\ flow[f].pc \in {"call", "fetch", "item", "save", "mark", "finish", "review"}

\* The process ends; the running rows stay and nothing looks for them.
CrashTasks ==
    /\ Disturb
    /\ flow' = [f \in Flow |-> Idle] /\ expiredCookie' = 0
    /\ abandoned' = abandoned \cup {k \in Key : \E f \in Flow : HoldsTask(f, k)}
    /\ UNCHANGED <<completed, tasks, cookie, polishedToday, fulfilled, repeated, replaced, logins>>

TasksStep(f) ==
    \/ PassGate(f) \/ ReadDue(f) \/ ClaimRun(f) \/ ClaimFails(f)
    \/ RateBuyer(f) \/ FetchAllItems(f) \/ PolishItem(f) \/ SaveCookie(f) \/ SaveFails(f)
    \/ MarkPolished(f) \/ FinishTask(f) \/ FinishFails(f) \/ QuarantineTask(f)
    \/ BlockCookie(f) \/ RenewCookie(f)

TasksNext ==
    /\ \/ StartScan \/ (\E f \in Manual, task \in enabled : StartManual(f, task))
       \/ \E f \in Flow : TasksStep(f)
       \/ CompleteOrder \/ LoginAgain \/ RetryDue \/ CrashTasks
    /\ UNCHANGED enabled

TasksSpec == TasksInit /\ [][TasksNext]_taskVars

------------------------------------------------------------------------------
(* Properties                                                              *)

TasksTypeOK ==
    /\ completed \in 0 .. MaxOrders /\ polishedToday \in BOOLEAN
    /\ \A k \in Key : /\ tasks[k].status \in {"absent", "running", "failed", "needs_review", "success"}
                      /\ tasks[k].attempts \in 0 .. MaxAttempts
                      /\ tasks[k].retry \in {"now", "later", "never"}
    /\ cookie \in Nat \ {0} /\ expiredCookie \in 0 .. cookie
    /\ \A f \in Flow : flow[f].before \in 0 .. cookie /\ (HoldsTask(f, flow[f].key) => flow[f].before # 0)

\* Two executions never call for the same order, or polish, at the same time,
\* although FinishRun does not ask who writes and may report a failure after
\* its write took effect.
Calls(f, k) == HoldsTask(f, k) /\ flow[f].pc \notin {"finish", "review"}

OneHolder == \A f, g \in Flow, k \in Key : Calls(f, k) /\ Calls(g, k) => f = g

\* "So that an external action that succeeded is not executed again by the
\* next round" (finishAccountTaskRun): whatever fails after the answer.
NothingRepeated == repeated = {}

\* A running row has a holder, or its holder died or could not write at all.
RunningAccounted ==
    \A k \in Key : tasks[k].status = "running" =>
        k \in abandoned \/ \E f \in Flow : HoldsTask(f, k)

\* A polishing that is settled as a success is remembered in the settings too,
\* which is what keeps the scan from starting another one.
PolishMarked == tasks[Polish].status = "success" => polishedToday

\* A cookie that a task's answer changed never replaces a newer login.
LoginStays == replaced = {}

\* The conjunction of the above.
TasksSafe == OneHolder /\ NothingRepeated /\ RunningAccounted /\ PolishMarked /\ LoginStays

\* "The order numbers that can still be consumed by the local auto-rate task"
\* (DueAutoRateOrderIDs): as long as some completed order was never tried, the
\* list holds one that the task can still do something with.
DueReachesAll ==
    (\E k \in 1 .. completed : tasks[k].status = "absent")
      => \E i \in DOMAIN DueList : tasks[DueList[i]].status \in {"absent", "running", "failed"}

=============================================================================
