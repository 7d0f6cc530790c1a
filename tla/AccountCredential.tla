-------------------------- MODULE AccountCredential --------------------------
(***************************************************************************)
(* The login credential of one account and everybody who renews it: the    *)
(* connection loop of the running account, the watcher of its late renewal *)
(* answer, the renewal scheduler with its own watcher, the login-status    *)
(* check, the protocol renewal of an expired session, and new logins.      *)
(*                                                                         *)
(* No platform call runs under the credential lock.  What is read before a *)
(* call may have been replaced when the answer is stored, and each caller  *)
(* deals with it in its own way: it drops the answer, it puts the answer's *)
(* cookies on top of the latest jar (rebase), it does so only if nobody    *)
(* else changed them (conflict check), or it writes its own jar.           *)
(*                                                                         *)
(* A section under the credential lock is one step; a write outside the    *)
(* lock is a step of its own.                                              *)
(***************************************************************************)
EXTENDS Integers

CONSTANTS
    MaxLogins,    \* bound: new logins per behaviour
    MaxAnswers,   \* bound: answers that carry cookies
    MaxRounds,    \* bound: rounds of the connection loop
    MaxScheduled, \* bound: renewals and checks of the scheduler
    SetCookies    \* bound: the sets of cookies that an answer to a renewal carries

ASSUME CredentialBounds ==
    /\ MaxLogins \in Nat /\ MaxAnswers \in Nat /\ MaxRounds \in Nat /\ MaxScheduled \in Nat
    /\ SetCookies \subseteq (SUBSET {"session", "token", "other"}) \ {{}}

VARIABLES
    stored,      \* the credential in the database
    memory,      \* the cookie of the running account
    gate,        \* who holds the refresh gate
    token,       \* the credential the connection's token is bound to, if any
    runner,      \* the connection loop
    late,        \* the watcher of the loop's late renewal answer
    renewer,     \* the scheduler's API renewal
    lateRenewer, \* the watcher of the scheduler's late answer
    checker,     \* the scheduler's login-status check
    shared,      \* the protocol renewal under way
    syncer,      \* UpdateCookieContext after a login
    stop,        \* StopContext of the account
    spent       \* logins, answers, rounds of the loop and calls so far

credentialVars == <<stored, memory, gate, token, runner, late, renewer, lateRenewer, checker,
                    shared, syncer, stop, spent>>

\* The cookies whose fate differs: the session, which a login sets and a
\* renewal refreshes, the request token, which every call may replace, and one
\* that no login sets: a login leaves it unset.  The browser jar in the
\* metadata changes with them.
CookieName == {"session", "token", "other"}
CookieValue == [login : 0 .. MaxLogins, answer : 0 .. MaxAnswers]
Jar == [CookieName -> CookieValue]

LoginJar(l) == [n \in CookieName |-> [login |-> IF n = "other" THEN 0 ELSE l, answer |-> 0]]

Tries == 3

RunnerState == [pc : {"new", "renewGate", "renewCall", "renewAdopt", "top", "tokenGate", "tokenCall",
                      "tokenAdopt", "answered", "captcha", "captchaAdopt", "bind", "adopt", "register",
                      "registering", "online", "expired", "joining", "joined", "primary", "ended"},
                cookie : Jar,                \* the cookie it calls with, or has computed
                used : 0 .. MaxLogins,       \* the login its token was obtained with
                tries : 0 .. Tries, moved : BOOLEAN, pending : BOOLEAN]
AnswerState == [pc : {"none", "called"}, seen : Jar]
CheckerState == [pc : {"none", "called", "expired", "joining", "joined", "primary"}, seen : Jar]
SharedState == [owner : {"none", "run", "checker"}, seen : Jar, late : BOOLEAN]

\* A process between two calls holds no credential.
NoJar == LoginJar(0)
RunAt(pc) == [pc |-> pc, cookie |-> NoJar, used |-> 0, tries |-> 0, moved |-> FALSE, pending |-> FALSE]
NoCall == [pc |-> "none", seen |-> NoJar]
NoShared == [owner |-> "none", seen |-> NoJar, late |-> FALSE]

CredentialInit ==
    /\ stored = LoginJar(0) /\ memory = LoginJar(0)
    /\ gate = "free" /\ token = {}
    /\ runner = RunAt("new")
    /\ late = NoCall /\ renewer = NoCall /\ lateRenewer = NoCall /\ checker = NoCall
    /\ shared = NoShared
    /\ syncer = "none" /\ stop = "none"
    /\ spent = [logins |-> 0, answers |-> 0, rounds |-> 0, calls |-> 0]

-----------------------------------------------------------------------------
(* What an answer does to the stored credential                            *)

\* An answer to a call made with this credential.
FreshValue(seen) == [login |-> seen["session"].login, answer |-> spent.answers + 1]

Answered == spent.answers < MaxAnswers /\ spent' = [spent EXCEPT !.answers = @ + 1]

\* RebaseResponseCookies: the answer's cookies on top of the latest jar.
Rebased(seen, names) == [n \in CookieName |-> IF n \in names THEN FreshValue(seen) ELSE stored[n]]

\* Mutant: only the request token is compared.
TokenConflict(seen, names) == "token" \in names /\ stored["token"] # seen["token"]

\* ResponseCookiesConflict: somebody else changed a cookie that the answer
\* carries.  What else was changed does not matter.
Conflict(seen, names) == \E n \in names : stored[n] # seen[n]

\* An answer that changes nothing that was changed since the call began.
StoresFor(seen) ==
    /\ Answered
    /\ \E names \in SetCookies : ~Conflict(seen, names) /\ stored' = Rebased(seen, names)

\* An answer that is put on the latest jar whatever became of it.
StoresAnyway(seen) ==
    /\ Answered
    /\ \E names \in SetCookies : stored' = Rebased(seen, names)

\* A flat cookie written back whole, with a new request token in it.
Overwritten(jar) == [jar EXCEPT !["token"] = FreshValue(jar)]

-----------------------------------------------------------------------------
(* The account's lifecycle                                                 *)

\* StopContext has marked the account, and canceled the run's context.
Accepting == stop = "none"
Canceled == stop \in {"waiting", "returned"} \/ runner.pc = "ended"

StopTo(before, after) ==
    /\ stop = before /\ stop' = after
    /\ UNCHANGED <<stored, memory, gate, token, runner, late, renewer, lateRenewer, checker, shared, syncer, spent>>

\* StopContext: no new tasks; the cancellation; the registered tasks end.
StopAccount ==
    \/ StopTo("none", "marked")
    \/ StopTo("marked", "waiting")
    \/ late.pc = "none" /\ StopTo("waiting", "returned")

-----------------------------------------------------------------------------
(* The connection loop: start, and the renewal before the first connection *)

others == <<renewer, lateRenewer, checker, shared, syncer>>

RunTo(pc) == runner' = [runner EXCEPT !.pc = pc]
LeaveTo(pc) == runner' = RunAt(pc)          \* and forgets its call

\* prepareRun: a stop that came first refuses the start.
StartRun ==
    /\ runner.pc = "new"
    /\ RunTo(IF ~Accepting THEN "ended" ELSE "renewGate")
    /\ UNCHANGED <<stored, memory, gate, token, late, stop, spent, others>>

\* The gate, the credential lock, the snapshot.
BeginRenewal ==
    /\ runner.pc = "renewGate" /\ gate = "free" /\ ~Canceled
    /\ gate' = "run"
    /\ runner' = [runner EXCEPT !.pc = "renewCall", !.cookie = stored]
    /\ memory' = stored
    /\ UNCHANGED <<stored, token, late, stop, spent, others>>

\* The answer: without cookies, or with cookies for the latest jar.  It
\* may announce that the platform's own call goes on.
CommitRenewal ==
    /\ runner.pc = "renewCall"
    /\ \/ stored' = stored /\ UNCHANGED spent
       \/ ~Canceled /\ StoresAnyway(runner.cookie)
    /\ \E pending \in BOOLEAN :
        runner' = [runner EXCEPT !.pc = "renewAdopt", !.pending = pending,
                                 !.cookie = IF stored' = stored THEN @ ELSE stored']
    /\ UNCHANGED <<memory, gate, token, late, stop, others>>

\* Mutant: a watcher is started without asking whether the account stops.
WatcherAlways ==
    /\ runner.pc = "renewAdopt"
    /\ late' = IF runner.pending THEN [pc |-> "called", seen |-> runner.cookie] ELSE late
    /\ memory' = runner.cookie
    /\ gate' = "free"
    /\ LeaveTo("top")
    /\ UNCHANGED <<stored, token, stop, spent, others>>

\* After the lock: the watcher of a pending answer, the cookie in memory.
FinishRenewal ==
    /\ runner.pc = "renewAdopt"
    /\ late' = IF runner.pending /\ Accepting THEN [pc |-> "called", seen |-> runner.cookie] ELSE late
    /\ memory' = runner.cookie
    /\ gate' = "free"
    /\ LeaveTo("top")
    /\ UNCHANGED <<stored, token, stop, spent, others>>

\* The late answer: gate and lock, then the cookies on top of the latest jar.
PersistLate ==
    /\ late.pc = "called" /\ ~Canceled /\ gate = "free"
    /\ StoresAnyway(late.seen) /\ memory' = stored'
    /\ late' = NoCall
    /\ UNCHANGED <<gate, token, runner, stop, others>>

\* No answer in time, none with cookies, or the run was canceled.
LateEnds ==
    /\ late.pc = "called"
    /\ late' = NoCall
    /\ UNCHANGED <<stored, memory, gate, token, runner, stop, spent, others>>

-----------------------------------------------------------------------------
(* The connection loop: a token for the connection                         *)

\* handleWSConnectFailure: neither a handshake nor a registration that failed
\* is tried again.
ConnectFails == token' = {} /\ LeaveTo("ended")

\* The top of the loop: the context, reloadCookieFromDB, the handshake.
BeginRound ==
    /\ runner.pc = "top" /\ ~Canceled /\ spent.rounds < MaxRounds
    /\ memory' = stored
    /\ \/ RunTo("tokenGate") /\ UNCHANGED token
       \/ ConnectFails
    /\ spent' = [spent EXCEPT !.rounds = @ + 1]
    /\ UNCHANGED <<stored, gate, late, stop, others>>

\* Whoever waits for the gate or sleeps gives up when the context is canceled.
RunCanceled ==
    /\ Canceled /\ runner.pc \in {"renewGate", "top", "tokenGate", "online", "joined"}
    /\ token' = {}
    /\ LeaveTo("ended")
    /\ UNCHANGED <<stored, memory, gate, late, stop, spent, others>>

\* The gate, the credential lock, reloadCookieFromDB and the snapshot.
BeginToken ==
    /\ runner.pc = "tokenGate" /\ gate = "free" /\ ~Canceled
    /\ gate' = "run"
    /\ memory' = stored
    /\ runner' = [RunAt("tokenCall") EXCEPT !.cookie = stored]
    /\ UNCHANGED <<stored, token, late, stop, spent, others>>

\* Mutant: a request that failed leaves the gate to the next one.
TokenKeepsGate(pc) ==
    /\ gate' = "run" /\ token' = {}
    /\ LeaveTo(pc)

\* The request failed for good: the token is cleared, the gate released.
TokenFailsTo(pc) ==
    /\ gate' = "free" /\ token' = {}
    /\ LeaveTo(pc)

\* A canceled request fails, and so does every statement after it.
TokenCanceled ==
    /\ Canceled
    /\ runner.pc \in {"renewCall", "tokenCall", "tokenAdopt", "captcha", "captchaAdopt", "bind"}
    /\ TokenFailsTo("ended")
    /\ UNCHANGED <<stored, memory, late, stop, spent, others>>

\* The answer of a request whose credential was replaced meanwhile, by others
\* or by the answer before it, is dropped and the request repeated; the third
\* time it fails.
CompareToken ==
    /\ runner.pc = "tokenCall"
    /\ \/ /\ stored = runner.cookie /\ ~runner.moved
          /\ runner' = [runner EXCEPT !.pc = "tokenAdopt", !.tries = @ + 1,
                                          !.used = stored["session"].login]
          /\ UNCHANGED <<gate, token>>
       \/ /\ stored # runner.cookie \/ runner.moved
          /\ runner.tries + 1 < Tries
          /\ runner' = [runner EXCEPT !.cookie = stored, !.moved = FALSE, !.tries = @ + 1]
          /\ UNCHANGED <<gate, token>>
       \/ /\ stored # runner.cookie \/ runner.moved
          /\ runner.tries + 1 = Tries
          /\ TokenFailsTo("top")
    /\ UNCHANGED <<stored, memory, late, stop, spent, others>>

\* adoptTokenResponseCookies: the answer's flat cookie, outside the lock.  The
\* metadata read before the request does not follow it.
AdoptToken ==
    /\ runner.pc = "tokenAdopt"
    /\ \/ /\ ~Canceled /\ Answered
          /\ stored' = Overwritten(runner.cookie) /\ memory' = stored'
          /\ \E moved \in BOOLEAN :
              runner' = [runner EXCEPT !.pc = "answered", !.cookie = stored', !.moved = moved]
       \/ /\ RunTo("answered")
          /\ UNCHANGED <<stored, memory, spent>>
    /\ UNCHANGED <<gate, token, late, stop, others>>

\* A token; a risk check, which the handler may solve; an expired session; or
\* an error.
JudgeToken ==
    /\ runner.pc = "answered"
    /\ \/ RunTo("bind") /\ UNCHANGED <<gate, token>>
       \/ RunTo("captcha") /\ UNCHANGED <<gate, token>>
       \/ TokenFailsTo("expired")
       \/ TokenFailsTo("top")
    /\ UNCHANGED <<stored, memory, late, stop, spent, others>>

\* OnTokenCaptchaVerification stores what the browser ended up with.
SolveCaptcha ==
    /\ runner.pc = "captcha" /\ ~Canceled
    /\ Answered
    /\ stored' = Overwritten(runner.cookie)
    /\ runner' = [runner EXCEPT !.pc = "captchaAdopt", !.cookie = stored']
    /\ UNCHANGED <<memory, gate, token, late, stop, others>>

\* The loop stores it again and asks for a token with it.
AdoptCaptcha ==
    /\ runner.pc = "captchaAdopt" /\ ~Canceled
    /\ stored' = runner.cookie /\ memory' = runner.cookie
    /\ \/ /\ runner.tries < Tries
          /\ \E moved \in BOOLEAN : runner' = [runner EXCEPT !.pc = "tokenCall", !.moved = @ \/ moved]
          /\ UNCHANGED <<gate, token>>
       \/ runner.tries = Tries /\ TokenFailsTo("top")
    /\ UNCHANGED <<late, stop, spent, others>>

\* An unsolved risk check ends the run.
CaptchaFails ==
    /\ runner.pc = "captcha"
    /\ TokenFailsTo("ended")
    /\ UNCHANGED <<stored, memory, late, stop, spent, others>>

\* The token is bound to the stored credential, if its cookie still is the one
\* the token was requested with.
BindToken ==
    /\ runner.pc = "bind"
    /\ \/ /\ stored = runner.cookie
          /\ token' = {stored} /\ gate' = "free"
          /\ RunTo("adopt")
       \/ stored # runner.cookie /\ TokenFailsTo("top")
    /\ UNCHANGED <<stored, memory, late, stop, spent, others>>

-----------------------------------------------------------------------------
(* The connection loop: registration                                       *)

\* The loop keeps the cookie of its token.
KeepCookie ==
    /\ runner.pc = "adopt"
    /\ memory' = runner.cookie
    /\ RunTo("register")
    /\ UNCHANGED <<stored, gate, token, late, stop, spent, others>>

\* Mutant: the check looks at the cookie in memory, not at the token's.
BoundInMemory == token # {} /\ memory["session"] \in {jar["session"] : jar \in token}

\* cookieSnapshotMatchesDB
StillBound == token = {stored}

\* The credential was replaced: close, reload, go round.
GoRound ==
    /\ ~StillBound
    /\ memory' = stored /\ token' = {}
    /\ LeaveTo("top")

Register ==
    /\ runner.pc = "register"
    /\ \/ StillBound /\ RunTo("registering") /\ UNCHANGED <<memory, token>>
       \/ GoRound
    /\ UNCHANGED <<stored, gate, late, stop, spent, others>>

\* The second look after the call, which may have failed itself.  The account
\* counts as online from this look on: the lock is released before the
\* connection is marked (markConnectionOnline), so a login that is stored in
\* between meets a connection that is as good as online.
Registered ==
    /\ runner.pc = "registering"
    /\ \/ StillBound /\ RunTo("online") /\ UNCHANGED <<memory, token>>
       \/ StillBound /\ ConnectFails /\ UNCHANGED memory
       \/ GoRound
    /\ UNCHANGED <<stored, gate, late, stop, spent, others>>

\* The connection ends; the account may have been signed out for good.
Disconnected ==
    /\ runner.pc = "online"
    /\ token' = {}
    /\ LeaveTo("top") \/ LeaveTo("ended")
    /\ UNCHANGED <<stored, memory, gate, late, stop, spent, others>>

-----------------------------------------------------------------------------
(* The protocol renewal of an expired session, shared by its callers       *)

RenewalCaller == {"run", "checker"}
PcOf(p) == IF p = "run" THEN runner.pc ELSE checker.pc

\* The caller goes on at pc.
CallerTo(p, pc) ==
    \/ p = "run" /\ LeaveTo(pc) /\ UNCHANGED checker
    \/ p = "checker" /\ checker' = [NoCall EXCEPT !.pc = pc] /\ UNCHANGED runner

AfterRenewal(p, renewed) == IF p = "checker" THEN "none" ELSE IF renewed THEN "top" ELSE "ended"

\* A caller that asks too soon after the last renewal is refused.
RenewalRefused(p) ==
    /\ PcOf(p) = "expired"
    /\ CallerTo(p, AfterRenewal(p, FALSE))
    /\ UNCHANGED <<stored, memory, gate, token, late, renewer, lateRenewer, shared, syncer, stop, spent>>

\* The first caller renews, the others will wait for its result.
BeginShared(p) ==
    /\ PcOf(p) = "expired"
    /\ \/ /\ shared.owner = "none"
          /\ shared' = [owner |-> p, seen |-> stored, late |-> FALSE]
          /\ CallerTo(p, "primary")
       \/ /\ shared.owner # "none"
          /\ CallerTo(p, "joining") /\ UNCHANGED shared
    /\ UNCHANGED <<stored, memory, gate, token, late, renewer, lateRenewer, syncer, stop, spent>>

\* The waiter looks the renewal up again: it may be gone.
JoinShared(p) ==
    /\ PcOf(p) = "joining"
    /\ CallerTo(p, IF shared.owner = "none" THEN AfterRenewal(p, FALSE) ELSE "joined")
    /\ UNCHANGED <<stored, memory, gate, token, late, renewer, lateRenewer, shared, syncer, stop, spent>>

\* Mutant: the end of a renewal wakes its owner only.
FinishAlone(renewed) ==
    /\ shared' = NoShared
    /\ runner' = IF shared.owner = "run" THEN RunAt(AfterRenewal("run", renewed)) ELSE runner
    /\ checker' = IF shared.owner = "checker" THEN NoCall ELSE checker

\* The renewal is over: its owner and who waits for it go on.
Served(p) == shared.owner = p \/ PcOf(p) = "joined"
FinishShared(renewed) ==
    /\ shared' = NoShared
    /\ runner' = IF Served("run") THEN RunAt(AfterRenewal("run", renewed)) ELSE runner
    /\ checker' = IF Served("checker") THEN NoCall ELSE checker

\* persistProtocolRenewalResponse: the conflict check, the latest jar.
StoreShared == StoresFor(shared.seen)
SharedConflicts == \E names \in SetCookies : Conflict(shared.seen, names)

NothingStored == stored' = stored /\ UNCHANGED spent

\* An answer is stored if it carries cookies; the last word may come later.
SharedAnswer ==
    /\ shared.owner # "none"
    /\ \/ /\ StoreShared \/ NothingStored
          /\ \E renewed \in BOOLEAN : FinishShared(renewed)
       \/ /\ ~shared.late
          /\ StoreShared \/ NothingStored
          /\ shared' = [shared EXCEPT !.late = TRUE, !.seen = IF stored' = stored THEN @ ELSE stored']
          /\ UNCHANGED <<runner, checker>>
       \/ /\ SharedConflicts
          /\ FinishShared(FALSE)
          /\ NothingStored
    /\ UNCHANGED <<memory, gate, token, late, renewer, lateRenewer, syncer, stop>>

-----------------------------------------------------------------------------
(* The renewal scheduler                                                   *)

loop == <<memory, gate, token, runner, late, shared, syncer, stop>>

CallLeft == spent.calls < MaxScheduled /\ spent' = [spent EXCEPT !.calls = @ + 1]

BeginAPIRenewal ==
    /\ renewer.pc = "none" /\ CallLeft
    /\ renewer' = [pc |-> "called", seen |-> stored]
    /\ UNCHANGED <<stored, lateRenewer, checker, loop>>

\* rejectConflictingAPIRenewal: the answer is refused if it would undo what
\* somebody else changed; otherwise it is stored, and a watcher may wait for
\* the rest of it.
CommitAPIRenewal ==
    /\ renewer.pc = "called"
    /\ renewer' = NoCall
    /\ \/ NothingStored
       \/ StoresFor(renewer.seen)
    /\ \/ UNCHANGED lateRenewer
       \/ lateRenewer.pc = "none" /\ lateRenewer' = renewer
    /\ UNCHANGED <<checker, loop>>

\* The late answer is compared with the snapshot of the request.
CommitLateAPIRenewal ==
    /\ lateRenewer.pc = "called"
    /\ lateRenewer' = NoCall
    /\ \/ NothingStored
       \/ StoresFor(lateRenewer.seen)
    /\ UNCHANGED <<renewer, checker, loop>>

BeginCheck ==
    /\ checker.pc = "none" /\ CallLeft
    /\ checker' = [pc |-> "called", seen |-> stored]
    /\ UNCHANGED <<stored, renewer, lateRenewer, loop>>

\* Mutant: the answer of the status check is written without comparing.
CheckOverwrites ==
    /\ checker.pc = "called"
    /\ NothingStored \/ (Answered /\ stored' = Overwritten(checker.seen))
    /\ checker' = NoCall \/ checker' = [NoCall EXCEPT !.pc = "expired"]
    /\ UNCHANGED <<renewer, lateRenewer, loop>>

\* The answer's cookies are dropped if the credential was replaced; an
\* expired session is renewed by protocol.
CommitCheck ==
    /\ checker.pc = "called"
    /\ \/ NothingStored
       \/ Answered /\ stored = checker.seen /\ stored' = Overwritten(checker.seen)
    /\ checker' = NoCall \/ checker' = [NoCall EXCEPT !.pc = "expired"]
    /\ UNCHANGED <<renewer, lateRenewer, loop>>

-----------------------------------------------------------------------------
(* Logins                                                                  *)

\* A new login is stored under the lock.
NewLogin ==
    /\ spent.logins < MaxLogins
    /\ spent' = [spent EXCEPT !.logins = @ + 1]
    /\ stored' = LoginJar(spent.logins + 1)
    /\ syncer' = "gate"
    /\ UNCHANGED <<memory, gate, token, runner, late, renewer, lateRenewer, checker, shared, stop>>

\* UpdateCookieContext: gate, lock, and the stored credential into memory.
SyncLogin ==
    /\ syncer = "gate" /\ gate = "free"
    /\ memory' = stored
    /\ syncer' = "none"
    /\ UNCHANGED <<stored, gate, token, runner, late, renewer, lateRenewer, checker, shared, stop, spent>>

\* Its context ends while it waits for the gate.
SyncGivesUp ==
    /\ syncer = "gate"
    /\ syncer' = "none"
    /\ UNCHANGED <<stored, memory, gate, token, runner, late, renewer, lateRenewer, checker, shared, stop, spent>>

-----------------------------------------------------------------------------

LoopStep ==
    \/ StartRun \/ BeginRenewal \/ CommitRenewal \/ FinishRenewal
    \/ BeginRound \/ RunCanceled \/ TokenCanceled \/ BeginToken \/ CompareToken \/ AdoptToken \/ JudgeToken
    \/ SolveCaptcha \/ AdoptCaptcha \/ CaptchaFails \/ BindToken
    \/ KeepCookie \/ Register \/ Registered \/ Disconnected

LateStep == PersistLate \/ LateEnds

RenewalStep == \E p \in RenewalCaller : RenewalRefused(p) \/ BeginShared(p) \/ JoinShared(p)

SchedulerStep ==
    \/ BeginAPIRenewal \/ CommitAPIRenewal \/ CommitLateAPIRenewal
    \/ BeginCheck \/ CommitCheck

CredentialNext ==
    \/ LoopStep \/ LateStep \/ RenewalStep \/ SharedAnswer \/ SchedulerStep
    \/ StopAccount \/ NewLogin \/ SyncLogin \/ SyncGivesUp

CredentialSpec == CredentialInit /\ [][CredentialNext]_credentialVars

-----------------------------------------------------------------------------

\* The gate is held exactly while the loop renews or asks for a token, and a
\* renewal by protocol has exactly one caller that carries it out.
CredentialTypeOK ==
    /\ stored \in Jar /\ memory \in Jar /\ \A jar \in token : jar \in Jar
    /\ runner \in RunnerState /\ late \in AnswerState /\ renewer \in AnswerState
    /\ lateRenewer \in AnswerState /\ checker \in CheckerState /\ shared \in SharedState
    /\ syncer \in {"none", "gate"} /\ stop \in {"none", "marked", "waiting", "returned"}
    /\ gate = IF runner.pc \in {"renewCall", "renewAdopt", "tokenCall", "tokenAdopt", "answered", "captcha",
                                "captchaAdopt", "bind"} THEN "run" ELSE "free"
    /\ \A p \in RenewalCaller : (shared.owner = p) = (PcOf(p) = "primary")

\* An account comes online with the credential in the database: its token was
\* obtained with the login that is stored, and the cookie it keeps is the
\* stored one (registerConnection), whoever renewed or replaced the credential
\* since the token was requested.
OnlineCurrent ==
    [][runner.pc # "online" /\ runner'.pc = "online" =>
          /\ runner.used = stored["session"].login
          /\ memory = stored]_credentialVars

\* A jar whose session and request token are of one login.
WholeJar(jar) == jar["token"].login = jar["session"].login

\* What the scheduler, its watcher, the status check and the protocol renewal
\* have read before their calls.
CalledWith == {renewer.seen, lateRenewer.seen, checker.seen, shared.seen}

\* None of the four ever replaces the session of a login that was stored while
\* they were calling, nor its request token, unless they were called with a
\* jar that was parted already (ResponseCookiesConflict,
\* credentialSnapshotChanged).  The comparison is by cookie: one that no login
\* sets is merged from a stale answer into the jar of the new login, so a jar
\* may hold cookies of two logins all the same.
CommitsForward ==
    [][<<renewer, lateRenewer, checker, shared>>' # <<renewer, lateRenewer, checker, shared>> =>
          /\ stored'["session"].login = stored["session"].login
          /\ (\A jar \in CalledWith : WholeJar(jar))
                => stored'["token"].login = stored["token"].login]_credentialVars

\* Once StopContext has returned no late answer is stored: no watcher runs
\* and none can be registered (watchPendingAPIRenew, beginTask).
StopQuiet == stop = "returned" => late.pc = "none"

\* Nobody waits for ever: a login reaches the running account through the
\* refresh gate, which every way out of a renewal or a token request releases,
\* unless its context ends before that, which it need not; a caller of a
\* renewal under way gets an answer; and StopContext returns although a late
\* answer may be outstanding.
Wait(n) ==
    \/ n = 1 /\ syncer = "gate"
    \/ n = 2 /\ \E p \in RenewalCaller : PcOf(p) = "joined"
    \/ n = 3 /\ stop \in {"marked", "waiting"}
CredentialServed == \A n \in 1 .. 3 : Wait(n) ~> ~Wait(n)

\* "The database credential lock covers the reading of snapshots and the
\* conditional commit" (credential_coordinator.go): no commit replaces the
\* cookies of a login with those of an earlier one.
LoginKept == [][stored'["session"].login >= stored["session"].login]_credentialVars

=============================================================================
