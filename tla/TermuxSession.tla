--------------------------- MODULE TermuxSession ---------------------------
(***************************************************************************)
(* The login of the termux client: the command loop, the heartbeat task    *)
(* that logs the user out, the three files that outlive the process, and   *)
(* the sessions the server keeps.                                          *)
(*                                                                         *)
(* Commands and heartbeat are coroutines of one event loop, and cli.py     *)
(* reads the next command with input(), which blocks that loop: the        *)
(* heartbeat moves only while a command awaits an answer.  One action of   *)
(* the client is the code between two awaits.  Numbers stand for tokens:   *)
(* n is the access or the session token of the server's n-th session.      *)
(***************************************************************************)
EXTENDS Naturals, FiniteSets

CONSTANTS
  Users, NoUser,
  Tasks, NoTask,   \* the heartbeat tasks that may exist at a time
  MaxFails,        \* HEARTBEAT_MAX_FAILS
  MaxSessions,     \* bound: how many logins the server grants
  MaxLate,         \* bound: abandoned requests still on their way
  MaxCrashes       \* bound: how often the process is killed

ASSUME TermuxAssumption ==
  /\ NoUser \notin Users /\ NoTask \notin Tasks
  /\ MaxFails \in Nat \ {0}
  /\ MaxSessions \in Nat /\ MaxLate \in Nat /\ MaxCrashes \in Nat

None     == 0
Sessions == 1 .. MaxSessions
Tokens   == {None} \union Sessions

(***************************************************************************)
(* LOGIN_REQ names a user, LOGOUT_REQ carries the session token,           *)
(* PROFILE_DELETE_REQ and all others ("OTHER") the access token.           *)
(***************************************************************************)
Requests == [type : {"LOGIN"}, user : Users]
              \union [type : {"LOGOUT", "DELETE", "OTHER"}, token : Tokens]
NoCall   == [type |-> "NONE"]
NoReply  == [status |-> "none", session |-> None]
Ok(s)    == [status |-> "ok", session |-> s]
Error    == [status |-> "error", session |-> None]

Asleep  == [pc |-> "asleep", token |-> None, answer |-> "none"]
Over    == [pc |-> "over", token |-> None, answer |-> "none"]
Ping(s) == [pc |-> "calling", token |-> s, answer |-> "none"]

VARIABLES
  accounts,  \* server: the users that exist
  created,   \* server: how many sessions it has granted
  owner,     \* server: whose they are
  valid,     \* server: the sessions that are neither revoked nor expired
  late,      \* requests the client has given up and the server may still get
  access,    \* tokens/access.jwt
  session,   \* tokens/session.token
  profile,   \* profile/profile.json: whose it is
  cli,       \* what the command loop awaits, "prompt", or "off"
  call,      \* the request it has sent
  reply,     \* the answer to it
  hb,        \* the heartbeat tasks
  current,   \* CommandController._heartbeat_task
  failures,  \* CommandController._heartbeat_failures
  blamed,    \* history: the session tokens of the heartbeats counted there
  torn,      \* history: the process was killed between two file operations
  quiet,     \* history: no answer was lost and the process was not killed
  crashes    \* how often the process was killed

server == <<accounts, created, owner, valid>>
files  == <<access, session, profile>>
beat   == <<hb, current, failures, blamed>>
cmd    == <<cli, call, reply>>
vars   == <<server, late, files, cmd, beat, torn, quiet, crashes>>

Awaiting == {"login", "logout", "exit", "delete", "fetch", "edit", "other"}

TypeOK ==
  /\ accounts \subseteq Users
  /\ created \in 0 .. MaxSessions
  /\ owner \in [Sessions -> Users \union {NoUser}]
  /\ valid \subseteq 1 .. created
  /\ late \subseteq Requests
  /\ access \in Tokens /\ session \in Tokens
  /\ profile \in Users \union {NoUser}
  /\ cli \in Awaiting \union {"prompt", "off"}
  /\ call \in Requests \union {NoCall}
  /\ reply \in {NoReply, Error} \union {Ok(s) : s \in Tokens}
  /\ hb \in [Tasks -> {Asleep, Over}
                        \union [pc : {"calling"}, token : Tokens, answer : {"none", "ok", "refused"}]]
  /\ current \in Tasks \union {NoTask}
  /\ failures \in 0 .. MaxFails
  /\ blamed \subseteq Tokens
  /\ torn \in BOOLEAN /\ quiet \in BOOLEAN
  /\ crashes \in 0 .. MaxCrashes

Init ==
  /\ accounts = Users /\ created = 0 /\ owner = [s \in Sessions |-> NoUser] /\ valid = {}
  /\ late = {}
  /\ access = None /\ session = None /\ profile = NoUser
  /\ cli = "off" /\ call = NoCall /\ reply = NoReply
  /\ hb = [t \in Tasks |-> Over] /\ current = NoTask /\ failures = 0 /\ blamed = {}
  /\ torn = FALSE /\ quiet = TRUE /\ crashes = 0

-----------------------------------------------------------------------------
(* The server, as far as a login is concerned.                             *)

\* An access token is checked against the secret of the user's newest session.
Admits(n) == n \in valid /\ \A s \in valid : owner[s] = owner[n] => s <= n

\* LOGIN_REQ with the right password.
Grant(r) ==
  /\ r.type = "LOGIN" /\ r.user \in accounts /\ created < MaxSessions
  /\ created' = created + 1
  /\ owner' = [owner EXCEPT ![created + 1] = r.user]
  /\ valid' = valid \union {created + 1}
  /\ UNCHANGED accounts

Revoke(r) ==
  /\ r.type = "LOGOUT" /\ r.token \in valid
  /\ valid' = valid \ {r.token}
  /\ UNCHANGED <<accounts, created, owner>>

\* PROFILE_DELETE_REQ with the right password takes the user's sessions along.
DeleteAccount(r) ==
  /\ r.type = "DELETE" /\ Admits(r.token)
  /\ accounts' = accounts \ {owner[r.token]}
  /\ valid' = {s \in valid : owner[s] # owner[r.token]}
  /\ UNCHANGED <<created, owner>>

\* What a request may come to.  Only a LOGOUT_REQ for a valid session cannot
\* be refused: all the others may be wrong about something.
Handle(r, answer) ==
  \/ Grant(r) /\ answer = Ok(created + 1)
  \/ Revoke(r) /\ answer = Ok(None)
  \/ DeleteAccount(r) /\ answer = Ok(None)
  \/ r.type = "OTHER" /\ Admits(r.token) /\ answer = Ok(None) /\ UNCHANGED server
  \/ ~(r.type = "LOGOUT" /\ r.token \in valid) /\ answer = Error /\ UNCHANGED server

ServerAnswers ==
  /\ call # NoCall /\ reply = NoReply
  /\ \E answer \in {Error} \union {Ok(s) : s \in Tokens} :
       Handle(call, answer) /\ reply' = answer
  /\ UNCHANGED <<late, files, cli, call, beat, torn, quiet, crashes>>

\* A request reaches the server after its client has given it up.
ServerGetsLate ==
  /\ \E r \in late :
       /\ \E answer \in {Error} \union {Ok(s) : s \in Tokens} : Handle(r, answer)
       /\ late' = late \ {r}
  /\ UNCHANGED <<files, cmd, beat, torn, quiet, crashes>>

\* HEARTBEAT is admitted by the session token.
ServerGetsHeartbeat ==
  /\ \E t \in Tasks :
       /\ hb[t].pc = "calling" /\ hb[t].answer = "none"
       /\ hb' = [hb EXCEPT ![t].answer = IF hb[t].token \in valid THEN "ok" ELSE "refused"]
  /\ UNCHANGED <<server, late, files, cmd, current, failures, blamed, torn, quiet, crashes>>

\* A session runs out, or is revoked from elsewhere.
Expire ==
  /\ \E s \in valid : valid' = valid \ {s}
  /\ UNCHANGED <<accounts, created, owner, late, files, cmd, beat, torn, quiet, crashes>>

-----------------------------------------------------------------------------
(* What the commands and the heartbeat share.                              *)

LoggedIn == access # None \/ session # None
LoopRuns == cli \in Awaiting

LogoutLocal == access' = None /\ session' = None /\ profile' = NoUser /\ torn' = FALSE

\* Mutant: the profile is written only if there is none.
SaveKeepsProfile(s, u) ==
  /\ access' = s /\ session' = s /\ torn' = FALSE
  /\ profile' = IF profile = NoUser THEN u ELSE profile

SaveLogin(s, u) == access' = s /\ session' = s /\ profile' = u /\ torn' = FALSE

Running == current # NoTask /\ hb[current].pc # "over"

\* Mutant: a task that has ended counts as running.
StartUnlessStarted ==
  \/ current # NoTask /\ UNCHANGED beat
  \/ /\ current = NoTask
     /\ \E t \in Tasks : hb[t].pc = "over" /\ hb' = [hb EXCEPT ![t] = Asleep] /\ current' = t
     /\ failures' = 0 /\ blamed' = {}

\* Mutant: the failure counter is not set back.
StartKeepsCount ==
  \/ Running /\ UNCHANGED beat
  \/ /\ ~Running
     /\ \E t \in Tasks : hb[t].pc = "over" /\ hb' = [hb EXCEPT ![t] = Asleep] /\ current' = t
     /\ UNCHANGED <<failures, blamed>>

\* _start_heartbeat(): a task that still runs is left alone, with its count.
StartHeartbeat ==
  \/ Running /\ UNCHANGED beat
  \/ /\ ~Running
     /\ \E t \in Tasks : hb[t].pc = "over" /\ hb' = [hb EXCEPT ![t] = Asleep] /\ current' = t
     /\ failures' = 0 /\ blamed' = {}

\* Mutant: the task is forgotten, and not cancelled.
StopForgets == current' = NoTask /\ failures' = 0 /\ blamed' = {} /\ UNCHANGED hb

StopHeartbeat ==
  /\ hb' = [t \in Tasks |-> IF t = current THEN Over ELSE hb[t]]
  /\ current' = NoTask /\ failures' = 0 /\ blamed' = {}

Send(pc, r) == cli' = pc /\ call' = r /\ reply' = NoReply
Return(pc)  == cli' = pc /\ call' = NoCall /\ reply' = NoReply

\* The request was lost, or is under way and may be handled yet.
Abandon ==
  \/ UNCHANGED late
  \/ /\ call # NoCall /\ reply = NoReply /\ Cardinality(late) < MaxLate
     /\ late' = late \union {call}

\* send_request() raises: an error answer, or none in time.
Raises ==
  \/ reply = Error /\ UNCHANGED <<late, quiet>>
  \/ Abandon /\ quiet' = FALSE

Answered == reply.status = "ok" /\ UNCHANGED <<late, quiet>>

-----------------------------------------------------------------------------
(* The commands.                                                           *)

BeginLogin(u) ==
  /\ cli = "prompt" /\ ~LoggedIn
  /\ Send("login", [type |-> "LOGIN", user |-> u])
  /\ UNCHANGED <<server, late, files, beat, torn, quiet, crashes>>

LoginReturns ==
  /\ cli = "login"
  /\ \/ Answered /\ SaveLogin(reply.session, call.user) /\ StartHeartbeat
     \/ Raises /\ UNCHANGED <<files, beat, torn>>
  /\ Return("prompt")
  /\ UNCHANGED <<server, crashes>>

\* Mutant: the files are deleted before the request is built.
LogoutForgetsFirst(pc) ==
  /\ cli = "prompt" /\ LoggedIn
  /\ StopHeartbeat
  /\ LogoutLocal
  /\ Send(pc, [type |-> "LOGOUT", token |-> None])
  /\ UNCHANGED <<server, late, quiet, crashes>>

\* "logout", and "exit" of somebody who is logged in.
BeginLogout(pc) ==
  /\ cli = "prompt" /\ LoggedIn
  /\ StopHeartbeat
  /\ Send(pc, [type |-> "LOGOUT", token |-> session])
  /\ UNCHANGED <<server, late, files, torn, quiet, crashes>>

\* Whatever comes of it, the files are deleted.
LogoutReturns ==
  /\ cli \in {"logout", "exit"}
  /\ Answered \/ Raises
  /\ LogoutLocal
  /\ Return(IF cli = "exit" THEN "off" ELSE "prompt")
  /\ UNCHANGED <<server, beat, crashes>>

ExitLoggedOut ==
  /\ cli = "prompt" /\ ~LoggedIn
  /\ StopHeartbeat
  /\ Return("off")
  /\ UNCHANGED <<server, late, files, torn, quiet, crashes>>

BeginDelete ==
  /\ cli = "prompt" /\ LoggedIn
  /\ Send("delete", [type |-> "DELETE", token |-> access])
  /\ UNCHANGED <<server, late, files, beat, torn, quiet, crashes>>

\* The heartbeat is not stopped: it finds out when it wakes.
DeleteReturns ==
  /\ cli = "delete"
  /\ \/ Answered /\ LogoutLocal
     \/ Raises /\ UNCHANGED <<files, torn>>
  /\ Return("prompt")
  /\ UNCHANGED <<server, beat, crashes>>

BeginEdit ==
  /\ cli = "prompt" /\ LoggedIn
  /\ Send("fetch", [type |-> "OTHER", token |-> access])
  /\ UNCHANGED <<server, late, files, beat, torn, quiet, crashes>>

\* With or without the profile the user is asked for changes, and the update
\* is sent with the access token there is now.
FetchReturns ==
  /\ cli = "fetch"
  /\ Answered \/ Raises
  /\ Return("prompt") \/ Send("edit", [type |-> "OTHER", token |-> access])
  /\ UNCHANGED <<server, files, beat, torn, crashes>>

\* A new name is written to the profile file, which may be gone by now.
EditReturns ==
  /\ cli = "edit"
  /\ \/ Answered /\ (UNCHANGED profile \/ profile' = owner[call.token])
     \/ Raises /\ UNCHANGED profile
  /\ Return("prompt")
  /\ UNCHANGED <<server, access, session, beat, torn, crashes>>

\* Any command that awaits the server and does not touch the login.
BeginOther ==
  /\ cli = "prompt"
  /\ Send("other", [type |-> "OTHER", token |-> access])
  /\ UNCHANGED <<server, late, files, beat, torn, quiet, crashes>>

OtherReturns ==
  /\ cli = "other"
  /\ Answered \/ Raises
  /\ Return("prompt")
  /\ UNCHANGED <<server, files, beat, torn, crashes>>

-----------------------------------------------------------------------------
(* _heartbeat_loop().                                                      *)

\* Mutant: the counter is set back before the call, and not after it.
WakeResets(t) ==
  /\ LoopRuns /\ hb[t].pc = "asleep"
  /\ hb' = [hb EXCEPT ![t] = IF LoggedIn THEN Ping(session) ELSE Over]
  /\ failures' = 0 /\ blamed' = {}
  /\ UNCHANGED <<server, late, files, cmd, current, torn, quiet, crashes>>

\* After the interval: stop if the user has logged out, or send HEARTBEAT.
HeartbeatWakes(t) ==
  /\ LoopRuns /\ hb[t].pc = "asleep"
  /\ hb' = [hb EXCEPT ![t] = IF LoggedIn THEN Ping(session) ELSE Over]
  /\ UNCHANGED <<server, late, files, cmd, current, failures, blamed, torn, quiet, crashes>>

HeartbeatSucceeds(t) ==
  /\ LoopRuns /\ hb[t].pc = "calling" /\ hb[t].answer = "ok"
  /\ hb' = [hb EXCEPT ![t] = Asleep]
  /\ failures' = 0 /\ blamed' = {}
  /\ UNCHANGED <<server, late, files, cmd, current, torn, quiet, crashes>>

\* is_auth_error: the words it looks for.  Neither of the texts a heartbeat
\* fails with, the server's "authentication required" and the client's own
\* "timeout", contains one of them.
AuthWords == {"401", "403", "unauthorized", "forbidden", "invalid token", "expired",
              "not authenticated"}
IsAuthError(text) == text \in AuthWords

\* Mutant: the failures are counted, and nothing follows from them.
FailsForever(t, text) ==
  /\ hb' = [hb EXCEPT ![t] = Asleep]
  /\ failures' = failures + 1 /\ blamed' = blamed \union {hb[t].token}
  /\ UNCHANGED <<files, torn>>

HeartbeatFails(t, text) ==
  /\ IF IsAuthError(text)
     THEN UNCHANGED <<failures, blamed>>
     ELSE failures' = failures + 1 /\ blamed' = blamed \union {hb[t].token}
  /\ IF IsAuthError(text) \/ failures + 1 >= MaxFails
     THEN LogoutLocal /\ hb' = [hb EXCEPT ![t] = Over]
     ELSE UNCHANGED <<files, torn>> /\ hb' = [hb EXCEPT ![t] = Asleep]

HeartbeatRefused(t) ==
  /\ LoopRuns /\ hb[t].pc = "calling" /\ hb[t].answer = "refused"
  /\ HeartbeatFails(t, "authentication required")
  /\ UNCHANGED <<server, late, cmd, current, quiet, crashes>>

\* No answer in time; one that is there by now is not looked at any more.
HeartbeatTimesOut(t) ==
  /\ LoopRuns /\ hb[t].pc = "calling"
  /\ HeartbeatFails(t, "timeout")
  /\ quiet' = FALSE
  /\ UNCHANGED <<server, late, cmd, current, crashes>>

-----------------------------------------------------------------------------
(* The process.                                                            *)

\* What is not in a file is gone.
ProcessEnds ==
  /\ Return("off")
  /\ hb' = [t \in Tasks |-> Over] /\ current' = NoTask /\ failures' = 0 /\ blamed' = {}

\* run_cli(): a login of an earlier run is taken up again.
Start ==
  /\ cli = "off"
  /\ Return("prompt")
  /\ IF LoggedIn THEN StartHeartbeat ELSE UNCHANGED beat
  /\ UNCHANGED <<server, late, files, torn, quiet, crashes>>

\* End of input, or Ctrl-C, at the prompt: the login is kept.
Quit ==
  /\ cli = "prompt"
  /\ ProcessEnds
  /\ UNCHANGED <<server, late, files, torn, quiet, crashes>>

Die == cli # "off" /\ crashes < MaxCrashes /\ crashes' = crashes + 1
         /\ quiet' = FALSE /\ ProcessEnds /\ UNCHANGED server

Killed == Die /\ Abandon /\ UNCHANGED <<files, torn>>

\* Killed after the first or the second of the three files of a login.
KilledInSave ==
  /\ cli = "login" /\ reply.status = "ok"
  /\ access' = reply.session /\ session' \in {session, reply.session}
  /\ torn' = TRUE
  /\ Die
  /\ UNCHANGED <<late, profile>>

\* Killed after the first or the second of the three files of a logout.
KilledInLogout ==
  /\ \/ cli \in {"logout", "exit"}
     \/ cli = "delete" /\ reply.status = "ok"
     \/ LoopRuns /\ failures + 1 >= MaxFails /\ \E t \in Tasks : hb[t].pc = "calling"
  /\ access' = None /\ session' \in {session, None}
  /\ torn' = TRUE
  /\ Die
  /\ Abandon
  /\ UNCHANGED profile

-----------------------------------------------------------------------------

ServerStep == ServerAnswers \/ ServerGetsLate \/ ServerGetsHeartbeat \/ Expire

UserStep ==
  \/ \E u \in Users : BeginLogin(u)
  \/ BeginLogout("logout") \/ BeginLogout("exit") \/ ExitLoggedOut
  \/ BeginDelete \/ BeginEdit \/ BeginOther \/ Start \/ Quit

CommandReturns ==
  LoginReturns \/ LogoutReturns \/ DeleteReturns \/ FetchReturns \/ EditReturns \/ OtherReturns

HeartbeatStep ==
  \E t \in Tasks : \/ HeartbeatWakes(t) \/ HeartbeatSucceeds(t)
                   \/ HeartbeatRefused(t) \/ HeartbeatTimesOut(t)

CrashStep == Killed \/ KilledInSave \/ KilledInLogout

Next == ServerStep \/ UserStep \/ CommandReturns \/ HeartbeatStep \/ CrashStep

Spec == Init /\ [][Next]_vars

\* Every call of the client has a deadline.  Whatever is due in the event loop
\* is done when the loop runs; it may stand still in between, at each prompt.
FairSpec == Spec /\ WF_vars(CommandReturns) /\ SF_vars(HeartbeatStep)

-----------------------------------------------------------------------------
(* Safety.                                                                 *)

\* The heartbeat that runs is the one that _stop_heartbeat() would cancel, and
\* there is no other: however logins, automatic log-outs, deletions and
\* restarts follow each other, no task is left that could end a later login.
HeartbeatIsHeld == \A t \in Tasks : hb[t].pc # "over" => t = current

\* Whoever is logged in is watched, but for the time a logout takes: no login,
\* also none taken up after a restart, is left without a heartbeat.
LoginIsWatched == LoggedIn /\ cli \notin {"off", "logout", "exit"} => Running

\* Every failure that counts towards an automatic log-out was a heartbeat of
\* the login that it would end, or of one whose account is deleted (or that a
\* crash had left without a session token): only after a deletion does a login
\* take over the task, and the count, of another one.
FailuresAreOfThisLogin ==
  LoggedIn => \A s \in blamed \ {session, None} : owner[s] \notin accounts

\* The three files belong together: the tokens are of one session, and the
\* name in the prompt is its owner's, unless the process was killed between
\* two file operations, whatever an edit wrote after an automatic log-out.
FilesAgree == LoggedIn /\ ~torn => access = session /\ profile = owner[session]

\* As long as no answer is lost, the process is not killed and no account is
\* deleted, the server keeps no session that the client does not know of: every
\* way to leave a login tells the server, or the server has ended it before.
\* (After a deletion the old heartbeat may end the next login: see above.)
NoSessionLeaks == quiet /\ accounts = Users => valid \subseteq {session, reply.session}

-----------------------------------------------------------------------------
(* Liveness.                                                               *)

\* A login that the server does not admit any more does not last, provided that
\* the client stays up and the user goes on giving commands.
DeadLogin == LoggedIn /\ session \notin valid
DeadLoginEnds ==
  <>[](cli # "off") /\ []<>LoopRuns => (DeadLogin ~> ~DeadLogin)

=============================================================================
