------------------------ MODULE TermuxSessionProofs ------------------------
(***************************************************************************)
(* Theorems about TermuxSession: the safety properties, for any number of  *)
(* users, sessions, tasks, failures and crashes.                           *)
(***************************************************************************)
EXTENDS TermuxSession, TLAPS

Known == 0 .. created

(***************************************************************************)
(* The tokens on disk, and those that heartbeats have been sent with, are  *)
(* of sessions the server has granted; two tokens on disk are of one.      *)
(***************************************************************************)
TokensInv ==
  /\ access \in Known /\ session \in Known
  /\ access = None \/ session = None \/ access = session
  /\ blamed \subseteq Known
  /\ \A t \in Tasks : hb[t].pc = "calling" => hb[t].token \in Known
  /\ \A s \in Sessions : s <= created => owner[s] \in Users

(***************************************************************************)
(* What the command loop awaits is what it has asked for; the tokens of    *)
(* the request are those on disk, until an automatic log-out.              *)
(***************************************************************************)
CallInv ==
  /\ cli \in {"prompt", "off"} => call = NoCall
  /\ cli = "login" => call \in [type : {"LOGIN"}, user : Users] /\ ~LoggedIn
  /\ cli \in {"logout", "exit"} => call = [type |-> "LOGOUT", token |-> session]
  /\ cli = "delete" => /\ call \in [type : {"DELETE"}, token : Tokens]
                       /\ (LoggedIn => call.token = access)
  /\ cli = "edit" /\ LoggedIn => call.token = access
  /\ cli \in {"fetch", "edit", "other"} => call \in [type : {"OTHER"}, token : Tokens]

ReplyInv ==
  /\ cli # "login" => reply.session = None
  /\ reply.status # "ok" => reply.session = None
  /\ cli = "login" /\ reply.status = "ok" =>
       reply.session \in 1 .. created /\ owner[reply.session] = call.user
  /\ cli \in {"delete", "edit"} /\ reply.status = "ok" => call.token \in 1 .. created
  /\ cli = "delete" /\ reply.status = "ok" => owner[call.token] \notin accounts
  /\ cli \in {"logout", "exit"} /\ reply # NoReply => call.token \notin valid

\* No heartbeat outlives the process, or the start of a logout.
IdleInv == cli \in {"off", "logout", "exit"} => current = NoTask /\ blamed = {}

\* A task that has counted to the limit has ended.
CountInv == \A t \in Tasks : hb[t].pc # "over" => failures < MaxFails

(***************************************************************************)
(* What the running heartbeat has counted, and what it is waiting for, is  *)
(* about the session on disk, or about an account that is deleted.         *)
(***************************************************************************)
Ours(s) == s \in {session, None} \/ owner[s] \notin accounts

BlameInv ==
  Running => /\ \A s \in blamed : Ours(s)
             /\ hb[current].pc = "calling" => Ours(hb[current].token)

\* As long as nothing has gone wrong, no token is missing, and a refusal means
\* what it says.
QuietInv ==
  quiet => /\ late = {} /\ ~torn
           /\ \A t \in Tasks : /\ hb[t].pc = "calling" => hb[t].token # None
                               /\ hb[t].answer = "refused" => hb[t].token \notin valid

Inv == /\ TypeOK /\ TokensInv /\ CallInv /\ ReplyInv /\ IdleInv /\ CountInv
       /\ HeartbeatIsHeld /\ LoginIsWatched /\ BlameInv /\ FilesAgree
       /\ QuietInv /\ NoSessionLeaks

-----------------------------------------------------------------------------
(* What the server does with a request, whoever sends it and whenever.     *)

Answers == {Error} \union {Ok(s) : s \in Tokens}

LEMMA HandleEffect ==
  ASSUME TypeOK, NEW r \in Requests, NEW answer \in Answers, Handle(r, answer)
  PROVE  /\ accounts' \subseteq accounts
         /\ created' \in {created, created + 1} /\ created' <= MaxSessions
         /\ owner' \in [Sessions -> Users \union {NoUser}]
         /\ \A s \in 1 .. created : owner'[s] = owner[s]
         /\ created' # created => owner'[created'] \in Users
         /\ valid' \subseteq valid \/ (created' # created /\ valid' \subseteq valid \union {created'})
<1> USE TermuxAssumption
<1>1. CASE Grant(r) /\ answer = Ok(created + 1)
  BY <1>1 DEF Grant, TypeOK, Sessions, Requests
<1>2. CASE Revoke(r)
  BY <1>2 DEF Revoke, TypeOK
<1>3. CASE DeleteAccount(r)
  BY <1>3 DEF DeleteAccount, TypeOK
<1>4. CASE UNCHANGED server
  BY <1>4 DEF server, TypeOK
<1> QED BY <1>1, <1>2, <1>3, <1>4 DEF Handle

\* Which requests are answered with what, and what holds from then on.
LEMMA AnswerMeans ==
  ASSUME TypeOK, NEW r \in Requests, NEW answer \in Answers, Handle(r, answer)
  PROVE  /\ answer # Error /\ r.type = "LOGIN" =>
              /\ answer = Ok(created') /\ created' = created + 1 /\ owner'[created'] = r.user
              /\ valid' = valid \union {created'}
         /\ answer # Error /\ r.type # "LOGIN" => answer = Ok(None) /\ valid' \subseteq valid
         /\ answer = Error => UNCHANGED server
         /\ r.type = "LOGOUT" => r.token \notin valid'
         /\ answer # Error /\ r.type \in {"DELETE", "OTHER"} =>
              r.token \in 1 .. created /\ UNCHANGED owner
         /\ answer # Error /\ r.type = "DELETE" => owner[r.token] \notin accounts'
<1> USE TermuxAssumption
<1>1. CASE Grant(r) /\ answer = Ok(created + 1)
  BY <1>1 DEF Grant, TypeOK, Sessions, Ok, Error, Answers
<1>2. CASE Revoke(r) /\ answer = Ok(None)
  BY <1>2 DEF Revoke, TypeOK, Ok, Error, Answers
<1>3. CASE DeleteAccount(r) /\ answer = Ok(None)
  BY <1>3 DEF DeleteAccount, Admits, TypeOK, Ok, Error, Answers
<1>4. CASE r.type = "OTHER" /\ Admits(r.token) /\ answer = Ok(None) /\ UNCHANGED server
  BY <1>4 DEF Admits, TypeOK, server, Ok, Error, Answers
<1>5. CASE ~(r.type = "LOGOUT" /\ r.token \in valid) /\ answer = Error /\ UNCHANGED server
  BY <1>5 DEF server, Ok, Error, Answers
<1> QED BY <1>1, <1>2, <1>3, <1>4, <1>5 DEF Handle
LEMMA ServerStepEffect ==
  ASSUME TypeOK, ServerStep
  PROVE  /\ accounts' \subseteq accounts
         /\ created' \in {created, created + 1} /\ created' <= MaxSessions
         /\ owner' \in [Sessions -> Users \union {NoUser}]
         /\ \A s \in 1 .. created : owner'[s] = owner[s]
         /\ created' # created => owner'[created'] \in Users
         /\ valid' \subseteq valid \/ (created' # created /\ valid' \subseteq valid \union {created'})
         /\ late' \subseteq late
         /\ UNCHANGED <<files, cli, call, current, failures, blamed, torn, quiet, crashes>>
<1>1. CASE ServerAnswers
  <2>1. call \in Requests
    BY <1>1 DEF ServerAnswers, TypeOK
  <2>2. PICK answer \in Answers : Handle(call, answer)
    BY <1>1 DEF ServerAnswers, Answers
  <2> QED BY <1>1, <2>1, <2>2, HandleEffect DEF ServerAnswers, beat
<1>2. CASE ServerGetsLate
  <2>1. PICK r \in late : \E answer \in Answers : Handle(r, answer)
    BY <1>2 DEF ServerGetsLate, Answers
  <2>2. r \in Requests
    BY <2>1 DEF TypeOK
  <2> QED BY <1>2, <2>1, <2>2, HandleEffect DEF ServerGetsLate, beat, cmd
<1>3. CASE ServerGetsHeartbeat \/ Expire
  BY <1>3 DEF ServerGetsHeartbeat, Expire, TypeOK, server, cmd, beat
<1> QED BY <1>1, <1>2, <1>3 DEF ServerStep

LEMMA HeartbeatUntouched ==
  ASSUME TypeOK, ServerStep
  PROVE  /\ hb' \in [Tasks -> {Asleep, Over} \union
                         [pc : {"calling"}, token : Tokens, answer : {"none", "ok", "refused"}]]
         /\ \A t \in Tasks :
              /\ hb'[t].pc = hb[t].pc /\ hb'[t].token = hb[t].token
              /\ hb'[t].answer = hb[t].answer
                   \/ (hb[t].pc = "calling" /\ (hb'[t].answer = "refused" => hb[t].token \notin valid'))
<1>1. CASE ServerGetsHeartbeat
  BY <1>1 DEF ServerGetsHeartbeat, TypeOK, server, Asleep, Over
<1>2. CASE ~ServerGetsHeartbeat
  BY <1>2 DEF ServerStep, ServerAnswers, ServerGetsLate, Expire, TypeOK, beat
<1> QED BY <1>1, <1>2

LEMMA ReplyEffect ==
  ASSUME TypeOK, ServerStep
  PROVE  \/ UNCHANGED reply
         \/ /\ call \in Requests /\ reply = NoReply
            /\ reply' \in Answers /\ Handle(call, reply')
BY DEF ServerStep, ServerAnswers, ServerGetsLate, ServerGetsHeartbeat, Expire, TypeOK, Answers, cmd

\* The two texts a heartbeat fails with are no authentication errors.
LEMMA NoAuthError ==
  ~IsAuthError("authentication required") /\ ~IsAuthError("timeout")
BY DEF IsAuthError, AuthWords
-----------------------------------------------------------------------------
(* The inductive invariant holds initially, and each step preserves each   *)
(* part of it.                                                             *)

LEMMA InitInv == Init => Inv
<1> SUFFICES ASSUME Init PROVE Inv
  OBVIOUS
<1> USE TermuxAssumption DEF Init
<1>1. TypeOK
  <2>1. created \in 0 .. MaxSessions /\ failures \in 0 .. MaxFails /\ crashes \in 0 .. MaxCrashes
    OBVIOUS
  <2>2. {access, session} \subseteq Tokens
    BY DEF Tokens
  <2> QED BY <2>1, <2>2 DEF TypeOK
<1>2. TokensInv /\ CallInv /\ ReplyInv /\ IdleInv /\ CountInv
  BY DEF TokensInv, CallInv, ReplyInv, IdleInv, CountInv, Known, NoReply, None, LoggedIn, Sessions, Over
<1>3. HeartbeatIsHeld /\ LoginIsWatched /\ BlameInv /\ FilesAgree
  BY DEF HeartbeatIsHeld, LoginIsWatched, BlameInv, FilesAgree, Running, LoggedIn, Over, None
<1>4. QuietInv /\ NoSessionLeaks
  BY DEF QuietInv, NoSessionLeaks, Over
<1> QED BY <1>1, <1>2, <1>3, <1>4 DEF Inv

\* A failed heartbeat, whatever it failed with, is counted.
LEMMA FailEffect ==
  ASSUME Inv, NEW t \in Tasks, HeartbeatRefused(t) \/ HeartbeatTimesOut(t)
  PROVE  /\ hb[t].pc = "calling" /\ failures < MaxFails /\ hb[t].token \in Tokens
         /\ failures' = failures + 1 /\ blamed' = blamed \union {hb[t].token}
         /\ \/ LogoutLocal /\ hb' = [hb EXCEPT ![t] = Over]
            \/ /\ failures + 1 < MaxFails
               /\ UNCHANGED <<files, torn>> /\ hb' = [hb EXCEPT ![t] = Asleep]
         /\ UNCHANGED <<server, late, cmd, current, crashes>>
         /\ quiet' = FALSE \/ (quiet' = quiet /\ hb[t].answer = "refused")
<1> USE TermuxAssumption DEF Inv
<1>1. hb[t].pc = "calling" /\ failures < MaxFails
  BY DEF HeartbeatRefused, HeartbeatTimesOut, CountInv
<1>2. hb[t].token \in Tokens
  BY <1>1 DEF TypeOK, Asleep, Over
<1>3. HeartbeatFails(t, "authentication required") \/ HeartbeatFails(t, "timeout")
  BY DEF HeartbeatRefused, HeartbeatTimesOut
<1>4. /\ failures' = failures + 1 /\ blamed' = blamed \union {hb[t].token}
      /\ \/ LogoutLocal /\ hb' = [hb EXCEPT ![t] = Over]
         \/ ~(failures + 1 >= MaxFails) /\ UNCHANGED <<files, torn>> /\ hb' = [hb EXCEPT ![t] = Asleep]
  BY <1>3, NoAuthError DEF HeartbeatFails
<1>5. ~(failures + 1 >= MaxFails) => failures + 1 < MaxFails
  BY DEF TypeOK
<1> QED BY <1>1, <1>2, <1>4, <1>5 DEF HeartbeatRefused, HeartbeatTimesOut

\* A crash leaves the files as they were, or after the first or the second of
\* the three operations.
LEMMA CrashEffect ==
  ASSUME Inv, CrashStep
  PROVE  /\ cli' = "off" /\ call' = NoCall /\ reply' = NoReply
         /\ hb' = [t \in Tasks |-> Over] /\ current' = NoTask /\ failures' = 0 /\ blamed' = {}
         /\ UNCHANGED server /\ late' \subseteq Requests
         /\ quiet' = FALSE /\ crashes' \in 0 .. MaxCrashes
         /\ \/ UNCHANGED <<files, torn>>
            \/ /\ torn' = TRUE /\ UNCHANGED profile
               /\ \/ /\ cli = "login" /\ reply.status = "ok"
                     /\ access' = reply.session /\ session' \in {session, reply.session}
                  \/ access' = None /\ session' \in {session, None}
<1>1. Die
  BY DEF CrashStep, Killed, KilledInSave, KilledInLogout
<1>2. crashes' \in 0 .. MaxCrashes
  BY <1>1, TermuxAssumption DEF Die, Inv, TypeOK
<1>3. late' \subseteq Requests
  BY DEF CrashStep, Killed, KilledInSave, KilledInLogout, Abandon, Inv, TypeOK
<1>4. \/ UNCHANGED <<files, torn>>
      \/ /\ torn' = TRUE /\ UNCHANGED profile
         /\ \/ /\ cli = "login" /\ reply.status = "ok"
               /\ access' = reply.session /\ session' \in {session, reply.session}
            \/ access' = None /\ session' \in {session, None}
  BY DEF CrashStep, Killed, KilledInSave, KilledInLogout
<1> QED BY <1>1, <1>2, <1>3, <1>4 DEF Die, ProcessEnds, Return

LEMMA TypeStep == ASSUME Inv, [Next]_vars PROVE TypeOK'
<1> USE TermuxAssumption DEF Inv
<1>1. CASE ServerStep
  <2>1. reply' \in {NoReply, Error} \union {Ok(s) : s \in Tokens}
    BY <1>1, ReplyEffect DEF TypeOK, Answers
  <2> QED BY <1>1, <2>1, ServerStepEffect, HeartbeatUntouched
         DEF TypeOK, ServerStep, ServerAnswers, ServerGetsLate, ServerGetsHeartbeat, Expire, files
<1>2. CASE UserStep
  <2> USE DEF TypeOK, Send, Return, Awaiting, server, files
  <2>1. ASSUME NEW u \in Users, BeginLogin(u) PROVE TypeOK'
    BY <2>1 DEF BeginLogin, Requests, beat
  <2>2. ASSUME NEW pc \in {"logout", "exit"}, BeginLogout(pc) PROVE TypeOK'
    BY <2>2 DEF BeginLogout, StopHeartbeat, Requests, Over
  <2>3. CASE ExitLoggedOut
    BY <2>3 DEF ExitLoggedOut, StopHeartbeat, Over
  <2>4. CASE BeginDelete \/ BeginEdit \/ BeginOther
    <3>1. access \in Tokens /\ {"DELETE", "OTHER"} \subseteq {"LOGOUT", "DELETE", "OTHER"}
      OBVIOUS
    <3>2. call' \in Requests /\ cli' \in {"delete", "fetch", "other"}
      BY <2>4, <3>1 DEF BeginDelete, BeginEdit, BeginOther, Requests
    <3> QED BY <2>4, <3>2 DEF BeginDelete, BeginEdit, BeginOther, beat
  <2>5. CASE Start
    BY <2>5 DEF Start, StartHeartbeat, beat
  <2>6. CASE Quit
    BY <2>6 DEF Quit, ProcessEnds
  <2> QED BY <1>2, <2>1, <2>2, <2>3, <2>4, <2>5, <2>6 DEF UserStep
<1>3. CASE CommandReturns
  <2> USE DEF TypeOK, Return, server, Answered, Raises, Abandon
  <2>1. CASE LoginReturns
    <3>1. late' \subseteq Requests /\ quiet' \in BOOLEAN
      BY <2>1 DEF LoginReturns
    <3>2. CASE Answered /\ SaveLogin(reply.session, call.user) /\ StartHeartbeat
      <4>1. reply.session \in Tokens /\ call.user \in Users
        BY <2>1, <3>2 DEF LoginReturns, CallInv, Ok, Error, NoReply, Tokens
      <4>2. /\ failures' \in 0 .. MaxFails /\ blamed' \subseteq Tokens
            /\ current' \in Tasks \union {NoTask}
            /\ hb' \in [Tasks -> {Asleep, Over} \union
                   [pc : {"calling"}, token : Tokens, answer : {"none", "ok", "refused"}]]
        BY <3>2 DEF StartHeartbeat, beat
      <4> QED BY <2>1, <3>1, <3>2, <4>1, <4>2 DEF LoginReturns, SaveLogin
    <3>3. CASE UNCHANGED <<files, beat, torn>>
      BY <2>1, <3>1, <3>3 DEF LoginReturns, files, beat
    <3> QED BY <2>1, <3>2, <3>3 DEF LoginReturns
  <2>2. CASE LogoutReturns \/ DeleteReturns
    BY <2>2 DEF LogoutReturns, DeleteReturns, LogoutLocal, Tokens, files, beat
  <2>3. CASE FetchReturns \/ OtherReturns
    <3>1. call' \in Requests \union {NoCall} /\ cli' \in {"prompt", "edit"} /\ reply' = NoReply
      BY <2>3 DEF FetchReturns, OtherReturns, Send, Requests
    <3>2. late' \subseteq Requests /\ quiet' \in BOOLEAN
      BY <2>3 DEF FetchReturns, OtherReturns
    <3> QED BY <2>3, <3>1, <3>2 DEF FetchReturns, OtherReturns, Awaiting, files, beat
  <2>4. CASE EditReturns
    <3>1. late' \subseteq Requests /\ quiet' \in BOOLEAN
      BY <2>4 DEF EditReturns
    <3>2. profile' \in Users \union {NoUser}
      BY <2>4 DEF EditReturns, ReplyInv, Sessions
    <3> QED BY <2>4, <3>1, <3>2 DEF EditReturns, beat
  <2> QED BY <1>3, <2>1, <2>2, <2>3, <2>4 DEF CommandReturns
<1>4. CASE HeartbeatStep
  <2> PICK t \in Tasks : \/ HeartbeatWakes(t) \/ HeartbeatSucceeds(t)
                         \/ HeartbeatRefused(t) \/ HeartbeatTimesOut(t)
    BY <1>4 DEF HeartbeatStep
  <2> USE DEF TypeOK, server, files, cmd
  <2>1. CASE HeartbeatWakes(t)
    BY <2>1 DEF HeartbeatWakes, Ping, Over
  <2>2. CASE HeartbeatSucceeds(t)
    BY <2>2 DEF HeartbeatSucceeds, Asleep
  <2>3. CASE HeartbeatRefused(t) \/ HeartbeatTimesOut(t)
    <3>1. failures' \in 0 .. MaxFails /\ blamed' \subseteq Tokens
      <4>1. failures < MaxFails /\ failures' = failures + 1 /\ blamed' = blamed \union {hb[t].token}
            /\ hb[t].token \in Tokens
        BY <2>3, FailEffect
      <4>2. failures' \in 0 .. MaxFails
        BY <4>1
      <4> QED BY <4>1, <4>2
    <3>2. access' \in Tokens /\ session' \in Tokens /\ profile' \in Users \union {NoUser} /\ torn' \in BOOLEAN
      BY <2>3, FailEffect DEF LogoutLocal, Tokens
    <3> QED BY <2>3, <3>1, <3>2, FailEffect DEF HeartbeatRefused, HeartbeatTimesOut
  <2> QED BY <2>1, <2>2, <2>3
<1>5. CASE CrashStep
  <2>1. reply.session \in Tokens
    BY DEF TypeOK, Tokens, Ok, Error, NoReply
  <2>2. access' \in Tokens /\ session' \in Tokens /\ profile' \in Users \union {NoUser} /\ torn' \in BOOLEAN
    BY <1>5, <2>1, CrashEffect DEF TypeOK, Tokens, files
  <2>3. failures' \in 0 .. MaxFails /\ blamed' \subseteq Tokens /\ cli' \in Awaiting \union {"prompt", "off"}
    BY <1>5, CrashEffect
  <2>4. hb' \in [Tasks -> {Asleep, Over} \union
                   [pc : {"calling"}, token : Tokens, answer : {"none", "ok", "refused"}]]
    BY <1>5, CrashEffect
  <2>5. accounts' \subseteq Users /\ created' \in 0 .. MaxSessions
        /\ owner' \in [Sessions -> Users \union {NoUser}] /\ valid' \subseteq 1 .. created'
    BY <1>5, CrashEffect DEF TypeOK, server
  <2> QED BY <1>5, <2>2, <2>3, <2>4, <2>5, CrashEffect DEF TypeOK
<1>6. CASE UNCHANGED vars
  BY <1>6 DEF TypeOK, vars, server, files, beat, cmd
<1> QED BY <1>1, <1>2, <1>3, <1>4, <1>5, <1>6 DEF Next
-----------------------------------------------------------------------------
(* What the steps of the client do to the heartbeat and to the files.      *)

AllOver == \A t \in Tasks : hb[t] = Over
Stopped == AllOver' /\ current' = NoTask /\ failures' = 0 /\ blamed' = {}
Started ==
  /\ AllOver
  /\ \E t \in Tasks : hb' = [hb EXCEPT ![t] = Asleep] /\ current' = t
  /\ failures' = 0 /\ blamed' = {}

\* Only one heartbeat runs, so that stopping it stops all, and none is started
\* beside another.
LEMMA HeldIsAlone ==
  ASSUME Inv
  PROVE  /\ ~Running => AllOver
         /\ StopHeartbeat => Stopped
         /\ StartHeartbeat => Started \/ (Running /\ UNCHANGED beat)
<1> USE TermuxAssumption DEF Inv
<1>1. ~Running => AllOver
  BY DEF Running, AllOver, HeartbeatIsHeld, TypeOK, Asleep, Over
<1>2. StopHeartbeat => Stopped
  BY DEF StopHeartbeat, Stopped, AllOver, HeartbeatIsHeld, TypeOK, Asleep, Over
<1>3. StartHeartbeat => Started \/ (Running /\ UNCHANGED beat)
  BY <1>1 DEF StartHeartbeat, Started
<1> QED BY <1>1, <1>2, <1>3

LEMMA UserEffect ==
  ASSUME Inv, UserStep
  PROVE  /\ UNCHANGED <<server, late, files, torn, quiet>> /\ reply' = NoReply
         /\ IF cli' \in {"off", "logout", "exit"} THEN Stopped ELSE UNCHANGED beat \/ Started
         /\ cli = "off" => cli' = "prompt" /\ (LoggedIn => Started \/ (Running /\ UNCHANGED beat))
         /\ cli \in {"prompt", "off"}
<1>1. CASE \/ \E u \in Users : BeginLogin(u)
           \/ BeginDelete \/ BeginEdit \/ BeginOther
  BY <1>1 DEF BeginLogin, BeginDelete, BeginEdit, BeginOther, Send
<1>2. CASE BeginLogout("logout") \/ BeginLogout("exit") \/ ExitLoggedOut
  BY <1>2, HeldIsAlone DEF BeginLogout, ExitLoggedOut, Send, Return
<1>3. CASE Start
  BY <1>3, HeldIsAlone DEF Start, Return
<1>4. CASE Quit
  BY <1>4 DEF Quit, ProcessEnds, Return, Stopped, AllOver
<1> QED BY <1>1, <1>2, <1>3, <1>4 DEF UserStep

LEMMA CommandEffect ==
  ASSUME Inv, CommandReturns
  PROVE  /\ UNCHANGED server /\ reply' = NoReply
         /\ cli \in Awaiting
         /\ cli' \in {"prompt", "edit", "off"} /\ (cli' = "off" => cli = "exit")
         /\ (UNCHANGED <<late, quiet>> /\ reply # NoReply) \/ quiet' = FALSE
         /\ \/ /\ UNCHANGED <<access, session, torn, beat>>
               /\ (UNCHANGED profile
                    \/ (cli = "edit" /\ reply.status = "ok" /\ profile' = owner[call.token]))
               /\ cli \notin {"logout", "exit"}
               /\ cli = "login" /\ reply.status = "ok" => quiet' = FALSE
            \/ /\ LogoutLocal /\ UNCHANGED beat
               /\ cli \in {"logout", "exit"} \/ (cli = "delete" /\ reply.status = "ok")
            \/ /\ cli = "login" /\ reply.status = "ok" /\ SaveLogin(reply.session, call.user)
               /\ Started \/ (Running /\ UNCHANGED beat)
<1> USE DEF Return, Answered, Raises, Error, NoReply
<1>1. CASE LoginReturns
  BY <1>1, HeldIsAlone DEF LoginReturns, files, Awaiting
<1>2. CASE LogoutReturns
  BY <1>2 DEF LogoutReturns, Awaiting
<1>3. CASE DeleteReturns
  BY <1>3 DEF DeleteReturns, files, Awaiting
<1>4. CASE FetchReturns \/ OtherReturns
  BY <1>4 DEF FetchReturns, OtherReturns, files, Send, Awaiting
<1>5. CASE EditReturns
  BY <1>5 DEF EditReturns, Awaiting
<1> QED BY <1>1, <1>2, <1>3, <1>4, <1>5 DEF CommandReturns

-----------------------------------------------------------------------------
(* Each step preserves each other part of the invariant.                   *)

LEMMA KnownTokens ==
  ASSUME TypeOK
  PROVE  None \in Known /\ (UNCHANGED server => Known' = Known) /\ 1 .. created \subseteq Known
<1>1. created \in Nat
  BY TermuxAssumption DEF TypeOK
<1> QED BY <1>1 DEF None, Known, server

LEMMA TokensStep == ASSUME Inv, [Next]_vars PROVE TokensInv'
<1> USE TermuxAssumption DEF Inv
<1>1. CASE ServerStep
  <2>1. Known \subseteq Known'
    BY <1>1, ServerStepEffect DEF Known, TypeOK
  <2>2. \A s \in Sessions : s <= created' => owner'[s] \in Users
    BY <1>1, ServerStepEffect DEF TokensInv, TypeOK, Sessions
  <2> QED BY <1>1, <2>1, <2>2, ServerStepEffect, HeartbeatUntouched DEF TokensInv, files
<1>2. ASSUME UNCHANGED beat \/ Stopped \/ Started
      PROVE  /\ UNCHANGED blamed \/ blamed' = {}
             /\ \A t \in Tasks : hb'[t].pc = "calling" => hb'[t] = hb[t]
  BY <1>2 DEF Stopped, Started, AllOver, beat, TypeOK, Asleep, Over
<1>3. CASE UserStep
  BY <1>2, <1>3, UserEffect DEF TokensInv, Known, server, files
<1>4. CASE CommandReturns
  <2>1. \/ UNCHANGED <<access, session>>
        \/ access' = None /\ session' = None
        \/ access' = reply.session /\ session' = reply.session /\ reply.session \in Known
    BY <1>4, CommandEffect, KnownTokens DEF LogoutLocal, SaveLogin, ReplyInv
  <2>2. None \in Known /\ Known' = Known
    BY <1>4, CommandEffect, KnownTokens
  <2>3. /\ UNCHANGED blamed \/ blamed' = {}
        /\ \A t \in Tasks : hb'[t].pc = "calling" => hb'[t] = hb[t]
    BY <1>2, <1>4, CommandEffect
  <2> QED BY <1>4, <2>1, <2>2, <2>3, CommandEffect DEF TokensInv, server
<1>5. CASE HeartbeatStep
  <2> PICK t \in Tasks : \/ HeartbeatWakes(t) \/ HeartbeatSucceeds(t)
                         \/ HeartbeatRefused(t) \/ HeartbeatTimesOut(t)
    BY <1>5 DEF HeartbeatStep
  <2>1. CASE HeartbeatWakes(t)
    BY <2>1 DEF HeartbeatWakes, TokensInv, TypeOK, Known, Ping, Over, server, files
  <2>2. CASE HeartbeatSucceeds(t)
    BY <2>2 DEF HeartbeatSucceeds, TokensInv, TypeOK, Known, Asleep, server, files
  <2>3. CASE HeartbeatRefused(t) \/ HeartbeatTimesOut(t)
    <3>1. Known' = Known /\ None \in Known /\ UNCHANGED <<created, owner>>
      BY <2>3, FailEffect, KnownTokens DEF server
    <3>2. hb[t].token \in Known /\ blamed' = blamed \union {hb[t].token}
      BY <2>3, FailEffect DEF TokensInv
    <3>3. \A u \in Tasks : hb'[u].pc = "calling" => hb'[u] = hb[u]
      <4>1. hb' \in {[hb EXCEPT ![t] = Asleep], [hb EXCEPT ![t] = Over]}
        BY <2>3, FailEffect
      <4> QED BY <4>1 DEF TypeOK, Asleep, Over
    <3>4. UNCHANGED <<access, session>> \/ (access' = None /\ session' = None)
      BY <2>3, FailEffect DEF files, LogoutLocal
    <3> QED BY <3>1, <3>2, <3>3, <3>4 DEF TokensInv
  <2> QED BY <2>1, <2>2, <2>3
<1>6. CASE CrashStep
  <2>1. \A t \in Tasks : hb'[t].pc = "over"
    BY <1>6, CrashEffect DEF Over
  <2>2. None \in Known /\ Known' = Known
    BY <1>6, CrashEffect, KnownTokens
  <2>3. cli = "login" /\ reply.status = "ok" => reply.session \in Known /\ session = None
    BY DEF ReplyInv, CallInv, LoggedIn, Known, TypeOK
  <2>4. access' \in Known /\ session' \in Known /\ (access' = None \/ session' = None \/ access' = session')
    BY <1>6, <2>2, <2>3, CrashEffect DEF TokensInv, files
  <2> QED BY <1>6, <2>1, <2>2, <2>4, CrashEffect DEF TokensInv, server
<1>7. CASE UNCHANGED vars
  BY <1>7 DEF TokensInv, Known, vars, server, files, beat
<1> QED BY <1>1, <1>3, <1>4, <1>5, <1>6, <1>7 DEF Next
LEMMA CallStep == ASSUME Inv, [Next]_vars PROVE CallInv'
<1> USE TermuxAssumption DEF Inv
<1>1. CASE ServerStep
  BY <1>1, ServerStepEffect DEF CallInv, LoggedIn, files
<1>2. CASE UserStep
  <2> USE DEF CallInv, LoggedIn, Send, Return, files
  <2>1. UNCHANGED files
    BY <1>2, UserEffect
  <2>2. ASSUME NEW u \in Users, BeginLogin(u) PROVE CallInv'
    BY <2>1, <2>2 DEF BeginLogin
  <2>3. ASSUME NEW pc \in {"logout", "exit"}, BeginLogout(pc) PROVE CallInv'
    BY <2>1, <2>3 DEF BeginLogout
  <2>4. CASE ExitLoggedOut \/ Start \/ Quit
    BY <2>1, <2>4 DEF ExitLoggedOut, Start, Quit, ProcessEnds
  <2>5. CASE BeginDelete
    BY <2>1, <2>5 DEF BeginDelete, TypeOK
  <2>6. CASE BeginEdit \/ BeginOther
    BY <2>1, <2>6 DEF BeginEdit, BeginOther, TypeOK
  <2> QED BY <1>2, <2>2, <2>3, <2>4, <2>5, <2>6 DEF UserStep
<1>3. CASE CommandReturns
  <2>1. CASE FetchReturns
    BY <2>1 DEF FetchReturns, CallInv, Send, Return, TypeOK, files
  <2>2. CASE ~FetchReturns
    <3>1. call' = NoCall /\ cli' \in {"prompt", "off"}
      BY <1>3, <2>2 DEF CommandReturns, LoginReturns, LogoutReturns, DeleteReturns, EditReturns, OtherReturns, Return
    <3> QED BY <3>1 DEF CallInv
  <2> QED BY <2>1, <2>2
<1>4. CASE HeartbeatStep
  <2> PICK t \in Tasks : \/ HeartbeatWakes(t) \/ HeartbeatSucceeds(t)
                         \/ HeartbeatRefused(t) \/ HeartbeatTimesOut(t)
    BY <1>4 DEF HeartbeatStep
  <2>1. cli \notin {"logout", "exit"} /\ UNCHANGED cmd
    BY DEF HeartbeatWakes, HeartbeatSucceeds, HeartbeatRefused, HeartbeatTimesOut, IdleInv, HeartbeatIsHeld, cmd
  <2>2. UNCHANGED files \/ (access' = None /\ session' = None)
    BY FailEffect DEF HeartbeatWakes, HeartbeatSucceeds, LogoutLocal, files
  <2> QED BY <2>1, <2>2 DEF CallInv, LoggedIn, cmd, files
<1>5. CASE CrashStep
  BY <1>5, CrashEffect DEF CallInv
<1>6. CASE UNCHANGED vars
  BY <1>6 DEF CallInv, LoggedIn, vars, files, cmd
<1> QED BY <1>1, <1>2, <1>3, <1>4, <1>5, <1>6 DEF Next

LEMMA ReplyStep == ASSUME Inv, [Next]_vars PROVE ReplyInv'
<1> USE TermuxAssumption DEF Inv
<1>1. CASE ServerStep
  <2>1. CASE UNCHANGED reply
    BY <1>1, <2>1, ServerStepEffect DEF ReplyInv, CallInv, TokensInv, Known, TypeOK, NoReply
  <2>2. CASE call \in Requests /\ reply = NoReply /\ reply' \in Answers /\ Handle(call, reply')
    <3>1. UNCHANGED <<cli, call>>
      BY <1>1, ServerStepEffect
    <3>2. CASE reply' = Error
      BY <2>2, <3>1, <3>2, AnswerMeans DEF ReplyInv, CallInv, Error
    <3>3. CASE reply' # Error
      <4>1. CASE cli = "login"
        <5>1. reply' = Ok(created') /\ created' = created + 1 /\ owner'[created'] = call.user
          BY <2>2, <3>3, <4>1, AnswerMeans DEF CallInv
        <5>2. created' \in 1 .. created'
          BY <5>1 DEF TypeOK
        <5> QED BY <3>1, <4>1, <5>1, <5>2 DEF ReplyInv, Ok
      <4>2. CASE cli # "login"
        <5>1. call.type \in {"LOGOUT", "DELETE", "OTHER"}
          BY <2>2, <4>2 DEF CallInv, TypeOK, Awaiting, Requests, NoCall
        <5>2. reply' = Ok(None)
          BY <2>2, <3>3, <5>1, AnswerMeans
        <5>3. cli \in {"logout", "exit"} => call.token \notin valid'
          BY <2>2, AnswerMeans DEF CallInv
        <5>4. cli \in {"delete", "edit"} => call.token \in 1 .. created'
          BY <2>2, <3>3, AnswerMeans, HandleEffect DEF CallInv, TypeOK
        <5>5. cli = "delete" => owner'[call.token] \notin accounts'
          BY <2>2, <3>3, AnswerMeans DEF CallInv
        <5> QED BY <3>1, <4>2, <5>2, <5>3, <5>4, <5>5 DEF ReplyInv, Ok
      <4> QED BY <4>1, <4>2
    <3> QED BY <3>2, <3>3
  <2> QED BY <1>1, <2>1, <2>2, ReplyEffect
<1>2. CASE UserStep \/ CommandReturns \/ CrashStep
  <2>1. reply' = NoReply
    BY <1>2, UserEffect, CommandEffect, CrashEffect
  <2> QED BY <2>1 DEF ReplyInv, NoReply
<1>3. CASE HeartbeatStep \/ UNCHANGED vars
  <2>1. UNCHANGED <<cmd, server>>
    BY <1>3 DEF HeartbeatStep, HeartbeatWakes, HeartbeatSucceeds, HeartbeatRefused, HeartbeatTimesOut, vars
  <2> QED BY <2>1 DEF ReplyInv, cmd, server
<1> QED BY <1>1, <1>2, <1>3 DEF Next

LEMMA IdleStep == ASSUME Inv, [Next]_vars PROVE IdleInv'
<1> USE TermuxAssumption DEF Inv
<1>1. CASE ServerStep
  BY <1>1, ServerStepEffect DEF IdleInv
<1>2. CASE UserStep
  BY <1>2, UserEffect DEF IdleInv, Stopped
<1>3. CASE CommandReturns
  BY <1>3, CommandEffect DEF IdleInv, beat
<1>4. CASE HeartbeatStep
  <2> PICK t \in Tasks : \/ HeartbeatWakes(t) \/ HeartbeatSucceeds(t)
                         \/ HeartbeatRefused(t) \/ HeartbeatTimesOut(t)
    BY <1>4 DEF HeartbeatStep
  <2>1. cli \notin {"off", "logout", "exit"} /\ UNCHANGED cmd
    BY DEF HeartbeatWakes, HeartbeatSucceeds, HeartbeatRefused, HeartbeatTimesOut, IdleInv, HeartbeatIsHeld, cmd
  <2> QED BY <2>1 DEF IdleInv, cmd
<1>5. CASE CrashStep
  BY <1>5, CrashEffect DEF IdleInv
<1>6. CASE UNCHANGED vars
  BY <1>6 DEF IdleInv, vars, beat, cmd
<1> QED BY <1>1, <1>2, <1>3, <1>4, <1>5, <1>6 DEF Next

LEMMA CountHeldStep == ASSUME Inv, [Next]_vars PROVE CountInv' /\ HeartbeatIsHeld'
<1> USE TermuxAssumption DEF Inv
<1>1. ASSUME UNCHANGED beat \/ Stopped \/ Started
      PROVE  CountInv' /\ HeartbeatIsHeld'
  BY <1>1 DEF Stopped, Started, AllOver, CountInv, HeartbeatIsHeld, beat, TypeOK, Asleep, Over
<1>2. CASE ServerStep
  BY <1>2, ServerStepEffect, HeartbeatUntouched DEF CountInv, HeartbeatIsHeld
<1>3. CASE UserStep \/ CommandReturns \/ CrashStep
  <2>1. UNCHANGED beat \/ Stopped \/ Started
    BY <1>3, UserEffect, CommandEffect, CrashEffect DEF Stopped, AllOver
  <2> QED BY <1>1, <2>1
<1>4. CASE HeartbeatStep
  <2> PICK t \in Tasks : \/ HeartbeatWakes(t) \/ HeartbeatSucceeds(t)
                         \/ HeartbeatRefused(t) \/ HeartbeatTimesOut(t)
    BY <1>4 DEF HeartbeatStep
  <2>1. CASE HeartbeatWakes(t)
    BY <2>1 DEF HeartbeatWakes, CountInv, HeartbeatIsHeld, TypeOK
  <2>2. CASE HeartbeatSucceeds(t)
    BY <2>2 DEF HeartbeatSucceeds, CountInv, HeartbeatIsHeld, TypeOK
  <2>3. CASE HeartbeatRefused(t) \/ HeartbeatTimesOut(t)
    <3>1. \A u \in Tasks : hb[u].pc # "over" => u = t
      BY <2>3, FailEffect DEF HeartbeatIsHeld
    <3>2. UNCHANGED current /\ failures' = failures + 1
      BY <2>3, FailEffect
    <3>3. CASE hb' = [hb EXCEPT ![t] = Over]
      BY <3>1, <3>2, <3>3 DEF CountInv, HeartbeatIsHeld, TypeOK, Over
    <3>4. CASE hb' = [hb EXCEPT ![t] = Asleep] /\ failures + 1 < MaxFails
      BY <2>3, <3>1, <3>2, <3>4, FailEffect DEF CountInv, HeartbeatIsHeld, TypeOK
    <3> QED BY <2>3, <3>3, <3>4, FailEffect
  <2> QED BY <2>1, <2>2, <2>3
<1>5. CASE UNCHANGED vars
  BY <1>1, <1>5 DEF vars
<1> QED BY <1>2, <1>3, <1>4, <1>5 DEF Next
LEMMA WatchedStep == ASSUME Inv, [Next]_vars PROVE LoginIsWatched'
<1> USE TermuxAssumption DEF Inv
<1>1. Started => Running'
  BY DEF Started, Running, TypeOK, Asleep
<1>2. Running /\ UNCHANGED beat => Running'
  BY DEF Running, beat
<1>3. CASE ServerStep
  BY <1>3, ServerStepEffect, HeartbeatUntouched DEF LoginIsWatched, LoggedIn, Running, TypeOK, files
<1>4. CASE UserStep
  BY <1>1, <1>2, <1>4, UserEffect DEF LoginIsWatched, LoggedIn, files
<1>5. CASE CommandReturns
  BY <1>1, <1>2, <1>5, CommandEffect DEF LoginIsWatched, LoggedIn, LogoutLocal, Awaiting
<1>6. CASE HeartbeatStep
  <2> PICK t \in Tasks : \/ HeartbeatWakes(t) \/ HeartbeatSucceeds(t)
                         \/ HeartbeatRefused(t) \/ HeartbeatTimesOut(t)
    BY <1>6 DEF HeartbeatStep
  <2>1. CASE HeartbeatWakes(t)
    BY <2>1 DEF HeartbeatWakes, LoginIsWatched, LoggedIn, Running, TypeOK, Ping, cmd, files
  <2>2. CASE HeartbeatSucceeds(t)
    BY <2>2 DEF HeartbeatSucceeds, LoginIsWatched, LoggedIn, Running, TypeOK, Asleep, cmd, files
  <2>3. CASE HeartbeatRefused(t) \/ HeartbeatTimesOut(t)
    <3>1. CASE LogoutLocal
      BY <3>1 DEF LogoutLocal, LoginIsWatched, LoggedIn
    <3>2. CASE UNCHANGED files /\ hb' = [hb EXCEPT ![t] = Asleep]
      <4>1. UNCHANGED <<cli, current, access, session>>
        BY <2>3, <3>2, FailEffect DEF cmd, files
      <4>2. Running => Running'
        BY <3>2, <4>1 DEF Running, TypeOK, Asleep
      <4> QED BY <4>1, <4>2 DEF LoginIsWatched, LoggedIn
    <3> QED BY <2>3, <3>1, <3>2, FailEffect
  <2> QED BY <2>1, <2>2, <2>3
<1>7. CASE CrashStep
  BY <1>7, CrashEffect DEF LoginIsWatched
<1>8. CASE UNCHANGED vars
  BY <1>8 DEF LoginIsWatched, LoggedIn, Running, vars, files, cmd, beat
<1> QED BY <1>3, <1>4, <1>5, <1>6, <1>7, <1>8 DEF Next

LEMMA BlameStep == ASSUME Inv, [Next]_vars PROVE BlameInv'
<1> USE TermuxAssumption DEF Inv
<1>1. CASE ServerStep
  <2>1. \A s \in Known : Ours(s) => Ours(s)'
    BY <1>1, ServerStepEffect DEF Ours, Known, None, TypeOK, files
  <2>2. Running' => Running
    BY <1>1, ServerStepEffect, HeartbeatUntouched DEF Running, TypeOK
  <2>3. Running' => hb'[current].pc = hb[current].pc /\ hb'[current].token = hb[current].token
    BY <1>1, ServerStepEffect, HeartbeatUntouched DEF Running, TypeOK
  <2> QED BY <1>1, <2>1, <2>2, <2>3, ServerStepEffect DEF BlameInv, TokensInv, Running, TypeOK
<1>2. Stopped => BlameInv'
  BY DEF Stopped, BlameInv, Running
<1>3. Started => BlameInv'
  BY DEF Started, BlameInv, Running, TypeOK, Asleep
<1>4. ASSUME UNCHANGED beat, UNCHANGED server,
             Running => \A s \in Known : Ours(s) => s \in {session', None} \/ owner[s] \notin accounts
      PROVE  BlameInv'
  BY <1>4 DEF BlameInv, TokensInv, Ours, Running, TypeOK, beat, server
<1>5. CASE UserStep
  BY <1>2, <1>3, <1>4, <1>5, UserEffect DEF Ours, files
<1>6. CASE CommandReturns
  <2>1. UNCHANGED server
    BY <1>6, CommandEffect
  <2>2. CASE UNCHANGED <<session, beat>>
    BY <1>4, <2>1, <2>2 DEF Ours
  <2>3. CASE LogoutLocal /\ UNCHANGED beat /\ cli \in {"logout", "exit"}
    BY <1>4, <2>1, <2>3 DEF IdleInv, Running
  <2>4. CASE LogoutLocal /\ UNCHANGED beat /\ cli = "delete" /\ reply.status = "ok"
    <3>1. session \in {None, call.token} /\ owner[call.token] \notin accounts
      BY <2>4 DEF ReplyInv, CallInv, TokensInv, LoggedIn, None, TypeOK
    <3> QED BY <1>4, <2>1, <2>4, <3>1 DEF Ours
  <2>5. CASE cli = "login" /\ UNCHANGED beat
    <3>1. session = None
      BY <2>5 DEF CallInv, LoggedIn
    <3> QED BY <1>4, <2>1, <2>5, <3>1 DEF Ours
  <2> QED BY <1>3, <1>6, <2>2, <2>3, <2>4, <2>5, CommandEffect
<1>7. CASE HeartbeatStep
  <2> PICK t \in Tasks : \/ HeartbeatWakes(t) \/ HeartbeatSucceeds(t)
                         \/ HeartbeatRefused(t) \/ HeartbeatTimesOut(t)
    BY <1>7 DEF HeartbeatStep
  <2>1. t = current /\ UNCHANGED <<server, current>>
    BY DEF HeartbeatWakes, HeartbeatSucceeds, HeartbeatRefused, HeartbeatTimesOut, HeartbeatIsHeld
  <2>2. CASE HeartbeatWakes(t)
    BY <2>1, <2>2 DEF HeartbeatWakes, BlameInv, Running, Ours, TypeOK, Ping, Over, server, files
  <2>3. CASE HeartbeatSucceeds(t)
    BY <2>1, <2>3 DEF HeartbeatSucceeds, BlameInv, Running, TypeOK, Asleep
  <2>4. CASE HeartbeatRefused(t) \/ HeartbeatTimesOut(t)
    <3>1. CASE hb' = [hb EXCEPT ![t] = Over]
      BY <2>1, <3>1 DEF BlameInv, Running, TypeOK, Over
    <3>2. CASE UNCHANGED files /\ hb' = [hb EXCEPT ![t] = Asleep]
      <4>1. Running /\ Ours(hb[t].token)
        BY <2>1, <2>4, FailEffect DEF BlameInv, Running
      <4>2. \A s \in blamed' : Ours(s)'
        BY <2>1, <2>4, <3>2, <4>1, FailEffect DEF BlameInv, Ours, server, files
      <4> QED BY <2>1, <3>2, <4>2 DEF BlameInv, TypeOK, Asleep
    <3> QED BY <2>4, <3>1, <3>2, FailEffect
  <2> QED BY <2>2, <2>3, <2>4
<1>8. CASE CrashStep
  BY <1>2, <1>8, CrashEffect DEF Stopped, AllOver
<1>9. CASE UNCHANGED vars
  BY <1>4, <1>9 DEF vars, files, Ours
<1> QED BY <1>1, <1>5, <1>6, <1>7, <1>8, <1>9 DEF Next
LEMMA FilesStep == ASSUME Inv, [Next]_vars PROVE FilesAgree'
<1> USE TermuxAssumption DEF Inv
<1>1. CASE ServerStep
  <2>1. UNCHANGED <<files, torn>>
    BY <1>1, ServerStepEffect
  <2>2. LoggedIn /\ ~torn => session \in 1 .. created
    BY DEF FilesAgree, LoggedIn, TokensInv, Known, None, TypeOK
  <2> QED BY <1>1, <2>1, <2>2, ServerStepEffect DEF FilesAgree, LoggedIn, files
<1>2. CASE UserStep
  BY <1>2, UserEffect DEF FilesAgree, LoggedIn, server, files
<1>3. CASE CommandReturns
  <2>1. CASE UNCHANGED <<files, torn>> \/ LogoutLocal
    BY <1>3, <2>1, CommandEffect DEF FilesAgree, LoggedIn, LogoutLocal, files, server
  <2>2. CASE /\ UNCHANGED <<access, session, torn>>
             /\ cli = "edit" /\ reply.status = "ok" /\ profile' = owner[call.token]
    BY <1>3, <2>2, CommandEffect DEF FilesAgree, LoggedIn, CallInv, server
  <2>3. CASE cli = "login" /\ reply.status = "ok" /\ SaveLogin(reply.session, call.user)
    BY <1>3, <2>3, CommandEffect DEF FilesAgree, SaveLogin, ReplyInv, server
  <2> QED BY <1>3, <2>1, <2>2, <2>3, CommandEffect DEF files
<1>4. CASE HeartbeatStep
  <2> PICK t \in Tasks : \/ HeartbeatWakes(t) \/ HeartbeatSucceeds(t)
                         \/ HeartbeatRefused(t) \/ HeartbeatTimesOut(t)
    BY <1>4 DEF HeartbeatStep
  <2>1. UNCHANGED server /\ (UNCHANGED <<files, torn>> \/ LogoutLocal)
    BY FailEffect DEF HeartbeatWakes, HeartbeatSucceeds
  <2> QED BY <2>1 DEF FilesAgree, LoggedIn, LogoutLocal, files, server
<1>5. CASE CrashStep
  BY <1>5, CrashEffect DEF FilesAgree, LoggedIn, files, server
<1>6. CASE UNCHANGED vars
  BY <1>6 DEF FilesAgree, LoggedIn, vars, files, server
<1> QED BY <1>1, <1>2, <1>3, <1>4, <1>5, <1>6 DEF Next

LEMMA QuietStep == ASSUME Inv, [Next]_vars PROVE QuietInv'
<1> USE TermuxAssumption DEF Inv
<1>1. CASE ServerStep
  <2>1. \A s \in Known : s \notin valid => s \notin valid'
    BY <1>1, ServerStepEffect DEF Known, TypeOK
  <2>2. \A t \in Tasks : hb[t].answer = "refused" => hb[t].pc = "calling"
    BY DEF TypeOK, Asleep, Over
  <2>3. \A t \in Tasks : hb'[t].answer = "refused" /\ quiet => hb'[t].token \notin valid'
    BY <1>1, <2>1, <2>2, HeartbeatUntouched DEF QuietInv, TokensInv
  <2> QED BY <1>1, <2>3, ServerStepEffect, HeartbeatUntouched DEF QuietInv
<1>2. ASSUME UNCHANGED server, UNCHANGED beat \/ Stopped \/ Started,
             quiet' => quiet /\ late' = {} /\ ~torn'
      PROVE  QuietInv'
  <2>1. \A t \in Tasks : hb'[t] = hb[t] \/ (hb'[t].pc # "calling" /\ hb'[t].answer # "refused")
    BY <1>2 DEF Stopped, Started, AllOver, beat, TypeOK, Asleep, Over
  <2> QED BY <1>2, <2>1 DEF QuietInv, server
<1>3. CASE UserStep
  BY <1>2, <1>3, UserEffect DEF QuietInv
<1>4. CASE CommandReturns
  BY <1>2, <1>4, CommandEffect DEF QuietInv, LogoutLocal, SaveLogin
<1>5. CASE HeartbeatStep
  <2> PICK t \in Tasks : \/ HeartbeatWakes(t) \/ HeartbeatSucceeds(t)
                         \/ HeartbeatRefused(t) \/ HeartbeatTimesOut(t)
    BY <1>5 DEF HeartbeatStep
  <2>1. CASE HeartbeatWakes(t)
    <3>1. quiet /\ LoggedIn => session # None
      BY DEF QuietInv, FilesAgree, LoggedIn
    <3> QED BY <2>1, <3>1 DEF HeartbeatWakes, QuietInv, TypeOK, Ping, Over, server
  <2>2. CASE HeartbeatSucceeds(t)
    BY <2>2 DEF HeartbeatSucceeds, QuietInv, TypeOK, Asleep, server
  <2>3. CASE HeartbeatRefused(t) \/ HeartbeatTimesOut(t)
    <3>1. hb' \in {[hb EXCEPT ![t] = Asleep], [hb EXCEPT ![t] = Over]}
      BY <2>3, FailEffect
    <3>2. \A u \in Tasks : hb'[u] = hb[u] \/ (hb'[u].pc # "calling" /\ hb'[u].answer # "refused")
      BY <3>1 DEF TypeOK, Asleep, Over
    <3> QED BY <2>3, <3>2, FailEffect DEF QuietInv, LogoutLocal, server
  <2> QED BY <2>1, <2>2, <2>3
<1>6. CASE CrashStep
  BY <1>6, CrashEffect DEF QuietInv
<1>7. CASE UNCHANGED vars
  BY <1>2, <1>7 DEF QuietInv, vars
<1> QED BY <1>1, <1>3, <1>4, <1>5, <1>6, <1>7 DEF Next

LEMMA LeaksStep == ASSUME Inv, [Next]_vars PROVE NoSessionLeaks'
<1> USE TermuxAssumption DEF Inv
<1>1. CASE ServerStep
  <2>1. UNCHANGED <<session, quiet>> /\ accounts' \subseteq accounts
    BY <1>1, ServerStepEffect DEF files
  <2>2. CASE quiet /\ accounts' = Users
    <3>1. accounts = Users /\ late = {} /\ valid \subseteq {session, reply.session}
      BY <2>1, <2>2 DEF NoSessionLeaks, QuietInv, TypeOK
    <3>2. CASE ServerAnswers
      <4>1. call \in Requests /\ reply = NoReply /\ reply' \in Answers /\ Handle(call, reply')
        BY <3>2 DEF ServerAnswers, Answers, TypeOK
      <4>2. CASE reply' # Error /\ call.type = "LOGIN"
        <5>1. cli = "login"
          BY <4>1, <4>2 DEF CallInv, TypeOK, Awaiting, NoCall
        <5>2. session = None /\ None \notin valid
          BY <5>1 DEF CallInv, LoggedIn, TypeOK, None
        <5>3. valid = {}
          BY <3>1, <4>1, <5>2 DEF NoReply
        <5> QED BY <4>1, <4>2, <5>3, AnswerMeans DEF NoSessionLeaks, Ok
      <4>3. CASE reply' # Error /\ call.type # "LOGIN"
        BY <2>1, <3>1, <4>1, <4>3, AnswerMeans DEF NoSessionLeaks, Ok, NoReply
      <4>4. CASE reply' = Error
        BY <2>1, <3>1, <4>1, <4>4, AnswerMeans DEF NoSessionLeaks, Error, NoReply, server
      <4> QED BY <4>2, <4>3, <4>4
    <3>3. CASE ~ServerAnswers
      BY <1>1, <2>1, <3>1, <3>3 DEF ServerStep, ServerGetsLate, ServerGetsHeartbeat, Expire, NoSessionLeaks, cmd, server
    <3> QED BY <3>2, <3>3
  <2> QED BY <2>1, <2>2 DEF NoSessionLeaks
<1>2. CASE UserStep
  <2>1. reply.session = None /\ None \notin valid
    BY <1>2, UserEffect DEF ReplyInv, TypeOK, None
  <2> QED BY <1>2, <2>1, UserEffect DEF NoSessionLeaks, server, files
<1>3. CASE CommandReturns
  <2>1. UNCHANGED <<accounts, valid>> /\ reply'.session = None
    BY <1>3, CommandEffect DEF server, NoReply
  <2>2. None \notin valid
    BY DEF TypeOK, None
  <2>3. CASE quiet' /\ accounts = Users
    <3>1. quiet /\ valid \subseteq {session, reply.session} /\ reply # NoReply
      BY <1>3, <2>3, CommandEffect DEF QuietInv, NoSessionLeaks
    <3>2. CASE UNCHANGED session /\ ~(cli = "login" /\ reply.status = "ok")
      BY <2>1, <2>2, <3>1, <3>2 DEF NoSessionLeaks, ReplyInv
    <3>3. CASE cli \in {"logout", "exit"}
      BY <2>1, <2>2, <3>1, <3>3 DEF NoSessionLeaks, ReplyInv, CallInv
    <3>4. cli = "delete" => reply.status # "ok"
      BY <2>3 DEF ReplyInv, TokensInv, Sessions, TypeOK
    <3>5. CASE cli = "login" /\ SaveLogin(reply.session, call.user)
      BY <2>1, <2>2, <3>1, <3>5 DEF NoSessionLeaks, CallInv, LoggedIn, SaveLogin
    <3> QED BY <1>3, <2>3, <3>1, <3>2, <3>3, <3>4, <3>5, CommandEffect DEF LogoutLocal
  <2> QED BY <2>1, <2>3 DEF NoSessionLeaks
<1>4. CASE HeartbeatStep
  <2> PICK t \in Tasks : \/ HeartbeatWakes(t) \/ HeartbeatSucceeds(t)
                         \/ HeartbeatRefused(t) \/ HeartbeatTimesOut(t)
    BY <1>4 DEF HeartbeatStep
  <2>1. CASE HeartbeatWakes(t) \/ HeartbeatSucceeds(t)
    BY <2>1 DEF HeartbeatWakes, HeartbeatSucceeds, NoSessionLeaks, server, files, cmd
  <2>2. CASE HeartbeatRefused(t) \/ HeartbeatTimesOut(t)
    <3>1. CASE quiet' /\ accounts' = Users
      <4>1. quiet /\ accounts = Users /\ hb[t].answer = "refused" /\ UNCHANGED <<valid, reply>>
        BY <2>2, <3>1, FailEffect DEF server, cmd
      <4>2. t = current /\ Running
        BY <2>2, FailEffect DEF HeartbeatIsHeld, Running
      <4>3. hb[t].pc = "calling"
        BY <2>2, FailEffect
      <4>4. hb[t].token \in Known /\ hb[t].token # None /\ hb[t].token \notin valid
        BY <4>1, <4>3 DEF QuietInv, TokensInv
      <4>5. hb[t].token \in Sessions /\ hb[t].token <= created
        BY <4>4 DEF Known, None, Sessions, TypeOK
      <4>6. owner[hb[t].token] \in accounts
        BY <4>1, <4>5 DEF TokensInv
      <4>7. hb[t].token = session
        BY <4>2, <4>3, <4>4, <4>6 DEF BlameInv, Ours
      <4> QED BY <4>1, <4>4, <4>7 DEF NoSessionLeaks
    <3> QED BY <3>1 DEF NoSessionLeaks
  <2> QED BY <2>1, <2>2
<1>5. CASE CrashStep
  BY <1>5, CrashEffect DEF NoSessionLeaks
<1>6. CASE UNCHANGED vars
  BY <1>6 DEF NoSessionLeaks, vars, server, files, cmd
<1> QED BY <1>1, <1>2, <1>3, <1>4, <1>5, <1>6 DEF Next

-----------------------------------------------------------------------------

LEMMA NextInv == Inv /\ [Next]_vars => Inv'
BY TypeStep, TokensStep, CallStep, ReplyStep, IdleStep, CountHeldStep, WatchedStep, BlameStep,
   FilesStep, QuietStep, LeaksStep DEF Inv

\* The strengthened invariant holds in every reachable state: the one fact of
\* which all theorems below are consequences.
LEMMA SpecInv == Spec => []Inv
BY InitInv, NextInv, PTL DEF Spec

\* Every variable of the session model keeps its type, whatever is lost, late,
\* revoked or killed: the failure counter never passes the limit.
THEOREM TypeCorrect == Spec => []TypeOK
<1>1. Inv => TypeOK
  BY DEF Inv
<1> QED BY <1>1, SpecInv, PTL

\* _start_heartbeat() never starts a second task beside a running one, and
\* _stop_heartbeat() leaves none behind, in any order of commands, automatic
\* log-outs, deletions and restarts.
THEOREM OneHeartbeat == Spec => []HeartbeatIsHeld
<1>1. Inv => HeartbeatIsHeld
  BY DEF Inv
<1> QED BY <1>1, SpecInv, PTL

\* Nobody stays logged in without a running heartbeat, but while a logout waits.
THEOREM EveryLoginIsWatched == Spec => []LoginIsWatched
<1>1. Inv => LoginIsWatched
  BY DEF Inv
<1> QED BY <1>1, SpecInv, PTL

\* A login is logged out by its own failures: those of another login count only
\* if that one's account has been deleted.
THEOREM OwnFailuresCount == Spec => []FailuresAreOfThisLogin
<1>1. Inv => FailuresAreOfThisLogin
  BY DEF Inv, IdleInv, LoginIsWatched, BlameInv, Ours, FailuresAreOfThisLogin
<1> QED BY <1>1, SpecInv, PTL

\* access.jwt, session.token and profile.json are of one login, unless a kill
\* came between two of the three file operations.
THEOREM FilesStayTogether == Spec => []FilesAgree
<1>1. Inv => FilesAgree
  BY DEF Inv
<1> QED BY <1>1, SpecInv, PTL

\* While nothing is lost, killed or deleted, every session the server keeps is
\* the one on disk or in the answer to the login under way.
THEOREM NoSessionIsLeaked == Spec => []NoSessionLeaks
<1>1. Inv => NoSessionLeaks
  BY DEF Inv
<1> QED BY <1>1, SpecInv, PTL
=============================================================================
