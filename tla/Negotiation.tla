----------------------------- MODULE Negotiation -----------------------------
(***************************************************************************)
(* The server's transfer negotiation (src/server): download_requests and   *)
(* peer_tokens, and the calls of negotiation_service.py that work on them. *)
(*                                                                         *)
(* Every call is a task of one asyncio event loop.  All tasks share one    *)
(* database connection, so one action is the code up to the next await: a  *)
(* statement of one task runs between two statements of another, sees its  *)
(* uncommitted writes, and a commit commits the writes of everybody.  The  *)
(* server may be killed at any point; what was not committed is lost.      *)
(*                                                                         *)
(* A request_id stands for its row's music_id and requester_id, which      *)
(* never change.  Refusals that depend on other tables (an unknown song,   *)
(* an owner who is offline, an expired token) may happen at any time.      *)
(***************************************************************************)
EXTENDS Naturals, FiniteSets

CONSTANTS
  Users, Songs,
  OwnerOf,      \* music_metadata.owner_id of a song
  Requests,     \* the uuids request_download() may draw
  RequesterOf,  \* download_requests.requester_id
  SongOf,       \* download_requests.music_id
  Tokens,       \* the peer tokens create_peer_token() may draw
  NoToken,
  Desktops,     \* the users at a desktop client, which polls again and again
  Tasks,        \* how many calls the server can be busy with
  NoCall,       \* a task that does not exist
  CallsAtOnce,  \* how many answers one client waits for at a time
  MaxCalls,     \* bound: calls in a behaviour
  MaxCrashes,   \* bound: times the server is killed
  MaxTimeouts,  \* bound: calls whose client gives up waiting
  OtherServices \* whether the server's other services commit as well

ASSUME NegotiationAssumption ==
  /\ OwnerOf \in [Songs -> Users]
  /\ RequesterOf \in [Requests -> Users]
  /\ SongOf \in [Requests -> Songs]
  /\ \A r \in Requests : OwnerOf[SongOf[r]] # RequesterOf[r]
  /\ NoToken \notin Tokens
  /\ Desktops \subseteq Users
  /\ IsFiniteSet(Tasks)
  /\ CallsAtOnce \in Nat /\ MaxCalls \in Nat
  /\ MaxCrashes \in Nat /\ MaxTimeouts \in Nat
  /\ OtherServices \in BOOLEAN

Provider(r) == OwnerOf[SongOf[r]]

Reports  == {"in_progress", "completed", "failed"}
Statuses == {"none", "pending", "superseded", "approved", "rejected"} \union Reports

Database ==
  [status : [Requests -> Statuses],                \* "none": no such row
   tokenOf : [Requests -> Tokens \union {NoToken}],
   token : [Tokens -> {"none", "fresh", "used"}]]

Operations == {"request", "approve", "reject", "report", "verify"}
Points == {"select", "supersede", "insert", "mint", "mintCommit", "update", "commit",
           "log", "answer"}

\* A call under way: who made it, its arguments, and how far its task is.
CallType ==
  [id : 1 .. MaxCalls, op : Operations, by : Users, req : Requests,
   status : Reports, token : Tokens \union {NoToken},
   pc : Points, ok : BOOLEAN, waiting : BOOLEAN]

ASSUME NoCallAssumption == NoCall \notin CallType

\* What a client has been told.
AnswerType ==
  [id : 1 .. MaxCalls, op : Operations, by : Users, req : Requests,
   token : Tokens \union {NoToken}, ok : BOOLEAN]

VARIABLES
  mem,      \* the database as the shared connection sees it
  disk,     \* the database as it is committed
  task,     \* the tasks of the event loop
  drawn,    \* the request_ids that have been drawn
  seen,     \* the requests get_pending_requests() has shown each owner
  told,     \* the answers clients have received
  calls, crashes, timeouts

vars == <<mem, disk, task, drawn, seen, told, calls, crashes, timeouts>>
env  == <<drawn, seen, told, calls, crashes, timeouts>>

TypeOK ==
  /\ mem \in Database /\ disk \in Database
  /\ task \in [Tasks -> CallType \union {NoCall}]
  /\ drawn \in SUBSET Requests
  /\ seen \in [Users -> SUBSET Requests]
  /\ told \in SUBSET AnswerType
  /\ calls \in 0 .. MaxCalls
  /\ crashes \in 0 .. MaxCrashes
  /\ timeouts \in 0 .. MaxTimeouts

Empty ==
  [status |-> [r \in Requests |-> "none"], tokenOf |-> [r \in Requests |-> NoToken],
   token |-> [t \in Tokens |-> "none"]]

Init ==
  /\ mem = Empty /\ disk = Empty
  /\ task = [h \in Tasks |-> NoCall]
  /\ drawn = {} /\ seen = [u \in Users |-> {}] /\ told = {}
  /\ calls = 0 /\ crashes = 0 /\ timeouts = 0

-----------------------------------------------------------------------------
(* The clients.  An owner decides on requests it has been shown; the       *)
(* requester reports the outcome once it has its request_id, the owner     *)
(* once its approval has been answered.                                    *)

WasTold(op, r) == \E a \in told : a.op = op /\ a.req = r /\ a.ok

WaitingFor(u) == {h \in Tasks : task[h] # NoCall /\ task[h].by = u /\ task[h].waiting}

\* dispatch() starts a task for the call.
Call(h, op, u, r, s, t, pc) ==
  /\ task[h] = NoCall
  /\ calls < MaxCalls
  /\ Cardinality(WaitingFor(u)) < CallsAtOnce
  /\ calls' = calls + 1
  /\ task' = [task EXCEPT ![h] =
       [id |-> calls + 1, op |-> op, by |-> u, req |-> r, status |-> s, token |-> t,
        pc |-> pc, ok |-> TRUE, waiting |-> TRUE]]
  /\ UNCHANGED <<mem, disk, seen, told, crashes, timeouts>>

CallRequest(h, r) ==
  /\ r \notin drawn
  /\ drawn' = drawn \union {r}
  /\ Call(h, "request", RequesterOf[r], r, "failed", NoToken, "select")

CallDecision(h, op, r) ==
  /\ r \in seen[Provider(r)]
  /\ Call(h, op, Provider(r), r, "failed", NoToken, "select")
  /\ UNCHANGED drawn

CallReport(h, u, r, s) ==
  /\ \/ u = RequesterOf[r] /\ s # "in_progress" /\ WasTold("request", r)
     \/ u = Provider(r) /\ WasTold("approve", r)
  /\ Call(h, "report", u, r, s, NoToken, "update")
  /\ UNCHANGED drawn

\* SESSION_VERIFY asks for no login.  The owner has the token of its approval,
\* and the downloader gets it with TRANSFER_REQ.
CallVerify(h, u, r, t) ==
  /\ \E a \in told : a.op = "approve" /\ a.req = r /\ a.ok /\ a.token = t
  /\ u \in {Provider(r), RequesterOf[r]}
  /\ Call(h, "verify", u, r, "failed", t, "select")
  /\ UNCHANGED drawn

\* The client stops waiting; the task knows nothing of it.
Abandon(h) ==
  /\ task[h] # NoCall /\ task[h].waiting
  /\ timeouts < MaxTimeouts
  /\ timeouts' = timeouts + 1
  /\ task' = [task EXCEPT ![h].waiting = FALSE]
  /\ UNCHANGED <<mem, disk, drawn, seen, told, calls, crashes>>

\* Mutant: only an owner with nothing on display is shown what is pending.
PollOnce(u) ==
  LET pending == {r \in Requests : Provider(r) = u /\ mem.status[r] = "pending"}
  IN  /\ pending # {} /\ seen[u] = {}
      /\ seen' = [seen EXCEPT ![u] = @ \union pending]
      /\ UNCHANGED <<mem, disk, task, drawn, told, calls, crashes, timeouts>>

\* get_pending_requests(): the query the long poll repeats, and its answer.
Poll(u) ==
  LET pending == {r \in Requests : Provider(r) = u /\ mem.status[r] = "pending"}
  IN  /\ ~(pending \subseteq seen[u])
      /\ seen' = [seen EXCEPT ![u] = @ \union pending]
      /\ UNCHANGED <<mem, disk, task, drawn, told, calls, crashes, timeouts>>

-----------------------------------------------------------------------------
(* The steps the calls are made of.                                        *)

At(h, op, pc) == task[h] # NoCall /\ task[h].op = op /\ task[h].pc = pc
GoTo(h, pc)   == task' = [task EXCEPT ![h].pc = pc]
Refuse(h)     == task' = [task EXCEPT ![h].pc = "answer", ![h].ok = FALSE]

\* Mutant: the reason of a rejection is bound to the status column.
ReasonAsStatus(r, s) ==
  mem' = [mem EXCEPT !.status[r] = IF s = "rejected" THEN "file_not_found" ELSE s]

\* Mutant: a failed transfer is put up for another approval.
RetryFailed(r, s) == mem' = [mem EXCEPT !.status[r] = IF s = "failed" THEN "pending" ELSE s]

\* UPDATE download_requests SET status = s WHERE request_id = r
SetStatus(r, s) == mem' = [mem EXCEPT !.status[r] = s]

\* Mutant: update_transfer_status() and verify_peer_token() do not commit.
CommitForgotten(h) ==
  /\ task[h] # NoCall
  /\ \/ task[h].pc = "mintCommit" /\ GoTo(h, "update") /\ disk' = mem
     \/ /\ task[h].pc = "commit"
        /\ IF task[h].op \in {"report", "verify"}
           THEN GoTo(h, "answer") /\ UNCHANGED disk
           ELSE GoTo(h, "log") /\ disk' = mem
  /\ UNCHANGED <<mem, env>>

\* db.commit() commits whatever any task has written.
Commit(h) ==
  /\ task[h] # NoCall
  /\ \/ task[h].pc = "mintCommit" /\ GoTo(h, "update")
     \/ /\ task[h].pc = "commit"
        /\ GoTo(h, IF task[h].op \in {"report", "verify"} THEN "answer" ELSE "log")
  /\ disk' = mem
  /\ UNCHANGED <<mem, env>>

\* logging_service.log() inserts a row and commits, too.
Log(h) ==
  /\ task[h] # NoCall /\ task[h].pc = "log"
  /\ disk' = mem
  /\ GoTo(h, "answer")
  /\ UNCHANGED <<mem, env>>

Answer(h) ==
  /\ task[h] # NoCall /\ task[h].pc = "answer"
  /\ LET c == task[h]
         a == [id |-> c.id, op |-> c.op, by |-> c.by, req |-> c.req, token |-> c.token,
               ok |-> c.ok]
     IN  told' = IF c.waiting THEN told \union {a} ELSE told
  /\ task' = [task EXCEPT ![h] = NoCall]
  /\ UNCHANGED <<mem, disk, drawn, seen, calls, crashes, timeouts>>

-----------------------------------------------------------------------------
(* request_download()                                                      *)

RequestSelect(h) ==
  /\ At(h, "request", "select")
  /\ Refuse(h) \/ GoTo(h, "supersede")
  /\ UNCHANGED <<mem, disk, env>>

Rivals(q, r) == RequesterOf[q] = RequesterOf[r] /\ SongOf[q] = SongOf[r]

\* Mutant: the request of an earlier attempt is left as it is.
SupersedeNothing(h) ==
  /\ At(h, "request", "supersede")
  /\ GoTo(h, "insert")
  /\ UNCHANGED <<mem, disk, env>>

\* Mutant: the statement is committed before the new row is there.
SupersedeCommits(h) ==
  /\ At(h, "request", "supersede")
  /\ mem' = [mem EXCEPT !.status =
       [q \in Requests |-> IF Rivals(q, task[h].req) /\ @[q] = "pending"
                           THEN "superseded" ELSE @[q]]]
  /\ disk' = mem'
  /\ GoTo(h, "insert")
  /\ UNCHANGED env

RequestSupersede(h) ==
  /\ At(h, "request", "supersede")
  /\ mem' = [mem EXCEPT !.status =
       [q \in Requests |-> IF Rivals(q, task[h].req) /\ @[q] = "pending"
                           THEN "superseded" ELSE @[q]]]
  /\ GoTo(h, "insert")
  /\ UNCHANGED <<disk, env>>

RequestInsert(h) ==
  /\ At(h, "request", "insert")
  /\ mem' = [mem EXCEPT !.status[task[h].req] = "pending"]
  /\ GoTo(h, "commit")
  /\ UNCHANGED <<disk, env>>

-----------------------------------------------------------------------------
(* approve_request() and create_peer_token()                               *)

IsPending(h) == mem.status[task[h].req] = "pending"

ApproveSelect(h) ==
  /\ At(h, "approve", "select")
  /\ IF IsPending(h) THEN GoTo(h, "mint") ELSE Refuse(h)
  /\ UNCHANGED <<mem, disk, env>>

ApproveMint(h) ==
  /\ At(h, "approve", "mint")
  /\ \E t \in Tokens :
       /\ mem.token[t] = "none"
       /\ mem' = [mem EXCEPT !.token[t] = "fresh"]
       /\ task' = [task EXCEPT ![h].token = t, ![h].pc = "mintCommit"]
  /\ UNCHANGED <<disk, env>>

\* Mutant: the UPDATE finds its rows by requester and song.
ApproveAll(h) ==
  /\ At(h, "approve", "update")
  /\ LET found == {q \in Requests : Rivals(q, task[h].req) /\ mem.status[q] # "none"}
     IN  mem' = [mem EXCEPT !.status = [q \in Requests |-> IF q \in found THEN "approved" ELSE @[q]],
                            !.tokenOf = [q \in Requests |-> IF q \in found THEN task[h].token ELSE @[q]]]
  /\ GoTo(h, "commit")
  /\ UNCHANGED <<disk, env>>

\* The row is updated whatever its status has become since it was selected.
ApproveUpdate(h) ==
  /\ At(h, "approve", "update")
  /\ mem' = [mem EXCEPT !.status[task[h].req] = "approved",
                        !.tokenOf[task[h].req] = task[h].token]
  /\ GoTo(h, "commit")
  /\ UNCHANGED <<disk, env>>

-----------------------------------------------------------------------------
(* reject_request(), update_transfer_status() and verify_peer_token()      *)

\* Mutant: any request of the owner is rejected, whatever its status.
RejectAny(h) ==
  /\ At(h, "reject", "select")
  /\ GoTo(h, "update")
  /\ UNCHANGED <<mem, disk, env>>

RejectSelect(h) ==
  /\ At(h, "reject", "select")
  /\ IF IsPending(h) THEN GoTo(h, "update") ELSE Refuse(h)
  /\ UNCHANGED <<mem, disk, env>>

RejectUpdate(h) ==
  /\ At(h, "reject", "update")
  /\ SetStatus(task[h].req, "rejected")
  /\ GoTo(h, "commit")
  /\ UNCHANGED <<disk, env>>

\* No look at the status the row has.
ReportUpdate(h) ==
  /\ At(h, "report", "update")
  /\ SetStatus(task[h].req, task[h].status)
  /\ GoTo(h, "commit")
  /\ UNCHANGED <<disk, env>>

VerifySelect(h) ==
  /\ At(h, "verify", "select")
  /\ \/ mem.token[task[h].token] = "fresh" /\ GoTo(h, "update")
     \/ Refuse(h)
  /\ UNCHANGED <<mem, disk, env>>

\* Mutant: the token stays good.
UseNothing(h) ==
  /\ At(h, "verify", "update")
  /\ GoTo(h, "commit")
  /\ UNCHANGED <<mem, disk, env>>

VerifyUse(h) ==
  /\ At(h, "verify", "update")
  /\ mem' = [mem EXCEPT !.token[task[h].token] = "used"]
  /\ GoTo(h, "commit")
  /\ UNCHANGED <<disk, env>>

-----------------------------------------------------------------------------

\* A commit of another service on the shared connection.
OtherCommit ==
  /\ OtherServices
  /\ disk # mem
  /\ disk' = mem
  /\ UNCHANGED <<mem, task, env>>

\* The server is killed and started again: its clients' calls fail.
Crash ==
  /\ crashes < MaxCrashes
  /\ crashes' = crashes + 1
  /\ mem' = disk
  /\ task' = [h \in Tasks |-> NoCall]
  /\ UNCHANGED <<disk, drawn, seen, told, calls, timeouts>>

TaskStep(h) ==
  \/ RequestSelect(h) \/ RequestSupersede(h) \/ RequestInsert(h)
  \/ ApproveSelect(h) \/ ApproveMint(h) \/ ApproveUpdate(h)
  \/ RejectSelect(h) \/ RejectUpdate(h)
  \/ ReportUpdate(h)
  \/ VerifySelect(h) \/ VerifyUse(h)
  \/ Commit(h) \/ Log(h) \/ Answer(h)

ClientCall(h) ==
  \/ \E r \in Requests :
       \/ CallRequest(h, r)
       \/ CallDecision(h, "approve", r)
       \/ CallDecision(h, "reject", r)
       \/ \E u \in Users, s \in Reports : CallReport(h, u, r, s)
       \/ \E u \in Users, t \in Tokens : CallVerify(h, u, r, t)
  \/ Abandon(h)

\* Nobody calls any more and every task is done.
Quiet == (\A h \in Tasks : task[h] = NoCall) /\ UNCHANGED vars

Next ==
  \/ \E h \in Tasks : TaskStep(h) \/ ClientCall(h)
  \/ \E u \in Users : Poll(u)
  \/ OtherCommit
  \/ Crash
  \/ Quiet

Spec == Init /\ [][Next]_vars

\* The event loop runs every task, and the desktop clients keep polling; the
\* terminal client asks once for each of its user's commands.
FairSpec ==
  /\ Spec
  /\ \A h \in Tasks : WF_vars(TaskStep(h))
  /\ \A u \in Desktops : WF_vars(Poll(u))

-----------------------------------------------------------------------------
(* Safety.                                                                 *)

Holds(db, a) ==
  \/ a.op = "request" /\ db.status[a.req] # "none"
  \/ a.op = "approve" /\ db.status[a.req] \notin {"none", "pending"}
                      /\ db.token[a.token] # "none"
  \/ a.op = "reject" /\ db.status[a.req] \notin {"none", "pending"}
  \/ a.op = "report" /\ db.status[a.req] \notin {"none", "pending"}
  \/ a.op = "verify" /\ db.token[a.token] = "used"

\* What a client has been told survives the server: the request exists, the
\* decision is there and its token with it, the token is spent, on disk, from
\* the moment of the answer on, whatever other tasks write and commit.
AnswerDurable == \A a \in told : a.ok => Holds(disk, a)

\* An owner is never asked twice: a request whose decision, report or
\* replacement has been committed is not pending again, not even after a crash
\* or an overtaken statement of another task.
NeverPendingAgain ==
  [][\A r \in Requests :
       disk.status[r] \notin {"none", "pending"} => disk'.status[r] \notin {"none", "pending"}]_vars

\* A peer token stands for one request: an approved row has a token that was
\* issued, no other row has it, and no owner was told it for another request,
\* although the token is committed before the row is (token_store.py:188,
\* negotiation_service.py:258), by whichever task comes first.
TokenOfItsOwn ==
  LET approvals == {a \in told : a.op = "approve" /\ a.ok}
  IN  /\ \A r \in Requests : disk.status[r] = "approved" => disk.tokenOf[r] # NoToken
      /\ \A r \in Requests : disk.tokenOf[r] # NoToken =>
           /\ disk.token[disk.tokenOf[r]] # "none"
           /\ \A q \in Requests : disk.tokenOf[q] = disk.tokenOf[r] => q = r
           /\ \A a \in approvals : a.token = disk.tokenOf[r] => a.req = r
      /\ \A a, b \in approvals : a.token = b.token => a.req = b.req

Decisions(r) == {a \in told : a.ok /\ a.op \in {"approve", "reject"} /\ a.req = r}

\* A request is decided once: the second decision, in either direction, is
\* refused, as negotiation_service.py:317 has it, "Request not found or already
\* processed."
OneDecision == \A r \in Requests : Cardinality(Decisions(r)) <= 1

\* negotiation_service.py:76-78: earlier requests of one requester for one song
\* are cancelled, which "ensures only the latest request_id is active".
OnePendingPerSong ==
  \A q, r \in Requests :
    mem.status[q] = "pending" /\ mem.status[r] = "pending" /\ Rivals(q, r) => q = r

Redemptions(t) == {a \in told : a.op = "verify" /\ a.ok /\ a.token = t}

\* A holder of a token that waits for its answers is let in once, although the
\* used flag is read before an await and written after it (token_store.py:228),
\* the other holder redeems the token at the same time, and the server is killed.
OneUsePerHolder ==
  \A t \in Tokens : \A a, b \in Redemptions(t) : a.by = b.by => a = b

\* What the calls promise when nothing interleaves: see RequestBook.
Book == INSTANCE RequestBook WITH
  status <- disk.status, tokenOf <- disk.tokenOf, token <- disk.token

\* A server that works on one call at a time, and is killed in the middle of
\* some, changes its committed tables only by the whole steps of RequestBook.
ImplementsBook == Book!Spec

-----------------------------------------------------------------------------
(* Liveness.                                                               *)

\* A request the server has acknowledged is shown to its owner at a desktop,
\* unless it stops being pending first.
RequestIsSeen ==
  \A r \in Requests : Provider(r) \in Desktops =>
    (WasTold("request", r) ~> (r \in seen[Provider(r)] \/ mem.status[r] # "pending"))

-----------------------------------------------------------------------------
(* What the documentation says and the code does not do.                   *)

\* token_store.py:11-12: a peer token authorises "exactly one P2P STP transfer".
TokenUsedOnce == \A t \in Tokens : Cardinality(Redemptions(t)) <= 1
=============================================================================
