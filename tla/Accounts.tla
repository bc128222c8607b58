------------------------------ MODULE Accounts ------------------------------
(***************************************************************************)
(* Accounts and sessions of the server (src/server): who is registered,    *)
(* who is logged in, what an account owns, and its deletion.               *)
(*                                                                         *)
(* As in Negotiation, every call is a task of one event loop, an action is *)
(* the code up to the next await, all tasks write through one connection,  *)
(* and the server may be killed between any two statements.  SQLite checks *)
(* foreign keys and UNIQUE at each statement: one that breaks them raises, *)
(* which ends its call and leaves its earlier statements uncommitted.      *)
(*                                                                         *)
(* A session stands for its token, its jwt_secret and the access tokens    *)
(* signed with it; sessions are numbered as they are opened, so a later    *)
(* one expires later.  The rows one user has in a table are one row, so a  *)
(* foreign key to one song of a user is one to any song of that user.      *)
(*                                                                         *)
(* Three tables are left out, with the first three statements of           *)
(* delete_account(): peer_tokens has no foreign key, and nothing is ever   *)
(* inserted into transfer_negotiation and download_history.  What is said  *)
(* here of a deleted account is not said of its rows in peer_tokens: an    *)
(* approval under way may put one there later.  A wrong password and a     *)
(* stale access token are refusals that may always happen.                 *)
(***************************************************************************)
EXTENDS Naturals, FiniteSets

CONSTANTS
  Users,       \* the uuids register() may draw
  Names,       \* usernames
  NoUser, NoName,
  NoProfile,   \* shown: there is no row in profiles
  NoDisplay,   \* shown: there is one, without a display_name
  MaxSessions, \* bound: sessions opened
  AtStart,     \* the database the first start finds
  Tasks,       \* how many calls the server can be busy with
  NoCall,      \* a task that does not exist
  MaxCalls,    \* bound: calls in a behaviour
  MaxExpired,  \* bound: sessions that expire
  MaxCrashes   \* bound: times the server is killed

Sessions == 1 .. MaxSessions

Database ==
  [name : [Users -> Names \union {NoName}],      \* users.username; NoName: no row
   shown : [Users -> Names \union {NoProfile, NoDisplay}], \* profiles.display_name
   session : [Sessions -> [by : Users \union {NoUser}, live : BOOLEAN]],
   songs : SUBSET Users,                         \* music_metadata.owner_id
   published : SUBSET Users,                     \* publish_history.user_id
   peers : SUBSET Users,                         \* peer_registry.user_id
   asked : SUBSET (Users \X Users)]              \* download_requests: requester, provider

Opened(db) == {s \in Sessions : db.session[s].by # NoUser}

\* Rows that refer to the row of u in users.
UsesUser(db, u) ==
  \/ db.shown[u] # NoProfile
  \/ \E s \in Sessions : db.session[s].by = u
  \/ u \in db.songs \union db.published \union db.peers
  \/ \E v \in Users : <<u, v>> \in db.asked \/ <<v, u>> \in db.asked

\* Rows that refer to the songs of u.
UsesSongs(db, u) == u \in db.published \/ \E v \in Users : <<v, u>> \in db.asked

\* Every foreign key leads to a row.
Sound(db) ==
  \A u \in Users : /\ UsesUser(db, u) => db.name[u] # NoName
                   /\ UsesSongs(db, u) => u \in db.songs

ASSUME AccountsAssumption ==
  /\ NoUser \notin Users /\ NoName \notin Names
  /\ NoProfile \notin Names /\ NoDisplay \notin Names /\ NoProfile # NoDisplay
  /\ MaxSessions \in Nat /\ MaxCalls \in Nat
  /\ MaxExpired \in Nat /\ MaxCrashes \in Nat
  /\ AtStart \in Database /\ Sound(AtStart)
  /\ \A u, v \in Users : AtStart.name[u] = AtStart.name[v] => u = v \/ AtStart.name[u] = NoName
  /\ \A s \in Opened(AtStart) : 1 .. s \subseteq Opened(AtStart)
  /\ \A s \in Sessions : AtStart.session[s].live => s \in Opened(AtStart)

Operations == {"register", "login", "logout", "refresh", "update", "delete",
               "publish", "register_peer", "download", "cleanup"}

\* The tables of an account that refer to users, in the order in which
\* delete_account() empties them after those that are left out.
Tables == {"publish_history", "download_requests", "music_metadata", "peer_registry",
           "sessions", "profiles", "users"}
\* Mutant: the songs go before the requests for them.
SongsFirst ==
  [publish_history |-> "music_metadata", music_metadata |-> "download_requests",
   download_requests |-> "peer_registry", peer_registry |-> "sessions",
   sessions |-> "profiles", profiles |-> "users", users |-> "commit"]

NextTable ==
  [publish_history |-> "download_requests", download_requests |-> "music_metadata",
   music_metadata |-> "peer_registry", peer_registry |-> "sessions",
   sessions |-> "profiles", profiles |-> "users", users |-> "commit"]

Points == Tables \union {"admit", "select", "verify", "bio", "commit", "log", "answer"}

\* A call under way: for whom, its arguments, and how far its task is.
CallType ==
  [op : Operations, user : Users \union {NoUser}, name : Names \union {NoName},
   other : Users \union {NoUser}, session : 0 .. MaxSessions, pc : Points, ok : BOOLEAN]

ASSUME NoCallAssumption == NoCall \notin CallType

VARIABLES
  mem,        \* the database as the shared connection sees it
  disk,       \* the database as it is committed
  task,       \* the tasks of the event loop
  drawn,      \* the user_ids that have been drawn
  expired,    \* the sessions whose expires_at has passed
  opened,     \* how many sessions have been opened
  registered, \* the user_ids register() has answered
  held,       \* whose session a client was told it has
  left,       \* the sessions logout() has answered ok
  leaving,    \* the users whose deletion has begun
  gone,       \* the users whose deletion has been answered ok
  late,       \* the users who got a row while they were being deleted
  overlap,    \* the users renamed while another call named them, since the start
  calls, crashes

told    == <<registered, held, left, gone>>
history == <<leaving, late, overlap>>
env     == <<drawn, expired, opened, calls, crashes>>
vars    == <<mem, disk, task, env, told, history>>

TypeOK ==
  /\ mem \in Database /\ disk \in Database
  /\ task \in [Tasks -> CallType \union {NoCall}]
  /\ drawn \in SUBSET Users
  /\ expired \in SUBSET Sessions
  /\ opened \in 0 .. MaxSessions
  /\ registered \in SUBSET Users
  /\ held \in [Sessions -> Users \union {NoUser}]
  /\ left \in SUBSET Sessions
  /\ leaving \in SUBSET Users /\ gone \in SUBSET Users
  /\ late \in SUBSET Users /\ overlap \in SUBSET Users
  /\ calls \in 0 .. MaxCalls
  /\ crashes \in 0 .. MaxCrashes

\* Mutant: the names are left as the last run of the server left them.
Unsynced(db) == db

\* _migrate_schema(): every display_name becomes the username.
Synced(db) ==
  [db EXCEPT !.shown = [u \in Users |-> IF @[u] = NoProfile THEN @[u] ELSE db.name[u]]]

Init ==
  /\ disk = Synced(AtStart) /\ mem = disk
  /\ task = [h \in Tasks |-> NoCall]
  /\ drawn = {u \in Users : AtStart.name[u] # NoName}
  /\ expired = {} /\ opened = Cardinality(Opened(AtStart))
  /\ registered = drawn
  /\ held = [s \in Sessions |-> AtStart.session[s].by]
  /\ left = {s \in Opened(AtStart) : ~AtStart.session[s].live}
  /\ leaving = {} /\ gone = {} /\ late = {} /\ overlap = {}
  /\ calls = 0 /\ crashes = 0

-----------------------------------------------------------------------------
(* Who may do what.                                                        *)

\* verify_session_token() finds the session good.
Valid(db, s) == db.session[s].live /\ s \notin expired

\* get_current_user() and _resolve_jwt(): an access token is checked with the
\* secret of its user's latest session that is not revoked.
Admits(db, s) ==
  /\ db.session[s].live
  /\ \A t \in Sessions :
       db.session[t].live /\ db.session[t].by = db.session[s].by => t <= s

\* users.username is UNIQUE.
NameFree(db, u, n) == \A v \in Users \ {u} : db.name[v] # n

Taken(n) == \E u \in Users : mem.name[u] = n

-----------------------------------------------------------------------------
(* The steps the calls are made of.                                        *)

At(h, op, pc) == task[h] # NoCall /\ task[h].op = op /\ task[h].pc = pc
GoTo(h, pc)   == task' = [task EXCEPT ![h].pc = pc]

\* A refusal, or an exception; log() tells of some.
Refuse(h)       == task' = [task EXCEPT ![h].pc = "answer", ![h].ok = FALSE]
RefuseLogged(h) == task' = [task EXCEPT ![h].pc = "log", ![h].ok = FALSE]

\* A statement that writes; where it may not, it raises.
Write(h, allowed, db, pc) ==
  /\ IF allowed THEN mem' = db /\ GoTo(h, pc) ELSE Refuse(h) /\ UNCHANGED mem
  /\ UNCHANGED disk

\* Mutant: PRAGMA foreign_keys is not set.
NoForeignKey(u) == TRUE

\* The row of u in users that a new row refers to.
HasUser(u) == mem.name[u] # NoName

BeingDeleted(u) ==
  \E h \in Tasks : task[h] # NoCall /\ task[h].op = "delete" /\ task[h].user = u
                   /\ task[h].pc \in Tables

\* Users who get a row while they are being deleted.
Gets(us) == late' = late \union {u \in us : BeingDeleted(u)}

Start(h, op, u, n, v, s, pc) ==
  /\ task[h] = NoCall
  /\ calls < MaxCalls
  /\ calls' = calls + 1
  /\ task' = [task EXCEPT ![h] = [op |-> op, user |-> u, name |-> n, other |-> v,
                                  session |-> s, pc |-> pc, ok |-> TRUE]]
  /\ UNCHANGED <<mem, disk, drawn, expired, opened, crashes, told, history>>

\* The calls that may yet draw a user_id, or open a session.
Early(op) == {h \in Tasks : At(h, op, "select") \/ At(h, op, "users") \/ At(h, op, "sessions")}

CallRegister(h, n) ==
  /\ Cardinality(Early("register")) < Cardinality(Users \ drawn)
  /\ Start(h, "register", NoUser, n, NoUser, 0, "select")

CallLogin(h, n) ==
  /\ Cardinality(Early("login")) + opened < MaxSessions
  /\ Start(h, "login", NoUser, n, NoUser, 0, "select")

\* Over QUIC: dispatch() wants a user_id, which /session/refresh does not pass.
CallRefresh(h, s) == held[s] # NoUser /\ Start(h, "refresh", NoUser, NoName, NoUser, s, "verify")

\* A call that carries an access token.  An update may leave the name out, as
\* those over REST do: UpdateProfileRequest has no username.
CallAdmitted(h, op, n, v, s) ==
  /\ held[s] # NoUser
  /\ (n # NoName) => (op = "update")
  /\ (v # NoUser) <=> (op = "download")
  /\ Start(h, op, NoUser, n, v, s, "admit")

FirstPoint ==
  [logout |-> "verify", update |-> "select", delete |-> "select",
   publish |-> "music_metadata", download |-> "select"]

\* Without a name update_profile() goes on to the bio, or past that too.
StartsAt(c) ==
  IF c.op = "update" /\ c.name = NoName THEN {"bio", "commit"} ELSE {FirstPoint[c.op]}

\* The transport resolves the user; a logout over QUIC shows its session token.
Admit(h) ==
  /\ task[h] # NoCall /\ task[h].pc = "admit"
  /\ LET c == task[h]
     IN  \/ /\ Admits(mem, c.session) \/ (c.op = "logout" /\ Valid(mem, c.session))
            /\ \E pc \in StartsAt(c) :
                 task' = [task EXCEPT ![h].user = mem.session[c.session].by, ![h].pc = pc]
         \/ Refuse(h)
  /\ UNCHANGED <<mem, disk, env, told, history>>

\* db.commit() commits whatever any task has written.
Commit(h) ==
  /\ task[h] # NoCall /\ task[h].pc = "commit"
  /\ disk' = mem
  /\ GoTo(h, "log")
  /\ UNCHANGED <<mem, env, told, history>>

\* logging_service.log() inserts a row and commits; dispatch() lets
\* register_peer() follow publish().
Log(h) ==
  /\ task[h] # NoCall /\ task[h].pc = "log"
  /\ disk' = mem
  /\ \/ GoTo(h, "answer")
     \/ /\ task[h].op = "publish" /\ task[h].ok
        /\ task' = [task EXCEPT ![h].op = "register_peer", ![h].pc = "peer_registry"]
  /\ UNCHANGED <<mem, env, told, history>>

Answer(h) ==
  /\ task[h] # NoCall /\ task[h].pc = "answer"
  /\ LET c == task[h]
         Add(set, op, x) == IF c.op = op /\ c.ok THEN set \union {x} ELSE set
     IN  /\ registered' = Add(registered, "register", c.user)
         /\ left' = Add(left, "logout", c.session)
         /\ gone' = Add(gone, "delete", c.user)
         /\ held' = IF c.op = "login" /\ c.ok THEN [held EXCEPT ![c.session] = c.user]
                    ELSE held
  /\ task' = [task EXCEPT ![h] = NoCall]
  /\ UNCHANGED <<mem, disk, env, history>>

-----------------------------------------------------------------------------
(* register()                                                              *)

RegisterSelect(h) ==
  /\ At(h, "register", "select")
  /\ IF Taken(task[h].name) THEN RefuseLogged(h) ELSE GoTo(h, "users")
  /\ UNCHANGED <<mem, disk, env, told, history>>

\* The id is drawn with the statement that inserts it.
RegisterUser(h) ==
  /\ At(h, "register", "users")
  /\ \E u \in Users \ drawn :
       /\ drawn' = drawn \union {u}
       /\ LET n == task[h].name
          IN  IF NameFree(mem, u, n)
              THEN /\ mem' = [mem EXCEPT !.name[u] = n]
                   /\ task' = [task EXCEPT ![h].user = u, ![h].pc = "profiles"]
              ELSE Refuse(h) /\ UNCHANGED mem
  /\ UNCHANGED <<disk, expired, opened, calls, crashes, told, history>>

\* An update may have made the row already.  No client sends a display_name, in
\* place of which the username is taken.
RegisterProfile(h) ==
  /\ At(h, "register", "profiles")
  /\ LET c == task[h]
     IN  /\ Write(h, HasUser(c.user) /\ mem.shown[c.user] = NoProfile,
                  [mem EXCEPT !.shown[c.user] = c.name], "commit")
         /\ Gets({c.user})
  /\ UNCHANGED <<env, told, leaving, overlap>>

-----------------------------------------------------------------------------
(* login(), logout(), refresh() and expire_stale_sessions()                *)

LoginSelect(h) ==
  /\ At(h, "login", "select")
  /\ \/ \E u \in Users : /\ mem.name[u] = task[h].name
                         /\ task' = [task EXCEPT ![h].user = u, ![h].pc = "sessions"]
     \/ RefuseLogged(h)
  /\ UNCHANGED <<mem, disk, env, told, history>>

\* Mutant: the session is left to the commit of the next call.
OpenUncommitted(h) ==
  /\ At(h, "login", "sessions")
  /\ opened' = opened + 1
  /\ HasUser(task[h].user) /\ Gets({task[h].user})
  /\ mem' = [mem EXCEPT !.session[opened'] = [by |-> task[h].user, live |-> TRUE]]
  /\ task' = [task EXCEPT ![h].session = opened', ![h].pc = "answer"]
  /\ UNCHANGED <<disk, drawn, expired, calls, crashes, told, leaving, overlap>>

\* create_session_token()
OpenSession(h) ==
  /\ At(h, "login", "sessions")
  /\ opened < MaxSessions
  /\ opened' = opened + 1
  /\ LET u == task[h].user
     IN  /\ Gets({u})
         /\ IF HasUser(u)
            THEN /\ mem' = [mem EXCEPT !.session[opened'] = [by |-> u, live |-> TRUE]]
                 /\ task' = [task EXCEPT ![h].session = opened', ![h].pc = "commit"]
            ELSE Refuse(h) /\ UNCHANGED mem
  /\ UNCHANGED <<disk, drawn, expired, calls, crashes, told, leaving, overlap>>

VerifySession(h) ==
  /\ task[h] # NoCall /\ task[h].pc = "verify"
  /\ LET c == task[h]
     IN  IF Valid(mem, c.session)
         THEN task' = [task EXCEPT ![h].user = mem.session[c.session].by,
                                   ![h].pc = IF c.op = "logout" THEN "sessions" ELSE "select"]
         ELSE IF c.op = "logout" THEN RefuseLogged(h) ELSE Refuse(h)
  /\ UNCHANGED <<mem, disk, env, told, history>>

\* revoke_session_token(): no row, no effect.
RevokeSession(h) ==
  /\ At(h, "logout", "sessions")
  /\ Write(h, TRUE, [mem EXCEPT !.session[task[h].session].live = FALSE], "commit")
  /\ UNCHANGED <<env, told, history>>

\* Mutant: a refresh writes the session it has read back, as good for longer.
RefreshRenews(h) ==
  /\ At(h, "refresh", "select")
  /\ Write(h, mem.session[task[h].session].by # NoUser,
           [mem EXCEPT !.session[task[h].session].live = TRUE], "log")
  /\ UNCHANGED <<env, told, history>>

\* The access token is signed with the secret read before this await.
RefreshSelect(h) ==
  /\ At(h, "refresh", "select")
  /\ IF HasUser(task[h].user) THEN GoTo(h, "log") ELSE Refuse(h)
  /\ UNCHANGED <<mem, disk, env, told, history>>

Stale == {s \in expired : mem.session[s].live}

\* cleanup_loop() wakes up; it is one task, and counts as a call.
CleanupWakes(h) ==
  /\ Stale # {}
  /\ \A k \in Tasks : task[k] # NoCall => task[k].op # "cleanup"
  /\ Start(h, "cleanup", NoUser, NoName, NoUser, 0, "sessions")

CleanupUpdate(h) ==
  /\ At(h, "cleanup", "sessions")
  /\ Write(h, TRUE, [mem EXCEPT !.session = [s \in Sessions |->
       IF s \in Stale THEN [@[s] EXCEPT !.live = FALSE] ELSE @[s]]], "commit")
  /\ UNCHANGED <<env, told, history>>

-----------------------------------------------------------------------------
(* update_profile()                                                        *)

UpdateSelect(h) ==
  /\ At(h, "update", "select")
  /\ LET c == task[h]
     IN  IF NameFree(mem, c.user, c.name) THEN GoTo(h, "users") ELSE Refuse(h)
  /\ UNCHANGED <<mem, disk, env, told, history>>

\* A call that names u, its registration or an update, is between its two tables.
Naming(u) ==
  \E h \in Tasks : (At(h, "register", "profiles") \/ At(h, "update", "profiles"))
                   /\ task[h].user = u

\* UPDATE users: no row, no effect.
UpdateUser(h) ==
  /\ At(h, "update", "users")
  /\ LET c == task[h]
     IN  /\ Write(h, HasUser(c.user) => NameFree(mem, c.user, c.name),
                  IF HasUser(c.user) THEN [mem EXCEPT !.name[c.user] = c.name] ELSE mem,
                  "profiles")
         /\ overlap' = IF Naming(c.user) THEN overlap \union {c.user} ELSE overlap
  /\ UNCHANGED <<env, told, leaving, late>>

\* The upsert makes the row if there is none.  A new bio may follow, or a new
\* password, whose UPDATE changes nothing here and never raises.
UpdateProfile(h) ==
  /\ At(h, "update", "profiles")
  /\ LET c == task[h]
     IN  /\ \E pc \in {"bio", "commit"} :
              Write(h, HasUser(c.user), [mem EXCEPT !.shown[c.user] = c.name], pc)
         /\ Gets({c.user})
  /\ UNCHANGED <<env, told, leaving, overlap>>

\* Mutant: the display_name is written with the bio, given or not.
UpdateBioAndName(h) ==
  /\ At(h, "update", "bio")
  /\ LET c == task[h]
     IN  /\ Write(h, HasUser(c.user), [mem EXCEPT !.shown[c.user] = c.name], "commit")
         /\ Gets({c.user})
  /\ UNCHANGED <<env, told, leaving, overlap>>

UpdateBio(h) ==
  /\ At(h, "update", "bio")
  /\ LET u == task[h].user
     IN  /\ Write(h, HasUser(u),
                  [mem EXCEPT !.shown[u] = IF @ = NoProfile THEN NoDisplay ELSE @], "commit")
         /\ Gets({u})
  /\ UNCHANGED <<env, told, leaving, overlap>>

-----------------------------------------------------------------------------
(* delete_account()                                                        *)

DeleteSelect(h) ==
  /\ At(h, "delete", "select")
  /\ LET u == task[h].user
     IN  IF HasUser(u)
         THEN \/ GoTo(h, "publish_history") /\ leaving' = leaving \union {u}
              \/ RefuseLogged(h) /\ UNCHANGED leaving
         ELSE Refuse(h) /\ UNCHANGED leaving
  /\ UNCHANGED <<mem, disk, env, told, late, overlap>>

Without(db, t, u) ==
  CASE t = "publish_history"   -> [db EXCEPT !.published = @ \ {u}]
    [] t = "download_requests" -> [db EXCEPT !.asked = {a \in @ : a[1] # u /\ a[2] # u}]
    [] t = "music_metadata"    -> [db EXCEPT !.songs = @ \ {u}]
    [] t = "peer_registry"     -> [db EXCEPT !.peers = @ \ {u}]
    [] t = "sessions"          -> [db EXCEPT !.session = [s \in Sessions |->
                                     IF @[s].by = u THEN [by |-> NoUser, live |-> FALSE]
                                     ELSE @[s]]]
    [] t = "profiles"          -> [db EXCEPT !.shown[u] = NoProfile]
    [] t = "users"             -> [db EXCEPT !.name[u] = NoName]

\* The statement leaves no row without the row it refers to.
MayDelete(t, u) ==
  /\ t = "music_metadata" => ~UsesSongs(mem, u)
  /\ t = "users" => ~UsesUser(mem, u)

DeleteRows(h) ==
  /\ task[h] # NoCall /\ task[h].op = "delete" /\ task[h].pc \in Tables
  /\ LET t == task[h].pc
         u == task[h].user
     IN  Write(h, MayDelete(t, u), Without(mem, t, u), NextTable[t])
  /\ UNCHANGED <<env, told, history>>

-----------------------------------------------------------------------------
(* publish(), register_peer() and request_download()                       *)

PublishSong(h) ==
  /\ At(h, "publish", "music_metadata")
  /\ LET u == task[h].user
     IN  /\ Write(h, HasUser(u), [mem EXCEPT !.songs = @ \union {u}], "publish_history")
         /\ Gets({u})
  /\ UNCHANGED <<env, told, leaving, overlap>>

PublishHistory(h) ==
  /\ At(h, "publish", "publish_history")
  /\ LET u == task[h].user
     IN  /\ Write(h, HasUser(u) /\ u \in mem.songs,
                  [mem EXCEPT !.published = @ \union {u}], "commit")
         /\ Gets({u})
  /\ UNCHANGED <<env, told, leaving, overlap>>

RegisterPeer(h) ==
  /\ At(h, "register_peer", "peer_registry")
  /\ LET u == task[h].user
     IN  /\ Write(h, HasUser(u), [mem EXCEPT !.peers = @ \union {u}], "commit")
         /\ Gets({u})
  /\ UNCHANGED <<env, told, leaving, overlap>>

DownloadSelect(h) ==
  /\ At(h, "download", "select")
  /\ LET c == task[h]
     IN  IF c.other \in mem.songs \intersect mem.peers /\ c.other # c.user
         THEN GoTo(h, "download_requests") ELSE Refuse(h)
  /\ UNCHANGED <<mem, disk, env, told, history>>

DownloadInsert(h) ==
  /\ At(h, "download", "download_requests")
  /\ LET c == task[h]
     IN  /\ Write(h, HasUser(c.user) /\ HasUser(c.other) /\ c.other \in mem.songs,
                  [mem EXCEPT !.asked = @ \union {<<c.user, c.other>>}], "commit")
         /\ Gets({c.user, c.other})
  /\ UNCHANGED <<env, told, leaving, overlap>>

-----------------------------------------------------------------------------

\* A commit of another service: a heartbeat, a log request, a negotiation.
OtherCommit ==
  /\ disk # mem
  /\ disk' = mem
  /\ UNCHANGED <<mem, task, env, told, history>>

\* Sessions expire in the order they were opened in.
Expire ==
  /\ Cardinality(expired) < opened /\ Cardinality(expired) < MaxExpired
  /\ expired' = expired \union {Cardinality(expired) + 1}
  /\ UNCHANGED <<mem, disk, task, drawn, opened, calls, crashes, told, history>>

\* The server is killed or shut down, and started again.
Restart ==
  /\ crashes < MaxCrashes
  /\ crashes' = crashes + 1
  /\ disk' = Synced(disk) /\ mem' = disk'
  /\ task' = [h \in Tasks |-> NoCall]
  /\ overlap' = {}
  /\ UNCHANGED <<drawn, expired, opened, calls, told, leaving, late>>

ClientCall(h) ==
  \/ \E n \in Names : CallRegister(h, n) \/ CallLogin(h, n)
  \/ \E s \in Sessions :
       \/ CallRefresh(h, s)
       \/ \E op \in DOMAIN FirstPoint, n \in Names \union {NoName},
            v \in Users \union {NoUser} : CallAdmitted(h, op, n, v, s)

TaskStep(h) ==
  \/ Admit(h) \/ VerifySession(h)
  \/ RegisterSelect(h) \/ RegisterUser(h) \/ RegisterProfile(h)
  \/ LoginSelect(h) \/ OpenSession(h) \/ RevokeSession(h) \/ RefreshSelect(h)
  \/ CleanupUpdate(h)
  \/ UpdateSelect(h) \/ UpdateUser(h) \/ UpdateProfile(h) \/ UpdateBio(h)
  \/ DeleteSelect(h) \/ DeleteRows(h)
  \/ PublishSong(h) \/ PublishHistory(h) \/ RegisterPeer(h)
  \/ DownloadSelect(h) \/ DownloadInsert(h)
  \/ Commit(h) \/ Log(h) \/ Answer(h)

\* Nobody calls any more and every task is done.
Quiet == (\A h \in Tasks : task[h] = NoCall) /\ UNCHANGED vars

Next ==
  \/ \E h \in Tasks : ClientCall(h) \/ CleanupWakes(h) \/ TaskStep(h)
  \/ OtherCommit \/ Expire \/ Restart \/ Quiet

Spec == Init /\ [][Next]_vars

-----------------------------------------------------------------------------
(* Safety.                                                                 *)

\* What register() and login() have answered is kept through crashes and other
\* calls' half-done transactions: the account, and the session with its user,
\* are on disk until the deletion of the account has begun.
AnswerKept ==
  /\ \A u \in registered : disk.name[u] # NoName \/ u \in leaving
  /\ \A s \in Sessions : held[s] # NoUser =>
       disk.session[s].by = held[s] \/ held[s] \in leaving

\* A logout is final: no refresh that was reading the session, no later login,
\* no clean-up and no restart makes its token or its access tokens good again.
LogoutIsFinal ==
  \A s \in left, db \in {mem, disk} : ~Valid(db, s) /\ ~Admits(db, s)

\* delete_account() answers ok only when nothing of the account is left in any
\* table with a foreign key to it, and nothing comes back there: a login, a
\* publication, an update or a request for a download that was under way cannot
\* put a row under a deleted account.  (peer_tokens has no such key.)
DeletedIsGone ==
  \A u \in gone, db \in {mem, disk} : db.name[u] = NoName /\ ~UsesUser(db, u)

\* The order of delete_account() is the right one: a deletion raises only when
\* another call gave the user a row while it ran.
DeletionRaisesOnlyLate ==
  [][\A h \in Tasks :
       /\ task[h] # NoCall /\ task[h].op = "delete" /\ task[h].pc \in Tables
       /\ task'[h] # NoCall /\ ~task'[h].ok
       => task[h].user \in late]_vars

\* Two calls that both found a name free do not both get it.
NamesAreUnique ==
  \A u, v \in Users, db \in {mem, disk} :
    db.name[u] = db.name[v] /\ db.name[u] # NoName => u = v

Updating(u) ==
  \E h \in Tasks : task[h] # NoCall /\ task[h].op = "update" /\ task[h].user = u

\* display_name is in step with username, once no update is under way and unless
\* an update of the user overlapped another update or the registration; a crash
\* that keeps half an update is repaired by the next start. (What is on disk of a
\* user whose deletion is not committed yet does not count.)
NamesInStep ==
  \A u \in Users, db \in {mem, disk} :
    \/ db.name[u] = NoName \/ db.shown[u] \in {NoProfile, NoDisplay, db.name[u]}
    \/ Updating(u) \/ u \in overlap
    \/ mem.name[u] = NoName

\* auth_service.py:34 and profile_service.py:17, however registrations and
\* updates interleave on the way from the look at a name to the commit: an
\* account goes by one name, which no other account has.
NamesAgree == NamesAreUnique /\ NamesInStep
=============================================================================
