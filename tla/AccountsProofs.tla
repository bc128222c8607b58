--------------------------- MODULE AccountsProofs ---------------------------
(***************************************************************************)
(* Theorems about Accounts, for any users, names, tasks and bounds.        *)
(***************************************************************************)
EXTENDS Accounts, FiniteSetTheorems, TLAPS

USE AccountsAssumption

-----------------------------------------------------------------------------
(* The invariant.                                                          *)

\* A database that obeys its constraints and knows only ids that were drawn.
Good(db, ids, top) ==
  /\ db \in Database
  /\ Sound(db)
  /\ \A u, v \in Users : db.name[u] = db.name[v] /\ db.name[u] # NoName => u = v
  /\ \A u \in Users : db.name[u] # NoName => u \in ids
  /\ \A s \in Sessions : db.session[s].live => db.session[s].by # NoUser
  /\ \A s \in Sessions : db.session[s].by # NoUser => s <= top

\* The call knows its account.
Resolved(c) ==
  \/ /\ c.op \in {"update", "delete", "publish", "register_peer", "download"}
     /\ c.pc # "admit" /\ (c.pc = "answer" => c.ok)
  \/ c.op = "register" /\ (c.pc \in {"profiles", "commit"} \/ (c.pc \in {"log", "answer"} /\ c.ok))
  \/ c.op = "login" /\ (c.pc \in {"sessions", "commit"} \/ (c.pc \in {"log", "answer"} /\ c.ok))

WellFormed(c, ids, going) ==
  /\ Resolved(c) => c.user \in ids
  /\ c.pc = "admit" => c.op \in DOMAIN FirstPoint
  /\ c.pc = "verify" => c.op \in {"logout", "refresh"}
  /\ c.pc = "admit" \/ c.op \in {"logout", "refresh"} => c.session \in Sessions
  /\ c.op \in {"register", "login"} => c.name \in Names
  /\ c.op = "update" /\ c.pc \in {"select", "users", "profiles"} => c.name \in Names
  /\ c.op = "download" => c.other \in Users
  /\ c.op = "delete" /\ c.pc \in Tables => c.user \in going
  /\ c.pc \notin {"log", "answer"} => c.ok

CallsInv == \A h \in Tasks : task[h] # NoCall => WellFormed(task[h], drawn, leaving)

GoodInv == Good(mem, drawn, opened) /\ Good(disk, drawn, opened)

\* What a call has written that is at its commit, or behind it.
Written(c)   == c.pc = "commit" \/ (c.pc \in {"log", "answer"} /\ c.ok)
Committed(c) == c.pc \in {"log", "answer"} /\ c.ok

Effect(c, db, top, going) ==
  /\ c.op = "delete" => db.name[c.user] = NoName
  /\ c.op = "logout" => c.session <= top /\ ~db.session[c.session].live
  /\ c.op = "register" => c.user \in going \/ db.name[c.user] # NoName
  /\ c.op = "login" => /\ c.session \in Sessions /\ c.session <= top
                       /\ c.user \in going \/ db.session[c.session].by = c.user

InEffect(c, m, d, top, going) ==
  /\ Written(c) => Effect(c, m, top, going)
  /\ Committed(c) => Effect(c, d, top, going)
  /\ c.op = "logout" /\ c.pc = "sessions" => c.session <= top

EffectInv ==
  \A h \in Tasks : task[h] # NoCall => InEffect(task[h], mem, disk, opened, leaving)

\* What clients have been told.
Told(db) ==
  /\ \A u \in gone : u \in drawn /\ db.name[u] = NoName
  /\ \A s \in left : s <= opened /\ ~db.session[s].live
  /\ \A u \in registered : u \in leaving \/ db.name[u] # NoName
  /\ \A s \in Sessions : held[s] # NoUser =>
       s <= opened /\ (held[s] \in leaving \/ db.session[s].by = held[s])

ToldInv == Told(mem) /\ Told(disk)

\* The tables a deletion is past hold nothing of the user, or somebody was late.
Emptied(db, t, u) ==
  /\ t # "publish_history" => u \notin db.published
  /\ t \notin {"publish_history", "download_requests"} =>
       \A v \in Users : <<u, v>> \notin db.asked /\ <<v, u>> \notin db.asked
  /\ t \in {"peer_registry", "sessions", "profiles", "users"} => u \notin db.songs
  /\ t \in {"sessions", "profiles", "users"} => u \notin db.peers
  /\ t \in {"profiles", "users"} => \A s \in Sessions : db.session[s].by # u
  /\ t = "users" => db.shown[u] = NoProfile

LateInv ==
  \A h \in Tasks :
    task[h] # NoCall /\ task[h].op = "delete" /\ task[h].pc \in Tables =>
      task[h].user \in late \/ Emptied(mem, task[h].pc, task[h].user)

Typed == TypeOK /\ CallsInv /\ GoodInv
Inv   == Typed /\ EffectInv /\ ToldInv /\ LateInv

\* What no statement undoes, whoever's it is: a deleted account stays deleted, a
\* session that is over stays over, and an account and its sessions stay there
\* until its deletion begins.
Keeps(db, new, ids, top, going) ==
  /\ \A u \in ids : db.name[u] = NoName => new.name[u] = NoName
  /\ \A s \in Sessions : s <= top /\ ~db.session[s].live => ~new.session[s].live
  /\ \A u \in Users : db.name[u] # NoName => u \in going \/ new.name[u] # NoName
  /\ \A s \in Sessions : db.session[s].by # NoUser =>
       db.session[s].by \in going \/ new.session[s].by = db.session[s].by

\* Nothing is added to the rows of u.
NoMore(db, new, u) ==
  /\ u \in new.published => u \in db.published
  /\ u \in new.songs => u \in db.songs
  /\ u \in new.peers => u \in db.peers
  /\ \A v \in Users : /\ <<u, v>> \in new.asked => <<u, v>> \in db.asked
                      /\ <<v, u>> \in new.asked => <<v, u>> \in db.asked
  /\ \A s \in Sessions : new.session[s].by = u => db.session[s].by = u
  /\ db.shown[u] = NoProfile => new.shown[u] = NoProfile

-----------------------------------------------------------------------------
(* What the statements do to a database.                                   *)

LEMMA GoodGrows ==
  ASSUME NEW db, NEW ids, NEW ids2, NEW top \in Nat, NEW top2 \in Nat,
         Good(db, ids, top), ids \subseteq ids2, top <= top2
  PROVE  Good(db, ids2, top2)
BY DEF Good, Sessions

LEMMA Same ==
  ASSUME NEW db, NEW ids, NEW top, NEW going
  PROVE  Keeps(db, db, ids, top, going) /\ \A u : NoMore(db, db, u)
BY DEF Keeps, NoMore

LEMMA PutName ==
  ASSUME NEW ids, NEW ids2, NEW top, NEW going, NEW db, Good(db, ids, top),
         NEW u \in Users, NEW n \in Names, NameFree(db, u, n),
         ids \subseteq ids2, u \in ids2, u \notin ids \/ db.name[u] # NoName
  PROVE  LET new == [db EXCEPT !.name[u] = n]
         IN  Good(new, ids2, top) /\ Keeps(db, new, ids, top, going)
             /\ \A v \in Users : NoMore(db, new, v)
<1> DEFINE new == [db EXCEPT !.name[u] = n]
<1>1. db \in Database
  BY DEF Good
<1>2. /\ new \in Database
      /\ new.name = [db.name EXCEPT ![u] = n]
      /\ new.shown = db.shown /\ new.session = db.session /\ new.songs = db.songs
      /\ new.published = db.published /\ new.peers = db.peers /\ new.asked = db.asked
  BY <1>1 DEF Database
<1> HIDE DEF new
<1>3. \A v \in Users : new.name[v] = IF v = u THEN n ELSE db.name[v]
  BY <1>1, <1>2 DEF Database
<1>4. Sound(new)
  <2>1. \A v \in Users : db.name[v] # NoName => new.name[v] # NoName
    BY <1>3
  <2>2. \A v \in Users : UsesUser(db, v) <=> UsesUser(new, v)
    BY <1>2 DEF UsesUser
  <2>3. \A v \in Users : UsesSongs(db, v) <=> UsesSongs(new, v)
    BY <1>2 DEF UsesSongs
  <2> QED BY <2>1, <2>2, <2>3, <1>2 DEF Good, Sound
<1>5. Good(new, ids2, top)
  BY <1>2, <1>3, <1>4 DEF Good, NameFree
<1>6. Keeps(db, new, ids, top, going)
  BY <1>2, <1>3 DEF Good, Keeps
<1>7. \A v \in Users : NoMore(db, new, v)
  BY <1>2 DEF NoMore
<1> QED BY <1>5, <1>6, <1>7 DEF new

LEMMA PutShown ==
  ASSUME NEW ids, NEW top, NEW going, NEW db, Good(db, ids, top),
         NEW u \in Users, NEW x \in Names \union {NoDisplay}, db.name[u] # NoName
  PROVE  LET new == [db EXCEPT !.shown[u] = x]
         IN  Good(new, ids, top) /\ Keeps(db, new, ids, top, going)
             /\ \A v \in Users \ {u} : NoMore(db, new, v)
<1> DEFINE new == [db EXCEPT !.shown[u] = x]
<1>1. db \in Database
  BY DEF Good
<1>2. /\ new \in Database
      /\ new.shown = [db.shown EXCEPT ![u] = x]
      /\ new.name = db.name /\ new.session = db.session /\ new.songs = db.songs
      /\ new.published = db.published /\ new.peers = db.peers /\ new.asked = db.asked
  BY <1>1 DEF Database
<1> HIDE DEF new
<1>3. \A v \in Users : new.shown[v] = IF v = u THEN x ELSE db.shown[v]
  BY <1>1, <1>2 DEF Database
<1>4. Sound(new)
  <2>1. \A v \in Users : UsesUser(new, v) => UsesUser(db, v) \/ v = u
    BY <1>2, <1>3 DEF UsesUser
  <2>2. \A v \in Users : UsesSongs(new, v) => UsesSongs(db, v)
    BY <1>2 DEF UsesSongs
  <2> QED BY <1>2, <2>1, <2>2 DEF Good, Sound
<1>5. Good(new, ids, top)
  BY <1>2, <1>4 DEF Good
<1>6. Keeps(db, new, ids, top, going)
  BY <1>2 DEF Keeps
<1>7. \A v \in Users \ {u} : NoMore(db, new, v)
  BY <1>2, <1>3 DEF NoMore
<1> QED BY <1>5, <1>6, <1>7 DEF new

LEMMA PutSession ==
  ASSUME NEW ids, NEW top \in Nat, NEW going, NEW db, Good(db, ids, top),
         NEW u \in Users, top + 1 \in Sessions, db.name[u] # NoName
  PROVE  LET new == [db EXCEPT !.session[top + 1] = [by |-> u, live |-> TRUE]]
         IN  Good(new, ids, top + 1) /\ Keeps(db, new, ids, top, going)
             /\ \A v \in Users \ {u} : NoMore(db, new, v)
             /\ new.session[top + 1].by = u
<1> DEFINE new == [db EXCEPT !.session[top + 1] = [by |-> u, live |-> TRUE]]
<1>1. db \in Database
  BY DEF Good
<1>2. /\ new \in Database
      /\ new.session = [db.session EXCEPT ![top + 1] = [by |-> u, live |-> TRUE]]
      /\ new.name = db.name /\ new.shown = db.shown /\ new.songs = db.songs
      /\ new.published = db.published /\ new.peers = db.peers /\ new.asked = db.asked
  BY <1>1 DEF Database
<1> HIDE DEF new
<1>3. \A s \in Sessions :
        /\ s = top + 1 => new.session[s] = [by |-> u, live |-> TRUE]
        /\ s # top + 1 => new.session[s] = db.session[s]
  BY <1>1, <1>2 DEF Database
<1>4. Sound(new)
  BY <1>2, <1>3 DEF Good, Sound, UsesUser, UsesSongs
<1>5. Good(new, ids, top + 1)
  BY <1>2, <1>3, <1>4 DEF Good, Sessions
<1>6. \A s \in Sessions : s <= top => s # top + 1
  BY DEF Sessions
<1>7. db.session[top + 1].by = NoUser
  BY DEF Good, Sessions
<1>8. Keeps(db, new, ids, top, going)
  BY <1>2, <1>3, <1>6, <1>7 DEF Keeps
<1>9. \A v \in Users \ {u} : NoMore(db, new, v)
  BY <1>2, <1>3 DEF NoMore
<1> QED BY <1>3, <1>5, <1>8, <1>9 DEF new

LEMMA EndSessions ==
  ASSUME NEW ids, NEW top \in Nat, NEW going, NEW db, Good(db, ids, top),
         NEW over \in SUBSET Sessions
  PROVE  LET new == [db EXCEPT !.session = [s \in Sessions |->
                       IF s \in over THEN [@[s] EXCEPT !.live = FALSE] ELSE @[s]]]
         IN  Good(new, ids, top) /\ Keeps(db, new, ids, top, going)
             /\ \A v \in Users : NoMore(db, new, v)
             /\ \A s \in over : ~new.session[s].live
<1> DEFINE ended == [s \in Sessions |->
                      IF s \in over THEN [db.session[s] EXCEPT !.live = FALSE] ELSE db.session[s]]
           new == [db EXCEPT !.session = ended]
<1>1. db \in Database
  BY DEF Good
<1>2. \A s \in Sessions :
        /\ db.session[s] \in [by : Users \union {NoUser}, live : BOOLEAN]
        /\ ended[s] \in [by : Users \union {NoUser}, live : BOOLEAN]
  <2> TAKE s \in Sessions
  <2>1. db.session[s] \in [by : Users \union {NoUser}, live : BOOLEAN]
    BY <1>1 DEF Database
  <2>2. [db.session[s] EXCEPT !.live = FALSE] \in [by : Users \union {NoUser}, live : BOOLEAN]
    BY <2>1
  <2> QED BY <2>1, <2>2
<1>3. \A s \in Sessions :
        /\ ended[s].by = db.session[s].by
        /\ s \in over => ended[s].live = FALSE
        /\ s \notin over => ended[s].live = db.session[s].live
  BY <1>2
<1>a. ended \in [Sessions -> [by : Users \union {NoUser}, live : BOOLEAN]]
  BY <1>2
<1> HIDE DEF ended
<1>4. /\ new \in Database
      /\ new.session = ended
      /\ new.name = db.name /\ new.shown = db.shown /\ new.songs = db.songs
      /\ new.published = db.published /\ new.peers = db.peers /\ new.asked = db.asked
  BY <1>1, <1>a DEF Database
<1> HIDE DEF new
<1>5. Sound(new)
  BY <1>3, <1>4 DEF Good, Sound, UsesUser, UsesSongs
<1>6. Good(new, ids, top)
  BY <1>3, <1>4, <1>5 DEF Good
<1>7. Keeps(db, new, ids, top, going)
  BY <1>3, <1>4 DEF Keeps
<1>8. \A v \in Users : NoMore(db, new, v)
  BY <1>3, <1>4 DEF NoMore
<1>9. \A s \in over : ~new.session[s].live
  BY <1>3, <1>4
<1> QED BY <1>6, <1>7, <1>8, <1>9 DEF new, ended

LEMMA PutRow ==
  ASSUME NEW ids, NEW top, NEW going, NEW db, Good(db, ids, top),
         NEW u \in Users, db.name[u] # NoName
  PROVE  /\ LET new == [db EXCEPT !.songs = @ \union {u}]
            IN  Good(new, ids, top) /\ Keeps(db, new, ids, top, going)
                /\ \A v \in Users \ {u} : NoMore(db, new, v)
         /\ LET new == [db EXCEPT !.published = @ \union {u}]
            IN  u \in db.songs =>
                /\ Good(new, ids, top) /\ Keeps(db, new, ids, top, going)
                /\ \A v \in Users \ {u} : NoMore(db, new, v)
         /\ LET new == [db EXCEPT !.peers = @ \union {u}]
            IN  Good(new, ids, top) /\ Keeps(db, new, ids, top, going)
                /\ \A v \in Users \ {u} : NoMore(db, new, v)
<1>1. db \in Database
  BY DEF Good
<1> DEFINE a == [db EXCEPT !.songs = db.songs \union {u}]
           b == [db EXCEPT !.published = db.published \union {u}]
           c == [db EXCEPT !.peers = db.peers \union {u}]
<1>2. /\ a \in Database /\ a.songs = db.songs \union {u}
      /\ a.name = db.name /\ a.shown = db.shown /\ a.session = db.session
      /\ a.published = db.published /\ a.peers = db.peers /\ a.asked = db.asked
  BY <1>1 DEF Database
<1>3. /\ b \in Database /\ b.published = db.published \union {u}
      /\ b.name = db.name /\ b.shown = db.shown /\ b.session = db.session
      /\ b.songs = db.songs /\ b.peers = db.peers /\ b.asked = db.asked
  BY <1>1 DEF Database
<1>4. /\ c \in Database /\ c.peers = db.peers \union {u}
      /\ c.name = db.name /\ c.shown = db.shown /\ c.session = db.session
      /\ c.songs = db.songs /\ c.published = db.published /\ c.asked = db.asked
  BY <1>1 DEF Database
<1> HIDE DEF a, b, c
<1>5. Good(a, ids, top) /\ Keeps(db, a, ids, top, going)
      /\ \A v \in Users \ {u} : NoMore(db, a, v)
  <2>1. Sound(a)
    <3>1. \A v \in Users : UsesUser(a, v) => UsesUser(db, v) \/ v = u
      BY <1>2 DEF UsesUser
    <3>2. \A v \in Users : UsesSongs(a, v) => UsesSongs(db, v)
      BY <1>2 DEF UsesSongs
    <3> QED BY <1>2, <3>1, <3>2 DEF Good, Sound
  <2> QED BY <2>1, <1>2 DEF Good, Keeps, NoMore
<1>6. u \in db.songs => /\ Good(b, ids, top) /\ Keeps(db, b, ids, top, going)
                        /\ \A v \in Users \ {u} : NoMore(db, b, v)
  <2> HAVE u \in db.songs
  <2>1. Sound(b)
    <3>1. \A v \in Users : UsesUser(b, v) => UsesUser(db, v) \/ v = u
      BY <1>3 DEF UsesUser
    <3>2. \A v \in Users : UsesSongs(b, v) => UsesSongs(db, v) \/ v = u
      BY <1>3 DEF UsesSongs
    <3> QED BY <1>3, <3>1, <3>2 DEF Good, Sound
  <2> QED BY <2>1, <1>3 DEF Good, Keeps, NoMore
<1>7. Good(c, ids, top) /\ Keeps(db, c, ids, top, going)
      /\ \A v \in Users \ {u} : NoMore(db, c, v)
  <2>1. Sound(c)
    <3>1. \A v \in Users : UsesUser(c, v) => UsesUser(db, v) \/ v = u
      BY <1>4 DEF UsesUser
    <3>2. \A v \in Users : UsesSongs(c, v) => UsesSongs(db, v)
      BY <1>4 DEF UsesSongs
    <3> QED BY <1>4, <3>1, <3>2 DEF Good, Sound
  <2> QED BY <2>1, <1>4 DEF Good, Keeps, NoMore
<1> QED BY <1>5, <1>6, <1>7 DEF a, b, c

LEMMA PutAsked ==
  ASSUME NEW ids, NEW top, NEW going, NEW db, Good(db, ids, top),
         NEW u \in Users, NEW w \in Users,
         db.name[u] # NoName, db.name[w] # NoName, w \in db.songs
  PROVE  LET new == [db EXCEPT !.asked = @ \union {<<u, w>>}]
         IN  Good(new, ids, top) /\ Keeps(db, new, ids, top, going)
             /\ \A v \in Users \ {u, w} : NoMore(db, new, v)
<1>1. db \in Database
  BY DEF Good
<1> DEFINE new == [db EXCEPT !.asked = db.asked \union {<<u, w>>}]
<1>2. /\ new \in Database /\ new.asked = db.asked \union {<<u, w>>}
      /\ new.name = db.name /\ new.shown = db.shown /\ new.session = db.session
      /\ new.songs = db.songs /\ new.published = db.published /\ new.peers = db.peers
  BY <1>1 DEF Database
<1> HIDE DEF new
<1>3. \A x, y : <<x, y>> \in new.asked => <<x, y>> \in db.asked \/ (x = u /\ y = w)
  BY <1>2
<1>4. \A v \in Users : UsesUser(new, v) => UsesUser(db, v) \/ v \in {u, w}
  BY <1>2, <1>3 DEF UsesUser
<1>5. \A v \in Users : UsesSongs(new, v) => UsesSongs(db, v) \/ v = w
  BY <1>2, <1>3 DEF UsesSongs
<1>6. Sound(new)
  BY <1>2, <1>4, <1>5 DEF Good, Sound
<1>7. \A v \in Users \ {u, w} : NoMore(db, new, v)
  BY <1>2, <1>3 DEF NoMore
<1>8. Good(new, ids, top)
  BY <1>2, <1>6 DEF Good
<1>9. Keeps(db, new, ids, top, going)
  BY <1>2 DEF Keeps
<1> QED BY <1>7, <1>8, <1>9 DEF new

LEMMA TakeRows ==
  ASSUME NEW ids, NEW top, NEW going, NEW db, Good(db, ids, top),
         NEW u \in Users, u \in going, NEW t \in Tables,
         t = "music_metadata" => ~UsesSongs(db, u), t = "users" => ~UsesUser(db, u)
  PROVE  LET new == Without(db, t, u)
         IN  /\ Good(new, ids, top) /\ Keeps(db, new, ids, top, going)
             /\ \A v \in Users : NoMore(db, new, v)
             /\ t = "users" => new.name[u] = NoName
             /\ Emptied(db, t, u) /\ NextTable[t] \in Tables => Emptied(new, NextTable[t], u)
<1>1. db \in Database
  BY DEF Good
<1> DEFINE new == Without(db, t, u)
           ended == [s \in Sessions |-> IF db.session[s].by = u
                                       THEN [by |-> NoUser, live |-> FALSE] ELSE db.session[s]]
<1>2. /\ ended \in [Sessions -> [by : Users \union {NoUser}, live : BOOLEAN]]
      /\ \A s \in Sessions :
           /\ db.session[s].by = u => ended[s].by = NoUser /\ ended[s].live = FALSE
           /\ db.session[s].by # u => ended[s] = db.session[s]
  BY <1>1 DEF Database
<1>3. /\ [db EXCEPT !.published = @ \ {u}] \in Database
      /\ [db EXCEPT !.asked = {a \in @ : a[1] # u /\ a[2] # u}] \in Database
      /\ [db EXCEPT !.songs = @ \ {u}] \in Database
      /\ [db EXCEPT !.peers = @ \ {u}] \in Database
      /\ [db EXCEPT !.session = ended] \in Database
      /\ [db EXCEPT !.shown[u] = NoProfile] \in Database
      /\ [db EXCEPT !.name[u] = NoName] \in Database
  BY <1>1, <1>2 DEF Database
<1>4. /\ new \in Database
      /\ new.published = IF t = "publish_history" THEN db.published \ {u} ELSE db.published
      /\ new.asked = IF t = "download_requests"
                     THEN {a \in db.asked : a[1] # u /\ a[2] # u} ELSE db.asked
      /\ new.songs = IF t = "music_metadata" THEN db.songs \ {u} ELSE db.songs
      /\ new.peers = IF t = "peer_registry" THEN db.peers \ {u} ELSE db.peers
      /\ new.session = IF t = "sessions" THEN ended ELSE db.session
      /\ new.shown = IF t = "profiles" THEN [db.shown EXCEPT ![u] = NoProfile] ELSE db.shown
      /\ new.name = IF t = "users" THEN [db.name EXCEPT ![u] = NoName] ELSE db.name
  <2>1. CASE t = "publish_history"
    BY <1>1, <1>3, <2>1 DEF Without, Database
  <2>2. CASE t = "download_requests"
    BY <1>1, <1>3, <2>2 DEF Without, Database
  <2>3. CASE t = "music_metadata"
    BY <1>1, <1>3, <2>3 DEF Without, Database
  <2>4. CASE t = "peer_registry"
    BY <1>1, <1>3, <2>4 DEF Without, Database
  <2>5. CASE t = "sessions"
    BY <1>1, <1>3, <2>5 DEF Without, Database
  <2>6. CASE t = "profiles"
    <3>1. new = [db EXCEPT !.shown[u] = NoProfile]
      BY <2>6 DEF Without
    <3> HIDE DEF new
    <3>2. new \in Database /\ new.shown = [db.shown EXCEPT ![u] = NoProfile]
      BY <1>1, <1>3, <3>1 DEF Database
    <3>3. /\ new.published = db.published /\ new.asked = db.asked /\ new.songs = db.songs
          /\ new.peers = db.peers /\ new.session = db.session /\ new.name = db.name
      BY <1>1, <3>1 DEF Database
    <3> QED BY <2>6, <3>2, <3>3
  <2>7. CASE t = "users"
    <3>1. new = [db EXCEPT !.name[u] = NoName]
      BY <2>7 DEF Without
    <3> HIDE DEF new
    <3>2. new \in Database /\ new.name = [db.name EXCEPT ![u] = NoName]
      BY <1>1, <1>3, <3>1 DEF Database
    <3>3. /\ new.published = db.published /\ new.asked = db.asked /\ new.songs = db.songs
          /\ new.peers = db.peers /\ new.session = db.session /\ new.shown = db.shown
      BY <1>1, <3>1 DEF Database
    <3> QED BY <2>7, <3>2, <3>3
  <2> QED BY <2>1, <2>2, <2>3, <2>4, <2>5, <2>6, <2>7 DEF Tables
<1> HIDE DEF new, ended
<1>5. \A v \in Users : /\ v # u => new.name[v] = db.name[v] /\ new.shown[v] = db.shown[v]
                       /\ new.name[u] = IF t = "users" THEN NoName ELSE db.name[u]
                       /\ new.shown[u] = IF t = "profiles" THEN NoProfile ELSE db.shown[u]
  BY <1>1, <1>4 DEF Database
<1>6. \A s \in Sessions :
        \/ new.session[s] = db.session[s]
        \/ new.session[s].by = NoUser /\ ~new.session[s].live /\ db.session[s].by = u
  BY <1>2, <1>4
<1>7. \A v, w : <<v, w>> \in new.asked => <<v, w>> \in db.asked
  BY <1>4
<1>8. \A v \in Users : NoMore(db, new, v)
  BY <1>4, <1>5, <1>6, <1>7 DEF NoMore
<1>9. Sound(new)
  <2>1. ASSUME NEW v \in Users, UsesUser(new, v)
        PROVE  UsesUser(db, v)
    BY <2>1, <1>8 DEF UsesUser, NoMore
  <2>2. ASSUME NEW v \in Users, UsesSongs(new, v)
        PROVE  UsesSongs(db, v)
    BY <2>2, <1>8 DEF UsesSongs, NoMore
  <2>3. ASSUME NEW v \in Users, UsesUser(new, v)
        PROVE  new.name[v] # NoName
    BY <2>1, <2>3, <1>5 DEF Good, Sound
  <2>4. ASSUME NEW v \in Users, UsesSongs(new, v)
        PROVE  v \in new.songs
    BY <2>2, <2>4, <1>4 DEF Good, Sound
  <2> QED BY <2>3, <2>4 DEF Sound
<1>10. Good(new, ids, top)
  <2>1. \A v, w \in Users : new.name[v] = new.name[w] /\ new.name[v] # NoName => v = w
    BY <1>5 DEF Good
  <2>2. \A v \in Users : new.name[v] # NoName => v \in ids
    BY <1>5 DEF Good
  <2>3. \A s \in Sessions : /\ new.session[s].live => new.session[s].by # NoUser
                            /\ new.session[s].by # NoUser => s <= top
    BY <1>6 DEF Good
  <2> QED BY <1>4, <1>9, <2>1, <2>2, <2>3 DEF Good
<1>11. Keeps(db, new, ids, top, going)
  <2>1. \A v \in ids : db.name[v] = NoName => new.name[v] = NoName
    BY <1>1, <1>4 DEF Database
  <2> QED BY <2>1, <1>5, <1>6 DEF Keeps
<1>12. Emptied(db, t, u) /\ NextTable[t] \in Tables => Emptied(new, NextTable[t], u)
  <2> SUFFICES ASSUME Emptied(db, t, u), NextTable[t] \in Tables
               PROVE  Emptied(new, NextTable[t], u)
    OBVIOUS
  <2>1. NoMore(db, new, u)
    BY <1>8
  <2>2. CASE t = "publish_history"
    BY <1>4, <2>2 DEF Emptied, NextTable
  <2>3. CASE t = "download_requests"
    BY <1>4, <2>1, <2>3 DEF Emptied, NextTable, NoMore
  <2>4. CASE t = "music_metadata"
    BY <1>4, <2>1, <2>4 DEF Emptied, NextTable, NoMore
  <2>5. CASE t = "peer_registry"
    BY <1>4, <2>1, <2>5 DEF Emptied, NextTable, NoMore
  <2>6. CASE t = "sessions"
    BY <1>2, <1>4, <2>1, <2>6 DEF Emptied, NextTable, NoMore
  <2>7. CASE t = "profiles"
    BY <1>1, <1>4, <1>5, <2>1, <2>7 DEF Emptied, NextTable, NoMore
  <2>8. t # "users"
    BY DEF NextTable, Tables
  <2> QED BY <2>2, <2>3, <2>4, <2>5, <2>6, <2>7, <2>8 DEF Tables
<1> QED BY <1>5, <1>8, <1>10, <1>11, <1>12 DEF new

LEMMA SyncedIsGood ==
  ASSUME NEW ids, NEW top, NEW going, NEW db, Good(db, ids, top)
  PROVE  Good(Synced(db), ids, top) /\ Keeps(db, Synced(db), ids, top, going)
         /\ Synced(db).name = db.name /\ Synced(db).session = db.session
<1>1. db \in Database
  BY DEF Good
<1> DEFINE same == [u \in Users |-> IF db.shown[u] = NoProfile THEN db.shown[u] ELSE db.name[u]]
           new == Synced(db)
<1>2. \A u \in Users : db.shown[u] # NoProfile => db.name[u] \in Names
  BY <1>1 DEF Good, Sound, UsesUser, Database
<1>3. /\ same \in [Users -> Names \union {NoProfile, NoDisplay}]
      /\ \A u \in Users : same[u] = NoProfile <=> db.shown[u] = NoProfile
  BY <1>1, <1>2 DEF Database
<1> HIDE DEF same
<1>4. /\ [db EXCEPT !.shown = same] \in Database /\ [db EXCEPT !.shown = same].shown = same
      /\ [db EXCEPT !.shown = same].name = db.name
      /\ [db EXCEPT !.shown = same].session = db.session
      /\ [db EXCEPT !.shown = same].songs = db.songs
      /\ [db EXCEPT !.shown = same].published = db.published
      /\ [db EXCEPT !.shown = same].peers = db.peers
      /\ [db EXCEPT !.shown = same].asked = db.asked
  BY <1>1, <1>3 DEF Database
<1>5. new = [db EXCEPT !.shown = same]
  BY DEF Synced, same
<1> HIDE DEF new
<1>6. Sound(new)
  <2>1. \A v \in Users : UsesUser(new, v) => UsesUser(db, v)
    BY <1>3, <1>4, <1>5 DEF UsesUser
  <2>2. \A v \in Users : UsesSongs(new, v) => UsesSongs(db, v)
    BY <1>4, <1>5 DEF UsesSongs
  <2> QED BY <1>4, <1>5, <2>1, <2>2 DEF Good, Sound
<1>7. Good(new, ids, top)
  BY <1>4, <1>5, <1>6 DEF Good
<1>8. Keeps(db, new, ids, top, going)
  BY <1>4, <1>5 DEF Keeps
<1> QED BY <1>4, <1>5, <1>7, <1>8 DEF new

-----------------------------------------------------------------------------
(* How the tasks move.                                                     *)

\* The task of one call moves on, and the call stays well formed.
Goes(h) ==
  \E c \in CallType : task' = [task EXCEPT ![h] = c] /\ WellFormed(c, drawn', leaving')

Grows == drawn \subseteq drawn' /\ leaving \subseteq leaving' /\ late \subseteq late'

Calls == task \in [Tasks -> CallType \union {NoCall}] /\ CallsInv

LEMMA GoesOn ==
  ASSUME Calls, NEW h \in Tasks, Goes(h), Grows
  PROVE  Calls'
<1> USE DEF Calls
<1>1. PICK c \in CallType : task' = [task EXCEPT ![h] = c] /\ WellFormed(c, drawn', leaving')
  BY DEF Goes
<1>2. task' \in [Tasks -> CallType \union {NoCall}]
  BY <1>1
<1>3. ASSUME NEW k \in Tasks, task'[k] # NoCall
      PROVE  WellFormed(task'[k], drawn', leaving')
  <2>1. CASE k = h
    BY <1>1, <2>1
  <2>2. CASE k # h
    <3>1. task'[k] = task[k]
      BY <1>1, <2>2
    <3>2. WellFormed(task[k], drawn, leaving)
      BY <1>3, <3>1 DEF CallsInv
    <3> QED BY <3>1, <3>2 DEF WellFormed, Grows
  <2> QED BY <2>1, <2>2
<1> QED BY <1>2, <1>3 DEF CallsInv

LEMMA EndsWell ==
  ASSUME Calls, NEW h \in Tasks, task' = [task EXCEPT ![h] = NoCall], Grows
  PROVE  Calls'
<1> USE DEF Calls
<1>1. task' \in [Tasks -> CallType \union {NoCall}]
  OBVIOUS
<1>2. ASSUME NEW k \in Tasks, task'[k] # NoCall
      PROVE  WellFormed(task'[k], drawn', leaving')
  <2>1. task'[k] = task[k]
    BY <1>2
  <2> QED BY <1>2, <2>1 DEF WellFormed, Grows, CallsInv
<1> QED BY <1>1, <1>2 DEF CallsInv

LEMMA GoToGoes ==
  ASSUME Calls, NEW h \in Tasks, task[h] # NoCall, NEW pc \in Points, GoTo(h, pc),
         WellFormed([task[h] EXCEPT !.pc = pc], drawn', leaving')
  PROVE  Goes(h)
<1>1. [task[h] EXCEPT !.pc = pc] \in CallType
  BY DEF Calls, CallType
<1> QED BY <1>1 DEF Goes, GoTo

LEMMA RefuseGoes ==
  ASSUME Calls, NEW h \in Tasks, task[h] # NoCall, Grows,
         Refuse(h) \/ (RefuseLogged(h) /\ task[h].pc \notin {"admit", "answer"})
  PROVE  Goes(h)
<1>1. PICK c \in CallType : c = task[h]
  BY DEF Calls
<1>2. WellFormed(c, drawn, leaving)
  BY <1>1 DEF Calls, CallsInv
<1>3. CASE Refuse(h)
  <2>1. PICK d \in CallType : d = [c EXCEPT !.pc = "answer", !.ok = FALSE]
    BY DEF CallType, Points
  <2>2. WellFormed(d, drawn', leaving')
    BY <1>2, <2>1 DEF WellFormed, Resolved, CallType, Tables, Grows
  <2>3. task' = [task EXCEPT ![h] = d]
    BY <1>1, <1>3, <2>1 DEF Refuse
  <2> QED BY <2>2, <2>3 DEF Goes
<1>4. CASE RefuseLogged(h) /\ task[h].pc \notin {"admit", "answer"}
  <2>1. PICK d \in CallType : d = [c EXCEPT !.pc = "log", !.ok = FALSE]
    BY DEF CallType, Points
  <2>2. WellFormed(d, drawn', leaving')
    BY <1>1, <1>2, <1>4, <2>1 DEF WellFormed, Resolved, CallType, Tables, Grows
  <2>3. task' = [task EXCEPT ![h] = d]
    BY <1>1, <1>4, <2>1 DEF RefuseLogged
  <2> QED BY <2>2, <2>3 DEF Goes
<1> QED BY <1>3, <1>4

\* A statement that writes moves its call to pc, or refuses it.
LEMMA WriteGoes ==
  ASSUME Calls, NEW h \in Tasks, task[h] # NoCall, Grows, NEW pc \in Points,
         NEW allowed \in BOOLEAN, NEW db, Write(h, allowed, db, pc),
         allowed => WellFormed([task[h] EXCEPT !.pc = pc], drawn', leaving')
  PROVE  Goes(h)
<1>1. CASE allowed
  BY <1>1, GoToGoes DEF Write
<1>2. CASE ~allowed
  BY <1>2, RefuseGoes DEF Write
<1> QED BY <1>1, <1>2

LEMMA StartGoes ==
  ASSUME Calls, NEW h \in Tasks, Grows,
         NEW op \in Operations, NEW u \in Users \union {NoUser}, NEW n \in Names \union {NoName},
         NEW v \in Users \union {NoUser}, NEW s \in 0 .. MaxSessions, NEW pc \in Points,
         Start(h, op, u, n, v, s, pc),
         pc = "admit" => op \in DOMAIN FirstPoint,
         pc = "verify" => op = "refresh",
         pc = "admit" \/ op = "refresh" => s \in Sessions,
         pc = "admit" \/ op \in {"refresh", "login", "cleanup"} \/ (op = "register" /\ pc = "select"),
         op = "login" => pc = "select",
         op \in {"register", "login"} => n \in Names,
         op = "download" => v \in Users
  PROVE  Goes(h)
<1>1. PICK c \in CallType : c = [op |-> op, user |-> u, name |-> n, other |-> v,
                                  session |-> s, pc |-> pc, ok |-> TRUE]
  BY DEF CallType
<1>2. WellFormed(c, drawn', leaving')
  BY <1>1 DEF WellFormed, Resolved, FirstPoint, Tables
<1> QED BY <1>1, <1>2 DEF Goes, Start

LEMMA ClientMoves ==
  ASSUME Calls, NEW h \in Tasks, held \in [Sessions -> Users \union {NoUser}],
         ClientCall(h) \/ CleanupWakes(h)
  PROVE  Goes(h) /\ Grows
<1> USE DEF Operations, Points, Tables, Sessions
<1>1. ASSUME NEW n \in Names, CallRegister(h, n)
      PROVE  Goes(h) /\ Grows
  <2>1. Grows
    BY <1>1 DEF CallRegister, Start, Grows, history
  <2> QED BY <1>1, <2>1, StartGoes DEF CallRegister
<1>2. ASSUME NEW n \in Names, CallLogin(h, n)
      PROVE  Goes(h) /\ Grows
  <2>1. Grows
    BY <1>2 DEF CallLogin, Start, Grows, history
  <2> QED BY <1>2, <2>1, StartGoes DEF CallLogin
<1>3. ASSUME NEW s \in Sessions, CallRefresh(h, s)
      PROVE  Goes(h) /\ Grows
  <2>1. Grows
    BY <1>3 DEF CallRefresh, Start, Grows, history
  <2> QED BY <1>3, <2>1, StartGoes DEF CallRefresh
<1>4. ASSUME NEW s \in Sessions, NEW op \in DOMAIN FirstPoint, NEW n \in Names \union {NoName},
             NEW v \in Users \union {NoUser}, CallAdmitted(h, op, n, v, s)
      PROVE  Goes(h) /\ Grows
  <2>1. Grows
    BY <1>4 DEF CallAdmitted, Start, Grows, history
  <2>2. op \in {"logout", "update", "delete", "publish", "download"}
    BY DEF FirstPoint
  <2>3. op = "download" => v \in Users
    BY <1>4 DEF CallAdmitted
  <2> QED BY <1>4, <2>1, <2>2, <2>3, StartGoes DEF CallAdmitted
<1>5. ASSUME CleanupWakes(h)
      PROVE  Goes(h) /\ Grows
  <2>1. Grows
    BY <1>5 DEF CleanupWakes, Start, Grows, history
  <2> QED BY <1>5, <2>1, StartGoes DEF CleanupWakes
<1> QED BY <1>1, <1>2, <1>3, <1>4, <1>5 DEF ClientCall

LEMMA Reads ==
  ASSUME Calls, NEW h \in Tasks, TypeOK, GoodInv,
         \/ Admit(h) \/ VerifySession(h) \/ RegisterSelect(h) \/ LoginSelect(h)
         \/ RefreshSelect(h) \/ UpdateSelect(h) \/ DeleteSelect(h) \/ DownloadSelect(h)
         \/ Commit(h) \/ Log(h)
  PROVE  Goes(h) /\ Grows
<1>1. \A s \in Sessions : mem.session[s].live => mem.session[s].by \in drawn
  <2> TAKE s \in Sessions
  <2>1. mem.session[s].by \in Users \union {NoUser}
    BY DEF TypeOK, Database
  <2> QED BY <2>1 DEF GoodInv, Good, Sound, UsesUser
<1>2. \A u \in Users : HasUser(u) => u \in drawn
  BY DEF GoodInv, Good, HasUser
<1>3. Grows
  BY DEF Admit, VerifySession, RegisterSelect, LoginSelect, RefreshSelect, UpdateSelect,
     DeleteSelect, DownloadSelect, Commit, Log, Grows, env, history
<1>4. task[h] # NoCall
  BY DEF Admit, VerifySession, RegisterSelect, LoginSelect, RefreshSelect, UpdateSelect,
     DeleteSelect, DownloadSelect, Commit, Log, At
<1>5. PICK c \in CallType : c = task[h]
  BY <1>4 DEF Calls
<1>6. WellFormed(c, drawn, leaving)
  BY <1>4, <1>5 DEF Calls, CallsInv
<1> USE DEF Points, Tables
<1>7. CASE Admit(h)
  <2>1. CASE Refuse(h)
    BY <2>1, <1>3, <1>4, RefuseGoes
  <2>2. CASE ~Refuse(h)
    <3>1. c.pc = "admit" /\ c.op \in DOMAIN FirstPoint /\ c.session \in Sessions
      BY <1>5, <1>6, <1>7 DEF Admit, WellFormed
    <3>2. mem.session[c.session].live
      BY <1>5, <1>7, <2>2 DEF Admit, Admits, Valid
    <3>3. PICK u \in drawn : u = mem.session[c.session].by
      BY <1>1, <3>1, <3>2
    <3>4. PICK pc \in StartsAt(c) :
            task' = [task EXCEPT ![h].user = mem.session[c.session].by, ![h].pc = pc]
      BY <1>5, <1>7, <2>2 DEF Admit
    <3>5. pc \in Points
      BY <3>1, <3>4 DEF FirstPoint, StartsAt
    <3>6. PICK d \in CallType : d = [c EXCEPT !.user = u, !.pc = pc]
      BY <3>3, <3>5 DEF CallType, TypeOK
    <3>7. task' = [task EXCEPT ![h] = d]
      BY <1>5, <3>3, <3>4, <3>6
    <3>8. WellFormed(d, drawn', leaving')
      BY <1>3, <1>6, <3>1, <3>3, <3>4, <3>6
         DEF WellFormed, Resolved, FirstPoint, StartsAt, CallType, Grows
    <3> QED BY <1>3, <3>7, <3>8 DEF Goes
  <2> QED BY <2>1, <2>2
<1>8. CASE VerifySession(h)
  <2>1. c.pc = "verify" /\ c.op \in {"logout", "refresh"} /\ c.session \in Sessions
    BY <1>5, <1>6, <1>8 DEF VerifySession, WellFormed
  <2>2. CASE Valid(mem, c.session)
    <3>1. PICK u \in drawn : u = mem.session[c.session].by
      BY <1>1, <2>1, <2>2 DEF Valid
    <3>2. PICK d \in CallType :
            d = [c EXCEPT !.user = u, !.pc = IF c.op = "logout" THEN "sessions" ELSE "select"]
      BY <3>1 DEF CallType, TypeOK
    <3>3. task' = [task EXCEPT ![h] = d]
      BY <1>5, <1>8, <2>2, <3>1, <3>2 DEF VerifySession
    <3>4. WellFormed(d, drawn', leaving')
      BY <1>3, <1>6, <2>1, <3>1, <3>2 DEF WellFormed, Resolved, CallType, Grows
    <3> QED BY <1>3, <3>3, <3>4 DEF Goes
  <2>3. CASE ~Valid(mem, c.session)
    BY <1>3, <1>4, <1>5, <1>8, <2>1, <2>3, RefuseGoes DEF VerifySession
  <2> QED BY <2>2, <2>3
<1>9. CASE RegisterSelect(h)
  <2>1. WellFormed([c EXCEPT !.pc = "users"], drawn', leaving')
    BY <1>3, <1>5, <1>6, <1>9 DEF RegisterSelect, At, WellFormed, Resolved, CallType, Grows
  <2> QED BY <1>3, <1>4, <1>5, <1>9, <2>1, GoToGoes, RefuseGoes DEF RegisterSelect, At
<1>10. CASE LoginSelect(h)
  <2>1. CASE RefuseLogged(h)
    BY <1>3, <1>4, <1>10, <2>1, RefuseGoes DEF LoginSelect, At
  <2>2. CASE ~RefuseLogged(h)
    <3>1. PICK u \in Users : /\ mem.name[u] = task[h].name
                            /\ task' = [task EXCEPT ![h].user = u, ![h].pc = "sessions"]
      BY <1>10, <2>2 DEF LoginSelect
    <3>2. mem.name[u] # NoName => u \in drawn
      BY DEF GoodInv, Good
    <3>3. c.op = "login" /\ c.pc = "select" /\ c.name \in Names
      BY <1>5, <1>6, <1>10 DEF LoginSelect, At, WellFormed
    <3>4. PICK d \in CallType : d = [c EXCEPT !.user = u, !.pc = "sessions"]
      BY DEF CallType
    <3>5. WellFormed(d, drawn', leaving')
      BY <1>3, <1>5, <1>6, <3>1, <3>2, <3>3, <3>4 DEF WellFormed, Resolved, CallType, Grows
    <3> QED BY <1>3, <1>5, <3>1, <3>4, <3>5 DEF Goes
  <2> QED BY <2>1, <2>2
<1>11. CASE RefreshSelect(h)
  <2>1. WellFormed([c EXCEPT !.pc = "log"], drawn', leaving')
    BY <1>3, <1>5, <1>6, <1>11 DEF RefreshSelect, At, WellFormed, Resolved, CallType, Grows
  <2> QED BY <1>3, <1>4, <1>5, <1>11, <2>1, GoToGoes, RefuseGoes DEF RefreshSelect
<1>12. CASE UpdateSelect(h)
  <2>1. WellFormed([c EXCEPT !.pc = "users"], drawn', leaving')
    BY <1>3, <1>5, <1>6, <1>12 DEF UpdateSelect, At, WellFormed, Resolved, CallType, Grows
  <2> QED BY <1>3, <1>4, <1>5, <1>12, <2>1, GoToGoes, RefuseGoes DEF UpdateSelect
<1>13. CASE DeleteSelect(h)
  <2>1. CASE GoTo(h, "publish_history") /\ leaving' = leaving \union {c.user}
    <3>1. WellFormed([c EXCEPT !.pc = "publish_history"], drawn', leaving')
      BY <1>3, <1>5, <1>6, <1>13, <2>1 DEF DeleteSelect, At, WellFormed, Resolved, CallType, Grows
    <3> QED BY <1>3, <1>4, <1>5, <2>1, <3>1, GoToGoes
  <2>2. CASE ~(GoTo(h, "publish_history") /\ leaving' = leaving \union {c.user})
    BY <1>3, <1>4, <1>5, <1>13, <2>2, RefuseGoes DEF DeleteSelect, At
  <2> QED BY <2>1, <2>2
<1>14. CASE DownloadSelect(h)
  <2>1. WellFormed([c EXCEPT !.pc = "download_requests"], drawn', leaving')
    BY <1>3, <1>5, <1>6, <1>14 DEF DownloadSelect, At, WellFormed, Resolved, CallType, Grows
  <2> QED BY <1>3, <1>4, <1>5, <1>14, <2>1, GoToGoes, RefuseGoes DEF DownloadSelect
<1>15. CASE Commit(h)
  <2>1. WellFormed([c EXCEPT !.pc = "log"], drawn', leaving')
    BY <1>3, <1>5, <1>6, <1>15 DEF Commit, WellFormed, Resolved, CallType, Grows
  <2> QED BY <1>3, <1>4, <1>5, <1>15, <2>1, GoToGoes DEF Commit
<1>16. CASE Log(h)
  <2>1. CASE GoTo(h, "answer")
    <3>1. WellFormed([c EXCEPT !.pc = "answer"], drawn', leaving')
      BY <1>3, <1>5, <1>6, <1>16 DEF Log, WellFormed, Resolved, CallType, Grows
    <3> QED BY <1>3, <1>4, <1>5, <2>1, <3>1, GoToGoes
  <2>2. CASE ~GoTo(h, "answer")
    <3>1. c.op = "publish" /\ c.pc = "log" /\ c.ok
          /\ task' = [task EXCEPT ![h].op = "register_peer", ![h].pc = "peer_registry"]
      BY <1>5, <1>16, <2>2 DEF Log
    <3>2. PICK d \in CallType : d = [c EXCEPT !.op = "register_peer", !.pc = "peer_registry"]
      BY DEF CallType, Operations
    <3>3. WellFormed(d, drawn', leaving')
      BY <1>3, <1>6, <3>1, <3>2 DEF WellFormed, Resolved, CallType, Grows
    <3> QED BY <1>3, <1>5, <3>1, <3>2, <3>3 DEF Goes
  <2> QED BY <2>1, <2>2
<1> QED BY <1>7, <1>8, <1>9, <1>10, <1>11, <1>12, <1>13, <1>14, <1>15, <1>16

\* What a step, other than a restart, does to the two databases.
DbStep ==
  /\ Good(mem', drawn', opened')
  /\ Keeps(mem, mem', drawn, opened, leaving')
  /\ \A v \in Users : BeingDeleted(v) => v \in late' \/ NoMore(mem, mem', v)
  /\ disk' = disk \/ (disk' = mem /\ mem' = mem)
  /\ opened' \in {opened, opened + 1}

LEMMA QuietDb ==
  ASSUME Good(mem, drawn, opened), mem' = mem, drawn \subseteq drawn', opened \in Nat,
         opened' = opened, disk' = disk \/ disk' = mem
  PROVE  DbStep
BY Same, GoodGrows DEF DbStep

LEMMA WriteDb ==
  ASSUME Good(mem, drawn, opened), NEW h, NEW allowed \in BOOLEAN, NEW db, NEW pc,
         NEW us, opened \in Nat,
         Write(h, allowed, db, pc), UNCHANGED <<drawn, opened, leaving>>,
         us = {} \/ Gets(us),
         allowed => /\ Good(db, drawn, opened) /\ Keeps(mem, db, drawn, opened, leaving)
                    /\ \A v \in Users \ us : NoMore(mem, db, v)
  PROVE  DbStep
<1>1. CASE allowed
  <2>1. mem' = db /\ disk' = disk
    BY <1>1 DEF Write
  <2>2. \A v \in Users : BeingDeleted(v) => v \in late' \/ NoMore(mem, db, v)
    BY <1>1 DEF Gets
  <2> QED BY <1>1, <2>1, <2>2 DEF DbStep
<1>2. CASE ~allowed
  BY <1>2, QuietDb DEF Write
<1> QED BY <1>1, <1>2

Step(h) == Goes(h) /\ Grows /\ DbStep

\* The step of a statement that draws no id, opens no session and begins nothing.
LEMMA StatementStep ==
  ASSUME Typed, NEW h \in Tasks, task[h] # NoCall, NEW pc \in Points,
         NEW allowed \in BOOLEAN, NEW new, NEW us, Write(h, allowed, new, pc),
         UNCHANGED <<drawn, opened, leaving>>, (us = {} /\ late' = late) \/ Gets(us),
         allowed => /\ Good(new, drawn, opened) /\ Keeps(mem, new, drawn, opened, leaving)
                    /\ \A v \in Users \ us : NoMore(mem, new, v)
                    /\ WellFormed([task[h] EXCEPT !.pc = pc], drawn, leaving)
  PROVE  Step(h)
<1>1. Calls /\ Good(mem, drawn, opened) /\ opened \in Nat /\ Grows
  BY DEF Typed, TypeOK, Calls, GoodInv, Grows, Gets
<1>2. Goes(h)
  BY <1>1, WriteGoes
<1>3. DbStep
  BY <1>1, WriteDb
<1> QED BY <1>1, <1>2, <1>3 DEF Step

LEMMA RegisterWrites ==
  ASSUME Typed, NEW h \in Tasks, RegisterUser(h) \/ RegisterProfile(h)
  PROVE  Step(h)
<1> USE DEF Points, Tables
<1>1. Calls /\ Good(mem, drawn, opened) /\ opened \in Nat /\ task[h] # NoCall
  BY DEF Typed, TypeOK, Calls, GoodInv, RegisterUser, RegisterProfile, At
<1>2. PICK c \in CallType : c = task[h]
  BY <1>1 DEF Calls
<1>3. WellFormed(c, drawn, leaving) /\ c.op = "register" /\ c.name \in Names
  BY <1>1, <1>2 DEF Calls, CallsInv, WellFormed, RegisterUser, RegisterProfile, At
<1>4. CASE RegisterUser(h)
  <2>1. PICK u \in Users \ drawn :
          /\ drawn' = drawn \union {u}
          /\ IF NameFree(mem, u, c.name)
             THEN /\ mem' = [mem EXCEPT !.name[u] = c.name]
                  /\ task' = [task EXCEPT ![h].user = u, ![h].pc = "profiles"]
             ELSE Refuse(h) /\ UNCHANGED mem
    BY <1>2, <1>4 DEF RegisterUser
  <2>2. Grows /\ UNCHANGED <<disk, opened, leaving, late>>
    BY <1>4, <2>1 DEF RegisterUser, Grows, history
  <2>3. CASE NameFree(mem, u, c.name)
    <3>1. PICK d \in CallType : d = [c EXCEPT !.user = u, !.pc = "profiles"]
      BY DEF CallType
    <3>2. WellFormed(d, drawn', leaving')
      <4>1. c.pc = "users"
        BY <1>2, <1>4 DEF RegisterUser, At
      <4> QED BY <1>3, <2>1, <2>2, <3>1, <4>1 DEF WellFormed, Resolved, CallType, Grows
    <3>3. task' = [task EXCEPT ![h] = d]
      BY <1>2, <2>1, <2>3, <3>1
    <3>4. Goes(h)
      BY <3>2, <3>3 DEF Goes
    <3>5. PICK ids : ids = drawn'
      OBVIOUS
    <3>6. PICK new : new = [mem EXCEPT !.name[u] = c.name]
      OBVIOUS
    <3>7. Good(new, ids, opened) /\ Keeps(mem, new, drawn, opened, leaving)
          /\ \A v \in Users : NoMore(mem, new, v)
      <4>1. drawn \subseteq ids /\ u \in ids /\ u \notin drawn /\ u \in Users
        BY <2>1, <3>5
      <4> QED BY <1>1, <1>3, <2>3, <3>6, <4>1, PutName
    <3>8. mem' = new
      BY <2>1, <2>3, <3>6
    <3>9. DbStep
      BY <2>2, <3>5, <3>7, <3>8 DEF DbStep
    <3> QED BY <2>2, <3>4, <3>9 DEF Step
  <2>4. CASE ~NameFree(mem, u, c.name)
    BY <1>1, <2>1, <2>2, <2>4, RefuseGoes, QuietDb DEF Step, Grows
  <2> QED BY <2>3, <2>4
<1>5. CASE RegisterProfile(h)
  <2>1. UNCHANGED <<drawn, opened, leaving>>
    BY <1>5 DEF RegisterProfile, env
  <2>2. c.pc = "profiles" /\ c.user \in Users
    BY <1>2, <1>3, <1>5 DEF RegisterProfile, At, WellFormed, Resolved, Typed, TypeOK
  <2>3. PICK new : new = [mem EXCEPT !.shown[c.user] = c.name]
    OBVIOUS
  <2>4. /\ Write(h, HasUser(c.user) /\ mem.shown[c.user] = NoProfile, new, "commit")
        /\ Gets({c.user})
    BY <1>2, <1>5, <2>3 DEF RegisterProfile
  <2>5. WellFormed([c EXCEPT !.pc = "commit"], drawn, leaving)
    BY <1>3, <2>2 DEF WellFormed, Resolved, CallType
  <2>6. HasUser(c.user) => /\ Good(new, drawn, opened) /\ Keeps(mem, new, drawn, opened, leaving)
                           /\ \A v \in Users \ {c.user} : NoMore(mem, new, v)
    BY <1>1, <1>3, <2>2, <2>3, PutShown DEF HasUser
  <2>7. PICK allowed \in BOOLEAN :
          allowed = (HasUser(c.user) /\ mem.shown[c.user] = NoProfile)
    OBVIOUS
  <2> QED BY <1>1, <1>2, <2>1, <2>4, <2>5, <2>6, <2>7, StatementStep
<1> QED BY <1>4, <1>5

LEMMA SessionWrites ==
  ASSUME Typed, NEW h \in Tasks, OpenSession(h) \/ RevokeSession(h) \/ CleanupUpdate(h)
  PROVE  Step(h)
<1> USE DEF Points, Tables
<1>1. Calls /\ Good(mem, drawn, opened) /\ opened \in Nat /\ task[h] # NoCall
  <2>1. task[h] # NoCall
    BY DEF OpenSession, RevokeSession, CleanupUpdate, At
  <2> QED BY <2>1 DEF Typed, TypeOK, Calls, GoodInv
<1>2. PICK c \in CallType : c = task[h]
  BY <1>1 DEF Calls
<1>3. WellFormed(c, drawn, leaving)
  BY <1>1, <1>2 DEF Calls, CallsInv
<1>4. CASE OpenSession(h)
  <2>1. /\ c.op = "login" /\ c.pc = "sessions" /\ c.user \in Users /\ c.user \in drawn
        /\ opened + 1 \in Sessions /\ opened' = opened + 1 /\ Gets({c.user})
        /\ UNCHANGED <<disk, drawn, leaving>>
    BY <1>1, <1>2, <1>3, <1>4
       DEF OpenSession, At, WellFormed, Resolved, Typed, TypeOK, Sessions
  <2>2. Grows
    BY <2>1 DEF Grows, Gets
  <2>3. CASE HasUser(c.user)
    <3>1. PICK new : new = [mem EXCEPT !.session[opened + 1] = [by |-> c.user, live |-> TRUE]]
      OBVIOUS
    <3>2. mem' = new
      BY <1>2, <1>4, <2>1, <2>3, <3>1 DEF OpenSession
    <3>3. PICK d \in CallType : d = [c EXCEPT !.session = opened + 1, !.pc = "commit"]
      <4>1. opened + 1 \in 0 .. MaxSessions
        BY <1>1, <2>1 DEF Sessions
      <4> QED BY <4>1 DEF CallType
    <3>4. task' = [task EXCEPT ![h] = d]
      BY <1>2, <1>4, <2>1, <2>3, <3>3 DEF OpenSession
    <3>5. WellFormed(d, drawn', leaving')
      BY <1>3, <2>1, <3>3 DEF WellFormed, Resolved, CallType
    <3>6. /\ Good(new, drawn, opened + 1) /\ Keeps(mem, new, drawn, opened, leaving)
          /\ \A v \in Users \ {c.user} : NoMore(mem, new, v)
      BY <1>1, <2>1, <2>3, <3>1, PutSession DEF HasUser
    <3>7. BeingDeleted(c.user) => c.user \in late'
      BY <2>1 DEF Gets
    <3>8. DbStep
      BY <2>1, <3>2, <3>6, <3>7 DEF DbStep
    <3> QED BY <2>2, <3>4, <3>5, <3>8 DEF Step, Goes
  <2>4. CASE ~HasUser(c.user)
    <3>1. Refuse(h) /\ UNCHANGED mem
      BY <1>2, <1>4, <2>4 DEF OpenSession
    <3>2. Good(mem, drawn, opened + 1)
      BY <1>1, GoodGrows
    <3>3. DbStep
      BY <2>1, <3>1, <3>2, Same DEF DbStep
    <3> QED BY <1>1, <2>2, <3>1, <3>3, RefuseGoes DEF Step
  <2> QED BY <2>3, <2>4
<1>5. CASE RevokeSession(h)
  <2>1. c.op = "logout" /\ c.pc = "sessions" /\ c.session \in Sessions
    BY <1>2, <1>3, <1>5 DEF RevokeSession, At, WellFormed
  <2>2. UNCHANGED <<drawn, opened, leaving, late>>
    BY <1>5 DEF RevokeSession, env, history
  <2>3. PICK new : new = [mem EXCEPT !.session[c.session].live = FALSE]
    OBVIOUS
  <2>4. new = [mem EXCEPT !.session = [s \in Sessions |->
                 IF s \in {c.session} THEN [@[s] EXCEPT !.live = FALSE] ELSE @[s]]]
    BY <2>1, <2>3 DEF Typed, TypeOK, Database
  <2>5. /\ Good(new, drawn, opened) /\ Keeps(mem, new, drawn, opened, leaving)
        /\ \A v \in Users : NoMore(mem, new, v)
    <3>1. {c.session} \in SUBSET Sessions
      BY <2>1
    <3> QED BY <1>1, <2>4, <3>1, EndSessions
  <2>6. Write(h, TRUE, new, "commit")
    BY <1>2, <1>5, <2>3 DEF RevokeSession
  <2>7. WellFormed([c EXCEPT !.pc = "commit"], drawn, leaving)
    BY <1>3, <2>1 DEF WellFormed, Resolved, CallType
  <2> QED BY <1>1, <1>2, <2>2, <2>5, <2>6, <2>7, StatementStep
<1>6. CASE CleanupUpdate(h)
  <2>1. c.op = "cleanup" /\ c.pc = "sessions"
    BY <1>2, <1>6 DEF CleanupUpdate, At
  <2>2. UNCHANGED <<drawn, opened, leaving, late>>
    BY <1>6 DEF CleanupUpdate, env, history
  <2>3. PICK new : new = [mem EXCEPT !.session = [s \in Sessions |->
                            IF s \in Stale THEN [@[s] EXCEPT !.live = FALSE] ELSE @[s]]]
    OBVIOUS
  <2>4. Stale \in SUBSET Sessions
    BY DEF Stale, Typed, TypeOK
  <2>5. /\ Good(new, drawn, opened) /\ Keeps(mem, new, drawn, opened, leaving)
        /\ \A v \in Users : NoMore(mem, new, v)
    BY <1>1, <2>3, <2>4, EndSessions
  <2>6. Write(h, TRUE, new, "commit")
    BY <1>6, <2>3 DEF CleanupUpdate
  <2>7. WellFormed([c EXCEPT !.pc = "commit"], drawn, leaving)
    BY <1>3, <2>1 DEF WellFormed, Resolved, CallType
  <2> QED BY <1>1, <1>2, <2>2, <2>5, <2>6, <2>7, StatementStep
<1> QED BY <1>4, <1>5, <1>6

LEMMA UpdateWrites ==
  ASSUME Typed, NEW h \in Tasks, UpdateUser(h) \/ UpdateProfile(h) \/ UpdateBio(h)
  PROVE  Step(h)
<1> USE DEF Points, Tables
<1>1. Calls /\ Good(mem, drawn, opened) /\ opened \in Nat /\ task[h] # NoCall
  <2>1. task[h] # NoCall
    BY DEF UpdateUser, UpdateProfile, UpdateBio, At
  <2> QED BY <2>1 DEF Typed, TypeOK, Calls, GoodInv
<1>2. PICK c \in CallType : c = task[h]
  BY <1>1 DEF Calls
<1>3. WellFormed(c, drawn, leaving)
  BY <1>1, <1>2 DEF Calls, CallsInv
<1>4. c.op = "update" /\ c.pc \in {"users", "profiles", "bio"}
  BY <1>2 DEF UpdateUser, UpdateProfile, UpdateBio, At
<1>5. c.user \in Users /\ c.user \in drawn
  BY <1>3, <1>4 DEF WellFormed, Resolved, Typed, TypeOK
<1>6. UNCHANGED <<drawn, opened, leaving>>
  BY DEF UpdateUser, UpdateProfile, UpdateBio, env
<1>7. \A pc \in {"profiles", "bio", "commit"} :
        c.name \in Names \/ pc # "profiles" => WellFormed([c EXCEPT !.pc = pc], drawn, leaving)
  BY <1>3, <1>4, <1>5 DEF WellFormed, Resolved, CallType
<1>8. CASE UpdateUser(h)
  <2>1. c.name \in Names
    BY <1>2, <1>3, <1>8 DEF UpdateUser, At, WellFormed
  <2>2. PICK allowed \in BOOLEAN : allowed = (HasUser(c.user) => NameFree(mem, c.user, c.name))
    OBVIOUS
  <2>3. PICK new : new = IF HasUser(c.user) THEN [mem EXCEPT !.name[c.user] = c.name] ELSE mem
    OBVIOUS
  <2>4. Write(h, allowed, new, "profiles") /\ late' = late
    BY <1>2, <1>8, <2>2, <2>3 DEF UpdateUser
  <2>5. allowed => /\ Good(new, drawn, opened) /\ Keeps(mem, new, drawn, opened, leaving)
                   /\ \A v \in Users : NoMore(mem, new, v)
    <3>1. CASE HasUser(c.user)
      BY <1>1, <1>5, <2>1, <2>2, <2>3, <3>1, PutName DEF HasUser
    <3>2. CASE ~HasUser(c.user)
      BY <1>1, <2>3, <3>2, Same
    <3> QED BY <3>1, <3>2
  <2> QED BY <1>1, <1>2, <1>6, <1>7, <2>1, <2>4, <2>5, StatementStep
<1>9. CASE UpdateProfile(h)
  <2>1. c.name \in Names
    BY <1>2, <1>3, <1>9 DEF UpdateProfile, At, WellFormed
  <2>2. PICK new : new = [mem EXCEPT !.shown[c.user] = c.name]
    OBVIOUS
  <2>3. PICK pc \in {"bio", "commit"} : Write(h, HasUser(c.user), new, pc)
    BY <1>2, <1>9, <2>2 DEF UpdateProfile
  <2>4. Gets({c.user})
    BY <1>2, <1>9 DEF UpdateProfile
  <2>5. HasUser(c.user) => /\ Good(new, drawn, opened) /\ Keeps(mem, new, drawn, opened, leaving)
                           /\ \A v \in Users \ {c.user} : NoMore(mem, new, v)
    BY <1>1, <1>5, <2>1, <2>2, PutShown DEF HasUser
  <2> QED BY <1>1, <1>2, <1>6, <1>7, <2>3, <2>4, <2>5, StatementStep DEF HasUser
<1>10. CASE UpdateBio(h)
  <2>1. PICK x \in Names \union {NoProfile, NoDisplay} : x = mem.shown[c.user]
    BY <1>5 DEF Typed, TypeOK, Database
  <2>2. PICK y \in Names \union {NoDisplay} : y = IF x = NoProfile THEN NoDisplay ELSE x
    OBVIOUS
  <2>3. PICK new : new = [mem EXCEPT !.shown[c.user] = y]
    OBVIOUS
  <2>4. Write(h, HasUser(c.user), new, "commit") /\ Gets({c.user})
    BY <1>2, <1>10, <2>1, <2>2, <2>3 DEF UpdateBio
  <2>5. HasUser(c.user) => /\ Good(new, drawn, opened) /\ Keeps(mem, new, drawn, opened, leaving)
                           /\ \A v \in Users \ {c.user} : NoMore(mem, new, v)
    BY <1>1, <1>5, <2>3, PutShown DEF HasUser
  <2> QED BY <1>1, <1>2, <1>6, <1>7, <2>4, <2>5, StatementStep DEF HasUser
<1> QED BY <1>8, <1>9, <1>10

LEMMA DeleteWrites ==
  ASSUME Typed, NEW h \in Tasks, DeleteRows(h)
  PROVE  Step(h)
<1> USE DEF Points, Tables
<1>1. Calls /\ Good(mem, drawn, opened) /\ opened \in Nat /\ task[h] # NoCall
  <2>1. task[h] # NoCall
    BY DEF DeleteRows
  <2> QED BY <2>1 DEF Typed, TypeOK, Calls, GoodInv
<1>2. PICK c \in CallType : c = task[h]
  BY <1>1 DEF Calls
<1>3. WellFormed(c, drawn, leaving)
  BY <1>1, <1>2 DEF Calls, CallsInv
<1>4. c.op = "delete" /\ c.pc \in Tables
  BY <1>2 DEF DeleteRows
<1>5. c.user \in Users /\ c.user \in drawn /\ c.user \in leaving
  BY <1>3, <1>4 DEF WellFormed, Resolved, Typed, TypeOK
<1>6. UNCHANGED <<drawn, opened, leaving, late>>
  BY DEF DeleteRows, env, history
<1>7. PICK next \in Points : next = NextTable[c.pc]
  BY <1>4 DEF NextTable
<1>8. WellFormed([c EXCEPT !.pc = next], drawn, leaving)
  BY <1>3, <1>4, <1>5, <1>7 DEF WellFormed, Resolved, CallType, NextTable
<1>9. PICK allowed \in BOOLEAN : allowed = MayDelete(c.pc, c.user)
  BY DEF MayDelete
<1>10. PICK new : new = Without(mem, c.pc, c.user)
  OBVIOUS
<1>11. Write(h, allowed, new, next)
  BY <1>2, <1>7, <1>9, <1>10 DEF DeleteRows
<1>12. allowed => /\ Good(new, drawn, opened) /\ Keeps(mem, new, drawn, opened, leaving)
                  /\ \A v \in Users : NoMore(mem, new, v)
  <2>1. allowed => /\ c.pc = "music_metadata" => ~UsesSongs(mem, c.user)
                   /\ c.pc = "users" => ~UsesUser(mem, c.user)
    BY <1>9 DEF MayDelete
  <2>2. PICK t \in Tables, u \in Users : t = c.pc /\ u = c.user
    BY <1>4, <1>5
  <2>3. allowed => /\ t = "music_metadata" => ~UsesSongs(mem, u)
                   /\ t = "users" => ~UsesUser(mem, u)
    BY <2>1, <2>2
  <2>4. new = Without(mem, t, u) /\ u \in leaving
    BY <1>5, <1>10, <2>2
  <2> HIDE DEF Tables, Points
  <2> QED BY <1>1, <2>3, <2>4, TakeRows
<1> QED BY <1>1, <1>2, <1>6, <1>8, <1>11, <1>12, StatementStep

LEMMA SongWrites ==
  ASSUME Typed, NEW h \in Tasks,
         PublishSong(h) \/ PublishHistory(h) \/ RegisterPeer(h) \/ DownloadInsert(h)
  PROVE  Step(h)
<1> USE DEF Points, Tables
<1>1. Calls /\ Good(mem, drawn, opened) /\ opened \in Nat /\ task[h] # NoCall
  <2>1. task[h] # NoCall
    BY DEF PublishSong, PublishHistory, RegisterPeer, DownloadInsert, At
  <2> QED BY <2>1 DEF Typed, TypeOK, Calls, GoodInv
<1>2. PICK c \in CallType : c = task[h]
  BY <1>1 DEF Calls
<1>3. WellFormed(c, drawn, leaving)
  BY <1>1, <1>2 DEF Calls, CallsInv
<1>4. /\ c.op \in {"publish", "register_peer", "download"}
      /\ c.pc \in {"music_metadata", "publish_history", "peer_registry", "download_requests"}
  BY <1>2 DEF PublishSong, PublishHistory, RegisterPeer, DownloadInsert, At
<1>5. c.user \in Users /\ c.user \in drawn
  BY <1>3, <1>4 DEF WellFormed, Resolved, Typed, TypeOK
<1>6. UNCHANGED <<drawn, opened, leaving>>
  BY DEF PublishSong, PublishHistory, RegisterPeer, DownloadInsert, env
<1>7. \A pc \in {"publish_history", "commit"} : WellFormed([c EXCEPT !.pc = pc], drawn, leaving)
  BY <1>3, <1>4, <1>5 DEF WellFormed, Resolved, CallType
<1>8. CASE PublishSong(h)
  <2>1. PICK new : new = [mem EXCEPT !.songs = @ \union {c.user}]
    OBVIOUS
  <2>2. Write(h, HasUser(c.user), new, "publish_history") /\ Gets({c.user})
    BY <1>2, <1>8, <2>1 DEF PublishSong
  <2>3. HasUser(c.user) => /\ Good(new, drawn, opened) /\ Keeps(mem, new, drawn, opened, leaving)
                           /\ \A v \in Users \ {c.user} : NoMore(mem, new, v)
    BY <1>1, <1>5, <2>1, PutRow DEF HasUser
  <2> QED BY <1>1, <1>2, <1>6, <1>7, <2>2, <2>3, StatementStep DEF HasUser
<1>9. CASE PublishHistory(h)
  <2>1. PICK new : new = [mem EXCEPT !.published = @ \union {c.user}]
    OBVIOUS
  <2>2. PICK allowed \in BOOLEAN : allowed = (HasUser(c.user) /\ c.user \in mem.songs)
    OBVIOUS
  <2>3. Write(h, allowed, new, "commit") /\ Gets({c.user})
    BY <1>2, <1>9, <2>1, <2>2 DEF PublishHistory
  <2>4. allowed => /\ Good(new, drawn, opened) /\ Keeps(mem, new, drawn, opened, leaving)
                   /\ \A v \in Users \ {c.user} : NoMore(mem, new, v)
    BY <1>1, <1>5, <2>1, <2>2, PutRow DEF HasUser
  <2> QED BY <1>1, <1>2, <1>6, <1>7, <2>3, <2>4, StatementStep
<1>10. CASE RegisterPeer(h)
  <2>1. PICK new : new = [mem EXCEPT !.peers = @ \union {c.user}]
    OBVIOUS
  <2>2. Write(h, HasUser(c.user), new, "commit") /\ Gets({c.user})
    BY <1>2, <1>10, <2>1 DEF RegisterPeer
  <2>3. HasUser(c.user) => /\ Good(new, drawn, opened) /\ Keeps(mem, new, drawn, opened, leaving)
                           /\ \A v \in Users \ {c.user} : NoMore(mem, new, v)
    BY <1>1, <1>5, <2>1, PutRow DEF HasUser
  <2> QED BY <1>1, <1>2, <1>6, <1>7, <2>2, <2>3, StatementStep DEF HasUser
<1>11. CASE DownloadInsert(h)
  <2>1. c.other \in Users
    BY <1>2, <1>3, <1>11 DEF DownloadInsert, At, WellFormed
  <2>2. PICK new : new = [mem EXCEPT !.asked = @ \union {<<c.user, c.other>>}]
    OBVIOUS
  <2>3. PICK allowed \in BOOLEAN :
          allowed = (HasUser(c.user) /\ HasUser(c.other) /\ c.other \in mem.songs)
    OBVIOUS
  <2>4. Write(h, allowed, new, "commit") /\ Gets({c.user, c.other})
    BY <1>2, <1>11, <2>2, <2>3 DEF DownloadInsert
  <2>5. allowed => /\ Good(new, drawn, opened) /\ Keeps(mem, new, drawn, opened, leaving)
                   /\ \A v \in Users \ {c.user, c.other} : NoMore(mem, new, v)
    BY <1>1, <1>5, <2>1, <2>2, <2>3, PutAsked DEF HasUser
  <2> QED BY <1>1, <1>2, <1>6, <1>7, <2>4, <2>5, StatementStep
<1> QED BY <1>8, <1>9, <1>10, <1>11

LEMMA Steps ==
  ASSUME Typed, NEW h \in Tasks, ClientCall(h) \/ CleanupWakes(h) \/ TaskStep(h), ~Answer(h)
  PROVE  Step(h)
<1>1. Calls /\ Good(mem, drawn, opened) /\ opened \in Nat /\ TypeOK /\ GoodInv
  BY DEF Typed, TypeOK, Calls, GoodInv
<1>2. CASE ClientCall(h) \/ CleanupWakes(h)
  <2>1. UNCHANGED <<mem, disk, drawn, opened>>
    BY <1>2 DEF ClientCall, CleanupWakes, CallRegister, CallLogin, CallRefresh, CallAdmitted, Start
  <2>2. Goes(h) /\ Grows
    BY <1>1, <1>2, ClientMoves DEF TypeOK
  <2> QED BY <1>1, <2>1, <2>2, QuietDb DEF Step
<1>3. CASE \/ Admit(h) \/ VerifySession(h) \/ RegisterSelect(h) \/ LoginSelect(h)
           \/ RefreshSelect(h) \/ UpdateSelect(h) \/ DeleteSelect(h) \/ DownloadSelect(h)
           \/ Commit(h) \/ Log(h)
  <2>1. UNCHANGED <<mem, drawn, opened>> /\ (disk' = disk \/ disk' = mem)
    BY <1>3 DEF Admit, VerifySession, RegisterSelect, LoginSelect, RefreshSelect, UpdateSelect,
       DeleteSelect, DownloadSelect, Commit, Log, env
  <2> QED BY <1>1, <1>3, <2>1, Reads, QuietDb DEF Step
<1> QED BY <1>2, <1>3, RegisterWrites, SessionWrites, UpdateWrites, DeleteWrites, SongWrites
        DEF TaskStep

-----------------------------------------------------------------------------
(* Types.                                                                  *)

Rest ==
  /\ drawn \in SUBSET Users
  /\ expired \in SUBSET Sessions
  /\ opened \in 0 .. MaxSessions
  /\ registered \in SUBSET Users
  /\ held \in [Sessions -> Users \union {NoUser}]
  /\ left \in SUBSET Sessions
  /\ leaving \in SUBSET Users /\ gone \in SUBSET Users
  /\ late \in SUBSET Users /\ overlap \in SUBSET Users
  /\ calls \in 0 .. MaxCalls
  /\ crashes \in 0 .. MaxCrashes

LEMMA CountsSessions ==
  ASSUME NEW S \in SUBSET Sessions
  PROVE  IsFiniteSet(S) /\ Cardinality(S) \in Nat
<1>1. IsFiniteSet(Sessions)
  BY FS_Interval DEF Sessions
<1> QED BY <1>1, FS_Subset, FS_CardinalityType

\* Who a call is for, where it matters.
LEMMA Known ==
  ASSUME Typed, NEW h \in Tasks, task[h] # NoCall, Resolved(task[h])
  PROVE  task[h].user \in drawn /\ task[h].user \in Users
BY DEF Typed, TypeOK, CallsInv, WellFormed

LEMMA RestStep ==
  ASSUME Typed, NEW h \in Tasks, ClientCall(h) \/ CleanupWakes(h) \/ TaskStep(h)
  PROVE  Rest'
<1>1. Rest
  BY DEF Typed, TypeOK, Rest
<1>2. CASE UNCHANGED <<env, told, history>>
  BY <1>1, <1>2 DEF Rest, env, told, history
<1>3. CASE ClientCall(h) \/ CleanupWakes(h)
  <2>1. /\ calls < MaxCalls /\ calls' = calls + 1
        /\ UNCHANGED <<drawn, expired, opened, crashes, told, history>>
    BY <1>3 DEF ClientCall, CleanupWakes, CallRegister, CallLogin, CallRefresh, CallAdmitted, Start
  <2> QED BY <1>1, <2>1 DEF Rest, told, history
<1>4. ASSUME NEW us, Gets(us)
      PROVE  late' \in SUBSET Users
  <2>1. ASSUME NEW u, BeingDeleted(u)
        PROVE  u \in Users
    <3>1. PICK k \in Tasks : task[k] # NoCall /\ task[k].op = "delete" /\ task[k].user = u
                             /\ task[k].pc \in Tables
      BY <2>1 DEF BeingDeleted
    <3>2. Resolved(task[k])
      BY <3>1 DEF Resolved, Tables
    <3> QED BY <3>1, <3>2, Known
  <2> QED BY <1>1, <1>4, <2>1 DEF Gets, Rest
<1>5. CASE \/ RegisterProfile(h) \/ UpdateProfile(h) \/ UpdateBio(h) \/ PublishSong(h)
           \/ PublishHistory(h) \/ RegisterPeer(h) \/ DownloadInsert(h)
  <2>1. UNCHANGED <<env, told, leaving, overlap>>
    BY <1>5 DEF RegisterProfile, UpdateProfile, UpdateBio, PublishSong, PublishHistory,
       RegisterPeer, DownloadInsert
  <2>2. late' \in SUBSET Users
    BY <1>4, <1>5 DEF RegisterProfile, UpdateProfile, UpdateBio, PublishSong, PublishHistory,
       RegisterPeer, DownloadInsert
  <2> QED BY <1>1, <2>1, <2>2 DEF Rest, env, told
<1>6. CASE RegisterUser(h)
  <2>1. drawn' \in SUBSET Users /\ UNCHANGED <<expired, opened, calls, crashes, told, history>>
    BY <1>1, <1>6 DEF RegisterUser, Rest
  <2> QED BY <1>1, <2>1 DEF Rest, told, history
<1>7. CASE OpenSession(h)
  <2>1. /\ opened < MaxSessions /\ opened' = opened + 1
        /\ UNCHANGED <<drawn, expired, calls, crashes, told, leaving, overlap>>
    BY <1>7 DEF OpenSession
  <2>2. late' \in SUBSET Users
    BY <1>4, <1>7 DEF OpenSession
  <2> QED BY <1>1, <2>1, <2>2 DEF Rest, told
<1>8. CASE UpdateUser(h)
  <2>1. UNCHANGED <<env, told, leaving, late>>
        /\ overlap' = IF Naming(task[h].user) THEN overlap \union {task[h].user} ELSE overlap
    BY <1>8 DEF UpdateUser
  <2>2. task[h] # NoCall /\ Resolved(task[h])
    BY <1>8 DEF UpdateUser, At, Resolved
  <2>3. overlap' \in SUBSET Users
    BY <1>1, <2>1, <2>2, Known DEF Rest
  <2> QED BY <1>1, <2>1, <2>3 DEF Rest, env, told
<1>9. CASE DeleteSelect(h)
  <2>1. /\ leaving' = leaving \union {task[h].user} \/ leaving' = leaving
        /\ UNCHANGED <<env, told, late, overlap>>
    BY <1>9 DEF DeleteSelect
  <2>2. task[h] # NoCall /\ Resolved(task[h])
    BY <1>9 DEF DeleteSelect, At, Resolved
  <2>3. leaving' \in SUBSET Users
    BY <1>1, <2>1, <2>2, Known DEF Rest
  <2> QED BY <1>1, <2>1, <2>3 DEF Rest, env, told
<1>10. CASE Answer(h)
  <2>1. task[h] # NoCall /\ task[h].pc = "answer" /\ UNCHANGED <<env, history>>
    BY <1>10 DEF Answer
  <2>2. task[h].op \in {"register", "login", "delete"} /\ task[h].ok => task[h].user \in Users
    BY <2>1, Known DEF Resolved
  <2>3. task[h].op = "logout" => task[h].session \in Sessions
    BY <2>1 DEF Typed, CallsInv, WellFormed
  <2>4. registered' \in SUBSET Users
    BY <1>1, <1>10, <2>2 DEF Answer, Rest
  <2>5. left' \in SUBSET Sessions
    BY <1>1, <1>10, <2>3 DEF Answer, Rest
  <2>6. gone' \in SUBSET Users
    BY <1>1, <1>10, <2>2 DEF Answer, Rest
  <2>7. held' \in [Sessions -> Users \union {NoUser}]
    BY <1>1, <1>10, <2>2 DEF Answer, Rest
  <2> QED BY <1>1, <2>1, <2>4, <2>5, <2>6, <2>7 DEF Rest, env, history
<1> QED BY <1>2, <1>3, <1>5, <1>6, <1>7, <1>8, <1>9, <1>10
        DEF TaskStep, Admit, VerifySession, RegisterSelect, LoginSelect, RevokeSession,
            RefreshSelect, CleanupUpdate, UpdateSelect, DeleteRows, DownloadSelect, Commit, Log

LEMMA TypeStep ==
  ASSUME Typed, [Next]_vars
  PROVE  Typed'
<1>1. Calls /\ Rest /\ opened \in Nat /\ GoodInv
  BY DEF Typed, TypeOK, Calls, Rest
<1>2. Calls' /\ Rest' /\ Good(mem', drawn', opened') /\ Good(disk', drawn', opened')
      => Typed'
  BY DEF Typed, TypeOK, Calls, Rest, GoodInv, Good
<1>3. ASSUME NEW h \in Tasks, ClientCall(h) \/ CleanupWakes(h) \/ TaskStep(h), ~Answer(h)
      PROVE  Typed'
  <2>1. Goes(h) /\ Grows /\ DbStep
    BY <1>3, Steps DEF Step
  <2>2. Calls' /\ Rest'
    BY <1>1, <1>3, <2>1, GoesOn, RestStep
  <2>3. opened' \in Nat /\ opened <= opened'
    BY <1>1, <2>1 DEF DbStep
  <2>4. Good(disk, drawn', opened')
    BY <1>1, <2>1, <2>2, <2>3, GoodGrows DEF GoodInv, Grows, Rest
  <2>5. Good(mem', drawn', opened') /\ Good(disk', drawn', opened')
    BY <2>1, <2>4 DEF DbStep
  <2> QED BY <1>2, <2>2, <2>5
<1>4. ASSUME NEW h \in Tasks, Answer(h)
      PROVE  Typed'
  <2>1. Rest'
    BY <1>4, RestStep DEF TaskStep
  <2>2. Grows /\ UNCHANGED <<mem, disk, drawn, opened>> /\ task' = [task EXCEPT ![h] = NoCall]
    BY <1>4 DEF Answer, Grows, env, history
  <2> QED BY <1>1, <1>2, <2>1, <2>2, EndsWell DEF GoodInv
<1>5. CASE OtherCommit
  <2>1. Rest' /\ Calls' /\ UNCHANGED <<mem, drawn, opened>> /\ disk' = mem
    BY <1>1, <1>5 DEF OtherCommit, Rest, Calls, CallsInv, WellFormed, env, told, history
  <2> QED BY <1>1, <1>2, <2>1 DEF GoodInv
<1>6. CASE Expire
  <2>1. Cardinality(expired) \in Nat /\ Cardinality(expired) < MaxSessions
    BY <1>1, <1>6, CountsSessions DEF Expire, Rest
  <2>2. expired' \in SUBSET Sessions
    <3>1. PICK k \in Nat : k = Cardinality(expired)
      BY <2>1
    <3>2. k + 1 \in Sessions
      BY <2>1, <3>1 DEF Sessions
    <3>3. expired' = expired \union {k + 1}
      BY <1>6, <3>1 DEF Expire
    <3> QED BY <1>1, <3>2, <3>3 DEF Rest
  <2>3. UNCHANGED <<mem, disk, task, drawn, opened, calls, crashes, told, history>>
    BY <1>6 DEF Expire
  <2>4. Rest'
    BY <1>1, <2>2, <2>3 DEF Rest, told, history
  <2>5. Calls'
    BY <1>1, <2>3 DEF Calls, CallsInv, history
  <2> QED BY <1>1, <1>2, <2>3, <2>4, <2>5 DEF GoodInv
<1>7. CASE Restart
  <2>1. Rest'
    BY <1>1, <1>7 DEF Restart, Rest, told
  <2>2. Calls'
    BY <1>7 DEF Restart, Calls, CallsInv
  <2>3. Good(mem', drawn', opened') /\ Good(disk', drawn', opened')
    BY <1>1, <1>7, SyncedIsGood DEF Restart, GoodInv
  <2> QED BY <1>2, <2>1, <2>2, <2>3
<1>8. CASE UNCHANGED vars
  BY <1>1, <1>2, <1>8 DEF vars, env, told, history, Calls, CallsInv, Rest, GoodInv
<1> QED BY <1>3, <1>4, <1>5, <1>6, <1>7, <1>8 DEF Next, Quiet

-----------------------------------------------------------------------------
(* What calls have written, and what clients have been told.               *)

LEMMA EffectKeeps ==
  ASSUME NEW c \in CallType, NEW db \in Database, NEW new \in Database,
         NEW ids \in SUBSET Users, NEW going, NEW going2, NEW top \in Nat, NEW top2 \in Nat,
         going \subseteq going2, top <= top2,
         WellFormed(c, ids, going), Written(c),
         Keeps(db, new, ids, top, going2), Effect(c, db, top, going)
  PROVE  Effect(c, new, top2, going2)
<1>1. c.op = "delete" => new.name[c.user] = NoName
  BY DEF WellFormed, Resolved, Written, Keeps, Effect
<1>2. c.op = "logout" => c.session <= top2 /\ ~new.session[c.session].live
  BY DEF WellFormed, Written, Keeps, Effect, Sessions
<1>3. c.op = "register" => c.user \in going2 \/ new.name[c.user] # NoName
  <2>1. c.op = "register" => c.user \in Users
    BY DEF WellFormed, Resolved, Written
  <2> QED BY <2>1 DEF Keeps, Effect
<1>4. c.op = "login" => /\ c.session \in Sessions /\ c.session <= top2
                        /\ c.user \in going2 \/ new.session[c.session].by = c.user
  <2>1. c.op = "login" => c.user \in Users /\ c.user # NoUser
    BY DEF WellFormed, Resolved, Written
  <2>2. c.op = "login" => c.session \in Sessions /\ c.session <= top2
    BY DEF Effect, Sessions
  <2> QED BY <2>1, <2>2 DEF Keeps, Effect
<1> QED BY <1>1, <1>2, <1>3, <1>4 DEF Effect

\* Steps of one call that leave what the others have written in effect.
LEMMA InEffectKeeps ==
  ASSUME Typed, NEW h \in Tasks, Step(h), Typed', NEW c \in CallType,
         WellFormed(c, drawn, leaving), InEffect(c, mem, disk, opened, leaving)
  PROVE  InEffect(c, mem', disk', opened', leaving')
<1>1. /\ mem \in Database /\ disk \in Database /\ mem' \in Database /\ disk' \in Database
      /\ drawn \in SUBSET Users /\ opened \in Nat /\ opened' \in Nat /\ opened <= opened'
      /\ leaving \subseteq leaving'
  BY DEF Typed, TypeOK, Step, DbStep, Grows
<1>2. Written(c) => Effect(c, mem', opened', leaving')
  BY <1>1, EffectKeeps DEF Step, DbStep, InEffect
<1>3. Committed(c) => Written(c)
  BY DEF Committed, Written
<1>4. Committed(c) => Effect(c, disk', opened', leaving')
  <2>1. Keeps(disk, disk, drawn, opened, leaving')
    BY Same
  <2>2. CASE disk' = disk
    BY <1>1, <1>3, <2>1, <2>2, EffectKeeps DEF InEffect
  <2>3. CASE disk' = mem /\ mem' = mem
    BY <1>2, <1>3, <2>3
  <2> QED BY <2>2, <2>3 DEF Step, DbStep
<1>5. c.op = "logout" /\ c.pc = "sessions" => c.session <= opened'
  BY <1>1 DEF InEffect, CallType
<1> QED BY <1>2, <1>4, <1>5 DEF InEffect

LEMMA ToldKeeps ==
  ASSUME Typed, ToldInv, NEW h \in Tasks, Step(h), Typed', UNCHANGED told
  PROVE  ToldInv'
<1>1. /\ drawn \in SUBSET Users /\ drawn \subseteq drawn' /\ opened \in Nat /\ opened' \in Nat
      /\ opened <= opened' /\ leaving \subseteq leaving' /\ left \in SUBSET Sessions
      /\ registered \in SUBSET Users /\ held \in [Sessions -> Users \union {NoUser}]
  BY DEF Typed, TypeOK, Step, DbStep, Grows
<1>2. ASSUME NEW db, NEW new, Told(db), Keeps(db, new, drawn, opened, leaving')
      PROVE  /\ \A u \in gone : u \in drawn' /\ new.name[u] = NoName
             /\ \A s \in left : s <= opened' /\ ~new.session[s].live
             /\ \A u \in registered : u \in leaving' \/ new.name[u] # NoName
             /\ \A s \in Sessions : held[s] # NoUser =>
                  s <= opened' /\ (held[s] \in leaving' \/ new.session[s].by = held[s])
  <2>1. \A u \in gone : u \in drawn' /\ new.name[u] = NoName
    BY <1>1, <1>2 DEF Told, Keeps
  <2>2. \A s \in left : s <= opened' /\ ~new.session[s].live
    BY <1>1, <1>2 DEF Told, Keeps, Sessions
  <2>3. \A u \in registered : u \in leaving' \/ new.name[u] # NoName
    BY <1>1, <1>2 DEF Told, Keeps
  <2>4. \A s \in Sessions : held[s] # NoUser =>
          s <= opened' /\ (held[s] \in leaving' \/ new.session[s].by = held[s])
    <3> TAKE s \in Sessions
    <3>1. held[s] # NoUser => s <= opened'
      BY <1>1, <1>2 DEF Told, Sessions
    <3> QED BY <1>1, <1>2, <3>1 DEF Told, Keeps
  <2> QED BY <2>1, <2>2, <2>3, <2>4
<1>3. Keeps(mem, mem', drawn, opened, leaving') /\ Keeps(disk, disk, drawn, opened, leaving')
  BY Same DEF Step, DbStep
<1>4. PICK new : new = mem'
  OBVIOUS
<1>5. Told(mem)'
  BY <1>2, <1>3, <1>4 DEF ToldInv, Told, told
<1>6. Told(disk)'
  <2>1. CASE disk' = disk
    BY <1>2, <1>3, <2>1 DEF ToldInv, Told, told
  <2>2. CASE disk' = mem /\ mem' = mem
    BY <1>5, <2>2 DEF Told
  <2> QED BY <2>1, <2>2 DEF Step, DbStep
<1> QED BY <1>5, <1>6 DEF ToldInv

\* A call that has found or made its account.
LEMMA CallKnows ==
  ASSUME task \in [Tasks -> CallType \union {NoCall}], NEW h \in Tasks, task[h] \in CallType,
         NEW u \in Users, NEW pc, task' = [task EXCEPT ![h].user = u, ![h].pc = pc]
  PROVE  task'[h].pc = pc /\ task'[h].op = task[h].op
<1>1. task'[h] = [task[h] EXCEPT !.user = u, !.pc = pc]
  OBVIOUS
<1> QED BY <1>1 DEF CallType

\* A call that is refused, or not yet behind its write, has nothing in effect.
LEMMA NothingInEffect ==
  ASSUME NEW d, NEW m, NEW db, NEW top, NEW going,
         \/ ~Written(d) /\ ~(d.op = "logout" /\ d.pc = "sessions")
         \/ d.op \notin {"delete", "logout", "register", "login"}
  PROVE  InEffect(d, m, db, top, going)
BY DEF InEffect, Written, Committed, Effect

LEMMA Refused ==
  ASSUME Calls, NEW h \in Tasks, task[h] # NoCall, Refuse(h) \/ RefuseLogged(h),
         NEW m, NEW db, NEW top, NEW going
  PROVE  InEffect(task'[h], m, db, top, going)
<1>1. task'[h].ok = FALSE /\ task'[h].pc \in {"answer", "log"}
  BY DEF Refuse, RefuseLogged, Calls, CallType
<1> QED BY <1>1, NothingInEffect DEF Written

LEMMA OwnEffect ==
  ASSUME Typed, EffectInv, NEW h \in Tasks,
         ClientCall(h) \/ CleanupWakes(h) \/ TaskStep(h), ~Answer(h)
  PROVE  InEffect(task'[h], mem', disk', opened', leaving')
<1>1. Calls /\ opened \in Nat
  BY DEF Typed, TypeOK, Calls
<1>2. CASE ClientCall(h) \/ CleanupWakes(h)
  <2>1. /\ task'[h].pc \notin {"commit", "log", "answer"}
        /\ ~(task'[h].op = "logout" /\ task'[h].pc = "sessions")
    BY <1>1, <1>2 DEF ClientCall, CleanupWakes, CallRegister, CallLogin, CallRefresh,
       CallAdmitted, Start, Calls
  <2> QED BY <2>1, NothingInEffect DEF Written
<1>3. CASE TaskStep(h)
  <2>1. task[h] # NoCall
    BY <1>3 DEF TaskStep, Admit, VerifySession, RegisterSelect, RegisterUser, RegisterProfile,
       LoginSelect, OpenSession, RevokeSession, RefreshSelect, CleanupUpdate, UpdateSelect,
       UpdateUser, UpdateProfile, UpdateBio, DeleteSelect, DeleteRows, PublishSong,
       PublishHistory, RegisterPeer, DownloadSelect, DownloadInsert, Commit, Log, Answer, At
  <2>2. PICK c \in CallType : c = task[h]
    BY <1>1, <2>1 DEF Calls
  <2>3. WellFormed(c, drawn, leaving) /\ InEffect(c, mem, disk, opened, leaving)
    BY <1>1, <2>1, <2>2 DEF Calls, CallsInv, EffectInv
  <2>4. CASE Refuse(h) \/ RefuseLogged(h)
    BY <1>1, <2>1, <2>4, Refused
  <2>5. \A pc : GoTo(h, pc) => task'[h] = [c EXCEPT !.pc = pc]
    BY <1>1, <2>2 DEF GoTo, Calls
  <2>6. CASE Admit(h) /\ ~Refuse(h)
    <3>1. c.pc = "admit" /\ c.op \in DOMAIN FirstPoint
      BY <2>2, <2>3, <2>6 DEF Admit, WellFormed
    <3>2. task'[h].op = c.op /\ task'[h].pc \in StartsAt(c)
      BY <1>1, <2>2, <2>6 DEF Admit, Calls, CallType
    <3>3. task'[h].pc \notin {"commit", "log", "answer", "sessions"} \/ task'[h].op = "update"
      BY <3>1, <3>2 DEF FirstPoint, StartsAt
    <3> QED BY <3>3, NothingInEffect DEF Written
  <2>7. CASE VerifySession(h) /\ ~Refuse(h) /\ ~RefuseLogged(h)
    <3>1. Valid(mem, c.session) /\ c.session \in Sessions /\ c.op \in {"logout", "refresh"}
          /\ task'[h].session = c.session
          /\ task'[h].pc = IF c.op = "logout" THEN "sessions" ELSE "select"
      BY <1>1, <2>1, <2>2, <2>3, <2>7 DEF VerifySession, Calls, CallType, WellFormed
    <3>2. c.session <= opened
      BY <3>1 DEF Valid, Typed, GoodInv, Good
    <3>3. opened' = opened
      BY <2>7 DEF VerifySession, env
    <3> QED BY <3>1, <3>2, <3>3 DEF InEffect, Written, Committed
  <2>8. CASE /\ ~Refuse(h) /\ ~RefuseLogged(h)
             /\ \/ RegisterSelect(h) \/ RegisterUser(h) \/ LoginSelect(h) \/ DeleteSelect(h)
    <3>1. task'[h].pc \in {"users", "profiles", "publish_history"}
          \/ (task'[h].pc = "sessions" /\ task'[h].op = "login")
      <4>1. CASE RegisterSelect(h)
        <5>1. task'[h] = [c EXCEPT !.pc = "users"]
          BY <2>5, <2>8, <4>1 DEF RegisterSelect
        <5> QED BY <2>2, <5>1 DEF CallType
      <4>2. CASE RegisterUser(h)
        <5>1. PICK u \in Users : task' = [task EXCEPT ![h].user = u, ![h].pc = "profiles"]
          BY <2>8, <4>2 DEF RegisterUser
        <5>2. task \in [Tasks -> CallType \union {NoCall}] /\ task[h] \in CallType
          BY <1>1, <2>2 DEF Calls
        <5>3. task'[h].pc = "profiles"
          BY <5>1, <5>2, CallKnows
        <5> QED BY <5>3
      <4>3. CASE LoginSelect(h)
        <5>1. task[h].op = "login"
          BY <4>3 DEF LoginSelect, At
        <5>2. PICK u \in Users : task' = [task EXCEPT ![h].user = u, ![h].pc = "sessions"]
          BY <2>8, <4>3 DEF LoginSelect
        <5>3. task \in [Tasks -> CallType \union {NoCall}] /\ task[h] \in CallType
          BY <1>1, <2>2 DEF Calls
        <5>4. task'[h].pc = "sessions" /\ task'[h].op = task[h].op
          BY <5>2, <5>3, CallKnows
        <5> QED BY <5>1, <5>4
      <4>4. CASE DeleteSelect(h)
        <5>1. task'[h] = [c EXCEPT !.pc = "publish_history"]
          BY <2>5, <2>8, <4>4 DEF DeleteSelect
        <5> QED BY <2>2, <5>1 DEF CallType
      <4> QED BY <2>8, <4>1, <4>2, <4>3, <4>4
    <3> QED BY <3>1, NothingInEffect DEF Written
  <2>9. CASE \/ RefreshSelect(h) \/ CleanupUpdate(h) \/ UpdateSelect(h) \/ UpdateUser(h)
             \/ UpdateProfile(h) \/ UpdateBio(h) \/ PublishSong(h) \/ PublishHistory(h)
             \/ RegisterPeer(h) \/ DownloadSelect(h) \/ DownloadInsert(h)
    <3>1. c.op \in {"refresh", "cleanup", "update", "publish", "register_peer", "download"}
      BY <2>2, <2>9 DEF RefreshSelect, CleanupUpdate, UpdateSelect, UpdateUser, UpdateProfile,
         UpdateBio, PublishSong, PublishHistory, RegisterPeer, DownloadSelect, DownloadInsert, At
    <3>2. Refuse(h) \/ \E pc : GoTo(h, pc)
      BY <2>9 DEF RefreshSelect, CleanupUpdate, UpdateSelect, UpdateUser, UpdateProfile,
         UpdateBio, PublishSong, PublishHistory, RegisterPeer, DownloadSelect, DownloadInsert,
         Write
    <3>3. CASE Refuse(h)
      BY <2>4, <3>3
    <3>4. CASE \E pc : GoTo(h, pc)
      <4>1. task'[h].op = c.op
        BY <2>5, <3>4 DEF CallType
      <4> QED BY <3>1, <4>1, NothingInEffect
    <3> QED BY <3>2, <3>3, <3>4
  <2>10. CASE RegisterProfile(h) /\ ~Refuse(h)
    <3>1. /\ HasUser(c.user) /\ mem' = [mem EXCEPT !.shown[c.user] = c.name]
          /\ task'[h] = [c EXCEPT !.pc = "commit"] /\ c.op = "register"
      BY <2>2, <2>5, <2>10 DEF RegisterProfile, Write, At
    <3>2. mem'.name[c.user] # NoName
      BY <3>1 DEF HasUser, Typed, TypeOK, Database
    <3> QED BY <3>1, <3>2 DEF InEffect, Written, Committed, Effect, CallType
  <2>11. CASE OpenSession(h) /\ ~Refuse(h)
    <3>1. /\ mem' = [mem EXCEPT !.session[opened + 1] = [by |-> c.user, live |-> TRUE]]
          /\ task'[h] = [c EXCEPT !.session = opened + 1, !.pc = "commit"]
          /\ opened' = opened + 1 /\ opened < MaxSessions /\ c.op = "login"
      BY <1>1, <2>2, <2>11 DEF OpenSession, At, Calls
    <3>2. opened + 1 \in Sessions
      BY <1>1, <3>1 DEF Sessions
    <3>3. mem'.session[opened + 1].by = c.user
      BY <3>1, <3>2 DEF Typed, TypeOK, Database
    <3>4. opened + 1 <= opened'
      BY <1>1, <3>1
    <3> QED BY <3>1, <3>2, <3>3, <3>4 DEF InEffect, Written, Committed, Effect, CallType
  <2>12. CASE RevokeSession(h)
    <3>1. /\ mem' = [mem EXCEPT !.session[c.session].live = FALSE] /\ opened' = opened
          /\ task'[h] = [c EXCEPT !.pc = "commit"] /\ c.op = "logout" /\ c.pc = "sessions"
      BY <2>2, <2>5, <2>12 DEF RevokeSession, Write, At, env
    <3>2. c.session \in Sessions /\ c.session <= opened
      BY <2>3, <3>1 DEF WellFormed, InEffect
    <3>3. ~mem'.session[c.session].live
      BY <3>1, <3>2 DEF Typed, TypeOK, Database
    <3> QED BY <3>1, <3>2, <3>3 DEF InEffect, Written, Committed, Effect, CallType
  <2>13. CASE DeleteRows(h) /\ ~Refuse(h)
    <3>1. /\ c.op = "delete" /\ c.pc \in Tables /\ mem' = Without(mem, c.pc, c.user)
          /\ task'[h] = [c EXCEPT !.pc = NextTable[c.pc]]
      BY <2>2, <2>5, <2>13 DEF DeleteRows, Write
    <3>2. CASE c.pc = "users"
      <4>1. c.user \in Users
        BY <2>1, <2>2, <3>1, Known DEF Resolved, Tables
      <4>2. mem'.name[c.user] = NoName
        BY <3>1, <3>2, <4>1 DEF Without, Typed, TypeOK, Database
      <4> QED BY <3>1, <3>2, <4>2 DEF InEffect, Written, Committed, Effect, CallType, NextTable
    <3>3. CASE c.pc # "users"
      <4>1. task'[h].op = "delete" /\ task'[h].pc \in Tables
        BY <3>1, <3>3 DEF Tables, NextTable, CallType
      <4> QED BY <4>1, NothingInEffect DEF Written, Tables
    <3> QED BY <3>2, <3>3
  <2>14. CASE Commit(h)
    <3>1. /\ mem' = mem /\ disk' = mem /\ UNCHANGED <<opened, leaving>> /\ c.pc = "commit"
          /\ task'[h] = [c EXCEPT !.pc = "log"]
      BY <2>2, <2>5, <2>14 DEF Commit, env, history
    <3> QED BY <2>3, <3>1 DEF InEffect, Written, Committed, Effect, CallType
  <2>15. CASE Log(h)
    <3>1. /\ mem' = mem /\ disk' = mem /\ UNCHANGED <<opened, leaving>> /\ c.pc = "log"
          /\ \/ task'[h] = [c EXCEPT !.pc = "answer"]
             \/ task'[h].op = "register_peer"
      BY <1>1, <2>2, <2>5, <2>15 DEF Log, env, history, Calls, CallType
    <3>2. CASE task'[h] = [c EXCEPT !.pc = "answer"]
      BY <2>3, <3>1, <3>2 DEF InEffect, Written, Committed, Effect, CallType
    <3>3. CASE task'[h].op = "register_peer"
      BY <3>3, NothingInEffect
    <3> QED BY <3>1, <3>2, <3>3
  <2> QED BY <1>3, <2>4, <2>6, <2>7, <2>8, <2>9, <2>10, <2>11, <2>12, <2>13, <2>14, <2>15
          DEF TaskStep
<1> QED BY <1>2, <1>3

LEMMA Others ==
  ASSUME Calls, NEW h \in Tasks, Goes(h), NEW k \in Tasks, k # h
  PROVE  task'[k] = task[k]
BY DEF Calls, Goes

LEMMA ToldEffectStep ==
  ASSUME Typed, EffectInv, ToldInv, [Next]_vars
  PROVE  EffectInv' /\ ToldInv'
<1>1. Typed'
  BY TypeStep
<1>2. Calls /\ opened \in Nat
  BY DEF Typed, TypeOK, Calls
<1>3. ASSUME NEW h \in Tasks, ClientCall(h) \/ CleanupWakes(h) \/ TaskStep(h), ~Answer(h)
      PROVE  EffectInv' /\ ToldInv'
  <2>1. Step(h)
    BY <1>3, Steps
  <2>2. InEffect(task'[h], mem', disk', opened', leaving')
    BY <1>3, OwnEffect
  <2>3. ASSUME NEW k \in Tasks, task'[k] # NoCall, k # h
        PROVE  InEffect(task'[k], mem', disk', opened', leaving')
    <3>1. task'[k] = task[k]
      BY <1>2, <2>1, <2>3, Others DEF Step
    <3>2. PICK c \in CallType : c = task[k]
      BY <1>2, <2>3, <3>1 DEF Calls
    <3>3. WellFormed(c, drawn, leaving) /\ InEffect(c, mem, disk, opened, leaving)
      BY <1>2, <2>3, <3>1, <3>2 DEF Calls, CallsInv, EffectInv
    <3> QED BY <1>1, <2>1, <3>1, <3>2, <3>3, InEffectKeeps
  <2>4. UNCHANGED told
    BY <1>3 DEF ClientCall, CleanupWakes, CallRegister, CallLogin, CallRefresh,
       CallAdmitted, Start, TaskStep, Admit, VerifySession, RegisterSelect, RegisterUser,
       RegisterProfile, LoginSelect, OpenSession, RevokeSession, RefreshSelect, CleanupUpdate,
       UpdateSelect, UpdateUser, UpdateProfile, UpdateBio, DeleteSelect, DeleteRows, PublishSong,
       PublishHistory, RegisterPeer, DownloadSelect, DownloadInsert, Commit, Log
  <2>5. EffectInv'
    BY <2>2, <2>3 DEF EffectInv
  <2> QED BY <1>1, <2>1, <2>4, <2>5, ToldKeeps
<1>4. ASSUME NEW h \in Tasks, Answer(h)
      PROVE  EffectInv' /\ ToldInv'
  <2>1. /\ UNCHANGED <<mem, disk, drawn, opened, leaving>> /\ task' = [task EXCEPT ![h] = NoCall]
        /\ task[h] # NoCall /\ task[h].pc = "answer"
    BY <1>4 DEF Answer, env, history
  <2>2. PICK c \in CallType : c = task[h]
    BY <1>2, <2>1 DEF Calls
  <2>3. c.ok => WellFormed(c, drawn, leaving)
                /\ Effect(c, mem, opened, leaving) /\ Effect(c, disk, opened, leaving)
    BY <1>2, <2>1, <2>2 DEF Calls, CallsInv, EffectInv, InEffect, Written, Committed
  <2>4. EffectInv'
    <3>1. ASSUME NEW k \in Tasks, task'[k] # NoCall
          PROVE  task'[k] = task[k] /\ task[k] # NoCall
      BY <1>2, <2>1, <3>1 DEF Calls
    <3> QED BY <2>1, <3>1 DEF EffectInv
  <2>5. \A u \in gone' : u \in gone \/ (c.op = "delete" /\ c.ok /\ u = c.user)
    BY <1>4, <2>2 DEF Answer
  <2>6. \A s \in left' : s \in left \/ (c.op = "logout" /\ c.ok /\ s = c.session)
    BY <1>4, <2>2 DEF Answer
  <2>7. \A u \in registered' : u \in registered \/ (c.op = "register" /\ c.ok /\ u = c.user)
    BY <1>4, <2>2 DEF Answer
  <2>8. \A s \in Sessions : \/ held'[s] = held[s]
                            \/ c.op = "login" /\ c.ok /\ s = c.session /\ held'[s] = c.user
    BY <1>4, <2>2 DEF Answer, Typed, TypeOK
  <2>9. c.op = "delete" /\ c.ok => c.user \in drawn
    BY <2>1, <2>2, <2>3 DEF WellFormed, Resolved
  <2>10. ASSUME NEW db, Told(db), c.ok => Effect(c, db, opened, leaving)
         PROVE  /\ \A u \in gone' : u \in drawn /\ db.name[u] = NoName
                /\ \A s \in left' : s <= opened /\ ~db.session[s].live
                /\ \A u \in registered' : u \in leaving \/ db.name[u] # NoName
                /\ \A s \in Sessions : held'[s] # NoUser =>
                     s <= opened /\ (held'[s] \in leaving \/ db.session[s].by = held'[s])
    <3>1. \A u \in gone' : u \in drawn /\ db.name[u] = NoName
      BY <2>5, <2>9, <2>10 DEF Told, Effect
    <3>2. \A s \in left' : s <= opened /\ ~db.session[s].live
      BY <2>6, <2>10 DEF Told, Effect
    <3>3. \A u \in registered' : u \in leaving \/ db.name[u] # NoName
      BY <2>7, <2>10 DEF Told, Effect
    <3>4. \A s \in Sessions : held'[s] # NoUser =>
            s <= opened /\ (held'[s] \in leaving \/ db.session[s].by = held'[s])
      BY <2>8, <2>10 DEF Told, Effect
    <3> QED BY <3>1, <3>2, <3>3, <3>4
  <2>11. Told(mem)' /\ Told(disk)'
    BY <2>1, <2>3, <2>10 DEF ToldInv, Told
  <2> QED BY <2>4, <2>11 DEF ToldInv
<1>5. CASE OtherCommit
  <2>1. /\ UNCHANGED <<mem, task, drawn, opened, leaving, registered, held, left, gone>>
        /\ disk' = mem
    BY <1>5 DEF OtherCommit, env, told, history
  <2>2. EffectInv'
    BY <2>1 DEF EffectInv, InEffect, Written, Committed
  <2> QED BY <2>1, <2>2 DEF ToldInv, Told
<1>6. CASE Expire
  BY <1>6 DEF Expire, told, history, EffectInv, ToldInv, Told
<1>7. CASE Restart
  <2>1. /\ UNCHANGED <<drawn, opened, leaving, registered, held, left, gone>>
        /\ mem' = Synced(disk) /\ disk' = Synced(disk) /\ task' = [h \in Tasks |-> NoCall]
    BY <1>7 DEF Restart, told
  <2>2. Synced(disk).name = disk.name /\ Synced(disk).session = disk.session
    BY SyncedIsGood DEF Typed, GoodInv
  <2>3. EffectInv'
    BY <2>1 DEF EffectInv
  <2> QED BY <2>1, <2>2, <2>3 DEF ToldInv, Told
<1>8. CASE UNCHANGED vars
  BY <1>8 DEF vars, env, told, history, EffectInv, ToldInv, Told
<1> QED BY <1>3, <1>4, <1>5, <1>6, <1>7, <1>8 DEF Next, Quiet

-----------------------------------------------------------------------------
(* The order of a deletion.                                                *)

LEMMA EmptiedKeeps ==
  ASSUME NEW db, NEW new, NEW t, NEW u \in Users, NoMore(db, new, u), Emptied(db, t, u)
  PROVE  Emptied(new, t, u)
BY DEF NoMore, Emptied

LEMMA LateStep ==
  ASSUME Typed, LateInv, [Next]_vars
  PROVE  LateInv'
<1>1. Calls /\ Good(mem, drawn, opened)
  BY DEF Typed, TypeOK, Calls, GoodInv
<1>2. ASSUME NEW h \in Tasks, ClientCall(h) \/ CleanupWakes(h) \/ TaskStep(h), ~Answer(h),
             NEW k \in Tasks, task'[k] # NoCall, task'[k].op = "delete", task'[k].pc \in Tables
      PROVE  task'[k].user \in late' \/ Emptied(mem', task'[k].pc, task'[k].user)
  <2>1. Goes(h) /\ Grows /\ DbStep
    BY <1>2, Steps DEF Step
  <2>2. CASE task'[k] = task[k]
    <3>1. task[k] # NoCall /\ Resolved(task[k])
      BY <1>2, <2>2 DEF Resolved, Tables
    <3>2. PICK u \in Users : u = task[k].user
      BY <3>1, Known
    <3>3. BeingDeleted(u)
      BY <1>2, <2>2, <3>2 DEF BeingDeleted
    <3>4. u \in late \/ Emptied(mem, task[k].pc, u)
      BY <1>2, <2>2, <3>2 DEF LateInv
    <3> QED BY <2>1, <2>2, <3>2, <3>3, <3>4, EmptiedKeeps DEF DbStep, Grows
  <2>3. CASE task'[k] # task[k]
    <3>1. k = h
      BY <1>1, <2>1, <2>3, Others
    <3>2. CASE ClientCall(h) \/ CleanupWakes(h)
      <4>1. task'[h].pc \notin Tables \/ task'[h].op = "cleanup"
        BY <1>1, <3>2 DEF ClientCall, CleanupWakes, CallRegister, CallLogin, CallRefresh,
           CallAdmitted, Start, Calls, Tables
      <4> QED BY <1>2, <3>1, <4>1
    <3>3. CASE TaskStep(h)
      <4>1. task[h] # NoCall
        BY <3>3 DEF TaskStep, Admit, VerifySession, RegisterSelect, RegisterUser,
           RegisterProfile, LoginSelect, OpenSession, RevokeSession, RefreshSelect,
           CleanupUpdate, UpdateSelect, UpdateUser, UpdateProfile, UpdateBio, DeleteSelect,
           DeleteRows, PublishSong, PublishHistory, RegisterPeer, DownloadSelect,
           DownloadInsert, Commit, Log, Answer, At
      <4>2. PICK c \in CallType : c = task[h]
        BY <1>1, <4>1 DEF Calls
      <4>3. WellFormed(c, drawn, leaving)
        BY <1>1, <4>1, <4>2 DEF Calls, CallsInv
      <4>4. ~Refuse(h) /\ ~RefuseLogged(h)
        BY <1>1, <1>2, <3>1, <4>1 DEF Refuse, RefuseLogged, Calls, CallType, Tables
      <4>5. \A pc : GoTo(h, pc) => task'[h] = [c EXCEPT !.pc = pc]
        BY <1>1, <4>2 DEF GoTo, Calls
      <4>6. CASE Admit(h)
        <5>1. c.pc = "admit" /\ task'[h].op = c.op /\ task'[h].pc \in StartsAt(c)
          BY <1>1, <4>2, <4>4, <4>6 DEF Admit, Calls, CallType
        <5> QED BY <1>2, <3>1, <5>1 DEF FirstPoint, StartsAt, Tables
      <4>7. CASE VerifySession(h)
        <5>1. c.pc = "verify" /\ task'[h].op = c.op
          BY <1>1, <4>2, <4>4, <4>7 DEF VerifySession, Calls, CallType
        <5> QED BY <1>2, <3>1, <4>3, <5>1 DEF WellFormed
      <4>8. CASE RegisterUser(h) \/ LoginSelect(h) \/ OpenSession(h)
        <5>1. task'[h].op = c.op /\ c.op \in {"register", "login"}
          <6>1. CASE RegisterUser(h)
            <7>1. c.op = "register"
              BY <4>2, <6>1 DEF RegisterUser, At
            <7>2. PICK u \in Users : task' = [task EXCEPT ![h].user = u, ![h].pc = "profiles"]
              BY <4>4, <6>1 DEF RegisterUser
            <7>3. task \in [Tasks -> CallType \union {NoCall}] /\ task[h] \in CallType
              BY <1>1, <4>2 DEF Calls
            <7>4. task'[h].op = task[h].op
              BY <7>2, <7>3, CallKnows
            <7> QED BY <4>2, <7>1, <7>4
          <6>2. CASE LoginSelect(h)
            <7>1. c.op = "login"
              BY <4>2, <6>2 DEF LoginSelect, At
            <7>2. PICK u \in Users : task' = [task EXCEPT ![h].user = u, ![h].pc = "sessions"]
              BY <4>4, <6>2 DEF LoginSelect
            <7>3. task \in [Tasks -> CallType \union {NoCall}] /\ task[h] \in CallType
              BY <1>1, <4>2 DEF Calls
            <7>4. task'[h].op = task[h].op
              BY <7>2, <7>3, CallKnows
            <7> QED BY <4>2, <7>1, <7>4
          <6>3. CASE OpenSession(h)
            BY <1>1, <4>2, <4>4, <6>3 DEF OpenSession, At, Calls, CallType
          <6> QED BY <4>8, <6>1, <6>2, <6>3
        <5> QED BY <1>2, <3>1, <5>1
      <4>9. CASE \/ RegisterSelect(h) \/ RegisterProfile(h) \/ RevokeSession(h)
                 \/ RefreshSelect(h) \/ CleanupUpdate(h) \/ UpdateSelect(h) \/ UpdateUser(h)
                 \/ UpdateProfile(h) \/ UpdateBio(h) \/ PublishSong(h) \/ PublishHistory(h)
                 \/ RegisterPeer(h) \/ DownloadSelect(h) \/ DownloadInsert(h)
        <5>1. c.op # "delete"
          BY <4>2, <4>9 DEF RegisterSelect, RegisterProfile, RevokeSession, RefreshSelect,
             CleanupUpdate, UpdateSelect, UpdateUser, UpdateProfile, UpdateBio, PublishSong,
             PublishHistory, RegisterPeer, DownloadSelect, DownloadInsert, At
        <5>2. \E pc : GoTo(h, pc)
          BY <4>4, <4>9 DEF RegisterSelect, RegisterProfile, RevokeSession, RefreshSelect,
             CleanupUpdate, UpdateSelect, UpdateUser, UpdateProfile, UpdateBio, PublishSong,
             PublishHistory, RegisterPeer, DownloadSelect, DownloadInsert, Write
        <5>3. task'[h].op = c.op
          BY <4>5, <5>2 DEF CallType
        <5> QED BY <1>2, <3>1, <5>1, <5>3
      <4>10. CASE DeleteSelect(h)
        <5>1. task'[h] = [c EXCEPT !.pc = "publish_history"]
          BY <4>4, <4>5, <4>10 DEF DeleteSelect
        <5>2. task'[h].pc = "publish_history"
          BY <4>2, <5>1 DEF CallType
        <5> QED BY <3>1, <5>2 DEF Emptied
      <4>11. CASE DeleteRows(h)
        <5>1. c.op = "delete" /\ c.pc \in Tables /\ MayDelete(c.pc, c.user)
              /\ mem' = Without(mem, c.pc, c.user) /\ task'[h] = [c EXCEPT !.pc = NextTable[c.pc]]
          BY <4>2, <4>4, <4>5, <4>11 DEF DeleteRows, Write
        <5>2. PICK t \in Tables, u \in Users : t = c.pc /\ u = c.user
          BY <4>1, <4>2, <5>1, Known DEF Resolved, Tables
        <5>3. u \in leaving
          BY <4>3, <5>1, <5>2 DEF WellFormed
        <5>4. u \in late \/ Emptied(mem, t, u)
          BY <4>1, <4>2, <5>1, <5>2 DEF LateInv
        <5>5. NextTable[t] \in Tables /\ task'[h].user = u /\ task'[h].pc = NextTable[t]
          BY <1>2, <3>1, <5>1, <5>2 DEF CallType
        <5>6. /\ t = "music_metadata" => ~UsesSongs(mem, u)
              /\ t = "users" => ~UsesUser(mem, u)
          BY <5>1, <5>2 DEF MayDelete
        <5>7. Emptied(mem, t, u) => Emptied(Without(mem, t, u), NextTable[t], u)
          BY <1>1, <5>3, <5>5, <5>6, TakeRows
        <5> QED BY <2>1, <3>1, <5>1, <5>2, <5>4, <5>5, <5>7 DEF Grows
      <4>12. CASE Commit(h)
        <5>1. task'[h] = [c EXCEPT !.pc = "log"]
          BY <4>5, <4>12 DEF Commit
        <5>2. task'[h].pc = "log"
          BY <4>2, <5>1 DEF CallType
        <5> QED BY <1>2, <3>1, <5>2 DEF Tables
      <4>13. CASE Log(h)
        <5>1. task'[h] = [c EXCEPT !.pc = "answer"] \/ task'[h].op = "register_peer"
          BY <1>1, <4>1, <4>5, <4>13 DEF Log, Calls, CallType
        <5>2. task'[h].pc = "answer" \/ task'[h].op = "register_peer"
          BY <4>2, <5>1 DEF CallType
        <5> QED BY <1>2, <3>1, <5>2 DEF Tables
      <4> QED BY <1>2, <3>3, <4>6, <4>7, <4>8, <4>9, <4>10, <4>11, <4>12, <4>13 DEF TaskStep
    <3> QED BY <1>2, <3>2, <3>3
  <2> QED BY <2>2, <2>3
<1>3. ASSUME NEW h \in Tasks, Answer(h)
      PROVE  LateInv'
  <2>1. UNCHANGED <<mem, late>> /\ task' = [task EXCEPT ![h] = NoCall]
    BY <1>3 DEF Answer, history
  <2>2. ASSUME NEW k \in Tasks, task'[k] # NoCall
        PROVE  task'[k] = task[k] /\ task[k] # NoCall
    BY <1>1, <2>1, <2>2 DEF Calls
  <2> QED BY <2>1, <2>2 DEF LateInv
<1>4. CASE OtherCommit \/ Expire \/ UNCHANGED vars
  BY <1>4 DEF OtherCommit, Expire, vars, history, LateInv
<1>5. CASE Restart
  BY <1>5 DEF Restart, LateInv
<1> QED BY <1>2, <1>3, <1>4, <1>5 DEF Next, Quiet, LateInv

-----------------------------------------------------------------------------
(* The two names of an account.                                            *)

Agrees(db, u) == db.name[u] = NoName \/ db.shown[u] \in {NoProfile, NoDisplay, db.name[u]}

Updates(c, u, points) == c.op = "update" /\ c.user = u /\ c.pc \in points
UpdatedAt(u, points)  == \E h \in Tasks : task[h] # NoCall /\ Updates(task[h], u, points)

\* The call is about to write the name that is shown.
Shows(c) == c.op \in {"register", "update"} /\ c.pc = "profiles"

\* What such a call will show is the name the account has, unless the account was
\* renamed under it.
NamersKnow ==
  \A h \in Tasks : task[h] # NoCall /\ Shows(task[h]) =>
    task[h].user \in overlap \/ mem.name[task[h].user] \in {NoName, task[h].name}

NamesInMem ==
  \A u \in Users : Agrees(mem, u) \/ u \in overlap \/ UpdatedAt(u, {"profiles"})

\* Half an update may be committed, until the update itself commits.
NamesOnDisk ==
  \A u \in Users : \/ Agrees(disk, u) \/ u \in overlap \/ mem.name[u] = NoName
                   \/ UpdatedAt(u, {"profiles", "bio", "commit"})

NamesInv == NamersKnow /\ NamesInMem /\ NamesOnDisk

\* What a step does to the names of u: it keeps or clears them, or it is one of the
\* statements that write them.
NameMove(h, u) ==
  \/ mem'.name[u] = NoName
  \/ mem'.name[u] = mem.name[u] /\ mem'.shown[u] \in {NoProfile, NoDisplay, mem.shown[u]}
  \/ /\ Shows(task[h]) /\ task[h].user = u
     /\ mem'.name[u] = mem.name[u] /\ mem'.shown[u] = task[h].name
  \/ u \notin drawn /\ mem'.shown[u] = NoProfile
  \/ /\ task'[h] # NoCall /\ Updates(task'[h], u, {"profiles"})
     /\ \A k \in Tasks \ {h} :
          task[k] # NoCall /\ Shows(task[k]) /\ task[k].user = u => u \in overlap'

\* What a step of task h does to the names, and how the calls that write them end.
NameStep(h) ==
  /\ \A u \in Users : NameMove(h, u)
  /\ overlap \subseteq overlap'
  /\ task'[h] # NoCall /\ Shows(task'[h]) => mem'.name[task'[h].user] \in {NoName, task'[h].name}
  /\ \A u \in Users :
       task[h] # NoCall /\ Updates(task[h], u, {"profiles"}) => u \in overlap \/ Agrees(mem', u)
  /\ \A u \in Users :
       task[h] # NoCall /\ Updates(task[h], u, {"profiles", "bio", "commit"}) =>
         \/ mem'.name[u] = NoName \/ disk' = mem'
         \/ task'[h] # NoCall /\ Updates(task'[h], u, {"profiles", "bio", "commit"})

LEMMA SyncedAgrees ==
  ASSUME NEW db \in Database, NEW u \in Users
  PROVE  Agrees(Synced(db), u)
<1>1. Synced(db).name = db.name
  BY DEF Synced, Database
<1>2. Synced(db).shown[u] = IF db.shown[u] = NoProfile THEN db.shown[u] ELSE db.name[u]
  BY DEF Synced, Database
<1> QED BY <1>1, <1>2 DEF Agrees

LEMMA NameWrites ==
  ASSUME Typed, NEW h \in Tasks, RegisterUser(h) \/ RegisterProfile(h)
  PROVE  NameStep(h)
<1>1. /\ Calls /\ task[h] # NoCall /\ mem \in Database /\ UNCHANGED overlap
      /\ Good(mem, drawn, opened)
  BY DEF Typed, TypeOK, Calls, GoodInv, RegisterUser, RegisterProfile, At, history
<1>2. PICK c \in CallType : c = task[h]
  BY <1>1 DEF Calls
<1>3. WellFormed(c, drawn, leaving) /\ c.op = "register"
  BY <1>1, <1>2 DEF Calls, CallsInv, RegisterUser, RegisterProfile, At
<1>4. CASE Refuse(h) /\ UNCHANGED mem
  <2>1. task'[h].pc = "answer"
    BY <1>1, <1>4 DEF Refuse, Calls, CallType
  <2> QED BY <1>1, <1>2, <1>3, <1>4, <2>1 DEF NameStep, NameMove, Shows, Updates
<1>5. CASE RegisterUser(h) /\ ~(Refuse(h) /\ UNCHANGED mem)
  <2>1. PICK u \in Users \ drawn :
          /\ mem' = [mem EXCEPT !.name[u] = c.name]
          /\ task' = [task EXCEPT ![h].user = u, ![h].pc = "profiles"]
    BY <1>2, <1>5 DEF RegisterUser
  <2>2. task'[h] = [c EXCEPT !.user = u, !.pc = "profiles"]
    BY <1>1, <1>2, <2>1 DEF Calls
  <2>3. task'[h].user = u /\ task'[h].name = c.name
    BY <2>2 DEF CallType
  <2>4. /\ mem'.name[u] = c.name /\ mem'.shown = mem.shown
        /\ \A v \in Users \ {u} : mem'.name[v] = mem.name[v]
    BY <1>1, <2>1 DEF Database
  <2>5. mem.shown[u] = NoProfile
    BY <1>1 DEF Good, Sound, UsesUser
  <2>6. \A v \in Users : NameMove(h, v)
    BY <2>4, <2>5 DEF NameMove
  <2> QED BY <1>1, <1>2, <1>3, <2>3, <2>4, <2>6 DEF NameStep, Updates
<1>6. CASE RegisterProfile(h) /\ ~(Refuse(h) /\ UNCHANGED mem)
  <2>1. mem' = [mem EXCEPT !.shown[c.user] = c.name] /\ GoTo(h, "commit") /\ c.pc = "profiles"
    BY <1>2, <1>6 DEF RegisterProfile, Write, At
  <2>2. c.user \in Users
    BY <1>1, <1>2, <1>3, <2>1, Known DEF Resolved
  <2>3. /\ mem'.name = mem.name /\ mem'.shown[c.user] = c.name
        /\ \A v \in Users \ {c.user} : mem'.shown[v] = mem.shown[v]
    BY <1>1, <2>1, <2>2 DEF Database
  <2>4. task'[h].pc = "commit"
    BY <1>1, <2>1 DEF GoTo, Calls, CallType
  <2>5. \A v \in Users : NameMove(h, v)
    BY <1>2, <1>3, <2>1, <2>3 DEF NameMove, Shows
  <2> QED BY <1>1, <1>2, <1>3, <2>4, <2>5 DEF NameStep, Shows, Updates
<1> QED BY <1>4, <1>5, <1>6

LEMMA NameUpdates ==
  ASSUME Typed, NamersKnow, NEW h \in Tasks, UpdateUser(h) \/ UpdateProfile(h) \/ UpdateBio(h)
  PROVE  NameStep(h)
<1>1. Calls /\ task[h] # NoCall /\ mem \in Database
  BY DEF Typed, TypeOK, Calls, UpdateUser, UpdateProfile, UpdateBio, At
<1>2. PICK c \in CallType : c = task[h]
  BY <1>1 DEF Calls
<1>3. c.op = "update" /\ c.pc \in {"users", "profiles", "bio"}
  BY <1>2 DEF UpdateUser, UpdateProfile, UpdateBio, At
<1>4. c.user \in Users /\ c.user \in drawn
  BY <1>1, <1>2, <1>3, Known DEF Resolved
<1>5. overlap \subseteq overlap'
  BY DEF UpdateUser, UpdateProfile, UpdateBio
<1>6. \A pc : GoTo(h, pc) => task'[h] = [c EXCEPT !.pc = pc]
  BY <1>1, <1>2 DEF GoTo, Calls
<1>7. CASE Refuse(h) /\ UNCHANGED mem
  <2>1. task'[h].pc = "answer"
    BY <1>1, <1>7 DEF Refuse, Calls, CallType
  <2>2. ASSUME NEW pc \in {"bio", "commit"}
        PROVE  ~GoTo(h, pc)
    <3>1. [c EXCEPT !.pc = pc].pc = pc
      BY DEF CallType
    <3> QED BY <1>6, <2>1, <3>1
  <2>3. c.pc \in {"profiles", "bio"} => mem.name[c.user] = NoName
    <3>1. CASE UpdateUser(h)
      BY <1>2, <3>1 DEF UpdateUser, At
    <3>2. CASE UpdateProfile(h)
      BY <1>2, <2>2, <3>2 DEF UpdateProfile, Write, HasUser
    <3>3. CASE UpdateBio(h)
      BY <1>2, <2>2, <3>3 DEF UpdateBio, Write, HasUser
    <3> QED BY <3>1, <3>2, <3>3
  <2>4. \A u \in Users : NameMove(h, u)
    BY <1>7 DEF NameMove
  <2> QED BY <1>2, <1>3, <1>5, <1>7, <2>1, <2>3, <2>4 DEF NameStep, Shows, Updates, Agrees
<1>8. CASE UpdateUser(h) /\ ~(Refuse(h) /\ UNCHANGED mem)
  <2>1. /\ mem' = IF HasUser(c.user) THEN [mem EXCEPT !.name[c.user] = c.name] ELSE mem
        /\ GoTo(h, "profiles") /\ c.pc = "users"
        /\ overlap' = IF Naming(c.user) THEN overlap \union {c.user} ELSE overlap
    BY <1>2, <1>8 DEF UpdateUser, Write, At
  <2>2. task'[h] = [c EXCEPT !.pc = "profiles"]
    BY <1>6, <2>1
  <2>3. /\ task'[h].op = "update" /\ task'[h].user = c.user /\ task'[h].name = c.name
        /\ task'[h].pc = "profiles"
    BY <1>3, <2>2 DEF CallType
  <2>4. /\ mem'.name[c.user] \in {NoName, c.name}
        /\ mem'.shown = mem.shown
        /\ \A v \in Users \ {c.user} : mem'.name[v] = mem.name[v]
    BY <1>1, <1>4, <2>1 DEF Database, HasUser
  <2>5. \A k \in Tasks : task[k] # NoCall /\ Shows(task[k]) /\ task[k].user = c.user =>
          c.user \in overlap'
    BY <2>1 DEF Shows, Naming, At
  <2>6. task'[h] # NoCall => \A u \in Users : NameMove(h, u)
    BY <2>3, <2>4, <2>5 DEF NameMove, Updates
  <2>7. task'[h] # NoCall
    BY <2>2, NoCallAssumption DEF CallType, Points, Tables
  <2> QED BY <1>2, <1>5, <2>1, <2>3, <2>4, <2>6, <2>7 DEF NameStep, Updates
<1>9. CASE UpdateProfile(h) /\ ~(Refuse(h) /\ UNCHANGED mem)
  <2>1. PICK pc \in {"bio", "commit"} :
          mem' = [mem EXCEPT !.shown[c.user] = c.name] /\ GoTo(h, pc) /\ c.pc = "profiles"
    BY <1>2, <1>9 DEF UpdateProfile, Write, At
  <2>2. task'[h] = [c EXCEPT !.pc = pc]
    BY <1>6, <2>1
  <2>3. task'[h].op = "update" /\ task'[h].user = c.user /\ task'[h].pc \in {"bio", "commit"}
    BY <1>3, <2>1, <2>2 DEF CallType
  <2>4. /\ mem'.name = mem.name /\ mem'.shown[c.user] = c.name
        /\ \A v \in Users \ {c.user} : mem'.shown[v] = mem.shown[v]
    BY <1>1, <1>4, <2>1 DEF Database
  <2>5. c.user \in overlap \/ mem.name[c.user] \in {NoName, c.name}
    BY <1>1, <1>2, <1>3, <2>1 DEF NamersKnow, Shows
  <2>6. c.user \in overlap \/ Agrees(mem', c.user)
    BY <2>4, <2>5 DEF Agrees
  <2>7. \A u \in Users : NameMove(h, u)
    BY <1>2, <1>3, <2>1, <2>4 DEF NameMove, Shows
  <2>8. task'[h] # NoCall
    BY <2>2, NoCallAssumption DEF CallType, Points, Tables
  <2> QED BY <1>2, <1>5, <2>3, <2>6, <2>7, <2>8 DEF NameStep, Shows, Updates
<1>10. CASE UpdateBio(h) /\ ~(Refuse(h) /\ UNCHANGED mem)
  <2>1. /\ mem' = [mem EXCEPT !.shown[c.user] = IF @ = NoProfile THEN NoDisplay ELSE @]
        /\ GoTo(h, "commit") /\ c.pc = "bio"
    BY <1>2, <1>10 DEF UpdateBio, Write, At
  <2>2. task'[h] = [c EXCEPT !.pc = "commit"]
    BY <1>6, <2>1
  <2>3. task'[h].op = "update" /\ task'[h].user = c.user /\ task'[h].pc = "commit"
    BY <1>3, <2>2 DEF CallType
  <2>4. /\ mem'.name = mem.name
        /\ \A v \in Users : mem'.shown[v] \in {NoDisplay, mem.shown[v]}
    BY <1>1, <1>4, <2>1 DEF Database
  <2>5. \A u \in Users : NameMove(h, u)
    BY <2>4 DEF NameMove
  <2>6. task'[h] # NoCall
    BY <2>2, NoCallAssumption DEF CallType, Points, Tables
  <2> QED BY <1>2, <1>5, <2>1, <2>3, <2>5, <2>6 DEF NameStep, Shows, Updates
<1> QED BY <1>7, <1>8, <1>9, <1>10

\* No other step of a task writes the two names, and a deletion only clears them.
LEMMA NameRest ==
  ASSUME Typed, NEW h \in Tasks, TaskStep(h), ~Answer(h),
         ~RegisterUser(h), ~RegisterProfile(h),
         ~UpdateUser(h), ~UpdateProfile(h), ~UpdateBio(h)
  PROVE  NameStep(h)
<1>1. Calls /\ mem \in Database /\ task[h] # NoCall
  <2>1. task[h] # NoCall
    BY DEF TaskStep, Admit, VerifySession, RegisterSelect, LoginSelect, OpenSession,
       RevokeSession, RefreshSelect, CleanupUpdate, UpdateSelect, DeleteSelect, DeleteRows,
       PublishSong, PublishHistory, RegisterPeer, DownloadSelect, DownloadInsert, Commit, Log, At
  <2> QED BY <2>1 DEF Typed, TypeOK, Calls
<1>2. PICK c \in CallType : c = task[h]
  BY <1>1 DEF Calls
<1>3. WellFormed(c, drawn, leaving)
  BY <1>1, <1>2 DEF Calls, CallsInv
<1>4. UNCHANGED overlap
  BY DEF TaskStep, Admit, VerifySession, RegisterSelect, LoginSelect, OpenSession,
     RevokeSession, RefreshSelect, CleanupUpdate, UpdateSelect, DeleteSelect, DeleteRows,
     PublishSong, PublishHistory, RegisterPeer, DownloadSelect, DownloadInsert, Commit, Log,
     history
<1>5. \A u \in Users : \/ mem'.name[u] = NoName
                       \/ /\ mem'.name[u] = mem.name[u]
                          /\ mem'.shown[u] \in {NoProfile, mem.shown[u]}
  <2>1. CASE DeleteRows(h)
    <3>1. mem' = mem \/ (mem' = Without(mem, c.pc, c.user) /\ c.pc \in Tables)
      BY <1>2, <2>1 DEF DeleteRows, Write
    <3>2. CASE mem' = mem
      BY <3>2
    <3>3. CASE mem' = Without(mem, c.pc, c.user) /\ c.pc \in Tables
      <4>1. CASE c.pc = "profiles"
        <5>1. mem' = [mem EXCEPT !.shown[c.user] = NoProfile]
          BY <3>3, <4>1 DEF Without
        <5> QED BY <1>1, <5>1 DEF Database
      <4>2. CASE c.pc = "users"
        <5>1. mem' = [mem EXCEPT !.name[c.user] = NoName]
          BY <3>3, <4>2 DEF Without
        <5> QED BY <1>1, <5>1 DEF Database
      <4>3. CASE c.pc \notin {"profiles", "users"}
        <5>1. mem'.name = mem.name /\ mem'.shown = mem.shown
          BY <1>1, <3>3, <4>3 DEF Without, Tables, Database
        <5> QED BY <5>1
      <4> QED BY <4>1, <4>2, <4>3
    <3> QED BY <3>1, <3>2, <3>3
  <2>2. CASE ~DeleteRows(h)
    <3>1. mem'.name = mem.name /\ mem'.shown = mem.shown
      BY <1>1, <2>2
         DEF TaskStep, Admit, VerifySession, RegisterSelect, LoginSelect, OpenSession,
             RevokeSession, RefreshSelect, CleanupUpdate, UpdateSelect, DeleteSelect,
             PublishSong, PublishHistory, RegisterPeer, DownloadSelect, DownloadInsert,
             Commit, Log, Write, Database
    <3> QED BY <3>1
  <2> QED BY <2>1, <2>2
<1>6. \A pc : GoTo(h, pc) => task'[h] = [c EXCEPT !.pc = pc]
  BY <1>1, <1>2 DEF GoTo, Calls
<1>7. ~Shows(c) /\ (c.op = "update" => c.pc # "bio")
  BY <1>2, <1>3
     DEF TaskStep, Admit, VerifySession, RegisterSelect, LoginSelect, OpenSession,
         RevokeSession, RefreshSelect, CleanupUpdate, UpdateSelect, DeleteSelect, DeleteRows,
         PublishSong, PublishHistory, RegisterPeer, DownloadSelect, DownloadInsert,
         Commit, Log, At, Shows
<1>8. c.pc = "commit" => disk' = mem'
  BY <1>2
     DEF TaskStep, Admit, VerifySession, RegisterSelect, LoginSelect, OpenSession,
         RevokeSession, RefreshSelect, CleanupUpdate, UpdateSelect, DeleteSelect, DeleteRows,
         PublishSong, PublishHistory, RegisterPeer, DownloadSelect, DownloadInsert,
         Commit, Log, At, Tables
<1>9. ~Shows(task'[h])
  <2>1. CASE Refuse(h) \/ RefuseLogged(h)
    <3>1. task'[h].pc \in {"answer", "log"}
      BY <1>1, <2>1 DEF Refuse, RefuseLogged, Calls, CallType
    <3> QED BY <3>1 DEF Shows
  <2>2. CASE ~Refuse(h) /\ ~RefuseLogged(h) /\ (Admit(h) \/ VerifySession(h))
    <3>1. /\ task'[h].op = c.op
          /\ task'[h].pc \in {"sessions", "select"}
             \/ (c.pc = "admit" /\ task'[h].pc \in StartsAt(c))
      BY <1>1, <1>2, <2>2 DEF Admit, VerifySession, Calls, CallType
    <3> QED BY <1>3, <3>1 DEF Shows, WellFormed, FirstPoint, StartsAt
  <2>3. CASE ~Refuse(h) /\ ~RefuseLogged(h) /\ (LoginSelect(h) \/ OpenSession(h))
    <3>1. CASE LoginSelect(h)
      <4>1. PICK u \in Users : task' = [task EXCEPT ![h].user = u, ![h].pc = "sessions"]
        BY <2>3, <3>1 DEF LoginSelect
      <4>2. task \in [Tasks -> CallType \union {NoCall}] /\ task[h] \in CallType
        BY <1>1, <1>2 DEF Calls
      <4>3. task'[h].pc = "sessions"
        BY <4>1, <4>2, CallKnows
      <4> QED BY <4>3 DEF Shows
    <3>2. CASE OpenSession(h)
      <4>1. task'[h].pc = "commit"
        BY <1>1, <1>2, <2>3, <3>2 DEF OpenSession, Calls, CallType
      <4> QED BY <4>1 DEF Shows
    <3> QED BY <2>3, <3>1, <3>2
  <2>4. CASE Log(h)
    <3>1. task'[h].pc \in {"answer", "peer_registry"}
      BY <1>1, <1>2, <2>4 DEF Log, GoTo, Calls, CallType
    <3> QED BY <3>1 DEF Shows
  <2>5. CASE ~Refuse(h) /\ DeleteRows(h)
    <3>1. c.op = "delete" /\ GoTo(h, NextTable[c.pc])
      BY <1>2, <2>5 DEF DeleteRows, Write
    <3>2. task'[h].op = "delete"
      BY <1>6, <3>1 DEF CallType
    <3> QED BY <3>2 DEF Shows
  <2>6. CASE /\ ~Refuse(h) /\ ~RefuseLogged(h)
             /\ \/ RegisterSelect(h) \/ RevokeSession(h) \/ RefreshSelect(h) \/ CleanupUpdate(h)
                \/ UpdateSelect(h) \/ DeleteSelect(h) \/ PublishSong(h) \/ PublishHistory(h)
                \/ RegisterPeer(h) \/ DownloadSelect(h) \/ DownloadInsert(h) \/ Commit(h)
    <3>1. PICK pc \in {"users", "commit", "log", "publish_history", "download_requests"} :
            GoTo(h, pc)
      BY <2>6
         DEF RegisterSelect, RevokeSession, RefreshSelect, CleanupUpdate, UpdateSelect,
             DeleteSelect, PublishSong, PublishHistory, RegisterPeer, DownloadSelect,
             DownloadInsert, Commit, Write
    <3>2. [c EXCEPT !.pc = pc].pc = pc
      BY DEF CallType
    <3> QED BY <1>6, <3>1, <3>2 DEF Shows
  <2> QED BY <2>1, <2>2, <2>3, <2>4, <2>5, <2>6 DEF TaskStep
<1>10. \A u \in Users : NameMove(h, u)
  BY <1>5 DEF NameMove
<1> QED BY <1>2, <1>4, <1>7, <1>8, <1>9, <1>10 DEF NameStep, Shows, Updates

LEMMA NameSteps ==
  ASSUME Typed, NamersKnow, NEW h \in Tasks, ClientCall(h) \/ CleanupWakes(h) \/ TaskStep(h),
         ~Answer(h)
  PROVE  NameStep(h)
<1>1. CASE ClientCall(h) \/ CleanupWakes(h)
  <2>1. /\ UNCHANGED <<mem, overlap>> /\ task[h] = NoCall
        /\ task'[h].pc \in {"select", "verify", "admit", "sessions"}
    BY <1>1 DEF ClientCall, CleanupWakes, CallRegister, CallLogin, CallRefresh,
       CallAdmitted, Start, history, Typed, TypeOK
  <2> QED BY <2>1 DEF NameStep, NameMove, Shows
<1> QED BY <1>1, NameWrites, NameUpdates, NameRest

LEMMA NamesStep ==
  ASSUME Typed, NamesInv, [Next]_vars
  PROVE  NamesInv'
<1>1. Calls /\ GoodInv /\ NamersKnow /\ NamesInMem /\ NamesOnDisk
  BY DEF Typed, TypeOK, Calls, NamesInv
<1>2. ASSUME NEW h \in Tasks, ClientCall(h) \/ CleanupWakes(h) \/ TaskStep(h), ~Answer(h)
      PROVE  NamesInv'
  <2>1. Goes(h) /\ DbStep /\ NameStep(h)
    BY <1>1, <1>2, Steps, NameSteps DEF Step
  <2>2. \A k \in Tasks \ {h} : task'[k] = task[k]
    BY <1>1, <2>1, Others
  <2>3. ASSUME NEW k \in Tasks, task'[k] # NoCall, Shows(task'[k])
        PROVE  task'[k].user \in overlap' \/ mem'.name[task'[k].user] \in {NoName, task'[k].name}
    <3>1. CASE k = h
      BY <2>1, <2>3, <3>1 DEF NameStep
    <3>2. CASE k # h
      <4>1. task[k] = task'[k] /\ task[k] # NoCall /\ Shows(task[k])
        BY <2>2, <2>3, <3>2
      <4>2. PICK v \in Users : v = task[k].user /\ v \in drawn
        BY <4>1, Known DEF Shows, Resolved
      <4>3. v \in overlap \/ mem.name[v] \in {NoName, task[k].name}
        BY <1>1, <4>1, <4>2 DEF NamersKnow
      <4>4. mem.name[v] = NoName => mem'.name[v] = NoName
        BY <2>1, <4>2 DEF DbStep, Keeps
      <4>5. NameMove(h, v) /\ overlap \subseteq overlap'
        BY <2>1 DEF NameStep
      <4>6. v \in overlap' \/ mem'.name[v] \in {NoName, task[k].name}
        BY <3>2, <4>1, <4>2, <4>3, <4>4, <4>5 DEF NameMove
      <4> QED BY <4>1, <4>2, <4>6
    <3> QED BY <3>1, <3>2
  <2>4. ASSUME NEW u \in Users
        PROVE  Agrees(mem', u) \/ u \in overlap' \/ UpdatedAt(u, {"profiles"})'
    <3>1. NameMove(h, u) /\ overlap \subseteq overlap'
      BY <2>1 DEF NameStep
    <3>2. CASE mem'.name[u] = NoName \/ (u \notin drawn /\ mem'.shown[u] = NoProfile)
      BY <3>2 DEF Agrees
    <3>3. CASE mem'.name[u] = mem.name[u] /\ mem'.shown[u] \in {NoProfile, NoDisplay, mem.shown[u]}
      <4>1. CASE Agrees(mem, u)
        BY <3>3, <4>1 DEF Agrees
      <4>2. CASE UpdatedAt(u, {"profiles"})
        <5>1. PICK k \in Tasks : task[k] # NoCall /\ Updates(task[k], u, {"profiles"})
          BY <4>2 DEF UpdatedAt
        <5>2. CASE k = h
          BY <2>1, <3>1, <5>1, <5>2 DEF NameStep
        <5>3. CASE k # h
          BY <2>2, <5>1, <5>3 DEF UpdatedAt
        <5> QED BY <5>2, <5>3
      <4> QED BY <1>1, <3>1, <4>1, <4>2 DEF NamesInMem
    <3>4. CASE /\ Shows(task[h]) /\ task[h].user = u
               /\ mem'.name[u] = mem.name[u] /\ mem'.shown[u] = task[h].name
      <4>1. task[h] # NoCall => u \in overlap \/ mem.name[u] \in {NoName, task[h].name}
        BY <1>1, <3>4 DEF NamersKnow
      <4>2. task[h] # NoCall \/ UNCHANGED mem
        BY <1>2 DEF ClientCall, CleanupWakes, CallRegister, CallLogin, CallRefresh,
           CallAdmitted, Start, TaskStep, Admit, VerifySession, RegisterSelect, RegisterUser,
           RegisterProfile, LoginSelect, OpenSession, RevokeSession, RefreshSelect,
           CleanupUpdate, UpdateSelect, UpdateUser, UpdateProfile, UpdateBio, DeleteSelect,
           DeleteRows, PublishSong, PublishHistory, RegisterPeer, DownloadSelect,
           DownloadInsert, Commit, Log, At
      <4> QED BY <3>1, <3>3, <3>4, <4>1, <4>2 DEF Agrees
    <3>5. CASE task'[h] # NoCall /\ Updates(task'[h], u, {"profiles"})
      BY <3>5 DEF UpdatedAt
    <3> QED BY <3>1, <3>2, <3>3, <3>4, <3>5 DEF NameMove
  <2>5. ASSUME NEW u \in Users
        PROVE  \/ Agrees(disk', u) \/ u \in overlap' \/ mem'.name[u] = NoName
               \/ UpdatedAt(u, {"profiles", "bio", "commit"})'
    <3>1. CASE disk' = mem'
      BY <2>4, <3>1 DEF UpdatedAt, Updates
    <3>2. CASE disk' = disk /\ disk' # mem'
      <4>1. overlap \subseteq overlap'
        BY <2>1 DEF NameStep
      <4>2. CASE UpdatedAt(u, {"profiles", "bio", "commit"})
        <5>1. PICK k \in Tasks :
                task[k] # NoCall /\ Updates(task[k], u, {"profiles", "bio", "commit"})
          BY <4>2 DEF UpdatedAt
        <5>2. CASE k = h
          BY <2>1, <3>2, <5>1, <5>2 DEF NameStep, UpdatedAt
        <5>3. CASE k # h
          BY <2>2, <5>1, <5>3 DEF UpdatedAt
        <5> QED BY <5>2, <5>3
      <4>3. CASE mem.name[u] = NoName
        <5>1. CASE u \in drawn
          BY <2>1, <4>3, <5>1 DEF DbStep, Keeps
        <5>2. CASE u \notin drawn
          BY <1>1, <3>2, <5>2 DEF GoodInv, Good, Agrees
        <5> QED BY <5>1, <5>2
      <4> QED BY <1>1, <3>2, <4>1, <4>2, <4>3 DEF NamesOnDisk, Agrees
    <3> QED BY <2>1, <3>1, <3>2 DEF DbStep
  <2> QED BY <2>3, <2>4, <2>5 DEF NamesInv, NamersKnow, NamesInMem, NamesOnDisk
<1>3. ASSUME NEW h \in Tasks, Answer(h)
      PROVE  NamesInv'
  <2>1. /\ UNCHANGED <<mem, disk, overlap>> /\ task' = [task EXCEPT ![h] = NoCall]
        /\ task[h].pc = "answer"
    BY <1>3 DEF Answer, history
  <2>2. \A k \in Tasks : task'[k] # NoCall => task'[k] = task[k] /\ task[k] # NoCall
    BY <1>1, <2>1 DEF Calls
  <2>3. NamersKnow'
    BY <1>1, <2>1, <2>2 DEF NamersKnow
  <2>4. ASSUME NEW u \in Users, NEW points \in SUBSET {"profiles", "bio", "commit"},
               UpdatedAt(u, points)
        PROVE  UpdatedAt(u, points)'
    <3>1. PICK k \in Tasks : task[k] # NoCall /\ Updates(task[k], u, points)
      BY <2>4 DEF UpdatedAt
    <3>2. k # h
      BY <2>1, <3>1 DEF Updates
    <3>3. task'[k] = task[k]
      BY <1>1, <2>1, <3>2 DEF Calls
    <3> QED BY <3>1, <3>3 DEF UpdatedAt
  <2>5. \A u \in Users : /\ Agrees(mem', u) <=> Agrees(mem, u)
                         /\ Agrees(disk', u) <=> Agrees(disk, u)
    BY <2>1 DEF Agrees
  <2> QED BY <1>1, <2>1, <2>3, <2>4, <2>5 DEF NamesInv, NamesInMem, NamesOnDisk
<1>4. CASE OtherCommit
  <2>1. UNCHANGED <<mem, task, overlap>> /\ disk' = mem
    BY <1>4 DEF OtherCommit, history
  <2>2. NamersKnow' /\ NamesInMem'
    BY <1>1, <2>1 DEF NamersKnow, NamesInMem, UpdatedAt, Agrees
  <2>3. NamesOnDisk'
    BY <1>1, <2>1 DEF NamesInMem, NamesOnDisk, UpdatedAt, Updates, Agrees
  <2> QED BY <2>2, <2>3 DEF NamesInv
<1>5. CASE Restart
  <2>1. mem' = Synced(disk) /\ disk' = Synced(disk) /\ task' = [h \in Tasks |-> NoCall]
    BY <1>5 DEF Restart
  <2>2. \A u \in Users : Agrees(Synced(disk), u)
    BY <1>1, SyncedAgrees DEF GoodInv, Good
  <2> QED BY <2>1, <2>2 DEF NamesInv, NamersKnow, NamesInMem, NamesOnDisk
<1>6. CASE Expire \/ UNCHANGED vars
  <2>1. UNCHANGED <<mem, disk, task, overlap>>
    BY <1>6 DEF Expire, vars, history
  <2> QED BY <1>1, <2>1
          DEF NamesInv, NamersKnow, NamesInMem, NamesOnDisk, UpdatedAt, Agrees
<1> QED BY <1>2, <1>3, <1>4, <1>5, <1>6 DEF Next, Quiet

-----------------------------------------------------------------------------
(* The theorems.                                                           *)

LEMMA Start0 ==
  ASSUME Init
  PROVE  Inv
<1>1. AtStart \in Database /\ Sound(AtStart)
  OBVIOUS
<1>2. IsFiniteSet(Opened(AtStart)) /\ Cardinality(Opened(AtStart)) \in Nat
      /\ Opened(AtStart) \in SUBSET Sessions
  BY CountsSessions DEF Opened
<1>3. ASSUME NEW S \in SUBSET Sessions
      PROVE  Cardinality(S) <= MaxSessions
  <2>1. IsFiniteSet(Sessions) /\ Cardinality(Sessions) = MaxSessions
    BY FS_Interval DEF Sessions
  <2> QED BY <2>1, FS_Subset
<1>4. \A s \in Opened(AtStart) : s <= Cardinality(Opened(AtStart))
  <2> TAKE s \in Opened(AtStart)
  <2>1. s \in Nat /\ s >= 1
    BY DEF Opened, Sessions
  <2>2. IsFiniteSet(1 .. s) /\ Cardinality(1 .. s) = s
    BY <2>1, FS_Interval
  <2>3. 1 .. s \subseteq Opened(AtStart)
    OBVIOUS
  <2> QED BY <1>2, <2>2, <2>3, FS_Subset
<1>5. opened = Cardinality(Opened(AtStart)) /\ opened \in 0 .. MaxSessions
  BY <1>2, <1>3 DEF Init
<1>6. Good(AtStart, drawn, opened)
  <2>1. \A u, v \in Users :
          AtStart.name[u] = AtStart.name[v] /\ AtStart.name[u] # NoName => u = v
    OBVIOUS
  <2>2. \A u \in Users : AtStart.name[u] # NoName => u \in drawn
    BY DEF Init
  <2>3. \A s \in Sessions : AtStart.session[s].by # NoUser => s \in Opened(AtStart)
    BY DEF Opened
  <2>4. \A s \in Sessions : AtStart.session[s].live => AtStart.session[s].by # NoUser
    BY DEF Opened
  <2> QED BY <1>1, <1>4, <1>5, <2>1, <2>2, <2>3, <2>4 DEF Good
<1>7. mem = Synced(AtStart) /\ disk = Synced(AtStart)
  BY DEF Init
<1>8. /\ Good(mem, drawn, opened) /\ mem.name = AtStart.name /\ mem.session = AtStart.session
  BY <1>6, <1>7, SyncedIsGood
<1>9. Rest
  <2>1. \A s \in Sessions : AtStart.session[s].by \in Users \union {NoUser}
    BY <1>1 DEF Database
  <2> QED BY <1>5, <2>1 DEF Init, Rest, Opened
<1>10. Typed
  BY <1>7, <1>8, <1>9 DEF Init, Typed, TypeOK, Rest, CallsInv, GoodInv, Good
<1>11. Told(mem)
  <2>1. \A s \in left : s <= opened /\ ~mem.session[s].live
    BY <1>4, <1>5, <1>8 DEF Init, Opened
  <2>2. \A u \in registered : mem.name[u] # NoName
    BY <1>8 DEF Init
  <2>3. \A s \in Sessions : held[s] = mem.session[s].by
    BY <1>8 DEF Init
  <2>4. \A s \in Sessions : held[s] # NoUser => s <= opened
    BY <1>8, <2>3 DEF Good
  <2> QED BY <2>1, <2>2, <2>3, <2>4 DEF Init, Told
<1> QED BY <1>7, <1>10, <1>11 DEF Init, Inv, EffectInv, ToldInv, LateInv

LEMMA InvAlways == Spec => []Inv
<1>1. Inv /\ [Next]_vars => Inv'
  BY TypeStep, ToldEffectStep, LateStep DEF Inv
<1> QED BY Start0, <1>1, PTL DEF Spec

\* Every variable keeps its type.
THEOREM TypeCorrect == Spec => []TypeOK
<1>1. Inv => TypeOK
  BY DEF Inv, Typed
<1> QED BY <1>1, InvAlways, PTL

\* An account or session a client was told of is on disk, whatever crashes and
\* whoever else's transaction is half done, until its deletion begins.
THEOREM AnswersAreKept == Spec => []AnswerKept
<1>1. Inv => AnswerKept
  BY DEF Inv, ToldInv, Told, AnswerKept
<1> QED BY <1>1, InvAlways, PTL

\* A session that was logged out of never lets anyone in again.
THEOREM LogoutStaysFinal == Spec => []LogoutIsFinal
<1>1. Inv => LogoutIsFinal
  BY DEF Inv, ToldInv, Told, LogoutIsFinal, Valid, Admits
<1> QED BY <1>1, InvAlways, PTL

\* Nothing of a deleted account is left in a table with a foreign key to it, and
\* nothing comes back there.
THEOREM DeletedStaysGone == Spec => []DeletedIsGone
<1>1. Inv => DeletedIsGone
  <2> SUFFICES ASSUME Inv, NEW u \in gone, NEW db \in {mem, disk}
               PROVE  db.name[u] = NoName /\ ~UsesUser(db, u)
    BY DEF DeletedIsGone
  <2>1. u \in Users
    BY DEF Inv, Typed, TypeOK
  <2>2. db.name[u] = NoName
    BY DEF Inv, ToldInv, Told
  <2>3. Sound(db)
    BY DEF Inv, Typed, GoodInv, Good
  <2> QED BY <2>1, <2>2, <2>3 DEF Sound
<1> QED BY <1>1, InvAlways, PTL

\* A name belongs to one account.
THEOREM NamesStayUnique == Spec => []NamesAreUnique
<1>1. Inv => NamesAreUnique
  BY DEF Inv, Typed, GoodInv, Good, NamesAreUnique
<1> QED BY <1>1, InvAlways, PTL

\* A name belongs to one account, and what a profile shows is the name of its
\* account, in memory and on disk, once no update of it is under way, and unless
\* it was renamed while another call named it.
THEOREM NamesStayInStep == Spec => []NamesAgree
<1>1. Init => NamesInv
  <2> SUFFICES ASSUME Init PROVE NamesInv
    OBVIOUS
  <2>1. \A u \in Users : Agrees(Synced(AtStart), u)
    BY SyncedAgrees
  <2> QED BY <2>1 DEF Init, NamesInv, NamersKnow, NamesInMem, NamesOnDisk
<1>2. Inv /\ NamesInv /\ [Next]_vars => NamesInv'
  BY NamesStep DEF Inv
<1>3. NamesInv => NamesInStep
  BY DEF NamesInv, NamesInMem, NamesOnDisk, NamesInStep, UpdatedAt, Updates, Updating, Agrees
<1> QED BY <1>1, <1>2, <1>3, InvAlways, NamesStayUnique, PTL DEF Spec, NamesAgree

\* A deletion fails only because another call gave the user a row meanwhile.
THEOREM DeletionOrderIsRight == Spec => DeletionRaisesOnlyLate
<1>1. ASSUME Inv, [Next]_vars, NEW h \in Tasks, task[h] # NoCall, task[h].op = "delete",
             task[h].pc \in Tables, task'[h] # NoCall, ~task'[h].ok
      PROVE  task[h].user \in late
  <2>1. Calls /\ Typed /\ LateInv
    BY <1>1 DEF Inv, Typed, TypeOK, Calls
  <2>2. task[h].ok
    BY <1>1, <2>1 DEF Calls, CallsInv, WellFormed, Tables
  <2>3. PICK k \in Tasks : ClientCall(k) \/ CleanupWakes(k) \/ TaskStep(k)
    <3>1. ~Restart
      BY <1>1 DEF Restart
    <3>2. task' # task
      BY <1>1, <2>2
    <3> QED BY <1>1, <3>1, <3>2 DEF Next, OtherCommit, Expire, Quiet, vars
  <2>4. ~Answer(k)
    BY <1>1, <2>1, <2>2 DEF Answer, Calls
  <2>5. k = h
    BY <1>1, <2>1, <2>2, <2>3, <2>4, Steps, Others DEF Step
  <2>6. DeleteRows(h)
    BY <1>1, <2>3, <2>4, <2>5
       DEF ClientCall, CleanupWakes, CallRegister, CallLogin, CallRefresh, CallAdmitted, Start,
           TaskStep, Admit, VerifySession, RegisterSelect, RegisterUser, RegisterProfile,
           LoginSelect, OpenSession, RevokeSession, RefreshSelect, CleanupUpdate, UpdateSelect,
           UpdateUser, UpdateProfile, UpdateBio, DeleteSelect, PublishSong, PublishHistory,
           RegisterPeer, DownloadSelect, DownloadInsert, Commit, Log, At, Tables
  <2>7. ~MayDelete(task[h].pc, task[h].user)
    BY <1>1, <2>1, <2>2, <2>6 DEF DeleteRows, Write, GoTo, Calls, CallType
  <2>8. PICK u \in Users : u = task[h].user
    BY <1>1, <2>1, Known DEF Resolved, Tables
  <2>9. task[h].user \in late \/ Emptied(mem, task[h].pc, u)
    BY <1>1, <2>1, <2>8 DEF LateInv
  <2>10. ~Emptied(mem, task[h].pc, u)
    <3>1. CASE task[h].pc = "music_metadata" /\ UsesSongs(mem, u)
      BY <3>1 DEF Emptied, UsesSongs
    <3>2. CASE task[h].pc = "users" /\ UsesUser(mem, u)
      BY <3>2 DEF Emptied, UsesUser
    <3> QED BY <2>7, <2>8, <3>1, <3>2 DEF MayDelete
  <2> QED BY <2>9, <2>10
<1>2. Inv /\ [Next]_vars =>
        \A h \in Tasks :
          /\ task[h] # NoCall /\ task[h].op = "delete" /\ task[h].pc \in Tables
          /\ task'[h] # NoCall /\ ~task'[h].ok
          => task[h].user \in late
  BY <1>1
<1>3. Inv /\ [Next]_vars =>
        [\A h \in Tasks :
          /\ task[h] # NoCall /\ task[h].op = "delete" /\ task[h].pc \in Tables
          /\ task'[h] # NoCall /\ ~task'[h].ok
          => task[h].user \in late]_vars
  BY <1>2
<1> QED BY <1>3, InvAlways, PTL DEF Spec, DeletionRaisesOnlyLate

=============================================================================
