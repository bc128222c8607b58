------------------------- MODULE NegotiationProofs -------------------------
(***************************************************************************)
(* Theorems about Negotiation, for any number of users, songs, requests,   *)
(* tokens, tasks, crashes and abandoned calls.                             *)
(***************************************************************************)
EXTENDS Negotiation, FiniteSetTheorems, TLAPS

USE NegotiationAssumption

(***************************************************************************)
(* A call keeps its type, and its other fields, when one field changes.    *)
(***************************************************************************)
LEMMA CallFields ==
  ASSUME NEW c \in CallType
  PROVE  /\ c.id \in 1 .. MaxCalls /\ c.op \in Operations /\ c.by \in Users
         /\ c.req \in Requests /\ c.status \in Reports
         /\ c.token \in Tokens \union {NoToken}
         /\ c.pc \in Points /\ c.ok \in BOOLEAN /\ c.waiting \in BOOLEAN
BY DEF CallType

LEMMA CallChanges ==
  ASSUME NEW c \in CallType
  PROVE  /\ \A p \in Points :
              /\ [c EXCEPT !.pc = p] \in CallType
              /\ [c EXCEPT !.pc = p, !.ok = FALSE] \in CallType
              /\ \A t \in Tokens : [c EXCEPT !.token = t, !.pc = p] \in CallType
         /\ [c EXCEPT !.waiting = FALSE] \in CallType
BY DEF CallType

LEMMA PointNames ==
  /\ {"select", "supersede", "insert", "mint", "mintCommit", "update", "commit",
      "log", "answer"} \subseteq Points
  /\ {"request", "approve", "reject", "report", "verify"} \subseteq Operations
  /\ {"none", "pending", "superseded", "approved", "rejected"} \subseteq Statuses
  /\ Reports \subseteq Statuses /\ "failed" \in Reports
BY DEF Points, Operations, Statuses, Reports

(***************************************************************************)
(* The statements write values of their column's type.                     *)
(***************************************************************************)
LEMMA Written ==
  ASSUME NEW db \in Database
  PROVE  /\ \A r \in Requests, s \in Statuses : [db EXCEPT !.status[r] = s] \in Database
         /\ \A f \in [Requests -> Statuses] : [db EXCEPT !.status = f] \in Database
         /\ \A r \in Requests, t \in Tokens \union {NoToken} :
              [db EXCEPT !.status[r] = "approved", !.tokenOf[r] = t] \in Database
         /\ \A t \in Tokens \union {NoToken}, x \in {"fresh", "used"} :
              [db EXCEPT !.token[t] = x] \in Database
BY PointNames DEF Database

LEMMA TypeInit == Init => TypeOK
BY DEF Init, TypeOK, Empty, Database, Statuses

LEMMA TypeStep == TypeOK /\ [Next]_vars => TypeOK'
<1> SUFFICES ASSUME TypeOK, [Next]_vars PROVE TypeOK'
  OBVIOUS
<1> USE DEF TypeOK, env, vars
<1>p. \A h \in Tasks : task[h] # NoCall => task[h] \in CallType
  OBVIOUS
<1>g. ASSUME NEW h \in Tasks, NEW p \in Points, task[h] # NoCall, GoTo(h, p)
      PROVE  task' \in [Tasks -> CallType \union {NoCall}]
  <2>1. [task[h] EXCEPT !.pc = p] \in CallType
    BY <1>g, <1>p, CallChanges
  <2>2. task' = [task EXCEPT ![h] = [task[h] EXCEPT !.pc = p]]
    BY <1>g DEF GoTo
  <2> QED BY <2>1, <2>2
<1>f. ASSUME NEW h \in Tasks, task[h] # NoCall, Refuse(h)
      PROVE  task' \in [Tasks -> CallType \union {NoCall}]
  <2>1. [task[h] EXCEPT !.pc = "answer", !.ok = FALSE] \in CallType
    BY <1>f, <1>p, CallChanges, PointNames
  <2>2. task' = [task EXCEPT ![h] = [task[h] EXCEPT !.pc = "answer", !.ok = FALSE]]
    BY <1>f DEF Refuse
  <2> QED BY <2>1, <2>2
<1>q. \A h \in Tasks : task[h] # NoCall => /\ task[h].req \in Requests
                                           /\ task[h].token \in Tokens \union {NoToken}
                                           /\ task[h].status \in Reports
  BY <1>p, CallFields
<1>1. ASSUME NEW h \in Tasks, NEW op \in Operations, NEW u \in Users, NEW r \in Requests,
             NEW s \in Reports, NEW t \in Tokens \union {NoToken}, NEW pc \in Points,
             Call(h, op, u, r, s, t, pc), drawn' \in SUBSET Requests
      PROVE  TypeOK'
  <2>1. calls + 1 \in 1 .. MaxCalls
    BY <1>1 DEF Call
  <2>2. [id |-> calls + 1, op |-> op, by |-> u, req |-> r, status |-> s, token |-> t,
         pc |-> pc, ok |-> TRUE, waiting |-> TRUE] \in CallType
    BY <2>1 DEF CallType
  <2> QED BY <1>1, <2>1, <2>2 DEF Call
<1>2. ASSUME NEW h \in Tasks, ClientCall(h) PROVE TypeOK'
  <2>1. ASSUME NEW r \in Requests, CallRequest(h, r) PROVE TypeOK'
    BY <2>1, <1>1, PointNames DEF CallRequest
  <2>2. ASSUME NEW r \in Requests, NEW op \in {"approve", "reject"}, CallDecision(h, op, r)
        PROVE  TypeOK'
    <3>1. Provider(r) \in Users
      BY DEF Provider
    <3> QED BY <2>2, <3>1, <1>1, PointNames DEF CallDecision
  <2>3. ASSUME NEW r \in Requests, NEW u \in Users, NEW s \in Reports, CallReport(h, u, r, s)
        PROVE  TypeOK'
    BY <2>3, <1>1, PointNames DEF CallReport
  <2>4. ASSUME NEW r \in Requests, NEW u \in Users, NEW t \in Tokens, CallVerify(h, u, r, t)
        PROVE  TypeOK'
    <3>1. Provider(r) \in Users
      BY DEF Provider
    <3> QED BY <2>4, <3>1, <1>1, PointNames DEF CallVerify
  <2>5. CASE Abandon(h)
    <3>1. [task[h] EXCEPT !.waiting = FALSE] \in CallType
      BY <2>5, <1>p, CallChanges DEF Abandon
    <3>2. task' = [task EXCEPT ![h] = [task[h] EXCEPT !.waiting = FALSE]]
      BY <2>5 DEF Abandon
    <3>3. timeouts' \in 0 .. MaxTimeouts
      BY <2>5 DEF Abandon
    <3> QED BY <2>5, <3>1, <3>2, <3>3 DEF Abandon
  <2> QED BY <1>2, <2>1, <2>2, <2>3, <2>4, <2>5 DEF ClientCall
<1>3. ASSUME NEW h \in Tasks, TaskStep(h) PROVE TypeOK'
  <2> USE PointNames
  <2>1. CASE RequestSelect(h)
    BY <2>1, <1>g, <1>f DEF RequestSelect, At
  <2>2. CASE RequestSupersede(h)
    <3>1. [q \in Requests |-> IF Rivals(q, task[h].req) /\ mem.status[q] = "pending"
                              THEN "superseded" ELSE mem.status[q]] \in [Requests -> Statuses]
      BY DEF Database
    <3> QED BY <2>2, <3>1, <1>g, Written DEF RequestSupersede, At
  <2>3. CASE RequestInsert(h)
    BY <2>3, <1>g, <1>q, Written DEF RequestInsert, At
  <2>4. CASE ApproveSelect(h)
    BY <2>4, <1>g, <1>f DEF ApproveSelect, At
  <2>5. CASE ApproveMint(h)
    <3> PICK t \in Tokens : /\ mem' = [mem EXCEPT !.token[t] = "fresh"]
                            /\ task' = [task EXCEPT ![h].token = t, ![h].pc = "mintCommit"]
      BY <2>5 DEF ApproveMint
    <3> QED BY <2>5, <1>p, CallChanges, Written DEF ApproveMint, At
  <2>6. CASE ApproveUpdate(h)
    BY <2>6, <1>g, <1>q, Written DEF ApproveUpdate, At
  <2>7. CASE RejectSelect(h)
    BY <2>7, <1>g, <1>f DEF RejectSelect, At
  <2>8. CASE RejectUpdate(h)
    BY <2>8, <1>g, <1>q, Written DEF RejectUpdate, SetStatus, At
  <2>9. CASE ReportUpdate(h)
    BY <2>9, <1>g, <1>q, Written DEF ReportUpdate, SetStatus, At
  <2>10. CASE VerifySelect(h)
    BY <2>10, <1>g, <1>f DEF VerifySelect, At
  <2>11. CASE VerifyUse(h)
    BY <2>11, <1>g, <1>q, Written DEF VerifyUse, At
  <2>12. CASE Commit(h)
    BY <2>12, <1>g DEF Commit
  <2>13. CASE Log(h)
    BY <2>13, <1>g DEF Log
  <2>14. CASE Answer(h)
    <3>1. [id |-> task[h].id, op |-> task[h].op, by |-> task[h].by, req |-> task[h].req,
           token |-> task[h].token, ok |-> task[h].ok] \in AnswerType
      BY <2>14, <1>p, CallFields DEF Answer, AnswerType
    <3> QED BY <2>14, <3>1 DEF Answer
  <2> QED BY <1>3, <2>1, <2>2, <2>3, <2>4, <2>5, <2>6, <2>7, <2>8, <2>9, <2>10, <2>11,
             <2>12, <2>13, <2>14 DEF TaskStep
<1>4. ASSUME NEW u \in Users, Poll(u) PROVE TypeOK'
  BY <1>4 DEF Poll
<1>5. CASE OtherCommit
  BY <1>5 DEF OtherCommit
<1>6. CASE Crash
  BY <1>6 DEF Crash
<1>7. CASE UNCHANGED vars
  BY <1>7
<1> QED BY <1>2, <1>3, <1>4, <1>5, <1>6, <1>7 DEF Next, Quiet

\* Every table, call and answer of the negotiation keeps its type.
THEOREM TypeCorrect == Spec => []TypeOK
<1>1. Init => TypeOK
  BY TypeInit
<1>2. TypeOK /\ [Next]_vars => TypeOK'
  BY TypeStep
<1> QED BY <1>1, <1>2, PTL DEF Spec

-----------------------------------------------------------------------------
(***************************************************************************)
(* What is true once stays true: rows do not disappear, a settled request  *)
(* is not pending again, a used token stays used.                          *)
(***************************************************************************)
Settled(db, r) == db.status[r] \notin {"none", "pending"}

Later(db, db2) ==
  /\ \A r \in Requests : /\ db.status[r] # "none" => db2.status[r] # "none"
                         /\ Settled(db, r) => Settled(db2, r)
  /\ \A t \in Tokens : /\ db.token[t] # "none" => db2.token[t] # "none"
                       /\ db.token[t] = "used" => db2.token[t] = "used"

\* The call (or the answer) a and its token are in the tables.
Kept(db, a) == Holds(db, a) /\ (a.op \in {"approve", "verify"} => a.token \in Tokens)

(***************************************************************************)
(* How far a call has come decides what it has read and written.           *)
(***************************************************************************)
Sound(c, m, d) ==
  /\ c.op = "request" /\ c.pc \in {"select", "supersede", "insert"} => m.status[c.req] = "none"
  /\ c.op \in {"approve", "reject"} /\ c.pc \in {"mint", "mintCommit", "update"} =>
       m.status[c.req] # "none"
  /\ c.op = "report" => m.status[c.req] # "none"
  /\ c.op = "approve" /\ c.pc \in {"mintCommit", "update"} =>
       c.token \in Tokens /\ m.token[c.token] # "none"
  /\ c.op = "verify" => c.token \in Tokens
  /\ c.pc = "mintCommit" => c.op = "approve"
  /\ c.pc = "commit" => Kept(m, c)
  /\ c.pc = "log" \/ (c.pc = "answer" /\ c.ok) => Kept(d, c)

(***************************************************************************)
(* A request_id is drawn once, so at most one call inserts its row.        *)
(***************************************************************************)
DrawnOnce ==
  /\ \A r \in Requests : r \notin drawn => mem.status[r] = "none"
  /\ \A h \in Tasks : task[h] # NoCall /\ task[h].op = "request" => task[h].req \in drawn
  /\ \A g, h \in Tasks :
       /\ task[g] # NoCall /\ task[g].op = "request"
       /\ task[h] # NoCall /\ task[h].op = "request"
       /\ task[g].req = task[h].req
       => g = h

TasksSound   == \A h \in Tasks : task[h] # NoCall => Sound(task[h], mem, disk)
AnswersKept  == \A a \in told : a.ok => Kept(disk, a)
MemAhead     == Later(disk, mem)

BookInv == TypeOK /\ DrawnOnce /\ TasksSound /\ AnswersKept /\ MemAhead

LEMMA LaterKeeps ==
  ASSUME NEW d1, NEW d2, NEW a, a.req \in Requests, Later(d1, d2), Kept(d1, a)
  PROVE  Kept(d2, a)
BY DEF Later, Kept, Holds, Settled

LEMMA LaterTransitive ==
  ASSUME NEW d1, NEW d2, NEW d3, Later(d1, d2), Later(d2, d3)
  PROVE  Later(d1, d3)
BY DEF Later

LEMMA LaterReflexive == \A db : Later(db, db)
BY DEF Later

(***************************************************************************)
(* Calls that do not move stay sound while the tables move on and their    *)
(* own row stays undrawn.                                                  *)
(***************************************************************************)
LEMMA StaysSound ==
  ASSUME NEW c, c.req \in Requests, NEW m1, NEW m2, NEW d1, NEW d2,
         Sound(c, m1, d1), Later(m1, m2), Later(d1, d2),
         c.op = "request" /\ c.pc \in {"select", "supersede", "insert"} =>
           m2.status[c.req] = "none"
  PROVE  Sound(c, m2, d2)
<1>1. Kept(m1, c) => Kept(m2, c)
  BY LaterKeeps
<1>2. Kept(d1, c) => Kept(d2, c)
  BY LaterKeeps
<1>3. /\ m1.status[c.req] # "none" => m2.status[c.req] # "none"
      /\ c.token \in Tokens /\ m1.token[c.token] # "none" => m2.token[c.token] # "none"
  BY DEF Later
<1> QED BY <1>1, <1>2, <1>3 DEF Sound

LEMMA CallOf ==
  ASSUME TypeOK, NEW h \in Tasks, task[h] # NoCall
  PROVE  /\ task[h] \in CallType /\ task[h].req \in Requests
         /\ task[h].token \in Tokens \union {NoToken}
BY CallFields DEF TypeOK

(***************************************************************************)
(* One call moves: the others stay sound, since only the call that drew a  *)
(* request_id inserts its row.                                             *)
(***************************************************************************)
LEMMA OneMoves ==
  ASSUME BookInv, TypeOK', NEW h \in Tasks, task[h] # NoCall,
         \A g \in Tasks : g # h => task'[g] = task[g],
         task'[h] # NoCall => /\ task'[h].op = task[h].op /\ task'[h].req = task[h].req
                              /\ Sound(task'[h], mem', disk'),
         Later(mem, mem'), Later(disk, disk'), Later(disk', mem'),
         \A r \in Requests : mem.status[r] = "none" /\ mem'.status[r] # "none" =>
                               task[h].op = "request" /\ task[h].req = r,
         drawn' = drawn,
         \A a \in told' : a.ok => a \in told \/ Kept(disk', a)
  PROVE  BookInv'
<1> USE DEF BookInv
<1>1. DrawnOnce'
  BY DEF DrawnOnce
<1>2. TasksSound'
  <2> SUFFICES ASSUME NEW g \in Tasks, task'[g] # NoCall PROVE Sound(task'[g], mem', disk')
    BY DEF TasksSound
  <2>1. CASE g = h
    BY <2>1
  <2>2. CASE g # h
    <3>1. task'[g] = task[g] /\ task[g] # NoCall /\ Sound(task[g], mem, disk)
      BY <2>2 DEF TasksSound
    <3>2. task[g].op = "request" /\ task[g].pc \in {"select", "supersede", "insert"} =>
            mem'.status[task[g].req] = "none"
      <4> SUFFICES ASSUME task[g].op = "request", task[g].pc \in {"select", "supersede", "insert"},
                          mem'.status[task[g].req] # "none"
                   PROVE  FALSE
        OBVIOUS
      <4>1. mem.status[task[g].req] = "none"
        BY <3>1 DEF Sound
      <4>2. task[g].req \in Requests
        BY <3>1, CallOf
      <4> QED BY <2>2, <3>1, <4>1, <4>2 DEF DrawnOnce
    <3>3. task[g].req \in Requests
      BY <3>1, CallOf
    <3> QED BY <3>1, <3>2, <3>3, StaysSound
  <2> QED BY <2>1, <2>2
<1>3. AnswersKept'
  <2> SUFFICES ASSUME NEW a \in told', a.ok PROVE Kept(disk', a)
    BY DEF AnswersKept
  <2>1. a \in told => a.req \in Requests
    BY DEF TypeOK, AnswerType
  <2> QED BY <2>1, LaterKeeps DEF AnswersKept
<1> QED BY <1>1, <1>2, <1>3 DEF MemAhead

LEMMA NoneMoves ==
  ASSUME BookInv, TypeOK', UNCHANGED <<task, mem, told, drawn>>, disk' \in {disk, mem}
  PROVE  BookInv'
<1> USE DEF BookInv
<1>1. Later(mem, mem') /\ Later(disk, disk') /\ Later(disk', mem')
  BY LaterReflexive DEF MemAhead
<1>2. DrawnOnce'
  BY DEF DrawnOnce
<1>3. TasksSound'
  <2> SUFFICES ASSUME NEW g \in Tasks, task[g] # NoCall PROVE Sound(task[g], mem, disk')
    BY DEF TasksSound
  <2>1. Sound(task[g], mem, disk) /\ task[g].req \in Requests
    BY CallOf DEF TasksSound
  <2> QED BY <1>1, <2>1, StaysSound, LaterReflexive DEF Sound
<1>4. AnswersKept'
  <2> SUFFICES ASSUME NEW a \in told, a.ok PROVE Kept(disk', a)
    BY DEF AnswersKept
  <2>1. a.req \in Requests
    BY DEF TypeOK, AnswerType
  <2> QED BY <1>1, <2>1, LaterKeeps DEF AnswersKept
<1> QED BY <1>1, <1>2, <1>3, <1>4 DEF MemAhead

LEMMA TokenWritten ==
  ASSUME NEW db \in Database, NEW t \in Tokens, NEW x \in {"fresh", "used"},
         x = "fresh" => db.token[t] = "none",
         NEW db2, db2 = [db EXCEPT !.token[t] = x]
  PROVE  /\ Later(db, db2) /\ db2.token[t] = x /\ db2.status = db.status
BY DEF Later, Settled, Database

(***************************************************************************)
(* What the statements of a task leave behind.                             *)
(***************************************************************************)
LEMMA TaskKeeps ==
  ASSUME BookInv, TypeOK', NEW h \in Tasks, TaskStep(h)
  PROVE  BookInv'
<1> USE DEF BookInv, env
<1>c. task[h] # NoCall => /\ task[h] \in CallType /\ task[h].req \in Requests
                          /\ Sound(task[h], mem, disk)
  BY CallOf DEF TasksSound
<1>d. mem \in Database /\ disk \in Database /\ task \in [Tasks -> CallType \union {NoCall}]
  BY DEF TypeOK
<1>r. Later(mem, mem) /\ Later(disk, disk) /\ Later(disk, mem)
  BY LaterReflexive DEF MemAhead
<1>1. ASSUME NEW p \in Points, task[h] # NoCall, GoTo(h, p), UNCHANGED <<drawn, told>>,
             Later(mem, mem'), disk' \in {disk, mem},
             \A r \in Requests : mem.status[r] = "none" /\ mem'.status[r] # "none" =>
                                   task[h].op = "request" /\ task[h].req = r,
             Sound([task[h] EXCEPT !.pc = p], mem', disk')
      PROVE  BookInv'
  <2>1. task' = [task EXCEPT ![h] = [task[h] EXCEPT !.pc = p]]
    BY <1>1 DEF GoTo
  <2>2. /\ [task[h] EXCEPT !.pc = p].op = task[h].op
        /\ [task[h] EXCEPT !.pc = p].req = task[h].req
    BY <1>1, <1>c DEF CallType
  <2>3. Later(disk, disk') /\ Later(disk', mem')
    BY <1>1, <1>r, LaterTransitive
  <2>4. task'[h] = [task[h] EXCEPT !.pc = p] /\ \A g \in Tasks : g # h => task'[g] = task[g]
    BY <2>1, <1>d
  <2> QED BY <1>1, <2>2, <2>3, <2>4, OneMoves
<1>2. ASSUME task[h] # NoCall, task[h].pc = "select", Refuse(h), UNCHANGED <<mem, disk, drawn, told>>
      PROVE  BookInv'
  <2>1. task' = [task EXCEPT ![h] = [task[h] EXCEPT !.pc = "answer", !.ok = FALSE]]
    BY <1>2 DEF Refuse
  <2> DEFINE c == [task[h] EXCEPT !.pc = "answer", !.ok = FALSE]
  <2>2. c.op = task[h].op /\ c.req = task[h].req /\ c.token = task[h].token
        /\ c.pc = "answer" /\ c.ok = FALSE
    BY <1>2, <1>c DEF CallType
  <2>3. Sound(c, mem', disk')
    BY <1>2, <1>c, <2>2 DEF Sound
  <2>4. task'[h] = c /\ \A g \in Tasks : g # h => task'[g] = task[g]
    BY <2>1, <1>d
  <2>5. Later(mem, mem') /\ Later(disk, disk') /\ Later(disk', mem')
    BY <1>2, <1>r
  <2> HIDE DEF c
  <2> QED BY <1>2, <2>2, <2>3, <2>4, <2>5, OneMoves
<1>f. ASSUME NEW p \in Points, task[h] # NoCall
      PROVE  /\ [task[h] EXCEPT !.pc = p].op = task[h].op
             /\ [task[h] EXCEPT !.pc = p].req = task[h].req
             /\ [task[h] EXCEPT !.pc = p].token = task[h].token
             /\ [task[h] EXCEPT !.pc = p].ok = task[h].ok
             /\ [task[h] EXCEPT !.pc = p].pc = p
  BY <1>f, <1>c DEF CallType
<1> USE PointNames
<1>3. CASE RequestSelect(h)
  <2>1. CASE Refuse(h)
    BY <2>1, <1>3, <1>2 DEF RequestSelect, At
  <2>2. CASE GoTo(h, "supersede")
    <3>1. Sound([task[h] EXCEPT !.pc = "supersede"], mem, disk)
      BY <1>3, <1>c, <1>f DEF RequestSelect, At, Sound
    <3> QED BY <2>2, <3>1, <1>3, <1>1, <1>r DEF RequestSelect, At
  <2> QED BY <1>3, <2>1, <2>2 DEF RequestSelect
<1>4. CASE RequestSupersede(h)
  <2>1. mem'.status = [q \in Requests |-> IF Rivals(q, task[h].req) /\ mem.status[q] = "pending"
                                          THEN "superseded" ELSE mem.status[q]]
        /\ mem'.token = mem.token
    BY <1>4, <1>d DEF RequestSupersede, Database
  <2>2. Later(mem, mem') /\ \A r \in Requests : mem.status[r] = "none" => mem'.status[r] = "none"
    BY <2>1 DEF Later, Settled
  <2>3. Sound([task[h] EXCEPT !.pc = "insert"], mem', disk)
    BY <1>4, <1>c, <1>f, <2>2 DEF RequestSupersede, At, Sound
  <2> QED BY <2>2, <2>3, <1>4, <1>1 DEF RequestSupersede, At
<1>5. CASE RequestInsert(h)
  <2>1. task[h] # NoCall /\ task[h].op = "request" /\ mem.status[task[h].req] = "none"
    BY <1>5, <1>c DEF RequestInsert, At, Sound
  <2>2. /\ mem'.status = [mem.status EXCEPT ![task[h].req] = "pending"]
        /\ mem'.token = mem.token
    BY <1>5, <1>d DEF RequestInsert, Database
  <2>3. Later(mem, mem') /\ mem'.status[task[h].req] = "pending"
    BY <2>1, <2>2, <1>c, <1>d DEF Later, Settled, Database
  <2>4. Sound([task[h] EXCEPT !.pc = "commit"], mem', disk)
    BY <2>1, <2>3, <1>f DEF Sound, Kept, Holds
  <2>5. \A r \in Requests : mem.status[r] = "none" /\ mem'.status[r] # "none" =>
                              task[h].op = "request" /\ task[h].req = r
    BY <2>1, <2>2, <1>d DEF Database
  <2> QED BY <2>1, <2>3, <2>4, <2>5, <1>5, <1>1 DEF RequestInsert
<1>6. CASE ApproveSelect(h)
  <2>1. CASE Refuse(h)
    BY <2>1, <1>6, <1>2 DEF ApproveSelect, At
  <2>2. CASE GoTo(h, "mint") /\ IsPending(h)
    <3>1. Sound([task[h] EXCEPT !.pc = "mint"], mem, disk)
      BY <2>2, <1>6, <1>c, <1>f DEF ApproveSelect, At, Sound, IsPending
    <3> QED BY <2>2, <3>1, <1>6, <1>1, <1>r DEF ApproveSelect, At
  <2> QED BY <1>6, <2>1, <2>2 DEF ApproveSelect
<1>7. CASE ApproveMint(h)
  <2> PICK t \in Tokens : /\ mem.token[t] = "none"
                          /\ mem' = [mem EXCEPT !.token[t] = "fresh"]
                          /\ task' = [task EXCEPT ![h].token = t, ![h].pc = "mintCommit"]
    BY <1>7 DEF ApproveMint
  <2>1. task[h] # NoCall /\ task[h].op = "approve" /\ task[h].pc = "mint" /\ UNCHANGED <<disk, env>>
    BY <1>7 DEF ApproveMint, At
  <2> DEFINE c == [task[h] EXCEPT !.token = t, !.pc = "mintCommit"]
  <2>2. c.op = task[h].op /\ c.req = task[h].req /\ c.token = t /\ c.pc = "mintCommit"
    BY <2>1, <1>c DEF CallType
  <2>3. task'[h] = c /\ \A g \in Tasks : g # h => task'[g] = task[g]
    BY <1>d
  <2>4. Later(mem, mem') /\ mem'.token[t] = "fresh" /\ mem'.status = mem.status
    BY <1>d, TokenWritten
  <2>5. Sound(c, mem', disk')
    BY <2>1, <2>2, <2>4, <1>c DEF Sound
  <2>6. Later(disk, disk') /\ Later(disk', mem')
    BY <2>1, <2>4, <1>r, LaterTransitive
  <2> HIDE DEF c
  <2> QED BY <2>1, <2>2, <2>3, <2>4, <2>5, <2>6, OneMoves
<1>8. CASE ApproveUpdate(h)
  <2>1. /\ task[h] # NoCall /\ task[h].op = "approve" /\ mem.status[task[h].req] # "none"
        /\ task[h].token \in Tokens /\ mem.token[task[h].token] # "none"
    BY <1>8, <1>c DEF ApproveUpdate, At, Sound
  <2>2. /\ mem'.status = [mem.status EXCEPT ![task[h].req] = "approved"]
        /\ mem'.token = mem.token
    BY <1>8, <1>d DEF ApproveUpdate, Database
  <2>3. Later(mem, mem') /\ mem'.status[task[h].req] = "approved"
        /\ \A r \in Requests : mem.status[r] = "none" => mem'.status[r] = "none"
    BY <2>1, <2>2, <1>c, <1>d DEF Later, Settled, Database
  <2>4. Sound([task[h] EXCEPT !.pc = "commit"], mem', disk)
    BY <2>1, <2>2, <2>3, <1>f DEF Sound, Kept, Holds
  <2> QED BY <2>1, <2>3, <2>4, <1>8, <1>1 DEF ApproveUpdate
<1>9. CASE RejectSelect(h)
  <2>1. CASE Refuse(h)
    BY <2>1, <1>9, <1>2 DEF RejectSelect, At
  <2>2. CASE GoTo(h, "update") /\ IsPending(h)
    <3>1. Sound([task[h] EXCEPT !.pc = "update"], mem, disk)
      BY <2>2, <1>9, <1>c, <1>f DEF RejectSelect, At, Sound, IsPending
    <3> QED BY <2>2, <3>1, <1>9, <1>1, <1>r DEF RejectSelect, At
  <2> QED BY <1>9, <2>1, <2>2 DEF RejectSelect
<1>10. ASSUME NEW s, s \notin {"none", "pending"}, task[h] # NoCall,
              task[h].op \in {"reject", "report"}, task[h].pc = "update",
              SetStatus(task[h].req, s), GoTo(h, "commit"), UNCHANGED <<disk, env>>
       PROVE  BookInv'
  <2>1. mem.status[task[h].req] # "none"
    BY <1>10, <1>c DEF Sound
  <2>2. /\ Later(mem, mem') /\ mem'.status[task[h].req] = s
        /\ \A q \in Requests : mem.status[q] = "none" => mem'.status[q] = "none"
    <3>1. /\ mem'.status = [mem.status EXCEPT ![task[h].req] = s]
          /\ mem'.token = mem.token
      BY <1>10, <1>d DEF SetStatus, Database
    <3> QED BY <2>1, <3>1, <1>10, <1>c, <1>d DEF Later, Settled, Database
  <2>3. Sound([task[h] EXCEPT !.pc = "commit"], mem', disk)
    BY <2>2, <1>10, <1>f DEF Sound, Kept, Holds
  <2> QED BY <2>2, <2>3, <1>10, <1>1
<1>11. CASE RejectUpdate(h)
  BY <1>11, <1>10 DEF RejectUpdate, At
<1>12. CASE ReportUpdate(h)
  <2>1. task[h] # NoCall /\ task[h].status \in Reports
    BY <1>12, <1>c DEF ReportUpdate, At, CallType
  <2> QED BY <2>1, <1>12, <1>10 DEF ReportUpdate, At, Reports
<1>13. CASE VerifySelect(h)
  <2>1. CASE Refuse(h)
    BY <2>1, <1>13, <1>2 DEF VerifySelect, At
  <2>2. CASE GoTo(h, "update")
    <3>1. Sound([task[h] EXCEPT !.pc = "update"], mem, disk)
      BY <1>13, <1>c, <1>f DEF VerifySelect, At, Sound
    <3> QED BY <2>2, <3>1, <1>13, <1>1, <1>r DEF VerifySelect, At
  <2> QED BY <1>13, <2>1, <2>2 DEF VerifySelect
<1>14. CASE VerifyUse(h)
  <2>1. task[h] # NoCall /\ task[h].op = "verify" /\ task[h].token \in Tokens
    BY <1>14, <1>c DEF VerifyUse, At, Sound
  <2>2. Later(mem, mem') /\ mem'.token[task[h].token] = "used" /\ mem'.status = mem.status
    <3>1. /\ mem'.token = [mem.token EXCEPT ![task[h].token] = "used"]
          /\ mem'.status = mem.status
      BY <1>14, <1>d DEF VerifyUse, Database
    <3> QED BY <2>1, <3>1, <1>d DEF Later, Settled, Database
  <2>3. Sound([task[h] EXCEPT !.pc = "commit"], mem', disk)
    BY <2>1, <2>2, <1>f DEF Sound, Kept, Holds
  <2> QED BY <2>1, <2>2, <2>3, <1>14, <1>1 DEF VerifyUse
<1>15. CASE Commit(h)
  <2>1. CASE task[h].pc = "mintCommit" /\ GoTo(h, "update")
    <3>1. Sound([task[h] EXCEPT !.pc = "update"], mem, mem)
      BY <2>1, <1>15, <1>c, <1>f DEF Commit, Sound
    <3> QED BY <2>1, <3>1, <1>15, <1>1, <1>r DEF Commit
  <2>2. CASE task[h].pc = "commit"
    <3>1. PICK p \in {"answer", "log"} : GoTo(h, p)
      BY <2>2, <1>15 DEF Commit
    <3>2. Kept(mem, task[h])
      BY <2>2, <1>15, <1>c DEF Commit, Sound
    <3>3. Kept(mem, [task[h] EXCEPT !.pc = p])
      BY <3>2, <1>15, <1>f DEF Commit, Kept, Holds
    <3>4. Sound([task[h] EXCEPT !.pc = p], mem, mem)
      BY <2>2, <3>3, <1>15, <1>c, <1>f DEF Commit, Sound
    <3> QED BY <3>1, <3>4, <1>15, <1>1, <1>r DEF Commit
  <2> QED BY <1>15, <2>1, <2>2 DEF Commit
<1>16. CASE Log(h)
  <2>1. task[h] # NoCall /\ Kept(disk, task[h])
    BY <1>16, <1>c DEF Log, Sound
  <2>2. Kept(mem, [task[h] EXCEPT !.pc = "answer"])
    <3>1. Kept(mem, task[h])
      BY <2>1, <1>c, <1>r, LaterKeeps
    <3> QED BY <2>1, <3>1, <1>f DEF Kept, Holds
  <2>3. Sound([task[h] EXCEPT !.pc = "answer"], mem, mem)
    BY <2>1, <2>2, <1>16, <1>c, <1>f DEF Log, Sound
  <2> QED BY <2>1, <2>3, <1>16, <1>1, <1>r DEF Log
<1>17. CASE Answer(h)
  <2>1. task[h] # NoCall /\ (task[h].ok => Kept(disk, task[h])) /\ UNCHANGED <<mem, disk, drawn>>
    BY <1>17, <1>c DEF Answer, Sound
  <2>2. task'[h] = NoCall /\ \A g \in Tasks : g # h => task'[g] = task[g]
    BY <1>17, <1>d DEF Answer
  <2>3. \A a \in told' : a.ok => a \in told \/ Kept(disk', a)
    BY <1>17, <2>1 DEF Answer, Kept, Holds
  <2>4. Later(mem, mem') /\ Later(disk, disk') /\ Later(disk', mem')
    BY <2>1, <1>r
  <2> QED BY <2>1, <2>2, <2>3, <2>4, OneMoves
<1> QED BY <1>3, <1>4, <1>5, <1>6, <1>7, <1>8, <1>9, <1>11, <1>12, <1>13, <1>14, <1>15,
           <1>16, <1>17 DEF TaskStep

(***************************************************************************)
(* A new call starts where nothing has been read or written.               *)
(***************************************************************************)
LEMMA CallKeeps ==
  ASSUME BookInv, TypeOK', NEW h \in Tasks, ClientCall(h)
  PROVE  BookInv'
<1> USE DEF BookInv
<1>d. task \in [Tasks -> CallType \union {NoCall}]
  BY DEF TypeOK
<1>1. ASSUME NEW op, NEW u, NEW r \in Requests, NEW s, NEW t, NEW pc,
             Call(h, op, u, r, s, t, pc), drawn \subseteq drawn',
             op = "request" => r \in drawn' /\ r \notin drawn,
             op # "request" => UNCHANGED drawn,
             <<op, pc>> \in {<<"request", "select">>, <<"approve", "select">>,
                             <<"reject", "select">>, <<"report", "update">>,
                             <<"verify", "select">>},
             op = "report" => mem.status[r] # "none",
             op = "verify" => t \in Tokens
      PROVE  BookInv'
  <2> DEFINE c == [id |-> calls + 1, op |-> op, by |-> u, req |-> r, status |-> s,
                   token |-> t, pc |-> pc, ok |-> TRUE, waiting |-> TRUE]
  <2>1. /\ UNCHANGED <<mem, disk, told>> /\ task[h] = NoCall /\ task'[h] = c
        /\ \A g \in Tasks : g # h => task'[g] = task[g]
    BY <1>1, <1>d DEF Call
  <2>2. c.op = op /\ c.req = r /\ c.token = t /\ c.pc = pc
    OBVIOUS
  <2> HIDE DEF c
  <2>3. op = "request" => mem.status[r] = "none"
    BY <1>1 DEF DrawnOnce
  <2>4. Sound(c, mem, disk)
    BY <1>1, <2>2, <2>3 DEF Sound
  <2>5. TasksSound'
    BY <2>1, <2>4 DEF TasksSound
  <2>6. DrawnOnce'
    <3>1. \A q \in Requests : q \notin drawn' => mem'.status[q] = "none"
      BY <1>1, <2>1 DEF DrawnOnce
    <3>2. \A g \in Tasks : task'[g] # NoCall /\ task'[g].op = "request" => task'[g].req \in drawn'
      BY <1>1, <2>1, <2>2 DEF DrawnOnce
    <3>3. \A g \in Tasks : /\ g # h /\ task'[g] # NoCall /\ task'[g].op = "request"
                           /\ c.op = "request"
                           => task'[g].req # c.req
      BY <1>1, <2>1, <2>2 DEF DrawnOnce
    <3>4. \A f, g \in Tasks :
            /\ f # h /\ task'[f] # NoCall /\ task'[f].op = "request"
            /\ g # h /\ task'[g] # NoCall /\ task'[g].op = "request"
            /\ task'[f].req = task'[g].req
            => f = g
      BY <2>1 DEF DrawnOnce
    <3> QED BY <2>1, <3>1, <3>2, <3>3, <3>4 DEF DrawnOnce
  <2> QED BY <2>1, <2>5, <2>6 DEF AnswersKept, MemAhead
<1>t. \A op \in {"request", "approve"}, r \in Requests :
        WasTold(op, r) => mem.status[r] # "none"
  <2> SUFFICES ASSUME NEW op \in {"request", "approve"}, NEW r \in Requests,
                      NEW a \in told, a.op = op, a.req = r, a.ok
               PROVE  mem.status[r] # "none"
    BY DEF WasTold
  <2>1. Kept(mem, a)
    BY LaterKeeps DEF AnswersKept, MemAhead
  <2> QED BY <2>1 DEF Kept, Holds
<1>2. ASSUME NEW r \in Requests, CallRequest(h, r) PROVE BookInv'
  BY <1>2, <1>1 DEF CallRequest
<1>3. ASSUME NEW r \in Requests, NEW op \in {"approve", "reject"}, CallDecision(h, op, r)
      PROVE  BookInv'
  BY <1>3, <1>1 DEF CallDecision
<1>4. ASSUME NEW r \in Requests, NEW u \in Users, NEW s \in Reports, CallReport(h, u, r, s)
      PROVE  BookInv'
  <2>1. mem.status[r] # "none"
    BY <1>4, <1>t DEF CallReport
  <2> QED BY <2>1, <1>4, <1>1 DEF CallReport
<1>5. ASSUME NEW r \in Requests, NEW u \in Users, NEW t \in Tokens, CallVerify(h, u, r, t)
      PROVE  BookInv'
  BY <1>5, <1>1 DEF CallVerify
<1>6. CASE Abandon(h)
  <2> DEFINE c == [task[h] EXCEPT !.waiting = FALSE]
  <2>1. task[h] # NoCall /\ Sound(task[h], mem, disk) /\ task[h] \in CallType
    BY <1>6, CallOf DEF Abandon, TasksSound
  <2>2. c.op = task[h].op /\ c.req = task[h].req /\ c.token = task[h].token
        /\ c.pc = task[h].pc /\ c.ok = task[h].ok
    BY <2>1 DEF CallType
  <2>3. /\ task'[h] = c /\ \A g \in Tasks : g # h => task'[g] = task[g]
        /\ UNCHANGED <<mem, disk, told, drawn>>
    BY <1>6, <1>d DEF Abandon
  <2> HIDE DEF c
  <2>4. Sound(c, mem, disk)
    BY <2>1, <2>2 DEF Sound, Kept, Holds
  <2>5. Later(mem, mem') /\ Later(disk, disk') /\ Later(disk', mem')
    BY <2>3, LaterReflexive DEF MemAhead
  <2> QED BY <2>1, <2>2, <2>3, <2>4, <2>5, OneMoves
<1> QED BY <1>2, <1>3, <1>4, <1>5, <1>6 DEF ClientCall

LEMMA BookInit == Init => BookInv
<1> SUFFICES ASSUME Init PROVE BookInv
  OBVIOUS
<1> QED BY TypeInit DEF Init, Empty, BookInv, DrawnOnce, TasksSound, AnswersKept, MemAhead, Later, Settled

LEMMA BookStep == BookInv /\ [Next]_vars => BookInv'
<1> SUFFICES ASSUME BookInv, [Next]_vars PROVE BookInv'
  OBVIOUS
<1>t. TypeOK'
  BY TypeStep DEF BookInv
<1>1. ASSUME NEW h \in Tasks, TaskStep(h) PROVE BookInv'
  BY <1>1, <1>t, TaskKeeps
<1>2. ASSUME NEW h \in Tasks, ClientCall(h) PROVE BookInv'
  BY <1>2, <1>t, CallKeeps
<1>3. ASSUME NEW u \in Users, Poll(u) PROVE BookInv'
  BY <1>3, <1>t, NoneMoves DEF Poll
<1>4. CASE OtherCommit
  BY <1>4, <1>t, NoneMoves DEF OtherCommit, env
\* After a crash nobody is at work, and the tables are the committed ones.
<1>5. CASE Crash
  <2>1. /\ mem' = disk /\ disk' = disk /\ UNCHANGED <<drawn, told>>
        /\ \A h \in Tasks : task'[h] = NoCall
    BY <1>5 DEF Crash
  <2>2. \A r \in Requests : r \notin drawn => disk.status[r] = "none"
    BY DEF BookInv, DrawnOnce, MemAhead, Later
  <2> QED BY <2>1, <2>2, <1>t, LaterReflexive
          DEF BookInv, DrawnOnce, TasksSound, AnswersKept, MemAhead
<1>6. CASE UNCHANGED vars
  BY <1>6, <1>t, NoneMoves DEF vars
<1> QED BY <1>1, <1>2, <1>3, <1>4, <1>5, <1>6 DEF Next, Quiet

\* What a client has been told survives the server, for any number of clients,
\* overlapping calls, crashes and foreign commits.
THEOREM AnswersSurvive == Spec => []AnswerDurable
<1>1. BookInv => AnswerDurable
  BY DEF BookInv, AnswersKept, AnswerDurable, Kept
<1> QED BY <1>1, BookInit, BookStep, PTL DEF Spec

\* A request that was settled on disk is never pending again, whatever
\* statements of other calls come in between.
THEOREM SettledForGood == Spec => NeverPendingAgain
<1>1. BookInv /\ [Next]_vars =>
        [\A r \in Requests :
           disk.status[r] \notin {"none", "pending"} => disk'.status[r] \notin {"none", "pending"}]_vars
  <2> SUFFICES ASSUME BookInv, Next
               PROVE  disk' \in {disk, mem}
    BY DEF BookInv, MemAhead, Later, Settled
  <2>1. ASSUME NEW h \in Tasks, TaskStep(h) PROVE disk' \in {disk, mem}
    BY <2>1 DEF TaskStep, env, RequestSelect, RequestSupersede, RequestInsert, ApproveSelect,
                ApproveMint, ApproveUpdate, RejectSelect, RejectUpdate, ReportUpdate,
                VerifySelect, VerifyUse, Commit, Log, Answer
  <2>2. ASSUME NEW h \in Tasks, ClientCall(h) PROVE disk' = disk
    BY <2>2 DEF ClientCall, CallRequest, CallDecision, CallReport, CallVerify, Call, Abandon
  <2> QED BY <2>1, <2>2 DEF Next, Poll, OtherCommit, Crash, Quiet, vars, env
<1> QED BY <1>1, BookInit, BookStep, PTL DEF Spec, NeverPendingAgain

-----------------------------------------------------------------------------
(***************************************************************************)
(* Clients that wait: with CallsAtOnce = 1 and no abandoned call, each     *)
(* client has one task at a time.  A call is past its check from the step  *)
(* that has read the table on.                                             *)
(***************************************************************************)
Past(c, writes) ==
  c.pc \in writes \union {"commit", "log"} \/ (c.pc = "answer" /\ c.ok)

Deciding(c)  == c.op \in {"approve", "reject"} /\ Past(c, {"mint", "mintCommit", "update"})
Holding(c)   == c.op = "approve" /\ Past(c, {"mintCommit", "update"})
Redeeming(c) == c.op = "verify" /\ Past(c, {"update"})

\* What a step of task h does, as far as the checks are concerned.
Effect(h) ==
  /\ task[h] # NoCall
  /\ \A g \in Tasks : g # h => task'[g] = task[g]
  /\ task'[h] # NoCall =>
       /\ task'[h].op = task[h].op /\ task'[h].req = task[h].req
       /\ task'[h].by = task[h].by /\ task'[h].waiting = task[h].waiting
       /\ Deciding(task'[h]) => Deciding(task[h]) \/ mem.status[task[h].req] = "pending"
       /\ Holding(task'[h]) => \/ Holding(task[h]) /\ task'[h].token = task[h].token
                               \/ /\ task'[h].token \in Tokens
                                  /\ mem.token[task'[h].token] = "none"
       /\ task[h].op = "verify" => task'[h].token = task[h].token
       /\ Redeeming(task'[h]) => Redeeming(task[h]) \/ mem.token[task[h].token] = "fresh"
       /\ task[h].op = "request" /\ task'[h].pc = "insert" =>
            \A q \in Requests : Rivals(q, task[h].req) => mem'.status[q] # "pending"
  /\ \/ told' = told
     \/ /\ task'[h] = NoCall /\ task[h].pc = "answer"
        /\ told' = told \union {[id |-> task[h].id, op |-> task[h].op, by |-> task[h].by,
                                 req |-> task[h].req, token |-> task[h].token,
                                 ok |-> task[h].ok]}
  /\ \A q \in Requests : mem'.status[q] = "pending" =>
       \/ mem.status[q] = "pending"
       \/ q = task[h].req /\ task[h].op = "request" /\ task[h].pc = "insert"
  /\ disk' = disk \/ (disk' = mem /\ mem' = mem)

LEMMA TaskEffect ==
  ASSUME TypeOK, TasksSound, NEW h \in Tasks, TaskStep(h)
  PROVE  Effect(h)
<1> USE DEF env
<1>c. task[h] # NoCall => /\ task[h] \in CallType /\ task[h].req \in Requests
                          /\ Sound(task[h], mem, disk)
  BY CallOf DEF TasksSound
<1>d. mem \in Database /\ disk \in Database /\ task \in [Tasks -> CallType \union {NoCall}]
  BY DEF TypeOK
<1>1. ASSUME NEW p \in Points, task[h] # NoCall, GoTo(h, p)
      PROVE  /\ \A g \in Tasks : g # h => task'[g] = task[g]
             /\ task'[h].op = task[h].op /\ task'[h].req = task[h].req
             /\ task'[h].by = task[h].by /\ task'[h].waiting = task[h].waiting
             /\ task'[h].token = task[h].token /\ task'[h].ok = task[h].ok
             /\ task'[h].pc = p
  <2>1. task' = [task EXCEPT ![h] = [task[h] EXCEPT !.pc = p]]
    BY <1>1 DEF GoTo
  <2>2. task'[h] = [task[h] EXCEPT !.pc = p]
    BY <2>1, <1>d
  <2> QED BY <2>1, <2>2, <1>1, <1>c, <1>d DEF CallType
<1>2. ASSUME task[h] # NoCall, Refuse(h), UNCHANGED <<mem, disk, told>> PROVE Effect(h)
  <2>1. task' = [task EXCEPT ![h] = [task[h] EXCEPT !.pc = "answer", !.ok = FALSE]]
    BY <1>2 DEF Refuse
  <2>2. task'[h] = [task[h] EXCEPT !.pc = "answer", !.ok = FALSE]
    BY <2>1, <1>d
  <2>3. /\ \A g \in Tasks : g # h => task'[g] = task[g]
        /\ task'[h].op = task[h].op /\ task'[h].req = task[h].req
        /\ task'[h].by = task[h].by /\ task'[h].waiting = task[h].waiting
        /\ task'[h].token = task[h].token /\ task'[h].ok = FALSE
        /\ task'[h].pc = "answer"
    BY <2>1, <2>2, <1>2, <1>c, <1>d DEF CallType
  <2> QED BY <2>3, <1>2 DEF Effect, Past, Deciding, Holding, Redeeming
<1> USE PointNames
<1>3. CASE RequestSelect(h)
  <2>1. CASE GoTo(h, "supersede")
    BY <2>1, <1>3, <1>1 DEF RequestSelect, At, Effect, Deciding, Holding, Redeeming
  <2> QED BY <2>1, <1>2, <1>3 DEF RequestSelect, At
<1>4. CASE RequestSupersede(h)
  <2>1. mem'.status = [q \in Requests |-> IF Rivals(q, task[h].req) /\ mem.status[q] = "pending"
                                          THEN "superseded" ELSE mem.status[q]]
    BY <1>4, <1>d DEF RequestSupersede, Database
  <2>2. \A q \in Requests : /\ Rivals(q, task[h].req) => mem'.status[q] # "pending"
                            /\ mem'.status[q] = "pending" => mem.status[q] = "pending"
    BY <2>1
  <2> QED BY <2>2, <1>4, <1>1 DEF RequestSupersede, At, Effect, Deciding, Holding, Redeeming
<1>5. CASE RequestInsert(h)
  <2>1. mem'.status = [mem.status EXCEPT ![task[h].req] = "pending"]
    BY <1>5, <1>d DEF RequestInsert, Database
  <2>2. \A q \in Requests : mem'.status[q] = "pending" => mem.status[q] = "pending" \/ q = task[h].req
    BY <2>1, <1>d DEF Database
  <2> QED BY <2>2, <1>5, <1>1 DEF RequestInsert, At, Effect, Deciding, Holding, Redeeming
<1>6. CASE ApproveSelect(h)
  <2>1. CASE GoTo(h, "mint") /\ IsPending(h)
    BY <2>1, <1>6, <1>1 DEF ApproveSelect, At, Effect, Past, Deciding, Holding, Redeeming, IsPending
  <2> QED BY <2>1, <1>2, <1>6 DEF ApproveSelect, At
<1>7. CASE ApproveMint(h)
  <2> PICK t \in Tokens : /\ mem.token[t] = "none"
                          /\ mem' = [mem EXCEPT !.token[t] = "fresh"]
                          /\ task' = [task EXCEPT ![h].token = t, ![h].pc = "mintCommit"]
    BY <1>7 DEF ApproveMint
  <2>1. task[h] # NoCall /\ task[h].op = "approve" /\ task[h].pc = "mint" /\ UNCHANGED <<disk, told>>
    BY <1>7 DEF ApproveMint, At
  <2>2. /\ task'[h] = [task[h] EXCEPT !.token = t, !.pc = "mintCommit"]
        /\ \A g \in Tasks : g # h => task'[g] = task[g]
    BY <1>d
  <2>3. /\ task'[h].op = task[h].op /\ task'[h].req = task[h].req
        /\ task'[h].by = task[h].by /\ task'[h].waiting = task[h].waiting
        /\ task'[h].token = t /\ task'[h].pc = "mintCommit"
    <3> DEFINE c == [task[h] EXCEPT !.token = t, !.pc = "mintCommit"]
    <3>1. c.op = task[h].op /\ c.req = task[h].req /\ c.by = task[h].by
          /\ c.waiting = task[h].waiting /\ c.token = t /\ c.pc = "mintCommit"
      BY <2>1, <1>c DEF CallType
    <3> HIDE DEF c
    <3> QED BY <2>2, <3>1 DEF c
  <2>4. mem'.status = mem.status
    BY <1>d DEF Database
  <2> QED BY <2>1, <2>2, <2>3, <2>4 DEF Effect, Past, Deciding, Holding, Redeeming
<1>8. CASE ApproveUpdate(h)
  <2>1. mem'.status = [mem.status EXCEPT ![task[h].req] = "approved"]
    BY <1>8, <1>d DEF ApproveUpdate, Database
  <2>2. \A q \in Requests : mem'.status[q] = "pending" => mem.status[q] = "pending"
    BY <2>1, <1>d DEF Database
  <2> QED BY <2>2, <1>8, <1>1 DEF ApproveUpdate, At, Effect, Past, Deciding, Holding, Redeeming
<1>9. CASE RejectSelect(h)
  <2>1. CASE GoTo(h, "update") /\ IsPending(h)
    BY <2>1, <1>9, <1>1 DEF RejectSelect, At, Effect, Past, Deciding, Holding, Redeeming, IsPending
  <2> QED BY <2>1, <1>2, <1>9 DEF RejectSelect, At
<1>10. ASSUME NEW s, s # "pending", SetStatus(task[h].req, s), task[h] # NoCall
       PROVE  \A q \in Requests : mem'.status[q] = "pending" => mem.status[q] = "pending"
  <2>1. mem'.status = [mem.status EXCEPT ![task[h].req] = s]
    BY <1>10, <1>d DEF SetStatus, Database
  <2> QED BY <2>1, <1>10, <1>d DEF Database
<1>11. CASE RejectUpdate(h)
  BY <1>11, <1>10, <1>1 DEF RejectUpdate, At, Effect, Past, Deciding, Holding, Redeeming
<1>12. CASE ReportUpdate(h)
  <2>1. task[h].status # "pending"
    BY <1>12, <1>c DEF ReportUpdate, At, CallType, Reports
  <2> QED BY <2>1, <1>12, <1>10, <1>1 DEF ReportUpdate, At, Effect, Deciding, Holding, Redeeming
<1>13. CASE VerifySelect(h)
  <2>1. CASE GoTo(h, "update") /\ mem.token[task[h].token] = "fresh"
    BY <2>1, <1>13, <1>1 DEF VerifySelect, At, Effect, Past, Deciding, Holding, Redeeming
  <2> QED BY <2>1, <1>2, <1>13 DEF VerifySelect, At
<1>14. CASE VerifyUse(h)
  <2>1. mem'.status = mem.status
    BY <1>14, <1>d DEF VerifyUse, Database
  <2> QED BY <2>1, <1>14, <1>1 DEF VerifyUse, At, Effect, Past, Deciding, Holding, Redeeming
<1>15. CASE Commit(h)
  <2>1. PICK p \in {"update", "answer", "log"} : GoTo(h, p)
    BY <1>15 DEF Commit
  <2>2. /\ task[h] # NoCall /\ task[h].pc \in {"mintCommit", "commit"}
        /\ disk' = mem /\ UNCHANGED <<mem, told>>
        /\ task[h].pc = "mintCommit" => task[h].op = "approve"
    BY <1>15, <1>c DEF Commit, Sound
  <2>3. /\ \A g \in Tasks : g # h => task'[g] = task[g]
        /\ task'[h].op = task[h].op /\ task'[h].req = task[h].req
        /\ task'[h].by = task[h].by /\ task'[h].waiting = task[h].waiting
        /\ task'[h].token = task[h].token /\ task'[h].pc # "insert"
    BY <2>1, <2>2, <1>1
  <2>4. Deciding(task[h]) \/ task[h].op \notin {"approve", "reject"}
    BY <2>2 DEF Deciding, Past
  <2>5. Holding(task[h]) \/ task[h].op # "approve"
    BY <2>2 DEF Holding, Past
  <2>6. Redeeming(task[h]) \/ task[h].op # "verify"
    BY <2>2 DEF Redeeming, Past
  <2>7. /\ Deciding(task'[h]) => Deciding(task[h])
        /\ Holding(task'[h]) => Holding(task[h])
        /\ Redeeming(task'[h]) => Redeeming(task[h])
    BY <2>3, <2>4, <2>5, <2>6 DEF Deciding, Holding, Redeeming
  <2> QED BY <2>2, <2>3, <2>7 DEF Effect
<1>16. CASE Log(h)
  BY <1>16, <1>1 DEF Log, Effect, Past, Deciding, Holding, Redeeming
<1>17. CASE Answer(h)
  BY <1>17, <1>d DEF Answer, Effect
<1> QED BY <1>3, <1>4, <1>5, <1>6, <1>7, <1>8, <1>9, <1>11, <1>12, <1>13, <1>14, <1>15,
           <1>16, <1>17 DEF TaskStep

(***************************************************************************)
(* Each client has one task, and waits for it.                             *)
(***************************************************************************)
Caller(c) ==
  /\ c.op = "request" => c.by = RequesterOf[c.req]
  /\ c.op \in {"approve", "reject"} => c.by = Provider(c.req)

Alone ==
  /\ \A h \in Tasks : task[h] # NoCall => task[h].waiting /\ Caller(task[h])
  /\ \A g, h \in Tasks :
       task[g] # NoCall /\ task[h] # NoCall /\ task[g].by = task[h].by => g = h

(***************************************************************************)
(* A call that has passed its check has no answered rival.                 *)
(***************************************************************************)
DecidedOnce ==
  /\ \A h \in Tasks : task[h] # NoCall /\ Deciding(task[h]) => Decisions(task[h].req) = {}
  /\ \A r \in Requests : \A a, b \in Decisions(r) : a = b

NoRivals(db) ==
  \A q, r \in Requests :
    db.status[q] = "pending" /\ db.status[r] = "pending" /\ Rivals(q, r) => q = r

PendingOnce ==
  /\ \A h \in Tasks : task[h] # NoCall /\ task[h].op = "request" /\ task[h].pc = "insert" =>
       \A q \in Requests : Rivals(q, task[h].req) => mem.status[q] # "pending"
  /\ NoRivals(mem) /\ NoRivals(disk)

Approvals(t) == {a \in told : a.op = "approve" /\ a.ok /\ a.token = t}

TokensApart ==
  /\ \A g, h \in Tasks :
       /\ task[g] # NoCall /\ Holding(task[g]) /\ task[h] # NoCall /\ Holding(task[h])
       /\ task[g].token = task[h].token
       => g = h
  /\ \A h \in Tasks : task[h] # NoCall /\ Holding(task[h]) => Approvals(task[h].token) = {}
  /\ \A t \in Tokens : \A a, b \in Approvals(t) : a.req = b.req

RedeemedOnce ==
  /\ \A h \in Tasks : task[h] # NoCall /\ Redeeming(task[h]) =>
       \A a \in Redemptions(task[h].token) : a.by # task[h].by
  /\ \A t \in Tokens : \A a, b \in Redemptions(t) : a.by = b.by => a = b

PoliteInv == BookInv /\ Alone /\ DecidedOnce /\ PendingOnce /\ TokensApart /\ RedeemedOnce

Polite == CallsAtOnce = 1 /\ MaxTimeouts = 0

LEMMA AnswerFields ==
  ASSUME TypeOK, NEW a \in told
  PROVE  a.req \in Requests /\ a.token \in Tokens \union {NoToken}
BY DEF TypeOK, AnswerType

\* What has been answered shows in the tables.
LEMMA AnswersShow ==
  ASSUME BookInv
  PROVE  /\ \A r \in Requests : Decisions(r) # {} => mem.status[r] \notin {"none", "pending"}
         /\ \A t \in Tokens : Approvals(t) # {} => mem.token[t] # "none"
         /\ \A t \in Tokens : Redemptions(t) # {} => mem.token[t] = "used"
         /\ \A a \in told : a.ok /\ a.op \in {"approve", "verify"} => a.token \in Tokens
<1>1. ASSUME NEW a \in told, a.ok PROVE Kept(mem, a)
  BY <1>1, AnswerFields, LaterKeeps DEF BookInv, AnswersKept, MemAhead
<1>2. ASSUME NEW r \in Requests, NEW a \in Decisions(r)
      PROVE  mem.status[r] \notin {"none", "pending"}
  BY <1>1, <1>2 DEF Decisions, Kept, Holds
<1>3. ASSUME NEW t \in Tokens, NEW a \in Approvals(t) PROVE mem.token[t] # "none"
  BY <1>1, <1>3 DEF Approvals, Kept, Holds
<1>4. ASSUME NEW t \in Tokens, NEW a \in Redemptions(t) PROVE mem.token[t] = "used"
  BY <1>1, <1>4 DEF Redemptions, Kept, Holds
<1> QED BY <1>1, <1>2, <1>3, <1>4 DEF Kept

\* What a call that holds a token has written shows in the tables, too.
LEMMA HoldersShow ==
  ASSUME BookInv, NEW h \in Tasks, task[h] # NoCall, Holding(task[h])
  PROVE  task[h].token \in Tokens /\ mem.token[task[h].token] # "none"
<1>1. Sound(task[h], mem, disk) /\ task[h] \in CallType /\ task[h].req \in Requests
  BY CallOf DEF BookInv, TasksSound
<1>3. /\ task[h].op = "approve"
      /\ task[h].pc \in {"mintCommit", "update", "commit", "log", "answer"}
      /\ task[h].pc = "answer" => task[h].ok
  BY DEF Holding, Past
<1>4. CASE task[h].pc \in {"mintCommit", "update"}
  BY <1>1, <1>3, <1>4 DEF Sound
<1>5. CASE task[h].pc = "commit"
  BY <1>1, <1>3, <1>5 DEF Sound, Kept, Holds
<1>6. CASE task[h].pc \in {"log", "answer"}
  <2>1. Kept(disk, task[h])
    BY <1>1, <1>3, <1>6 DEF Sound
  <2>2. Kept(mem, task[h])
    BY <2>1, <1>1, LaterKeeps DEF BookInv, MemAhead
  <2>3. task[h].op = "approve"
    BY <1>3
  <2> QED BY <2>2, <2>3 DEF Kept, Holds
<1> QED BY <1>3, <1>4, <1>5, <1>6

LEMMA PoliteTask ==
  ASSUME PoliteInv, NEW h \in Tasks, TaskStep(h)
  PROVE  Alone' /\ DecidedOnce' /\ PendingOnce' /\ TokensApart' /\ RedeemedOnce'
<1> USE DEF PoliteInv
<1>e. Effect(h)
  BY TaskEffect DEF BookInv
<1>q. \A g \in Tasks : task[g] # NoCall => task[g].req \in Requests
  BY CallOf DEF BookInv
<1>v. \A g \in Tasks : task[g] # NoCall /\ task[g].op = "verify" => task[g].token \in Tokens
  BY DEF BookInv, TasksSound, Sound
<1>o. \A g \in Tasks : g # h => task'[g] = task[g]
  BY <1>e DEF Effect
<1>t. told \subseteq told' /\ (task'[h] # NoCall => told' = told)
  BY <1>e DEF Effect
\* Only the answer of h is new.
<1>n. /\ \A a \in told' : a \notin told =>
           /\ a.op = task[h].op /\ a.req = task[h].req /\ a.token = task[h].token
           /\ a.by = task[h].by /\ a.ok = task[h].ok
           /\ task[h].pc = "answer" /\ task[h] # NoCall
      /\ \A a, b \in told' : a \notin told /\ b \notin told => a = b
  BY <1>e DEF Effect
\* Two tasks of one client are one.
<1>s. \A g \in Tasks : task[g] # NoCall /\ task[g].by = task[h].by => g = h
  BY <1>e DEF Alone, Effect
<1>1. Alone'
  BY <1>e, <1>o DEF Alone, Caller, Effect
<1>2. DecidedOnce'
  <2>1. ASSUME NEW g \in Tasks, task'[g] # NoCall, Deciding(task'[g]),
               NEW a \in told', a.ok, a.op \in {"approve", "reject"}, a.req = task'[g].req
        PROVE  FALSE
    <3>1. CASE g = h
      <4>1. a \in Decisions(task[h].req)
        BY <2>1, <3>1, <1>t, <1>e DEF Effect, Decisions
      <4>2. Deciding(task[h]) \/ mem.status[task[h].req] = "pending"
        BY <2>1, <3>1, <1>e DEF Effect
      <4> QED BY <4>1, <4>2, <1>e, <1>q, AnswersShow DEF DecidedOnce, Effect
    <3>2. CASE g # h
      <4>1. task[g] # NoCall /\ Deciding(task[g]) /\ a.req = task[g].req
        BY <2>1, <3>2, <1>o
      <4>2. a \notin told
        BY <2>1, <4>1 DEF DecidedOnce, Decisions
      <4>3. task[g].by = Provider(task[g].req) /\ task[h].by = Provider(task[h].req)
        BY <2>1, <4>1, <4>2, <1>n DEF Alone, Caller, Deciding
      <4> QED BY <2>1, <3>2, <4>1, <4>2, <4>3, <1>n, <1>s
    <3> QED BY <3>1, <3>2
  <2>2. ASSUME NEW r \in Requests, NEW a \in told', NEW b \in told', a # b,
               a.ok, b.ok, a.op \in {"approve", "reject"}, b.op \in {"approve", "reject"},
               a.req = r, b.req = r, b \notin told
        PROVE  FALSE
    <3>1. a \in Decisions(r)
      BY <2>2, <1>n DEF Decisions
    <3>2. Deciding(task[h]) /\ task[h].req = r /\ task[h] # NoCall
      BY <2>2, <1>n DEF Deciding, Past
    <3> QED BY <3>1, <3>2 DEF DecidedOnce
  <2>3. ASSUME NEW r \in Requests, NEW a \in told, NEW b \in told, a # b,
               a.ok, b.ok, a.op \in {"approve", "reject"}, b.op \in {"approve", "reject"},
               a.req = r, b.req = r
        PROVE  FALSE
    BY <2>3 DEF DecidedOnce, Decisions
  <2> QED BY <2>1, <2>2, <2>3 DEF DecidedOnce, Decisions
<1>3. PendingOnce'
  <2>1. ASSUME NEW g \in Tasks, task'[g] # NoCall, task'[g].op = "request", task'[g].pc = "insert",
               NEW q \in Requests, Rivals(q, task'[g].req), mem'.status[q] = "pending"
        PROVE  FALSE
    <3>1. CASE g = h
      BY <2>1, <3>1, <1>e DEF Effect
    <3>2. CASE g # h
      <4>1. /\ task[g] # NoCall /\ task[g].op = "request" /\ task[g].pc = "insert"
            /\ Rivals(q, task[g].req)
        BY <2>1, <3>2, <1>o
      <4>2. mem.status[q] # "pending"
        BY <4>1 DEF PendingOnce
      <4>3. q = task[h].req /\ task[h].op = "request" /\ task[h] # NoCall
        BY <2>1, <4>2, <1>e DEF Effect
      <4>4. task[g].by = RequesterOf[task[g].req] /\ task[h].by = RequesterOf[task[h].req]
        BY <4>1, <4>3 DEF Alone, Caller
      <4> QED BY <3>2, <4>1, <4>3, <4>4, <1>s DEF Rivals
    <3> QED BY <3>1, <3>2
  <2>2. ASSUME NEW q \in Requests, NEW r \in Requests, mem'.status[q] = "pending",
               mem'.status[r] = "pending", Rivals(q, r), q # r,
               mem.status[r] # "pending"
        PROVE  FALSE
    <3>1. r = task[h].req /\ task[h].op = "request" /\ task[h].pc = "insert" /\ task[h] # NoCall
      BY <2>2, <1>e DEF Effect
    <3>2. mem.status[q] # "pending"
      BY <2>2, <3>1 DEF PendingOnce
    <3> QED BY <2>2, <3>1, <3>2, <1>e DEF Effect
  <2>3. NoRivals(mem')
    <3>1. \A q, r \in Requests : Rivals(q, r) => Rivals(r, q)
      BY DEF Rivals
    <3> QED BY <2>2, <3>1 DEF PendingOnce, NoRivals
  <2>4. NoRivals(disk')
    BY <1>e DEF Effect, PendingOnce
  <2> QED BY <2>1, <2>3, <2>4 DEF PendingOnce
<1>4. TokensApart'
  <2>1. ASSUME NEW g \in Tasks, g # h, task[g] # NoCall, Holding(task[g]),
               task'[h] # NoCall, Holding(task'[h]), task'[h].token = task[g].token
        PROVE  FALSE
    <3>1. CASE Holding(task[h]) /\ task'[h].token = task[h].token
      BY <2>1, <3>1, <1>e DEF TokensApart, Effect
    <3>2. CASE mem.token[task'[h].token] = "none"
      BY <2>1, <3>2, HoldersShow
    <3> QED BY <2>1, <3>1, <3>2, <1>e DEF Effect
  <2>2. ASSUME NEW g \in Tasks, task'[g] # NoCall, Holding(task'[g]),
               NEW a \in told', a.op = "approve", a.ok, a.token = task'[g].token
        PROVE  FALSE
    <3>1. CASE g = h
      <4>1. a \in told /\ a \in Approvals(task'[h].token)
        BY <2>2, <3>1, <1>t DEF Approvals
      <4>2. CASE Holding(task[h]) /\ task'[h].token = task[h].token
        BY <4>1, <4>2, <1>e DEF TokensApart, Effect
      <4>3. CASE task'[h].token \in Tokens /\ mem.token[task'[h].token] = "none"
        BY <4>1, <4>3, AnswersShow
      <4> QED BY <2>2, <3>1, <4>2, <4>3, <1>e DEF Effect
    <3>2. CASE g # h
      <4>1. task[g] # NoCall /\ Holding(task[g]) /\ a.token = task[g].token
        BY <2>2, <3>2, <1>o
      <4>2. a \notin told
        BY <2>2, <4>1 DEF TokensApart, Approvals
      <4>3. task[h] # NoCall /\ Holding(task[h]) /\ task[h].token = task[g].token
        BY <2>2, <4>1, <4>2, <1>n DEF Holding, Past
      <4> QED BY <3>2, <4>1, <4>3 DEF TokensApart
    <3> QED BY <3>1, <3>2
  <2>3. ASSUME NEW t \in Tokens, NEW a \in told', NEW b \in told', a.op = "approve", a.ok,
               b.op = "approve", b.ok, a.token = t, b.token = t, b \notin told
        PROVE  a.req = b.req
    <3>1. Holding(task[h]) /\ task[h].token = t /\ task[h] # NoCall
      BY <2>3, <1>n DEF Holding, Past
    <3>2. a \notin told
      BY <2>3, <3>1 DEF TokensApart, Approvals
    <3> QED BY <2>3, <3>2, <1>n
  <2>4. \A f, g \in Tasks :
          /\ task'[f] # NoCall /\ Holding(task'[f]) /\ task'[g] # NoCall /\ Holding(task'[g])
          /\ task'[f].token = task'[g].token
          => f = g
    <3>1. \A f, g \in Tasks : f # h /\ g # h /\ f # g =>
            ~(/\ task'[f] # NoCall /\ Holding(task'[f]) /\ task'[g] # NoCall /\ Holding(task'[g])
              /\ task'[f].token = task'[g].token)
      BY <1>o DEF TokensApart
    <3> QED BY <3>1, <2>1, <1>o
  <2>5. \A g \in Tasks : task'[g] # NoCall /\ Holding(task'[g]) =>
          {a \in told' : a.op = "approve" /\ a.ok /\ a.token = task'[g].token} = {}
    BY <2>2
  <2>6. \A t \in Tokens : \A a, b \in Approvals(t)' : a.req = b.req
    <3>1. ASSUME NEW t \in Tokens, NEW a \in told, NEW b \in told, a.op = "approve", a.ok,
                 b.op = "approve", b.ok, a.token = t, b.token = t
          PROVE  a.req = b.req
      BY <3>1 DEF TokensApart, Approvals
    <3>2. ASSUME NEW t \in Tokens, NEW a \in told', NEW b \in told', a.op = "approve", a.ok,
                 b.op = "approve", b.ok, a.token = t, b.token = t
          PROVE  a.req = b.req
      BY <3>1, <3>2, <2>3
    <3> QED BY <3>2 DEF Approvals
  <2> QED BY <2>4, <2>5, <2>6 DEF TokensApart, Approvals
<1>5. RedeemedOnce'
  <2>1. ASSUME NEW g \in Tasks, task'[g] # NoCall, Redeeming(task'[g]),
               NEW a \in told', a.op = "verify", a.ok, a.token = task'[g].token,
               a.by = task'[g].by
        PROVE  FALSE
    <3>1. CASE g = h
      <4>1. /\ a \in told /\ task[h] # NoCall /\ task[h].op = "verify"
            /\ a.token = task[h].token /\ a.by = task[h].by
        BY <2>1, <3>1, <1>t, <1>e DEF Effect, Redeeming
      <4>2. Redeeming(task[h]) \/ mem.token[task[h].token] = "fresh"
        BY <2>1, <3>1, <1>e DEF Effect
      <4>3. a \in Redemptions(task[h].token)
        BY <2>1, <4>1 DEF Redemptions
      <4> QED BY <4>1, <4>2, <4>3, <1>v, AnswersShow DEF RedeemedOnce
    <3>2. CASE g # h
      <4>1. /\ task[g] # NoCall /\ Redeeming(task[g])
            /\ a.token = task[g].token /\ a.by = task[g].by
        BY <2>1, <3>2, <1>o
      <4>2. a \notin told
        BY <2>1, <4>1 DEF RedeemedOnce, Redemptions
      <4> QED BY <3>2, <4>1, <4>2, <1>n, <1>s
    <3> QED BY <3>1, <3>2
  <2>2. ASSUME NEW t \in Tokens, NEW a \in told', NEW b \in told', a.op = "verify", a.ok,
               b.op = "verify", b.ok, a.token = t, b.token = t, a.by = b.by,
               b \notin told, a # b
        PROVE  FALSE
    <3>1. Redeeming(task[h]) /\ task[h].token = t /\ task[h].by = b.by /\ task[h] # NoCall
      BY <2>2, <1>n DEF Redeeming, Past
    <3>2. a \notin told
      BY <2>2, <3>1 DEF RedeemedOnce, Redemptions
    <3> QED BY <2>2, <3>2, <1>n
  <2>3. ASSUME NEW t \in Tokens, NEW a \in told', NEW b \in told', a.op = "verify", a.ok,
               b.op = "verify", b.ok, a.token = t, b.token = t, a.by = b.by
        PROVE  a = b
    <3>1. a \in told /\ b \in told => a = b
      BY <2>3 DEF RedeemedOnce, Redemptions
    <3> QED BY <2>3, <3>1, <2>2
  <2>4. \A g \in Tasks : task'[g] # NoCall /\ Redeeming(task'[g]) =>
          \A a \in {x \in told' : x.op = "verify" /\ x.ok /\ x.token = task'[g].token} :
            a.by # task'[g].by
    BY <2>1
  <2>5. \A t \in Tokens : \A a, b \in Redemptions(t)' : a.by = b.by => a = b
    BY <2>3 DEF Redemptions
  <2> QED BY <2>4, <2>5 DEF RedeemedOnce, Redemptions
<1> QED BY <1>1, <1>2, <1>3, <1>4, <1>5

LEMMA PoliteCall ==
  ASSUME PoliteInv, Polite, NEW h \in Tasks, ClientCall(h)
  PROVE  Alone' /\ DecidedOnce' /\ PendingOnce' /\ TokensApart' /\ RedeemedOnce'
<1> USE DEF PoliteInv
<1>1. ASSUME NEW op, NEW u, NEW r \in Requests, NEW s, NEW t, NEW pc,
             Call(h, op, u, r, s, t, pc),
             <<op, pc>> \in {<<"request", "select">>, <<"approve", "select">>,
                             <<"reject", "select">>, <<"report", "update">>,
                             <<"verify", "select">>},
             op = "request" => u = RequesterOf[r],
             op \in {"approve", "reject"} => u = Provider(r)
      PROVE  Alone' /\ DecidedOnce' /\ PendingOnce' /\ TokensApart' /\ RedeemedOnce'
  <2> DEFINE c == [id |-> calls + 1, op |-> op, by |-> u, req |-> r, status |-> s,
                   token |-> t, pc |-> pc, ok |-> TRUE, waiting |-> TRUE]
  <2>1. /\ UNCHANGED <<mem, disk, told>> /\ task[h] = NoCall /\ task'[h] = c
        /\ \A g \in Tasks : g # h => task'[g] = task[g]
    BY <1>1 DEF Call, BookInv, TypeOK
  <2>2. c.op = op /\ c.req = r /\ c.by = u /\ c.token = t /\ c.pc = pc /\ c.waiting
    OBVIOUS
  <2>3. \A g \in Tasks : task[g] # NoCall => task[g].by # u
    <3>1. Cardinality(WaitingFor(u)) < 1
      BY <1>1 DEF Call, Polite
    <3>2. IsFiniteSet(WaitingFor(u))
      BY FS_Subset DEF WaitingFor
    <3>3. WaitingFor(u) = {}
      BY <3>1, <3>2, FS_CardinalityType, FS_EmptySet
    <3> QED BY <3>3 DEF WaitingFor, Alone
  <2> HIDE DEF c
  <2>4. ~Deciding(c) /\ ~Holding(c) /\ ~Redeeming(c) /\ ~(c.op = "request" /\ c.pc = "insert")
    BY <1>1, <2>2 DEF Deciding, Holding, Redeeming, Past
  <2>5. Alone'
    BY <1>1, <2>1, <2>2, <2>3 DEF Alone, Caller
  <2>6. DecidedOnce'
    BY <2>1, <2>4 DEF DecidedOnce, Decisions
  <2>7. PendingOnce'
    BY <2>1, <2>4 DEF PendingOnce
  <2>8. TokensApart'
    <3>1. \A g \in Tasks : task'[g] # NoCall /\ Holding(task'[g]) =>
            task'[g] = task[g] /\ task[g] # NoCall
      BY <2>1, <2>4
    <3> QED BY <2>1, <3>1 DEF TokensApart, Approvals
  <2>9. RedeemedOnce'
    <3>1. \A g \in Tasks : task'[g] # NoCall /\ Redeeming(task'[g]) =>
            task'[g] = task[g] /\ task[g] # NoCall
      BY <2>1, <2>4
    <3> QED BY <2>1, <3>1 DEF RedeemedOnce, Redemptions
  <2> QED BY <2>5, <2>6, <2>7, <2>8, <2>9
<1>2. ASSUME NEW r \in Requests, CallRequest(h, r)
      PROVE  Alone' /\ DecidedOnce' /\ PendingOnce' /\ TokensApart' /\ RedeemedOnce'
  BY <1>2, <1>1 DEF CallRequest
<1>3. ASSUME NEW r \in Requests, NEW op \in {"approve", "reject"}, CallDecision(h, op, r)
      PROVE  Alone' /\ DecidedOnce' /\ PendingOnce' /\ TokensApart' /\ RedeemedOnce'
  BY <1>3, <1>1 DEF CallDecision
<1>4. ASSUME NEW r \in Requests, NEW u \in Users, NEW s \in Reports, CallReport(h, u, r, s)
      PROVE  Alone' /\ DecidedOnce' /\ PendingOnce' /\ TokensApart' /\ RedeemedOnce'
  BY <1>4, <1>1 DEF CallReport
<1>5. ASSUME NEW r \in Requests, NEW u \in Users, NEW t \in Tokens, CallVerify(h, u, r, t)
      PROVE  Alone' /\ DecidedOnce' /\ PendingOnce' /\ TokensApart' /\ RedeemedOnce'
  BY <1>5, <1>1 DEF CallVerify
<1>6. ~Abandon(h)
  BY DEF Abandon, Polite, BookInv, TypeOK
<1> QED BY <1>2, <1>3, <1>4, <1>5, <1>6 DEF ClientCall

LEMMA PoliteInit == Init => PoliteInv
<1> SUFFICES ASSUME Init PROVE PoliteInv
  OBVIOUS
<1> QED BY BookInit DEF Init, Empty, PoliteInv, Alone, DecidedOnce, Decisions, PendingOnce,
        NoRivals, TokensApart, Approvals, RedeemedOnce, Redemptions

LEMMA PoliteStep == Polite /\ PoliteInv /\ [Next]_vars => PoliteInv'
<1> SUFFICES ASSUME Polite, PoliteInv, [Next]_vars PROVE PoliteInv'
  OBVIOUS
<1>b. BookInv'
  BY BookStep DEF PoliteInv
<1>1. ASSUME NEW h \in Tasks, TaskStep(h) PROVE PoliteInv'
  BY <1>1, <1>b, PoliteTask DEF PoliteInv
<1>2. ASSUME NEW h \in Tasks, ClientCall(h) PROVE PoliteInv'
  BY <1>2, <1>b, PoliteCall DEF PoliteInv
<1>3. ASSUME UNCHANGED <<task, told, mem>>, disk' \in {disk, mem} PROVE PoliteInv'
  BY <1>3, <1>b DEF PoliteInv, Alone, DecidedOnce, Decisions, PendingOnce, TokensApart,
                    Approvals, RedeemedOnce, Redemptions
<1>4. CASE Crash
  BY <1>4, <1>b DEF Crash, PoliteInv, Alone, DecidedOnce, Decisions, PendingOnce, TokensApart,
                    Approvals, RedeemedOnce, Redemptions
<1>5. ASSUME NEW u \in Users, Poll(u) PROVE PoliteInv'
  BY <1>5, <1>3 DEF Poll
<1>6. CASE OtherCommit
  BY <1>6, <1>3 DEF OtherCommit, env
<1>7. CASE UNCHANGED vars
  BY <1>7, <1>3 DEF vars
<1> QED BY <1>1, <1>2, <1>4, <1>5, <1>6, <1>7 DEF Next, Quiet

LEMMA AtMostOne ==
  ASSUME NEW S, \A a, b \in S : a = b
  PROVE  Cardinality(S) <= 1
<1>1. CASE S = {}
  BY <1>1, FS_EmptySet
<1>2. ASSUME NEW a \in S PROVE Cardinality(S) <= 1
  <2>1. S = {a}
    OBVIOUS
  <2>2. Cardinality({a}) = 1
    BY FS_Singleton
  <2> QED BY <2>1, <2>2
<1> QED BY <1>1, <1>2

LEMMA PoliteAlways == Polite => (Spec => []PoliteInv)
<1> SUFFICES ASSUME Polite PROVE Spec => []PoliteInv
  OBVIOUS
<1>1. PoliteInv /\ [Next]_vars => PoliteInv'
  BY PoliteStep
<1> QED BY <1>1, PoliteInit, PTL DEF Spec

\* As long as each client waits for the answer to its call, approve_request()
\* and reject_request() do not both succeed for a request, nor one of them twice,
\* although the calls of different clients interleave at every await, commit
\* each other's writes, and the server crashes.
THEOREM PoliteDecisions == Polite => (Spec => []OneDecision)
<1>1. PoliteInv => OneDecision
  BY AtMostOne DEF PoliteInv, DecidedOnce, OneDecision
<1> QED BY <1>1, PoliteAlways, PTL

\* In the same circumstances the supersede statement of request_download()
\* leaves one pending request for a song and a requester.
THEOREM PoliteRequests == Polite => (Spec => []OnePendingPerSong)
<1>1. PoliteInv => OnePendingPerSong
  BY DEF PoliteInv, PendingOnce, NoRivals, OnePendingPerSong
<1> QED BY <1>1, PoliteAlways, PTL

\* And verify_peer_token() lets no holder of a token in twice: the owner and the
\* downloader may both be let in, neither of them a second time.
THEOREM PoliteTokens == Polite => (Spec => []OneUsePerHolder)
<1>1. PoliteInv => OneUsePerHolder
  BY DEF PoliteInv, RedeemedOnce, OneUsePerHolder
<1> QED BY <1>1, PoliteAlways, PTL

-----------------------------------------------------------------------------
(***************************************************************************)
(* Tokens and requests, whatever interleaves: what a token has ever been   *)
(* tied to, in the tables, by a call under way or in an answer.            *)
(***************************************************************************)
Bears(t, r) ==
  \/ mem.tokenOf[r] = t \/ disk.tokenOf[r] = t
  \/ \E h \in Tasks : /\ task[h] # NoCall /\ Holding(task[h])
                      /\ task[h].token = t /\ task[h].req = r
  \/ \E a \in Approvals(t) : a.req = r

RowsHold(db) ==
  \A r \in Requests :
    /\ db.status[r] = "approved" => db.tokenOf[r] # NoToken
    /\ db.tokenOf[r] # NoToken => db.token[db.tokenOf[r]] # "none"

OneBearer == \A t \in Tokens : \A q, r \in Requests : Bears(t, q) /\ Bears(t, r) => q = r

OwnInv == BookInv /\ RowsHold(mem) /\ RowsHold(disk) /\ OneBearer

LEMMA BearersShow ==
  ASSUME OwnInv, NEW t \in Tokens, NEW r \in Requests, Bears(t, r)
  PROVE  mem.token[t] # "none"
<1>1. CASE mem.tokenOf[r] = t
  BY <1>1 DEF OwnInv, RowsHold
<1>2. CASE disk.tokenOf[r] = t
  BY <1>2 DEF OwnInv, RowsHold, BookInv, MemAhead, Later
<1>3. ASSUME NEW h \in Tasks, task[h] # NoCall, Holding(task[h]), task[h].token = t
      PROVE  mem.token[t] # "none"
  BY <1>3, HoldersShow DEF OwnInv
<1>4. CASE Approvals(t) # {}
  BY <1>4, AnswersShow DEF OwnInv
<1> QED BY <1>1, <1>2, <1>3, <1>4 DEF Bears

\* The columns that tie a token to a request are written by its holder only.
LEMMA RowEffect ==
  ASSUME BookInv, NEW h \in Tasks, TaskStep(h)
  PROVE  /\ \A t \in Tokens : mem.token[t] # "none" => mem'.token[t] # "none"
         /\ \A r \in Requests :
              \/ /\ mem'.tokenOf[r] = mem.tokenOf[r]
                 /\ mem'.status[r] = "approved" => mem.status[r] = "approved"
              \/ /\ task[h] # NoCall /\ Holding(task[h]) /\ r = task[h].req
                 /\ mem'.tokenOf[r] = task[h].token
<1>d. mem \in [status : [Requests -> Statuses], tokenOf : [Requests -> Tokens \union {NoToken}],
               token : [Tokens -> {"none", "fresh", "used"}]]
  BY DEF BookInv, TypeOK, Database
<1>c. task[h] # NoCall => task[h].req \in Requests /\ task[h].status \in Reports
  BY CallOf, CallFields DEF BookInv
<1>1. CASE mem' = mem
  BY <1>1
<1>2. CASE RequestSupersede(h)
  BY <1>2, <1>d DEF RequestSupersede
<1>3. CASE RequestInsert(h)
  BY <1>3, <1>d DEF RequestInsert
<1>4. CASE ApproveMint(h)
  BY <1>4, <1>d DEF ApproveMint
<1>5. CASE ApproveUpdate(h)
  <2>1. task[h] # NoCall /\ Holding(task[h])
    BY <1>5 DEF ApproveUpdate, At, Holding, Past
  <2>2. mem' = [mem EXCEPT !.status[task[h].req] = "approved",
                           !.tokenOf[task[h].req] = task[h].token]
    BY <1>5 DEF ApproveUpdate
  <2> QED BY <2>1, <2>2, <1>c, <1>d
<1>6. CASE RejectUpdate(h)
  BY <1>6, <1>d DEF RejectUpdate, SetStatus
<1>7. CASE ReportUpdate(h)
  <2>1. task[h].status # "approved"
    BY <1>7, <1>c DEF ReportUpdate, At, Reports
  <2> QED BY <1>7, <2>1, <1>d DEF ReportUpdate, SetStatus
<1>8. CASE VerifyUse(h)
  BY <1>8, <1>d DEF VerifyUse
<1> QED BY <1>1, <1>2, <1>3, <1>4, <1>5, <1>6, <1>7, <1>8
        DEF TaskStep, RequestSelect, ApproveSelect, RejectSelect, VerifySelect, Commit, Log, Answer

\* A step ties a token to a request only if the request's call holds it or has
\* just drawn it.
LEMMA BearStep ==
  ASSUME OwnInv, NEW h \in Tasks, TaskStep(h), NEW t \in Tokens, NEW r \in Requests, Bears(t, r)'
  PROVE  Bears(t, r) \/ (mem.token[t] = "none" /\ r = task[h].req)
<1>e. Effect(h) /\ task[h] # NoCall
  BY TaskEffect DEF OwnInv, BookInv, Effect
<1>1. CASE mem'.tokenOf[r] = t
  BY <1>1, RowEffect DEF OwnInv, Bears
<1>2. CASE disk'.tokenOf[r] = t
  BY <1>2, <1>e DEF Effect, Bears
<1>3. ASSUME NEW g \in Tasks, task'[g] # NoCall, Holding(task'[g]),
             task'[g].token = t, task'[g].req = r
      PROVE  Bears(t, r) \/ (mem.token[t] = "none" /\ r = task[h].req)
  <2>1. CASE g # h
    BY <1>3, <2>1, <1>e DEF Effect, Bears
  <2>2. CASE g = h
    BY <1>3, <2>2, <1>e DEF Effect, Bears
  <2> QED BY <2>1, <2>2
<1>4. ASSUME NEW a \in told', a.op = "approve", a.ok, a.token = t, a.req = r
      PROVE  Bears(t, r)
  <2>1. CASE a \in told
    BY <1>4, <2>1 DEF Bears, Approvals
  <2>2. CASE a \notin told
    <3>1. /\ task[h].pc = "answer" /\ task[h].op = "approve" /\ task[h].ok
          /\ task[h].token = t /\ task[h].req = r
      BY <1>4, <2>2, <1>e DEF Effect
    <3> QED BY <3>1, <1>e DEF Bears, Holding, Past
  <2> QED BY <2>1, <2>2
<1> QED BY <1>1, <1>2, <1>3, <1>4 DEF Bears, Approvals

LEMMA OwnTask ==
  ASSUME OwnInv, NEW h \in Tasks, TaskStep(h)
  PROVE  RowsHold(mem)' /\ RowsHold(disk)' /\ OneBearer'
<1>1. RowsHold(mem)'
  <2> SUFFICES ASSUME NEW r \in Requests
               PROVE  /\ mem'.status[r] = "approved" => mem'.tokenOf[r] # NoToken
                      /\ mem'.tokenOf[r] # NoToken => mem'.token[mem'.tokenOf[r]] # "none"
    BY DEF RowsHold
  <2>1. CASE /\ mem'.tokenOf[r] = mem.tokenOf[r]
             /\ mem'.status[r] = "approved" => mem.status[r] = "approved"
    <3>1. mem.tokenOf[r] \in Tokens \union {NoToken}
      BY DEF OwnInv, BookInv, TypeOK, Database
    <3> QED BY <2>1, <3>1, RowEffect DEF OwnInv, RowsHold
  <2>2. CASE task[h] # NoCall /\ Holding(task[h]) /\ mem'.tokenOf[r] = task[h].token
    BY <2>2, HoldersShow, RowEffect DEF OwnInv
  <2> QED BY <2>1, <2>2, RowEffect DEF OwnInv
<1>2. RowsHold(disk)'
  <2>1. disk' = disk \/ (disk' = mem /\ mem' = mem)
    BY TaskEffect DEF OwnInv, BookInv, Effect
  <2> QED BY <2>1, <1>1 DEF OwnInv, RowsHold
<1>3. OneBearer'
  <2> SUFFICES ASSUME NEW t \in Tokens, NEW q \in Requests, NEW r \in Requests,
                      Bears(t, q)', Bears(t, r)'
               PROVE  q = r
    BY DEF OneBearer
  <2>1. Bears(t, q) \/ (mem.token[t] = "none" /\ q = task[h].req)
    BY BearStep
  <2>2. Bears(t, r) \/ (mem.token[t] = "none" /\ r = task[h].req)
    BY BearStep
  <2> QED BY <2>1, <2>2, BearersShow DEF OwnInv, OneBearer
<1> QED BY <1>1, <1>2, <1>3

LEMMA OwnOther ==
  ASSUME OwnInv, told' = told, mem' \in {mem, disk}, disk' \in {disk, mem},
         \A g \in Tasks : task'[g] # NoCall =>
           \/ ~Holding(task'[g])
           \/ /\ task[g] # NoCall /\ Holding(task[g])
              /\ task'[g].token = task[g].token /\ task'[g].req = task[g].req
  PROVE  RowsHold(mem)' /\ RowsHold(disk)' /\ OneBearer'
<1>1. \A t \in Tokens, r \in Requests : Bears(t, r)' => Bears(t, r)
  BY DEF Bears, Approvals
<1> QED BY <1>1 DEF OwnInv, RowsHold, OneBearer

LEMMA OwnStep == OwnInv /\ [Next]_vars => OwnInv'
<1> SUFFICES ASSUME OwnInv, [Next]_vars PROVE OwnInv'
  OBVIOUS
<1>b. BookInv'
  BY BookStep DEF OwnInv
<1>1. ASSUME NEW h \in Tasks, TaskStep(h) PROVE OwnInv'
  BY <1>1, <1>b, OwnTask DEF OwnInv
<1>2. ASSUME NEW h \in Tasks, ClientCall(h) PROVE OwnInv'
  <2>1. /\ mem' = mem /\ disk' = disk /\ told' = told
        /\ task \in [Tasks -> CallType \union {NoCall}]
    BY <1>2 DEF ClientCall, CallRequest, CallDecision, CallReport, CallVerify, Call, Abandon,
                OwnInv, BookInv, TypeOK
  <2>2. CASE Abandon(h)
    <3>1. /\ task[h] # NoCall /\ task[h] \in CallType
          /\ task' = [task EXCEPT ![h] = [task[h] EXCEPT !.waiting = FALSE]]
      BY <2>2, CallOf DEF Abandon, OwnInv, BookInv
    <3>2. /\ \A g \in Tasks : g # h => task'[g] = task[g]
          /\ task'[h].op = task[h].op /\ task'[h].pc = task[h].pc /\ task'[h].ok = task[h].ok
          /\ task'[h].token = task[h].token /\ task'[h].req = task[h].req
      BY <2>1, <3>1 DEF CallType
    <3>3. Holding(task'[h]) => Holding(task[h])
      BY <3>2 DEF Holding, Past
    <3> QED BY <2>1, <3>1, <3>2, <3>3, <1>b, OwnOther DEF OwnInv
  <2>3. ASSUME NEW op, NEW u, NEW r, NEW s, NEW t, NEW pc, Call(h, op, u, r, s, t, pc),
               op # "approve" \/ pc = "select"
        PROVE  OwnInv'
    <3>1. /\ \A g \in Tasks : g # h => task'[g] = task[g]
          /\ task'[h].op = op /\ task'[h].pc = pc
      BY <2>1, <2>3 DEF Call
    <3>2. ~Holding(task'[h])
      BY <2>3, <3>1 DEF Holding, Past
    <3> QED BY <2>1, <3>1, <3>2, <1>b, OwnOther DEF OwnInv
  <2> QED BY <1>2, <2>2, <2>3 DEF ClientCall, CallRequest, CallDecision, CallReport, CallVerify
<1>3. CASE OtherCommit \/ UNCHANGED vars
  BY <1>3, <1>b, OwnOther DEF OtherCommit, vars, env, OwnInv
<1>4. ASSUME NEW u \in Users, Poll(u) PROVE OwnInv'
  BY <1>4, <1>b, OwnOther DEF Poll, OwnInv
<1>5. CASE Crash
  BY <1>5, <1>b, OwnOther DEF Crash, OwnInv
<1> QED BY <1>1, <1>2, <1>3, <1>4, <1>5 DEF Next, Quiet

\* A peer token stands for one request, on disk and in what owners were told,
\* for any number of overlapping approvals, foreign commits, crashes and
\* abandoned calls: no caller need wait for this one.
THEOREM TokensStandForOne == Spec => []TokenOfItsOwn
<1>1. Init => OwnInv
  BY BookInit DEF Init, Empty, OwnInv, RowsHold, OneBearer, Bears, Approvals
<1>2. OwnInv => TokenOfItsOwn
  <2> SUFFICES ASSUME OwnInv PROVE TokenOfItsOwn
    OBVIOUS
  <2>1. \A r \in Requests : disk.tokenOf[r] \in Tokens \union {NoToken}
    BY DEF OwnInv, BookInv, TypeOK, Database
  <2>2. ASSUME NEW a \in told, a.op = "approve", a.ok
        PROVE  a.token \in Tokens /\ a.req \in Requests /\ Bears(a.token, a.req)
    BY <2>2, AnswersShow, AnswerFields DEF OwnInv, BookInv, Bears, Approvals
  <2>3. \A r \in Requests : disk.tokenOf[r] # NoToken => Bears(disk.tokenOf[r], r)
    BY DEF Bears
  <2> QED BY <2>1, <2>2, <2>3 DEF OwnInv, RowsHold, OneBearer, TokenOfItsOwn
<1> QED BY <1>1, <1>2, OwnStep, PTL DEF Spec

-----------------------------------------------------------------------------
(***************************************************************************)
(* One call at a time: the committed tables follow RequestBook.  The call  *)
(* under way accounts for every difference between mem and disk (Whole),   *)
(* and what its checks have read is still on disk when it commits (Ready). *)
(***************************************************************************)
OneCall == \A g, h \in Tasks : task[g] # NoCall /\ task[h] # NoCall => g = h

Replaced(f, r) ==
  [q \in Requests |-> IF Rivals(q, r) /\ f[q] = "pending" THEN "superseded" ELSE f[q]]

\* What a call that is about to commit has done to the tables d.
Done(c, m, d) ==
  /\ m.status = CASE c.op = "request" -> [Replaced(d.status, c.req) EXCEPT ![c.req] = "pending"]
                  [] c.op = "approve" -> [d.status EXCEPT ![c.req] = "approved"]
                  [] c.op = "reject"  -> [d.status EXCEPT ![c.req] = "rejected"]
                  [] c.op = "report"  -> [d.status EXCEPT ![c.req] = c.status]
                  [] c.op = "verify"  -> d.status
  /\ m.tokenOf = IF c.op = "approve" THEN [d.tokenOf EXCEPT ![c.req] = c.token] ELSE d.tokenOf
  /\ m.token = IF c.op = "verify" THEN [d.token EXCEPT ![c.token] = "used"] ELSE d.token

Whole(c, m, d) ==
  /\ c.pc \notin {"insert", "mintCommit", "commit"} => m = d
  /\ c.pc = "insert" =>
       m.status = Replaced(d.status, c.req) /\ m.tokenOf = d.tokenOf /\ m.token = d.token
  /\ c.pc = "mintCommit" =>
       /\ m.status = d.status /\ m.tokenOf = d.tokenOf
       /\ m.token = [d.token EXCEPT ![c.token] = "fresh"]
  /\ c.pc = "commit" => Done(c, m, d)

Ready(c, d) ==
  /\ c.op = "request" /\ c.pc \in {"select", "supersede", "insert", "commit"} =>
       d.status[c.req] = "none"
  /\ c.op = "approve" /\ c.pc \in {"mint", "mintCommit", "update", "commit"} =>
       d.status[c.req] = "pending"
  /\ c.op = "approve" /\ c.pc = "mintCommit" => c.token \in Tokens /\ d.token[c.token] = "none"
  /\ c.op = "approve" /\ c.pc \in {"update", "commit"} =>
       c.token \in Tokens /\ d.token[c.token] = "fresh" /\ \A q \in Requests : d.tokenOf[q] # c.token
  /\ c.op = "reject" /\ c.pc \in {"update", "commit"} => d.status[c.req] = "pending"
  /\ c.op = "report" => d.status[c.req] # "none"
  /\ c.op = "verify" => c.token \in Tokens
  /\ c.op = "verify" /\ c.pc \in {"update", "commit"} => d.token[c.token] = "fresh"

\* A token of an approved request has been issued.
Issued(d) == \A q \in Requests : d.tokenOf[q] \in Tokens => d.token[d.tokenOf[q]] # "none"

Serial ==
  /\ (\A h \in Tasks : task[h] = NoCall) => mem = disk
  /\ \A h \in Tasks : task[h] # NoCall => Whole(task[h], mem, disk) /\ Ready(task[h], disk)
  /\ Issued(disk)

SerialInv == BookInv /\ Serial

LEMMA SerialInit == Init => SerialInv /\ Book!Init
<1> SUFFICES ASSUME Init PROVE Serial /\ Book!Init
  BY BookInit DEF SerialInv
<1> QED BY DEF Init, Empty, Serial, Issued, Book!Init

\* The call that moves is the only one.
LEMMA OnlyOneMoves ==
  ASSUME OneCall, NEW h \in Tasks, task[h] # NoCall,
         \A g \in Tasks : g # h => task'[g] = task[g],
         IF task'[h] = NoCall THEN mem' = disk'
         ELSE Whole(task'[h], mem', disk') /\ Ready(task'[h], disk'),
         Issued(disk')
  PROVE  Serial'
<1>1. \A g \in Tasks : g # h => task'[g] = NoCall
  BY DEF OneCall
<1> QED BY <1>1 DEF Serial

LEMMA TaskGoes ==
  ASSUME TypeOK, NEW h \in Tasks, NEW p \in Points, task[h] # NoCall, GoTo(h, p)
  PROVE  /\ \A g \in Tasks : g # h => task'[g] = task[g]
         /\ task'[h] # NoCall /\ task'[h].op = task[h].op /\ task'[h].req = task[h].req
         /\ task'[h].token = task[h].token /\ task'[h].status = task[h].status
         /\ task'[h].pc = p
<1>1. task[h] \in CallType
  BY CallOf
<1>2. task' = [task EXCEPT ![h] = [task[h] EXCEPT !.pc = p]]
  BY DEF GoTo
<1>3. task'[h] = [task[h] EXCEPT !.pc = p] /\ \A g \in Tasks : g # h => task'[g] = task[g]
  BY <1>2 DEF TypeOK
<1>4. [task[h] EXCEPT !.pc = p] \in CallType
  BY <1>1, CallChanges
<1> QED BY <1>1, <1>3, <1>4, NoCallAssumption DEF CallType

LEMMA TaskRefused ==
  ASSUME TypeOK, NEW h \in Tasks, task[h] # NoCall, Refuse(h)
  PROVE  /\ \A g \in Tasks : g # h => task'[g] = task[g]
         /\ task'[h] # NoCall /\ task'[h].op = task[h].op /\ task'[h].req = task[h].req
         /\ task'[h].token = task[h].token /\ task'[h].pc = "answer"
<1>1. task[h] \in CallType
  BY CallOf
<1>2. task' = [task EXCEPT ![h] = [task[h] EXCEPT !.pc = "answer", !.ok = FALSE]]
  BY DEF Refuse
<1>3. /\ task'[h] = [task[h] EXCEPT !.pc = "answer", !.ok = FALSE]
      /\ \A g \in Tasks : g # h => task'[g] = task[g]
  BY <1>2 DEF TypeOK
<1>4. [task[h] EXCEPT !.pc = "answer", !.ok = FALSE] \in CallType
  BY <1>1, CallChanges, PointNames
<1> QED BY <1>1, <1>3, <1>4, NoCallAssumption DEF CallType

(***************************************************************************)
(* A commit is the whole step of the book, and no other.                   *)
(***************************************************************************)
LEMMA CommitIsAStep ==
  ASSUME TypeOK, NEW c \in CallType, c.pc = "commit", Done(c, mem, disk), Ready(c, disk),
         Issued(disk), disk' = mem
  PROVE  Book!Next /\ Issued(disk')
<1> USE PointNames
<1>d. /\ disk.status \in [Requests -> Statuses]
      /\ disk.tokenOf \in [Requests -> Tokens \union {NoToken}]
      /\ disk.token \in [Tokens -> {"none", "fresh", "used"}]
  BY DEF TypeOK, Database
<1>c. /\ c.req \in Requests /\ c.status \in Reports
      /\ c.op \in {"request", "approve", "reject", "report", "verify"}
  BY CallFields DEF Operations
<1>1. CASE c.op = "request"
  <2>1. /\ disk.status[c.req] = "none"
        /\ disk'.status = [Replaced(disk.status, c.req) EXCEPT ![c.req] = "pending"]
        /\ disk'.tokenOf = disk.tokenOf /\ disk'.token = disk.token
    BY <1>1 DEF Done, Ready
  <2>2. [Replaced(disk.status, c.req) EXCEPT ![c.req] = "pending"] =
          [q \in Requests |->
             CASE q = c.req -> "pending"
               [] q # c.req /\ Book!Rivals(q, c.req) /\ disk.status[q] = "pending" -> "superseded"
               [] OTHER -> disk.status[q]]
    BY <1>c DEF Replaced, Rivals, Book!Rivals
  <2>3. Book!Submit(c.req)
    BY <2>1, <2>2 DEF Book!Submit
  <2> QED BY <2>1, <2>3, <1>c DEF Book!Next, Issued
<1>2. CASE c.op = "approve"
  <2>1. /\ disk.status[c.req] = "pending" /\ c.token \in Tokens
        /\ disk.token[c.token] = "fresh" /\ \A q \in Requests : disk.tokenOf[q] # c.token
        /\ disk'.status = [disk.status EXCEPT ![c.req] = "approved"]
        /\ disk'.tokenOf = [disk.tokenOf EXCEPT ![c.req] = c.token]
        /\ disk'.token = disk.token
    BY <1>2 DEF Done, Ready
  <2>2. Book!Approve(c.req, c.token)
    BY <2>1 DEF Book!Approve
  <2>3. Issued(disk')
    BY <2>1, <1>d DEF Issued
  <2> QED BY <2>1, <2>2, <2>3, <1>c DEF Book!Next
<1>3. CASE c.op = "reject"
  <2>1. /\ disk.status[c.req] = "pending"
        /\ disk'.status = [disk.status EXCEPT ![c.req] = "rejected"]
        /\ disk'.tokenOf = disk.tokenOf /\ disk'.token = disk.token
    BY <1>3 DEF Done, Ready
  <2>2. Book!Reject(c.req)
    BY <2>1 DEF Book!Reject
  <2> QED BY <2>1, <2>2, <1>c DEF Book!Next, Issued
<1>4. CASE c.op = "report"
  <2>1. /\ disk.status[c.req] # "none"
        /\ disk'.status = [disk.status EXCEPT ![c.req] = c.status]
        /\ disk'.tokenOf = disk.tokenOf /\ disk'.token = disk.token
    BY <1>4 DEF Done, Ready
  <2>2. Book!Report(c.req, c.status)
    BY <2>1 DEF Book!Report
  <2>3. c.status \in {"in_progress", "completed", "failed"}
    BY <1>c DEF Reports
  <2> QED BY <2>1, <2>2, <2>3, <1>c DEF Book!Next, Issued
<1>5. CASE c.op = "verify"
  <2>1. /\ c.token \in Tokens /\ disk.token[c.token] = "fresh"
        /\ disk'.status = disk.status /\ disk'.tokenOf = disk.tokenOf
        /\ disk'.token = [disk.token EXCEPT ![c.token] = "used"]
    BY <1>5 DEF Done, Ready
  <2>2. Book!Redeem(c.token)
    BY <2>1 DEF Book!Redeem
  <2>3. Issued(disk')
    BY <2>1, <1>d DEF Issued
  <2> QED BY <2>1, <2>2, <2>3 DEF Book!Next
<1> QED BY <1>c, <1>1, <1>2, <1>3, <1>4, <1>5

LEMMA MintIsAStep ==
  ASSUME TypeOK, NEW c \in CallType, c.pc = "mintCommit", c.op = "approve",
         Whole(c, mem, disk), Ready(c, disk), Issued(disk), disk' = mem
  PROVE  /\ Book!Next /\ Issued(disk')
         /\ disk'.status[c.req] = "pending" /\ disk'.token[c.token] = "fresh"
         /\ \A q \in Requests : disk'.tokenOf[q] # c.token
<1>1. /\ c.token \in Tokens /\ disk.token[c.token] = "none" /\ disk.status[c.req] = "pending"
      /\ disk'.status = disk.status /\ disk'.tokenOf = disk.tokenOf
      /\ disk'.token = [disk.token EXCEPT ![c.token] = "fresh"]
  BY DEF Whole, Ready
<1>2. disk.token \in [Tokens -> {"none", "fresh", "used"}]
  BY DEF TypeOK, Database
<1>3. Book!Issue(c.token)
  BY <1>1 DEF Book!Issue
<1>4. \A q \in Requests : disk.tokenOf[q] # c.token
  BY <1>1 DEF Issued
<1> QED BY <1>1, <1>2, <1>3, <1>4 DEF Book!Next, Issued

LEMMA SerialTask ==
  ASSUME SerialInv, OneCall, NEW h \in Tasks, TaskStep(h)
  PROVE  Serial' /\ [Book!Next]_(Book!vars)
<1> USE PointNames DEF env
<1>t. TypeOK /\ Issued(disk)
  BY DEF SerialInv, BookInv, Serial
<1>c. task[h] # NoCall => /\ task[h] \in CallType /\ task[h].req \in Requests
                          /\ task[h].op \in {"request", "approve", "reject", "report", "verify"}
                          /\ Whole(task[h], mem, disk) /\ Ready(task[h], disk)
                          /\ Sound(task[h], mem, disk)
  BY <1>t, CallOf, CallFields DEF SerialInv, BookInv, TasksSound, Serial, Operations
<1>d. /\ disk.status \in [Requests -> Statuses]
      /\ disk.tokenOf \in [Requests -> Tokens \union {NoToken}]
      /\ disk.token \in [Tokens -> {"none", "fresh", "used"}]
      /\ mem \in [status : [Requests -> Statuses], tokenOf : [Requests -> Tokens \union {NoToken}],
                  token : [Tokens -> {"none", "fresh", "used"}]]
  BY <1>t DEF TypeOK, Database
\* A statement: the call goes on, nothing is committed.
<1>1. ASSUME NEW p \in Points, task[h] # NoCall, GoTo(h, p), disk' = disk,
             ASSUME NEW c, c.op = task[h].op, c.req = task[h].req, c.token = task[h].token,
                    c.status = task[h].status, c.pc = p
             PROVE  Whole(c, mem', disk) /\ Ready(c, disk)
      PROVE  Serial' /\ [Book!Next]_(Book!vars)
  <2>1. /\ \A g \in Tasks : g # h => task'[g] = task[g]
        /\ task'[h] # NoCall /\ task'[h].op = task[h].op /\ task'[h].req = task[h].req
        /\ task'[h].token = task[h].token /\ task'[h].status = task[h].status
        /\ task'[h].pc = p
    BY <1>1, <1>t, TaskGoes
  <2>2. Whole(task'[h], mem', disk) /\ Ready(task'[h], disk)
    BY <1>1, <2>1
  <2> QED BY <2>1, <2>2, <1>1, <1>t, OnlyOneMoves DEF Book!vars
\* A refusal: nothing had been written.
<1>2. ASSUME task[h] # NoCall, task[h].pc = "select", Refuse(h), UNCHANGED <<mem, disk>>
      PROVE  Serial' /\ [Book!Next]_(Book!vars)
  <2>1. /\ \A g \in Tasks : g # h => task'[g] = task[g]
        /\ task'[h] # NoCall /\ task'[h].op = task[h].op /\ task'[h].req = task[h].req
        /\ task'[h].token = task[h].token /\ task'[h].pc = "answer"
    BY <1>2, <1>t, TaskRefused
  <2>2. Whole(task'[h], mem, disk) /\ Ready(task'[h], disk)
    BY <1>2, <1>c, <2>1 DEF Whole, Ready
  <2> QED BY <2>1, <2>2, <1>2, <1>t, OnlyOneMoves DEF Book!vars
<1>3. CASE RequestSelect(h)
  <2>1. CASE Refuse(h)
    BY <2>1, <1>3, <1>2 DEF RequestSelect, At
  <2>2. CASE GoTo(h, "supersede")
    BY <2>2, <1>3, <1>1, <1>c DEF RequestSelect, At, Whole, Ready
  <2> QED BY <2>1, <2>2, <1>3 DEF RequestSelect
<1>4. CASE RequestSupersede(h)
  <2>1. /\ mem'.status = Replaced(mem.status, task[h].req)
        /\ mem'.tokenOf = mem.tokenOf /\ mem'.token = mem.token
    BY <1>4, <1>d DEF RequestSupersede, Replaced
  <2> QED BY <2>1, <1>4, <1>1, <1>c DEF RequestSupersede, At, Whole, Ready
<1>5. CASE RequestInsert(h)
  <2>1. /\ mem'.status = [mem.status EXCEPT ![task[h].req] = "pending"]
        /\ mem'.tokenOf = mem.tokenOf /\ mem'.token = mem.token
    BY <1>5, <1>d DEF RequestInsert
  <2>2. /\ task[h] # NoCall /\ task[h].op = "request" /\ task[h].pc = "insert"
        /\ GoTo(h, "commit") /\ disk' = disk
    BY <1>5 DEF RequestInsert, At
  <2>3. /\ mem.status = Replaced(disk.status, task[h].req)
        /\ mem.tokenOf = disk.tokenOf /\ mem.token = disk.token
        /\ disk.status[task[h].req] = "none"
    BY <2>2, <1>c DEF Whole, Ready
  <2>4. ASSUME NEW c, c.op = task[h].op, c.req = task[h].req, c.token = task[h].token,
               c.status = task[h].status, c.pc = "commit"
        PROVE  Whole(c, mem', disk) /\ Ready(c, disk)
    BY <2>1, <2>2, <2>3, <2>4 DEF Whole, Ready, Done
  <2> QED BY <2>2, <2>4, <1>1
<1>6. CASE ApproveSelect(h)
  <2>1. CASE IsPending(h)
    BY <2>1, <1>6, <1>1, <1>c DEF ApproveSelect, At, IsPending, Whole, Ready
  <2>2. CASE ~IsPending(h)
    BY <2>2, <1>6, <1>2 DEF ApproveSelect, At
  <2> QED BY <2>1, <2>2
<1>7. CASE ApproveMint(h)
  <2> PICK t \in Tokens : /\ mem.token[t] = "none"
                          /\ mem' = [mem EXCEPT !.token[t] = "fresh"]
                          /\ task' = [task EXCEPT ![h].token = t, ![h].pc = "mintCommit"]
    BY <1>7 DEF ApproveMint
  <2>1. /\ task[h] # NoCall /\ task[h].op = "approve" /\ disk' = disk /\ mem = disk
        /\ disk.status[task[h].req] = "pending"
    BY <1>7, <1>c DEF ApproveMint, At, Whole, Ready
  <2>2. [task[h] EXCEPT !.token = t, !.pc = "mintCommit"] \in CallType
    BY <2>1, <1>c, CallChanges
  <2>3. task'[h] = [task[h] EXCEPT !.token = t, !.pc = "mintCommit"]
        /\ \A g \in Tasks : g # h => task'[g] = task[g]
    BY <1>t DEF TypeOK
  <2>4. /\ task'[h] # NoCall /\ task'[h].op = "approve" /\ task'[h].req = task[h].req
        /\ task'[h].token = t /\ task'[h].pc = "mintCommit"
    <3>1. task[h].op \in Operations /\ task'[h] \in CallType
      BY <2>1, <2>2, <2>3, <1>c, CallFields
    <3>2. task'[h] # NoCall
      BY <3>1, NoCallAssumption
    <3>3. task[h] \in CallType
      BY <2>1, <1>c
    <3>4. ASSUME NEW c \in CallType
          PROVE  /\ [c EXCEPT !.token = t, !.pc = "mintCommit"].op = c.op
                 /\ [c EXCEPT !.token = t, !.pc = "mintCommit"].req = c.req
                 /\ [c EXCEPT !.token = t, !.pc = "mintCommit"].token = t
                 /\ [c EXCEPT !.token = t, !.pc = "mintCommit"].pc = "mintCommit"
      BY DEF CallType
    <3> QED BY <2>1, <2>3, <3>2, <3>3, <3>4
  <2>5. /\ mem'.token = [mem.token EXCEPT ![t] = "fresh"]
        /\ mem'.tokenOf = mem.tokenOf /\ mem'.status = mem.status
    BY <1>d
  <2>6. Whole(task'[h], mem', disk') /\ Ready(task'[h], disk')
    BY <2>1, <2>4, <2>5 DEF Whole, Ready
  <2> QED BY <2>1, <2>3, <2>4, <2>6, <1>t, OnlyOneMoves DEF Book!vars
<1>8. CASE ApproveUpdate(h)
  <2>1. /\ mem'.status = [mem.status EXCEPT ![task[h].req] = "approved"]
        /\ mem'.tokenOf = [mem.tokenOf EXCEPT ![task[h].req] = task[h].token]
        /\ mem'.token = mem.token
    BY <1>8, <1>d DEF ApproveUpdate
  <2>2. /\ task[h] # NoCall /\ task[h].op = "approve" /\ task[h].pc = "update"
        /\ GoTo(h, "commit") /\ disk' = disk
    BY <1>8 DEF ApproveUpdate, At
  <2>3. mem = disk /\ Ready(task[h], disk)
    BY <2>2, <1>c DEF Whole
  <2>4. ASSUME NEW c, c.op = task[h].op, c.req = task[h].req, c.token = task[h].token,
               c.status = task[h].status, c.pc = "commit"
        PROVE  Whole(c, mem', disk) /\ Ready(c, disk)
    BY <2>1, <2>2, <2>3, <2>4 DEF Whole, Ready, Done
  <2> QED BY <2>2, <2>4, <1>1
<1>9. CASE RejectSelect(h)
  <2>1. CASE IsPending(h)
    BY <2>1, <1>9, <1>1, <1>c DEF RejectSelect, At, IsPending, Whole, Ready
  <2>2. CASE ~IsPending(h)
    BY <2>2, <1>9, <1>2 DEF RejectSelect, At
  <2> QED BY <2>1, <2>2
<1>10. CASE RejectUpdate(h)
  <2>1. /\ mem'.status = [mem.status EXCEPT ![task[h].req] = "rejected"]
        /\ mem'.tokenOf = mem.tokenOf /\ mem'.token = mem.token
    BY <1>10, <1>d DEF RejectUpdate, SetStatus
  <2> QED BY <2>1, <1>10, <1>1, <1>c DEF RejectUpdate, At, Whole, Ready, Done
<1>11. CASE ReportUpdate(h)
  <2>1. /\ mem'.status = [mem.status EXCEPT ![task[h].req] = task[h].status]
        /\ mem'.tokenOf = mem.tokenOf /\ mem'.token = mem.token
    BY <1>11, <1>d DEF ReportUpdate, SetStatus
  <2> QED BY <2>1, <1>11, <1>1, <1>c DEF ReportUpdate, At, Whole, Ready, Done
<1>12. CASE VerifySelect(h)
  <2>1. CASE mem.token[task[h].token] = "fresh" /\ GoTo(h, "update")
    BY <2>1, <1>12, <1>1, <1>c DEF VerifySelect, At, Whole, Ready
  <2>2. CASE Refuse(h)
    BY <2>2, <1>12, <1>2 DEF VerifySelect, At
  <2> QED BY <2>1, <2>2, <1>12 DEF VerifySelect
<1>13. CASE VerifyUse(h)
  <2>1. /\ mem'.token = [mem.token EXCEPT ![task[h].token] = "used"]
        /\ mem'.tokenOf = mem.tokenOf /\ mem'.status = mem.status
    BY <1>13, <1>d DEF VerifyUse
  <2>2. /\ task[h] # NoCall /\ task[h].op = "verify" /\ task[h].pc = "update"
        /\ GoTo(h, "commit") /\ disk' = disk
    BY <1>13 DEF VerifyUse, At
  <2>3. mem = disk /\ Ready(task[h], disk)
    BY <2>2, <1>c DEF Whole
  <2>4. ASSUME NEW c, c.op = task[h].op, c.req = task[h].req, c.token = task[h].token,
               c.status = task[h].status, c.pc = "commit"
        PROVE  Whole(c, mem', disk) /\ Ready(c, disk)
    BY <2>1, <2>2, <2>3, <2>4 DEF Whole, Ready, Done
  <2> QED BY <2>2, <2>4, <1>1
<1>14. CASE Commit(h)
  <2>1. task[h] # NoCall /\ disk' = mem /\ mem' = mem
    BY <1>14 DEF Commit
  <2>2. CASE task[h].pc = "mintCommit" /\ GoTo(h, "update")
    <3>1. task[h].op = "approve"
      BY <2>1, <2>2, <1>c DEF Sound
    <3>2. /\ Book!Next /\ Issued(disk')
          /\ disk'.status[task[h].req] = "pending" /\ disk'.token[task[h].token] = "fresh"
          /\ task[h].token \in Tokens
          /\ \A q \in Requests : disk'.tokenOf[q] # task[h].token
      BY <2>1, <2>2, <3>1, <1>c, <1>t, MintIsAStep DEF Ready
    <3>3. /\ \A g \in Tasks : g # h => task'[g] = task[g]
          /\ task'[h] # NoCall /\ task'[h].op = "approve" /\ task'[h].req = task[h].req
          /\ task'[h].token = task[h].token /\ task'[h].pc = "update"
      BY <2>1, <2>2, <3>1, <1>t, TaskGoes
    <3>4. Whole(task'[h], mem', disk') /\ Ready(task'[h], disk')
      BY <2>1, <3>2, <3>3 DEF Whole, Ready
    <3> QED BY <2>1, <3>2, <3>3, <3>4, OnlyOneMoves
  <2>3. CASE task[h].pc = "commit"
    <3>1. Done(task[h], mem, disk)
      BY <2>1, <2>3, <1>c DEF Whole
    <3>2. Book!Next /\ Issued(disk')
      BY <2>1, <2>3, <3>1, <1>c, <1>t, CommitIsAStep
    <3>3. PICK p \in {"log", "answer"} : GoTo(h, p)
      BY <1>14, <2>3 DEF Commit
    <3>4. /\ \A g \in Tasks : g # h => task'[g] = task[g]
          /\ task'[h] # NoCall /\ task'[h].op = task[h].op /\ task'[h].req = task[h].req
          /\ task'[h].token = task[h].token /\ task'[h].pc = p
      BY <2>1, <3>3, <1>t, TaskGoes
    <3>5. task[h].op = "report" => disk'.status[task[h].req] # "none"
      BY <2>1, <2>3, <1>c DEF Sound
    <3>6. Whole(task'[h], mem', disk') /\ Ready(task'[h], disk')
      BY <2>1, <3>4, <3>5, <1>c DEF Whole, Ready
    <3> QED BY <2>1, <3>2, <3>4, <3>6, OnlyOneMoves
  <2> QED BY <1>14, <2>2, <2>3 DEF Commit
<1>15. CASE Log(h)
  <2>1. task[h] # NoCall /\ task[h].pc = "log" /\ mem = disk
    BY <1>15, <1>c DEF Log, Whole
  <2> QED BY <2>1, <1>15, <1>1, <1>c DEF Log, Whole, Ready
<1>16. CASE Answer(h)
  <2>1. task[h] # NoCall /\ mem = disk /\ mem' = mem /\ disk' = disk
    BY <1>16, <1>c DEF Answer, Whole
  <2>2. task'[h] = NoCall /\ \A g \in Tasks : g # h => task'[g] = task[g]
    BY <1>16, <1>t DEF Answer, TypeOK
  <2> QED BY <2>1, <2>2, <1>t, OnlyOneMoves DEF Book!vars
<1> QED BY <1>3, <1>4, <1>5, <1>6, <1>7, <1>8, <1>9, <1>10, <1>11, <1>12, <1>13, <1>14,
           <1>15, <1>16 DEF TaskStep

LEMMA SerialCall ==
  ASSUME SerialInv, OneCall', TypeOK', NEW h \in Tasks, ClientCall(h)
  PROVE  Serial' /\ UNCHANGED Book!vars
<1>t. TypeOK /\ Issued(disk)
  BY DEF SerialInv, BookInv, Serial
\* A new call starts when every other has been answered.
<1>1. ASSUME NEW op \in Operations, NEW u \in Users, NEW r \in Requests,
             NEW s \in Reports, NEW k \in Tokens \union {NoToken}, NEW pc \in Points,
             Call(h, op, u, r, s, k, pc),
             pc = "select" \/ (op = "report" /\ pc = "update"),
             op = "request" => disk.status[r] = "none",
             op = "report" => disk.status[r] # "none",
             op = "verify" => k \in Tokens
      PROVE  Serial' /\ UNCHANGED Book!vars
  <2> DEFINE c == [id |-> calls + 1, op |-> op, by |-> u, req |-> r, status |-> s,
                   token |-> k, pc |-> pc, ok |-> TRUE, waiting |-> TRUE]
  <2>1. task' = [task EXCEPT ![h] = c] /\ task[h] = NoCall /\ UNCHANGED <<mem, disk>>
    BY <1>1 DEF Call
  <2>2. task'[h] = c /\ \A g \in Tasks : g # h => task'[g] = task[g]
    BY <2>1, <1>t DEF TypeOK
  <2>3. c \in CallType
    <3>1. calls + 1 \in 1 .. MaxCalls
      BY <1>1, <1>t DEF Call, TypeOK
    <3> QED BY <3>1, <1>1 DEF CallType
  <2>4. c # NoCall
    BY <2>3, NoCallAssumption
  <2>5. \A g \in Tasks : task[g] = NoCall
    BY <2>1, <2>2, <2>4 DEF OneCall
  <2>6. mem = disk
    BY <2>5 DEF SerialInv, Serial
  <2>7. Whole(c, mem, disk) /\ Ready(c, disk)
    BY <2>6, <1>1 DEF Whole, Ready
  <2> HIDE DEF c
  <2>8. \A g \in Tasks : g # h => task'[g] = NoCall
    BY <2>2, <2>5
  <2> QED BY <2>1, <2>2, <2>4, <2>6, <2>7, <2>8, <1>t DEF Serial, Book!vars
<1>2. \A r \in Requests : r \notin drawn => disk.status[r] = "none"
  BY DEF SerialInv, BookInv, DrawnOnce, MemAhead, Later
<1>3. ASSUME NEW a \in told, a.ok, a.op \in {"request", "approve"}
      PROVE  disk.status[a.req] # "none"
  BY <1>3 DEF SerialInv, BookInv, AnswersKept, Kept, Holds
<1>4. ASSUME NEW r \in Requests, CallRequest(h, r) PROVE Serial' /\ UNCHANGED Book!vars
  BY <1>4, <1>1, <1>2, PointNames DEF CallRequest
<1>5. ASSUME NEW r \in Requests, NEW op \in {"approve", "reject"}, CallDecision(h, op, r)
      PROVE  Serial' /\ UNCHANGED Book!vars
  <2>1. Provider(r) \in Users
    BY DEF Provider
  <2> QED BY <1>5, <2>1, <1>1, PointNames DEF CallDecision
<1>6. ASSUME NEW r \in Requests, NEW u \in Users, NEW s \in Reports, CallReport(h, u, r, s)
      PROVE  Serial' /\ UNCHANGED Book!vars
  <2>1. disk.status[r] # "none"
    BY <1>6, <1>3 DEF CallReport, WasTold
  <2> QED BY <1>6, <2>1, <1>1, PointNames DEF CallReport
<1>7. ASSUME NEW r \in Requests, NEW u \in Users, NEW k \in Tokens, CallVerify(h, u, r, k)
      PROVE  Serial' /\ UNCHANGED Book!vars
  <2>1. Provider(r) \in Users
    BY DEF Provider
  <2> QED BY <1>7, <2>1, <1>1, PointNames DEF CallVerify
<1>8. CASE Abandon(h)
  <2>1. /\ task[h] # NoCall /\ UNCHANGED <<mem, disk>>
        /\ task' = [task EXCEPT ![h] = [task[h] EXCEPT !.waiting = FALSE]]
    BY <1>8 DEF Abandon
  <2>2. task[h] \in CallType
    BY <2>1, <1>t, CallOf
  <2>3. /\ task'[h] = [task[h] EXCEPT !.waiting = FALSE]
        /\ \A g \in Tasks : g # h => task'[g] = task[g]
    BY <2>1, <1>t DEF TypeOK
  <2>4. task'[h] \in CallType
    BY <2>2, <2>3, CallChanges
  <2>5. task'[h] # NoCall
    BY <2>4, NoCallAssumption
  <2>6. /\ task'[h].op = task[h].op /\ task'[h].req = task[h].req
        /\ task'[h].token = task[h].token /\ task'[h].status = task[h].status
        /\ task'[h].pc = task[h].pc
    BY <2>2, <2>3 DEF CallType
  <2>7. Whole(task[h], mem, disk) /\ Ready(task[h], disk)
    BY <2>1 DEF SerialInv, Serial
  <2>8. Whole(task'[h], mem, disk)
    BY <2>6, <2>7 DEF Whole, Done
  <2>9. Ready(task'[h], disk)
    BY <2>6, <2>7 DEF Ready
  <2>10. \A g \in Tasks : g # h => task'[g] = NoCall
    BY <2>5 DEF OneCall
  <2> QED BY <2>1, <2>5, <2>8, <2>9, <2>10, <1>t DEF Serial, Book!vars
<1> QED BY <1>4, <1>5, <1>6, <1>7, <1>8 DEF ClientCall

LEMMA SerialStep ==
  ASSUME ~OtherServices, SerialInv, OneCall, OneCall', [Next]_vars
  PROVE  SerialInv' /\ [Book!Next]_(Book!vars)
<1>b. BookInv'
  BY BookStep DEF SerialInv
<1>t. TypeOK /\ TypeOK' /\ Issued(disk)
  BY <1>b DEF SerialInv, BookInv, Serial
<1>1. ASSUME NEW h \in Tasks, TaskStep(h) PROVE Serial' /\ [Book!Next]_(Book!vars)
  BY <1>1, SerialTask
<1>2. ASSUME NEW h \in Tasks, ClientCall(h) PROVE Serial' /\ [Book!Next]_(Book!vars)
  BY <1>2, <1>t, SerialCall
<1>3. ASSUME UNCHANGED <<mem, disk, task>> PROVE Serial' /\ [Book!Next]_(Book!vars)
  BY <1>3 DEF SerialInv, Serial, Book!vars
\* What the call had written is gone; nothing of it was on disk.
<1>4. ASSUME Crash PROVE Serial' /\ [Book!Next]_(Book!vars)
  <2>1. mem' = disk /\ disk' = disk /\ \A h \in Tasks : task'[h] = NoCall
    BY <1>4 DEF Crash
  <2>2. Issued(disk') /\ mem' = disk'
    BY <2>1, <1>t
  <2>3. Serial'
    BY <2>1, <2>2 DEF Serial
  <2> QED BY <2>1, <2>3 DEF Book!vars
<1> QED BY <1>b, <1>1, <1>2, <1>3, <1>4
        DEF Next, Poll, OtherCommit, Quiet, vars, SerialInv

\* While one call is under way at a time, and no other service commits, the
\* committed tables change only by the whole steps of RequestBook, however many
\* calls are made and wherever the server is killed: request_download()'s
\* supersede and INSERT, approve_request()'s status and token reach the disk
\* together or not at all, and what each call has checked is still so when it
\* commits.
THEOREM SerialImplementsBook == ~OtherServices => (Spec /\ []OneCall => ImplementsBook)
<1> SUFFICES ASSUME ~OtherServices PROVE Spec /\ []OneCall => ImplementsBook
  OBVIOUS
<1>1. SerialInv /\ OneCall /\ OneCall' /\ [Next]_vars => SerialInv' /\ [Book!Next]_(Book!vars)
  BY SerialStep
<1> QED BY <1>1, SerialInit, PTL DEF Spec, ImplementsBook, Book!Spec

\* A server with room for one call is such a server.
THEOREM OneTaskImplementsBook ==
  ~OtherServices /\ (\A g, h \in Tasks : g = h) => (Spec => ImplementsBook)
<1> SUFFICES ASSUME ~OtherServices, \A g, h \in Tasks : g = h PROVE Spec => ImplementsBook
  OBVIOUS
<1>1. OneCall
  BY DEF OneCall
<1> QED BY <1>1, SerialImplementsBook, PTL
=============================================================================
