------------------------- MODULE PeerTransferProofs -------------------------
(***************************************************************************)
(* Theorems about PeerTransfer, for any clients, songs, downloads, chunks  *)
(* and faults.                                                             *)
(***************************************************************************)
EXTENDS PeerTransfer, SequenceTheorems, TLAPS

USE PeerAssumption

(***************************************************************************)
(* Connections and calls to the server keep their types.                   *)
(***************************************************************************)
Ends == {"up", "down"}

LEMMA FrameTypes ==
  /\ \A t \in Signals : Frame(t) \in Frames
  /\ \A n \in 1 .. Chunks : Chunk(n) \in Frames
BY DEF Frame, Chunk, Frames

LEMMA LinkOps ==
  ASSUME NEW l \in Links
  PROVE  /\ \A e \in Ends : Close(l, e) \in Links
         /\ \A e \in Ends, f \in Frames : Put(l, e, f) \in Links
         /\ l.toDown # <<>> => /\ [l EXCEPT !.toDown = Tail(@)] \in Links
                               /\ Head(l.toDown) \in Frames
         /\ l.toUp # <<>> => /\ [l EXCEPT !.toUp = Tail(@)] \in Links
                             /\ Head(l.toUp) \in Frames
         /\ [l EXCEPT !.st = "reset"] \in Links
         /\ \A st \in {"reset", "silent"} : [l EXCEPT !.st = st, !.toDown = <<>>, !.toUp = <<>>] \in Links
         /\ \A q \in Seq(Frames) : /\ [l EXCEPT !.st = "open", !.toDown = q] \in Links
                                   /\ [l EXCEPT !.toDown = q] \in Links
<1> /\ l.st \in {"none", "open", "reset", "silent"} /\ l.closed \in SUBSET Ends
    /\ l.toDown \in Seq(Frames) /\ l.toUp \in Seq(Frames)
  BY DEF Links, Ends
<1>0. <<>> \in Seq(Frames)
  BY EmptySeq
<1>1. ASSUME NEW e \in Ends PROVE Close(l, e) \in Links
  BY <1>0 DEF Close, Links, NoLink, Ends
<1>2. ASSUME NEW e \in Ends, NEW f \in Frames PROVE Put(l, e, f) \in Links
  <2>1. Append(l.toDown, f) \in Seq(Frames) /\ Append(l.toUp, f) \in Seq(Frames)
    BY AppendProperties
  <2> QED BY <2>1 DEF Put, Links, Ends
<1>3. ASSUME l.toDown # <<>>
      PROVE  [l EXCEPT !.toDown = Tail(@)] \in Links /\ Head(l.toDown) \in Frames
  <2>1. Tail(l.toDown) \in Seq(Frames) /\ Head(l.toDown) \in Frames
    BY <1>3, HeadTailProperties
  <2> QED BY <2>1 DEF Links
<1>4. ASSUME l.toUp # <<>>
      PROVE  [l EXCEPT !.toUp = Tail(@)] \in Links /\ Head(l.toUp) \in Frames
  <2>1. Tail(l.toUp) \in Seq(Frames) /\ Head(l.toUp) \in Frames
    BY <1>4, HeadTailProperties
  <2> QED BY <2>1 DEF Links
<1>5. [l EXCEPT !.st = "reset"] \in Links
  BY DEF Links
<1>6. ASSUME NEW st \in {"reset", "silent"}
      PROVE  [l EXCEPT !.st = st, !.toDown = <<>>, !.toUp = <<>>] \in Links
  BY <1>0 DEF Links
<1>7. ASSUME NEW q \in Seq(Frames)
      PROVE  [l EXCEPT !.st = "open", !.toDown = q] \in Links /\ [l EXCEPT !.toDown = q] \in Links
  BY DEF Links
<1> QED BY <1>1, <1>2, <1>3, <1>4, <1>5, <1>6, <1>7

Called(d) ==
  \/ Book!Submit(d) \/ Book!Issue(d) \/ Book!Approve(d, d) \/ Book!Reject(d)
  \/ \E s \in Reports : Book!Report(d, s)
  \/ UNCHANGED server

LEMMA Verdicts == \A t : Verdict(t) \in Reports
BY DEF Verdict, Reports

LEMMA CallTypes ==
  ASSUME TypeOK, NEW d \in Attempts, Called(d)
  PROVE  /\ status' \in [Attempts -> Statuses]
         /\ tokenOf' \in [Attempts -> Optional]
         /\ token' \in [Attempts -> {"none", "fresh", "used"}]
<1> USE DEF TypeOK, Optional, Statuses
<1>1. CASE Book!Submit(d)
  BY <1>1 DEF Book!Submit
<1>2. CASE Book!Issue(d)
  BY <1>2 DEF Book!Issue
<1>3. CASE Book!Approve(d, d)
  BY <1>3 DEF Book!Approve
<1>4. CASE Book!Reject(d)
  BY <1>4 DEF Book!Reject
<1>5. ASSUME NEW s \in Reports, Book!Report(d, s)
      PROVE  /\ status' \in [Attempts -> Statuses]
             /\ tokenOf' = tokenOf /\ token' = token
  BY <1>5 DEF Book!Report
<1>6. CASE UNCHANGED server
  BY <1>6 DEF server
<1> QED BY <1>1, <1>2, <1>3, <1>4, <1>5, <1>6 DEF Called

(***************************************************************************)
(* A download keeps its type when the fields of one step change.           *)
(***************************************************************************)
LEMMA TaskMoves ==
  ASSUME NEW f \in [Attempts -> Downloads], NEW d \in Attempts, NEW e \in Attempts, NEW t
  PROVE  LET g == [f EXCEPT ![d] = [f[d] EXCEPT !.task = t]]
         IN  /\ g[e].future = f[e].future /\ g[e].listener = f[e].listener
             /\ g[e].cancelled = f[e].cancelled
             /\ g[e].task = f[e].task \/ g[e].task = t
<1>1. CASE e = d
  BY <1>1 DEF Downloads
<1>2. CASE e # d
  BY <1>2
<1> QED BY <1>1, <1>2

LEMMA DownloadChanges ==
  ASSUME NEW r \in Downloads
  PROVE  /\ [r EXCEPT !.task = "asked"] \in Downloads
         /\ [r EXCEPT !.task = "failing"] \in Downloads
         /\ [r EXCEPT !.task = "ended"] \in Downloads
         /\ [r EXCEPT !.task = "waiting", !.future = "pending", !.listener = "open"] \in Downloads
         /\ [r EXCEPT !.task = "completing", !.listener = "none"] \in Downloads
         /\ [r EXCEPT !.task = "failing", !.listener = "none"] \in Downloads
         /\ [r EXCEPT !.cancelled = TRUE, !.future = "error"] \in Downloads
         /\ [r EXCEPT !.cancelled = TRUE, !.future = r.future] \in Downloads
         /\ [r EXCEPT !.listener = "taken"] \in Downloads
         /\ [r EXCEPT !.listener = r.listener] \in Downloads
         /\ r.future \in {"none", "pending", "saved", "error"}
         /\ \A f \in {"none", "pending", "saved", "error"} :
              /\ [r EXCEPT !.future = f] \in Downloads
              /\ [r EXCEPT !.future = f, !.listener = "none"] \in Downloads
BY DEF Downloads

LEMMA UploadChanges ==
  ASSUME NEW r \in Uploads
  PROVE  /\ r.n \in 0 .. Chunks
         /\ [r EXCEPT !.stopped = TRUE] \in Uploads
         /\ [r EXCEPT !.again = TRUE] \in Uploads
         /\ [r EXCEPT !.pc = "failing", !.n = 0, !.again = FALSE] \in Uploads
         /\ [r EXCEPT !.pc = "completing", !.n = 0, !.again = FALSE, !.sent = TRUE] \in Uploads
         /\ \A n \in 0 .. Chunks : [r EXCEPT !.pc = "ack", !.n = n, !.again = FALSE] \in Uploads
         /\ \A pc \in {"approving", "report", "connecting", "accept", "failing", "ended"} :
              [r EXCEPT !.pc = pc] \in Uploads
<1> USE DEF Uploads
<1>1. 0 \in 0 .. Chunks /\ r.n \in 0 .. Chunks
  OBVIOUS
<1>2. [r EXCEPT !.stopped = TRUE] \in Uploads /\ [r EXCEPT !.again = TRUE] \in Uploads
  OBVIOUS
<1>3. /\ [r EXCEPT !.pc = "failing", !.n = 0, !.again = FALSE] \in Uploads
      /\ [r EXCEPT !.pc = "completing", !.n = 0, !.again = FALSE, !.sent = TRUE] \in Uploads
  BY <1>1
<1>4. \A n \in 0 .. Chunks : [r EXCEPT !.pc = "ack", !.n = n, !.again = FALSE] \in Uploads
  OBVIOUS
<1>5. \A pc \in {"approving", "report", "connecting", "accept", "failing", "ended"} :
        [r EXCEPT !.pc = pc] \in Uploads
  OBVIOUS
<1> QED BY <1>1, <1>2, <1>3, <1>4, <1>5

LEMMA HandlerChanges ==
  ASSUME NEW h \in Handlers
  PROVE  /\ Gone \in Handlers
         /\ \A d \in Attempts, pc \in {"req", "queued"} : [h EXCEPT !.host = d, !.pc = pc] \in Handlers
         /\ \A i \in 1 .. Slots, f \in Attempts :
              [h EXCEPT !.pc = "loop", !.slot = i, !.ino = f] \in Handlers
         /\ [h EXCEPT !.got = h.got + 1] \in Handlers
         /\ h.slot \in 0 .. Slots /\ h.got \in Nat
<1> USE DEF Handlers, Optional
<1>1. Gone \in Handlers
  BY DEF Gone
<1>2. \A d \in Attempts, pc \in {"req", "queued"} : [h EXCEPT !.host = d, !.pc = pc] \in Handlers
  OBVIOUS
<1>3. \A i \in 1 .. Slots, f \in Attempts :
        [h EXCEPT !.pc = "loop", !.slot = i, !.ino = f] \in Handlers
  <2>1. 1 .. Slots \subseteq 0 .. Slots
    OBVIOUS
  <2> QED BY <2>1
<1>4. [h EXCEPT !.got = h.got + 1] \in Handlers
  OBVIOUS
<1> QED BY <1>1, <1>2, <1>3, <1>4

(***************************************************************************)
(* A request starts one task, or lets it end at once, and on the termux    *)
(* client ends the one of an earlier attempt.                              *)
(***************************************************************************)
LEMMA StartsUnused ==
  ASSUME NEW d \in Attempts, MayStart(d)
  PROVE  dl[d].task = "none"
BY DEF MayStart, Unused

Requested(d) == DesktopRequest(d) \/ TermuxRequest(d) \/ RequestFails(d)

LEMMA Requests ==
  ASSUME dl \in [Attempts -> Downloads], NEW d \in Attempts, Requested(d)
  PROVE  /\ dl[d].task = "none"
         /\ \A e \in Attempts :
              \/ dl'[e] = dl[e]
              \/ e = d /\ \E task \in {"asked", "ended"} : dl'[e] = [dl[e] EXCEPT !.task = task]
              \/ /\ Termux /\ dl[e].task \in {"asked", "waiting", "completing", "failing"}
                 /\ dl'[e] = [dl[e] EXCEPT !.task = "ended"]
         /\ dl' \in [Attempts -> Downloads]
<1>1. dl[d].task = "none"
  BY StartsUnused DEF Requested, DesktopRequest, TermuxRequest, RequestFails
<1>2. CASE \E task \in {"asked", "ended"} : StartTask(d, task)
  <2>1. PICK task \in {"asked", "ended"} : StartTask(d, task)
    BY <1>2
  <2>2. /\ dl' = [e \in Attempts |->
              IF e = d THEN [dl[e] EXCEPT !.task = task]
              ELSE IF e \in Replaced(d) THEN [dl[e] EXCEPT !.task = "ended"] ELSE dl[e]]
        /\ \A e \in Replaced(d) :
             Termux /\ dl[e].task \in {"asked", "waiting", "completing", "failing"}
    BY <2>1 DEF StartTask, Replaced
  <2>3. \A e \in Attempts : dl'[e] \in Downloads
    BY <2>2, DownloadChanges
  <2> QED BY <1>1, <2>2, <2>3
<1>3. CASE dl' = [dl EXCEPT ![d] = [dl[d] EXCEPT !.task = "asked"]]
  BY <1>1, <1>3, DownloadChanges
<1> QED BY <1>2, <1>3 DEF Requested, DesktopRequest, TermuxRequest, RequestFails

\* What else a task has is left as it was.
LEMMA RequestsLeave ==
  ASSUME dl \in [Attempts -> Downloads], NEW d \in Attempts, Requested(d), NEW e \in Attempts
  PROVE  /\ dl'[e].future = dl[e].future /\ dl'[e].listener = dl[e].listener
         /\ dl'[e].cancelled = dl[e].cancelled
         /\ \/ dl'[e].task = dl[e].task
            \/ e = d /\ dl[e].task = "none" /\ dl'[e].task \in {"asked", "ended"}
            \/ Termux /\ dl[e].task # "none" /\ dl'[e].task = "ended"
<1> dl[e] \in Downloads
  OBVIOUS
<1>1. ASSUME NEW task PROVE LET r == [dl[e] EXCEPT !.task = task]
                            IN  /\ r.future = dl[e].future /\ r.listener = dl[e].listener
                                /\ r.cancelled = dl[e].cancelled /\ r.task = task
  BY DEF Downloads
<1>2. CASE dl'[e] = dl[e]
  BY <1>2
<1>3. CASE e = d /\ \E task \in {"asked", "ended"} : dl'[e] = [dl[e] EXCEPT !.task = task]
  <2>1. PICK task \in {"asked", "ended"} : dl'[e] = [dl[e] EXCEPT !.task = task]
    BY <1>3
  <2>2. dl[e].task = "none"
    BY <1>3, Requests
  <2> QED BY <1>1, <1>3, <2>1, <2>2
<1>4. CASE /\ Termux /\ dl[e].task \in {"asked", "waiting", "completing", "failing"}
           /\ dl'[e] = [dl[e] EXCEPT !.task = "ended"]
  BY <1>1, <1>4
<1> QED BY <1>2, <1>3, <1>4, Requests

(***************************************************************************)
(* What the end of a handler, and the top of its loop, do to the types.    *)
(***************************************************************************)
Items == {"NONE", "PENDING", "ACTIVE", "DONE", "FAILED", "CANCELLED"}

HandlerTypes ==
  /\ dl' \in [Attempts -> Downloads] /\ item' \in [Attempts -> Items]
  /\ hnd' \in [Attempts -> Handlers] /\ link' \in [Attempts -> Links]
  /\ part' \in [Names -> [1 .. Slots -> Optional]]

LEMMA ResolveTypes ==
  ASSUME TypeOK, NEW d, NEW value \in {"saved", "error"}, Resolve(d, value)
  PROVE  dl' \in [Attempts -> Downloads]
<1>1. CASE d \notin Attempts
  BY <1>1 DEF TypeOK, Resolve
<1>2. CASE d \in Attempts
  <2>1. dl[d] \in Downloads
    BY <1>2 DEF TypeOK
  <2>2. /\ [dl[d] EXCEPT !.future = value] \in Downloads
        /\ [dl[d] EXCEPT !.future = dl[d].future] \in Downloads
    BY <2>1, DownloadChanges
  <2>3. \/ dl' = [dl EXCEPT ![d] = [dl[d] EXCEPT !.future = dl[d].future]]
        \/ dl' = [dl EXCEPT ![d] = [dl[d] EXCEPT !.future = value]]
    BY <1>2 DEF TypeOK, Resolve
  <2> QED BY <2>2, <2>3 DEF TypeOK
<1> QED BY <1>1, <1>2

LEMMA WakeTypes ==
  ASSUME TypeOK, NEW d \in Attempts, Wake(d)
  PROVE  dl' \in [Attempts -> Downloads]
<1>1. dl \in [Attempts -> Downloads]
  BY DEF TypeOK
<1>2. /\ [dl[d] EXCEPT !.task = "completing", !.listener = "none"] \in Downloads
      /\ [dl[d] EXCEPT !.task = "failing", !.listener = "none"] \in Downloads
  BY <1>1, DownloadChanges
<1>3. CASE dl[d].future = "saved"
  <2>1. dl' = [dl EXCEPT ![d] = [dl[d] EXCEPT !.task = "completing", !.listener = "none"]]
    BY <1>3 DEF Wake
  <2> QED BY <1>1, <1>2, <2>1
<1>4. CASE dl[d].future # "saved"
  <2>1. dl' = [dl EXCEPT ![d] = [dl[d] EXCEPT !.task = "failing", !.listener = "none"]]
    BY <1>4 DEF Wake
  <2> QED BY <1>1, <1>2, <2>1
<1> QED BY <1>3, <1>4

LEMMA CancelTypes ==
  ASSUME TypeOK, NEW s \in Songs, Cancel(s)
  PROVE  dl' \in [Attempts -> Downloads]
<1>1. dl \in [Attempts -> Downloads] /\ registered[s] \in Optional
  BY DEF TypeOK
<1>2. CASE registered[s] = NoAttempt
  BY <1>1, <1>2 DEF Cancel
<1>3. CASE registered[s] # NoAttempt
  <2> DEFINE d == registered[s]
  <2>1. d \in Attempts
    BY <1>1, <1>3 DEF Optional
  <2>2. /\ [dl[d] EXCEPT !.cancelled = TRUE, !.future = "error"] \in Downloads
        /\ [dl[d] EXCEPT !.cancelled = TRUE, !.future = dl[d].future] \in Downloads
    BY <1>1, <2>1, DownloadChanges
  <2>3. CASE dl[d].future = "pending"
    <3>1. dl' = [dl EXCEPT ![d] = [dl[d] EXCEPT !.cancelled = TRUE, !.future = "error"]]
      BY <1>3, <2>3 DEF Cancel
    <3> QED BY <1>1, <2>1, <2>2, <3>1
  <2>4. CASE dl[d].future # "pending"
    <3>1. dl' = [dl EXCEPT ![d] = [dl[d] EXCEPT !.cancelled = TRUE, !.future = dl[d].future]]
      BY <1>3, <2>4 DEF Cancel
    <3> QED BY <1>1, <2>1, <2>2, <3>1
  <2> QED BY <2>3, <2>4
<1> QED BY <1>2, <1>3

LEMMA ShowTypes ==
  ASSUME TypeOK, NEW s \in Songs, NEW value \in Items, Show(s, value)
  PROVE  item' \in [Attempts -> Items]
BY DEF TypeOK, Show, Items

LEMMA FailTypes ==
  ASSUME TypeOK, NEW u \in Attempts, NEW slot \in 0 .. Slots, NEW l \in Links,
         HandlerFails(u, slot, l)
  PROVE  HandlerTypes
<1> USE DEF HandlerFails
<1>1. dl' \in [Attempts -> Downloads]
  BY ResolveTypes
<1>2. item' \in [Attempts -> Items]
  <2>1. item' = item \/ \E d : item' = [item EXCEPT ![d] = "FAILED"]
    BY DEF Show
  <2> QED BY <2>1 DEF TypeOK, Items
<1>3. hnd' \in [Attempts -> Handlers]
  BY HandlerChanges DEF TypeOK
<1>4. link' \in [Attempts -> Links]
  BY LinkOps DEF TypeOK, Ends
<1>5. part' \in [Names -> [1 .. Slots -> Optional]]
  <2>1. part' = part \/ part' = [part EXCEPT ![NameOf[SongOf[u]]] = [@ EXCEPT ![slot] = NoAttempt]]
    OBVIOUS
  <2>2. NoAttempt \in Optional /\ part \in [Names -> [1 .. Slots -> Optional]]
    BY DEF TypeOK, Optional
  <2> QED BY <2>1, <2>2
<1> QED BY <1>1, <1>2, <1>3, <1>4, <1>5 DEF HandlerTypes

LEMMA LoopTypes ==
  ASSUME TypeOK, NEW u \in Attempts, NEW h \in Handlers, NEW l \in Links,
         NEW p \in [Names -> [1 .. Slots -> Optional]], LoopTop(u, h, l, p)
  PROVE  HandlerTypes
<1>1. CASE dl[Host(u)].cancelled /\ h.got < Chunks
  <2>1. Put(l, "up", Frame("FAIL")) \in Links /\ h.slot \in 0 .. Slots
    BY LinkOps, FrameTypes, HandlerChanges DEF Ends, Signals
  <2> QED BY <1>1, <2>1, FailTypes DEF LoopTop
<1>2. CASE ~(dl[Host(u)].cancelled /\ h.got < Chunks)
  <2>1. /\ hnd' = [hnd EXCEPT ![u] = h] /\ link' = [link EXCEPT ![u] = l]
        /\ part' = p /\ dl' = dl /\ item' = item
    BY <1>2 DEF LoopTop
  <2>2. hnd' \in [Attempts -> Handlers] /\ link' \in [Attempts -> Links]
    BY <2>1 DEF TypeOK
  <2> QED BY <2>1, <2>2 DEF HandlerTypes, TypeOK, Items
<1> QED BY <1>1, <1>2

LEMMA TypeInit == Init => TypeOK
<1> SUFFICES ASSUME Init PROVE TypeOK
  OBVIOUS
<1>1. downloader \in Clients /\ provider \in Clients
  BY DEF Init
<1>2. NoLink \in Links
  BY EmptySeq DEF NoLink, Links
<1>3. Blank \in [1 .. Chunks -> Pieces \union {Hole}]
  BY DEF Blank
<1>4. 1 .. Slots \subseteq Nat /\ 0 \in 0 .. Slots /\ 0 \in 0 .. Chunks /\ 0 \in 0 .. MaxFaults
  OBVIOUS
<1>5. dl \in [Attempts -> Downloads] /\ up \in [Attempts -> Uploads] /\ hnd \in [Attempts -> Handlers]
  BY <1>4 DEF Init, Downloads, Uploads, Handlers, Optional
<1> QED BY <1>1, <1>2, <1>3, <1>4, <1>5 DEF Init, TypeOK, Statuses, Optional

(***************************************************************************)
(* A provider that waits for an answer has sent a chunk.                   *)
(***************************************************************************)
Sending == \A u \in Attempts : up[u].pc = "ack" => up[u].n # 0

LEMMA SendingStep == TypeOK /\ Sending /\ [Next]_vars => Sending'
<1> SUFFICES ASSUME TypeOK, Sending, [Next]_vars, NEW v \in Attempts, up'[v].pc = "ack"
             PROVE  up'[v].n # 0
  BY DEF Sending
<1>a. up \in [Attempts -> Uploads] /\ (up[v].pc = "ack" => up[v].n # 0)
  BY DEF TypeOK, Sending
<1> USE DEF Provider, ui
<1>0. ASSUME NEW u \in Attempts, NEW l, GiveUp(u, l) PROVE up'[v].n # 0
  <2>1. up' = [up EXCEPT ![u] = [up[u] EXCEPT !.pc = "failing", !.n = 0, !.again = FALSE]]
    BY <1>0 DEF GiveUp
  <2>2. [up[u] EXCEPT !.pc = "failing", !.n = 0, !.again = FALSE].pc # "ack"
    BY <1>a DEF Uploads
  <2> QED BY <1>a, <2>1, <2>2
<1>1. ASSUME NEW u \in Attempts, NEW l, SendChunk(u, l) PROVE up'[v].n # 0
  <2>1. up[u] \in Uploads /\ up[u].n \in 0 .. Chunks
    BY <1>a, UploadChanges
  <2>2. CASE \E k : GiveUp(u, k)
    BY <1>0, <2>2
  <2>3. CASE \/ up' = [up EXCEPT ![u] = [up[u] EXCEPT !.pc = "completing", !.n = 0, !.again = FALSE, !.sent = TRUE]]
             \/ up' = [up EXCEPT ![u] = [up[u] EXCEPT !.pc = "ack", !.n = up[u].n + 1, !.again = FALSE]]
    <3>1. [up[u] EXCEPT !.pc = "completing", !.n = 0, !.again = FALSE, !.sent = TRUE].pc # "ack"
      BY <2>1 DEF Uploads
    <3>2. [up[u] EXCEPT !.pc = "ack", !.n = up[u].n + 1, !.again = FALSE].n # 0
      BY <2>1 DEF Uploads
    <3> QED BY <1>a, <2>3, <3>1, <3>2
  <2> QED BY <1>1, <2>2, <2>3 DEF SendChunk
<1>2. ASSUME NEW u \in Attempts,
             \/ GetAccept(u) \/ GetAck(u) \/ GetOther(u) \/ SenderTimeout(u) \/ UploadCut(u)
      PROVE  up'[v].n # 0
  BY <1>0, <1>1, <1>2 DEF GetAccept, GetAck, GetOther, SenderTimeout, UploadCut
<1>3. ASSUME NEW u \in Attempts, HandlerStep(u) \/ TaskStep(u) PROVE up'[v].n # 0
  BY <1>a, <1>3 DEF HandlerStep, HandlerReq, HandlerChunk, HandlerStopped, HandlerEnd, ThreadReq,
     ThreadChunk, ThreadEnd, ThreadStopped, TaskStep, Listen, Deadline, Wake, Report
<1>4. ASSUME NEW u \in Attempts,
             \/ Approved(u) \/ ApprovalRefused(u) \/ StartUpload(u) \/ Connect(u) \/ ConnectRefused(u)
             \/ GetNack(u) \/ UploadReport(u) \/ OwnerRejects(u) \/ OwnerApproves(u) \/ StartFails(u)
             \/ CancelUpload(u) \/ UploadReportFails(u) \/ Damage(u) \/ Break(u)
      PROVE  up'[v].n # 0
  <2>1. \/ up' = up
        \/ \E pc : pc # "ack" /\ up' = [up EXCEPT ![u] = [up[u] EXCEPT !.pc = pc]]
        \/ up' = [up EXCEPT ![u] = [up[u] EXCEPT !.stopped = TRUE]]
        \/ up' = [up EXCEPT ![u] = [up[u] EXCEPT !.again = TRUE]]
    <3>1. CASE Approved(u) \/ ApprovalRefused(u) \/ StartUpload(u) \/ Connect(u) \/ ConnectRefused(u)
      BY <3>1 DEF Approved, ApprovalRefused, StartUpload, Connect, ConnectRefused
    <3>2. CASE UploadReport(u) \/ OwnerApproves(u) \/ StartFails(u) \/ UploadReportFails(u)
      BY <3>2 DEF UploadReport, OwnerApproves, StartFails, UploadReportFails
    <3>3. CASE GetNack(u) \/ CancelUpload(u) \/ OwnerRejects(u) \/ Damage(u) \/ Break(u)
      BY <3>3 DEF GetNack, CancelUpload, OwnerRejects, Damage, Break
    <3> QED BY <1>4, <3>1, <3>2, <3>3
  <2>2. up[u] \in Uploads
    BY <1>a
  <2>3. ASSUME NEW pc, pc # "ack" PROVE [up[u] EXCEPT !.pc = pc].pc # "ack"
    BY <2>2, <2>3 DEF Uploads
  <2>4. /\ [up[u] EXCEPT !.stopped = TRUE].pc = up[u].pc /\ [up[u] EXCEPT !.stopped = TRUE].n = up[u].n
        /\ [up[u] EXCEPT !.again = TRUE].pc = up[u].pc /\ [up[u] EXCEPT !.again = TRUE].n = up[u].n
    BY <2>2 DEF Uploads
  <2> QED BY <1>a, <2>1, <2>3, <2>4
<1>5. CASE \/ \E d \in Attempts : \/ DesktopRequest(d) \/ TermuxRequest(d) \/ RequestFails(d)
                                  \/ ReportFails(d)
           \/ \E s \in Songs : Cancel(s)
  BY <1>a, <1>5 DEF DesktopRequest, TermuxRequest, RequestFails, ReportFails, Cancel
<1>6. CASE UNCHANGED vars
  BY <1>a, <1>6 DEF vars
<1> QED BY <1>2, <1>3, <1>4, <1>5, <1>6 DEF Next, UploadStep, Environment, Rest

LEMMA TypeStep == TypeOK /\ Sending /\ [Next]_vars => TypeOK'
<1> SUFFICES ASSUME TypeOK, Sending, [Next]_vars PROVE TypeOK'
  OBVIOUS
<1> USE DEF TypeOK, ui, files, Provider
<1>a. \A d \in Attempts : SongOf[d] \in Songs
  OBVIOUS
<1>d. \A d \in Attempts :
        /\ dl[d] \in Downloads
        /\ [dl[d] EXCEPT !.task = "asked"] \in Downloads
        /\ [dl[d] EXCEPT !.task = "failing"] \in Downloads
        /\ [dl[d] EXCEPT !.task = "ended"] \in Downloads
        /\ [dl[d] EXCEPT !.task = "completing", !.listener = "none"] \in Downloads
        /\ [dl[d] EXCEPT !.task = "failing", !.listener = "none"] \in Downloads
        /\ [dl[d] EXCEPT !.cancelled = TRUE, !.future = "error"] \in Downloads
        /\ [dl[d] EXCEPT !.cancelled = TRUE, !.future = dl[d].future] \in Downloads
  BY DownloadChanges
<1>l. \A u \in Attempts :
        /\ link[u] \in Links
        /\ AtDown(u) => TakeDown(u) \in Links /\ Head(link[u].toDown) \in Frames
        /\ AtUp(u) => TakeUp(u) \in Links /\ Head(link[u].toUp) \in Frames
  BY LinkOps DEF AtDown, AtUp, TakeDown, TakeUp
<1>u. \A u \in Attempts :
        /\ up[u] \in Uploads
        /\ [up[u] EXCEPT !.stopped = TRUE] \in Uploads
        /\ \A pc \in {"approving", "report", "connecting", "accept", "failing", "ended"} :
             [up[u] EXCEPT !.pc = pc] \in Uploads
  BY UploadChanges
<1>r. ASSUME NEW d \in Attempts, DesktopRequest(d) \/ TermuxRequest(d) \/ RequestFails(d) PROVE TypeOK'
  <2>1. Called(d)
    BY <1>r DEF DesktopRequest, TermuxRequest, RequestFails, Called
  <2>2. dl' \in [Attempts -> Downloads]
    BY <1>r, Requests DEF Requested
  <2>3. entry' \in [Songs -> Optional] /\ registered' \in [Songs -> Optional]
    <3>1. entry' = entry \/ entry' = [entry EXCEPT ![SongOf[d]] = d]
      BY <1>r DEF DesktopRequest, RequestFails, TermuxRequest
    <3>2. registered' = registered \/ registered' = [registered EXCEPT ![SongOf[d]] = NoAttempt]
      BY <1>r DEF DesktopRequest, RequestFails, TermuxRequest
    <3>3. d \in Optional /\ NoAttempt \in Optional
      BY DEF Optional
    <3>4. entry \in [Songs -> Optional] /\ registered \in [Songs -> Optional]
      OBVIOUS
    <3>5. entry' \in [Songs -> Optional]
      BY <3>1, <3>3, <3>4
    <3>6. registered' \in [Songs -> Optional]
      BY <3>2, <3>3, <3>4
    <3> QED BY <3>5, <3>6
  <2>4. item' \in [Attempts -> {"NONE", "PENDING", "ACTIVE", "DONE", "FAILED", "CANCELLED"}]
    BY <1>r DEF DesktopRequest, TermuxRequest, RequestFails
  <2>5. faults' \in 0 .. MaxFaults
    BY <1>r DEF DesktopRequest, TermuxRequest, RequestFails, Fault
  <2>7. lost' \in BOOLEAN
    BY <1>r, Zenon DEF DesktopRequest, TermuxRequest, RequestFails
  <2>6. UNCHANGED <<downloader, provider, up, link, hnd, files>>
    BY <1>r DEF DesktopRequest, TermuxRequest, RequestFails
  <2> QED BY <2>1, <2>2, <2>3, <2>4, <2>5, <2>6, <2>7, CallTypes
<1>t. ASSUME NEW d \in Attempts, Listen(d) \/ Deadline(d) \/ Wake(d) PROVE TypeOK'
  <2>2. dl' \in [Attempts -> Downloads]
    <3>1. CASE Listen(d)
      <4>1. dl' = [dl EXCEPT ![d] =
              IF PortFree
              THEN [dl[d] EXCEPT !.task = "waiting", !.future = "pending", !.listener = "open"]
              ELSE [dl[d] EXCEPT !.task = "failing"]]
        BY <3>1 DEF Listen
      <4> QED BY <4>1, DownloadChanges
    <3>2. CASE Deadline(d)
      <4>1. dl' = [dl EXCEPT ![d] = [dl[d] EXCEPT !.future = "error", !.listener = "none"]]
        BY <3>2 DEF Deadline
      <4> QED BY <4>1, DownloadChanges
    <3>3. CASE Wake(d)
      BY <3>3, WakeTypes
    <3> QED BY <1>t, <3>1, <3>2, <3>3
  <2>3. registered' \in [Songs -> Optional]
    BY <1>t DEF Listen, Deadline, Wake, Optional
  <2>4. item' \in [Attempts -> {"NONE", "PENDING", "ACTIVE", "DONE", "FAILED", "CANCELLED"}]
    <3>1. item' = item \/ \E x \in {"ACTIVE", "DONE", "FAILED"} : item' = [item EXCEPT ![d] = x]
      <4>1. CASE Listen(d)
        BY <4>1 DEF Listen
      <4>2. CASE Deadline(d)
        BY <4>2 DEF Deadline
      <4>3. CASE Wake(d)
        BY <4>3 DEF Wake
      <4> QED BY <1>t, <4>1, <4>2, <4>3
    <3> QED BY <3>1
  <2>6. UNCHANGED <<downloader, provider, server, entry, up, link, hnd, files, faults, lost>>
    BY <1>t DEF Listen, Deadline, Wake
  <2> QED BY <2>2, <2>3, <2>4, <2>6 DEF server
<1>e. ASSUME NEW d \in Attempts, Report(d) \/ ReportFails(d) PROVE TypeOK'
  <2>1. Called(d)
    BY <1>e, Verdicts DEF Report, ReportFails, Called
  <2>2. dl' \in [Attempts -> Downloads]
    <3>1. \/ dl' = [dl EXCEPT ![d] = [dl[d] EXCEPT !.task = "failing"]]
          \/ dl' = [dl EXCEPT ![d] = [dl[d] EXCEPT !.task = "ended"]]
      BY <1>e DEF Report, ReportFails, EndTask
    <3>2. CASE dl' = [dl EXCEPT ![d] = [dl[d] EXCEPT !.task = "failing"]]
      BY <3>2, <1>d
    <3>3. CASE dl' = [dl EXCEPT ![d] = [dl[d] EXCEPT !.task = "ended"]]
      BY <3>3, <1>d
    <3> QED BY <3>1, <3>2, <3>3
  <2>3. registered' \in [Songs -> Optional]
    BY <1>e DEF Report, ReportFails, EndTask, Optional
  <2>4. item' \in [Attempts -> {"NONE", "PENDING", "ACTIVE", "DONE", "FAILED", "CANCELLED"}]
    BY <1>e DEF Report, ReportFails
  <2>5. faults' \in 0 .. MaxFaults
    BY <1>e DEF Report, ReportFails, Fault
  <2>7. lost' \in BOOLEAN
    BY <1>e, Zenon DEF Report, ReportFails
  <2>6. UNCHANGED <<downloader, provider, entry, up, link, hnd, files>>
    BY <1>e DEF Report, ReportFails
  <2> QED BY <2>1, <2>2, <2>3, <2>4, <2>5, <2>6, <2>7, CallTypes
<1>c. ASSUME NEW s \in Songs, Cancel(s) PROVE TypeOK'
  <2>2. dl' \in [Attempts -> Downloads]
    BY <1>c, CancelTypes
  <2>4. item' \in [Attempts -> {"NONE", "PENDING", "ACTIVE", "DONE", "FAILED", "CANCELLED"}]
    BY <1>c DEF Cancel
  <2>5. faults' \in 0 .. MaxFaults
    BY <1>c DEF Cancel, Fault
  <2>6. UNCHANGED <<downloader, provider, server, entry, registered, up, link, hnd, files, lost>>
    BY <1>c DEF Cancel
  <2> QED BY <2>2, <2>4, <2>5, <2>6 DEF server
<1>s. \A u \in Attempts :
        /\ hnd[u] \in Handlers /\ hnd[u].slot \in 0 .. Slots
        /\ Gone \in Handlers
        /\ [hnd[u] EXCEPT !.got = hnd[u].got + 1] \in Handlers
        /\ \A i \in 1 .. Slots, f \in Attempts :
             [hnd[u] EXCEPT !.pc = "loop", !.slot = i, !.ino = f] \in Handlers
  BY HandlerChanges
<1>p. \A u \in Attempts, e \in Ends, t \in Signals :
        AtDown(u) => Put(TakeDown(u), e, Frame(t)) \in Links
  BY <1>l, LinkOps, FrameTypes
<1>b. \A f \in Attempts : [data EXCEPT ![f] = Blank] \in [Attempts -> [1 .. Chunks -> Pieces \union {Hole}]]
  BY DEF Blank
<1>w. ASSUME NEW u \in Attempts, AtDown(u), Head(link[u].toDown).type = "CHUNK",
             NEW f, NEW n,
             data' = [data EXCEPT ![f][n] = <<SongOf[u], Head(link[u].toDown).n>>]
      PROVE  data' \in [Attempts -> [1 .. Chunks -> Pieces \union {Hole}]]
  <2>1. Head(link[u].toDown).n \in 1 .. Chunks
    BY <1>w, <1>l DEF Frames, Signals
  <2>2. <<SongOf[u], Head(link[u].toDown).n>> \in Pieces
    BY <2>1 DEF Pieces
  <2> QED BY <1>w, <2>2
<1>q. ASSUME NEW u \in Attempts, HandlerReq(u) PROVE TypeOK'
  <2>1. UNCHANGED <<downloader, provider, server, entry, registered, up, folder, faults, lost>>
    BY <1>q DEF HandlerReq
  <2>2. CASE SongOf[u] # SongOf[Host(u)]
    <3>1. Close(Put(TakeDown(u), "up", Frame("FAIL")), "down") \in Links
      BY <1>q, <1>p, LinkOps DEF HandlerReq, Ends, Signals
    <3>2. /\ hnd' = [hnd EXCEPT ![u] = Gone]
          /\ link' = [link EXCEPT ![u] = Close(Put(TakeDown(u), "up", Frame("FAIL")), "down")]
          /\ UNCHANGED <<part, data, dl, item>>
      BY <1>q, <2>2 DEF HandlerReq
    <3> QED BY <2>1, <3>1, <3>2, <1>s DEF server
  <2>3. CASE OpenPart(u)
    <3> DEFINE n == NameOf[SongOf[u]]
               f(i) == IF part[n][i] = NoAttempt THEN u ELSE part[n][i]
    <3>1. PICK i \in 1 .. Slots :
            /\ data' = [data EXCEPT ![f(i)] = Blank]
            /\ LoopTop(u, [hnd[u] EXCEPT !.pc = "loop", !.slot = i, !.ino = f(i)],
                       Put(TakeDown(u), "up", Frame("ACCEPT")), [part EXCEPT ![n][i] = f(i)])
      BY <2>3 DEF OpenPart
    <3>2. f(i) \in Attempts
      BY DEF Optional
    <3>3. [part EXCEPT ![n][i] = f(i)] \in [Names -> [1 .. Slots -> Optional]]
      BY <3>2 DEF Optional
    <3>4. Put(TakeDown(u), "up", Frame("ACCEPT")) \in Links
      BY <1>q, <1>p DEF HandlerReq, Ends, Signals
    <3>5. HandlerTypes
      <4> HIDE DEF f, TypeOK
      <4> QED BY <3>1, <3>2, <3>3, <3>4, <1>s, LoopTypes
    <3> QED BY <2>1, <3>1, <3>2, <3>5, <1>b DEF HandlerTypes, server, Items
  <2> QED BY <1>q, <2>2, <2>3 DEF HandlerReq
<1>k. ASSUME NEW u \in Attempts, HandlerChunk(u) PROVE TypeOK'
  <2> DEFINE m == Head(link[u].toDown)
  <2>1. UNCHANGED <<downloader, provider, server, entry, registered, up, folder, faults, lost>>
    BY <1>k DEF HandlerChunk
  <2>2. /\ Put(TakeDown(u), "up", Frame("NACK")) \in Links
        /\ Put(TakeDown(u), "up", Frame("ACK")) \in Links
    BY <1>k, <1>p DEF HandlerChunk, Ends, Signals
  <2>3. part \in [Names -> [1 .. Slots -> Optional]]
    OBVIOUS
  <2>4. HandlerTypes
    <3>1. \E h \in {hnd[u], [hnd[u] EXCEPT !.got = hnd[u].got + 1]} :
            \/ LoopTop(u, h, Put(TakeDown(u), "up", Frame("NACK")), part)
            \/ LoopTop(u, h, Put(TakeDown(u), "up", Frame("ACK")), part)
      BY <1>k DEF HandlerChunk
    <3> HIDE DEF TypeOK
    <3> QED BY <3>1, <2>2, <2>3, <1>s, LoopTypes
  <2>5. data' \in [Attempts -> [1 .. Chunks -> Pieces \union {Hole}]]
    <3>1. CASE UNCHANGED data
      BY <3>1
    <3>2. CASE m.type = "CHUNK" /\ data' = [data EXCEPT ![hnd[u].ino][hnd[u].got + 1] = <<SongOf[u], m.n>>]
      BY <1>k, <3>2, <1>w DEF HandlerChunk
    <3> QED BY <1>k, <3>1, <3>2 DEF HandlerChunk
  <2> QED BY <2>1, <2>4, <2>5 DEF HandlerTypes, server, Items
<1>1. ASSUME NEW u \in Attempts, OwnerRejects(u) \/ OwnerApproves(u) \/ Approved(u)
                 \/ ApprovalRefused(u) \/ StartUpload(u) \/ StartFails(u) \/ UploadReport(u)
                 \/ UploadReportFails(u) \/ ConnectRefused(u) \/ CancelUpload(u)
      PROVE  TypeOK'
  <2> USE DEF OwnerRejects, OwnerApproves, Approved, ApprovalRefused, StartUpload, StartFails,
              UploadReport, UploadReportFails, ConnectRefused, CancelUpload
  <2>1. Called(u)
    BY <1>1, Verdicts DEF Called, Reports
  <2>2. \/ up' = up
        \/ \E pc \in {"approving", "report", "connecting", "failing", "ended"} :
             up' = [up EXCEPT ![u] = [up[u] EXCEPT !.pc = pc]]
        \/ up' = [up EXCEPT ![u] = [up[u] EXCEPT !.stopped = TRUE]]
    BY <1>1
  <2>3. up' \in [Attempts -> Uploads]
    <3>1. CASE \E pc \in {"approving", "report", "connecting", "failing", "ended"} :
                 up' = [up EXCEPT ![u] = [up[u] EXCEPT !.pc = pc]]
      <4>1. PICK pc \in {"approving", "report", "connecting", "failing", "ended"} :
                 up' = [up EXCEPT ![u] = [up[u] EXCEPT !.pc = pc]]
        BY <3>1
      <4>2. [up[u] EXCEPT !.pc = pc] \in Uploads
        BY <1>u
      <4> QED BY <4>1, <4>2
    <3> QED BY <2>2, <3>1, <1>u
  <2>4. faults' \in 0 .. MaxFaults
    BY <1>1 DEF Fault
  <2>5. lost' \in BOOLEAN
    BY <1>1, Zenon
  <2>6. UNCHANGED <<downloader, provider, dl, entry, item, registered, hnd, files, link>>
    BY <1>1
  <2> QED BY <2>1, <2>3, <2>4, <2>5, <2>6, CallTypes
<1>x. ASSUME NEW u \in Attempts, HandlerStopped(u) PROVE TypeOK'
  <2>1. UNCHANGED <<downloader, provider, server, entry, registered, up, folder, data, faults, lost>>
    BY <1>x DEF HandlerStopped
  <2>2. HandlerTypes
    <3>1. HandlerFails(u, hnd[u].slot, link[u])
      BY <1>x DEF HandlerStopped
    <3> QED BY <3>1, <1>s, <1>l, FailTypes
  <2> QED BY <2>1, <2>2 DEF HandlerTypes, server, Items
<1>f. ASSUME NEW u \in Attempts, HandlerEnd(u) PROVE TypeOK'
  <2> DEFINE s == SongOf[u]
             n == NameOf[s]
             i == hnd[u].slot
  <2>1. UNCHANGED <<downloader, provider, server, entry, registered, up, data, faults, lost>>
    BY <1>f DEF HandlerEnd
  <2>2. CASE part[n][i] # NoAttempt /\ data[part[n][i]] = Whole(s)
    <3>1. /\ folder' = [folder EXCEPT ![n] = [@ EXCEPT ![i] = part[n][i]]]
          /\ part' = [part EXCEPT ![n] = [@ EXCEPT ![i] = NoAttempt]]
          /\ hnd' = [hnd EXCEPT ![u] = Gone]
          /\ link' = [link EXCEPT ![u] = Close(@, "down")]
          /\ Show(s, "DONE")
          /\ Resolve(Host(u), "saved")
      BY <1>f, <2>2 DEF HandlerEnd
    <3>2. dl' \in [Attempts -> Downloads] /\ item' \in [Attempts -> Items]
      BY <3>1, ResolveTypes, ShowTypes DEF Items
    <3>3. hnd' \in [Attempts -> Handlers] /\ link' \in [Attempts -> Links]
      BY <3>1, <1>s, <1>l, LinkOps DEF Ends
    <3>4. part' \in [Names -> [1 .. Slots -> Optional]]
      BY <3>1 DEF Optional
    <3>5. folder' \in [Names -> [1 .. Slots -> Optional]]
      <4>1. \A j \in 1 .. Slots : [folder[n] EXCEPT ![i] = part[n][i]][j] \in Optional
        OBVIOUS
      <4> QED BY <3>1, <4>1
    <3> QED BY <2>1, <3>2, <3>3, <3>4, <3>5 DEF server, Items
  <2>3. CASE HandlerFails(u, hnd[u].slot, link[u]) /\ UNCHANGED folder
    <3>1. HandlerTypes
      BY <2>3, <1>s, <1>l, FailTypes
    <3> QED BY <2>1, <2>3, <3>1 DEF HandlerTypes, server, Items
  <2> QED BY <1>f, <2>2, <2>3 DEF HandlerEnd
<1>2. ASSUME NEW u \in Attempts, ThreadReq(u) PROVE TypeOK'
  <2>1. UNCHANGED <<downloader, provider, server, dl, ui, up, part, faults, lost>>
    BY <1>2 DEF ThreadReq
  <2>2. PICK i \in {1, 2}, f \in Attempts :
          /\ hnd' = [hnd EXCEPT ![u] = [hnd[u] EXCEPT !.pc = "loop", !.slot = i, !.ino = f]]
          /\ folder' = [folder EXCEPT ![NameOf[SongOf[u]]][i] = f]
          /\ data' = [data EXCEPT ![f] = Blank]
          /\ link' = [link EXCEPT ![u] = Put(TakeDown(u), "up", Frame("ACCEPT"))]
    <3> DEFINE n == NameOf[SongOf[u]]
               i == IF folder[n][1] = NoAttempt THEN 1 ELSE 2
               f == IF folder[n][i] = NoAttempt THEN u ELSE folder[n][i]
    <3>1. i \in {1, 2} /\ i \in 1 .. Slots
      OBVIOUS
    <3>2. f \in Attempts
      BY <3>1 DEF Optional
    <3>3. /\ hnd' = [hnd EXCEPT ![u] = [hnd[u] EXCEPT !.pc = "loop", !.slot = i, !.ino = f]]
          /\ folder' = [folder EXCEPT ![NameOf[SongOf[u]]][i] = f]
          /\ data' = [data EXCEPT ![f] = Blank]
          /\ link' = [link EXCEPT ![u] = Put(TakeDown(u), "up", Frame("ACCEPT"))]
      BY <1>2 DEF ThreadReq
    <3> HIDE DEF i, f
    <3> QED BY <3>1, <3>2, <3>3
  <2>3. i \in 1 .. Slots
    OBVIOUS
  <2>4. hnd' \in [Attempts -> Handlers]
    BY <2>2, <2>3, <1>s
  <2>5. link' \in [Attempts -> Links]
    BY <1>2, <2>2, <1>p DEF ThreadReq, Ends, Signals
  <2>6. folder' \in [Names -> [1 .. Slots -> Optional]]
    BY <2>2, <2>3 DEF Optional
  <2> QED BY <2>1, <2>2, <2>4, <2>5, <2>6, <1>b DEF server
<1>3. ASSUME NEW u \in Attempts, ThreadChunk(u) PROVE TypeOK'
  <2> DEFINE m == Head(link[u].toDown)
  <2>1. UNCHANGED <<downloader, provider, server, dl, ui, up, folder, part, faults, lost>>
    BY <1>3 DEF ThreadChunk
  <2>2. link' \in [Attempts -> Links]
    <3>1. \E t \in Signals : link' = [link EXCEPT ![u] = Put(TakeDown(u), "up", Frame(t))]
      BY <1>3 DEF ThreadChunk, Signals
    <3> QED BY <1>3, <3>1, <1>p DEF ThreadChunk, Ends
  <2>3. hnd' \in [Attempts -> Handlers]
    <3>1. hnd' = hnd \/ hnd' = [hnd EXCEPT ![u] = [hnd[u] EXCEPT !.got = hnd[u].got + 1]]
      BY <1>3 DEF ThreadChunk
    <3> QED BY <3>1, <1>s
  <2>4. data' \in [Attempts -> [1 .. Chunks -> Pieces \union {Hole}]]
    <3>1. CASE UNCHANGED data
      BY <3>1
    <3>2. CASE m.type = "CHUNK" /\ data' = [data EXCEPT ![hnd[u].ino][hnd[u].got + 1] = <<SongOf[u], m.n>>]
      BY <1>3, <3>2, <1>w DEF ThreadChunk
    <3> QED BY <1>3, <3>1, <3>2 DEF ThreadChunk
  <2> QED BY <2>1, <2>2, <2>3, <2>4 DEF server
<1>4. ASSUME NEW u \in Attempts, ThreadEnd(u) \/ ThreadStopped(u) PROVE TypeOK'
  <2>1. UNCHANGED <<downloader, provider, server, ui, up, files, faults, lost>>
    BY <1>4 DEF ThreadEnd, ThreadStopped
  <2>2. PICK result \in {"saved", "error"} : ThreadReturns(u, result)
    BY <1>4 DEF ThreadEnd, ThreadStopped
  <2>3. dl' \in [Attempts -> Downloads]
    <3>1. dl' = [dl EXCEPT ![Host(u)] = [dl[Host(u)] EXCEPT !.future = result, !.listener = "none"]]
      BY <2>2 DEF ThreadReturns
    <3>2. CASE Host(u) \in Attempts
      BY <3>1, <3>2, DownloadChanges
    <3>3. CASE Host(u) \notin Attempts
      BY <3>1, <3>3
    <3> QED BY <3>2, <3>3
  <2>4. hnd' \in [Attempts -> Handlers]
    BY <2>2, <1>s DEF ThreadReturns
  <2>5. link' \in [Attempts -> Links]
    <3>1. \A v \in Attempts : [link[v] EXCEPT !.st = "reset"] \in Links
      BY <1>l, LinkOps
    <3>2. \A v \in Attempts : /\ Close(link[v], "down") \in Links
                              /\ Close([link[v] EXCEPT !.st = "reset"], "down") \in Links
      BY <1>l, <3>1, LinkOps DEF Ends
    <3> QED BY <2>2, <3>2, <1>l DEF ThreadReturns
  <2> QED BY <2>1, <2>3, <2>4, <2>5 DEF server
<1>5. ASSUME NEW u \in Attempts, Connect(u) PROVE TypeOK'
  <2>1. UNCHANGED <<downloader, provider, server, ui, files, faults, lost>>
    BY <1>5 DEF Connect
  <2>2. PICK d \in Attempts :
          /\ hnd' = [hnd EXCEPT ![u].host = d,
                                ![u].pc = IF dl[d].listener = "open" THEN "req" ELSE "queued"]
          /\ dl' = [dl EXCEPT ![d].listener = IF Termux THEN "taken" ELSE @]
    BY <1>5 DEF Connect
  <2>3. hnd' \in [Attempts -> Handlers]
    <3>1. \/ hnd' = [hnd EXCEPT ![u] = [hnd[u] EXCEPT !.host = d, !.pc = "req"]]
          \/ hnd' = [hnd EXCEPT ![u] = [hnd[u] EXCEPT !.host = d, !.pc = "queued"]]
      BY <2>2
    <3>2. /\ [hnd[u] EXCEPT !.host = d, !.pc = "req"] \in Handlers
          /\ [hnd[u] EXCEPT !.host = d, !.pc = "queued"] \in Handlers
      BY <1>s, HandlerChanges
    <3> QED BY <3>1, <3>2
  <2>4. dl' \in [Attempts -> Downloads]
    <3>1. \/ dl' = [dl EXCEPT ![d] = [dl[d] EXCEPT !.listener = "taken"]]
          \/ dl' = [dl EXCEPT ![d] = [dl[d] EXCEPT !.listener = dl[d].listener]]
      BY <2>2
    <3>2. /\ [dl[d] EXCEPT !.listener = "taken"] \in Downloads
          /\ [dl[d] EXCEPT !.listener = dl[d].listener] \in Downloads
      BY <1>d, DownloadChanges
    <3> QED BY <3>1, <3>2
  <2>5. link' \in [Attempts -> Links]
    <3>1. <<Frame("REQ")>> \in Seq(Frames)
      BY FrameTypes DEF Signals
    <3>2. link' = [link EXCEPT ![u] = [link[u] EXCEPT !.st = "open", !.toDown = <<Frame("REQ")>>]]
      BY <1>5 DEF Connect
    <3>3. [link[u] EXCEPT !.st = "open", !.toDown = <<Frame("REQ")>>] \in Links
      BY <3>1, <1>l, LinkOps
    <3> QED BY <3>2, <3>3
  <2>6. up' \in [Attempts -> Uploads]
    <3>1. up' = [up EXCEPT ![u] = [up[u] EXCEPT !.pc = "accept"]]
      BY <1>5 DEF Connect
    <3> QED BY <3>1, <1>u
  <2> QED BY <2>1, <2>3, <2>4, <2>5, <2>6 DEF server
<1>6. ASSUME NEW u \in Attempts,
             GetAccept(u) \/ GetAck(u) \/ GetNack(u) \/ GetOther(u) \/ SenderTimeout(u) \/ UploadCut(u)
      PROVE  TypeOK'
  <2> USE DEF GetAccept, GetAck, GetNack, GetOther, SenderTimeout, UploadCut
  <2>1. UNCHANGED <<Provider, server, faults, lost>>
    BY <1>6
  <2>2. ASSUME NEW l \in Links, SendChunk(u, l) \/ GiveUp(u, l)
        PROVE  up' \in [Attempts -> Uploads] /\ link' \in [Attempts -> Links]
    <3>1. ASSUME NEW k \in Links, GiveUp(u, k)
          PROVE  up' \in [Attempts -> Uploads] /\ link' \in [Attempts -> Links]
      <4>1. Close(k, "up") \in Links /\ [up[u] EXCEPT !.pc = "failing", !.n = 0, !.again = FALSE] \in Uploads
        BY LinkOps, UploadChanges DEF Ends
      <4>2. /\ up' = [up EXCEPT ![u] = [up[u] EXCEPT !.pc = "failing", !.n = 0, !.again = FALSE]]
            /\ link' = [link EXCEPT ![u] = Close(k, "up")]
        BY <3>1 DEF GiveUp
      <4> QED BY <4>1, <4>2
    <3>2. CASE SendChunk(u, l) /\ up[u].n = Chunks
      <4>1. /\ Close(Put(l, "down", Frame("END")), "up") \in Links
            /\ [up[u] EXCEPT !.pc = "completing", !.n = 0, !.again = FALSE, !.sent = TRUE] \in Uploads
        BY LinkOps, FrameTypes, UploadChanges DEF Ends, Signals
      <4>2. /\ up' = [up EXCEPT ![u] = [up[u] EXCEPT !.pc = "completing", !.n = 0, !.again = FALSE, !.sent = TRUE]]
            /\ link' = [link EXCEPT ![u] = Close(Put(l, "down", Frame("END")), "up")]
        BY <3>2 DEF SendChunk
      <4> QED BY <4>1, <4>2
    <3>3. CASE SendChunk(u, l) /\ up[u].n # Chunks
      <4>1. CASE up[u].stopped
        <5>1. Put(l, "down", Frame("FAIL")) \in Links
          BY LinkOps, FrameTypes DEF Ends, Signals
        <5>2. GiveUp(u, Put(l, "down", Frame("FAIL")))
          BY <3>3, <4>1 DEF SendChunk
        <5> QED BY <5>1, <5>2, <3>1
      <4>2. CASE ~up[u].stopped
        <5> DEFINE n == up[u].n + 1
        <5>0. up[u].n \in 0 .. Chunks
          BY <1>u, UploadChanges
        <5>1. n \in 1 .. Chunks /\ n \in 0 .. Chunks
          BY <3>3, <5>0
        <5>2. Put(l, "down", Chunk(n)) \in Links
          BY <5>1, LinkOps, FrameTypes DEF Ends
        <5>3. [up[u] EXCEPT !.pc = "ack", !.n = n, !.again = FALSE] \in Uploads
          BY <5>1, UploadChanges
        <5>4. /\ up' = [up EXCEPT ![u] = [up[u] EXCEPT !.pc = "ack", !.n = n, !.again = FALSE]]
              /\ link' = [link EXCEPT ![u] = Put(l, "down", Chunk(n))]
          BY <3>3, <4>2 DEF SendChunk
        <5> HIDE DEF n
        <5> QED BY <5>2, <5>3, <5>4
      <4> QED BY <4>1, <4>2
    <3> QED BY <2>2, <3>1, <3>2, <3>3
  <2>3. ASSUME GetNack(u) PROVE up' \in [Attempts -> Uploads] /\ link' \in [Attempts -> Links]
    <3>1. Put(TakeUp(u), "down", Chunk(up[u].n)) \in Links
      <4>1. up[u].n \in 0 .. Chunks /\ up[u].n # 0
        BY <2>3, <1>u, UploadChanges DEF Sending
      <4>2. up[u].n \in 1 .. Chunks
        BY <4>1
      <4> QED BY <4>2, <2>3, <1>l, LinkOps, FrameTypes DEF Ends
    <3>2. [up[u] EXCEPT !.again = TRUE] \in Uploads
      BY UploadChanges
    <3>3. /\ up' = [up EXCEPT ![u] = [up[u] EXCEPT !.again = TRUE]]
          /\ link' = [link EXCEPT ![u] = Put(TakeUp(u), "down", Chunk(up[u].n))]
      BY <2>3
    <3> QED BY <3>1, <3>2, <3>3
  <2>4. \/ GetNack(u)
        \/ \E l \in Links : SendChunk(u, l) \/ GiveUp(u, l)
    <3>1. AtUp(u) => TakeUp(u) \in Links /\ Put(TakeUp(u), "down", Frame("FAIL")) \in Links
      BY <1>l, LinkOps, FrameTypes DEF Ends, Signals
    <3> QED BY <1>6, <1>l, <3>1
  <2>5. up' \in [Attempts -> Uploads] /\ link' \in [Attempts -> Links]
    BY <2>2, <2>3, <2>4
  <2> QED BY <2>1, <2>5 DEF server
<1>7. ASSUME NEW u \in Attempts, Damage(u) \/ Break(u) PROVE TypeOK'
  <2>1. UNCHANGED <<Provider, server, up, lost>>
    BY <1>7 DEF Damage, Break
  <2>2. faults' \in 0 .. MaxFaults
    BY <1>7 DEF Damage, Break, Fault
  <2>3. CASE Break(u)
    <3>1. PICK st \in {"reset", "silent"} :
            link' = [link EXCEPT ![u] = [link[u] EXCEPT !.st = st, !.toDown = <<>>, !.toUp = <<>>]]
      BY <2>3 DEF Break
    <3>2. [link[u] EXCEPT !.st = st, !.toDown = <<>>, !.toUp = <<>>] \in Links
      BY <1>l, LinkOps
    <3> QED BY <2>1, <2>2, <3>1, <3>2 DEF server
  <2>4. CASE Damage(u)
    <3> DEFINE q == link[u].toDown
    <3>1. PICK i \in 1 .. Len(q) :
            q[i].type = "CHUNK" /\ link' = [link EXCEPT ![u].toDown[i].type = "BAD"]
      BY <2>4 DEF Damage
    <3>2. q \in Seq(Frames) /\ q[i] \in Frames /\ i \in DOMAIN q
      BY <1>l, ElementOfSeq DEF Links
    <3>3. [q[i] EXCEPT !.type = "BAD"] \in Frames
      BY <3>1, <3>2 DEF Frames, Signals
    <3>4. [q EXCEPT ![i] = [q[i] EXCEPT !.type = "BAD"]] \in Seq(Frames)
      BY <3>2, <3>3, ExceptSeq
    <3>5. link' = [link EXCEPT ![u] = [link[u] EXCEPT !.toDown = [q EXCEPT ![i] = [q[i] EXCEPT !.type = "BAD"]]]]
      BY <3>1
    <3>6. [link[u] EXCEPT !.toDown = [q EXCEPT ![i] = [q[i] EXCEPT !.type = "BAD"]]] \in Links
      BY <3>4, <1>l, LinkOps
    <3> HIDE DEF q
    <3> QED BY <2>1, <2>2, <3>5, <3>6 DEF server
  <2> QED BY <1>7, <2>3, <2>4
<1>8. CASE UNCHANGED vars
  BY <1>8 DEF vars, server
<1> QED
  BY <1>r, <1>t, <1>e, <1>c, <1>q, <1>k, <1>x, <1>f, <1>1, <1>2, <1>3, <1>4, <1>5, <1>6, <1>7, <1>8
     DEF Next, TaskStep, HandlerStep, UploadStep, Environment, Rest

(***************************************************************************)
(* Every variable keeps its type.                                          *)
(***************************************************************************)
THEOREM TypeCorrect == Spec => []TypeOK
<1> DEFINE TypeInv == TypeOK /\ Sending
<1>1. Init => TypeInv
  BY TypeInit DEF Init, Sending
<1>2. TypeInv /\ [Next]_vars => TypeInv'
  BY TypeStep, SendingStep
<1> QED BY <1>1, <1>2, PTL DEF Spec

-----------------------------------------------------------------------------
Serving(u) == hnd[u].pc \in {"req", "loop"}

(***************************************************************************)
(* The tasks: what is known of a download before it listens, when it is    *)
(* cancelled and when it has its verdict; whom the tables point to.        *)
(***************************************************************************)
TasksInv ==
  /\ \A d \in Attempts :
       /\ dl[d].task \in {"none", "asked"} =>
            dl[d].future = "none" /\ dl[d].listener = "none" /\ ~dl[d].cancelled
       /\ dl[d].cancelled => Desktop /\ dl[d].future # "pending"
       /\ dl[d].task = "completing" => dl[d].future = "saved"
       /\ item[d] = "DONE" => Desktop
  /\ \A s \in Songs :
       /\ registered[s] # NoAttempt => dl[registered[s]].task \notin {"none", "asked"}
       /\ entry[s] # NoAttempt => SongOf[entry[s]] = s

(***************************************************************************)
(* The uploads: what has happened to a connection before it is opened, and *)
(* that a report of success has its reason.                                *)
(***************************************************************************)
UploadsInv ==
  \A u \in Attempts :
    /\ up[u].pc \in {"none", "approving", "report", "connecting"} =>
         hnd[u].pc = "none" /\ up[u].n = 0 /\ link[u] = NoLink
    /\ up[u].pc = "completing" => up[u].sent

(***************************************************************************)
(* The handlers: each serves a download; the thread of a termux download   *)
(* serves one connection and is waited for.                                *)
(***************************************************************************)
HandlersInv ==
  /\ \A u \in Attempts :
       /\ hnd[u].pc \in {"none", "queued", "req"} => hnd[u].got = 0 /\ hnd[u].slot = 0
       /\ hnd[u].pc \in {"queued", "req", "loop"} => hnd[u].host \in Attempts
       /\ Desktop /\ hnd[u].pc = "loop" =>
            SongOf[u] = SongOf[hnd[u].host] /\ hnd[u].slot # 0
       /\ Termux /\ Serving(u) =>
            dl[hnd[u].host].future = "pending" /\ dl[hnd[u].host].listener = "taken"
  /\ Termux =>
       /\ \A u, v \in Attempts :
            Serving(u) /\ Serving(v) /\ hnd[u].host = hnd[v].host => u = v
       /\ \A d \in Attempts : dl[d].listener # "none" => dl[d].future = "pending"

\* A .part file has a handler that will rename or remove it.
PartInv ==
  \A n \in Names, i \in 1 .. Slots : part[n][i] # NoAttempt =>
    Desktop /\ \E u \in Attempts :
                 hnd[u].pc = "loop" /\ NameOf[SongOf[u]] = n /\ hnd[u].slot = i

SafeInv == TypeOK /\ TasksInv /\ UploadsInv /\ HandlersInv


LEMMA SafeInit == Init => TasksInv /\ UploadsInv /\ HandlersInv /\ PartInv
<1> SUFFICES ASSUME Init PROVE TasksInv /\ UploadsInv /\ HandlersInv /\ PartInv
  OBVIOUS
<1>1. TasksInv
  BY DEF Init, TasksInv
<1>2. UploadsInv
  BY DEF Init, UploadsInv
<1>3. HandlersInv
  BY DEF Init, HandlersInv, Serving
<1>4. PartInv
  BY DEF Init, PartInv
<1> QED BY <1>1, <1>2, <1>3, <1>4

(***************************************************************************)
(* The owner's steps and the network leave the downloader alone.           *)
(***************************************************************************)
OwnerStep(u) ==
  \/ OwnerRejects(u) \/ OwnerApproves(u) \/ Approved(u) \/ ApprovalRefused(u) \/ StartUpload(u)
  \/ StartFails(u) \/ UploadReport(u) \/ UploadReportFails(u) \/ ConnectRefused(u)
  \/ CancelUpload(u)
SendStep(u) ==
  \/ GetAccept(u) \/ GetAck(u) \/ GetNack(u) \/ GetOther(u) \/ SenderTimeout(u) \/ UploadCut(u)
NetworkStep(u) == Damage(u) \/ Break(u)
QuietStep(u) == OwnerStep(u) \/ SendStep(u) \/ NetworkStep(u)

LEMMA QuietSteps ==
  ASSUME NEW u \in Attempts, QuietStep(u)
  PROVE  /\ UNCHANGED <<downloader, provider, dl, entry, item, registered, hnd, folder, part, data>>
<1> USE DEF Provider, ui, files
<1>1. CASE OwnerStep(u)
  BY <1>1 DEF OwnerStep, OwnerRejects, OwnerApproves, Approved, ApprovalRefused, StartUpload,
     StartFails, UploadReport, UploadReportFails, ConnectRefused, CancelUpload
<1>2. CASE SendStep(u)
  BY <1>2 DEF SendStep, GetAccept, GetAck, GetNack, GetOther, SenderTimeout, UploadCut
<1>3. CASE NetworkStep(u)
  BY <1>3 DEF NetworkStep, Damage, Break
<1> QED BY <1>1, <1>2, <1>3 DEF QuietStep

LEMMA Steps ==
  ASSUME [Next]_vars
  PROVE  \/ \E d \in Attempts : \/ DesktopRequest(d) \/ TermuxRequest(d) \/ RequestFails(d)
                              \/ Listen(d) \/ Deadline(d) \/ Wake(d) \/ Report(d) \/ ReportFails(d)
         \/ \E s \in Songs : Cancel(s)
         \/ \E u \in Attempts : \/ HandlerReq(u) \/ HandlerChunk(u) \/ HandlerStopped(u) \/ HandlerEnd(u)
                              \/ ThreadReq(u) \/ ThreadChunk(u) \/ ThreadEnd(u) \/ ThreadStopped(u)
                              \/ Connect(u) \/ QuietStep(u)
         \/ UNCHANGED vars
BY DEF Next, TaskStep, HandlerStep, UploadStep, Environment, Rest, QuietStep, OwnerStep, SendStep, NetworkStep

(***************************************************************************)
(* A desktop handler that fails, or goes on, changes a task's future from  *)
(* pending to an error at most.                                            *)
(***************************************************************************)
Failure ==
  \A d \in Attempts :
    /\ dl'[d].task = dl[d].task /\ dl'[d].listener = dl[d].listener
    /\ dl'[d].cancelled = dl[d].cancelled
    /\ \/ dl'[d].future = dl[d].future
       \/ dl[d].future = "pending" /\ dl'[d].future = "error"
    /\ item'[d] \in {item[d], "FAILED"}

LEMMA FailsIsFailure ==
  ASSUME TypeOK, NEW u, NEW slot, NEW l, HandlerFails(u, slot, l)
  PROVE  Failure
<1>1. dl \in [Attempts -> Downloads] /\ item \in [Attempts -> Items]
  BY DEF TypeOK, Items
<1>2. dl' = [dl EXCEPT ![Host(u)].future = IF @ = "pending" THEN "error" ELSE @]
  BY DEF HandlerFails, Resolve
<1>3. item' = item \/ \E d : item' = [item EXCEPT ![d] = "FAILED"]
  BY DEF HandlerFails, Show
<1>4. \A d \in Attempts : item'[d] \in {item[d], "FAILED"}
  BY <1>1, <1>3
<1>5. ASSUME NEW d \in Attempts
      PROVE  /\ dl'[d].task = dl[d].task /\ dl'[d].listener = dl[d].listener
             /\ dl'[d].cancelled = dl[d].cancelled
             /\ \/ dl'[d].future = dl[d].future
                \/ dl[d].future = "pending" /\ dl'[d].future = "error"
  BY <1>1, <1>2 DEF Downloads
<1> QED BY <1>4, <1>5 DEF Failure

LEMMA LoopIsFailure ==
  ASSUME TypeOK, NEW u, NEW h, NEW l, NEW p, LoopTop(u, h, l, p)
  PROVE  Failure
<1>1. CASE HandlerFails(u, h.slot, Put(l, "up", Frame("FAIL")))
  BY <1>1, FailsIsFailure
<1>2. CASE UNCHANGED <<dl, item>>
  BY <1>2 DEF Failure
<1> QED BY <1>1, <1>2 DEF LoopTop

LEMMA Failures ==
  ASSUME TypeOK, NEW u \in Attempts,
         HandlerReq(u) \/ HandlerChunk(u) \/ HandlerStopped(u)
  PROVE  Failure /\ UNCHANGED <<downloader, entry, registered>>
<1>0. UNCHANGED <<downloader, entry, registered>>
  BY DEF HandlerReq, HandlerChunk, HandlerStopped
<1>1. CASE HandlerReq(u)
  <2>1. CASE UNCHANGED <<part, data, dl, item>>
    BY <1>0, <2>1 DEF Failure
  <2>2. CASE OpenPart(u)
    BY <1>0, <2>2, LoopIsFailure DEF OpenPart
  <2> QED BY <1>1, <2>1, <2>2 DEF HandlerReq
<1>2. CASE HandlerChunk(u)
  BY <1>0, <1>2, LoopIsFailure DEF HandlerChunk
<1>3. CASE HandlerStopped(u)
  BY <1>0, <1>3, FailsIsFailure DEF HandlerStopped
<1> QED BY <1>1, <1>2, <1>3

(***************************************************************************)
(* The end of a transfer that is verified: the name, the item, the future. *)
(***************************************************************************)
Saves(u) ==
  LET s == SongOf[u]
      n == NameOf[s]
      i == hnd[u].slot
  IN  /\ part[n][i] # NoAttempt /\ data[part[n][i]] = Whole(s)
      /\ folder' = [folder EXCEPT ![n][i] = part[n][i]]
      /\ part' = [part EXCEPT ![n][i] = NoAttempt]
      /\ hnd' = [hnd EXCEPT ![u] = Gone]
      /\ link' = [link EXCEPT ![u] = Close(@, "down")]
      /\ Show(s, "DONE") /\ Resolve(Host(u), "saved")

LEMMA HandlerEnds ==
  ASSUME TypeOK, NEW u \in Attempts, HandlerEnd(u)
  PROVE  /\ UNCHANGED <<downloader, entry, registered, data, up>>
         /\ Desktop /\ hnd[u].pc = "loop"
         /\ \/ Saves(u)
            \/ HandlerFails(u, hnd[u].slot, link[u]) /\ UNCHANGED folder /\ Failure
<1>1. HandlerFails(u, hnd[u].slot, link[u]) => Failure
  BY FailsIsFailure
<1> QED BY <1>1 DEF HandlerEnd, Saves

LEMMA TasksStep == TypeOK /\ TasksInv /\ HandlersInv /\ [Next]_vars => TasksInv'
<1> SUFFICES ASSUME TypeOK, TasksInv, HandlersInv, [Next]_vars PROVE TasksInv'
  OBVIOUS
<1>t. /\ dl \in [Attempts -> Downloads] /\ item \in [Attempts -> Items]
      /\ entry \in [Songs -> Optional] /\ registered \in [Songs -> Optional]
  BY DEF TypeOK, Items
<1> USE <1>t DEF TasksInv, Desktop, Termux, ui, Downloads, Optional
<1>1. ASSUME NEW d \in Attempts, DesktopRequest(d) PROVE TasksInv'
  BY <1>1, StartsUnused DEF DesktopRequest
<1>2. ASSUME NEW d \in Attempts, TermuxRequest(d) PROVE TasksInv'
  <2>1. ASSUME NEW e \in Attempts
        PROVE  /\ dl'[e].future = dl[e].future /\ dl'[e].listener = dl[e].listener
               /\ dl'[e].cancelled = dl[e].cancelled
               /\ dl'[e].task \in {"none", "asked"} => dl[e].task \in {"none", "asked"}
               /\ dl[e].task \notin {"none", "asked"} => dl'[e].task \notin {"none", "asked"}
               /\ dl'[e].task = "completing" => dl[e].task = "completing"
    BY <1>2, <1>t, RequestsLeave DEF Requested
  <2>2. UNCHANGED <<downloader, entry, item, registered>>
    BY <1>2 DEF TermuxRequest
  <2> QED BY <2>1, <2>2
<1>3. ASSUME NEW d \in Attempts, RequestFails(d) PROVE TasksInv'
  <2>1. ASSUME NEW e \in Attempts
        PROVE  /\ dl'[e].future = dl[e].future /\ dl'[e].listener = dl[e].listener
               /\ dl'[e].cancelled = dl[e].cancelled
               /\ dl'[e].task \in {"none", "asked"} => dl[e].task \in {"none", "asked"}
               /\ dl[e].task \notin {"none", "asked"} => dl'[e].task \notin {"none", "asked"}
               /\ dl'[e].task = "completing" => dl[e].task = "completing"
    BY <1>3, <1>t, RequestsLeave DEF Requested
  <2>2. /\ UNCHANGED downloader
        /\ \/ UNCHANGED <<entry, item, registered>>
           \/ /\ entry' = [entry EXCEPT ![SongOf[d]] = d] /\ item' = [item EXCEPT ![d] = "FAILED"]
              /\ registered' = [registered EXCEPT ![SongOf[d]] = NoAttempt]
    BY <1>3 DEF RequestFails
  <2>3. \A e \in Attempts : item'[e] = "DONE" => item[e] = "DONE"
    BY <2>2
  <2>4. \A r \in Songs : /\ entry'[r] # NoAttempt => SongOf[entry'[r]] = r
                        /\ registered'[r] \in {registered[r], NoAttempt}
    BY <2>2
  <2>5. \A e \in Attempts :
          /\ dl'[e].task \in {"none", "asked"} =>
               dl'[e].future = "none" /\ dl'[e].listener = "none" /\ ~dl'[e].cancelled
          /\ dl'[e].cancelled => Desktop' /\ dl'[e].future # "pending"
          /\ dl'[e].task = "completing" => dl'[e].future = "saved"
          /\ item'[e] = "DONE" => Desktop'
    BY <2>1, <2>2, <2>3
  <2>6. \A r \in Songs : registered'[r] # NoAttempt => dl'[registered'[r]].task \notin {"none", "asked"}
    BY <2>1, <2>4
  <2> QED BY <2>4, <2>5, <2>6
<1>4. ASSUME NEW d \in Attempts, Listen(d) PROVE TasksInv'
  <2>1. /\ dl[d].task = "asked"
        /\ \/ dl' = [dl EXCEPT ![d] = [dl[d] EXCEPT !.task = "waiting", !.future = "pending",
                                                   !.listener = "open"]]
           \/ dl' = [dl EXCEPT ![d] = [dl[d] EXCEPT !.task = "failing"]]
        /\ registered' = registered \/ registered' = [registered EXCEPT ![SongOf[d]] = d]
        /\ UNCHANGED <<downloader, entry>>
        /\ item' = item \/ item' = [item EXCEPT ![d] = "ACTIVE"] \/ item' = [item EXCEPT ![d] = "FAILED"]
    BY <1>4 DEF Listen
  <2>2. ASSUME NEW e \in Attempts
        PROVE  /\ dl'[e].cancelled = dl[e].cancelled
               /\ e # d => dl'[e] = dl[e]
               /\ dl'[d].task \in {"waiting", "failing"}
    <3>1. CASE dl' = [dl EXCEPT ![d] = [dl[d] EXCEPT !.task = "waiting", !.future = "pending",
                                                   !.listener = "open"]]
      BY <3>1
    <3>2. CASE dl' = [dl EXCEPT ![d] = [dl[d] EXCEPT !.task = "failing"]]
      BY <3>2
    <3> QED BY <2>1, <3>1, <3>2
  <2>5. \A e \in Attempts : item'[e] = "DONE" => item[e] = "DONE"
    BY <2>1
  <2>3. ~dl[d].cancelled /\ ~dl'[d].cancelled
    BY <2>1, <2>2
  <2>4. \A r \in Songs : registered'[r] # NoAttempt => dl'[registered'[r]].task \notin {"none", "asked"}
    BY <2>1, <2>2
  <2> QED BY <2>1, <2>2, <2>3, <2>4, <2>5
<1>5. ASSUME NEW d \in Attempts, Deadline(d) PROVE TasksInv'
  BY <1>5 DEF Deadline
<1>6. ASSUME NEW d \in Attempts, Wake(d) PROVE TasksInv'
  <2>1. /\ dl[d].task = "waiting"
        /\ \/ /\ dl[d].future = "saved"
              /\ dl' = [dl EXCEPT ![d] = [dl[d] EXCEPT !.task = "completing", !.listener = "none"]]
              /\ item' = item \/ (Desktop /\ item' = [item EXCEPT ![d] = "DONE"])
           \/ /\ dl' = [dl EXCEPT ![d] = [dl[d] EXCEPT !.task = "failing", !.listener = "none"]]
              /\ item' = item \/ item' = [item EXCEPT ![d] = "FAILED"]
        /\ UNCHANGED <<downloader, entry, registered>>
    BY <1>6 DEF Wake, TypeOK, Clients
  <2>2. ASSUME NEW e \in Attempts
        PROVE  /\ dl'[e].cancelled = dl[e].cancelled /\ dl'[e].future = dl[e].future
               /\ e # d => dl'[e] = dl[e]
               /\ dl'[d].task \in {"completing", "failing"}
               /\ dl'[d].task = "completing" => dl[d].future = "saved"
    <3>1. CASE /\ dl[d].future = "saved"
               /\ dl' = [dl EXCEPT ![d] = [dl[d] EXCEPT !.task = "completing", !.listener = "none"]]
      BY <3>1
    <3>2. CASE dl' = [dl EXCEPT ![d] = [dl[d] EXCEPT !.task = "failing", !.listener = "none"]]
      BY <3>2
    <3> QED BY <2>1, <3>1, <3>2
  <2>3. \A e \in Attempts : item'[e] = "DONE" => item[e] = "DONE" \/ Desktop
    BY <2>1
  <2> QED BY <2>1, <2>2, <2>3
<1>7. ASSUME NEW d \in Attempts, Report(d) PROVE TasksInv'
  BY <1>7 DEF Report, EndTask
<1>8. ASSUME NEW d \in Attempts, ReportFails(d) PROVE TasksInv'
  <2>1. /\ UNCHANGED <<downloader, entry>>
        /\ item' = item \/ item' = [item EXCEPT ![d] = "FAILED"]
        /\ registered' = registered \/ registered' = [registered EXCEPT ![SongOf[d]] = NoAttempt]
        /\ \/ dl' = [dl EXCEPT ![d] = [dl[d] EXCEPT !.task = "failing"]]
           \/ dl' = [dl EXCEPT ![d] = [dl[d] EXCEPT !.task = "ended"]]
    BY <1>8 DEF ReportFails, EndTask
  <2>2. ASSUME NEW e \in Attempts
        PROVE  /\ dl'[e].future = dl[e].future /\ dl'[e].listener = dl[e].listener
               /\ dl'[e].cancelled = dl[e].cancelled
               /\ dl'[e].task = dl[e].task \/ dl'[e].task \in {"failing", "ended"}
    BY <1>t, <2>1, TaskMoves
  <2>3. \A e \in Attempts : item'[e] = "DONE" => item[e] = "DONE"
    BY <2>1
  <2>4. \A s \in Songs : registered'[s] # NoAttempt =>
          registered[s] \in Attempts /\ registered'[s] = registered[s]
    BY <2>1
  <2>5. \A s \in Songs : registered'[s] # NoAttempt => dl'[registered'[s]].task \notin {"none", "asked"}
    BY <2>2, <2>4
  <2>6. \A e \in Attempts :
          /\ dl'[e].task \in {"none", "asked"} =>
               dl'[e].future = "none" /\ dl'[e].listener = "none" /\ ~dl'[e].cancelled
          /\ dl'[e].cancelled => Desktop' /\ dl'[e].future # "pending"
          /\ dl'[e].task = "completing" => dl'[e].future = "saved"
          /\ item'[e] = "DONE" => Desktop'
    BY <2>1, <2>2, <2>3
  <2> QED BY <2>1, <2>5, <2>6
<1>9. ASSUME NEW s \in Songs, Cancel(s) PROVE TasksInv'
  BY <1>9 DEF Cancel
<1>10. CASE Failure /\ UNCHANGED <<downloader, entry, registered>>
  BY <1>10 DEF Failure
<1>11. ASSUME NEW u \in Attempts, HandlerReq(u) \/ HandlerChunk(u) \/ HandlerStopped(u) PROVE TasksInv'
  BY <1>10, <1>11, Failures
<1>12. ASSUME NEW u \in Attempts, HandlerEnd(u) PROVE TasksInv'
  <2>1. CASE Failure
    BY <1>10, <1>12, <2>1, HandlerEnds
  <2>2. CASE Saves(u)
    <3>1. dl' = [dl EXCEPT ![Host(u)].future = IF @ = "pending" THEN "saved" ELSE @]
      BY <2>2 DEF Saves, Resolve
    <3>2. ASSUME NEW e \in Attempts
          PROVE  /\ dl'[e].task = dl[e].task /\ dl'[e].cancelled = dl[e].cancelled
                 /\ dl'[e].listener = dl[e].listener
                 /\ \/ dl'[e].future = dl[e].future
                    \/ dl[e].future = "pending" /\ dl'[e].future = "saved"
      BY <3>1
    <3> QED BY <1>12, <3>2, HandlerEnds
  <2> QED BY <1>12, <2>1, <2>2, HandlerEnds
<1>14. ASSUME NEW u \in Attempts, ThreadReq(u) \/ ThreadChunk(u) PROVE TasksInv'
  BY <1>14 DEF ThreadReq, ThreadChunk
<1>15. ASSUME NEW u \in Attempts, ThreadEnd(u) \/ ThreadStopped(u) PROVE TasksInv'
  <2>1. PICK result \in {"saved", "error"} : ThreadReturns(u, result)
    BY <1>15 DEF ThreadEnd, ThreadStopped
  <2>2. Termux /\ Serving(u) /\ UNCHANGED <<downloader, entry, item, registered>>
    BY <1>15 DEF ThreadEnd, ThreadStopped, Serving
  <2>3. dl' = [dl EXCEPT ![Host(u)] = [dl[Host(u)] EXCEPT !.future = result, !.listener = "none"]]
    BY <2>1 DEF ThreadReturns
  <2>4. Host(u) \in Attempts /\ dl[Host(u)].future = "pending"
    BY <2>2 DEF HandlersInv, Serving, Host
  <2>5. ASSUME NEW e \in Attempts
        PROVE  /\ dl'[e].task = dl[e].task /\ dl'[e].cancelled = dl[e].cancelled
               /\ dl'[e] = dl[e] \/ e = Host(u)
               /\ dl'[Host(u)].future = result
    BY <2>3, <2>4
  <2>6. \A e \in Attempts : ~dl[e].cancelled
    BY <2>2
  <2> QED BY <2>2, <2>4, <2>5, <2>6
<1>16. ASSUME NEW u \in Attempts, Connect(u) PROVE TasksInv'
  BY <1>16 DEF Connect
<1>17. ASSUME NEW u \in Attempts, QuietStep(u) PROVE TasksInv'
  BY <1>17, QuietSteps
<1>18. CASE UNCHANGED vars
  BY <1>18 DEF vars
<1> HIDE DEF TasksInv
<1> QED
  BY <1>1, <1>2, <1>3, <1>4, <1>5, <1>6, <1>7, <1>8, <1>9, <1>11, <1>12, <1>14, <1>15, <1>16,
     <1>17, <1>18, Steps

-----------------------------------------------------------------------------
(***************************************************************************)
(* How a desktop handler moves: it goes, opens its .part file, or goes on; *)
(* and what that leaves of the .part files.                                *)
(***************************************************************************)
Opens(u) ==
  /\ hnd[u].pc = "req" /\ SongOf[u] = SongOf[Host(u)]
  /\ \E i \in 1 .. Slots, f \in Attempts :
       /\ hnd' = [hnd EXCEPT ![u] = [hnd[u] EXCEPT !.pc = "loop", !.slot = i, !.ino = f]]
       /\ part' = [part EXCEPT ![NameOf[SongOf[u]]][i] = f]
GoesOn(u) ==
  /\ hnd[u].pc = "loop" /\ part' = part
  /\ hnd' = hnd \/ hnd' = [hnd EXCEPT ![u] = [hnd[u] EXCEPT !.got = hnd[u].got + 1]]
Goes(u) ==
  /\ hnd' = [hnd EXCEPT ![u] = Gone]
  /\ \/ \E i \in 1 .. Slots : part' = [part EXCEPT ![NameOf[SongOf[u]]][i] = NoAttempt]
     \/ part' = part
  /\ hnd[u].pc = "loop" /\ hnd[u].slot # 0 =>
       part' = [part EXCEPT ![NameOf[SongOf[u]]][hnd[u].slot] = NoAttempt]

LEMMA HandlerMoves ==
  ASSUME TypeOK, NEW u \in Attempts,
         HandlerReq(u) \/ HandlerChunk(u) \/ HandlerStopped(u) \/ HandlerEnd(u)
  PROVE  /\ Desktop /\ Serving(u) /\ UNCHANGED <<downloader, up>>
         /\ Opens(u) \/ GoesOn(u) \/ Goes(u)
         /\ \E l : link' = [link EXCEPT ![u] = l]
<1> USE DEF Serving
<1>t. hnd[u] \in Handlers /\ hnd[u].slot \in 0 .. Slots /\ SongOf[u] \in Songs
  BY HandlerChanges DEF TypeOK
<1>1. ASSUME NEW l, HandlerFails(u, hnd[u].slot, l)
      PROVE  Goes(u) /\ \E k : link' = [link EXCEPT ![u] = k]
  <2>1. hnd[u].slot # 0 => hnd[u].slot \in 1 .. Slots
    BY <1>t
  <2> QED BY <1>1, <2>1 DEF HandlerFails, Goes
<1>2. CASE HandlerReq(u)
  <2>0. Desktop /\ hnd[u].pc = "req" /\ UNCHANGED <<downloader, up>>
    BY <1>2 DEF HandlerReq
  <2>1. CASE SongOf[u] # SongOf[Host(u)]
    <3>1. /\ hnd' = [hnd EXCEPT ![u] = Gone] /\ part' = part
          /\ link' = [link EXCEPT ![u] = Close(Put(TakeDown(u), "up", Frame("FAIL")), "down")]
      BY <1>2, <2>1 DEF HandlerReq
    <3> QED BY <2>0, <3>1 DEF Goes
  <2>2. CASE SongOf[u] = SongOf[Host(u)] /\ OpenPart(u)
    <3> DEFINE f(i) == IF part[NameOf[SongOf[u]]][i] = NoAttempt THEN u ELSE part[NameOf[SongOf[u]]][i]
               h(i) == [hnd[u] EXCEPT !.pc = "loop", !.slot = i, !.ino = f(i)]
    <3>1. PICK i \in 1 .. Slots :
            LoopTop(u, h(i), Put(TakeDown(u), "up", Frame("ACCEPT")), [part EXCEPT ![NameOf[SongOf[u]]][i] = f(i)])
      BY <2>2 DEF OpenPart
    <3>2. f(i) \in Attempts
      BY <1>t DEF TypeOK, Optional
    <3>3. h(i).slot = i /\ i # 0
      BY <1>t DEF Handlers
    <3>4. CASE HandlerFails(u, h(i).slot, Put(Put(TakeDown(u), "up", Frame("ACCEPT")), "up", Frame("FAIL")))
      BY <2>0, <3>3, <3>4 DEF HandlerFails, Goes
    <3>5. CASE /\ hnd' = [hnd EXCEPT ![u] = h(i)]
               /\ link' = [link EXCEPT ![u] = Put(TakeDown(u), "up", Frame("ACCEPT"))]
               /\ part' = [part EXCEPT ![NameOf[SongOf[u]]][i] = f(i)]
      <4> HIDE DEF f
      <4> QED BY <2>0, <2>2, <3>2, <3>5 DEF Opens
    <3> QED BY <3>1, <3>4, <3>5 DEF LoopTop
  <2> QED BY <1>2, <2>1, <2>2 DEF HandlerReq
<1>3. CASE HandlerChunk(u)
  <2>0. Desktop /\ hnd[u].pc = "loop" /\ UNCHANGED <<downloader, up>>
    BY <1>3 DEF HandlerChunk
  <2>h. PICK h \in {hnd[u], [hnd[u] EXCEPT !.got = hnd[u].got + 1]} : \E l : LoopTop(u, h, l, part)
    BY <1>3 DEF HandlerChunk
  <2>1. PICK l : LoopTop(u, h, l, part)
    BY <2>h
  <2>2. h.slot = hnd[u].slot
    BY <1>t DEF Handlers
  <2>3. CASE HandlerFails(u, h.slot, Put(l, "up", Frame("FAIL")))
    BY <2>0, <2>2, <2>3, <1>1
  <2>4. CASE hnd' = [hnd EXCEPT ![u] = h] /\ link' = [link EXCEPT ![u] = l] /\ part' = part
    <3>1. [hnd EXCEPT ![u] = hnd[u]] = hnd
      BY DEF TypeOK
    <3> QED BY <2>0, <2>1, <2>4, <3>1 DEF GoesOn
  <2> QED BY <2>1, <2>3, <2>4 DEF LoopTop
<1>4. CASE HandlerStopped(u)
  BY <1>4, <1>1 DEF HandlerStopped
<1>5. CASE HandlerEnd(u)
  <2>0. Desktop /\ hnd[u].pc = "loop" /\ UNCHANGED <<downloader, up>>
    BY <1>5 DEF HandlerEnd
  <2>1. CASE HandlerFails(u, hnd[u].slot, link[u])
    BY <2>0, <2>1, <1>1
  <2>2. CASE Saves(u)
    <3>1. hnd[u].slot \in 1 .. Slots \/ hnd[u].slot = 0
      BY <1>t
    <3>2. hnd[u].slot = 0 => part' = part
      <4> QED BY <2>2 DEF Saves, TypeOK
    <3> QED BY <2>0, <2>2, <3>1, <3>2 DEF Saves, Goes
  <2> QED BY <1>5, <2>1, <2>2, HandlerEnds
<1> QED BY <1>2, <1>3, <1>4, <1>5

-----------------------------------------------------------------------------
(***************************************************************************)
(* Who serves whom.                                                        *)
(***************************************************************************)
LEMMA HandlersStep ==
  TypeOK /\ TypeOK' /\ TasksInv /\ UploadsInv /\ HandlersInv /\ [Next]_vars => HandlersInv'
<1> SUFFICES ASSUME TypeOK, TypeOK', TasksInv, UploadsInv, HandlersInv, [Next]_vars
             PROVE  HandlersInv'
  OBVIOUS
<1>t. /\ dl \in [Attempts -> Downloads] /\ dl' \in [Attempts -> Downloads]
      /\ hnd \in [Attempts -> Handlers] /\ hnd' \in [Attempts -> Handlers]
      /\ \A u \in Attempts : SongOf[u] \in Songs
      /\ downloader \in Clients
  BY DEF TypeOK
<1>0. ASSUME UNCHANGED <<downloader, hnd>>,
             \A d \in Attempts : dl'[d].future = dl[d].future /\ dl'[d].listener = dl[d].listener
      PROVE  HandlersInv'
  BY <1>0, <1>t DEF HandlersInv, Serving, Desktop, Termux, Handlers, Optional
<1>1. ASSUME NEW d \in Attempts,
             \/ DesktopRequest(d) \/ TermuxRequest(d) \/ RequestFails(d) \/ Report(d) \/ ReportFails(d)
      PROVE  HandlersInv'
  <2>1. UNCHANGED <<downloader, hnd>>
    BY <1>1 DEF DesktopRequest, TermuxRequest, RequestFails, Report, ReportFails
  <2>2. CASE Requested(d)
    BY <1>0, <1>t, <2>1, <2>2, RequestsLeave
  <2>3. CASE Report(d) \/ ReportFails(d)
    <3>1. \E task : dl' = [dl EXCEPT ![d].task = task]
      BY <2>3 DEF Report, ReportFails, EndTask
    <3> QED BY <1>0, <1>t, <2>1, <3>1 DEF Downloads
  <2> QED BY <1>1, <2>2, <2>3 DEF Requested
<1>2. ASSUME NEW d \in Attempts, Listen(d) \/ Deadline(d) \/ Wake(d) PROVE HandlersInv'
  <2>1. UNCHANGED <<downloader, hnd>>
    BY <1>2 DEF Listen, Deadline, Wake
  <2>2. \A e \in Attempts : e # d => dl'[e] = dl[e]
    BY <1>2, <1>t DEF Listen, Deadline, Wake
  <2>3. /\ \/ dl'[d].listener = "none"
           \/ dl'[d].future = "pending"
           \/ dl'[d].future = dl[d].future /\ dl'[d].listener = dl[d].listener
        /\ Termux => \A u \in Attempts : Serving(u) => hnd[u].host # d
    <3>1. CASE Listen(d)
      BY <3>1, <1>t DEF Listen, HandlersInv, TasksInv, Downloads
    <3>2. CASE Deadline(d)
      BY <3>2, <1>t DEF Deadline, HandlersInv, TasksInv, Downloads
    <3>3. CASE Wake(d)
      BY <3>3, <1>t DEF Wake, HandlersInv, TasksInv, Downloads
    <3> QED BY <1>2, <3>1, <3>2, <3>3
  <2> QED BY <1>t, <2>1, <2>2, <2>3 DEF HandlersInv, Serving, Desktop, Termux, Handlers
<1>3. ASSUME NEW s \in Songs, Cancel(s) PROVE HandlersInv'
  <2>1. Desktop /\ ~Termux /\ UNCHANGED <<downloader, hnd>>
    BY <1>3 DEF Cancel, Desktop, Termux
  <2> QED BY <1>t, <2>1 DEF HandlersInv, Serving, Desktop, Termux, Handlers
<1>4. ASSUME NEW u \in Attempts,
             HandlerReq(u) \/ HandlerChunk(u) \/ HandlerStopped(u) \/ HandlerEnd(u)
      PROVE  HandlersInv'
  <2>1. Desktop /\ ~Termux /\ Serving(u) /\ UNCHANGED downloader
    BY <1>4, HandlerMoves DEF Desktop, Termux
  <2>2. \/ hnd' = [hnd EXCEPT ![u] = Gone]
        \/ /\ hnd[u].pc = "req" /\ SongOf[u] = SongOf[Host(u)]
           /\ \E i \in 1 .. Slots, f \in Attempts :
                hnd' = [hnd EXCEPT ![u] = [hnd[u] EXCEPT !.pc = "loop", !.slot = i, !.ino = f]]
        \/ hnd[u].pc = "loop" /\ hnd' = [hnd EXCEPT ![u] = [hnd[u] EXCEPT !.got = hnd[u].got + 1]]
        \/ hnd' = hnd
    <3>1. CASE Opens(u)
      BY <3>1 DEF Opens
    <3>2. CASE GoesOn(u)
      BY <3>2 DEF GoesOn
    <3>3. CASE Goes(u)
      BY <3>3 DEF Goes
    <3> QED BY <1>4, <3>1, <3>2, <3>3, HandlerMoves
  <2>3. \A v \in Attempts :
          /\ hnd'[v].pc \in {"none", "queued", "req"} => hnd'[v].got = 0 /\ hnd'[v].slot = 0
          /\ hnd'[v].pc \in {"queued", "req", "loop"} => hnd'[v].host \in Attempts
          /\ hnd'[v].pc = "loop" => SongOf[v] = SongOf[hnd'[v].host] /\ hnd'[v].slot # 0
    <3>1. CASE hnd' = [hnd EXCEPT ![u] = Gone]
      BY <1>t, <2>1, <3>1 DEF HandlersInv, Gone
    <3>2. ASSUME NEW i \in 1 .. Slots, NEW f \in Attempts, SongOf[u] = SongOf[Host(u)],
                 hnd' = [hnd EXCEPT ![u] = [hnd[u] EXCEPT !.pc = "loop", !.slot = i, !.ino = f]]
          PROVE  \A v \in Attempts :
                  /\ hnd'[v].pc \in {"none", "queued", "req"} => hnd'[v].got = 0 /\ hnd'[v].slot = 0
                  /\ hnd'[v].pc \in {"queued", "req", "loop"} => hnd'[v].host \in Attempts
                  /\ hnd'[v].pc = "loop" => SongOf[v] = SongOf[hnd'[v].host] /\ hnd'[v].slot # 0
      <4>1. /\ hnd'[u].pc = "loop" /\ hnd'[u].slot = i /\ i # 0 /\ hnd'[u].host = hnd[u].host
            /\ \A v \in Attempts : v # u => hnd'[v] = hnd[v]
        BY <1>t, <3>2 DEF Handlers
      <4> QED BY <1>t, <2>1, <3>2, <4>1 DEF HandlersInv, Serving, Host
    <3>3. CASE hnd[u].pc = "loop" /\ hnd' = [hnd EXCEPT ![u] = [hnd[u] EXCEPT !.got = hnd[u].got + 1]]
      <4>1. /\ hnd'[u].pc = "loop" /\ hnd'[u].slot = hnd[u].slot /\ hnd'[u].host = hnd[u].host
            /\ \A v \in Attempts : v # u => hnd'[v] = hnd[v]
        BY <1>t, <3>3 DEF Handlers
      <4> QED BY <1>t, <2>1, <3>3, <4>1 DEF HandlersInv
    <3>4. CASE hnd' = hnd
      BY <2>1, <3>4 DEF HandlersInv
    <3> QED BY <2>2, <3>1, <3>2, <3>3, <3>4
  <2> QED BY <2>1, <2>3 DEF HandlersInv, Desktop, Termux
<1>5. ASSUME NEW u \in Attempts, ThreadReq(u) \/ ThreadChunk(u) PROVE HandlersInv'
  <2>1. Termux /\ ~Desktop /\ Serving(u) /\ UNCHANGED <<downloader, dl>>
    BY <1>5 DEF ThreadReq, ThreadChunk, Serving, Termux, Desktop
  <2>2. \A v \in Attempts :
          /\ v # u => hnd'[v] = hnd[v]
          /\ hnd'[u].pc = "loop" /\ hnd'[u].host = hnd[u].host
    <3>1. CASE ThreadReq(u)
      BY <1>t, <3>1 DEF ThreadReq, Handlers
    <3>2. CASE ThreadChunk(u)
      BY <1>t, <3>2 DEF ThreadChunk, Handlers
    <3> QED BY <1>5, <3>1, <3>2
  <2> QED BY <2>1, <2>2 DEF HandlersInv, Serving, Desktop, Termux
<1>6. ASSUME NEW u \in Attempts, ThreadEnd(u) \/ ThreadStopped(u) PROVE HandlersInv'
  <2>1. PICK result \in {"saved", "error"} : ThreadReturns(u, result)
    BY <1>6 DEF ThreadEnd, ThreadStopped
  <2>2. Termux /\ ~Desktop /\ Serving(u) /\ UNCHANGED downloader
    BY <1>6 DEF ThreadEnd, ThreadStopped, Serving, Termux, Desktop
  <2>3. dl' = [dl EXCEPT ![Host(u)] = [dl[Host(u)] EXCEPT !.future = result, !.listener = "none"]]
    BY <2>1 DEF ThreadReturns
  <2>4. Host(u) \in Attempts
    BY <2>2 DEF HandlersInv, Serving, Host
  <2>5. /\ dl'[Host(u)].listener = "none"
        /\ \A e \in Attempts : e # Host(u) => dl'[e] = dl[e]
    BY <1>t, <2>3, <2>4 DEF Downloads
  <2>6. \A v \in Attempts :
          /\ hnd'[v] = Gone \/ hnd'[v] = hnd[v]
          /\ hnd'[v].pc # "ended" => v # u
    BY <2>1 DEF ThreadReturns, Gone
  <2>7. \A v \in Attempts : hnd'[v].pc # "ended" => hnd'[v] = hnd[v]
    BY <2>6 DEF Gone
  <2>8. \A v \in Attempts : Serving(v)' => Serving(v) /\ hnd'[v] = hnd[v] /\ Host(v) # Host(u)
    BY <2>2, <2>6, <2>7 DEF Serving, HandlersInv, Host
  <2> QED BY <2>2, <2>5, <2>7, <2>8 DEF HandlersInv, Serving, Desktop, Termux, Host
<1>7. ASSUME NEW u \in Attempts, Connect(u) PROVE HandlersInv'
  <2>1. PICK d \in Attempts :
          /\ dl[d].listener # "none"
          /\ hnd' = [hnd EXCEPT ![u].host = d,
                                ![u].pc = IF dl[d].listener = "open" THEN "req" ELSE "queued"]
          /\ dl' = [dl EXCEPT ![d].listener = IF Termux THEN "taken" ELSE @]
    BY <1>7 DEF Connect
  <2>2. hnd[u].pc = "none" /\ UNCHANGED downloader
    BY <1>7 DEF Connect, UploadsInv
  <2>3. /\ hnd'[u].pc \in {"req", "queued"} /\ hnd'[u].host = d
        /\ hnd'[u].pc = "req" => dl[d].listener = "open"
        /\ hnd'[u].got = 0 /\ hnd'[u].slot = 0
        /\ \A v \in Attempts : v # u => hnd'[v] = hnd[v]
    BY <1>t, <2>1, <2>2 DEF Handlers, HandlersInv
  <2>4. /\ Termux => dl'[d].listener = "taken"
        /\ \A e \in Attempts : dl'[e].future = dl[e].future /\ (e # d => dl'[e] = dl[e])
    BY <1>t, <2>1 DEF Downloads
  <2>5. Termux /\ Serving(u)' => \A v \in Attempts : Serving(v) => hnd[v].host # d
    BY <2>3 DEF HandlersInv, Serving
  <2> QED BY <1>t, <2>1, <2>2, <2>3, <2>4, <2>5 DEF HandlersInv, Serving, Desktop, Termux
<1>8. ASSUME NEW u \in Attempts, QuietStep(u) PROVE HandlersInv'
  BY <1>0, <1>8, QuietSteps
<1>9. CASE UNCHANGED vars
  BY <1>0, <1>9 DEF vars
<1> QED
  BY <1>1, <1>2, <1>3, <1>4, <1>5, <1>6, <1>7, <1>8, <1>9, Steps

(***************************************************************************)
(* Before a connection is opened there is nothing of it; a provider that   *)
(* reports success has sent the whole file.                                *)
(***************************************************************************)
Early == {"none", "approving", "report", "connecting"}

LEMMA UploadsStep ==
  TypeOK /\ UploadsInv /\ [Next]_vars => UploadsInv'
<1> SUFFICES ASSUME TypeOK, UploadsInv, [Next]_vars PROVE UploadsInv'
  OBVIOUS
<1>t. /\ up \in [Attempts -> Uploads] /\ hnd \in [Attempts -> Handlers]
      /\ link \in [Attempts -> Links]
  BY DEF TypeOK
<1>i. \A v \in Attempts :
        /\ up[v].pc \in Early => hnd[v].pc = "none" /\ up[v].n = 0 /\ link[v] = NoLink
        /\ up[v].pc = "completing" => up[v].sent
  BY DEF UploadsInv, Early
<1>p. ASSUME \A v \in Attempts :
               /\ up'[v].pc \in Early =>
                    /\ up[v].pc \in Early /\ hnd'[v] = hnd[v] /\ link'[v] = link[v]
                    /\ up'[v].n = up[v].n
               /\ up'[v].pc = "completing" => up'[v].sent
      PROVE  UploadsInv'
  BY <1>i, <1>p DEF UploadsInv, Early
<1>1. CASE UNCHANGED <<up, hnd, link>>
  BY <1>i, <1>p, <1>1
<1>2. CASE \/ \E d \in Attempts : \/ DesktopRequest(d) \/ TermuxRequest(d) \/ RequestFails(d)
                                 \/ Listen(d) \/ Deadline(d) \/ Wake(d) \/ Report(d) \/ ReportFails(d)
           \/ \E s \in Songs : Cancel(s)
           \/ UNCHANGED vars
  BY <1>1, <1>2 DEF DesktopRequest, TermuxRequest, RequestFails, Listen, Deadline, Wake, Report,
     ReportFails, Cancel, vars
<1>3. ASSUME NEW u \in Attempts,
             \/ HandlerReq(u) \/ HandlerChunk(u) \/ HandlerStopped(u) \/ HandlerEnd(u)
             \/ ThreadReq(u) \/ ThreadChunk(u)
      PROVE  UploadsInv'
  <2>1. Serving(u) /\ up' = up /\ \A v \in Attempts : v # u => hnd'[v] = hnd[v] /\ link'[v] = link[v]
    <3>1. CASE ThreadReq(u) \/ ThreadChunk(u)
      BY <1>t, <3>1 DEF ThreadReq, ThreadChunk, Serving
    <3>2. CASE HandlerReq(u) \/ HandlerChunk(u) \/ HandlerStopped(u) \/ HandlerEnd(u)
      <4>1. Serving(u) /\ up' = up /\ \E l : link' = [link EXCEPT ![u] = l]
        BY <3>2, HandlerMoves
      <4>2. hnd' = hnd \/ \E h : hnd' = [hnd EXCEPT ![u] = h]
        BY <3>2, HandlerMoves DEF Opens, GoesOn, Goes
      <4> QED BY <1>t, <4>1, <4>2
    <3> QED BY <1>3, <3>1, <3>2
  <2>2. up[u].pc \notin Early
    BY <1>i, <2>1 DEF Serving
  <2> QED BY <1>i, <1>p, <2>1, <2>2
<1>4. ASSUME NEW u \in Attempts, ThreadEnd(u) \/ ThreadStopped(u) PROVE UploadsInv'
  <2>1. up' = up /\ Serving(u) /\ \E result : ThreadReturns(u, result)
    BY <1>4 DEF ThreadEnd, ThreadStopped, Serving
  <2>2. \A v \in Attempts : hnd[v].pc = "none" => hnd'[v] = hnd[v] /\ link'[v] = link[v]
    BY <1>t, <2>1 DEF ThreadReturns, Serving
  <2> QED BY <1>i, <1>p, <2>1, <2>2
<1>5. ASSUME NEW u \in Attempts, Connect(u) PROVE UploadsInv'
  <2>1. /\ up' = [up EXCEPT ![u] = [up[u] EXCEPT !.pc = "accept"]]
        /\ \E l : link' = [link EXCEPT ![u] = l]
        /\ \A v \in Attempts : v # u => hnd'[v] = hnd[v]
    <3>1. /\ up' = [up EXCEPT ![u] = [up[u] EXCEPT !.pc = "accept"]]
          /\ \E l : link' = [link EXCEPT ![u] = l]
      BY <1>5 DEF Connect
    <3>2. \E d, pc : hnd' = [hnd EXCEPT ![u].host = d, ![u].pc = pc]
      BY <1>5 DEF Connect
    <3>3. \A v \in Attempts : v # u => hnd'[v] = hnd[v]
      BY <1>t, <3>2
    <3> QED BY <3>1, <3>3
  <2>2. up'[u].pc = "accept"
    BY <1>t, <2>1 DEF Uploads
  <2> QED BY <1>t, <1>i, <1>p, <2>1, <2>2 DEF Early
<1>6. ASSUME NEW u \in Attempts, OwnerStep(u) PROVE UploadsInv'
  <2>1. UNCHANGED <<hnd, link>>
    BY <1>6 DEF OwnerStep, OwnerRejects, OwnerApproves, Approved, ApprovalRefused, StartUpload,
       StartFails, UploadReport, UploadReportFails, ConnectRefused, CancelUpload, Provider
  <2>2. \/ up' = up
        \/ up' = [up EXCEPT ![u] = [up[u] EXCEPT !.stopped = TRUE]]
        \/ \E pc : /\ up' = [up EXCEPT ![u] = [up[u] EXCEPT !.pc = pc]]
                   /\ pc # "completing" /\ (pc \in Early => up[u].pc \in Early)
    <3>1. CASE OwnerRejects(u) \/ OwnerApproves(u) \/ Approved(u) \/ ApprovalRefused(u)
      BY <3>1 DEF OwnerRejects, OwnerApproves, Approved, ApprovalRefused, Early
    <3>2. CASE StartUpload(u) \/ StartFails(u) \/ ConnectRefused(u) \/ CancelUpload(u)
      BY <3>2 DEF StartUpload, StartFails, ConnectRefused, CancelUpload, Early
    <3>3. CASE UploadReport(u) \/ UploadReportFails(u)
      <4>1. \/ up' = [up EXCEPT ![u] = [up[u] EXCEPT !.pc = "failing"]]
            \/ up' = [up EXCEPT ![u] = [up[u] EXCEPT !.pc = "ended"]]
        BY <3>3 DEF UploadReport, UploadReportFails
      <4> QED BY <4>1 DEF Early
    <3> QED BY <1>6, <3>1, <3>2, <3>3 DEF OwnerStep
  <2>3. ASSUME NEW v \in Attempts
        PROVE  /\ up'[v].n = up[v].n /\ up'[v].sent = up[v].sent
               /\ up'[v].pc = "completing" => up[v].pc = "completing"
               /\ up'[v].pc \in Early => up[v].pc \in Early
    <3>1. CASE up' = up \/ up' = [up EXCEPT ![u] = [up[u] EXCEPT !.stopped = TRUE]]
      BY <1>t, <3>1 DEF Uploads
    <3>2. ASSUME NEW pc, up' = [up EXCEPT ![u] = [up[u] EXCEPT !.pc = pc]],
                 pc # "completing", pc \in Early => up[u].pc \in Early
          PROVE  /\ up'[v].n = up[v].n /\ up'[v].sent = up[v].sent
                 /\ up'[v].pc = "completing" => up[v].pc = "completing"
                 /\ up'[v].pc \in Early => up[v].pc \in Early
      <4>1. CASE v # u
        BY <1>t, <3>2, <4>1
      <4>2. CASE v = u
        BY <1>t, <3>2, <4>2 DEF Uploads
      <4> QED BY <4>1, <4>2
    <3> QED BY <2>2, <3>1, <3>2
  <2> QED BY <1>i, <1>p, <2>1, <2>3
<1>7. ASSUME NEW u \in Attempts, SendStep(u) PROVE UploadsInv'
  <2>1. /\ up[u].pc \in {"accept", "ack"} /\ hnd' = hnd
        /\ \E l : SendChunk(u, l) \/ GiveUp(u, l) \/ GetNack(u)
    BY <1>7 DEF SendStep, GetAccept, GetAck, GetNack, GetOther, SenderTimeout, UploadCut, Provider
  <2>2. /\ \E l : link' = [link EXCEPT ![u] = l]
        /\ \/ up' = [up EXCEPT ![u] = [up[u] EXCEPT !.pc = "failing", !.n = 0, !.again = FALSE]]
           \/ up' = [up EXCEPT ![u] = [up[u] EXCEPT !.pc = "completing", !.n = 0, !.again = FALSE,
                                                   !.sent = TRUE]]
           \/ \E n : up' = [up EXCEPT ![u] = [up[u] EXCEPT !.pc = "ack", !.n = n, !.again = FALSE]]
           \/ up' = [up EXCEPT ![u] = [up[u] EXCEPT !.again = TRUE]]
    <3>1. CASE GetNack(u)
      BY <3>1 DEF GetNack
    <3>2. CASE \E l : GiveUp(u, l)
      BY <3>2 DEF GiveUp
    <3>3. CASE \E l : SendChunk(u, l)
      <4>1. PICK l : SendChunk(u, l)
        BY <3>3
      <4>2. CASE up[u].n = Chunks
        BY <4>1, <4>2 DEF SendChunk
      <4>3. CASE up[u].n # Chunks /\ up[u].stopped
        BY <3>2, <4>1, <4>3 DEF SendChunk
      <4>4. CASE up[u].n # Chunks /\ ~up[u].stopped
        <5>1. up' = [up EXCEPT ![u] = [up[u] EXCEPT !.pc = "ack", !.n = up[u].n + 1, !.again = FALSE]]
          BY <4>1, <4>4 DEF SendChunk
        <5>2. \E k : link' = [link EXCEPT ![u] = k]
          BY <4>1, <4>4 DEF SendChunk
        <5> QED BY <5>1, <5>2
      <4> QED BY <4>2, <4>3, <4>4
    <3> QED BY <2>1, <3>1, <3>2, <3>3
  <2>3. /\ up'[u].pc \in {"failing", "completing", "accept", "ack"}
        /\ up'[u].pc = "completing" => up'[u].sent
    <3>1. CASE up' = [up EXCEPT ![u] = [up[u] EXCEPT !.pc = "failing", !.n = 0, !.again = FALSE]]
      <4>1. up'[u].pc = "failing"
        BY <1>t, <3>1 DEF Uploads
      <4> QED BY <4>1
    <3>4. CASE up' = [up EXCEPT ![u] = [up[u] EXCEPT !.pc = "completing", !.n = 0, !.again = FALSE,
                                                   !.sent = TRUE]]
      <4>1. up'[u].pc = "completing" /\ up'[u].sent = TRUE
        BY <1>t, <3>4 DEF Uploads
      <4> QED BY <4>1
    <3>2. CASE \E n : up' = [up EXCEPT ![u] = [up[u] EXCEPT !.pc = "ack", !.n = n, !.again = FALSE]]
      <4>1. up'[u].pc = "ack"
        BY <1>t, <3>2 DEF Uploads
      <4> QED BY <4>1
    <3>3. CASE up' = [up EXCEPT ![u] = [up[u] EXCEPT !.again = TRUE]]
      <4>1. up'[u].pc = up[u].pc
        BY <1>t, <3>3 DEF Uploads
      <4> QED BY <2>1, <4>1
    <3> QED BY <2>2, <3>1, <3>2, <3>3, <3>4
  <2>4. \A v \in Attempts : v # u => up'[v] = up[v] /\ link'[v] = link[v]
    BY <1>t, <2>2
  <2> QED BY <1>i, <1>p, <2>1, <2>3, <2>4 DEF Early
<1>8. ASSUME NEW u \in Attempts, NetworkStep(u) PROVE UploadsInv'
  <2>1. /\ UNCHANGED <<up, hnd>> /\ link[u].st = "open"
        /\ \A v \in Attempts : v # u => link'[v] = link[v]
    BY <1>t, <1>8 DEF NetworkStep, Damage, Break, Provider
  <2>2. link[u] # NoLink
    BY <2>1 DEF NoLink
  <2> QED BY <1>i, <1>p, <2>1, <2>2
<1> QED
  BY <1>2, <1>3, <1>4, <1>5, <1>6, <1>7, <1>8, Steps DEF QuietStep

-----------------------------------------------------------------------------
(***************************************************************************)
(* Every .part file has its handler.                                       *)
(***************************************************************************)
LEMMA PartStep ==
  TypeOK /\ UploadsInv /\ PartInv /\ [Next]_vars => PartInv'
<1> SUFFICES ASSUME TypeOK, UploadsInv, PartInv, [Next]_vars PROVE PartInv'
  OBVIOUS
<1>t. /\ hnd \in [Attempts -> Handlers] /\ part \in [Names -> [1 .. Slots -> Optional]]
      /\ \A u \in Attempts : NameOf[SongOf[u]] \in Names
  BY DEF TypeOK
<1>0. ASSUME UNCHANGED <<downloader, part>>,
             \A v \in Attempts : hnd[v].pc = "loop" =>
               hnd'[v].pc = "loop" /\ hnd'[v].slot = hnd[v].slot
      PROVE  PartInv'
  BY <1>0 DEF PartInv, Desktop
<1>1. CASE \/ \E d \in Attempts : \/ DesktopRequest(d) \/ TermuxRequest(d) \/ RequestFails(d)
                                 \/ Listen(d) \/ Deadline(d) \/ Wake(d) \/ Report(d) \/ ReportFails(d)
           \/ \E s \in Songs : Cancel(s)
           \/ \E u \in Attempts : QuietStep(u)
           \/ UNCHANGED vars
  <2>1. UNCHANGED <<downloader, part, hnd>>
    BY <1>1, QuietSteps DEF DesktopRequest, TermuxRequest, RequestFails, Listen, Deadline, Wake, Report,
       ReportFails, Cancel, vars, files
  <2> QED BY <1>0, <2>1
<1>2. ASSUME NEW u \in Attempts, Connect(u) PROVE PartInv'
  <2>1. UNCHANGED <<downloader, part>> /\ up[u].pc = "connecting"
        /\ \A v \in Attempts : v # u => hnd'[v] = hnd[v]
    BY <1>t, <1>2 DEF Connect, files
  <2>2. hnd[u].pc = "none"
    BY <2>1 DEF UploadsInv
  <2> QED BY <1>0, <2>1, <2>2
<1>3. ASSUME NEW u \in Attempts,
             ThreadReq(u) \/ ThreadChunk(u) \/ ThreadEnd(u) \/ ThreadStopped(u)
      PROVE  PartInv'
  <2>1. Termux /\ UNCHANGED <<downloader, part>>
    BY <1>3 DEF ThreadReq, ThreadChunk, ThreadEnd, ThreadStopped, files
  <2> QED BY <2>1 DEF PartInv, Desktop, Termux
<1>4. ASSUME NEW u \in Attempts,
             HandlerReq(u) \/ HandlerChunk(u) \/ HandlerStopped(u) \/ HandlerEnd(u)
      PROVE  PartInv'
  <2>0. Desktop /\ UNCHANGED downloader
    BY <1>4, HandlerMoves
  <2>1. CASE Opens(u)
    <3>1. PICK i \in 1 .. Slots, f \in Attempts :
            /\ hnd' = [hnd EXCEPT ![u] = [hnd[u] EXCEPT !.pc = "loop", !.slot = i, !.ino = f]]
            /\ part' = [part EXCEPT ![NameOf[SongOf[u]]][i] = f]
      BY <2>1 DEF Opens
    <3>2. hnd'[u].pc = "loop" /\ hnd'[u].slot = i /\ hnd[u].pc = "req"
          /\ \A v \in Attempts : v # u => hnd'[v] = hnd[v]
      <4>1. hnd'[u].pc = "loop" /\ hnd'[u].slot = i
        BY <1>t, <3>1 DEF Handlers
      <4>2. hnd[u].pc = "req"
        BY <2>1 DEF Opens
      <4>3. \A v \in Attempts : v # u => hnd'[v] = hnd[v]
        BY <1>t, <3>1
      <4> QED BY <4>1, <4>2, <4>3
    <3>3. \A n \in Names, j \in 1 .. Slots : (n = NameOf[SongOf[u]] /\ j = i) \/ part'[n][j] = part[n][j]
      BY <1>t, <3>1
    <3> QED BY <2>0, <3>2, <3>3 DEF PartInv, Desktop
  <2>2. CASE GoesOn(u)
    <3>1. part' = part
          /\ \A v \in Attempts : hnd[v].pc = "loop" => hnd'[v].pc = "loop" /\ hnd'[v].slot = hnd[v].slot
      <4>1. CASE hnd' = hnd
        BY <2>2, <4>1 DEF GoesOn
      <4>2. CASE hnd' = [hnd EXCEPT ![u] = [hnd[u] EXCEPT !.got = hnd[u].got + 1]]
        <5>1. hnd'[u].pc = hnd[u].pc /\ hnd'[u].slot = hnd[u].slot
              /\ \A v \in Attempts : v # u => hnd'[v] = hnd[v]
          BY <1>t, <4>2 DEF Handlers
        <5> QED BY <2>2, <5>1 DEF GoesOn
      <4> QED BY <2>2, <4>1, <4>2 DEF GoesOn
    <3> QED BY <1>0, <2>0, <3>1
  <2>3. CASE Goes(u)
    <3>1. \A v \in Attempts : v # u => hnd'[v] = hnd[v]
      BY <1>t, <2>3 DEF Goes
    <3>2. \A n \in Names, j \in 1 .. Slots : part'[n][j] # NoAttempt => part'[n][j] = part[n][j]
      <4>1. CASE part' = part
        BY <4>1
      <4>2. ASSUME NEW i \in 1 .. Slots, part' = [part EXCEPT ![NameOf[SongOf[u]]][i] = NoAttempt]
            PROVE  \A n \in Names, j \in 1 .. Slots :
                     part'[n][j] # NoAttempt => part'[n][j] = part[n][j]
        BY <1>t, <4>2
      <4> QED BY <2>3, <4>1, <4>2 DEF Goes
    <3>3. ASSUME NEW n \in Names, NEW j \in 1 .. Slots, part'[n][j] # NoAttempt,
                 hnd[u].pc = "loop", NameOf[SongOf[u]] = n, hnd[u].slot = j
          PROVE  FALSE
      <4>1. j # 0
        OBVIOUS
      <4>2. part' = [part EXCEPT ![n][j] = NoAttempt]
        BY <2>3, <3>3, <4>1 DEF Goes
      <4> QED BY <1>t, <3>3, <4>2
    <3> QED BY <2>0, <3>1, <3>2, <3>3 DEF PartInv, Desktop
  <2> QED BY <1>4, <2>1, <2>2, <2>3, HandlerMoves
<1> QED BY <1>1, <1>2, <1>3, <1>4, Steps

LEMMA DownloaderStays == TypeOK /\ [Next]_vars => UNCHANGED downloader
<1> SUFFICES ASSUME TypeOK, [Next]_vars PROVE UNCHANGED downloader
  OBVIOUS
<1>1. ASSUME NEW u \in Attempts,
             HandlerReq(u) \/ HandlerChunk(u) \/ HandlerStopped(u) \/ HandlerEnd(u)
      PROVE  UNCHANGED downloader
  BY <1>1, HandlerMoves
<1> QED
  BY <1>1, Steps, QuietSteps DEF DesktopRequest, TermuxRequest, RequestFails, Listen, Deadline, Wake,
     Report, ReportFails, Cancel, ThreadReq, ThreadChunk, ThreadEnd, ThreadStopped, Connect, vars

(***************************************************************************)
(* The invariant that the safety theorems rest on.                         *)
(***************************************************************************)
Inv == SafeInv /\ Sending /\ PartInv

LEMMA InvAlways == Spec => []Inv
<1>1. Init => Inv
  BY TypeInit, SafeInit DEF Inv, SafeInv, Init, Sending
<1>2. Inv /\ [Next]_vars => Inv'
  <2> SUFFICES ASSUME Inv, [Next]_vars PROVE Inv'
    OBVIOUS
  <2>1. TypeOK /\ TasksInv /\ UploadsInv /\ HandlersInv /\ Sending /\ PartInv
    BY DEF Inv, SafeInv
  <2>2. TypeOK' /\ Sending'
    BY <2>1, TypeStep, SendingStep
  <2>3. TasksInv' /\ UploadsInv'
    BY <2>1, TasksStep, UploadsStep
  <2>4. HandlersInv'
    BY <2>1, <2>2, HandlersStep
  <2>5. PartInv'
    BY <2>1, PartStep
  <2> QED BY <2>2, <2>3, <2>4, <2>5 DEF Inv, SafeInv
<1> QED BY <1>1, <1>2, PTL DEF Spec

(***************************************************************************)
(* No .part file is left when the handlers are done, however many shared   *)
(* it and whichever failed first: HandlerFails and HandlerEnd.             *)
(***************************************************************************)
THEOREM NoPartIsLeft == Spec => []NoPartLeft
<1>1. Inv => NoPartLeft
  BY DEF Inv, PartInv, NoPartLeft
<1> QED BY <1>1, InvAlways, PTL

(***************************************************************************)
(* What a step may do to a done_future: it is created by the task that     *)
(* listens, and set once.                                                  *)
(***************************************************************************)
FutureMoves(d) ==
  \/ dl'[d].future = dl[d].future
  \/ dl[d].future = "none" /\ dl'[d].future = "pending"
  \/ dl[d].future = "pending" /\ dl'[d].future \in {"saved", "error"}

LEMMA FutureSteps ==
  ASSUME TypeOK, TasksInv, HandlersInv, [Next]_vars, NEW e \in Attempts
  PROVE  FutureMoves(e)
<1>t. dl \in [Attempts -> Downloads]
  BY DEF TypeOK
<1> USE DEF FutureMoves
<1>1. ASSUME NEW d \in Attempts, Report(d) \/ ReportFails(d) PROVE FutureMoves(e)
  <2>1. \E task : dl' = [dl EXCEPT ![d] = [dl[d] EXCEPT !.task = task]]
    BY <1>1 DEF Report, ReportFails, EndTask
  <2> QED BY <1>t, <2>1 DEF Downloads
<1>2. ASSUME NEW d \in Attempts, Requested(d) PROVE FutureMoves(e)
  BY <1>t, <1>2, RequestsLeave
<1>3. ASSUME NEW d \in Attempts, Listen(d) PROVE FutureMoves(e)
  <2>1. dl[d].future = "none"
    BY <1>3 DEF Listen, TasksInv
  <2>2. \/ dl' = [dl EXCEPT ![d] = [dl[d] EXCEPT !.task = "waiting", !.future = "pending",
                                                 !.listener = "open"]]
        \/ dl' = [dl EXCEPT ![d] = [dl[d] EXCEPT !.task = "failing"]]
    BY <1>3 DEF Listen
  <2>3. CASE dl' = [dl EXCEPT ![d] = [dl[d] EXCEPT !.task = "waiting", !.future = "pending",
                                                 !.listener = "open"]]
    BY <1>t, <2>1, <2>3 DEF Downloads
  <2>4. CASE dl' = [dl EXCEPT ![d] = [dl[d] EXCEPT !.task = "failing"]]
    BY <1>t, <2>4 DEF Downloads
  <2> QED BY <2>2, <2>3, <2>4
<1>4. ASSUME NEW d \in Attempts, Deadline(d) PROVE FutureMoves(e)
  BY <1>t, <1>4 DEF Deadline, Downloads
<1>5. ASSUME NEW d \in Attempts, Wake(d) PROVE FutureMoves(e)
  <2>1. \E task : dl' = [dl EXCEPT ![d] = [dl[d] EXCEPT !.task = task, !.listener = "none"]]
    BY <1>5 DEF Wake
  <2> QED BY <1>t, <2>1 DEF Downloads
<1>6. ASSUME NEW s \in Songs, Cancel(s) PROVE FutureMoves(e)
  <2>1. \/ dl' = dl
        \/ dl' = [dl EXCEPT ![registered[s]].cancelled = TRUE,
                            ![registered[s]].future = IF @ = "pending" THEN "error" ELSE @]
    BY <1>6 DEF Cancel
  <2> QED BY <1>t, <2>1 DEF Downloads
<1>7. CASE Failure
  BY <1>7 DEF Failure
<1>8. ASSUME NEW u \in Attempts, HandlerReq(u) \/ HandlerChunk(u) \/ HandlerStopped(u)
      PROVE  FutureMoves(e)
  BY <1>7, <1>8, Failures
<1>9. ASSUME NEW u \in Attempts, HandlerEnd(u) PROVE FutureMoves(e)
  <2>1. CASE Saves(u)
    <3>1. dl' = [dl EXCEPT ![Host(u)].future = IF @ = "pending" THEN "saved" ELSE @]
      BY <2>1 DEF Saves, Resolve
    <3> QED BY <1>t, <3>1 DEF Downloads
  <2> QED BY <1>7, <1>9, <2>1, HandlerEnds
<1>10. ASSUME NEW u \in Attempts, ThreadEnd(u) \/ ThreadStopped(u) PROVE FutureMoves(e)
  <2>1. PICK result \in {"saved", "error"} : ThreadReturns(u, result)
    BY <1>10 DEF ThreadEnd, ThreadStopped
  <2>2. dl' = [dl EXCEPT ![Host(u)] = [dl[Host(u)] EXCEPT !.future = result, !.listener = "none"]]
    BY <2>1 DEF ThreadReturns
  <2>3. Termux /\ Serving(u)
    BY <1>10 DEF ThreadEnd, ThreadStopped, Serving
  <2>4. Host(u) \in Attempts /\ dl[Host(u)].future = "pending"
    BY <2>3 DEF HandlersInv, Serving, Host
  <2> QED BY <1>t, <2>2, <2>4 DEF Downloads
<1>11. ASSUME NEW u \in Attempts, ThreadReq(u) \/ ThreadChunk(u) \/ QuietStep(u)
       PROVE  FutureMoves(e)
  BY <1>11, QuietSteps DEF ThreadReq, ThreadChunk
<1>12. ASSUME NEW u \in Attempts, Connect(u) PROVE FutureMoves(e)
  <2>1. \E d \in Attempts : \E x : dl' = [dl EXCEPT ![d] = [dl[d] EXCEPT !.listener = x]]
    <3>1. PICK d \in Attempts :
            dl' = [dl EXCEPT ![d] = [dl[d] EXCEPT !.listener = IF Termux THEN "taken" ELSE dl[d].listener]]
      BY <1>12 DEF Connect
    <3> QED BY <3>1
  <2> QED BY <1>t, <2>1 DEF Downloads
<1>13. CASE UNCHANGED vars
  BY <1>13 DEF vars
<1> HIDE DEF FutureMoves
<1> QED
  BY <1>1, <1>2, <1>3, <1>4, <1>5, <1>6, <1>8, <1>9, <1>10, <1>11, <1>12, <1>13, Steps DEF Requested

(***************************************************************************)
(* cancel() resolves the future at once, so that nothing a handler does    *)
(* later makes a cancelled download a success.                             *)
(***************************************************************************)
THEOREM CancelledStaysUndone == Spec => CancelledIsNotReported
<1>1. Inv /\ [Next]_vars =>
        \A d \in Attempts : dl[d].cancelled /\ dl[d].future # "saved" => dl'[d].future # "saved"
  <2> SUFFICES ASSUME Inv, [Next]_vars, NEW d \in Attempts, dl[d].cancelled, dl[d].future # "saved"
               PROVE  dl'[d].future # "saved"
    OBVIOUS
  <2>1. FutureMoves(d)
    BY FutureSteps DEF Inv, SafeInv
  <2>2. dl[d].future # "pending"
    BY DEF Inv, SafeInv, TasksInv
  <2> QED BY <2>1, <2>2 DEF FutureMoves
<1>2. Inv /\ [Next]_vars =>
        [\A d \in Attempts : dl[d].cancelled /\ dl[d].future # "saved" => dl'[d].future # "saved"]_vars
  BY <1>1
<1> QED BY <1>2, InvAlways, PTL DEF Spec, CancelledIsNotReported

(***************************************************************************)
(* The finally clause of listen_and_receive() runs before the verdict: a   *)
(* desktop download that is over does not keep the port from the next.     *)
(***************************************************************************)
THEOREM PortIsFreedForTheNext == Spec => []PortIsFreed
<1>1. Init => PortIsFreed
  BY DEF Init, PortIsFreed
<1>2. Inv /\ PortIsFreed /\ [Next]_vars => PortIsFreed'
  <2> SUFFICES ASSUME Inv, PortIsFreed, [Next]_vars, Desktop', NEW e \in Attempts,
                      dl'[e].listener # "none"
               PROVE  dl'[e].task = "waiting"
    BY DEF PortIsFreed
  <2>t. TypeOK /\ TasksInv /\ HandlersInv /\ dl \in [Attempts -> Downloads]
    BY DEF Inv, SafeInv, TypeOK
  <2> USE DEF PortIsFreed
  <2>d. Desktop /\ ~Termux /\ UNCHANGED downloader
    BY <2>t, DownloaderStays DEF Desktop, Termux
  <2>0. ASSUME dl'[e].task = dl[e].task, dl'[e].listener \in {dl[e].listener, "none"}
        PROVE  dl'[e].task = "waiting"
    BY <2>0, <2>d
  <2>1. ASSUME NEW d \in Attempts,
               Requested(d) \/ Report(d) \/ ReportFails(d)
        PROVE  dl'[e].task = "waiting"
    <3>1. CASE Requested(d)
      BY <2>d, <2>t, <3>1, RequestsLeave
    <3>2. CASE Report(d) \/ ReportFails(d)
      <4>1. /\ \E task : dl' = [dl EXCEPT ![d] = [dl[d] EXCEPT !.task = task]]
            /\ dl[d].task # "waiting"
        BY <3>2 DEF Report, ReportFails, EndTask
      <4>2. dl[d].listener = "none"
        BY <2>d, <4>1
      <4> QED BY <2>t, <2>d, <4>1, <4>2 DEF Downloads
    <3> QED BY <2>1, <3>1, <3>2
  <2>2. ASSUME NEW d \in Attempts, Listen(d) PROVE dl'[e].task = "waiting"
    <3>1. dl[d].listener = "none"
      BY <2>2, <2>t DEF Listen, TasksInv
    <3>2. CASE dl' = [dl EXCEPT ![d] = [dl[d] EXCEPT !.task = "waiting", !.future = "pending",
                                                   !.listener = "open"]]
      <4>1. CASE e = d
        BY <2>t, <3>2, <4>1 DEF Downloads
      <4> QED BY <2>t, <2>0, <3>2, <4>1
    <3>3. CASE dl' = [dl EXCEPT ![d] = [dl[d] EXCEPT !.task = "failing"]]
      <4>1. CASE e = d
        BY <2>t, <3>1, <3>3, <4>1 DEF Downloads
      <4> QED BY <2>t, <2>0, <3>3, <4>1
    <3> QED BY <2>2, <3>2, <3>3 DEF Listen
  <2>3. ASSUME NEW d \in Attempts, Deadline(d) PROVE dl'[e].task = "waiting"
    BY <2>0, <2>3, <2>t DEF Deadline, Downloads
  <2>4. ASSUME NEW d \in Attempts, Wake(d) PROVE dl'[e].task = "waiting"
    <3>1. \E task : dl' = [dl EXCEPT ![d] = [dl[d] EXCEPT !.task = task, !.listener = "none"]]
      BY <2>4 DEF Wake
    <3>2. CASE e = d
      BY <2>t, <3>1, <3>2 DEF Downloads
    <3> QED BY <2>t, <2>0, <3>1, <3>2
  <2>5. ASSUME NEW s \in Songs, Cancel(s) PROVE dl'[e].task = "waiting"
    <3>1. \/ dl' = dl
          \/ dl' = [dl EXCEPT ![registered[s]].cancelled = TRUE,
                              ![registered[s]].future = IF @ = "pending" THEN "error" ELSE @]
      BY <2>5 DEF Cancel
    <3> QED BY <2>0, <2>t, <3>1 DEF Downloads
  <2>6. ASSUME NEW u \in Attempts,
               HandlerReq(u) \/ HandlerChunk(u) \/ HandlerStopped(u) \/ HandlerEnd(u)
        PROVE  dl'[e].task = "waiting"
    <3>1. CASE Failure
      BY <2>0, <3>1 DEF Failure
    <3>2. CASE Saves(u)
      <4>1. dl' = [dl EXCEPT ![Host(u)].future = IF @ = "pending" THEN "saved" ELSE @]
        BY <3>2 DEF Saves, Resolve
      <4> QED BY <2>t, <2>0, <4>1 DEF Downloads
    <3> QED BY <2>6, <2>t, <3>1, <3>2, Failures, HandlerEnds
  <2>7. ASSUME NEW u \in Attempts,
               \/ ThreadReq(u) \/ ThreadChunk(u) \/ ThreadEnd(u) \/ ThreadStopped(u)
        PROVE  dl'[e].task = "waiting"
    BY <2>d, <2>7 DEF ThreadReq, ThreadChunk, ThreadEnd, ThreadStopped
  <2>8. ASSUME NEW u \in Attempts, Connect(u) PROVE dl'[e].task = "waiting"
    <3>1. \E d \in Attempts : dl' = [dl EXCEPT ![d] = [dl[d] EXCEPT !.listener = dl[d].listener]]
      BY <2>d, <2>8 DEF Connect
    <3> QED BY <2>0, <2>t, <3>1 DEF Downloads
  <2>9. ASSUME NEW u \in Attempts, QuietStep(u) PROVE dl'[e].task = "waiting"
    BY <2>0, <2>9, QuietSteps
  <2>10. CASE UNCHANGED vars
    BY <2>0, <2>10 DEF vars
  <2> HIDE DEF PortIsFreed
  <2> QED BY <2>1, <2>2, <2>3, <2>4, <2>5, <2>6, <2>7, <2>8, <2>9, <2>10, Steps DEF Requested
<1> QED BY <1>1, <1>2, InvAlways, PTL DEF Spec

\* What downloads share, the port and the .part files, they give back.
THEOREM NothingIsKept == Spec => []NothingKept
  BY NoPartIsLeft, PortIsFreedForTheNext, PTL DEF NothingKept

-----------------------------------------------------------------------------
(***************************************************************************)
(* A name in the folder of a desktop client is not given up again.         *)
(***************************************************************************)
LEMMA FolderSteps ==
  ASSUME TypeOK, TasksInv, HandlersInv, [Next]_vars, Desktop
  PROVE  \/ UNCHANGED folder
         \/ \E u \in Attempts : HandlerEnd(u) /\ Saves(u)
<1>1. ASSUME NEW u \in Attempts, HandlerReq(u) \/ HandlerChunk(u) \/ HandlerStopped(u)
      PROVE  UNCHANGED folder
  BY <1>1 DEF HandlerReq, HandlerChunk, HandlerStopped
<1>2. ASSUME NEW u \in Attempts, HandlerEnd(u)
      PROVE  UNCHANGED folder \/ Saves(u)
  BY <1>2, HandlerEnds
<1>3. ~Termux
  BY DEF Desktop, Termux
<1> QED
  BY <1>1, <1>2, <1>3, Steps, QuietSteps DEF DesktopRequest, TermuxRequest, RequestFails, Listen,
     Deadline, Wake, Report, ReportFails, Cancel, ThreadReq, ThreadChunk, ThreadEnd, ThreadStopped,
     Connect, files, vars

Stored(n) == \E i \in 1 .. Slots : folder[n][i] # NoAttempt

LEMMA StoredStays ==
  ASSUME TypeOK, TasksInv, HandlersInv, [Next]_vars, Desktop, NEW n \in Names, Stored(n)
  PROVE  Stored(n)'
<1>1. CASE UNCHANGED folder
  BY <1>1 DEF Stored
<1>2. ASSUME NEW u \in Attempts, Saves(u) PROVE Stored(n)'
  <2>1. /\ folder' = [folder EXCEPT ![NameOf[SongOf[u]]][hnd[u].slot] = part[NameOf[SongOf[u]]][hnd[u].slot]]
        /\ part[NameOf[SongOf[u]]][hnd[u].slot] # NoAttempt
    BY <1>2 DEF Saves
  <2>2. folder \in [Names -> [1 .. Slots -> Optional]] /\ NameOf[SongOf[u]] \in Names
    BY DEF TypeOK
  <2>3. PICK i \in 1 .. Slots : folder[n][i] # NoAttempt
    BY DEF Stored
  <2>4. folder'[n][i] # NoAttempt
    BY <2>1, <2>2, <2>3
  <2> QED BY <2>4 DEF Stored
<1> QED BY <1>1, <1>2, FolderSteps

\* A transfer that is verified stores the song of its download.
Holds(n, s) ==
  \E i \in 1 .. Slots : folder[n][i] # NoAttempt /\ data[folder[n][i]] = Whole(s)

LEMMA SavesStores ==
  ASSUME TypeOK, HandlersInv, Desktop, NEW u \in Attempts, HandlerEnd(u), Saves(u)
  PROVE  /\ SongOf[u] = SongOf[Host(u)] /\ Host(u) \in Attempts
         /\ Stored(NameOf[SongOf[u]])' /\ Holds(NameOf[SongOf[u]], SongOf[u])'
<1> DEFINE n == NameOf[SongOf[u]]
           f == part[n][hnd[u].slot]
<1>1. /\ folder' = [folder EXCEPT ![n] = [folder[n] EXCEPT ![hnd[u].slot] = f]]
      /\ f # NoAttempt /\ data[f] = Whole(SongOf[u])
  BY DEF Saves
<1>2. hnd[u].pc = "loop" /\ hnd[u].slot \in 0 .. Slots /\ data' = data
  BY HandlerEnds, HandlerChanges DEF TypeOK
<1>3. SongOf[u] = SongOf[Host(u)] /\ Host(u) \in Attempts /\ hnd[u].slot # 0
  BY <1>2 DEF HandlersInv, Host
<1>4. hnd[u].slot \in 1 .. Slots
  BY <1>2, <1>3
<1>5. folder \in [Names -> [1 .. Slots -> Optional]] /\ n \in Names
  BY DEF TypeOK
<1>6. folder'[n][hnd[u].slot] = f
  <2> HIDE DEF n, f
  <2> QED BY <1>1, <1>4, <1>5
<1>7. /\ folder'[n][hnd[u].slot] # NoAttempt
      /\ data'[folder'[n][hnd[u].slot]] = Whole(SongOf[u])
  <2> HIDE DEF n, f
  <2> QED BY <1>1, <1>2, <1>6
<1> QED BY <1>3, <1>4, <1>7 DEF Stored, Holds, Whole

\* On the desktop only such a transfer makes a download a success.
LEMMA SavedBySaves ==
  ASSUME TypeOK, TasksInv, HandlersInv, [Next]_vars, Desktop, NEW d \in Attempts,
         dl[d].future # "saved", dl'[d].future = "saved"
  PROVE  \E u \in Attempts : HandlerEnd(u) /\ Saves(u) /\ Host(u) = d
<1>t. dl \in [Attempts -> Downloads]
  BY DEF TypeOK
<1>0. dl[d].future = "pending"
  BY FutureSteps DEF FutureMoves
<1>1. ASSUME NEW u \in Attempts, HandlerEnd(u), Saves(u) PROVE Host(u) = d
  <2>1. dl' = [dl EXCEPT ![Host(u)].future = IF @ = "pending" THEN "saved" ELSE @]
    BY <1>1 DEF Saves, Resolve
  <2> QED BY <1>t, <2>1 DEF Downloads
<1>2. SUFFICES ASSUME \A u \in Attempts : ~(HandlerEnd(u) /\ Saves(u)) PROVE FALSE
  BY <1>1
<1>3. ASSUME NEW u \in Attempts,
             HandlerReq(u) \/ HandlerChunk(u) \/ HandlerStopped(u) \/ HandlerEnd(u)
      PROVE  FALSE
  <2>1. Failure
    BY <1>2, <1>3, Failures, HandlerEnds
  <2> QED BY <2>1 DEF Failure
<1>4. ASSUME NEW e \in Attempts, Requested(e) PROVE FALSE
  BY <1>t, <1>4, RequestsLeave
<1>5. ASSUME NEW e \in Attempts, Report(e) \/ ReportFails(e) PROVE FALSE
  <2>1. \E task : dl' = [dl EXCEPT ![e] = [dl[e] EXCEPT !.task = task]]
    BY <1>5 DEF Report, ReportFails, EndTask
  <2> QED BY <1>t, <2>1 DEF Downloads
<1>6. ASSUME NEW e \in Attempts, Listen(e) \/ Deadline(e) PROVE FALSE
  <2>1. CASE Listen(e)
    <3>1. dl'[d] = dl[d] \/ e = d
      BY <2>1, <1>t DEF Listen
    <3>2. dl[e].future = "none"
      BY <2>1 DEF Listen, TasksInv
    <3> QED BY <1>0, <3>1, <3>2
  <2>2. CASE Deadline(e)
    BY <2>2, <1>t DEF Deadline, Downloads
  <2> QED BY <1>6, <2>1, <2>2
<1>7. ASSUME NEW e \in Attempts, Wake(e) PROVE FALSE
  <2>1. \E task : dl' = [dl EXCEPT ![e] = [dl[e] EXCEPT !.task = task, !.listener = "none"]]
    BY <1>7 DEF Wake
  <2> QED BY <1>t, <2>1 DEF Downloads
<1>8. ASSUME NEW s \in Songs, Cancel(s) PROVE FALSE
  <2>1. \/ dl' = dl
        \/ dl' = [dl EXCEPT ![registered[s]].cancelled = TRUE,
                            ![registered[s]].future = IF @ = "pending" THEN "error" ELSE @]
    BY <1>8 DEF Cancel
  <2> QED BY <1>t, <2>1 DEF Downloads
<1>9. ASSUME NEW u \in Attempts,
             ThreadReq(u) \/ ThreadChunk(u) \/ ThreadEnd(u) \/ ThreadStopped(u)
      PROVE  FALSE
  BY <1>9 DEF ThreadReq, ThreadChunk, ThreadEnd, ThreadStopped, Desktop, Termux
<1>10. ASSUME NEW u \in Attempts, Connect(u) PROVE FALSE
  <2>1. PICK e \in Attempts :
          dl' = [dl EXCEPT ![e] = [dl[e] EXCEPT !.listener = IF Termux THEN "taken"
                                                            ELSE dl[e].listener]]
    BY <1>10 DEF Connect
  <2> QED BY <1>t, <2>1 DEF Downloads
<1>11. CASE (\E u \in Attempts : QuietStep(u)) \/ UNCHANGED vars
  BY <1>11, QuietSteps DEF vars
<1> QED BY <1>3, <1>4, <1>5, <1>6, <1>7, <1>8, <1>9, <1>10, <1>11, Steps DEF Requested

(***************************************************************************)
(* A desktop download that succeeds has brought the song it was asked for, *)
(* whole, whoever connected to its listener, and whatever other downloads  *)
(* of the same file name did to the .part file before: the checks of       *)
(* _handle_connection().                                                   *)
(***************************************************************************)
THEOREM SavedIsTheSong == Spec => SavedIsRight
<1> DEFINE P ==
      \A d \in Attempts :
        Desktop /\ dl[d].future # "saved" /\ dl'[d].future = "saved" =>
          Holds(NameOf[SongOf[d]], SongOf[d])'
<1>1. Inv /\ [Next]_vars => P
  <2> SUFFICES ASSUME Inv, [Next]_vars, NEW d \in Attempts,
                      Desktop, dl[d].future # "saved", dl'[d].future = "saved"
               PROVE  Holds(NameOf[SongOf[d]], SongOf[d])'
    OBVIOUS
  <2>t. TypeOK /\ TasksInv /\ HandlersInv
    BY DEF Inv, SafeInv
  <2>1. PICK u \in Attempts : HandlerEnd(u) /\ Saves(u) /\ Host(u) = d
    BY <2>t, SavedBySaves
  <2>2. SongOf[u] = SongOf[d] /\ Holds(NameOf[SongOf[u]], SongOf[u])'
    BY <2>t, <2>1, SavesStores
  <2> QED BY <2>2
<1>2. P => \A d \in Attempts :
        Desktop /\ dl[d].future # "saved" /\ dl'[d].future = "saved" =>
          \E i \in 1 .. Slots :
            LET f == folder'[NameOf[SongOf[d]]][i]
            IN  f # NoAttempt /\ data'[f] = Whole(SongOf[d])
  BY DEF Holds, Whole
<1> HIDE DEF P
<1>3. Inv /\ [Next]_vars =>
        [\A d \in Attempts :
           Desktop /\ dl[d].future # "saved" /\ dl'[d].future = "saved" =>
             \E i \in 1 .. Slots :
               LET f == folder'[NameOf[SongOf[d]]][i]
               IN  f # NoAttempt /\ data'[f] = Whole(SongOf[d])]_vars
  BY <1>1, <1>2
<1> QED BY <1>3, InvAlways, PTL DEF Spec, SavedIsRight

\* After a success there is a file of that name, from then on.
SavedStays ==
  Desktop => \A d \in Attempts : dl[d].future = "saved" => Stored(NameOf[SongOf[d]])

LEMMA SavedAlwaysStays == Spec => []SavedStays
<1>1. Init => SavedStays
  BY DEF Init, SavedStays
<1>2. Inv /\ SavedStays /\ [Next]_vars => SavedStays'
  <2> SUFFICES ASSUME Inv, SavedStays, [Next]_vars, Desktop', NEW d \in Attempts,
                      dl'[d].future = "saved"
               PROVE  Stored(NameOf[SongOf[d]])'
    BY DEF SavedStays
  <2>t. TypeOK /\ TasksInv /\ HandlersInv /\ NameOf[SongOf[d]] \in Names
    BY DEF Inv, SafeInv
  <2>d. Desktop
    BY <2>t, DownloaderStays DEF Desktop
  <2>1. CASE dl[d].future = "saved"
    BY <2>t, <2>d, <2>1, StoredStays DEF SavedStays
  <2>2. CASE dl[d].future # "saved"
    <3>1. PICK u \in Attempts : HandlerEnd(u) /\ Saves(u) /\ Host(u) = d
      BY <2>t, <2>d, <2>2, SavedBySaves
    <3>2. SongOf[u] = SongOf[d] /\ Stored(NameOf[SongOf[u]])'
      BY <2>t, <2>d, <3>1, SavesStores
    <3> QED BY <3>2
  <2> QED BY <2>1, <2>2
<1> QED BY <1>1, <1>2, InvAlways, PTL DEF Spec

(***************************************************************************)
(* The entry of a song says DONE only when a file of its name has been     *)
(* saved, although handlers of older downloads write to it by the song.    *)
(***************************************************************************)
THEOREM ShownDoneIsInTheFolder == Spec => []ShownDoneIsSaved
<1>0. ShownDoneIsSaved <=> \A d \in Attempts : item[d] = "DONE" => Stored(NameOf[SongOf[d]])
  BY DEF ShownDoneIsSaved, Stored
<1>1. Init => ShownDoneIsSaved
  BY DEF Init, ShownDoneIsSaved
<1>2. Inv /\ Inv' /\ SavedStays /\ ShownDoneIsSaved /\ [Next]_vars => ShownDoneIsSaved'
  <2> SUFFICES ASSUME Inv, Inv', SavedStays, ShownDoneIsSaved, [Next]_vars, NEW d \in Attempts,
                      item'[d] = "DONE"
               PROVE  Stored(NameOf[SongOf[d]])'
    BY DEF ShownDoneIsSaved, Stored
  <2>t. /\ TypeOK /\ TasksInv /\ HandlersInv /\ NameOf[SongOf[d]] \in Names
        /\ dl \in [Attempts -> Downloads] /\ item \in [Attempts -> Items]
    BY DEF Inv, SafeInv, TypeOK, Items
  <2>d. Desktop
    <3>1. Desktop'
      BY DEF Inv, SafeInv, TasksInv
    <3> QED BY <2>t, <3>1, DownloaderStays DEF Desktop
  <2>1. CASE item[d] = "DONE"
    BY <1>0, <2>t, <2>d, <2>1, StoredStays
  <2>2. CASE item[d] # "DONE"
    <3>1. ASSUME NEW u \in Attempts, HandlerEnd(u), Saves(u) PROVE Stored(NameOf[SongOf[d]])'
      <4>1. item' = item \/ item' = [item EXCEPT ![entry[SongOf[u]]] = "DONE"]
        BY <3>1 DEF Saves, Show
      <4>2. d = entry[SongOf[u]] /\ SongOf[u] \in Songs
        BY <2>t, <2>2, <4>1 DEF TypeOK
      <4>3. SongOf[d] = SongOf[u]
        BY <2>t, <4>2 DEF TasksInv
      <4> QED BY <2>t, <2>d, <3>1, <4>3, SavesStores
    <3>2. ASSUME NEW e \in Attempts, Wake(e) PROVE Stored(NameOf[SongOf[d]])'
      <4>1. \/ item' = item \/ item' = [item EXCEPT ![e] = "FAILED"]
            \/ dl[e].future = "saved" /\ item' = [item EXCEPT ![e] = "DONE"]
        BY <3>2, <2>d DEF Wake, Desktop, Termux
      <4>2. d = e /\ dl[e].future = "saved"
        BY <2>t, <2>2, <4>1
      <4>3. Stored(NameOf[SongOf[d]])
        BY <2>d, <4>2 DEF SavedStays
      <4> QED BY <2>t, <2>d, <4>3, StoredStays
    <3>3. CASE item' = item \/ \E e, value : value # "DONE" /\ item' = [item EXCEPT ![e] = value]
      BY <2>t, <2>2, <3>3
    <3>4. CASE Failure
      BY <2>2, <3>4 DEF Failure
    <3>5. ASSUME NEW u \in Attempts,
                 HandlerReq(u) \/ HandlerChunk(u) \/ HandlerStopped(u) \/ HandlerEnd(u)
          PROVE  Stored(NameOf[SongOf[d]])'
      BY <2>t, <3>1, <3>4, <3>5, Failures, HandlerEnds
    <3>6. ASSUME NEW e \in Attempts,
                 \/ DesktopRequest(e) \/ TermuxRequest(e) \/ RequestFails(e) \/ Listen(e)
                 \/ Deadline(e) \/ Report(e) \/ ReportFails(e)
          PROVE  Stored(NameOf[SongOf[d]])'
      <4>1. CASE DesktopRequest(e) \/ RequestFails(e)
        BY <3>3, <4>1 DEF DesktopRequest, RequestFails, ui
      <4>2. CASE TermuxRequest(e) \/ Deadline(e) \/ Report(e)
        BY <3>3, <4>2 DEF TermuxRequest, Deadline, Report, ui
      <4>3. CASE Listen(e)
        <5>1. \/ item' = item \/ item' = [item EXCEPT ![e] = "ACTIVE"]
              \/ item' = [item EXCEPT ![e] = "FAILED"]
          BY <4>3 DEF Listen, ui
        <5> QED BY <3>3, <5>1
      <4>4. CASE ReportFails(e)
        BY <3>3, <4>4 DEF ReportFails
      <4> QED BY <3>6, <4>1, <4>2, <4>3, <4>4
    <3>7. ASSUME NEW s \in Songs, Cancel(s) PROVE Stored(NameOf[SongOf[d]])'
      BY <3>3, <3>7 DEF Cancel
    <3>8. ASSUME NEW u \in Attempts,
                 \/ ThreadReq(u) \/ ThreadChunk(u) \/ ThreadEnd(u) \/ ThreadStopped(u)
                 \/ Connect(u) \/ QuietStep(u)
          PROVE  Stored(NameOf[SongOf[d]])'
      BY <3>3, <3>8, QuietSteps DEF ThreadReq, ThreadChunk, ThreadEnd, ThreadStopped, Connect, ui
    <3>9. CASE UNCHANGED vars
      BY <3>3, <3>9 DEF vars, ui
    <3> QED BY <3>2, <3>5, <3>6, <3>7, <3>8, <3>9, Steps
  <2> QED BY <2>1, <2>2
<1> QED BY <1>1, <1>2, InvAlways, SavedAlwaysStays, PTL DEF Spec

(***************************************************************************)
(* A "completed" at the server has a reason that stays.                    *)
(***************************************************************************)
LEMMA SentStays ==
  ASSUME TypeOK, [Next]_vars, NEW v \in Attempts, up[v].sent
  PROVE  up'[v].sent
<1>t. up \in [Attempts -> Uploads]
  BY DEF TypeOK
<1>1. ASSUME NEW u \in Attempts, SendStep(u) PROVE up'[v].sent
  <2>1. \E l : SendChunk(u, l) \/ GiveUp(u, l) \/ GetNack(u)
    BY <1>1 DEF SendStep, GetAccept, GetAck, GetNack, GetOther, SenderTimeout, UploadCut
  <2>2. CASE \E l : GiveUp(u, l)
    BY <1>t, <2>2 DEF GiveUp, Uploads
  <2>3. CASE GetNack(u)
    BY <1>t, <2>3 DEF GetNack, Uploads
  <2>4. CASE \E l : SendChunk(u, l)
    <3>1. CASE up' = [up EXCEPT ![u] = [up[u] EXCEPT !.pc = "completing", !.n = 0, !.again = FALSE,
                                                   !.sent = TRUE]]
      <4>1. up'[u].sent
        BY <1>t, <3>1 DEF Uploads
      <4> QED BY <1>t, <3>1, <4>1
    <3>2. CASE \E n : up' = [up EXCEPT ![u] = [up[u] EXCEPT !.pc = "ack", !.n = n, !.again = FALSE]]
      BY <1>t, <3>2 DEF Uploads
    <3>3. PICK l : SendChunk(u, l)
      BY <2>4
    <3>4. CASE up[u].n = Chunks
      BY <3>1, <3>3, <3>4 DEF SendChunk
    <3>5. CASE up[u].n # Chunks /\ up[u].stopped
      BY <2>2, <3>3, <3>5 DEF SendChunk
    <3>6. CASE up[u].n # Chunks /\ ~up[u].stopped
      BY <3>2, <3>3, <3>6 DEF SendChunk
    <3> QED BY <3>4, <3>5, <3>6
  <2> QED BY <2>1, <2>2, <2>3, <2>4
<1>2. ASSUME NEW u \in Attempts, OwnerStep(u) \/ Connect(u) PROVE up'[v].sent
  <2>1. \/ up' = up
        \/ \E pc : up' = [up EXCEPT ![u] = [up[u] EXCEPT !.pc = pc]]
        \/ up' = [up EXCEPT ![u] = [up[u] EXCEPT !.stopped = TRUE]]
    <3>1. CASE OwnerRejects(u) \/ OwnerApproves(u) \/ Approved(u) \/ ApprovalRefused(u) \/ Connect(u)
      BY <3>1 DEF OwnerRejects, OwnerApproves, Approved, ApprovalRefused, Connect
    <3>2. CASE StartUpload(u) \/ StartFails(u) \/ ConnectRefused(u) \/ CancelUpload(u)
      BY <3>2 DEF StartUpload, StartFails, ConnectRefused, CancelUpload
    <3>3. CASE UploadReport(u) \/ UploadReportFails(u)
      BY <3>3 DEF UploadReport, UploadReportFails
    <3> QED BY <1>2, <3>1, <3>2, <3>3 DEF OwnerStep
  <2> QED BY <1>t, <2>1 DEF Uploads
<1>3. ASSUME NEW u \in Attempts, NetworkStep(u) PROVE up'[v].sent
  BY <1>3 DEF NetworkStep, Damage, Break
<1>4. ASSUME NEW u \in Attempts,
             HandlerReq(u) \/ HandlerChunk(u) \/ HandlerStopped(u) \/ HandlerEnd(u)
      PROVE  up'[v].sent
  BY <1>4, HandlerMoves
<1> QED
  BY <1>1, <1>2, <1>3, <1>4, Steps DEF QuietStep, DesktopRequest, TermuxRequest, RequestFails, Listen,
     Deadline, Wake, Report, ReportFails, Cancel, ThreadReq, ThreadChunk, ThreadEnd, ThreadStopped, vars

LEMMA CompletedSteps ==
  ASSUME TypeOK, [Next]_vars, NEW d \in Attempts, status'[d] = "completed"
  PROVE  status[d] = "completed" \/ dl[d].task = "completing" \/ up[d].pc = "completing"
<1>t. status \in [Attempts -> Statuses]
  BY DEF TypeOK
<1> SUFFICES ASSUME status[d] # "completed"
             PROVE  dl[d].task = "completing" \/ up[d].pc = "completing"
  OBVIOUS
<1>1. ASSUME NEW e \in Attempts, NEW task, Book!Report(e, Verdict(task))
      PROVE  e = d /\ task = "completing"
  BY <1>1, <1>t DEF Book!Report, Verdict
<1>2. ASSUME NEW e \in Attempts,
             \/ Book!Submit(e) \/ Book!Issue(e) \/ Book!Approve(e, e) \/ Book!Reject(e)
             \/ Book!Report(e, "in_progress")
      PROVE  FALSE
  <2>1. CASE Book!Submit(e)
    <3>1. status'[d] \in {"pending", "superseded", status[d]}
      BY <2>1, <1>t DEF Book!Submit
    <3> QED BY <3>1
  <2>2. CASE \/ Book!Issue(e) \/ Book!Approve(e, e) \/ Book!Reject(e)
             \/ Book!Report(e, "in_progress")
    BY <2>2, <1>t DEF Book!Issue, Book!Approve, Book!Reject, Book!Report
  <2> QED BY <1>2, <2>1, <2>2
<1>3. ASSUME NEW e \in Attempts, Report(e) \/ ReportFails(e) PROVE dl[d].task = "completing"
  BY <1>1, <1>3 DEF Report, ReportFails, server
<1>4. ASSUME NEW e \in Attempts, UploadReport(e) \/ UploadReportFails(e)
      PROVE  up[d].pc = "completing"
  BY <1>1, <1>4 DEF UploadReport, UploadReportFails, server
<1>5. ASSUME NEW e \in Attempts,
             \/ DesktopRequest(e) \/ TermuxRequest(e) \/ RequestFails(e) \/ OwnerRejects(e)
             \/ OwnerApproves(e) \/ Approved(e) \/ StartUpload(e) \/ StartFails(e)
      PROVE  FALSE
  BY <1>2, <1>5 DEF DesktopRequest, TermuxRequest, RequestFails, OwnerRejects, OwnerApproves,
     Approved, StartUpload, StartFails, server
<1>6. ASSUME NEW e \in Attempts,
             \/ Listen(e) \/ Deadline(e) \/ Wake(e) \/ ApprovalRefused(e) \/ ConnectRefused(e)
             \/ CancelUpload(e) \/ SendStep(e) \/ NetworkStep(e) \/ Connect(e)
      PROVE  FALSE
  BY <1>6 DEF Listen, Deadline, Wake, ApprovalRefused, ConnectRefused, CancelUpload, SendStep,
     GetAccept, GetAck, GetNack, GetOther, SenderTimeout, UploadCut, NetworkStep, Damage, Break,
     Connect, server
<1>7. ASSUME NEW u \in Attempts,
             \/ HandlerReq(u) \/ HandlerChunk(u) \/ HandlerStopped(u) \/ HandlerEnd(u)
             \/ ThreadReq(u) \/ ThreadChunk(u) \/ ThreadEnd(u) \/ ThreadStopped(u)
      PROVE  FALSE
  BY <1>7 DEF HandlerReq, HandlerChunk, HandlerStopped, HandlerEnd, ThreadReq, ThreadChunk,
     ThreadEnd, ThreadStopped, server
<1>8. CASE UNCHANGED vars \/ \E s \in Songs : Cancel(s)
  BY <1>8 DEF vars, Cancel, server
<1> QED
  BY <1>3, <1>4, <1>5, <1>6, <1>7, <1>8, Steps DEF QuietStep, OwnerStep

(***************************************************************************)
(* The server hears "completed" only from a task that has saved a file or  *)
(* an owner whose every chunk was acknowledged: _do_download(),            *)
(* approve_and_send(), _bg_receive() and _bg_send().                       *)
(***************************************************************************)
THEOREM CompletedHasReason == Spec => []CompletedIsBacked
<1>1. Init => CompletedIsBacked
  BY DEF Init, CompletedIsBacked
<1>2. Inv /\ CompletedIsBacked /\ [Next]_vars => CompletedIsBacked'
  <2> SUFFICES ASSUME Inv, CompletedIsBacked, [Next]_vars, NEW d \in Attempts, status'[d] = "completed"
               PROVE  dl'[d].future = "saved" \/ up'[d].sent
    BY DEF CompletedIsBacked
  <2>t. TypeOK /\ TasksInv /\ HandlersInv /\ UploadsInv
    BY DEF Inv, SafeInv
  <2>1. dl[d].future = "saved" \/ up[d].sent
    BY <2>t, CompletedSteps DEF CompletedIsBacked, TasksInv, UploadsInv
  <2> QED BY <2>t, <2>1, SentStays, FutureSteps DEF FutureMoves
<1> QED BY <1>1, <1>2, InvAlways, PTL DEF Spec
-----------------------------------------------------------------------------
(***************************************************************************)
(* Every attempt runs out of things to do.  First what one change of a     *)
(* record leaves to do.                                                    *)
(***************************************************************************)
LEMMA DownloadFalls ==
  ASSUME NEW r \in Downloads
  PROVE  /\ DownloadLeft(r) \in Nat
         /\ r.task = "none" => /\ DownloadLeft([r EXCEPT !.task = "asked"]) < DownloadLeft(r)
                               /\ DownloadLeft([r EXCEPT !.task = "ended"]) < DownloadLeft(r)
         /\ r.task = "asked" => DownloadLeft([r EXCEPT !.task = "failing"]) < DownloadLeft(r)
         /\ r.task = "asked" /\ r.future = "none" /\ r.listener = "none" =>
              DownloadLeft([r EXCEPT !.task = "waiting", !.future = "pending", !.listener = "open"])
                < DownloadLeft(r)
         /\ r.task \in {"asked", "waiting", "completing", "failing"} =>
              DownloadLeft([r EXCEPT !.task = "ended"]) < DownloadLeft(r)
         /\ r.task = "completing" => DownloadLeft([r EXCEPT !.task = "failing"]) < DownloadLeft(r)
         /\ r.task = "waiting" => \A t \in {"completing", "failing"} :
              DownloadLeft([r EXCEPT !.task = t, !.listener = "none"]) < DownloadLeft(r)
         /\ DownloadLeft([r EXCEPT !.cancelled = TRUE, !.future = r.future]) = DownloadLeft(r)
         /\ r.future = "pending" =>
              /\ DownloadLeft([r EXCEPT !.cancelled = TRUE, !.future = "error"]) < DownloadLeft(r)
              /\ \A f \in {"saved", "error"} :
                   /\ DownloadLeft([r EXCEPT !.future = f]) < DownloadLeft(r)
                   /\ DownloadLeft([r EXCEPT !.future = f, !.listener = "none"]) < DownloadLeft(r)
         /\ r.listener = "open" => DownloadLeft([r EXCEPT !.listener = "taken"]) < DownloadLeft(r)
BY DEF Downloads, DownloadLeft, TaskLeft, ListenerLeft

LEMMA HandlerFalls ==
  ASSUME NEW h \in Handlers
  PROVE  /\ HandlerLeft(h) \in Nat
         /\ h.pc \in {"queued", "req", "loop"} => HandlerLeft(Gone) < HandlerLeft(h)
         /\ HandlerLeft([h EXCEPT !.got = h.got + 1]) = HandlerLeft(h)
         /\ h.pc = "req" => \A i, f : HandlerLeft([h EXCEPT !.pc = "loop", !.slot = i, !.ino = f]) < HandlerLeft(h)
         /\ h.pc = "none" => \A d, pc : pc \in {"req", "queued"} =>
              HandlerLeft([h EXCEPT !.host = d, !.pc = pc]) < HandlerLeft(h)
BY DEF Handlers, HandlerLeft, Gone

LEMMA UploadFalls ==
  ASSUME NEW r \in Uploads
  PROVE  /\ UploadLeft(r) \in Nat
         /\ UploadLeft([r EXCEPT !.stopped = TRUE]) = UploadLeft(r)
         /\ r.pc = "none" => UploadLeft([r EXCEPT !.pc = "approving"]) < UploadLeft(r)
         /\ r.pc = "approving" =>
              /\ UploadLeft([r EXCEPT !.pc = "report"]) < UploadLeft(r)
              /\ UploadLeft([r EXCEPT !.pc = "ended"]) < UploadLeft(r)
         /\ r.pc = "report" =>
              /\ UploadLeft([r EXCEPT !.pc = "connecting"]) < UploadLeft(r)
              /\ UploadLeft([r EXCEPT !.pc = "failing"]) < UploadLeft(r)
         /\ r.pc = "connecting" =>
              /\ UploadLeft([r EXCEPT !.pc = "accept"]) + 2 < UploadLeft(r)
              /\ UploadLeft([r EXCEPT !.pc = "failing"]) < UploadLeft(r)
         /\ r.pc \in {"accept", "ack"} =>
              /\ UploadLeft([r EXCEPT !.pc = "failing", !.n = 0, !.again = FALSE]) + 2 < UploadLeft(r)
              /\ r.n # Chunks => UploadLeft([r EXCEPT !.pc = "ack", !.n = r.n + 1, !.again = FALSE]) + 2
                                   < UploadLeft(r)
         /\ r.pc = "accept" =>
              UploadLeft([r EXCEPT !.pc = "completing", !.n = 0, !.again = FALSE, !.sent = TRUE]) + 2
                < UploadLeft(r)
         /\ r.pc = "ack" =>
              /\ UploadLeft([r EXCEPT !.pc = "completing", !.n = 0, !.again = FALSE, !.sent = TRUE]) + 1
                   < UploadLeft(r)
              /\ ~r.again => UploadLeft([r EXCEPT !.again = TRUE]) + 2 < UploadLeft(r)
         /\ r.pc = "completing" => /\ UploadLeft([r EXCEPT !.pc = "ended"]) < UploadLeft(r)
                                   /\ UploadLeft([r EXCEPT !.pc = "failing"]) < UploadLeft(r)
         /\ r.pc = "failing" => UploadLeft([r EXCEPT !.pc = "ended"]) < UploadLeft(r)
BY DEF Uploads, UploadLeft, StageLeft, ChunksLeft

LEMMA LinkFalls ==
  ASSUME NEW l \in Links
  PROVE  /\ LinkLeft(l) \in Nat /\ LinkLeft(NoLink) = 0
         /\ \A e \in Ends : LinkLeft(Close(l, e)) <= LinkLeft(l)
         /\ \A f \in Frames : /\ LinkLeft(Put(l, "up", f)) <= LinkLeft(l) + 1
                              /\ LinkLeft(Put(l, "down", f)) <= LinkLeft(l) + 2
         /\ l.toDown # <<>> => LinkLeft([l EXCEPT !.toDown = Tail(@)]) = LinkLeft(l) - 2
         /\ l.toUp # <<>> => LinkLeft([l EXCEPT !.toUp = Tail(@)]) = LinkLeft(l) - 1
         /\ \A st : LinkLeft([l EXCEPT !.st = st, !.toDown = <<>>, !.toUp = <<>>]) <= LinkLeft(l)
         /\ \A st : LinkLeft([l EXCEPT !.st = st]) = LinkLeft(l)
         /\ \A f \in Frames : LinkLeft([l EXCEPT !.st = "open", !.toDown = <<f>>]) <= LinkLeft(l) + 2
<1> DEFINE x == Len(l.toDown)  y == Len(l.toUp)
<1>t. /\ l.toDown \in Seq(Frames) /\ l.toUp \in Seq(Frames) /\ Len(<<>>) = 0
      /\ x \in Nat /\ y \in Nat
      /\ \A f \in Frames : Len(<<f>>) = 1
  BY LenProperties, EmptySeq DEF Links
<1>l. LinkLeft(l) = 2 * x + y
  BY DEF LinkLeft
<1>n. LinkLeft(NoLink) = 0
  BY <1>t DEF NoLink, LinkLeft
<1>s. \A m : LinkLeft(m) = 2 * Len(m.toDown) + Len(m.toUp)
  BY DEF LinkLeft
<1>1. LinkLeft(l) \in Nat /\ 0 <= LinkLeft(l)
  <2> HIDE DEF x, y
  <2> QED BY <1>t, <1>l
<1>2. ASSUME NEW e \in Ends PROVE LinkLeft(Close(l, e)) <= LinkLeft(l)
  <2> DEFINE m == Close(l, e)
  <2>1. CASE m = NoLink
    BY <1>n, <1>1, <2>1
  <2>2. CASE m # NoLink
    <3>1. \/ m.toDown = l.toDown /\ m.toUp = <<>>
          \/ m.toDown = <<>> /\ m.toUp = l.toUp
      BY <2>2 DEF Close, Links
    <3>2. \/ Len(m.toDown) = x /\ Len(m.toUp) = 0
          \/ Len(m.toDown) = 0 /\ Len(m.toUp) = y
      BY <1>t, <3>1
    <3>3. LinkLeft(m) = 2 * x + 0 \/ LinkLeft(m) = 2 * 0 + y
      <4>1. LinkLeft(m) = 2 * Len(m.toDown) + Len(m.toUp)
        BY <1>s
      <4> HIDE DEF m, x, y
      <4> QED BY <3>2, <4>1
    <3> HIDE DEF m, x, y
    <3>4. 2 * x + 0 <= 2 * x + y /\ 2 * 0 + y <= 2 * x + y
      BY <1>t
    <3> QED BY <1>l, <3>3, <3>4 DEF m
  <2> QED BY <2>1, <2>2
<1>3. ASSUME NEW f \in Frames
      PROVE  /\ LinkLeft(Put(l, "up", f)) <= LinkLeft(l) + 1
             /\ LinkLeft(Put(l, "down", f)) <= LinkLeft(l) + 2
  <2> DEFINE p == Put(l, "up", f)  q == Put(l, "down", f)
  <2>1. Len(Append(l.toDown, f)) = x + 1 /\ Len(Append(l.toUp, f)) = y + 1
    BY <1>t, AppendProperties
  <2>2. /\ p = l \/ (p.toDown = l.toDown /\ p.toUp = Append(l.toUp, f))
        /\ q = l \/ (q.toDown = Append(l.toDown, f) /\ q.toUp = l.toUp)
    <3> DEFINE v == [l EXCEPT !.toUp = Append(l.toUp, f)]  w == [l EXCEPT !.toDown = Append(l.toDown, f)]
    <3>1. p \in {l, v} /\ q \in {l, w}
      BY DEF Put
    <3>2. /\ v.toDown = l.toDown /\ v.toUp = Append(l.toUp, f)
          /\ w.toDown = Append(l.toDown, f) /\ w.toUp = l.toUp
      BY DEF Links
    <3> HIDE DEF p, q, v, w
    <3> QED BY <3>1, <3>2
  <2>3. /\ p = l \/ (Len(p.toDown) = x /\ Len(p.toUp) = y + 1)
        /\ q = l \/ (Len(q.toDown) = x + 1 /\ Len(q.toUp) = y)
    BY <2>1, <2>2
  <2>4. /\ p = l \/ LinkLeft(p) = 2 * x + (y + 1)
        /\ q = l \/ LinkLeft(q) = 2 * (x + 1) + y
    <3>1. /\ LinkLeft(p) = 2 * Len(p.toDown) + Len(p.toUp)
          /\ LinkLeft(q) = 2 * Len(q.toDown) + Len(q.toUp)
      BY <1>s
    <3> HIDE DEF p, q, x, y
    <3> QED BY <2>3, <3>1
  <2>5. LinkLeft(p) <= 2 * x + y + 1 /\ LinkLeft(q) <= 2 * x + y + 2
    <3> HIDE DEF p, q, x, y
    <3>1. p = l => LinkLeft(p) = 2 * x + y
      BY <1>l
    <3>2. q = l => LinkLeft(q) = 2 * x + y
      BY <1>l
    <3> DEFINE P == LinkLeft(p)  Q == LinkLeft(q)
    <3> HIDE DEF P, Q
    <3>3. P <= 2 * x + y + 1 /\ Q <= 2 * x + y + 2
      <4>1. P = 2 * x + y \/ P = 2 * x + (y + 1)
        BY <2>4, <3>1 DEF P
      <4>2. Q = 2 * x + y \/ Q = 2 * (x + 1) + y
        BY <2>4, <3>2 DEF Q
      <4> QED BY <1>t, <4>1, <4>2
    <3> QED BY <3>3 DEF P, Q
  <2> QED BY <1>l, <2>5
<1>4. ASSUME l.toDown # <<>> PROVE LinkLeft([l EXCEPT !.toDown = Tail(@)]) = LinkLeft(l) - 2
  <2> DEFINE m == [l EXCEPT !.toDown = Tail(@)]
  <2>1. Len(Tail(l.toDown)) = x - 1 /\ x - 1 \in Nat
    BY <1>t, <1>4, HeadTailProperties, EmptySeq
  <2>2. m.toDown = Tail(l.toDown) /\ m.toUp = l.toUp
    BY DEF Links
  <2>3. LinkLeft(m) = 2 * (x - 1) + y
    <3>1. Len(m.toDown) = x - 1 /\ Len(m.toUp) = y
      BY <2>1, <2>2
    <3>2. LinkLeft(m) = 2 * Len(m.toDown) + Len(m.toUp)
      BY <1>s
    <3> HIDE DEF m, x, y
    <3> QED BY <3>1, <3>2
  <2>4. 2 * (x - 1) + y = 2 * x + y - 2
    <3> HIDE DEF x, y
    <3> QED BY <1>t
  <2>5. LinkLeft(m) = 2 * x + y - 2
    BY <2>3, <2>4
  <2> QED BY <1>l, <2>5
<1>5. ASSUME l.toUp # <<>> PROVE LinkLeft([l EXCEPT !.toUp = Tail(@)]) = LinkLeft(l) - 1
  <2> DEFINE m == [l EXCEPT !.toUp = Tail(@)]
  <2>1. Len(Tail(l.toUp)) = y - 1 /\ y - 1 \in Nat
    BY <1>t, <1>5, HeadTailProperties, EmptySeq
  <2>2. m.toUp = Tail(l.toUp) /\ m.toDown = l.toDown
    BY DEF Links
  <2>3. LinkLeft(m) = 2 * x + (y - 1)
    <3>1. Len(m.toDown) = x /\ Len(m.toUp) = y - 1
      BY <2>1, <2>2
    <3>2. LinkLeft(m) = 2 * Len(m.toDown) + Len(m.toUp)
      BY <1>s
    <3> HIDE DEF m, x, y
    <3> QED BY <3>1, <3>2
  <2>4. 2 * x + (y - 1) = 2 * x + y - 1
    <3> HIDE DEF x, y
    <3> QED BY <1>t
  <2>5. LinkLeft(m) = 2 * x + y - 1
    BY <2>3, <2>4
  <2> QED BY <1>l, <2>5
<1>6. \A st : LinkLeft([l EXCEPT !.st = st, !.toDown = <<>>, !.toUp = <<>>]) <= LinkLeft(l)
  BY <1>t, <1>1 DEF Links, LinkLeft
<1>7. \A st : LinkLeft([l EXCEPT !.st = st]) = LinkLeft(l)
  BY DEF Links, LinkLeft
<1>8. ASSUME NEW f \in Frames
      PROVE  LinkLeft([l EXCEPT !.st = "open", !.toDown = <<f>>]) <= LinkLeft(l) + 2
  <2> DEFINE m == [l EXCEPT !.st = "open", !.toDown = <<f>>]
  <2>1. Len(m.toDown) = 1 /\ Len(m.toUp) = y
    BY <1>t DEF Links
  <2>0. LinkLeft(m) = 2 * Len(m.toDown) + Len(m.toUp)
    BY <1>s
  <2> HIDE DEF m, x, y
  <2>2. LinkLeft(m) = 2 * 1 + y
    BY <2>0, <2>1
  <2>3. 2 * 1 + y <= 2 * x + y + 2
    BY <1>t
  <2> QED BY <1>l, <2>2, <2>3 DEF m
<1> QED BY <1>n, <1>1, <1>2, <1>3, <1>4, <1>5, <1>6, <1>7, <1>8

(***************************************************************************)
(* What a step leaves of attempt e: no part grows that is not paid for.    *)
(***************************************************************************)
SendLeft(r, l) == UploadLeft(r) + LinkLeft(l)

Less(e) ==
  /\ DownloadLeft(dl'[e]) <= DownloadLeft(dl[e])
  /\ HandlerLeft(hnd'[e]) <= HandlerLeft(hnd[e])
  /\ SendLeft(up'[e], link'[e]) <= SendLeft(up[e], link[e])
  /\ \/ UNCHANGED <<dl[e], up[e], link[e], hnd[e]>>
     \/ DownloadLeft(dl'[e]) < DownloadLeft(dl[e])
     \/ HandlerLeft(hnd'[e]) < HandlerLeft(hnd[e])
     \/ SendLeft(up'[e], link'[e]) < SendLeft(up[e], link[e])
     \/ faults' = faults + 1

LEMMA LessIsLess ==
  ASSUME TypeOK, TypeOK', NEW e \in Attempts, Less(e)
  PROVE  /\ Left(e)' \in Nat
         /\ \/ UNCHANGED <<dl[e], up[e], link[e], hnd[e]>>
            \/ Left(e)' < Left(e)
            \/ faults' = faults + 1 /\ Left(e)' <= Left(e)
<1> DEFINE D == DownloadLeft(dl[e])  D2 == DownloadLeft(dl'[e])
           H == HandlerLeft(hnd[e])  H2 == HandlerLeft(hnd'[e])
           U == UploadLeft(up[e])    U2 == UploadLeft(up'[e])
           L == LinkLeft(link[e])    L2 == LinkLeft(link'[e])
<1>1. D \in Nat /\ H \in Nat /\ U \in Nat /\ L \in Nat
  BY DownloadFalls, HandlerFalls, UploadFalls, LinkFalls DEF TypeOK
<1>2. D2 \in Nat /\ H2 \in Nat /\ U2 \in Nat /\ L2 \in Nat
  <2>1. dl'[e] \in Downloads /\ hnd'[e] \in Handlers /\ up'[e] \in Uploads /\ link'[e] \in Links
    BY DEF TypeOK
  <2> QED BY <2>1, DownloadFalls, HandlerFalls, UploadFalls, LinkFalls
<1>3. Left(e) = D + U + H + L /\ Left(e)' = D2 + U2 + H2 + L2
  BY DEF Left
<1>4. D2 <= D /\ H2 <= H /\ U2 + L2 <= U + L
  BY DEF Less, SendLeft
<1>5. \/ UNCHANGED <<dl[e], up[e], link[e], hnd[e]>>
      \/ D2 < D \/ H2 < H \/ U2 + L2 < U + L \/ faults' = faults + 1
  BY DEF Less, SendLeft
<1>6. /\ D2 + U2 + H2 + L2 \in Nat /\ D2 + U2 + H2 + L2 <= D + U + H + L
      /\ D2 < D \/ H2 < H \/ U2 + L2 < U + L => D2 + U2 + H2 + L2 < D + U + H + L
  <2> HIDE DEF D, D2, H, H2, U, U2, L, L2
  <2> QED BY <1>1, <1>2, <1>4
<1> QED BY <1>3, <1>5, <1>6

\* What a step does to the download, and to the upload, connection and handler.
DownFalls(e) ==
  \/ dl'[e] = dl[e]
  \/ DownloadLeft(dl'[e]) < DownloadLeft(dl[e])
  \/ faults' = faults + 1 /\ DownloadLeft(dl'[e]) = DownloadLeft(dl[e])

RestFalls(e) ==
  \/ up'[e] = up[e] /\ link'[e] = link[e] /\ hnd'[e] = hnd[e]
  \/ /\ SendLeft(up'[e], link'[e]) < SendLeft(up[e], link[e])
     /\ HandlerLeft(hnd'[e]) <= HandlerLeft(hnd[e])
  \/ /\ SendLeft(up'[e], link'[e]) <= SendLeft(up[e], link[e])
     /\ HandlerLeft(hnd'[e]) < HandlerLeft(hnd[e])
  \/ /\ SendLeft(up'[e], link'[e]) <= SendLeft(up[e], link[e])
     /\ hnd'[e] = hnd[e] /\ faults' = faults + 1

LEMMA FallsIsLess ==
  ASSUME TypeOK, TypeOK', NEW e \in Attempts, DownFalls(e), RestFalls(e)
  PROVE  Less(e)
<1> DEFINE D == DownloadLeft(dl[e])      D2 == DownloadLeft(dl'[e])
           H == HandlerLeft(hnd[e])      H2 == HandlerLeft(hnd'[e])
           S == SendLeft(up[e], link[e]) S2 == SendLeft(up'[e], link'[e])
<1>s. \A r \in Uploads, l \in Links : SendLeft(r, l) \in Nat
  <2> SUFFICES ASSUME NEW r \in Uploads, NEW l \in Links PROVE SendLeft(r, l) \in Nat
    OBVIOUS
  <2>1. UploadLeft(r) \in Nat /\ LinkLeft(l) \in Nat
    BY UploadFalls, LinkFalls
  <2> QED BY <2>1 DEF SendLeft
<1>1. D \in Nat /\ H \in Nat /\ S \in Nat
  BY <1>s, DownloadFalls, HandlerFalls DEF TypeOK
<1>2. D2 \in Nat /\ H2 \in Nat /\ S2 \in Nat
  <2>1. dl'[e] \in Downloads /\ hnd'[e] \in Handlers /\ up'[e] \in Uploads /\ link'[e] \in Links
    BY DEF TypeOK
  <2> QED BY <1>s, <2>1, DownloadFalls, HandlerFalls
<1>3. \/ dl'[e] = dl[e] /\ D2 = D
      \/ D2 < D
      \/ faults' = faults + 1 /\ D2 = D
  BY DEF DownFalls
<1>4. \/ up'[e] = up[e] /\ link'[e] = link[e] /\ hnd'[e] = hnd[e] /\ S2 = S /\ H2 = H
      \/ S2 < S /\ H2 <= H
      \/ S2 <= S /\ H2 < H
      \/ S2 <= S /\ H2 = H /\ faults' = faults + 1
  BY DEF RestFalls
<1>5. /\ D2 <= D /\ H2 <= H /\ S2 <= S
      /\ \/ UNCHANGED <<dl[e], up[e], link[e], hnd[e]>>
         \/ D2 < D \/ H2 < H \/ S2 < S \/ faults' = faults + 1
  <2> HIDE DEF D, D2, H, H2, S, S2
  <2> QED BY <1>1, <1>2, <1>3, <1>4
<1> QED BY <1>5 DEF Less

(***************************************************************************)
(* Of a download, a step leaves less, unless it is a cancellation.         *)
(***************************************************************************)
LEMMA DownSteps ==
  ASSUME TypeOK, TypeOK', TasksInv, HandlersInv, [Next]_vars, NEW e \in Attempts
  PROVE  DownFalls(e)
<1>t. /\ dl \in [Attempts -> Downloads] /\ dl[e] \in Downloads /\ dl'[e] \in Downloads
  BY DEF TypeOK
<1> USE DEF DownFalls
\* A step of one download d, to a record that has less left.
<1>d. ASSUME NEW d \in Attempts, NEW r, dl' = [dl EXCEPT ![d] = r],
             DownloadLeft(r) < DownloadLeft(dl[d])
      PROVE  DownFalls(e)
  <2>1. CASE d = e
    <3>1. dl'[e] = r
      BY <1>t, <1>d, <2>1
    <3> QED BY <1>d, <2>1, <3>1
  <2>2. CASE d # e
    BY <1>t, <1>d, <2>2
  <2> QED BY <2>1, <2>2
<1>1. ASSUME NEW d \in Attempts, Requested(d) PROVE DownFalls(e)
  <2>1. dl[d].task = "none"
    BY <1>1, <1>t, Requests
  <2>2. \/ dl'[e] = dl[e]
        \/ e = d /\ \E task \in {"asked", "ended"} : dl'[e] = [dl[e] EXCEPT !.task = task]
        \/ /\ dl[e].task \in {"asked", "waiting", "completing", "failing"}
           /\ dl'[e] = [dl[e] EXCEPT !.task = "ended"]
    BY <1>1, <1>t, Requests
  <2> QED BY <1>t, <2>1, <2>2, DownloadFalls
<1>3. ASSUME NEW d \in Attempts, Listen(d) PROVE DownFalls(e)
  <2>1. dl[d].task = "asked" /\ dl[d].future = "none" /\ dl[d].listener = "none"
        /\ dl[d] \in Downloads
    BY <1>3, <1>t DEF Listen, TasksInv
  <2>2. \/ dl' = [dl EXCEPT ![d] = [dl[d] EXCEPT !.task = "waiting", !.future = "pending",
                                                 !.listener = "open"]]
        \/ dl' = [dl EXCEPT ![d] = [dl[d] EXCEPT !.task = "failing"]]
    BY <1>3 DEF Listen
  <2> HIDE DEF DownFalls
  <2> QED BY <1>d, <2>1, <2>2, DownloadFalls
<1>4. ASSUME NEW d \in Attempts, Deadline(d) PROVE DownFalls(e)
  <2>1. dl[d].future = "pending" /\ dl[d] \in Downloads
    BY <1>4, <1>t DEF Deadline
  <2>2. dl' = [dl EXCEPT ![d] = [dl[d] EXCEPT !.future = "error", !.listener = "none"]]
    BY <1>4 DEF Deadline
  <2> HIDE DEF DownFalls
  <2> QED BY <1>d, <2>1, <2>2, DownloadFalls
<1>5. ASSUME NEW d \in Attempts, Wake(d) PROVE DownFalls(e)
  <2>1. dl[d].task = "waiting" /\ dl[d] \in Downloads
    BY <1>5, <1>t DEF Wake
  <2>2. \/ dl' = [dl EXCEPT ![d] = [dl[d] EXCEPT !.task = "completing", !.listener = "none"]]
        \/ dl' = [dl EXCEPT ![d] = [dl[d] EXCEPT !.task = "failing", !.listener = "none"]]
    BY <1>5 DEF Wake
  <2> HIDE DEF DownFalls
  <2> QED BY <1>d, <2>1, <2>2, DownloadFalls
<1>6. ASSUME NEW d \in Attempts, Report(d) \/ ReportFails(d) PROVE DownFalls(e)
  <2>1. dl[d].task \in {"completing", "failing"} /\ dl[d] \in Downloads
    BY <1>6, <1>t DEF Report, ReportFails
  <2>2. \/ dl' = [dl EXCEPT ![d] = [dl[d] EXCEPT !.task = "ended"]]
        \/ /\ dl[d].task = "completing"
           /\ dl' = [dl EXCEPT ![d] = [dl[d] EXCEPT !.task = "failing"]]
    BY <1>6 DEF Report, ReportFails, EndTask
  <2> HIDE DEF DownFalls
  <2> QED BY <1>d, <2>1, <2>2, DownloadFalls
<1>7. ASSUME NEW s \in Songs, Cancel(s) PROVE DownFalls(e)
  <2> DEFINE d == registered[s]
  <2>1. CASE d = NoAttempt
    BY <1>7, <2>1 DEF Cancel
  <2>2. CASE d # NoAttempt
    <3>1. d \in Attempts /\ dl[d] \in Downloads /\ faults' = faults + 1
      BY <1>7, <2>2 DEF TypeOK, Optional, Cancel, Fault
    <3>2. CASE dl[d].future = "pending"
      <4>1. dl' = [dl EXCEPT ![d] = [dl[d] EXCEPT !.cancelled = TRUE, !.future = "error"]]
        BY <1>7, <2>2, <3>2 DEF Cancel
      <4> HIDE DEF DownFalls, d
      <4> QED BY <1>d, <3>1, <3>2, <4>1, DownloadFalls
    <3>3. CASE dl[d].future # "pending"
      <4>1. dl' = [dl EXCEPT ![d] = [dl[d] EXCEPT !.cancelled = TRUE, !.future = dl[d].future]]
        BY <1>7, <2>2, <3>3 DEF Cancel
      <4>2. dl'[e] = dl[e] \/ dl'[e] = [dl[e] EXCEPT !.cancelled = TRUE, !.future = dl[e].future]
        BY <1>t, <3>1, <4>1
      <4> QED BY <1>t, <3>1, <4>2, DownloadFalls
    <3> QED BY <3>2, <3>3
  <2> QED BY <2>1, <2>2
<1>8. ASSUME Failure PROVE DownFalls(e)
  <2>1. \/ dl'[e] = dl[e]
        \/ dl[e].future = "pending" /\ dl'[e] = [dl[e] EXCEPT !.future = "error"]
    BY <1>8, <1>t DEF Failure, Downloads
  <2> QED BY <1>t, <2>1, DownloadFalls
<1>9. ASSUME NEW u \in Attempts, HandlerReq(u) \/ HandlerChunk(u) \/ HandlerStopped(u)
      PROVE  DownFalls(e)
  BY <1>8, <1>9, Failures
<1>10. ASSUME NEW u \in Attempts, HandlerEnd(u) PROVE DownFalls(e)
  <2>1. CASE Saves(u)
    <3>1. dl' = [dl EXCEPT ![Host(u)].future = IF @ = "pending" THEN "saved" ELSE @]
      BY <2>1 DEF Saves, Resolve
    <3>2. \/ dl'[e] = dl[e]
          \/ dl[e].future = "pending" /\ dl'[e] = [dl[e] EXCEPT !.future = "saved"]
      BY <1>t, <3>1 DEF Downloads
    <3> QED BY <1>t, <3>2, DownloadFalls
  <2> QED BY <1>8, <1>10, <2>1, HandlerEnds
<1>11. ASSUME NEW u \in Attempts, ThreadEnd(u) \/ ThreadStopped(u) PROVE DownFalls(e)
  <2>1. PICK result \in {"saved", "error"} : ThreadReturns(u, result)
    BY <1>11 DEF ThreadEnd, ThreadStopped
  <2>2. dl' = [dl EXCEPT ![Host(u)] = [dl[Host(u)] EXCEPT !.future = result, !.listener = "none"]]
    BY <2>1 DEF ThreadReturns
  <2>3. Termux /\ Serving(u)
    BY <1>11 DEF ThreadEnd, ThreadStopped, Serving
  <2>4. Host(u) \in Attempts /\ dl[Host(u)].future = "pending" /\ dl[Host(u)] \in Downloads
    BY <1>t, <2>3 DEF HandlersInv, Serving, Host
  <2> HIDE DEF DownFalls
  <2> QED BY <1>d, <2>2, <2>4, DownloadFalls
<1>12. ASSUME NEW u \in Attempts, ThreadReq(u) \/ ThreadChunk(u) \/ QuietStep(u)
       PROVE  DownFalls(e)
  BY <1>12, QuietSteps DEF ThreadReq, ThreadChunk
<1>13. ASSUME NEW u \in Attempts, Connect(u) PROVE DownFalls(e)
  <2>1. PICK d \in Attempts :
          /\ dl[d].listener # "none"
          /\ dl' = [dl EXCEPT ![d] = [dl[d] EXCEPT !.listener = IF Termux THEN "taken" ELSE dl[d].listener]]
    BY <1>13 DEF Connect
  <2>2. dl[d] \in Downloads /\ dl[d].listener \in {"open", "taken"}
    BY <1>t, <2>1 DEF Downloads
  <2>3. CASE Termux /\ dl[d].listener = "open"
    <3>1. dl' = [dl EXCEPT ![d] = [dl[d] EXCEPT !.listener = "taken"]]
      BY <2>1, <2>3
    <3> HIDE DEF DownFalls
    <3> QED BY <1>d, <2>2, <2>3, <3>1, DownloadFalls
  <2>4. CASE ~Termux \/ dl[d].listener = "taken"
    <3>1. dl' = [dl EXCEPT ![d] = [dl[d] EXCEPT !.listener = dl[d].listener]]
      BY <2>1, <2>4
    <3>2. [dl[d] EXCEPT !.listener = dl[d].listener] = dl[d]
      BY <2>2 DEF Downloads
    <3> QED BY <1>t, <3>1, <3>2
  <2> QED BY <2>2, <2>3, <2>4
<1>14. CASE UNCHANGED vars
  BY <1>14 DEF vars
<1> HIDE DEF DownFalls
<1> QED
  BY <1>1, <1>3, <1>4, <1>5, <1>6, <1>7, <1>9, <1>10, <1>11, <1>12, <1>13, <1>14, Steps
     DEF Requested

(***************************************************************************)
(* Of an upload, its connection and its handler, a step leaves less,       *)
(* unless it is a fault.  What is sent is paid for by the one who sends.   *)
(***************************************************************************)
LEMMA SendLess ==
  ASSUME NEW r \in Uploads, NEW q \in Uploads, NEW l \in Links, NEW m \in Links
  PROVE  /\ UploadLeft(q) = UploadLeft(r) /\ LinkLeft(m) <= LinkLeft(l) =>
              SendLeft(q, m) <= SendLeft(r, l)
         /\ UploadLeft(q) = UploadLeft(r) /\ LinkLeft(m) < LinkLeft(l) =>
              SendLeft(q, m) < SendLeft(r, l)
         /\ UploadLeft(q) < UploadLeft(r) /\ LinkLeft(m) <= LinkLeft(l) =>
              SendLeft(q, m) < SendLeft(r, l)
         /\ \A k \in Nat : UploadLeft(q) + k < UploadLeft(r) /\ LinkLeft(m) <= LinkLeft(l) + k =>
              SendLeft(q, m) < SendLeft(r, l)
<1> DEFINE R == UploadLeft(r)  Q == UploadLeft(q)  L == LinkLeft(l)  M == LinkLeft(m)
<1>1. R \in Nat /\ Q \in Nat /\ L \in Nat /\ M \in Nat
  BY UploadFalls, LinkFalls
<1>2. SendLeft(q, m) = Q + M /\ SendLeft(r, l) = R + L
  BY DEF SendLeft
<1>3. /\ Q = R /\ M <= L => Q + M <= R + L
      /\ Q = R /\ M < L => Q + M < R + L
      /\ Q < R /\ M <= L => Q + M < R + L
      /\ \A k \in Nat : Q + k < R /\ M <= L + k => Q + M < R + L
  <2> HIDE DEF R, Q, L, M
  <2> QED BY <1>1
<1> QED BY <1>2, <1>3

\* A frame is taken, and a frame or two are sent before the end is closed.
LEMMA AnswerLess ==
  ASSUME NEW l \in Links, NEW m \in Links, NEW f \in Frames, NEW e \in Ends,
         LinkLeft(m) <= LinkLeft(l)
  PROVE  /\ LinkLeft(Close(m, e)) <= LinkLeft(l)
         /\ LinkLeft(m) < LinkLeft(l) => /\ LinkLeft(Put(m, "up", f)) <= LinkLeft(l)
                                         /\ LinkLeft(Put(m, "down", f)) <= LinkLeft(l) + 1
         /\ LinkLeft(Put(m, "down", f)) <= LinkLeft(l) + 2
         /\ LinkLeft(m) = LinkLeft(l) - 2 => LinkLeft(Put(m, "up", f)) < LinkLeft(l)
<1> DEFINE L == LinkLeft(l)  M == LinkLeft(m)  C == LinkLeft(Close(m, e))
           P == LinkLeft(Put(m, "up", f))  Q == LinkLeft(Put(m, "down", f))
<1>1. Close(m, e) \in Links /\ Put(m, "up", f) \in Links /\ Put(m, "down", f) \in Links
  BY LinkOps DEF Ends
<1>2. L \in Nat /\ M \in Nat /\ C \in Nat /\ P \in Nat /\ Q \in Nat
  BY <1>1, LinkFalls
<1>3. M <= L /\ C <= M /\ P <= M + 1 /\ Q <= M + 2
  BY LinkFalls
<1>4. /\ C <= L
      /\ M < L => P <= L /\ Q <= L + 1
      /\ Q <= L + 2
      /\ M = L - 2 => P < L
  <2> HIDE DEF L, M, C, P, Q
  <2> QED BY <1>2, <1>3
<1> QED BY <1>4

LEMMA TakeLess ==
  ASSUME TypeOK, NEW u \in Attempts
  PROVE  /\ link[u] \in Links /\ LinkLeft(link[u]) \in Nat /\ LinkLeft(link[u]) <= LinkLeft(link[u])
         /\ AtDown(u) => /\ TakeDown(u) \in Links /\ LinkLeft(TakeDown(u)) = LinkLeft(link[u]) - 2
                         /\ LinkLeft(TakeDown(u)) < LinkLeft(link[u])
                         /\ LinkLeft(TakeDown(u)) <= LinkLeft(link[u])
         /\ AtUp(u) => /\ TakeUp(u) \in Links /\ LinkLeft(TakeUp(u)) = LinkLeft(link[u]) - 1
                       /\ LinkLeft(TakeUp(u)) < LinkLeft(link[u])
                       /\ LinkLeft(TakeUp(u)) <= LinkLeft(link[u])
<1> DEFINE L == LinkLeft(link[u])  M == LinkLeft(TakeDown(u))  N == LinkLeft(TakeUp(u))
<1>1. link[u] \in Links
  BY DEF TypeOK
<1>2. L \in Nat
  BY <1>1, LinkFalls
<1>3. AtDown(u) => TakeDown(u) \in Links /\ M = L - 2
  BY <1>1, LinkOps, LinkFalls DEF AtDown, TakeDown
<1>4. AtUp(u) => TakeUp(u) \in Links /\ N = L - 1
  BY <1>1, LinkOps, LinkFalls DEF AtUp, TakeUp
<1>5. L <= L /\ (AtDown(u) => M < L /\ M <= L) /\ (AtUp(u) => N < L /\ N <= L)
  <2> HIDE DEF L, M, N
  <2> QED BY <1>2, <1>3, <1>4
<1> QED BY <1>1, <1>2, <1>3, <1>4, <1>5

\* The end of a handler, and the top of its loop.
LEMMA GoneFalls ==
  ASSUME TypeOK, NEW u \in Attempts, hnd[u].pc \in {"queued", "req", "loop"},
         NEW l \in Links, LinkLeft(l) <= LinkLeft(link[u]),
         up'[u] = up[u], hnd'[u] = Gone, link'[u] = Close(l, "down")
  PROVE  RestFalls(u)
<1>1. up[u] \in Uploads /\ link[u] \in Links /\ hnd[u] \in Handlers /\ Close(l, "down") \in Links
  BY LinkOps DEF TypeOK, Ends
<1>2. LinkLeft(Close(l, "down")) <= LinkLeft(link[u])
  BY <1>1, AnswerLess, FrameTypes DEF Ends, Signals
<1>3. SendLeft(up[u], Close(l, "down")) <= SendLeft(up[u], link[u])
  BY <1>1, <1>2, SendLess
<1>4. HandlerLeft(Gone) < HandlerLeft(hnd[u])
  BY <1>1, HandlerFalls
<1> QED BY <1>3, <1>4 DEF RestFalls

LEMMA AnswerFalls ==
  ASSUME TypeOK, NEW u \in Attempts, NEW l \in Links, LinkLeft(l) < LinkLeft(link[u]),
         up'[u] = up[u], link'[u] = l, HandlerLeft(hnd'[u]) <= HandlerLeft(hnd[u])
  PROVE  RestFalls(u)
<1>1. up[u] \in Uploads /\ link[u] \in Links
  BY DEF TypeOK
<1>2. SendLeft(up[u], l) < SendLeft(up[u], link[u])
  BY <1>1, SendLess
<1> QED BY <1>2 DEF RestFalls

LEMMA LoopFalls ==
  ASSUME TypeOK, NEW u \in Attempts, Serving(u), NEW h, HandlerLeft(h) <= HandlerLeft(hnd[u]),
         NEW l \in Links, LinkLeft(l) < LinkLeft(link[u]), NEW p, LoopTop(u, h, l, p), up' = up
  PROVE  RestFalls(u)
<1>t. link \in [Attempts -> Links] /\ hnd \in [Attempts -> Handlers] /\ link[u] \in Links
  BY DEF TypeOK
<1>1. CASE HandlerFails(u, h.slot, Put(l, "up", Frame("FAIL")))
  <2> DEFINE m == Put(l, "up", Frame("FAIL"))
  <2>1. hnd'[u] = Gone /\ link'[u] = Close(m, "down") /\ up'[u] = up[u]
    BY <1>t, <1>1 DEF HandlerFails
  <2>2. Frame("FAIL") \in Frames /\ m \in Links
    BY LinkOps, FrameTypes DEF Ends, Signals
  <2>3. LinkLeft(l) <= LinkLeft(link[u])
    <3> DEFINE L == LinkLeft(l)  M == LinkLeft(link[u])
    <3>1. L \in Nat /\ M \in Nat /\ L < M
      BY <1>t, LinkFalls
    <3> HIDE DEF L, M
    <3>2. L <= M
      BY <3>1
    <3> QED BY <3>2 DEF L, M
  <2>4. LinkLeft(m) <= LinkLeft(link[u])
    BY <1>t, <2>2, <2>3, AnswerLess DEF Ends
  <2>5. hnd[u].pc \in {"queued", "req", "loop"}
    BY DEF Serving
  <2> HIDE DEF m
  <2> QED BY <2>1, <2>2, <2>4, <2>5, GoneFalls
<1>2. CASE hnd' = [hnd EXCEPT ![u] = h] /\ link' = [link EXCEPT ![u] = l]
  <2>1. hnd'[u] = h /\ link'[u] = l /\ up'[u] = up[u]
    BY <1>t, <1>2
  <2> QED BY <2>1, AnswerFalls
<1> QED BY <1>1, <1>2 DEF LoopTop

LEMMA HandlerRestFalls ==
  ASSUME TypeOK, NEW u \in Attempts,
         HandlerReq(u) \/ HandlerChunk(u) \/ HandlerStopped(u) \/ HandlerEnd(u)
  PROVE  RestFalls(u)
<1>t. /\ link \in [Attempts -> Links] /\ hnd \in [Attempts -> Handlers]
      /\ link[u] \in Links /\ hnd[u] \in Handlers
      /\ HandlerLeft(hnd[u]) \in Nat
      /\ HandlerLeft([hnd[u] EXCEPT !.got = hnd[u].got + 1]) = HandlerLeft(hnd[u])
  BY HandlerFalls DEF TypeOK
<1>s. Serving(u) /\ hnd[u].pc \in {"queued", "req", "loop"} /\ up' = up
  BY HandlerMoves DEF Serving
<1>h. HandlerLeft(hnd[u]) <= HandlerLeft(hnd[u])
  <2> DEFINE H == HandlerLeft(hnd[u])
  <2>1. H \in Nat
    BY <1>t
  <2> HIDE DEF H
  <2>2. H <= H
    BY <2>1
  <2> QED BY <2>2 DEF H
<1>a. ASSUME AtDown(u), NEW t \in {"ACCEPT", "ACK", "NACK", "FAIL"}
      PROVE  /\ Put(TakeDown(u), "up", Frame(t)) \in Links
             /\ LinkLeft(Put(TakeDown(u), "up", Frame(t))) < LinkLeft(link[u])
  <2>1. Frame(t) \in Frames
    BY FrameTypes DEF Signals
  <2> QED BY <1>a, <2>1, TakeLess, LinkOps, AnswerLess DEF Ends
<1>f. ASSUME NEW slot, HandlerFails(u, slot, link[u]) PROVE RestFalls(u)
  <2>1. hnd'[u] = Gone /\ link'[u] = Close(link[u], "down") /\ up'[u] = up[u]
    BY <1>t, <1>s, <1>f DEF HandlerFails
  <2> QED BY <1>s, <2>1, TakeLess, GoneFalls
<1>1. CASE HandlerReq(u)
  <2>0. AtDown(u) /\ hnd[u].pc = "req"
    BY <1>1 DEF HandlerReq
  <2>1. CASE SongOf[u] # SongOf[Host(u)]
    <3> DEFINE m == Put(TakeDown(u), "up", Frame("FAIL"))
    <3>1. hnd'[u] = Gone /\ link'[u] = Close(m, "down") /\ up'[u] = up[u]
      BY <1>t, <1>s, <1>1, <2>1 DEF HandlerReq
    <3>2. m \in Links /\ LinkLeft(m) < LinkLeft(link[u])
      BY <1>a, <2>0
    <3> HIDE DEF m
    <3>3. LinkLeft(m) <= LinkLeft(link[u])
      <4> DEFINE L == LinkLeft(link[u])  M == LinkLeft(m)
      <4>1. L \in Nat /\ M \in Nat /\ M < L
        BY <1>t, <3>2, LinkFalls
      <4> HIDE DEF L, M
      <4>2. M <= L
        BY <4>1
      <4> QED BY <4>2 DEF L, M
    <3> QED BY <1>s, <3>1, <3>2, <3>3, GoneFalls
  <2>2. CASE OpenPart(u)
    <3>1. PICK i, f, p :
            LoopTop(u, [hnd[u] EXCEPT !.pc = "loop", !.slot = i, !.ino = f],
                    Put(TakeDown(u), "up", Frame("ACCEPT")), p)
      BY <2>2 DEF OpenPart
    <3> DEFINE h == [hnd[u] EXCEPT !.pc = "loop", !.slot = i, !.ino = f]
               H == HandlerLeft(hnd[u])  H2 == HandlerLeft(h)
    <3>2. H \in Nat /\ H2 < H
      BY <1>t, <2>0, HandlerFalls
    <3>3. H2 \in Nat
      BY <1>t, <2>0 DEF HandlerLeft, Handlers
    <3>4. H2 <= H
      <4> HIDE DEF H, H2
      <4> QED BY <3>2, <3>3
    <3> HIDE DEF h
    <3> QED BY <1>s, <1>a, <2>0, <3>1, <3>4, LoopFalls DEF h
  <2> QED BY <1>1, <2>1, <2>2 DEF HandlerReq
<1>2. CASE HandlerChunk(u)
  <2>0. AtDown(u)
    BY <1>2 DEF HandlerChunk
  <2>1. PICK h \in {hnd[u], [hnd[u] EXCEPT !.got = hnd[u].got + 1]}, t \in {"ACK", "NACK"} :
          LoopTop(u, h, Put(TakeDown(u), "up", Frame(t)), part)
    BY <1>2 DEF HandlerChunk
  <2>2. HandlerLeft(h) <= HandlerLeft(hnd[u])
    <3>1. HandlerLeft(h) = HandlerLeft(hnd[u])
      BY <1>t, <2>1
    <3> QED BY <1>h, <3>1
  <2> QED BY <1>s, <1>a, <2>0, <2>1, <2>2, LoopFalls
<1>3. CASE HandlerStopped(u)
  BY <1>3, <1>f DEF HandlerStopped
<1>4. CASE HandlerEnd(u)
  <2>1. CASE Saves(u)
    <3>1. hnd'[u] = Gone /\ link'[u] = Close(link[u], "down") /\ up'[u] = up[u]
      BY <1>t, <1>s, <2>1 DEF Saves
    <3> QED BY <1>s, <3>1, TakeLess, GoneFalls
  <2> QED BY <1>4, <1>f, <2>1, HandlerEnds
<1> QED BY <1>1, <1>2, <1>3, <1>4

LEMMA ThreadRestFalls ==
  ASSUME TypeOK, NEW u \in Attempts, ThreadReq(u) \/ ThreadChunk(u)
  PROVE  RestFalls(u)
<1>t. /\ link \in [Attempts -> Links] /\ hnd \in [Attempts -> Handlers]
      /\ link[u] \in Links /\ hnd[u] \in Handlers
  BY DEF TypeOK
<1> DEFINE H == HandlerLeft(hnd[u])
<1>h. H \in Nat
  BY <1>t, HandlerFalls
<1>0. AtDown(u) /\ up'[u] = up[u]
  BY DEF ThreadReq, ThreadChunk
<1>1. PICK t \in {"ACCEPT", "ACK", "NACK"} : link' = [link EXCEPT ![u] = Put(TakeDown(u), "up", Frame(t))]
  BY DEF ThreadReq, ThreadChunk
<1>2. /\ Put(TakeDown(u), "up", Frame(t)) \in Links
      /\ LinkLeft(Put(TakeDown(u), "up", Frame(t))) < LinkLeft(link[u])
  <2>1. Frame(t) \in Frames
    BY FrameTypes DEF Signals
  <2> QED BY <1>0, <2>1, TakeLess, LinkOps, AnswerLess DEF Ends
<1>3. HandlerLeft(hnd'[u]) <= H
  <2> DEFINE H2 == HandlerLeft(hnd'[u])
  <2>1. H2 \in Nat /\ (H2 = H \/ H2 < H)
    <3>1. CASE ThreadReq(u)
      <4>1. hnd[u].pc = "req" /\ \E i, f : hnd'[u] = [hnd[u] EXCEPT !.pc = "loop", !.slot = i, !.ino = f]
        BY <1>t, <3>1 DEF ThreadReq
      <4>2. H = 2 /\ H2 = 1
        BY <1>t, <4>1 DEF HandlerLeft, Handlers
      <4> QED BY <4>2
    <3>2. CASE ThreadChunk(u)
      <4>1. hnd'[u] \in {hnd[u], [hnd[u] EXCEPT !.got = hnd[u].got + 1]}
        BY <1>t, <3>2 DEF ThreadChunk
      <4> QED BY <1>t, <1>h, <4>1, HandlerFalls
    <3> QED BY <3>1, <3>2
  <2> HIDE DEF H, H2
  <2>2. H2 <= H
    BY <1>h, <2>1
  <2> QED BY <2>2 DEF H2
<1>4. link'[u] = Put(TakeDown(u), "up", Frame(t))
  BY <1>t, <1>1
<1> QED BY <1>0, <1>2, <1>3, <1>4, AnswerFalls

LEMMA SameHandler ==
  ASSUME TypeOK, NEW u \in Attempts, hnd'[u] = hnd[u]
  PROVE  HandlerLeft(hnd'[u]) <= HandlerLeft(hnd[u])
<1> DEFINE H == HandlerLeft(hnd[u])
<1>1. H \in Nat
  BY HandlerFalls DEF TypeOK
<1>2. H <= H
  <2> HIDE DEF H
  <2> QED BY <1>1
<1> QED BY <1>2

\* What the sender sends for what it has read, or has waited for in vain.
LEMMA SendChunkFalls ==
  ASSUME TypeOK, NEW u \in Attempts, up[u].pc \in {"accept", "ack"}, NEW l \in Links,
         LinkLeft(l) <= LinkLeft(link[u]), up[u].pc = "ack" => LinkLeft(l) < LinkLeft(link[u]),
         SendChunk(u, l), hnd' = hnd
  PROVE  RestFalls(u)
<1>t. /\ up \in [Attempts -> Uploads] /\ link \in [Attempts -> Links]
      /\ up[u] \in Uploads /\ link[u] \in Links /\ up[u].n \in 0 .. Chunks
      /\ HandlerLeft(hnd[u]) \in Nat /\ hnd[u] \in Handlers
  BY UploadChanges, HandlerFalls DEF TypeOK
<1>h. HandlerLeft(hnd'[u]) <= HandlerLeft(hnd[u])
  BY SameHandler
<1> DEFINE pays(q, m) == SendLeft(q, m) < SendLeft(up[u], link[u])
<1>0. ASSUME NEW q, NEW m, up' = [up EXCEPT ![u] = q], link' = [link EXCEPT ![u] = m], pays(q, m)
      PROVE  RestFalls(u)
  <2>1. up'[u] = q /\ link'[u] = m
    BY <1>t, <1>0
  <2> QED BY <1>0, <1>h, <2>1 DEF RestFalls
<1>1. ASSUME NEW f \in Frames
      PROVE  /\ Put(l, "down", f) \in Links /\ LinkLeft(Put(l, "down", f)) <= LinkLeft(link[u]) + 2
             /\ up[u].pc = "ack" => LinkLeft(Put(l, "down", f)) <= LinkLeft(link[u]) + 1
             /\ Close(Put(l, "down", f), "up") \in Links
             /\ LinkLeft(Close(Put(l, "down", f), "up")) <= LinkLeft(link[u]) + 2
             /\ up[u].pc = "ack" => LinkLeft(Close(Put(l, "down", f), "up")) <= LinkLeft(link[u]) + 1
  <2> DEFINE m == Put(l, "down", f)
  <2>1. m \in Links /\ Close(m, "up") \in Links
    BY LinkOps DEF Ends
  <2>2. LinkLeft(m) <= LinkLeft(link[u]) + 2 /\ (up[u].pc = "ack" => LinkLeft(m) <= LinkLeft(link[u]) + 1)
    BY <1>t, AnswerLess DEF Ends
  <2>3. LinkLeft(Close(m, "up")) <= LinkLeft(m)
    BY <2>1, LinkFalls DEF Ends
  <2> HIDE DEF m
  <2> DEFINE L == LinkLeft(link[u])  M == LinkLeft(m)  C == LinkLeft(Close(m, "up"))
  <2>4. L \in Nat /\ M \in Nat /\ C \in Nat
    BY <1>t, <2>1, LinkFalls
  <2>5. C <= L + 2 /\ (up[u].pc = "ack" => C <= L + 1)
    <3>1. M <= L + 2 /\ (up[u].pc = "ack" => M <= L + 1) /\ C <= M
      BY <2>2, <2>3
    <3> HIDE DEF L, M, C
    <3> QED BY <2>4, <3>1
  <2> QED BY <2>1, <2>2, <2>5 DEF m
<1>2. CASE up[u].n = Chunks
  <2> DEFINE q == [up[u] EXCEPT !.pc = "completing", !.n = 0, !.again = FALSE, !.sent = TRUE]
             m == Close(Put(l, "down", Frame("END")), "up")
  <2>1. up' = [up EXCEPT ![u] = q] /\ link' = [link EXCEPT ![u] = m]
    BY <1>2 DEF SendChunk
  <2>2. q \in Uploads /\ Frame("END") \in Frames
    BY <1>t, UploadChanges, FrameTypes DEF Signals
  <2>3. \/ UploadLeft(q) + 2 < UploadLeft(up[u]) /\ LinkLeft(m) <= LinkLeft(link[u]) + 2
        \/ UploadLeft(q) + 1 < UploadLeft(up[u]) /\ LinkLeft(m) <= LinkLeft(link[u]) + 1
    BY <1>t, <1>1, <2>2, UploadFalls
  <2>4. m \in Links
    BY <1>1, <2>2
  <2> HIDE DEF q, m
  <2>5. pays(q, m)
    BY <1>t, <2>2, <2>3, <2>4, SendLess
  <2> HIDE DEF pays
  <2> QED BY <1>0, <2>1, <2>5
<1>3. CASE up[u].n # Chunks /\ up[u].stopped
  <2> DEFINE q == [up[u] EXCEPT !.pc = "failing", !.n = 0, !.again = FALSE]
             m == Close(Put(l, "down", Frame("FAIL")), "up")
  <2>1. up' = [up EXCEPT ![u] = q] /\ link' = [link EXCEPT ![u] = m]
    BY <1>3 DEF SendChunk, GiveUp
  <2>2. q \in Uploads /\ Frame("FAIL") \in Frames
    BY <1>t, UploadChanges, FrameTypes DEF Signals
  <2>3. UploadLeft(q) + 2 < UploadLeft(up[u]) /\ LinkLeft(m) <= LinkLeft(link[u]) + 2
    BY <1>t, <1>1, <2>2, UploadFalls
  <2>4. m \in Links
    BY <1>1, <2>2
  <2> HIDE DEF q, m
  <2>5. pays(q, m)
    BY <1>t, <2>2, <2>3, <2>4, SendLess
  <2> HIDE DEF pays
  <2> QED BY <1>0, <2>1, <2>5
<1>4. CASE up[u].n # Chunks /\ ~up[u].stopped
  <2> DEFINE n == up[u].n + 1
             q == [up[u] EXCEPT !.pc = "ack", !.n = n, !.again = FALSE]
             m == Put(l, "down", Chunk(n))
  <2>1. up' = [up EXCEPT ![u] = q] /\ link' = [link EXCEPT ![u] = m]
    BY <1>4 DEF SendChunk
  <2>0. n \in 1 .. Chunks /\ n \in 0 .. Chunks
    BY <1>t, <1>4
  <2>2. q \in Uploads /\ Chunk(n) \in Frames
    BY <1>t, <2>0, UploadChanges, FrameTypes
  <2>3. UploadLeft(q) + 2 < UploadLeft(up[u]) /\ LinkLeft(m) <= LinkLeft(link[u]) + 2
    BY <1>t, <1>1, <1>4, <2>2, UploadFalls
  <2>4. m \in Links
    BY <1>1, <2>2
  <2> HIDE DEF q, m
  <2>5. pays(q, m)
    BY <1>t, <2>2, <2>3, <2>4, SendLess
  <2> HIDE DEF pays
  <2> QED BY <1>0, <2>1, <2>5
<1> QED BY <1>2, <1>3, <1>4

LEMMA GiveUpFalls ==
  ASSUME TypeOK, NEW u \in Attempts, up[u].pc \in {"accept", "ack"}, NEW l \in Links,
         LinkLeft(l) <= LinkLeft(link[u]) + 2, GiveUp(u, l), hnd' = hnd
  PROVE  RestFalls(u)
<1>t. /\ up \in [Attempts -> Uploads] /\ link \in [Attempts -> Links]
      /\ up[u] \in Uploads /\ link[u] \in Links
      /\ HandlerLeft(hnd[u]) \in Nat
  BY HandlerFalls DEF TypeOK
<1>h. HandlerLeft(hnd'[u]) <= HandlerLeft(hnd[u])
  BY SameHandler
<1> DEFINE q == [up[u] EXCEPT !.pc = "failing", !.n = 0, !.again = FALSE]
           m == Close(l, "up")
<1>1. up'[u] = q /\ link'[u] = m
  BY <1>t DEF GiveUp
<1>2. q \in Uploads /\ m \in Links
  BY <1>t, UploadChanges, LinkOps DEF Ends
<1>3. UploadLeft(q) + 2 < UploadLeft(up[u])
  BY <1>t, UploadFalls
<1>4. LinkLeft(m) <= LinkLeft(link[u]) + 2
  <2> DEFINE L == LinkLeft(link[u])  M == LinkLeft(l)  C == LinkLeft(m)
  <2>1. L \in Nat /\ M \in Nat /\ C \in Nat /\ C <= M /\ M <= L + 2
    BY <1>t, <1>2, LinkFalls DEF Ends
  <2> HIDE DEF L, M, C
  <2>2. C <= L + 2
    BY <2>1
  <2> QED BY <2>2 DEF C, L
<1> HIDE DEF q, m
<1>5. SendLeft(q, m) < SendLeft(up[u], link[u])
  BY <1>t, <1>2, <1>3, <1>4, SendLess
<1> QED BY <1>1, <1>5, <1>h DEF RestFalls

LEMMA SendRestFalls ==
  ASSUME TypeOK, Sending, NEW u \in Attempts, SendStep(u)
  PROVE  RestFalls(u)
<1>t. /\ up \in [Attempts -> Uploads] /\ link \in [Attempts -> Links]
      /\ up[u] \in Uploads /\ link[u] \in Links /\ LinkLeft(link[u]) \in Nat
      /\ up[u].pc \in {"accept", "ack"} /\ hnd' = hnd
  BY LinkFalls DEF TypeOK, SendStep, GetAccept, GetAck, GetNack, GetOther, SenderTimeout, UploadCut, Provider
<1>k. /\ link[u] \in Links /\ LinkLeft(link[u]) <= LinkLeft(link[u])
      /\ AtUp(u) => /\ TakeUp(u) \in Links /\ LinkLeft(TakeUp(u)) < LinkLeft(link[u])
                    /\ LinkLeft(TakeUp(u)) <= LinkLeft(link[u])
  BY TakeLess
<1>2. ASSUME NEW l \in Links, NEW k \in {0, 1, 2}, LinkLeft(l) <= LinkLeft(link[u]) + k, GiveUp(u, l)
      PROVE  RestFalls(u)
  <2> DEFINE L == LinkLeft(link[u])  M == LinkLeft(l)
  <2>1. L \in Nat /\ M \in Nat /\ M <= L + k
    BY <1>t, <1>2, LinkFalls
  <2>2. M <= L + 2
    <3> HIDE DEF L, M
    <3> QED BY <2>1
  <2> HIDE DEF L, M
  <2> QED BY <1>t, <1>2, <2>2, GiveUpFalls DEF L, M
<1>0. ASSUME NEW l \in Links, LinkLeft(l) <= LinkLeft(link[u]), GiveUp(u, l)
      PROVE  RestFalls(u)
  <2> DEFINE L == LinkLeft(link[u])  M == LinkLeft(l)
  <2>1. L \in Nat /\ M \in Nat /\ M <= L
    BY <1>t, <1>0, LinkFalls
  <2>2. M <= L + 0
    <3> HIDE DEF L, M
    <3> QED BY <2>1
  <2> HIDE DEF L, M
  <2> QED BY <1>0, <1>2, <2>2 DEF L, M
<1>3. CASE GetAccept(u)
  BY <1>0, <1>3, <1>k, <1>t, SendChunkFalls DEF GetAccept
<1>4. CASE GetAck(u)
  BY <1>4, <1>k, <1>t, SendChunkFalls DEF GetAck
<1>5. CASE GetNack(u)
  <2> DEFINE q == [up[u] EXCEPT !.again = TRUE]
             m == Put(TakeUp(u), "down", Chunk(up[u].n))
  <2>0. up[u].pc = "ack" /\ ~up[u].again /\ AtUp(u)
    BY <1>5 DEF GetNack
  <2>1. up'[u] = q /\ link'[u] = m
    BY <1>5, <1>t DEF GetNack
  <2>2. q \in Uploads /\ UploadLeft(q) + 2 < UploadLeft(up[u])
    BY <1>t, <2>0, UploadChanges, UploadFalls
  <2>3. m \in Links /\ LinkLeft(m) <= LinkLeft(link[u]) + 2
    <3>1. up[u].n \in 1 .. Chunks
      <4>1. up[u].n \in 0 .. Chunks /\ up[u].n # 0
        BY <1>t, <2>0, UploadChanges DEF Sending
      <4> QED BY <4>1
    <3>2. Chunk(up[u].n) \in Frames
      BY <3>1, FrameTypes
    <3> QED BY <1>k, <1>t, <2>0, <3>2, LinkOps, AnswerLess DEF Ends
  <2> HIDE DEF q, m
  <2>4. SendLeft(q, m) < SendLeft(up[u], link[u])
    BY <1>t, <2>2, <2>3, SendLess
  <2> QED BY <1>t, <2>1, <2>4, SameHandler DEF RestFalls
<1>6. CASE GetOther(u)
  <2>1. CASE GiveUp(u, link[u])
    BY <1>0, <1>k, <2>1
  <2>2. CASE GiveUp(u, Put(TakeUp(u), "down", Frame("FAIL")))
    <3> DEFINE m == Put(TakeUp(u), "down", Frame("FAIL"))
    <3>1. AtUp(u) /\ Frame("FAIL") \in Frames
      BY <1>6, FrameTypes DEF GetOther, Signals
    <3>2. m \in Links /\ LinkLeft(m) <= LinkLeft(link[u]) + 2
      BY <1>k, <1>t, <3>1, LinkOps, AnswerLess DEF Ends
    <3> HIDE DEF m
    <3> QED BY <1>t, <2>2, <3>2, GiveUpFalls DEF m
  <2> QED BY <1>6, <2>1, <2>2 DEF GetOther
<1>7. CASE SenderTimeout(u)
  BY <1>0, <1>7, <1>k, <1>t, SendChunkFalls DEF SenderTimeout
<1>8. CASE UploadCut(u)
  BY <1>0, <1>8, <1>k DEF UploadCut
<1> QED BY <1>3, <1>4, <1>5, <1>6, <1>7, <1>8 DEF SendStep

LEMMA ConnectRestFalls ==
  ASSUME TypeOK, UploadsInv, NEW u \in Attempts, Connect(u)
  PROVE  RestFalls(u)
<1>t. /\ up \in [Attempts -> Uploads] /\ link \in [Attempts -> Links] /\ hnd \in [Attempts -> Handlers]
      /\ up[u] \in Uploads /\ link[u] \in Links /\ hnd[u] \in Handlers
  BY DEF TypeOK
<1> DEFINE q == [up[u] EXCEPT !.pc = "accept"]
           m == [link[u] EXCEPT !.st = "open", !.toDown = <<Frame("REQ")>>]
<1>0. up[u].pc = "connecting" /\ hnd[u].pc = "none"
  BY DEF Connect, UploadsInv
<1>1. up'[u] = q /\ link'[u] = m
  BY <1>t DEF Connect
<1>2. q \in Uploads /\ UploadLeft(q) + 2 < UploadLeft(up[u])
  BY <1>t, <1>0, UploadChanges, UploadFalls
<1>3. m \in Links /\ LinkLeft(m) <= LinkLeft(link[u]) + 2
  <2>1. Frame("REQ") \in Frames /\ <<Frame("REQ")>> \in Seq(Frames)
    BY FrameTypes DEF Signals
  <2> QED BY <1>t, <2>1, LinkOps, LinkFalls
<1> HIDE DEF q, m
<1>4. SendLeft(q, m) < SendLeft(up[u], link[u])
  BY <1>t, <1>2, <1>3, SendLess
<1>5. HandlerLeft(hnd'[u]) <= HandlerLeft(hnd[u])
  <2> DEFINE H == HandlerLeft(hnd[u])  H2 == HandlerLeft(hnd'[u])
  <2>1. PICK d \in Attempts, pc \in {"req", "queued"} :
          hnd' = [hnd EXCEPT ![u] = [hnd[u] EXCEPT !.host = d, !.pc = pc]]
    <3>1. PICK d \in Attempts :
            hnd' = [hnd EXCEPT ![u].host = d,
                               ![u].pc = IF dl[d].listener = "open" THEN "req" ELSE "queued"]
      BY DEF Connect
    <3> QED BY <3>1
  <2>2. hnd'[u] = [hnd[u] EXCEPT !.host = d, !.pc = pc]
    BY <1>t, <2>1
  <2>3. H = 4 /\ H2 \in {2, 3}
    BY <1>t, <1>0, <2>2 DEF HandlerLeft, Handlers
  <2> HIDE DEF H, H2
  <2>4. H2 <= H
    BY <2>3
  <2> QED BY <2>4 DEF H, H2
<1> QED BY <1>1, <1>4, <1>5 DEF RestFalls

LEMMA OwnerRestFalls ==
  ASSUME TypeOK, NEW u \in Attempts, OwnerStep(u)
  PROVE  RestFalls(u)
<1>t. up \in [Attempts -> Uploads] /\ up[u] \in Uploads /\ link[u] \in Links
  BY DEF TypeOK
<1>0. UNCHANGED <<hnd, link>>
  BY DEF OwnerStep, OwnerRejects, OwnerApproves, Approved, ApprovalRefused, StartUpload,
     StartFails, UploadReport, UploadReportFails, ConnectRefused, CancelUpload, Provider
<1>l. LinkLeft(link[u]) <= LinkLeft(link[u])
  BY TakeLess
<1>r. ASSUME NEW q \in Uploads, up' = [up EXCEPT ![u] = q], UploadLeft(q) < UploadLeft(up[u])
      PROVE  RestFalls(u)
  <2>1. up'[u] = q
    BY <1>t, <1>r
  <2>2. SendLeft(q, link[u]) < SendLeft(up[u], link[u])
    BY <1>t, <1>l, <1>r, SendLess
  <2> QED BY <1>0, <2>1, <2>2, SameHandler DEF RestFalls
<1>p. \A pc \in {"approving", "report", "connecting", "failing", "ended"} :
        [up[u] EXCEPT !.pc = pc] \in Uploads
  BY <1>t, UploadChanges
<1>1. CASE OwnerRejects(u)
  BY <1>0, <1>1 DEF OwnerRejects, RestFalls
<1>2. CASE OwnerApproves(u)
  <2>1. up[u].pc = "none" /\ up' = [up EXCEPT ![u] = [up[u] EXCEPT !.pc = "approving"]]
    BY <1>2 DEF OwnerApproves
  <2> QED BY <1>t, <1>r, <1>p, <2>1, UploadFalls
<1>3. CASE Approved(u) \/ ApprovalRefused(u)
  <2>1. /\ up[u].pc = "approving"
        /\ \E pc \in {"report", "ended"} : up' = [up EXCEPT ![u] = [up[u] EXCEPT !.pc = pc]]
    BY <1>3 DEF Approved, ApprovalRefused
  <2> QED BY <1>t, <1>r, <1>p, <2>1, UploadFalls
<1>4. CASE StartUpload(u) \/ StartFails(u)
  <2>1. /\ up[u].pc = "report"
        /\ \E pc \in {"connecting", "failing"} : up' = [up EXCEPT ![u] = [up[u] EXCEPT !.pc = pc]]
    BY <1>4 DEF StartUpload, StartFails
  <2> QED BY <1>t, <1>r, <1>p, <2>1, UploadFalls
<1>5. CASE ConnectRefused(u)
  <2>1. up[u].pc = "connecting" /\ up' = [up EXCEPT ![u] = [up[u] EXCEPT !.pc = "failing"]]
    BY <1>5 DEF ConnectRefused
  <2> QED BY <1>t, <1>r, <1>p, <2>1, UploadFalls
<1>6. CASE UploadReport(u) \/ UploadReportFails(u)
  <2>1. /\ up[u].pc \in {"completing", "failing"}
        /\ \/ up' = [up EXCEPT ![u] = [up[u] EXCEPT !.pc = "ended"]]
           \/ up[u].pc = "completing" /\ up' = [up EXCEPT ![u] = [up[u] EXCEPT !.pc = "failing"]]
    BY <1>6 DEF UploadReport, UploadReportFails
  <2> QED BY <1>t, <1>r, <1>p, <2>1, UploadFalls
<1>7. CASE CancelUpload(u)
  <2> DEFINE q == [up[u] EXCEPT !.stopped = TRUE]
  <2>1. up'[u] = q /\ faults' = faults + 1
    BY <1>7, <1>t DEF CancelUpload, Fault
  <2>2. q \in Uploads /\ UploadLeft(q) = UploadLeft(up[u])
    BY <1>t, UploadChanges, UploadFalls
  <2>3. SendLeft(q, link[u]) <= SendLeft(up[u], link[u])
    BY <1>t, <1>l, <2>2, SendLess
  <2> QED BY <1>0, <2>1, <2>3 DEF RestFalls
<1> QED BY <1>1, <1>2, <1>3, <1>4, <1>5, <1>6, <1>7 DEF OwnerStep

LEMMA NetworkRestFalls ==
  ASSUME TypeOK, TypeOK', NEW u \in Attempts, NetworkStep(u)
  PROVE  RestFalls(u)
<1>t. /\ link \in [Attempts -> Links] /\ up[u] \in Uploads /\ link[u] \in Links /\ link'[u] \in Links
  BY DEF TypeOK
<1>0. UNCHANGED <<up, hnd>> /\ faults' = faults + 1
  BY DEF NetworkStep, Damage, Break, Fault, Provider
<1>1. LinkLeft(link'[u]) <= LinkLeft(link[u])
  <2>1. CASE Break(u)
    <3>1. \E st : link'[u] = [link[u] EXCEPT !.st = st, !.toDown = <<>>, !.toUp = <<>>]
      BY <1>t, <2>1 DEF Break
    <3> QED BY <1>t, <3>1, LinkFalls
  <2>2. CASE Damage(u)
    <3> DEFINE q == link[u].toDown
    <3>1. PICK i \in 1 .. Len(q) : link' = [link EXCEPT ![u].toDown[i].type = "BAD"]
      BY <2>2 DEF Damage
    <3>2. q \in Seq(Frames) /\ i \in DOMAIN q
      BY <1>t, <3>1 DEF Links
    <3>3. /\ link'[u].toDown = [q EXCEPT ![i] = [q[i] EXCEPT !.type = "BAD"]]
          /\ link'[u].toUp = link[u].toUp
      BY <1>t, <3>1 DEF Links
    <3>4. Len(link'[u].toDown) = Len(q)
      <4>1. link'[u].toDown \in Seq(Frames)
        BY <1>t DEF Links
      <4>2. DOMAIN link'[u].toDown = DOMAIN q
        BY <3>3
      <4> QED BY <3>2, <4>1, <4>2, LenProperties
    <3>5. LinkLeft(link'[u]) = LinkLeft(link[u])
      BY <3>3, <3>4 DEF LinkLeft
    <3> QED BY <3>5, TakeLess
  <2> QED BY <2>1, <2>2 DEF NetworkStep
<1>2. SendLeft(up[u], link'[u]) <= SendLeft(up[u], link[u])
  BY <1>t, <1>1, SendLess
<1> QED BY <1>0, <1>2 DEF RestFalls

LEMMA ThreadReturnsFalls ==
  ASSUME TypeOK, NEW u \in Attempts, Serving(u), NEW result, ThreadReturns(u, result), up' = up,
         NEW e \in Attempts
  PROVE  RestFalls(e)
<1>t. link[e] \in Links
  BY DEF TypeOK
<1>1. CASE e = u
  <2>1. hnd'[e] = Gone /\ link'[e] = Close(link[e], "down") /\ hnd[e].pc \in {"queued", "req", "loop"}
    BY <1>1 DEF ThreadReturns, Serving
  <2> QED BY <2>1, TakeLess, GoneFalls
<1>2. CASE e # u /\ hnd[e].pc = "queued" /\ link[e].st = "open"
  <2> DEFINE l == [link[e] EXCEPT !.st = "reset"]
  <2>1. hnd'[e] = Gone /\ link'[e] = Close(l, "down")
    BY <1>2 DEF ThreadReturns
  <2>2. l \in Links /\ LinkLeft(l) = LinkLeft(link[e])
    BY <1>t, LinkOps, LinkFalls
  <2>3. LinkLeft(l) <= LinkLeft(link[e])
    BY <2>2, TakeLess
  <2> HIDE DEF l
  <2> QED BY <1>2, <2>1, <2>2, <2>3, GoneFalls
<1>3. CASE e # u /\ hnd[e].pc = "queued" /\ link[e].st # "open"
  <2>1. hnd'[e] = Gone /\ link'[e] = link[e]
    BY <1>3 DEF ThreadReturns
  <2>2. HandlerLeft(Gone) < HandlerLeft(hnd[e]) /\ up[e] \in Uploads
    BY <1>3, HandlerFalls DEF TypeOK
  <2>3. SendLeft(up[e], link[e]) <= SendLeft(up[e], link[e])
    BY <1>t, <2>2, TakeLess, SendLess
  <2> QED BY <2>1, <2>2, <2>3 DEF RestFalls
<1>4. CASE e # u /\ hnd[e].pc # "queued"
  BY <1>4 DEF ThreadReturns, RestFalls
<1> QED BY <1>1, <1>2, <1>3, <1>4

LEMMA RestSteps ==
  ASSUME TypeOK, TypeOK', Sending, UploadsInv, [Next]_vars, NEW e \in Attempts
  PROVE  RestFalls(e)
<1>t. /\ up \in [Attempts -> Uploads] /\ link \in [Attempts -> Links] /\ hnd \in [Attempts -> Handlers]
  BY DEF TypeOK
<1>0. ASSUME UNCHANGED <<up, link, hnd>> PROVE RestFalls(e)
  BY <1>0 DEF RestFalls
\* A step of attempt u leaves the uploads of the others alone.
<1>u. ASSUME NEW u \in Attempts, RestFalls(u),
             \A v \in Attempts : v # u => up'[v] = up[v] /\ link'[v] = link[v] /\ hnd'[v] = hnd[v]
      PROVE  RestFalls(e)
  <2>1. CASE e = u
    BY <1>u, <2>1
  <2>2. CASE e # u
    BY <1>u, <2>2 DEF RestFalls
  <2> QED BY <2>1, <2>2
<1>1. CASE \/ \E d \in Attempts : \/ DesktopRequest(d) \/ TermuxRequest(d) \/ RequestFails(d)
                                 \/ Listen(d) \/ Deadline(d) \/ Wake(d) \/ Report(d) \/ ReportFails(d)
           \/ \E s \in Songs : Cancel(s)
           \/ UNCHANGED vars
  BY <1>0, <1>1 DEF DesktopRequest, TermuxRequest, RequestFails, Listen, Deadline, Wake, Report,
     ReportFails, Cancel, vars
<1>2. ASSUME NEW u \in Attempts,
             \/ HandlerReq(u) \/ HandlerChunk(u) \/ HandlerStopped(u) \/ HandlerEnd(u)
      PROVE  RestFalls(e)
  <2>1. up' = up /\ \E l : link' = [link EXCEPT ![u] = l]
    BY <1>2, HandlerMoves
  <2>2. hnd' = hnd \/ \E h : hnd' = [hnd EXCEPT ![u] = h]
    BY <1>2, HandlerMoves DEF Opens, GoesOn, Goes
  <2>3. \A v \in Attempts : v # u => up'[v] = up[v] /\ link'[v] = link[v] /\ hnd'[v] = hnd[v]
    BY <1>t, <2>1, <2>2
  <2> QED BY <1>2, <1>u, <2>3, HandlerRestFalls
<1>3. ASSUME NEW u \in Attempts, ThreadReq(u) \/ ThreadChunk(u) PROVE RestFalls(e)
  <2>1. \A v \in Attempts : v # u => up'[v] = up[v] /\ link'[v] = link[v] /\ hnd'[v] = hnd[v]
    BY <1>t, <1>3 DEF ThreadReq, ThreadChunk
  <2> QED BY <1>3, <1>u, <2>1, ThreadRestFalls
<1>4. ASSUME NEW u \in Attempts, ThreadEnd(u) \/ ThreadStopped(u) PROVE RestFalls(e)
  <2>1. up' = up /\ Serving(u) /\ \E result : ThreadReturns(u, result)
    BY <1>4 DEF ThreadEnd, ThreadStopped, Serving
  <2> QED BY <2>1, ThreadReturnsFalls
<1>5. ASSUME NEW u \in Attempts, Connect(u) PROVE RestFalls(e)
  <2>1. /\ \E q, m : up' = [up EXCEPT ![u] = q] /\ link' = [link EXCEPT ![u] = m]
        /\ \E d, pc : hnd' = [hnd EXCEPT ![u].host = d, ![u].pc = pc]
    <3>1. up' = [up EXCEPT ![u] = [up[u] EXCEPT !.pc = "accept"]]
      BY <1>5 DEF Connect
    <3>2. link' = [link EXCEPT ![u] = [link[u] EXCEPT !.st = "open", !.toDown = <<Frame("REQ")>>]]
      BY <1>5 DEF Connect
    <3>3. \E d, pc : hnd' = [hnd EXCEPT ![u].host = d, ![u].pc = pc]
      BY <1>5 DEF Connect
    <3> QED BY <3>1, <3>2, <3>3
  <2>2. \A v \in Attempts : v # u => up'[v] = up[v] /\ link'[v] = link[v] /\ hnd'[v] = hnd[v]
    BY <1>t, <2>1
  <2> QED BY <1>5, <1>u, <2>2, ConnectRestFalls
<1>6. ASSUME NEW u \in Attempts, OwnerStep(u) PROVE RestFalls(e)
  <2>1. UNCHANGED <<hnd, link>>
    BY <1>6 DEF OwnerStep, OwnerRejects, OwnerApproves, Approved, ApprovalRefused, StartUpload,
       StartFails, UploadReport, UploadReportFails, ConnectRefused, CancelUpload, Provider
  <2>2. \A v \in Attempts : v # u => up'[v] = up[v]
    BY <1>t, <1>6 DEF OwnerStep, OwnerRejects, OwnerApproves, Approved, ApprovalRefused, StartUpload,
       StartFails, UploadReport, UploadReportFails, ConnectRefused, CancelUpload
  <2> QED BY <1>6, <1>u, <2>1, <2>2, OwnerRestFalls
<1>7. ASSUME NEW u \in Attempts, SendStep(u) PROVE RestFalls(e)
  <2>1. hnd' = hnd /\ \A v \in Attempts : v # u => up'[v] = up[v] /\ link'[v] = link[v]
    BY <1>t, <1>7 DEF SendStep, GetAccept, GetAck, GetNack, GetOther, SenderTimeout, UploadCut,
       SendChunk, GiveUp, Provider
  <2> QED BY <1>7, <1>u, <2>1, SendRestFalls
<1>8. ASSUME NEW u \in Attempts, NetworkStep(u) PROVE RestFalls(e)
  <2>1. UNCHANGED <<up, hnd>> /\ \A v \in Attempts : v # u => link'[v] = link[v]
    BY <1>t, <1>8 DEF NetworkStep, Damage, Break, Provider
  <2> QED BY <1>8, <1>u, <2>1, NetworkRestFalls
<1> QED
  BY <1>1, <1>2, <1>3, <1>4, <1>5, <1>6, <1>7, <1>8, Steps DEF QuietStep

(***************************************************************************)
(* No two clients keep each other busy: whatever happens to an attempt,    *)
(* but for faults, leaves it less to do (stp_provider.py:186,              *)
(* termux_client/transfer/stp_sender.py:126).                              *)
(***************************************************************************)
THEOREM AttemptsEnd == Spec => AttemptsRunOut
<1> DEFINE Falls == \A d \in Attempts :
             /\ Left(d)' \in Nat
             /\ \/ UNCHANGED <<dl[d], up[d], link[d], hnd[d]>>
                \/ Left(d)' < Left(d)
                \/ faults' = faults + 1 /\ Left(d)' <= Left(d)
<1>1. Inv /\ Inv' /\ [Next]_vars => [Falls]_vars
  <2> SUFFICES ASSUME Inv, Inv', [Next]_vars, NEW d \in Attempts
               PROVE  /\ Left(d)' \in Nat
                      /\ \/ UNCHANGED <<dl[d], up[d], link[d], hnd[d]>>
                         \/ Left(d)' < Left(d)
                         \/ faults' = faults + 1 /\ Left(d)' <= Left(d)
    OBVIOUS
  <2>1. TypeOK /\ Sending /\ TasksInv /\ UploadsInv /\ HandlersInv /\ TypeOK'
    BY DEF Inv, SafeInv
  <2>2. DownFalls(d) /\ RestFalls(d)
    BY <2>1, DownSteps, RestSteps
  <2>3. Less(d)
    BY <2>1, <2>2, FallsIsLess
  <2> QED BY <2>1, <2>3, LessIsLess
<1> QED BY <1>1, InvAlways, PTL DEF Spec, AttemptsRunOut

=============================================================================
