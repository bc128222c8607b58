-------------------------- MODULE PeerFolderProofs --------------------------
(***************************************************************************)
(* The download folder of a desktop client is sound, for any clients,      *)
(* songs, downloads, chunks and faults.                                    *)
(*                                                                         *)
(* A handler may write to a file that another handler has verified and     *)
(* renamed: they had the .part file in common.  Such a write changes       *)
(* nothing while both are of one song, because every handler gets the      *)
(* chunks of its song in their order; and that is so because providers     *)
(* send one chunk at a time.  Songs that share a file name are exempt.     *)
(***************************************************************************)
EXTENDS PeerTransferProofs

USE PeerAssumption

-----------------------------------------------------------------------------
(***************************************************************************)
(* Queues with no frame of some types, and with exactly one.               *)
(***************************************************************************)
Lacks(q, T) == \A k \in 1 .. Len(q) : q[k].type \notin T
Has(q, T, F) ==
  \E i \in 1 .. Len(q) :
    q[i] \in F /\ \A k \in 1 .. Len(q) : k # i => q[k].type \notin T

LEMMA LacksOps ==
  ASSUME NEW q \in Seq(Frames), NEW T
  PROVE  /\ Lacks(<<>>, T)
         /\ \A f \in Frames : \A F : Lacks(q, T) =>
              /\ f.type \notin T => Lacks(Append(q, f), T)
              /\ f \in F => Has(Append(q, f), T, F)
         /\ Lacks(q, T) /\ q # <<>> => Head(q).type \notin T /\ Lacks(Tail(q), T)
<1>1. Lacks(<<>>, T)
  BY DEF Lacks
<1>2. ASSUME NEW f \in Frames, NEW F, Lacks(q, T)
      PROVE  /\ f.type \notin T => Lacks(Append(q, f), T)
             /\ f \in F => Has(Append(q, f), T, F)
  <2>1. /\ Len(q) \in Nat /\ Len(Append(q, f)) = Len(q) + 1
        /\ \A k \in 1 .. Len(q) : Append(q, f)[k] = q[k]
        /\ Append(q, f)[Len(q) + 1] = f
    BY AppendProperties, LenProperties
  <2>2. \A k \in 1 .. Len(q) : Append(q, f)[k].type \notin T
    BY <1>2, <2>1 DEF Lacks
  <2>3. \A k \in 1 .. (Len(q) + 1) : k # Len(q) + 1 => k \in 1 .. Len(q)
    BY <2>1
  <2>4. f.type \notin T => Lacks(Append(q, f), T)
    BY <2>1, <2>2, <2>3 DEF Lacks
  <2>5. Len(q) + 1 \in 1 .. Len(Append(q, f))
    BY <2>1
  <2>6. f \in F => Has(Append(q, f), T, F)
    BY <2>1, <2>2, <2>3, <2>5 DEF Has
  <2> QED BY <2>4, <2>6
<1>3. ASSUME Lacks(q, T), q # <<>>
      PROVE  Head(q).type \notin T /\ Lacks(Tail(q), T)
  <2>1. /\ Len(q) \in Nat /\ Len(q) # 0 /\ Head(q) = q[1] /\ Len(Tail(q)) = Len(q) - 1
        /\ \A k \in 1 .. Len(Tail(q)) : Tail(q)[k] = q[k + 1]
    BY <1>3, HeadTailProperties, LenProperties, EmptySeq
  <2>2. 1 \in 1 .. Len(q) /\ \A k \in 1 .. Len(Tail(q)) : k + 1 \in 1 .. Len(q)
    BY <2>1
  <2> QED BY <1>3, <2>1, <2>2 DEF Lacks
<1> QED BY <1>1, <1>2, <1>3

LEMMA HasOps ==
  ASSUME NEW q \in Seq(Frames), NEW T, NEW F, Has(q, T, F)
  PROVE  /\ \A f \in Frames : f.type \notin T => Has(Append(q, f), T, F)
         /\ q # <<>>
         /\ Head(q).type \in T => Head(q) \in F /\ Lacks(Tail(q), T)
         /\ Head(q) \notin F => Has(Tail(q), T, F)
<1>1. PICK i \in 1 .. Len(q) : q[i] \in F /\ \A k \in 1 .. Len(q) : k # i => q[k].type \notin T
  BY DEF Has
<1>2. ASSUME NEW f \in Frames, f.type \notin T PROVE Has(Append(q, f), T, F)
  <2>1. /\ Len(q) \in Nat /\ Len(Append(q, f)) = Len(q) + 1
        /\ \A k \in 1 .. Len(q) : Append(q, f)[k] = q[k]
        /\ Append(q, f)[Len(q) + 1] = f
    BY AppendProperties, LenProperties
  <2>2. i \in 1 .. Len(Append(q, f)) /\ Append(q, f)[i] = q[i]
    BY <1>1, <2>1
  <2>3. ASSUME NEW k \in 1 .. Len(Append(q, f)), k # i PROVE Append(q, f)[k].type \notin T
    <3>1. k \in 1 .. Len(q) \/ k = Len(q) + 1
      BY <2>1
    <3> QED BY <1>1, <1>2, <2>1, <2>3, <3>1
  <2> QED BY <1>1, <2>2, <2>3 DEF Has
<1>3. q # <<>>
  BY <1>1, EmptySeq
<1>4. /\ Len(q) \in Nat /\ Len(q) # 0 /\ Head(q) = q[1] /\ Len(Tail(q)) = Len(q) - 1
      /\ \A k \in 1 .. Len(Tail(q)) : Tail(q)[k] = q[k + 1]
  BY <1>3, HeadTailProperties, LenProperties, EmptySeq
<1>5. 1 \in 1 .. Len(q) /\ \A k \in 1 .. Len(Tail(q)) : k + 1 \in 1 .. Len(q) /\ k + 1 # 1
  BY <1>4
<1>6. ASSUME Head(q).type \in T PROVE Head(q) \in F /\ Lacks(Tail(q), T)
  <2>1. i = 1
    BY <1>1, <1>4, <1>5, <1>6
  <2> QED BY <1>1, <1>4, <1>5, <2>1 DEF Lacks
<1>7. ASSUME Head(q) \notin F PROVE Has(Tail(q), T, F)
  <2>1. i # 1
    BY <1>1, <1>4, <1>7
  <2>2. i - 1 \in 1 .. Len(Tail(q)) /\ (i - 1) + 1 = i
    BY <1>1, <1>4, <2>1
  <2>3. \A k \in 1 .. Len(Tail(q)) : k # i - 1 => k + 1 # i
    BY <1>1, <1>4
  <2> QED BY <1>1, <1>4, <1>5, <2>2, <2>3 DEF Has
<1> QED BY <1>2, <1>3, <1>6, <1>7

-----------------------------------------------------------------------------
(***************************************************************************)
(* A connection: nothing on its way but signals, or a chunk, or the answer *)
(* to a chunk.                                                             *)
(***************************************************************************)
ChunkTypes  == {"CHUNK", "BAD"}
AnswerTypes == {"ACK", "NACK"}
Copies(n) == {f \in Frames : f.type \in ChunkTypes /\ f.n = n}

Quiet(l)       == Lacks(l.toDown, ChunkTypes) /\ Lacks(l.toUp, AnswerTypes)
Asked(l, n)    == Has(l.toDown, ChunkTypes, Copies(n)) /\ Lacks(l.toUp, AnswerTypes)
Answered(l, t) == Lacks(l.toDown, ChunkTypes) /\ Has(l.toUp, AnswerTypes, {Frame(t)})

LEMMA FrameKinds ==
  /\ \A t \in Signals : Frame(t) \in Frames /\ Frame(t).type = t /\ t \notin ChunkTypes
  /\ \A t \in {"REQ", "ACCEPT", "END", "FAIL"} : t \in Signals /\ t \notin AnswerTypes
  /\ \A t \in AnswerTypes : t \in Signals
  /\ \A n \in 1 .. Chunks : Chunk(n) \in Copies(n) /\ Chunk(n) \in Frames
BY FrameTypes DEF Frame, Chunk, Signals, ChunkTypes, AnswerTypes, Copies

LEMMA QuietLinks ==
  /\ Quiet(NoLink)
  /\ \A l \in Links : /\ Quiet(l) => Quiet([l EXCEPT !.st = "open", !.toDown = <<Frame("REQ")>>])
                      /\ \A st : Quiet([l EXCEPT !.st = st, !.toDown = <<>>, !.toUp = <<>>])
<1>0. <<>> \in Seq(Frames) /\ Frame("REQ") \in Frames /\ Frame("REQ").type \notin ChunkTypes
  BY EmptySeq, FrameKinds
<1>1. Lacks(<<>>, ChunkTypes) /\ Lacks(<<>>, AnswerTypes)
  BY <1>0, LacksOps
<1>2. Quiet(NoLink)
  BY <1>1 DEF Quiet, NoLink
<1>3. Lacks(<<Frame("REQ")>>, ChunkTypes)
  BY <1>0 DEF Lacks
<1>4. ASSUME NEW l \in Links
      PROVE  /\ Quiet(l) => Quiet([l EXCEPT !.st = "open", !.toDown = <<Frame("REQ")>>])
             /\ \A st : Quiet([l EXCEPT !.st = st, !.toDown = <<>>, !.toUp = <<>>])
  BY <1>1, <1>3 DEF Quiet, Links
<1> QED BY <1>2, <1>4

\* What a signal that is no answer does to a connection: nothing to count.
LEMMA PutSignal ==
  ASSUME NEW l \in Links, NEW e \in Ends, NEW t \in {"ACCEPT", "END", "FAIL"}
  PROVE  LET k == Put(l, e, Frame(t))
         IN  /\ Quiet(l) => Quiet(k)
             /\ \A n : Asked(l, n) => Asked(k, n)
             /\ \A s : Answered(l, s) => Answered(k, s)
<1> DEFINE f == Frame(t)
<1>t. l.toDown \in Seq(Frames) /\ l.toUp \in Seq(Frames)
  BY DEF Links
<1>f. f \in Frames /\ f.type \notin ChunkTypes /\ f.type \notin AnswerTypes
  BY FrameKinds
<1> HIDE DEF f
<1>1. /\ Lacks(l.toDown, ChunkTypes) => Lacks(Append(l.toDown, f), ChunkTypes)
      /\ Lacks(l.toUp, AnswerTypes) => Lacks(Append(l.toUp, f), AnswerTypes)
  BY <1>t, <1>f, LacksOps
<1>2. /\ \A F : Has(l.toDown, ChunkTypes, F) => Has(Append(l.toDown, f), ChunkTypes, F)
      /\ \A F : Has(l.toUp, AnswerTypes, F) => Has(Append(l.toUp, f), AnswerTypes, F)
  BY <1>t, <1>f, HasOps
<1>3. \/ Put(l, e, f) = l
      \/ /\ Put(l, e, f).toDown = Append(l.toDown, f) /\ Put(l, e, f).toUp = l.toUp
      \/ /\ Put(l, e, f).toUp = Append(l.toUp, f) /\ Put(l, e, f).toDown = l.toDown
  BY DEF Put, Links
<1> QED BY <1>1, <1>2, <1>3 DEF Quiet, Asked, Answered, f

\* A quiet connection takes a chunk or an answer, unless nobody reads it.
LEMMA PutOne ==
  ASSUME NEW l \in Links, Quiet(l)
  PROVE  /\ \A n \in 1 .. Chunks : LET k == Put(l, "down", Chunk(n)) IN Quiet(k) \/ Asked(k, n)
         /\ \A t \in AnswerTypes : LET k == Put(l, "up", Frame(t)) IN Quiet(k) \/ Answered(k, t)
<1>t. l.toDown \in Seq(Frames) /\ l.toUp \in Seq(Frames)
  BY DEF Links
<1>1. ASSUME NEW n \in 1 .. Chunks
      PROVE  LET k == Put(l, "down", Chunk(n)) IN Quiet(k) \/ Asked(k, n)
  <2>1. Has(Append(l.toDown, Chunk(n)), ChunkTypes, Copies(n))
    BY <1>t, LacksOps, FrameKinds DEF Quiet
  <2>2. \/ Put(l, "down", Chunk(n)) = l
        \/ /\ Put(l, "down", Chunk(n)).toDown = Append(l.toDown, Chunk(n))
           /\ Put(l, "down", Chunk(n)).toUp = l.toUp
    BY DEF Put, Links
  <2> QED BY <2>1, <2>2 DEF Quiet, Asked
<1>2. ASSUME NEW t \in AnswerTypes
      PROVE  LET k == Put(l, "up", Frame(t)) IN Quiet(k) \/ Answered(k, t)
  <2>1. Has(Append(l.toUp, Frame(t)), AnswerTypes, {Frame(t)})
    BY <1>t, LacksOps, FrameKinds DEF Quiet
  <2>2. \/ Put(l, "up", Frame(t)) = l
        \/ /\ Put(l, "up", Frame(t)).toUp = Append(l.toUp, Frame(t))
           /\ Put(l, "up", Frame(t)).toDown = l.toDown
    BY DEF Put, Links
  <2> QED BY <2>1, <2>2 DEF Quiet, Answered
<1> QED BY <1>1, <1>2

\* The provider closes its end: a chunk may still be read, an answer not.
LEMMA CloseUp ==
  ASSUME NEW l \in Links
  PROVE  LET k == Close(l, "up")
         IN  /\ Quiet(l) => Quiet(k)
             /\ \A n : Asked(l, n) => Quiet(k) \/ Asked(k, n)
             /\ \A t : Answered(l, t) => Quiet(k)
<1>1. Lacks(<<>>, AnswerTypes)
  BY LacksOps, EmptySeq
<1>2. Close(l, "up") = NoLink \/ (Close(l, "up").toDown = l.toDown /\ Close(l, "up").toUp = <<>>)
  BY DEF Close, Links
<1> QED BY <1>1, <1>2, QuietLinks DEF Quiet, Asked, Answered

\* What is read is a signal, the chunk or its answer.
LEMMA Taken ==
  ASSUME NEW l \in Links
  PROVE  /\ l.toUp # <<>> =>
              LET k == [l EXCEPT !.toUp = Tail(@)]
                  t == Head(l.toUp).type
              IN  /\ Quiet(l) => t \notin AnswerTypes /\ Quiet(k)
                  /\ \A n : Asked(l, n) => t \notin AnswerTypes /\ Asked(k, n)
                  /\ \A s \in AnswerTypes : Answered(l, s) =>
                       IF t \in AnswerTypes THEN t = s /\ Quiet(k) ELSE Answered(k, s)
         /\ l.toDown # <<>> =>
              LET k == [l EXCEPT !.toDown = Tail(@)]
                  f == Head(l.toDown)
              IN  /\ Quiet(l) => f.type \notin ChunkTypes /\ Quiet(k)
                  /\ \A n : Asked(l, n) =>
                       IF f.type \in ChunkTypes THEN f.n = n /\ Quiet(k) ELSE Asked(k, n)
                  /\ \A s : Answered(l, s) => f.type \notin ChunkTypes /\ Answered(k, s)
<1>t. l.toDown \in Seq(Frames) /\ l.toUp \in Seq(Frames)
  BY DEF Links
<1>1. ASSUME l.toUp # <<>>
      PROVE  LET k == [l EXCEPT !.toUp = Tail(@)]
                 t == Head(l.toUp).type
             IN  /\ Quiet(l) => t \notin AnswerTypes /\ Quiet(k)
                 /\ \A n : Asked(l, n) => t \notin AnswerTypes /\ Asked(k, n)
                 /\ \A s \in AnswerTypes : Answered(l, s) =>
                      IF t \in AnswerTypes THEN t = s /\ Quiet(k) ELSE Answered(k, s)
  <2> DEFINE k == [l EXCEPT !.toUp = Tail(@)]
             t == Head(l.toUp).type
  <2>1. k.toDown = l.toDown /\ k.toUp = Tail(l.toUp)
    BY DEF Links
  <2>2. Lacks(l.toUp, AnswerTypes) => t \notin AnswerTypes /\ Lacks(k.toUp, AnswerTypes)
    BY <1>t, <1>1, <2>1, LacksOps
  <2>3. ASSUME NEW s \in AnswerTypes, Has(l.toUp, AnswerTypes, {Frame(s)})
        PROVE  IF t \in AnswerTypes THEN t = s /\ Lacks(k.toUp, AnswerTypes)
                                    ELSE Has(k.toUp, AnswerTypes, {Frame(s)})
    <3>1. Frame(s).type = s
      BY FrameKinds
    <3>2. t \in AnswerTypes => Head(l.toUp) = Frame(s) /\ Lacks(k.toUp, AnswerTypes)
      BY <1>t, <2>1, <2>3, HasOps
    <3>3. t \notin AnswerTypes => Head(l.toUp) # Frame(s)
      BY <3>1
    <3>4. t \notin AnswerTypes => Has(k.toUp, AnswerTypes, {Frame(s)})
      BY <1>t, <2>1, <2>3, <3>3, HasOps
    <3> QED BY <3>1, <3>2, <3>4
  <2> HIDE DEF k, t
  <2>4. /\ Quiet(l) => t \notin AnswerTypes /\ Quiet(k)
        /\ \A n : Asked(l, n) => t \notin AnswerTypes /\ Asked(k, n)
        /\ \A s \in AnswerTypes : Answered(l, s) =>
             IF t \in AnswerTypes THEN t = s /\ Quiet(k) ELSE Answered(k, s)
    BY <2>1, <2>2, <2>3 DEF Quiet, Asked, Answered
  <2> QED BY <2>4 DEF k, t
<1>2. ASSUME l.toDown # <<>>
      PROVE  LET k == [l EXCEPT !.toDown = Tail(@)]
                 f == Head(l.toDown)
             IN  /\ Quiet(l) => f.type \notin ChunkTypes /\ Quiet(k)
                 /\ \A n : Asked(l, n) =>
                      IF f.type \in ChunkTypes THEN f.n = n /\ Quiet(k) ELSE Asked(k, n)
                 /\ \A s : Answered(l, s) => f.type \notin ChunkTypes /\ Answered(k, s)
  <2> DEFINE k == [l EXCEPT !.toDown = Tail(@)]
             f == Head(l.toDown)
  <2>1. k.toUp = l.toUp /\ k.toDown = Tail(l.toDown)
    BY DEF Links
  <2>2. Lacks(l.toDown, ChunkTypes) => f.type \notin ChunkTypes /\ Lacks(k.toDown, ChunkTypes)
    BY <1>t, <1>2, <2>1, LacksOps
  <2>3. ASSUME NEW n, Has(l.toDown, ChunkTypes, Copies(n))
        PROVE  IF f.type \in ChunkTypes THEN f.n = n /\ Lacks(k.toDown, ChunkTypes)
                                        ELSE Has(k.toDown, ChunkTypes, Copies(n))
    <3>1. f.type \in ChunkTypes => f \in Copies(n) /\ Lacks(k.toDown, ChunkTypes)
      BY <1>t, <2>1, <2>3, HasOps
    <3>2. f \in Copies(n) => f.n = n /\ f.type \in ChunkTypes
      BY DEF Copies
    <3>3. f.type \notin ChunkTypes => Has(k.toDown, ChunkTypes, Copies(n))
      BY <1>t, <2>1, <2>3, <3>2, HasOps
    <3> QED BY <3>1, <3>2, <3>3
  <2> HIDE DEF k, f
  <2>4. /\ Quiet(l) => f.type \notin ChunkTypes /\ Quiet(k)
        /\ \A n : Asked(l, n) =>
             IF f.type \in ChunkTypes THEN f.n = n /\ Quiet(k) ELSE Asked(k, n)
        /\ \A s : Answered(l, s) => f.type \notin ChunkTypes /\ Answered(k, s)
    BY <2>1, <2>2, <2>3 DEF Quiet, Asked, Answered
  <2> QED BY <2>4 DEF k, f
<1> QED BY <1>1, <1>2

-----------------------------------------------------------------------------
(***************************************************************************)
(* One chunk at a time: the chunk under way is the next one for the        *)
(* handler, and an answer is about the chunk the provider waits with.  A   *)
(* provider that has sent without TRANSFER_ACCEPT fails when that arrives, *)
(* so it never takes an answer for that of another chunk.                  *)
(***************************************************************************)
Carries(l, got) ==
  Quiet(l) \/ Asked(l, got + 1) \/ Answered(l, "ACK") \/ Answered(l, "NACK")

Tied(l, p, got) ==
  /\ \/ Quiet(l)
     \/ Asked(l, got + 1) /\ (p.pc = "ack" => p.n = got + 1)
     \/ Answered(l, "ACK") /\ (p.pc = "ack" => p.n = got)
     \/ Answered(l, "NACK") /\ (p.pc = "ack" => p.n = got + 1)
  /\ p.pc # "ack" => p.n = 0
  /\ p.pc = "accept" => Quiet(l) /\ got = 0

ExchangeInv ==
  Desktop => \A u \in Attempts : hnd[u].pc # "ended" => Tied(link[u], up[u], hnd[u].got)

LEMMA GiveUpTies ==
  ASSUME TypeOK, NEW u \in Attempts, NEW l \in Links, NEW got, Carries(l, got), GiveUp(u, l)
  PROVE  Tied(link'[u], up'[u], got)
<1>1. up'[u] = [up[u] EXCEPT !.pc = "failing", !.n = 0, !.again = FALSE] /\ link'[u] = Close(l, "up")
  BY DEF GiveUp, TypeOK
<1>2. up'[u].pc = "failing" /\ up'[u].n = 0
  BY <1>1 DEF TypeOK, Uploads
<1>3. Quiet(Close(l, "up")) \/ Asked(Close(l, "up"), got + 1)
  BY CloseUp DEF Carries
<1> QED BY <1>1, <1>2, <1>3 DEF Tied

LEMMA SendChunkTies ==
  ASSUME TypeOK, NEW u \in Attempts, NEW l \in Links, NEW got, Quiet(l), up[u].n = got,
         SendChunk(u, l)
  PROVE  Tied(link'[u], up'[u], got)
<1>t. up \in [Attempts -> Uploads] /\ link \in [Attempts -> Links] /\ up[u] \in Uploads
      /\ up[u].n \in 0 .. Chunks /\ "up" \in Ends /\ "down" \in Ends
  BY UploadChanges DEF TypeOK, Ends
<1>1. CASE /\ up' = [up EXCEPT ![u].pc = "completing", ![u].n = 0, ![u].again = FALSE, ![u].sent = TRUE]
           /\ link' = [link EXCEPT ![u] = Close(Put(l, "down", Frame("END")), "up")]
  <2>1. up'[u].pc = "completing" /\ up'[u].n = 0
    BY <1>t, <1>1 DEF Uploads
  <2>2. Put(l, "down", Frame("END")) \in Links /\ Quiet(Put(l, "down", Frame("END")))
    BY <1>t, PutSignal, LinkOps, FrameKinds
  <2>3. Quiet(link'[u])
    BY <1>t, <1>1, <2>2, CloseUp
  <2> QED BY <2>1, <2>3 DEF Tied
<1>2. CASE GiveUp(u, Put(l, "down", Frame("FAIL")))
  <2>1. Put(l, "down", Frame("FAIL")) \in Links /\ Quiet(Put(l, "down", Frame("FAIL")))
    BY <1>t, PutSignal, LinkOps, FrameKinds
  <2> QED BY <1>2, <2>1, GiveUpTies DEF Carries
<1>3. CASE /\ up[u].n # Chunks
           /\ up' = [up EXCEPT ![u].pc = "ack", ![u].n = up[u].n + 1, ![u].again = FALSE]
           /\ link' = [link EXCEPT ![u] = Put(l, "down", Chunk(up[u].n + 1))]
  <2>1. up'[u].pc = "ack" /\ up'[u].n = got + 1
    BY <1>t, <1>3 DEF Uploads
  <2>2. got + 1 \in 1 .. Chunks
    BY <1>t, <1>3
  <2>3. link'[u] = Put(l, "down", Chunk(got + 1))
    BY <1>t, <1>3
  <2>4. Quiet(link'[u]) \/ Asked(link'[u], got + 1)
    BY <2>2, <2>3, PutOne
  <2> QED BY <2>1, <2>4 DEF Tied
<1> QED BY <1>1, <1>2, <1>3 DEF SendChunk

\* What the provider does with an answer, or without one.
LEMMA SendStepTies ==
  ASSUME TypeOK, NEW u \in Attempts, SendStep(u), Tied(link[u], up[u], hnd[u].got)
  PROVE  Tied(link'[u], up'[u], hnd[u].got)
<1> DEFINE got == hnd[u].got
<1>t. /\ up[u] \in Uploads /\ up[u].n \in 0 .. Chunks /\ up \in [Attempts -> Uploads]
      /\ link[u] \in Links /\ link \in [Attempts -> Links] /\ got \in Nat
      /\ "up" \in Ends /\ "down" \in Ends
  BY UploadChanges DEF TypeOK, Ends, Handlers
<1>c. Carries(link[u], got)
  BY DEF Tied, Carries
<1>f. \A l \in Links : Put(l, "down", Frame("FAIL")) \in Links
                       /\ (Carries(l, got) => Carries(Put(l, "down", Frame("FAIL")), got))
  BY <1>t, PutSignal, LinkOps, FrameKinds DEF Carries
<1>a. "ACK" \in AnswerTypes /\ "NACK" \in AnswerTypes /\ "ACCEPT" \notin AnswerTypes
  BY DEF AnswerTypes
<1>k. ASSUME AtUp(u)
      PROVE  /\ TakeUp(u) \in Links /\ Carries(TakeUp(u), got)
             /\ Quiet(link[u]) => Quiet(TakeUp(u)) /\ Head(link[u].toUp).type \notin AnswerTypes
             /\ Head(link[u].toUp).type \in AnswerTypes =>
                  Answered(link[u], Head(link[u].toUp).type) /\ Quiet(TakeUp(u))
  <2>1. link[u].toUp # <<>>
    BY <1>k DEF AtUp
  <2>2. TakeUp(u) \in Links
    BY <1>t, <2>1, LinkOps DEF TakeUp
  <2> QED BY <1>t, <1>c, <1>a, <2>1, <2>2, Taken DEF TakeUp, Carries
<1> HIDE DEF got
<1>1. CASE GetAccept(u)
  <2>1. up[u].pc = "accept" /\ AtUp(u) /\ (SendChunk(u, TakeUp(u)) \/ GiveUp(u, TakeUp(u)))
    BY <1>1 DEF GetAccept
  <2>2. up[u].n = got /\ Quiet(link[u])
    BY <2>1 DEF Tied, got
  <2> QED BY <1>k, <2>1, <2>2, SendChunkTies, GiveUpTies DEF got
<1>2. CASE GetAck(u)
  <2>1. up[u].pc = "ack" /\ AtUp(u) /\ Head(link[u].toUp).type = "ACK" /\ SendChunk(u, TakeUp(u))
    BY <1>2 DEF GetAck
  <2>2. Answered(link[u], "ACK") /\ Quiet(TakeUp(u))
    BY <1>k, <1>a, <2>1
  <2>3. up[u].n = got
    <3>1. ~Quiet(link[u])
      BY <1>k, <1>a, <2>1
    <3>2. \A n : ~Asked(link[u], n)
      BY <1>t, <1>a, <2>1, Taken DEF AtUp
    <3>3. ~Answered(link[u], "NACK")
      BY <1>t, <1>a, <2>1, Taken DEF AtUp
    <3> QED BY <2>1, <3>1, <3>2, <3>3 DEF Tied, got
  <2> QED BY <1>k, <2>1, <2>2, <2>3, SendChunkTies DEF got
<1>3. CASE GetNack(u)
  <2>1. /\ up[u].pc = "ack" /\ AtUp(u) /\ Head(link[u].toUp).type = "NACK"
        /\ up' = [up EXCEPT ![u].again = TRUE]
        /\ link' = [link EXCEPT ![u] = Put(TakeUp(u), "down", Chunk(up[u].n))]
    BY <1>3 DEF GetNack
  <2>2. Quiet(TakeUp(u)) /\ TakeUp(u) \in Links
    BY <1>k, <1>a, <2>1
  <2>3. up[u].n = got + 1
    <3>1. ~Quiet(link[u])
      BY <1>k, <1>a, <2>1
    <3>2. \A n : ~Asked(link[u], n)
      BY <1>t, <1>a, <2>1, Taken DEF AtUp
    <3>3. ~Answered(link[u], "ACK")
      BY <1>t, <1>a, <2>1, Taken DEF AtUp
    <3> QED BY <2>1, <3>1, <3>2, <3>3 DEF Tied, got
  <2>4. got + 1 \in 1 .. Chunks /\ link'[u] = Put(TakeUp(u), "down", Chunk(got + 1))
    BY <1>t, <2>1, <2>3
  <2>5. Quiet(link'[u]) \/ Asked(link'[u], got + 1)
    BY <2>2, <2>4, PutOne
  <2>6. up'[u].pc = "ack" /\ up'[u].n = got + 1
    BY <1>t, <2>1, <2>3 DEF Uploads
  <2> QED BY <2>5, <2>6 DEF Tied, got
<1>4. CASE GetOther(u)
  <2>1. AtUp(u) /\ (GiveUp(u, Put(TakeUp(u), "down", Frame("FAIL"))) \/ GiveUp(u, link[u]))
    BY <1>4 DEF GetOther
  <2> QED BY <1>t, <1>c, <1>f, <1>k, <2>1, GiveUpTies DEF got
<1>5. CASE SenderTimeout(u)
  <2>1. CASE up[u].pc = "accept"
    <3>1. SendChunk(u, link[u])
      BY <1>5, <2>1 DEF SenderTimeout
    <3>2. up[u].n = got /\ Quiet(link[u])
      BY <2>1 DEF Tied, got
    <3> QED BY <1>t, <3>1, <3>2, SendChunkTies DEF got
  <2>2. CASE GiveUp(u, link[u])
    BY <1>t, <1>c, <2>2, GiveUpTies DEF got
  <2> QED BY <1>5, <2>1, <2>2 DEF SenderTimeout
<1>6. CASE UploadCut(u)
  BY <1>t, <1>c, <1>6, GiveUpTies DEF UploadCut, got
<1> QED BY <1>1, <1>2, <1>3, <1>4, <1>5, <1>6 DEF SendStep

\* The owner's other steps are before or after the exchange.
LEMMA OwnerStepTies ==
  ASSUME TypeOK, NEW u \in Attempts, OwnerStep(u), NEW v \in Attempts, NEW got,
         Tied(link[v], up[v], got)
  PROVE  Tied(link'[v], up'[v], got)
<1> USE DEF Provider
<1>t. up \in [Attempts -> Uploads]
  BY DEF TypeOK
<1>1. link' = link
  BY DEF OwnerStep, OwnerRejects, OwnerApproves, Approved, ApprovalRefused, StartUpload,
     StartFails, UploadReport, UploadReportFails, ConnectRefused, CancelUpload
<1>2. \/ up' = up \/ up' = [up EXCEPT ![u] = [up[u] EXCEPT !.stopped = TRUE]]
      \/ /\ up[u].pc # "ack"
         /\ \E pc \in {"approving", "report", "connecting", "failing", "ended"} :
              up' = [up EXCEPT ![u] = [up[u] EXCEPT !.pc = pc]]
  <2>1. CASE OwnerRejects(u) \/ OwnerApproves(u) \/ Approved(u) \/ ApprovalRefused(u) \/ StartUpload(u)
    BY <2>1 DEF OwnerRejects, OwnerApproves, Approved, ApprovalRefused, StartUpload
  <2>2. CASE StartFails(u) \/ UploadReport(u) \/ UploadReportFails(u) \/ ConnectRefused(u) \/ CancelUpload(u)
    BY <2>2 DEF StartFails, UploadReport, UploadReportFails, ConnectRefused, CancelUpload
  <2> QED BY <2>1, <2>2 DEF OwnerStep
<1>3. CASE up' = up
  BY <1>1, <1>3
<1>4. CASE up' = [up EXCEPT ![u] = [up[u] EXCEPT !.stopped = TRUE]]
  <2>1. up'[v].pc = up[v].pc /\ up'[v].n = up[v].n
    BY <1>t, <1>4 DEF Uploads
  <2> QED BY <1>1, <2>1 DEF Tied
<1>5. ASSUME up[u].pc # "ack", NEW pc \in {"approving", "report", "connecting", "failing", "ended"},
             up' = [up EXCEPT ![u] = [up[u] EXCEPT !.pc = pc]]
      PROVE  Tied(link'[v], up'[v], got)
  <2>1. CASE v = u
    <3>1. up'[v].pc = pc /\ up'[v].n = up[v].n
      BY <1>t, <1>5, <2>1 DEF Uploads
    <3> QED BY <1>1, <1>5, <2>1, <3>1 DEF Tied
  <2>2. CASE v # u
    BY <1>1, <1>t, <1>5, <2>2
  <2> QED BY <2>1, <2>2
<1> QED BY <1>2, <1>3, <1>4, <1>5

\* Damage leaves a chunk its number, and a broken connection is quiet.
LEMMA NetworkStepTies ==
  ASSUME TypeOK, NEW u \in Attempts, NetworkStep(u), NEW v \in Attempts, NEW got,
         Tied(link[v], up[v], got)
  PROVE  Tied(link'[v], up'[v], got)
<1>t. link \in [Attempts -> Links] /\ link[u] \in Links /\ link[u].toDown \in Seq(Frames)
  BY DEF TypeOK, Links
<1>1. up' = up
  BY DEF NetworkStep, Damage, Break
<1>2. CASE v # u
  <2>1. link'[v] = link[v]
    BY <1>t, <1>2 DEF NetworkStep, Damage, Break
  <2> QED BY <1>1, <2>1
<1>3. CASE v = u /\ Break(u)
  <2>1. Quiet(link'[u])
    <3>1. PICK st : link' = [link EXCEPT ![u].st = st, ![u].toDown = <<>>, ![u].toUp = <<>>]
      BY <1>3 DEF Break
    <3>2. link'[u] = [link[u] EXCEPT !.st = st, !.toDown = <<>>, !.toUp = <<>>]
      BY <1>t, <3>1 DEF Links
    <3>3. Quiet([link[u] EXCEPT !.st = st, !.toDown = <<>>, !.toUp = <<>>])
      BY <1>t, QuietLinks
    <3> QED BY <3>2, <3>3
  <2> QED BY <1>1, <1>3, <2>1 DEF Tied
<1>4. CASE v = u /\ Damage(u)
  <2> DEFINE q == link[u].toDown
  <2>1. PICK i \in 1 .. Len(q) :
          q[i].type = "CHUNK" /\ link' = [link EXCEPT ![u].toDown[i].type = "BAD"]
    BY <1>4 DEF Damage
  <2> DEFINE r == [q EXCEPT ![i] = [q[i] EXCEPT !.type = "BAD"]]
  <2>2. link'[u].toDown = r /\ link'[u].toUp = link[u].toUp
    BY <1>t, <2>1 DEF Links
  <2>3. ~Lacks(q, ChunkTypes)
    BY <2>1 DEF Lacks, ChunkTypes
  <2>4. ASSUME NEW n, Has(q, ChunkTypes, Copies(n)) PROVE Has(r, ChunkTypes, Copies(n))
    <3>1. PICK j \in 1 .. Len(q) :
            q[j] \in Copies(n) /\ \A k \in 1 .. Len(q) : k # j => q[k].type \notin ChunkTypes
      BY <2>4 DEF Has
    <3>2. j = i
      BY <2>1, <3>1 DEF ChunkTypes
    <3>3. Len(r) = Len(q) /\ \A k \in 1 .. Len(q) : r[k] = IF k = i THEN [q[i] EXCEPT !.type = "BAD"] ELSE q[k]
      BY <1>t, <2>1
    <3>4. q[i] \in Frames /\ q[i].type = "CHUNK" /\ q[i].n = n
      BY <2>1, <3>1, <3>2 DEF Copies
    <3>5. [q[i] EXCEPT !.type = "BAD"] \in Copies(n)
      BY <3>4 DEF Copies, Frames, ChunkTypes, Signals
    <3>6. r[i] \in Copies(n) /\ \A k \in 1 .. Len(q) : k # i => r[k].type \notin ChunkTypes
      BY <3>1, <3>2, <3>3, <3>5
    <3> QED BY <3>3, <3>6 DEF Has
  <2> HIDE DEF r, q
  <2>5. ~Quiet(link[u]) /\ ~Answered(link[u], "ACK") /\ ~Answered(link[u], "NACK")
    BY <2>3 DEF Quiet, Answered, q
  <2>6. \A n : Asked(link[u], n) => Asked(link'[u], n)
    BY <2>2, <2>4 DEF Asked, q
  <2> QED BY <1>1, <1>4, <2>5, <2>6 DEF Tied
<1> QED BY <1>2, <1>3, <1>4 DEF NetworkStep

-----------------------------------------------------------------------------
(***************************************************************************)
(* The handler's side of the exchange.                                     *)
(***************************************************************************)
LEMMA LoopTies ==
  ASSUME TypeOK, NEW u \in Attempts, NEW h \in Handlers, NEW l \in Links, NEW p,
         LoopTop(u, h, l, p), Tied(l, up[u], h.got), up' = up
  PROVE  hnd'[u].pc = "ended" \/ Tied(link'[u], up'[u], hnd'[u].got)
<1>t. hnd \in [Attempts -> Handlers] /\ link \in [Attempts -> Links]
  BY DEF TypeOK
<1>1. CASE HandlerFails(u, h.slot, Put(l, "up", Frame("FAIL")))
  BY <1>t, <1>1 DEF HandlerFails, Gone
<1>2. CASE hnd' = [hnd EXCEPT ![u] = h] /\ link' = [link EXCEPT ![u] = l]
  BY <1>t, <1>2
<1> QED BY <1>1, <1>2 DEF LoopTop

LEMMA HandlerReqTies ==
  ASSUME TypeOK, HandlersInv, NEW u \in Attempts, HandlerReq(u),
         Tied(link[u], up[u], hnd[u].got)
  PROVE  hnd'[u].pc = "ended" \/ Tied(link'[u], up'[u], hnd'[u].got)
<1>t. /\ hnd[u] \in Handlers /\ hnd \in [Attempts -> Handlers] /\ link[u] \in Links
      /\ SongOf[u] \in Songs /\ "up" \in Ends
  BY DEF TypeOK, Ends
<1>0. /\ hnd[u].pc = "req" /\ AtDown(u) /\ link[u].toDown # <<>> /\ up' = up
  BY DEF HandlerReq, AtDown
<1>1. CASE hnd' = [hnd EXCEPT ![u] = Gone]
  BY <1>t, <1>1 DEF Gone
<1>2. CASE OpenPart(u)
  <2> DEFINE f(i) == IF part[NameOf[SongOf[u]]][i] = NoAttempt THEN u ELSE part[NameOf[SongOf[u]]][i]
             h(i) == [hnd[u] EXCEPT !.pc = "loop", !.slot = i, !.ino = f(i)]
             l == Put(TakeDown(u), "up", Frame("ACCEPT"))
  <2>1. PICK i \in 1 .. Slots : \E p : LoopTop(u, h(i), l, p)
    BY <1>2 DEF OpenPart
  <2>2. f(i) \in Attempts
    BY <1>t DEF TypeOK, Optional
  <2> HIDE DEF f
  <2>3. h(i) \in Handlers /\ h(i).got = hnd[u].got
    <3>1. h(i) \in Handlers
      BY <1>t, <2>2, HandlerChanges
    <3>2. h(i).got = hnd[u].got
      BY <1>t DEF Handlers
    <3> QED BY <3>1, <3>2
  <2>4. TakeDown(u) \in Links /\ Tied(TakeDown(u), up[u], hnd[u].got)
    <3>1. TakeDown(u) \in Links
      BY <1>0, <1>t, LinkOps DEF TakeDown
    <3>2. /\ Quiet(link[u]) => Quiet(TakeDown(u))
          /\ \A n : Asked(link[u], n) => Quiet(TakeDown(u)) \/ Asked(TakeDown(u), n)
          /\ \A s : Answered(link[u], s) => Answered(TakeDown(u), s)
      BY <1>0, <1>t, Taken DEF TakeDown
    <3> QED BY <3>1, <3>2 DEF Tied
  <2>5. l \in Links /\ Tied(l, up[u], hnd[u].got)
    <3>1. l \in Links
      BY <1>t, <2>4, LinkOps, FrameKinds
    <3>2. /\ Quiet(TakeDown(u)) => Quiet(l)
          /\ \A n : Asked(TakeDown(u), n) => Asked(l, n)
          /\ \A s : Answered(TakeDown(u), s) => Answered(l, s)
      BY <1>t, <2>4, PutSignal
    <3> QED BY <2>4, <3>1, <3>2 DEF Tied
  <2> HIDE DEF l, h
  <2> QED BY <1>0, <2>1, <2>3, <2>5, LoopTies
<1> QED BY <1>1, <1>2 DEF HandlerReq

\* The chunk at the front is the next one of the file.
LEMMA NextChunk ==
  ASSUME TypeOK, NEW u \in Attempts, HandlerChunk(u), Tied(link[u], up[u], hnd[u].got)
  PROVE  /\ Head(link[u].toDown).n = hnd[u].got + 1
         /\ Asked(link[u], hnd[u].got + 1) /\ (up[u].pc = "ack" => up[u].n = hnd[u].got + 1)
         /\ Quiet(TakeDown(u)) /\ TakeDown(u) \in Links /\ up[u].pc # "accept"
<1>t. link[u] \in Links
  BY DEF TypeOK
<1>1. link[u].toDown # <<>> /\ Head(link[u].toDown).type \in ChunkTypes
  BY DEF HandlerChunk, AtDown, ChunkTypes
<1>2. ~Quiet(link[u]) /\ \A s : ~Answered(link[u], s)
  BY <1>t, <1>1, Taken
<1>3. Asked(link[u], hnd[u].got + 1) /\ (up[u].pc = "ack" => up[u].n = hnd[u].got + 1)
      /\ up[u].pc # "accept"
  BY <1>2 DEF Tied
<1>4. Head(link[u].toDown).n = hnd[u].got + 1 /\ Quiet(TakeDown(u))
  BY <1>t, <1>1, <1>3, Taken DEF TakeDown
<1>5. TakeDown(u) \in Links
  BY <1>t, <1>1, LinkOps DEF TakeDown
<1> QED BY <1>3, <1>4, <1>5

LEMMA HandlerChunkTies ==
  ASSUME TypeOK, NEW u \in Attempts, HandlerChunk(u), Tied(link[u], up[u], hnd[u].got)
  PROVE  hnd'[u].pc = "ended" \/ Tied(link'[u], up'[u], hnd'[u].got)
<1>t. hnd[u] \in Handlers /\ "up" \in Ends /\ up' = up /\ hnd[u].got \in Nat
      /\ (up[u].pc # "ack" => up[u].n = 0)
  BY DEF TypeOK, Ends, HandlerChunk, Handlers, Tied
<1>n. /\ up[u].pc = "ack" => up[u].n = hnd[u].got + 1
      /\ Quiet(TakeDown(u)) /\ TakeDown(u) \in Links /\ up[u].pc # "accept"
  BY NextChunk
<1> DEFINE l(t) == Put(TakeDown(u), "up", Frame(t))
<1>l. \A t \in AnswerTypes : l(t) \in Links /\ (Quiet(l(t)) \/ Answered(l(t), t))
  BY <1>t, <1>n, PutOne, LinkOps, FrameKinds
<1> HIDE DEF l
<1>1. CASE LoopTop(u, hnd[u], l("NACK"), part)
  <2>1. l("NACK") \in Links /\ (Quiet(l("NACK")) \/ Answered(l("NACK"), "NACK"))
    BY <1>l DEF AnswerTypes
  <2>2. Tied(l("NACK"), up[u], hnd[u].got)
    BY <1>t, <1>n, <2>1 DEF Tied
  <2> QED BY <1>t, <1>1, <2>1, <2>2, LoopTies
<1>2. CASE LoopTop(u, [hnd[u] EXCEPT !.got = hnd[u].got + 1], l("ACK"), part)
  <2> DEFINE h == [hnd[u] EXCEPT !.got = hnd[u].got + 1]
  <2>1. l("ACK") \in Links /\ (Quiet(l("ACK")) \/ Answered(l("ACK"), "ACK"))
    BY <1>l DEF AnswerTypes
  <2>2. h \in Handlers /\ h.got = hnd[u].got + 1
    BY <1>t, HandlerChanges DEF Handlers
  <2>3. Tied(l("ACK"), up[u], h.got)
    BY <1>t, <1>n, <2>1, <2>2 DEF Tied
  <2> HIDE DEF h
  <2>4. LoopTop(u, h, l("ACK"), part)
    BY <1>2 DEF h
  <2> QED BY <1>t, <2>1, <2>2, <2>3, <2>4, LoopTies
<1> QED BY <1>1, <1>2 DEF HandlerChunk, l

LEMMA ExchangeInit == Init => ExchangeInv
<1> SUFFICES ASSUME Init, NEW u \in Attempts PROVE Tied(link[u], up[u], hnd[u].got)
  BY DEF ExchangeInv
<1>1. link[u] = NoLink /\ up[u].pc = "none" /\ up[u].n = 0
  BY DEF Init
<1> QED BY <1>1, QuietLinks DEF Tied

LEMMA ExchangeStep ==
  TypeOK /\ UploadsInv /\ HandlersInv /\ ExchangeInv /\ [Next]_vars => ExchangeInv'
<1> SUFFICES ASSUME TypeOK, UploadsInv, HandlersInv, ExchangeInv, [Next]_vars PROVE ExchangeInv'
  OBVIOUS
<1>d. UNCHANGED downloader
  BY DownloaderStays
<1> SUFFICES ASSUME Desktop, NEW v \in Attempts, hnd'[v].pc # "ended"
             PROVE  Tied(link'[v], up'[v], hnd'[v].got)
  BY <1>d DEF ExchangeInv, Desktop
<1>t. /\ hnd \in [Attempts -> Handlers] /\ link \in [Attempts -> Links]
      /\ ~Termux
  BY DEF TypeOK, Desktop, Termux
<1>i. hnd[v].pc # "ended" => Tied(link[v], up[v], hnd[v].got)
  BY DEF ExchangeInv
<1>1. CASE UNCHANGED <<link, up, hnd>>
  BY <1>i, <1>1
<1>2. ASSUME NEW u \in Attempts,
             HandlerReq(u) \/ HandlerChunk(u) \/ HandlerStopped(u) \/ HandlerEnd(u)
      PROVE  Tied(link'[v], up'[v], hnd'[v].got)
  <2>1. Serving(u) /\ UNCHANGED up /\ (Opens(u) \/ GoesOn(u) \/ Goes(u))
        /\ \E l : link' = [link EXCEPT ![u] = l]
    BY <1>2, HandlerMoves
  <2>2. CASE v # u
    <3>1. link'[v] = link[v]
      BY <1>t, <2>1, <2>2
    <3>2. hnd'[v] = hnd[v]
      BY <1>t, <2>1, <2>2 DEF Opens, GoesOn, Goes
    <3> QED BY <1>i, <2>1, <3>1, <3>2
  <2>3. CASE v = u /\ (HandlerReq(u) \/ HandlerChunk(u))
    BY <1>i, <2>1, <2>3, HandlerReqTies, HandlerChunkTies DEF Serving
  <2>4. CASE v = u /\ (HandlerStopped(u) \/ HandlerEnd(u))
    <3>1. \A slot, l : HandlerFails(u, slot, l) => hnd' = [hnd EXCEPT ![u] = Gone]
      BY DEF HandlerFails
    <3>2. hnd' = [hnd EXCEPT ![u] = Gone]
      BY <2>4, <3>1, HandlerEnds DEF HandlerStopped, Saves
    <3> QED BY <1>t, <2>4, <3>2 DEF Gone
  <2> QED BY <1>2, <2>2, <2>3, <2>4
<1>3. ASSUME NEW u \in Attempts, Connect(u) PROVE Tied(link'[v], up'[v], hnd'[v].got)
  <2>1. /\ up[u].pc = "connecting"
        /\ link' = [link EXCEPT ![u].st = "open", ![u].toDown = <<Frame("REQ")>>]
        /\ up' = [up EXCEPT ![u].pc = "accept"]
        /\ \E d, pc : hnd' = [hnd EXCEPT ![u].host = d, ![u].pc = pc]
    BY <1>3 DEF Connect
  <2>2. CASE v # u
    BY <1>t, <1>i, <2>1, <2>2 DEF TypeOK
  <2>3. CASE v = u
    <3>1. hnd[u].pc = "none" /\ up[u].n = 0 /\ link[u] = NoLink
      BY <2>1 DEF UploadsInv
    <3>2. hnd[u].got = 0
      BY <3>1 DEF HandlersInv
    <3>3. hnd'[u].got = 0
      BY <1>t, <2>1, <3>2 DEF Handlers
    <3>4. up'[u].pc = "accept" /\ up'[u].n = 0
      BY <2>1, <3>1 DEF TypeOK, Uploads
    <3>5. link'[u] = [link[u] EXCEPT !.st = "open", !.toDown = <<Frame("REQ")>>]
      BY <1>t, <2>1
    <3>6. Quiet(link'[u])
      <4>1. link[u] \in Links /\ Quiet(link[u])
        BY <1>t, <3>1, QuietLinks
      <4>2. Quiet([link[u] EXCEPT !.st = "open", !.toDown = <<Frame("REQ")>>])
        BY <4>1, QuietLinks
      <4> QED BY <3>5, <4>2
    <3> QED BY <2>3, <3>3, <3>4, <3>6 DEF Tied
  <2> QED BY <2>2, <2>3
<1>4. ASSUME NEW u \in Attempts, QuietStep(u) PROVE Tied(link'[v], up'[v], hnd'[v].got)
  <2>1. hnd' = hnd
    BY <1>4, QuietSteps
  <2>2. CASE OwnerStep(u) \/ NetworkStep(u)
    BY <1>i, <2>1, <2>2, OwnerStepTies, NetworkStepTies
  <2>3. CASE SendStep(u)
    <3>1. CASE v = u
      BY <1>i, <2>1, <2>3, <3>1, SendStepTies
    <3>2. CASE v # u
      <4>1. \A l : GiveUp(u, l) => link'[v] = link[v] /\ up'[v] = up[v]
        BY <1>t, <3>2 DEF GiveUp, TypeOK
      <4>2. \A l : SendChunk(u, l) => link'[v] = link[v] /\ up'[v] = up[v]
        BY <1>t, <3>2, <4>1 DEF SendChunk, TypeOK
      <4>3. GetNack(u) => link'[v] = link[v] /\ up'[v] = up[v]
        BY <1>t, <3>2 DEF GetNack, TypeOK
      <4>4. link'[v] = link[v] /\ up'[v] = up[v]
        BY <2>3, <4>1, <4>2, <4>3 DEF SendStep, GetAccept, GetAck, GetOther, SenderTimeout, UploadCut
      <4> QED BY <1>i, <2>1, <4>4
    <3> QED BY <3>1, <3>2
  <2> QED BY <1>4, <2>2, <2>3 DEF QuietStep
<1>5. CASE \/ \E d \in Attempts : \/ DesktopRequest(d) \/ TermuxRequest(d) \/ RequestFails(d)
                                 \/ Listen(d) \/ Deadline(d) \/ Wake(d) \/ Report(d) \/ ReportFails(d)
           \/ \E s \in Songs : Cancel(s)
           \/ UNCHANGED vars
  BY <1>1, <1>5 DEF DesktopRequest, TermuxRequest, RequestFails, Listen, Deadline, Wake, Report,
     ReportFails, Cancel, vars
<1>6. ASSUME NEW u \in Attempts, ThreadReq(u) \/ ThreadChunk(u) \/ ThreadEnd(u) \/ ThreadStopped(u)
      PROVE  FALSE
  BY <1>t, <1>6 DEF ThreadReq, ThreadChunk, ThreadEnd, ThreadStopped
<1> QED BY <1>2, <1>3, <1>4, <1>5, <1>6, Steps

-----------------------------------------------------------------------------
(***************************************************************************)
(* A download that has been asked for remains so, and so do the songs that *)
(* share a file name.  Handlers serve such downloads.                      *)
(***************************************************************************)
LEMMA StartedStays ==
  ASSUME TypeOK, [Next]_vars, NEW e \in Attempts, dl[e].task # "none"
  PROVE  dl'[e].task # "none"
<1>t. dl \in [Attempts -> Downloads]
  BY DEF TypeOK
<1>0. ASSUME NEW d, NEW r, dl' = [dl EXCEPT ![d] = r], d = e => r.task # "none"
      PROVE  dl'[e].task # "none"
  BY <1>t, <1>0
<1>1. ASSUME NEW d \in Attempts, Requested(d) PROVE dl'[e].task # "none"
  BY <1>t, <1>1, RequestsLeave
<1>2. ASSUME NEW d \in Attempts, \/ Listen(d) \/ Deadline(d) \/ Wake(d) \/ Report(d) \/ ReportFails(d)
      PROVE  dl'[e].task # "none"
  <2>1. ASSUME NEW task \in {"waiting", "completing", "failing", "ended"}
        PROVE  /\ [dl[e] EXCEPT !.task = task].task # "none"
               /\ [dl[e] EXCEPT !.task = task, !.listener = "none"].task # "none"
               /\ [dl[e] EXCEPT !.task = task, !.future = "pending", !.listener = "open"].task # "none"
               /\ [dl[e] EXCEPT !.future = "error", !.listener = "none"].task # "none"
    BY <1>t DEF Downloads
  <2>2. \/ \E task \in {"failing", "ended"} : dl' = [dl EXCEPT ![d] = [dl[d] EXCEPT !.task = task]]
        \/ \E task \in {"completing", "failing"} :
             dl' = [dl EXCEPT ![d] = [dl[d] EXCEPT !.task = task, !.listener = "none"]]
        \/ dl' = [dl EXCEPT ![d] = [dl[d] EXCEPT !.task = "waiting", !.future = "pending",
                                                 !.listener = "open"]]
        \/ dl' = [dl EXCEPT ![d] = [dl[d] EXCEPT !.future = "error", !.listener = "none"]]
    <3>1. CASE Listen(d) \/ Deadline(d)
      BY <3>1 DEF Listen, Deadline
    <3>2. CASE Wake(d)
      BY <3>2 DEF Wake
    <3>3. CASE Report(d) \/ ReportFails(d)
      BY <3>3 DEF Report, ReportFails, EndTask
    <3> QED BY <1>2, <3>1, <3>2, <3>3
  <2> QED BY <1>t, <2>1, <2>2
<1>3. ASSUME NEW s \in Songs, Cancel(s) PROVE dl'[e].task # "none"
  <2>1. \/ dl' = dl
        \/ dl' = [dl EXCEPT ![registered[s]].cancelled = TRUE,
                            ![registered[s]].future = IF @ = "pending" THEN "error" ELSE @]
    BY <1>3 DEF Cancel
  <2> QED BY <1>t, <2>1 DEF Downloads
<1>4. ASSUME NEW u \in Attempts,
             HandlerReq(u) \/ HandlerChunk(u) \/ HandlerStopped(u) \/ HandlerEnd(u)
      PROVE  dl'[e].task # "none"
  <2>1. CASE Failure
    BY <2>1 DEF Failure
  <2>2. CASE Saves(u)
    <3>1. dl' = [dl EXCEPT ![Host(u)].future = IF @ = "pending" THEN "saved" ELSE @]
      BY <2>2 DEF Saves, Resolve
    <3> QED BY <1>t, <3>1 DEF Downloads
  <2> QED BY <1>4, <2>1, <2>2, Failures, HandlerEnds
<1>5. ASSUME NEW u \in Attempts, ThreadEnd(u) \/ ThreadStopped(u) PROVE dl'[e].task # "none"
  <2>1. \E result : dl' = [dl EXCEPT ![Host(u)].future = result, ![Host(u)].listener = "none"]
    BY <1>5 DEF ThreadEnd, ThreadStopped, ThreadReturns
  <2> QED BY <1>t, <2>1 DEF Downloads
<1>6. ASSUME NEW u \in Attempts, ThreadReq(u) \/ ThreadChunk(u) \/ QuietStep(u)
      PROVE  dl'[e].task # "none"
  BY <1>6, QuietSteps DEF ThreadReq, ThreadChunk
<1>7. ASSUME NEW u \in Attempts, Connect(u) PROVE dl'[e].task # "none"
  <2>1. PICK d \in Attempts :
          dl' = [dl EXCEPT ![d] = [dl[d] EXCEPT !.listener = IF Termux THEN "taken" ELSE dl[d].listener]]
    BY <1>7 DEF Connect
  <2> QED BY <1>t, <2>1 DEF Downloads
<1>8. CASE UNCHANGED vars
  BY <1>8 DEF vars
<1> QED BY <1>1, <1>2, <1>3, <1>4, <1>5, <1>6, <1>7, <1>8, Steps DEF Requested

LEMMA UnsharedBefore ==
  ASSUME TypeOK, [Next]_vars, NEW s \in Songs, Unshared(s)'
  PROVE  Unshared(s)
<1>1. Started \subseteq Started'
  BY StartedStays DEF Started
<1> QED BY <1>1 DEF Unshared

HostedInv ==
  Desktop => \A u \in Attempts : hnd[u].pc \in {"req", "loop"} => hnd[u].host \in Started

LEMMA HostedStep ==
  TypeOK /\ TasksInv /\ HostedInv /\ [Next]_vars => HostedInv'
<1> SUFFICES ASSUME TypeOK, TasksInv, HostedInv, [Next]_vars PROVE HostedInv'
  OBVIOUS
<1>d. UNCHANGED downloader
  BY DownloaderStays
<1> SUFFICES ASSUME Desktop, NEW v \in Attempts, hnd'[v].pc \in {"req", "loop"}
             PROVE  hnd'[v].host \in Started'
  BY <1>d DEF HostedInv, Desktop
<1>t. hnd \in [Attempts -> Handlers] /\ ~Termux
  BY DEF TypeOK, Desktop, Termux
<1>s. Started \subseteq Started'
  BY StartedStays DEF Started
<1>0. ASSUME hnd'[v].host = hnd[v].host, hnd[v].pc \in {"req", "loop"}
      PROVE  hnd'[v].host \in Started'
  BY <1>0, <1>s DEF HostedInv
<1>1. ASSUME NEW u \in Attempts,
             HandlerReq(u) \/ HandlerChunk(u) \/ HandlerStopped(u) \/ HandlerEnd(u)
      PROVE  hnd'[v].host \in Started'
  <2>1. Serving(u) /\ (Opens(u) \/ GoesOn(u) \/ Goes(u))
    BY <1>1, HandlerMoves
  <2>2. CASE v # u
    <3>1. hnd'[v] = hnd[v]
      BY <1>t, <2>1, <2>2 DEF Opens, GoesOn, Goes
    <3> QED BY <1>0, <3>1
  <2>3. CASE v = u /\ Opens(u)
    <3>1. PICK i, f : hnd' = [hnd EXCEPT ![u] = [hnd[u] EXCEPT !.pc = "loop", !.slot = i, !.ino = f]]
      BY <2>3 DEF Opens
    <3>2. hnd'[v].host = hnd[v].host
      BY <1>t, <2>3, <3>1 DEF Handlers
    <3>3. hnd[v].pc = "req"
      BY <2>3 DEF Opens
    <3> QED BY <1>0, <3>2, <3>3
  <2>4. CASE v = u /\ GoesOn(u)
    <3>1. hnd'[v].host = hnd[v].host
      <4>1. CASE hnd' = hnd
        BY <4>1
      <4>2. CASE hnd' = [hnd EXCEPT ![u] = [hnd[u] EXCEPT !.got = hnd[u].got + 1]]
        BY <1>t, <2>4, <4>2 DEF Handlers
      <4> QED BY <2>4, <4>1, <4>2 DEF GoesOn
    <3>2. hnd[v].pc = "loop"
      BY <2>4 DEF GoesOn
    <3> QED BY <1>0, <3>1, <3>2
  <2>5. CASE v = u /\ Goes(u)
    <3>1. hnd'[v].pc = "ended"
      BY <1>t, <2>5 DEF Goes, Gone
    <3> QED BY <3>1
  <2> QED BY <2>1, <2>2, <2>3, <2>4, <2>5
<1>2. ASSUME NEW u \in Attempts, Connect(u) PROVE hnd'[v].host \in Started'
  <2>1. PICK d \in Attempts :
          /\ dl[d].listener # "none"
          /\ \E pc : hnd' = [hnd EXCEPT ![u].host = d, ![u].pc = pc]
    BY <1>2 DEF Connect
  <2>2. d \in Started
    BY <2>1 DEF TasksInv, Started
  <2>3. CASE v = u
    <3>1. hnd'[v].host = d
      BY <1>t, <2>1, <2>3 DEF Handlers
    <3> QED BY <1>s, <2>2, <3>1
  <2>4. CASE v # u
    <3>1. hnd'[v] = hnd[v]
      BY <1>t, <2>1, <2>4
    <3> QED BY <1>0, <3>1
  <2> QED BY <2>3, <2>4
<1>3. ASSUME NEW u \in Attempts, ThreadReq(u) \/ ThreadChunk(u) \/ ThreadEnd(u) \/ ThreadStopped(u)
      PROVE  FALSE
  BY <1>t, <1>3 DEF ThreadReq, ThreadChunk, ThreadEnd, ThreadStopped
<1>4. CASE \/ \E d \in Attempts : \/ DesktopRequest(d) \/ TermuxRequest(d) \/ RequestFails(d)
                                 \/ Listen(d) \/ Deadline(d) \/ Wake(d) \/ Report(d) \/ ReportFails(d)
           \/ \E s \in Songs : Cancel(s)
           \/ \E u \in Attempts : QuietStep(u)
           \/ UNCHANGED vars
  <2>1. hnd' = hnd
    BY <1>4, QuietSteps DEF DesktopRequest, TermuxRequest, RequestFails, Listen, Deadline, Wake, Report,
       ReportFails, Cancel, vars
  <2> QED BY <1>0, <2>1
<1> QED BY <1>1, <1>2, <1>3, <1>4, Steps

\* A handler that writes is of the only song of its name, if there is only one.
LEMMA WritersSong ==
  ASSUME Desktop, HandlersInv, HostedInv, NEW u \in Attempts, hnd[u].pc = "loop",
         NEW s \in Songs, Unshared(s), NameOf[SongOf[u]] = NameOf[s]
  PROVE  SongOf[u] = s
<1>1. SongOf[u] = SongOf[hnd[u].host] /\ hnd[u].host \in Started
  BY DEF HandlersInv, HostedInv
<1> QED BY <1>1 DEF Unshared

-----------------------------------------------------------------------------
(***************************************************************************)
(* The files.  Each has one name, which is that of its song, and of those  *)
(* of the handlers that write to it; what is in the folder is whole.       *)
(***************************************************************************)
Name(u) == NameOf[SongOf[u]]

FilesInv ==
  Desktop =>
    /\ \A n \in Names, i \in 1 .. Slots : part[n][i] # NoAttempt =>
         /\ Name(part[n][i]) = n /\ hnd[part[n][i]].pc \in {"loop", "ended"}
         /\ \A m \in Names, j \in 1 .. Slots :
              /\ folder[m][j] # part[n][i]
              /\ part[m][j] = part[n][i] => m = n /\ j = i
    /\ \A n \in Names, i \in 1 .. Slots : folder[n][i] # NoAttempt =>
         Name(folder[n][i]) = n /\ hnd[folder[n][i]].pc \in {"loop", "ended"}
    /\ \A u \in Attempts : hnd[u].pc = "loop" =>
         hnd[u].ino \in Attempts /\ Name(hnd[u].ino) = Name(u)
    /\ \A s \in Songs, i \in 1 .. Slots :
         Unshared(s) /\ folder[NameOf[s]][i] # NoAttempt => data[folder[NameOf[s]][i]] = Whole(s)

LEMMA FilesInit == Init => HostedInv /\ FilesInv
BY DEF Init, HostedInv, FilesInv

\* What a handler's step does to the files.
OpensFile(u) ==
  /\ hnd[u].pc = "req" /\ UNCHANGED folder
  /\ \E i \in 1 .. Slots, f \in Attempts :
       /\ f = IF part[Name(u)][i] = NoAttempt THEN u ELSE part[Name(u)][i]
       /\ data' = [data EXCEPT ![f] = Blank]
       /\ \/ /\ hnd' = [hnd EXCEPT ![u] = [hnd[u] EXCEPT !.pc = "loop", !.slot = i, !.ino = f]]
             /\ part' = [part EXCEPT ![Name(u)][i] = f]
          \/ /\ hnd' = [hnd EXCEPT ![u] = Gone]
             /\ part' = [part EXCEPT ![Name(u)][i] = NoAttempt]
WritesFile(u) ==
  /\ hnd[u].pc = "loop" /\ UNCHANGED folder
  /\ \/ UNCHANGED data
     \/ \E n \in 1 .. Chunks : data' = [data EXCEPT ![hnd[u].ino][n] = <<SongOf[u], n>>]
  /\ \/ /\ UNCHANGED part
        /\ hnd' = hnd \/ hnd' = [hnd EXCEPT ![u] = [hnd[u] EXCEPT !.got = hnd[u].got + 1]]
     \/ /\ hnd' = [hnd EXCEPT ![u] = Gone]
        /\ part' = part \/ part' = [part EXCEPT ![Name(u)][hnd[u].slot] = NoAttempt]
LeavesFile(u) ==
  /\ UNCHANGED <<folder, data>>
  /\ hnd' = [hnd EXCEPT ![u] = Gone]
  /\ part' = part \/ part' = [part EXCEPT ![Name(u)][hnd[u].slot] = NoAttempt]
RenamesFile(u) ==
  LET n == Name(u)
      i == hnd[u].slot
  IN  /\ hnd[u].pc = "loop"
      /\ i \in 1 .. Slots /\ part[n][i] # NoAttempt /\ data[part[n][i]] = Whole(SongOf[u])
      /\ folder' = [folder EXCEPT ![n][i] = part[n][i]]
      /\ part' = [part EXCEPT ![n][i] = NoAttempt]
      /\ hnd' = [hnd EXCEPT ![u] = Gone] /\ UNCHANGED data

LEMMA FailsLeaves ==
  ASSUME TypeOK, NEW u \in Attempts, NEW slot, NEW l, HandlerFails(u, slot, l)
  PROVE  /\ hnd' = [hnd EXCEPT ![u] = Gone]
         /\ IF slot = 0 THEN part' = part ELSE part' = [part EXCEPT ![Name(u)][slot] = NoAttempt]
BY DEF HandlerFails, Name

LEMMA HandlerFiles ==
  ASSUME TypeOK, HandlersInv, NEW u \in Attempts, Tied(link[u], up[u], hnd[u].got),
         HandlerReq(u) \/ HandlerChunk(u) \/ HandlerStopped(u) \/ HandlerEnd(u)
  PROVE  OpensFile(u) \/ WritesFile(u) \/ LeavesFile(u) \/ RenamesFile(u)
<1>t. hnd[u] \in Handlers /\ SongOf[u] \in Songs /\ hnd[u].slot \in 0 .. Slots
  BY HandlerChanges DEF TypeOK
<1>1. CASE HandlerReq(u)
  <2>0. hnd[u].pc = "req" /\ UNCHANGED folder
    BY <1>1 DEF HandlerReq
  <2>1. CASE SongOf[u] # SongOf[Host(u)]
    BY <1>1, <2>0, <2>1 DEF HandlerReq, LeavesFile
  <2>2. CASE OpenPart(u)
    <3> DEFINE f(i) == IF part[Name(u)][i] = NoAttempt THEN u ELSE part[Name(u)][i]
               h(i) == [hnd[u] EXCEPT !.pc = "loop", !.slot = i, !.ino = f(i)]
    <3>1. PICK i \in 1 .. Slots :
            /\ data' = [data EXCEPT ![f(i)] = Blank]
            /\ LoopTop(u, h(i), Put(TakeDown(u), "up", Frame("ACCEPT")), [part EXCEPT ![Name(u)][i] = f(i)])
      BY <2>2 DEF OpenPart, Name
    <3>2. f(i) \in Attempts
      <4>1. Name(u) \in Names
        BY <1>t DEF Name
      <4> QED BY <4>1 DEF TypeOK, Optional
    <3>3. h(i).slot = i /\ i # 0
      BY <1>t DEF Handlers
    <3>4. \/ /\ hnd' = [hnd EXCEPT ![u] = h(i)]
             /\ part' = [part EXCEPT ![Name(u)][i] = f(i)]
          \/ /\ hnd' = [hnd EXCEPT ![u] = Gone]
             /\ part' = [part EXCEPT ![Name(u)][i] = NoAttempt]
      <4> HIDE DEF f, h
      <4> QED BY <3>1, <3>3, FailsLeaves DEF LoopTop
    <3>5. \E j \in 1 .. Slots, g \in Attempts :
            /\ g = f(j)
            /\ data' = [data EXCEPT ![g] = Blank]
            /\ \/ /\ hnd' = [hnd EXCEPT ![u] = [hnd[u] EXCEPT !.pc = "loop", !.slot = j, !.ino = g]]
                  /\ part' = [part EXCEPT ![Name(u)][j] = g]
               \/ /\ hnd' = [hnd EXCEPT ![u] = Gone]
                  /\ part' = [part EXCEPT ![Name(u)][j] = NoAttempt]
      <4> HIDE DEF f
      <4> WITNESS i \in 1 .. Slots, f(i) \in Attempts
      <4> QED BY <3>1, <3>4
    <3> QED BY <2>0, <3>5 DEF OpensFile
  <2> QED BY <1>1, <2>1, <2>2 DEF HandlerReq
<1>2. CASE HandlerChunk(u)
  <2> DEFINE n == hnd[u].got + 1
             h == [hnd[u] EXCEPT !.got = n]
  <2>0. hnd[u].pc = "loop" /\ UNCHANGED folder /\ n \in 1 .. Chunks /\ Head(link[u].toDown).n = n
    <3>1. hnd[u].pc = "loop" /\ UNCHANGED folder /\ n <= Chunks
      BY <1>2 DEF HandlerChunk
    <3>2. Head(link[u].toDown).n = n
      BY <1>2, NextChunk
    <3>3. n \in Nat /\ n >= 1
      BY <1>t DEF Handlers
    <3> QED BY <3>1, <3>2, <3>3
  <2>1. h.slot = hnd[u].slot
    BY <1>t DEF Handlers
  <2>2. ASSUME NEW g \in {hnd[u], h}, NEW l, LoopTop(u, g, l, part)
        PROVE  \/ /\ UNCHANGED part
                  /\ hnd' = hnd \/ hnd' = [hnd EXCEPT ![u] = h]
               \/ /\ hnd' = [hnd EXCEPT ![u] = Gone]
                  /\ part' = part \/ part' = [part EXCEPT ![Name(u)][hnd[u].slot] = NoAttempt]
    <3>1. g.slot = hnd[u].slot
      BY <2>1
    <3>2. [hnd EXCEPT ![u] = hnd[u]] = hnd
      BY DEF TypeOK
    <3> HIDE DEF h
    <3> QED BY <2>2, <3>1, <3>2, FailsLeaves DEF LoopTop
  <2>3. \/ UNCHANGED data
        \/ data' = [data EXCEPT ![hnd[u].ino][n] = <<SongOf[u], n>>]
    BY <1>2, <2>0 DEF HandlerChunk
  <2>4. \E g \in {hnd[u], h}, l \in {link'[u], Put(TakeDown(u), "up", Frame("NACK")), Put(TakeDown(u), "up", Frame("ACK"))} :
          LoopTop(u, g, l, part)
    BY <1>2 DEF HandlerChunk
  <2> QED BY <2>0, <2>2, <2>3, <2>4 DEF WritesFile
<1>3. CASE HandlerStopped(u)
  BY <1>3, FailsLeaves DEF HandlerStopped, LeavesFile
<1>4. CASE HandlerEnd(u)
  <2>0. /\ hnd[u].pc = "loop" /\ Desktop /\ data' = data
        /\ Saves(u) \/ (HandlerFails(u, hnd[u].slot, link[u]) /\ folder' = folder)
    BY <1>4, HandlerEnds
  <2>1. hnd[u].pc = "loop" /\ Desktop /\ UNCHANGED data
    BY <2>0
  <2>2. hnd[u].slot \in 1 .. Slots
    BY <1>t, <2>1 DEF HandlersInv
  <2>3. CASE Saves(u)
    BY <2>1, <2>2, <2>3 DEF Saves, RenamesFile, Name
  <2>4. CASE HandlerFails(u, hnd[u].slot, link[u]) /\ folder' = folder
    BY <2>1, <2>4, FailsLeaves DEF LeavesFile
  <2> QED BY <2>0, <2>3, <2>4
<1> QED BY <1>1, <1>2, <1>3, <1>4

LEMMA FilesStep ==
  TypeOK /\ UploadsInv /\ HandlersInv /\ HostedInv /\ ExchangeInv /\ FilesInv /\ [Next]_vars
    => FilesInv'
<1> SUFFICES ASSUME TypeOK, UploadsInv, HandlersInv, HostedInv, ExchangeInv, FilesInv, [Next]_vars
             PROVE  FilesInv'
  OBVIOUS
<1>d. UNCHANGED downloader
  BY DownloaderStays
<1>n. CASE ~Desktop
  BY <1>d, <1>n DEF FilesInv, Desktop
<1> SUFFICES ASSUME Desktop PROVE FilesInv'
  BY <1>n
<1>t. /\ hnd \in [Attempts -> Handlers] /\ NoAttempt \notin Attempts
      /\ part \in [Names -> [1 .. Slots -> Optional]] /\ folder \in [Names -> [1 .. Slots -> Optional]]
      /\ data \in [Attempts -> [1 .. Chunks -> Pieces \union {Hole}]]
      /\ \A u \in Attempts : SongOf[u] \in Songs /\ Name(u) \in Names
      /\ \A s \in Songs : NameOf[s] \in Names
      /\ ~Termux
  BY DEF TypeOK, Desktop, Termux, Name
<1>p. \A n \in Names, i \in 1 .. Slots : part[n][i] # NoAttempt =>
        /\ part[n][i] \in Attempts
        /\ Name(part[n][i]) = n /\ hnd[part[n][i]].pc \in {"loop", "ended"}
        /\ \A m \in Names, j \in 1 .. Slots :
             /\ folder[m][j] # part[n][i]
             /\ part[m][j] = part[n][i] => m = n /\ j = i
  BY <1>t DEF FilesInv, Optional
<1>f. \A n \in Names, i \in 1 .. Slots : folder[n][i] # NoAttempt =>
        /\ folder[n][i] \in Attempts
        /\ Name(folder[n][i]) = n /\ hnd[folder[n][i]].pc \in {"loop", "ended"}
  BY <1>t DEF FilesInv, Optional
<1>h. \A u \in Attempts : hnd[u].pc = "loop" => hnd[u].ino \in Attempts /\ Name(hnd[u].ino) = Name(u)
  BY DEF FilesInv
<1>w. \A s \in Songs, i \in 1 .. Slots : Unshared(s) /\ folder[NameOf[s]][i] # NoAttempt =>
        data[folder[NameOf[s]][i]] = Whole(s)
  BY DEF FilesInv
<1>u. \A s \in Songs : Unshared(s)' => Unshared(s)
  BY UnsharedBefore
\* A step that names no new file and changes none in the folder.
<1>0. ASSUME UNCHANGED folder,
             \A n \in Names, j \in 1 .. Slots : part'[n][j] # NoAttempt => part'[n][j] = part[n][j],
             \A v \in Attempts : hnd[v].pc \in {"loop", "ended"} => hnd'[v].pc \in {"loop", "ended"},
             \A v \in Attempts : hnd'[v].pc = "loop" => hnd[v].pc = "loop" /\ hnd'[v].ino = hnd[v].ino,
             \A s \in Songs, j \in 1 .. Slots : Unshared(s) /\ folder[NameOf[s]][j] # NoAttempt =>
               data'[folder[NameOf[s]][j]] = Whole(s)
      PROVE  FilesInv'
  <2>1. \A n \in Names, i \in 1 .. Slots : part'[n][i] # NoAttempt =>
          /\ Name(part'[n][i]) = n /\ hnd'[part'[n][i]].pc \in {"loop", "ended"}
          /\ \A m \in Names, j \in 1 .. Slots :
               /\ folder'[m][j] # part'[n][i]
               /\ part'[m][j] = part'[n][i] => m = n /\ j = i
    BY <1>p, <1>0
  <2>2. \A n \in Names, i \in 1 .. Slots : folder'[n][i] # NoAttempt =>
          Name(folder'[n][i]) = n /\ hnd'[folder'[n][i]].pc \in {"loop", "ended"}
    BY <1>f, <1>0
  <2>3. \A v \in Attempts : hnd'[v].pc = "loop" =>
          hnd'[v].ino \in Attempts /\ Name(hnd'[v].ino) = Name(v)
    BY <1>h, <1>0
  <2>4. \A s \in Songs, i \in 1 .. Slots : Unshared(s)' /\ folder'[NameOf[s]][i] # NoAttempt =>
          data'[folder'[NameOf[s]][i]] = Whole(s)
    BY <1>u, <1>0
  <2> QED BY <2>1, <2>2, <2>3, <2>4 DEF FilesInv, Name
<1>1. CASE \/ \E d \in Attempts : \/ DesktopRequest(d) \/ TermuxRequest(d) \/ RequestFails(d)
                                 \/ Listen(d) \/ Deadline(d) \/ Wake(d) \/ Report(d) \/ ReportFails(d)
           \/ \E s \in Songs : Cancel(s)
           \/ \E u \in Attempts : QuietStep(u)
           \/ UNCHANGED vars
  <2>1. UNCHANGED <<folder, part, data, hnd>>
    BY <1>1, QuietSteps DEF DesktopRequest, TermuxRequest, RequestFails, Listen, Deadline, Wake, Report,
       ReportFails, Cancel, vars, files
  <2> QED BY <1>0, <1>w, <2>1
<1>2. ASSUME NEW u \in Attempts, Connect(u) PROVE FilesInv'
  <2>1. /\ UNCHANGED <<folder, part, data>> /\ up[u].pc = "connecting"
        /\ \E d, pc : /\ pc # "loop"
                      /\ hnd' = [hnd EXCEPT ![u].host = d, ![u].pc = pc]
    BY <1>2 DEF Connect, files
  <2>2. hnd[u].pc = "none"
    BY <2>1 DEF UploadsInv
  <2>3. /\ \A v \in Attempts : v # u => hnd'[v] = hnd[v]
        /\ hnd'[u].pc # "loop"
    BY <1>t, <2>1 DEF Handlers
  <2>4. \A v \in Attempts : hnd[v].pc \in {"loop", "ended"} => v # u
    BY <2>2
  <2>5. \A v \in Attempts : hnd'[v].pc = "loop" => v # u
    BY <2>3
  <2>6. /\ \A v \in Attempts : hnd[v].pc \in {"loop", "ended"} => hnd'[v].pc \in {"loop", "ended"}
        /\ \A v \in Attempts : hnd'[v].pc = "loop" => hnd[v].pc = "loop" /\ hnd'[v].ino = hnd[v].ino
    BY <2>3, <2>4, <2>5
  <2>7. \A s \in Songs, j \in 1 .. Slots : Unshared(s) /\ folder[NameOf[s]][j] # NoAttempt =>
          data'[folder[NameOf[s]][j]] = Whole(s)
    BY <1>w, <2>1
  <2> QED BY <1>0, <2>1, <2>6, <2>7
<1>3. ASSUME NEW u \in Attempts, ThreadReq(u) \/ ThreadChunk(u) \/ ThreadEnd(u) \/ ThreadStopped(u)
      PROVE  FALSE
  BY <1>t, <1>3 DEF ThreadReq, ThreadChunk, ThreadEnd, ThreadStopped
<1>4. ASSUME NEW u \in Attempts,
             HandlerReq(u) \/ HandlerChunk(u) \/ HandlerStopped(u) \/ HandlerEnd(u)
      PROVE  OpensFile(u) \/ WritesFile(u) \/ LeavesFile(u) \/ RenamesFile(u)
  <2>1. hnd[u].pc # "ended"
    BY <1>4, HandlerMoves DEF Serving
  <2> QED BY <1>4, <2>1, HandlerFiles DEF ExchangeInv
<1>g. ASSUME NEW u \in Attempts, hnd' = [hnd EXCEPT ![u] = Gone]
      PROVE  /\ hnd'[u].pc = "ended" /\ \A v \in Attempts : v # u => hnd'[v] = hnd[v]
             /\ \A v \in Attempts : hnd[v].pc \in {"loop", "ended"} => hnd'[v].pc \in {"loop", "ended"}
             /\ \A v \in Attempts : hnd'[v].pc = "loop" => hnd'[v] = hnd[v]
  BY <1>t, <1>g DEF Gone
\* A name that is taken away changes nothing for the others.
<1>k. ASSUME NEW u \in Attempts, NEW i, part' = [part EXCEPT ![Name(u)][i] = NoAttempt]
      PROVE  \A n \in Names, j \in 1 .. Slots : part'[n][j] # NoAttempt => part'[n][j] = part[n][j]
  BY <1>t, <1>k
<1>5. ASSUME NEW u \in Attempts, LeavesFile(u) PROVE FilesInv'
  <2>1. \A n \in Names, j \in 1 .. Slots : part'[n][j] # NoAttempt => part'[n][j] = part[n][j]
    BY <1>k, <1>5 DEF LeavesFile
  <2>2. folder' = folder /\ data' = data /\ hnd' = [hnd EXCEPT ![u] = Gone]
    BY <1>5 DEF LeavesFile
  <2> QED BY <1>0, <1>w, <1>g, <2>1, <2>2
<1>6. ASSUME NEW u \in Attempts, WritesFile(u) PROVE FilesInv'
  <2>1. \A n \in Names, j \in 1 .. Slots : part'[n][j] # NoAttempt => part'[n][j] = part[n][j]
    BY <1>k, <1>6 DEF WritesFile
  <2>2. /\ \A v \in Attempts : hnd[v].pc \in {"loop", "ended"} => hnd'[v].pc \in {"loop", "ended"}
        /\ \A v \in Attempts : hnd'[v].pc = "loop" => hnd[v].pc = "loop" /\ hnd'[v].ino = hnd[v].ino
    <3>1. CASE hnd' = hnd
      BY <3>1
    <3>2. CASE hnd' = [hnd EXCEPT ![u] = [hnd[u] EXCEPT !.got = hnd[u].got + 1]]
      <4>1. hnd'[u].pc = hnd[u].pc /\ hnd'[u].ino = hnd[u].ino
            /\ \A v \in Attempts : v # u => hnd'[v] = hnd[v]
        BY <1>t, <3>2 DEF Handlers
      <4> QED BY <4>1
    <3>3. CASE hnd' = [hnd EXCEPT ![u] = Gone]
      BY <1>g, <3>3
    <3> QED BY <1>6, <3>1, <3>2, <3>3 DEF WritesFile
  <2>3. \A s \in Songs, i \in 1 .. Slots : Unshared(s) /\ folder[NameOf[s]][i] # NoAttempt =>
          data'[folder[NameOf[s]][i]] = Whole(s)
    <3>1. CASE UNCHANGED data
      BY <1>w, <3>1
    <3>2. ASSUME NEW n \in 1 .. Chunks, data' = [data EXCEPT ![hnd[u].ino][n] = <<SongOf[u], n>>],
                 NEW s \in Songs, Unshared(s), NEW f \in Attempts, Name(f) = NameOf[s],
                 data[f] = Whole(s)
          PROVE  data'[f] = Whole(s)
      <4>1. CASE f # hnd[u].ino
        BY <1>t, <3>2, <4>1
      <4>2. CASE f = hnd[u].ino
        <5>1. hnd[u].pc = "loop" /\ NameOf[SongOf[u]] = NameOf[s]
          BY <1>h, <1>6, <3>2, <4>2 DEF WritesFile, Name
        <5>2. SongOf[u] = s
          BY <3>2, <5>1, WritersSong
        <5>3. data'[f] = [Whole(s) EXCEPT ![n] = <<s, n>>]
          BY <1>t, <3>2, <4>2, <5>2
        <5>4. [Whole(s) EXCEPT ![n] = <<s, n>>] = Whole(s)
          BY DEF Whole
        <5> QED BY <5>3, <5>4
      <4> QED BY <4>1, <4>2
    <3>3. ASSUME NEW n \in 1 .. Chunks, data' = [data EXCEPT ![hnd[u].ino][n] = <<SongOf[u], n>>],
                 NEW s \in Songs, NEW i \in 1 .. Slots, Unshared(s), folder[NameOf[s]][i] # NoAttempt
          PROVE  data'[folder[NameOf[s]][i]] = Whole(s)
      <4>1. folder[NameOf[s]][i] \in Attempts /\ Name(folder[NameOf[s]][i]) = NameOf[s]
        BY <1>t, <1>f, <3>3
      <4>2. data[folder[NameOf[s]][i]] = Whole(s)
        BY <1>w, <3>3
      <4> QED BY <3>2, <3>3, <4>1, <4>2
    <3> QED BY <1>6, <3>1, <3>3 DEF WritesFile
  <2>4. folder' = folder
    BY <1>6 DEF WritesFile
  <2> QED BY <1>0, <2>1, <2>2, <2>3, <2>4
<1>7. ASSUME NEW u \in Attempts, RenamesFile(u) PROVE FilesInv'
  <2> DEFINE n == Name(u)
             i == hnd[u].slot
             f == part[n][i]
  <2>1. /\ n \in Names /\ i \in 1 .. Slots /\ f # NoAttempt /\ data[f] = Whole(SongOf[u])
        /\ folder' = [folder EXCEPT ![n][i] = f] /\ part' = [part EXCEPT ![n][i] = NoAttempt]
        /\ hnd' = [hnd EXCEPT ![u] = Gone] /\ data' = data /\ hnd[u].pc = "loop"
        /\ n = NameOf[SongOf[u]]
    BY <1>t, <1>7 DEF RenamesFile, Name
  <2>2. /\ f \in Attempts /\ Name(f) = n /\ hnd[f].pc \in {"loop", "ended"}
        /\ \A m \in Names, j \in 1 .. Slots : part[m][j] = f => m = n /\ j = i
    BY <1>p, <2>1
  <2> HIDE DEF n, i, f
  <2>3. \A m \in Names, j \in 1 .. Slots :
          folder'[m][j] = IF m = n /\ j = i THEN f ELSE folder[m][j]
    BY <1>t, <2>1
  <2>4. \A m \in Names, j \in 1 .. Slots : part'[m][j] # NoAttempt =>
          part'[m][j] = part[m][j] /\ part'[m][j] # f
    <3>1. \A m \in Names, j \in 1 .. Slots :
            part'[m][j] = IF m = n /\ j = i THEN NoAttempt ELSE part[m][j]
      BY <1>t, <2>1
    <3> QED BY <2>2, <3>1
  <2>5. /\ \A v \in Attempts : hnd[v].pc \in {"loop", "ended"} => hnd'[v].pc \in {"loop", "ended"}
        /\ \A v \in Attempts : hnd'[v].pc = "loop" => hnd'[v] = hnd[v]
    BY <1>g, <2>1
  <2>6. ASSUME NEW m \in Names, NEW j \in 1 .. Slots, part'[m][j] # NoAttempt
        PROVE  /\ Name(part'[m][j]) = m /\ hnd'[part'[m][j]].pc \in {"loop", "ended"}
               /\ \A r \in Names, k \in 1 .. Slots :
                    /\ folder'[r][k] # part'[m][j]
                    /\ part'[r][k] = part'[m][j] => r = m /\ k = j
    BY <1>p, <2>3, <2>4, <2>5, <2>6
  <2>7. ASSUME NEW m \in Names, NEW j \in 1 .. Slots, folder'[m][j] # NoAttempt
        PROVE  Name(folder'[m][j]) = m /\ hnd'[folder'[m][j]].pc \in {"loop", "ended"}
    BY <1>f, <2>2, <2>3, <2>5, <2>7
  <2>8. \A v \in Attempts : hnd'[v].pc = "loop" => hnd'[v].ino \in Attempts /\ Name(hnd'[v].ino) = Name(v)
    BY <1>h, <2>5
  <2>9. ASSUME NEW s \in Songs, NEW j \in 1 .. Slots, Unshared(s)', folder'[NameOf[s]][j] # NoAttempt
        PROVE  data'[folder'[NameOf[s]][j]] = Whole(s)
    <3>1. CASE NameOf[s] = n /\ j = i
      <4>1. SongOf[u] = s
        BY <1>u, <2>1, <2>9, <3>1, WritersSong
      <4>2. folder'[NameOf[s]][j] = f
        BY <2>1, <2>3, <3>1
      <4> QED BY <2>1, <4>1, <4>2
    <3>2. CASE ~(NameOf[s] = n /\ j = i)
      <4>1. folder'[NameOf[s]][j] = folder[NameOf[s]][j]
        BY <1>t, <2>3, <3>2
      <4> QED BY <1>u, <1>w, <2>1, <2>9, <4>1
    <3> QED BY <3>1, <3>2
  <2> QED BY <2>6, <2>7, <2>8, <2>9 DEF FilesInv, Name
<1>8. ASSUME NEW u \in Attempts, OpensFile(u) PROVE FilesInv'
  <2> DEFINE n == Name(u)
  <2>1. PICK i \in 1 .. Slots, f \in Attempts :
          /\ f = IF part[n][i] = NoAttempt THEN u ELSE part[n][i]
          /\ data' = [data EXCEPT ![f] = Blank]
          /\ \/ /\ hnd' = [hnd EXCEPT ![u] = [hnd[u] EXCEPT !.pc = "loop", !.slot = i, !.ino = f]]
                /\ part' = [part EXCEPT ![n][i] = f]
             \/ /\ hnd' = [hnd EXCEPT ![u] = Gone]
                /\ part' = [part EXCEPT ![n][i] = NoAttempt]
    BY <1>8 DEF OpensFile
  <2>2. n \in Names /\ hnd[u].pc = "req" /\ folder' = folder
    BY <1>t, <1>8 DEF OpensFile
  <2>n. n = Name(u)
    OBVIOUS
  <2> HIDE DEF n
  <2>3. Name(f) = n /\ (f = u \/ hnd[f].pc \in {"loop", "ended"})
    BY <1>p, <2>1, <2>2, <2>n
  <2>4. \A m \in Names, j \in 1 .. Slots :
          /\ folder[m][j] # f
          /\ part[m][j] = f => m = n /\ j = i
    <3>1. CASE part[n][i] = NoAttempt
      <4>1. f = u /\ hnd[u].pc \notin {"loop", "ended"}
        BY <2>1, <2>2, <3>1
      <4> QED BY <1>t, <1>p, <1>f, <4>1
    <3>2. CASE part[n][i] # NoAttempt
      BY <1>p, <2>1, <2>2, <3>2
    <3> QED BY <3>1, <3>2
  <2>5. /\ \A v \in Attempts : hnd[v].pc \in {"loop", "ended"} => hnd'[v].pc \in {"loop", "ended"}
        /\ hnd'[u].pc \in {"loop", "ended"}
        /\ \A v \in Attempts : hnd'[v].pc = "loop" => hnd'[v] = hnd[v] \/ (v = u /\ hnd'[v].ino = f)
    <3>1. CASE hnd' = [hnd EXCEPT ![u] = Gone]
      BY <1>g, <3>1
    <3>2. CASE hnd' = [hnd EXCEPT ![u] = [hnd[u] EXCEPT !.pc = "loop", !.slot = i, !.ino = f]]
      <4>1. hnd'[u].pc = "loop" /\ hnd'[u].ino = f /\ \A v \in Attempts : v # u => hnd'[v] = hnd[v]
        BY <1>t, <3>2 DEF Handlers
      <4> QED BY <4>1
    <3> QED BY <2>1, <3>1, <3>2
  <2>6. \A m \in Names, j \in 1 .. Slots : part'[m][j] # NoAttempt =>
          part'[m][j] = part[m][j] \/ (m = n /\ j = i /\ part'[m][j] = f)
    BY <1>t, <2>1, <2>2
  <2>7. ASSUME NEW m \in Names, NEW j \in 1 .. Slots, part'[m][j] # NoAttempt
        PROVE  /\ Name(part'[m][j]) = m /\ hnd'[part'[m][j]].pc \in {"loop", "ended"}
               /\ \A r \in Names, k \in 1 .. Slots :
                    /\ folder'[r][k] # part'[m][j]
                    /\ part'[r][k] = part'[m][j] => r = m /\ k = j
    <3>1. CASE m = n /\ j = i /\ part'[m][j] = f
      <4>1. Name(f) = m /\ hnd'[f].pc \in {"loop", "ended"}
        BY <2>3, <2>5, <3>1
      <4>2. ASSUME NEW r \in Names, NEW k \in 1 .. Slots
            PROVE  folder'[r][k] # f /\ (part'[r][k] = f => r = n /\ k = i)
        <5>1. f # NoAttempt
          BY <1>t
        <5> QED BY <2>2, <2>4, <2>6, <5>1
      <4> QED BY <3>1, <4>1, <4>2
    <3>2. CASE part'[m][j] = part[m][j]
      BY <1>p, <2>2, <2>4, <2>5, <2>6, <2>7, <3>2
    <3> QED BY <2>6, <2>7, <3>1, <3>2
  <2>8. ASSUME NEW m \in Names, NEW j \in 1 .. Slots, folder'[m][j] # NoAttempt
        PROVE  Name(folder'[m][j]) = m /\ hnd'[folder'[m][j]].pc \in {"loop", "ended"}
    BY <1>f, <2>2, <2>5, <2>8
  <2>9. \A v \in Attempts : hnd'[v].pc = "loop" => hnd'[v].ino \in Attempts /\ Name(hnd'[v].ino) = Name(v)
    BY <1>h, <2>3, <2>5, <2>n
  <2>10. ASSUME NEW s \in Songs, NEW j \in 1 .. Slots, Unshared(s)', folder'[NameOf[s]][j] # NoAttempt
         PROVE  data'[folder'[NameOf[s]][j]] = Whole(s)
    <3>1. folder[NameOf[s]][j] \in Attempts /\ folder[NameOf[s]][j] # f
      BY <1>t, <1>f, <2>2, <2>4, <2>10
    <3>2. data'[folder[NameOf[s]][j]] = data[folder[NameOf[s]][j]]
      BY <1>t, <2>1, <3>1
    <3>3. data[folder[NameOf[s]][j]] = Whole(s)
      BY <1>u, <1>w, <2>2, <2>10
    <3> QED BY <2>2, <3>2, <3>3
  <2> QED BY <2>7, <2>8, <2>9, <2>10 DEF FilesInv, Name
<1> QED BY <1>1, <1>2, <1>3, <1>4, <1>5, <1>6, <1>7, <1>8, Steps

(***************************************************************************)
(* On the desktop nothing but whole, verified songs is in the download     *)
(* folder under a final name, and that stays so, whichever handlers share  *)
(* the .part files of _handle_connection(), for a song whose file name no  *)
(* other song has that has been asked for.                                 *)
(***************************************************************************)
THEOREM FolderStaysSound == Spec => []FolderIsSound
<1>1. Init => HostedInv /\ ExchangeInv /\ FilesInv
  BY ExchangeInit, FilesInit
<1>2. Inv /\ HostedInv /\ ExchangeInv /\ FilesInv /\ [Next]_vars => (HostedInv /\ ExchangeInv /\ FilesInv)'
  BY HostedStep, ExchangeStep, FilesStep DEF Inv, SafeInv
<1>3. FilesInv => FolderIsSound
  BY DEF FilesInv, FolderIsSound
<1> QED BY <1>1, <1>2, <1>3, InvAlways, PTL DEF Spec

=============================================================================
