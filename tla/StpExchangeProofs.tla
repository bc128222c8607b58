------------------------- MODULE StpExchangeProofs -------------------------
(***************************************************************************)
(* The sender reads an acknowledgement without looking at its chunk_id.    *)
(* Why this is right as long as no timeout strikes, for every file, every  *)
(* number of retries, and any damage, edit or reset.                       *)
(***************************************************************************)
EXTENDS StpTransferProofs

USE StpAssumption

None(s, types)   == \A i \in DOMAIN s : s[i].type \notin types
Single(s, types) == \A i, j \in DOMAIN s : s[i].type \in types /\ s[j].type \in types => i = j

Answers == {"ACK", "NACK"}
Stored(c) == chunks[c] # NoData

OnlyChunk(s, c) == \A i \in DOMAIN s : s[i].type = "DATA" => s[i].id = c
NoChunkCount(s) == \A i \in DOMAIN s : s[i].type = "ACCEPT" => s[i].total = 0
Opening(s) ==
  /\ DOMAIN s \subseteq {1}
  /\ \A i \in DOMAIN s : \/ s[i].type = "REQ" /\ rResume = 0
                         \/ s[i].type = "RESUME" /\ s[i].from = rResume /\ rResume > 0

(***************************************************************************)
(* The opening: one request, one answer to it.  Nothing else can be on the *)
(* wire before the sender has answered.                                    *)
(***************************************************************************)
Handshake ==
  /\ rPc = "idle" => DOMAIN toS = {} /\ sPc \in {"idle", "recvReq", "ended"}
  /\ sPc \in {"idle", "recvReq"} =>
       rPc \in {"idle", "accept", "ended"} /\ None(toR, {"ACCEPT"}) /\ Opening(toS)
  /\ sPc \in {"ready", "send", "wait", "end"} => None(toS, {"REQ"})
  /\ sPc = "ready" => sResume = rResume

(***************************************************************************)
(* A resumed transfer dies in the receiver's assembler: no chunk of it is  *)
(* ever answered.                                                          *)
(***************************************************************************)
ResumeFails ==
  rResume > 0 =>
    /\ rPc \in {"idle", "accept", "ended"}
    /\ None(toS, Answers)
    /\ NoChunkCount(toR)
    /\ sPc # "end" /\ sState # "COMPLETED"

(***************************************************************************)
(* Stop-and-wait: a chunk or the answer to it is under way, never both,    *)
(* and it is the chunk the sender waits for.                               *)
(***************************************************************************)
Outstanding ==
  /\ Single(toR, {"DATA"}) /\ Single(toS, Answers)
  /\ None(toR, {"DATA"}) \/ None(toS, Answers)
  /\ OnlyChunk(toR, next)
  /\ None(toS, {"ACK"}) \/ Stored(next)

Exchange ==
  used["timeout"] = 0 /\ rResume = 0 =>
    /\ sPc \in {"idle", "recvReq", "ready", "send", "end"} => None(toR, {"DATA"}) /\ None(toS, Answers)
    /\ sPc = "wait" => Outstanding
    /\ sPc \in {"send", "wait", "end"} => \A c \in ChunkIds : c < next => Stored(c)
    /\ sPc = "end" => next >= NumChunks
    /\ sState = "COMPLETED" => \A c \in ChunkIds : Stored(c)

ExchangeInv == TypeInv /\ Handshake /\ ResumeFails /\ Exchange

-----------------------------------------------------------------------------
(***************************************************************************)
(* What a channel keeps when frames are read from its front, lost at its   *)
(* end, or damaged in between.                                             *)
(***************************************************************************)
Alike(a, b) == a = b \/ (a.type = "DATA" /\ b.type = "DATA" /\ a.id = b.id)
Fewer(t, s) == \E k \in Nat : \A i \in DOMAIN t : i + k \in DOMAIN s /\ Alike(t[i], s[i + k])

LEMMA FewerFrames ==
  ASSUME NEW S, NEW s \in Seq(S)
  PROVE  /\ Fewer(s, s)
         /\ s # <<>> => Fewer(Tail(s), s)
         /\ \A n \in 0 .. Len(s) : Fewer(SubSeq(s, 1, n), s)
<1> USE DEF Fewer, Alike
<1>1. Len(s) \in Nat /\ DOMAIN s = 1 .. Len(s)
  BY LenProperties
<1>2. Fewer(s, s)
  <2>1. \A i \in DOMAIN s : i + 0 = i
    BY <1>1
  <2> QED BY <2>1
<1>3. ASSUME s # <<>> PROVE Fewer(Tail(s), s)
  <2>1. /\ Tail(s) \in Seq(S) /\ Len(Tail(s)) = Len(s) - 1
        /\ \A k \in 1 .. Len(Tail(s)) : Tail(s)[k] = s[k+1]
    BY <1>3, HeadTailProperties
  <2>2. \A i \in DOMAIN Tail(s) : i + 1 \in DOMAIN s /\ Tail(s)[i] = s[i + 1]
    BY <2>1, <1>1, LenProperties
  <2> QED BY <2>2
<1>4. ASSUME NEW n \in 0 .. Len(s) PROVE Fewer(SubSeq(s, 1, n), s)
  <2>1. \A j \in 1 .. n : s[j] \in S
    BY <1>1, ElementOfSeq
  <2>2. /\ SubSeq(s, 1, n) \in Seq(S) /\ Len(SubSeq(s, 1, n)) = n
        /\ \A k \in 1 .. n : SubSeq(s, 1, n)[k] = s[k]
    BY <2>1, <1>1, SubSeqProperties
  <2>3. \A i \in DOMAIN SubSeq(s, 1, n) : i + 0 \in DOMAIN s /\ SubSeq(s, 1, n)[i] = s[i + 0]
    BY <2>2, <1>1, LenProperties
  <2> QED BY <2>3
<1> QED BY <1>2, <1>3, <1>4

LEMMA FewerKeeps ==
  ASSUME NEW S, NEW s \in Seq(S), NEW T, NEW t \in Seq(T), Fewer(t, s)
  PROVE  /\ \A types : None(s, types) => None(t, types)
         /\ \A types : Single(s, types) => Single(t, types)
         /\ \A c : OnlyChunk(s, c) => OnlyChunk(t, c)
         /\ NoChunkCount(s) => NoChunkCount(t)
         /\ Opening(s) => Opening(t)
         /\ DOMAIN s = {} => DOMAIN t = {}
<1>1. PICK k \in Nat : \A i \in DOMAIN t : i + k \in DOMAIN s /\ Alike(t[i], s[i + k])
  BY DEF Fewer
<1>2. \A i \in DOMAIN t : i \in Nat /\ i >= 1
  BY LenProperties
<1>3. \A i \in DOMAIN t : t[i].type = s[i + k].type
  BY <1>1 DEF Alike
<1>4. \A types : None(s, types) => None(t, types)
  BY <1>1, <1>3 DEF None
<1>5. \A types : Single(s, types) => Single(t, types)
  <2> SUFFICES ASSUME NEW types, Single(s, types), NEW i \in DOMAIN t, NEW j \in DOMAIN t,
                      t[i].type \in types, t[j].type \in types
               PROVE  i = j
    BY DEF Single
  <2>1. i + k = j + k
    BY <1>1, <1>3 DEF Single
  <2> QED BY <2>1, <1>2
<1>6. \A c : OnlyChunk(s, c) => OnlyChunk(t, c)
  BY <1>1 DEF OnlyChunk, Alike
<1>7. NoChunkCount(s) => NoChunkCount(t)
  <2> SUFFICES ASSUME NoChunkCount(s), NEW i \in DOMAIN t, t[i].type = "ACCEPT"
               PROVE  t[i].total = 0
    BY DEF NoChunkCount
  <2>1. t[i] = s[i + k] /\ i + k \in DOMAIN s
    BY <1>1 DEF Alike
  <2> QED BY <2>1 DEF NoChunkCount
<1>8. Opening(s) => Opening(t)
  <2> SUFFICES ASSUME Opening(s), NEW i \in DOMAIN t
               PROVE  /\ i = 1
                      /\ \/ t[i].type = "REQ" /\ rResume = 0
                         \/ t[i].type = "RESUME" /\ t[i].from = rResume /\ rResume > 0
    BY DEF Opening
  <2>1. i + k = 1 /\ s[i + k].type # "DATA"
    BY <1>1 DEF Opening
  <2>2. t[i] = s[i + k]
    BY <1>1, <2>1 DEF Alike
  <2> QED BY <2>1, <2>2, <1>1, <1>2 DEF Opening
<1>9. DOMAIN s = {} => DOMAIN t = {}
  BY <1>1
<1> QED BY <1>4, <1>5, <1>6, <1>7, <1>8, <1>9

LEMMA AppendedFrame ==
  ASSUME NEW S, NEW s \in Seq(S), NEW m \in S
  PROVE  /\ \A types : None(s, types) /\ m.type \notin types => None(Append(s, m), types)
         /\ \A types : Single(s, types) /\ m.type \notin types => Single(Append(s, m), types)
         /\ \A types : None(s, types) => Single(Append(s, m), types)
         /\ \A c : OnlyChunk(s, c) /\ m.type # "DATA" => OnlyChunk(Append(s, m), c)
         /\ NoChunkCount(s) /\ (m.type = "ACCEPT" => m.total = 0) => NoChunkCount(Append(s, m))
<1> DEFINE t == Append(s, m)
<1>1. /\ Len(s) \in Nat /\ DOMAIN s = 1 .. Len(s) /\ DOMAIN t = 1 .. Len(s) + 1
      /\ \A i \in 1 .. Len(s) : t[i] = s[i]
      /\ t[Len(s) + 1] = m
  BY AppendProperties, LenProperties
<1>2. \A i \in DOMAIN t : \/ i \in DOMAIN s /\ t[i] = s[i]
                          \/ i = Len(s) + 1 /\ t[i] = m
  BY <1>1
<1> HIDE DEF t
<1>3. \A types : None(s, types) /\ m.type \notin types => None(t, types)
  BY <1>2 DEF None
<1>4. \A types : Single(s, types) /\ m.type \notin types => Single(t, types)
  BY <1>2 DEF Single
<1>5. \A types : None(s, types) => Single(t, types)
  BY <1>2 DEF None, Single
<1>6. \A c : OnlyChunk(s, c) /\ m.type # "DATA" => OnlyChunk(t, c)
  BY <1>2 DEF OnlyChunk
<1>7. NoChunkCount(s) /\ (m.type = "ACCEPT" => m.total = 0) => NoChunkCount(t)
  BY <1>2 DEF NoChunkCount
<1> QED BY <1>3, <1>4, <1>5, <1>6, <1>7 DEF t

LEMMA HeadFrame ==
  ASSUME NEW S, NEW s \in Seq(S), s # <<>>
  PROVE  /\ \A types : Head(s).type \in types => ~None(s, types)
         /\ \A types : Single(s, types) /\ Head(s).type \in types => None(Tail(s), types)
         /\ Opening(s) => /\ \A types : None(Tail(s), types)
                          /\ \/ Head(s).type = "REQ" /\ rResume = 0
                             \/ Head(s).type = "RESUME" /\ Head(s).from = rResume /\ rResume > 0
         /\ \A c : OnlyChunk(s, c) /\ Head(s).type = "DATA" => Head(s).id = c
         /\ NoChunkCount(s) /\ Head(s).type = "ACCEPT" => Head(s).total = 0
<1>1. /\ Len(s) \in Nat /\ DOMAIN s = 1 .. Len(s) /\ 1 \in DOMAIN s /\ Head(s) = s[1]
      /\ DOMAIN Tail(s) = 1 .. Len(s) - 1
      /\ \A k \in 1 .. Len(s) - 1 : Tail(s)[k] = s[k+1]
  BY HeadTailProperties, LenProperties, EmptySeq
<1>2. \A k \in DOMAIN Tail(s) : Tail(s)[k] = s[k+1] /\ k + 1 \in DOMAIN s /\ k + 1 # 1
  BY <1>1
<1>3. \A types : Head(s).type \in types => ~None(s, types)
  BY <1>1 DEF None
<1>4. \A types : Single(s, types) /\ Head(s).type \in types => None(Tail(s), types)
  BY <1>1, <1>2 DEF Single, None
<1>5. Opening(s) => \A types : None(Tail(s), types)
  BY <1>2 DEF Opening, None
<1>6. Opening(s) => \/ Head(s).type = "REQ" /\ rResume = 0
                    \/ Head(s).type = "RESUME" /\ Head(s).from = rResume /\ rResume > 0
  BY <1>1 DEF Opening
<1>7. \A c : OnlyChunk(s, c) /\ Head(s).type = "DATA" => Head(s).id = c
  BY <1>1 DEF OnlyChunk
<1>8. NoChunkCount(s) /\ Head(s).type = "ACCEPT" => Head(s).total = 0
  BY <1>1 DEF NoChunkCount
<1> QED BY <1>3, <1>4, <1>5, <1>6, <1>7, <1>8

-----------------------------------------------------------------------------
(***************************************************************************)
(* Timeouts are never taken back.                                          *)
(***************************************************************************)
LEMMA TimeoutsStay ==
  ASSUME TypeInv, [Next]_vars
  PROVE  used["timeout"] # 0 => used'["timeout"] # 0
<1>1. used \in [Faults -> Nat] /\ "timeout" \in Faults
  BY DEF TypeInv, TypeOK, Faults
<1>2. \A k \in Faults : Spend(k) => (used["timeout"] # 0 => used'["timeout"] # 0)
  BY <1>1 DEF Spend
<1>3. UNCHANGED used \/ \E k \in Faults : Spend(k)
  <2>1. {"timeout", "corrupt", "edit", "reset", "resume", "unlink"} \subseteq Faults
    BY DEF Faults
  <2> QED
    BY <2>1 DEF Next, SenderStep, ReceiverStep, NetworkStep, Stop, vars,
     SenderListen, SenderAccept, SenderRefuse, SenderHandshakeRaises, SenderStartFile,
     SenderTransmit, SenderGetAck, SenderGetNack, SenderGetResume, SenderGetFail, SenderGetTorn,
     SenderTimeout, SenderFinish, SenderAbort, SenderClose, ReceiverInitiate, ReceiverAccepted,
     ReceiverAssemblerRaises, ReceiverRefused, ReceiverHandshakeRaises, ReceiverStartLoop,
     ReceiverStoreChunk, ReceiverChunkOutOfRange, ReceiverNackChunk, ReceiverGiveUpChunk,
     ReceiverEndIncomplete, ReceiverWriteFile, ReceiverVerifyFile, ReceiverLoopFails,
     ReceiverRequestResume, ReceiverClose, CorruptChunk, Reset, ResetByClosed, EditSource
<1> QED BY <1>2, <1>3

(***************************************************************************)
(* Steps that take part in the exchange of no chunk: those that only read  *)
(* or lose frames, and those of a receiver that ends or goes on to verify. *)
(***************************************************************************)
Bystanding ==
  /\ UNCHANGED <<sPc, sState, sResume, next, rResume, chunks>>
  /\ Fewer(toR', toR)
  /\ \/ Fewer(toS', toS)
     \/ /\ rPc \in {"ready", "loop"}
        /\ \E m \in ToSender : toS' = Append(toS, m) /\ m.type \in {"FAIL", "RESUME"}
  /\ \/ rPc' \in {rPc, "ended"}
     \/ rPc \in {"ready", "loop"} /\ rPc' \in {"loop", "verify"}

LEMMA BystandingKeeps ==
  ASSUME ExchangeInv, TypeOK', used["timeout"] # 0 => used'["timeout"] # 0, Bystanding
  PROVE  Handshake' /\ ResumeFails' /\ Exchange'
<1> USE DEF Bystanding
<1>t. /\ toR \in Seq(ToReceiver) /\ toR' \in Seq(ToReceiver)
      /\ toS \in Seq(ToSender) /\ toS' \in Seq(ToSender)
  BY DEF ExchangeInv, TypeInv, TypeOK
<1>1. /\ \A types : None(toR, types) => None(toR', types)
      /\ \A types : Single(toR, types) => Single(toR', types)
      /\ \A c : OnlyChunk(toR, c) => OnlyChunk(toR', c)
      /\ NoChunkCount(toR) => NoChunkCount(toR')
  BY <1>t, FewerKeeps
<1>2. /\ \A types : /\ "FAIL" \notin types /\ "RESUME" \notin types
                    => /\ None(toS, types) => None(toS', types)
                       /\ Single(toS, types) => Single(toS', types)
  <2>1. CASE Fewer(toS', toS)
    BY <1>t, <2>1, FewerKeeps
  <2>2. CASE \E m \in ToSender : toS' = Append(toS, m) /\ m.type \in {"FAIL", "RESUME"}
    BY <1>t, <2>2, AppendedFrame
  <2> QED BY <2>1, <2>2
<1>3. /\ None(toS, Answers) => None(toS', Answers)
      /\ None(toS, {"REQ"}) => None(toS', {"REQ"})
      /\ None(toS, {"ACK"}) => None(toS', {"ACK"})
      /\ Single(toS, Answers) => Single(toS', Answers)
  BY <1>2 DEF Answers
<1>4. /\ sPc \in {"idle", "recvReq"} /\ Opening(toS) => Opening(toS')
      /\ rPc = "idle" /\ DOMAIN toS = {} => DOMAIN toS' = {}
  BY <1>t, FewerKeeps DEF ExchangeInv, Handshake
<1>5. Opening(toS)' <=> Opening(toS')
  BY DEF Opening
<1>6. Handshake'
  BY <1>1, <1>3, <1>4, <1>5 DEF ExchangeInv, Handshake
<1>7. ResumeFails'
  BY <1>1, <1>3 DEF ExchangeInv, ResumeFails
<1>8. Outstanding => Outstanding'
  BY <1>1, <1>3 DEF Outstanding, Stored
<1>9. Exchange'
  BY <1>1, <1>3, <1>8 DEF ExchangeInv, Exchange, Stored
<1> QED BY <1>6, <1>7, <1>9

(***************************************************************************)
(* A sender that gives up leaves the exchange.                             *)
(***************************************************************************)
Quitting ==
  /\ UNCHANGED <<rPc, rResume, chunks>>
  /\ sPc' = "ended" \/ (sPc = "wait" /\ sPc' = "abort")
  /\ sState' \in {sState, "FAILED"}
  /\ \/ Fewer(toR', toR)
     \/ \E m \in ToReceiver : toR' = Append(toR, m) /\ m.type = "FAIL"
  /\ Fewer(toS', toS)

LEMMA QuittingKeeps ==
  ASSUME ExchangeInv, TypeOK', used["timeout"] # 0 => used'["timeout"] # 0, Quitting
  PROVE  Handshake' /\ ResumeFails' /\ Exchange'
<1> USE DEF Quitting
<1>t. /\ toR \in Seq(ToReceiver) /\ toR' \in Seq(ToReceiver)
      /\ toS \in Seq(ToSender) /\ toS' \in Seq(ToSender)
  BY DEF ExchangeInv, TypeInv, TypeOK
<1>1. NoChunkCount(toR) => NoChunkCount(toR')
  <2>1. CASE Fewer(toR', toR)
    BY <1>t, <2>1, FewerKeeps
  <2>2. CASE \E m \in ToReceiver : toR' = Append(toR, m) /\ m.type = "FAIL"
    BY <1>t, <2>2, AppendedFrame
  <2> QED BY <2>1, <2>2
<1>2. /\ None(toS, Answers) => None(toS', Answers)
      /\ DOMAIN toS = {} => DOMAIN toS' = {}
  BY <1>t, FewerKeeps
<1>3. Handshake'
  BY <1>2 DEF ExchangeInv, Handshake
<1>4. ResumeFails'
  BY <1>1, <1>2 DEF ExchangeInv, ResumeFails
<1>5. Exchange'
  BY DEF ExchangeInv, Exchange, Stored
<1> QED BY <1>3, <1>4, <1>5

-----------------------------------------------------------------------------
(***************************************************************************)
(* Every step is a bystander's, a sender's that quits, or one of the ten   *)
(* that move a request, a chunk or an answer.                              *)
(***************************************************************************)
Moving ==
  \/ SenderListen \/ SenderAccept \/ SenderStartFile \/ SenderTransmit \/ SenderGetAck
  \/ SenderGetNack \/ SenderTimeout \/ SenderFinish
  \/ ReceiverInitiate \/ ReceiverAccepted \/ ReceiverStoreChunk \/ ReceiverNackChunk

LEMMA StepKinds ==
  ASSUME TypeInv, [Next]_vars
  PROVE  Bystanding \/ Quitting \/ Moving
<1> USE DEF vars, sVars, rVars, netVars
<1>t. toR \in Seq(ToReceiver) /\ toS \in Seq(ToSender)
  BY DEF TypeInv, TypeOK
<1>r. /\ toR' = toR => Fewer(toR', toR)
      /\ toR # <<>> /\ toR' = Tail(toR) => Fewer(toR', toR)
  BY <1>t, FewerFrames
<1>s. /\ toS' = toS => Fewer(toS', toS)
      /\ toS # <<>> /\ toS' = Tail(toS) => Fewer(toS', toS)
  BY <1>t, FewerFrames
<1>f. /\ Fail \in ToReceiver /\ Fail \in ToSender /\ Fail.type = "FAIL"
      /\ \A n \in Nat : /\ [type |-> "RESUME", token |-> rToken, from |-> n] \in ToSender
                        /\ [type |-> "RESUME", token |-> rToken, from |-> n].type = "RESUME"
  BY IntoFrames DEF Fail, TypeInv, TypeOK
<1>l. LoseTails => Fewer(toR', toR) /\ Fewer(toS', toS)
  <2> SUFFICES ASSUME LoseTails PROVE Fewer(toR', toR) /\ Fewer(toS', toS)
    OBVIOUS
  <2>1. PICK n \in 0 .. Len(toR) : toR' = SubSeq(toR, 1, n)
    BY <1>t, LenProperties DEF LoseTails, HeadRead
  <2>2. PICK k \in 0 .. Len(toS) : toS' = SubSeq(toS, 1, k)
    BY DEF LoseTails
  <2> QED BY <2>1, <2>2, <1>t, FewerFrames
<1>1. ASSUME SenderRefuse \/ SenderHandshakeRaises \/ SenderGetResume \/ SenderGetFail
             \/ SenderGetTorn \/ SenderAbort
      PROVE  Quitting
  <2>1. CASE SenderRefuse
    BY <2>1, <1>r, <1>s, <1>f DEF SenderRefuse, Quitting
  <2>2. CASE SenderHandshakeRaises
    BY <2>2, <1>r, <1>s DEF SenderHandshakeRaises, Quitting
  <2>3. CASE SenderGetResume \/ SenderGetFail \/ SenderGetTorn
    BY <2>3, <1>r, <1>s DEF SenderGetResume, SenderGetFail, SenderGetTorn, Quitting
  <2>4. CASE SenderAbort
    BY <2>4, <1>r, <1>s, <1>f DEF SenderAbort, ToRIfUp, Quitting
  <2> QED BY <1>1, <2>1, <2>2, <2>3, <2>4
<1>2. ASSUME ReceiverAssemblerRaises \/ ReceiverRefused \/ ReceiverHandshakeRaises
             \/ ReceiverStartLoop \/ ReceiverChunkOutOfRange \/ ReceiverEndIncomplete
             \/ ReceiverWriteFile \/ ReceiverVerifyFile \/ ReceiverLoopFails
      PROVE  Bystanding
  <2>1. CASE ReceiverAssemblerRaises \/ ReceiverRefused
    BY <2>1, <1>r, <1>s DEF ReceiverAssemblerRaises, ReceiverRefused, Bystanding
  <2>2. CASE ReceiverHandshakeRaises \/ ReceiverStartLoop
    BY <2>2, <1>r, <1>s DEF ReceiverHandshakeRaises, ReceiverStartLoop, Bystanding
  <2>3. CASE ReceiverChunkOutOfRange \/ ReceiverEndIncomplete \/ ReceiverWriteFile
    BY <2>3, <1>r, <1>s DEF ReceiverChunkOutOfRange, ReceiverEndIncomplete, ReceiverWriteFile,
       ChunkArrives, EndArrives, Bystanding
  <2>4. CASE ReceiverVerifyFile
    BY <2>4, <1>r, <1>s DEF ReceiverVerifyFile, TypeInv, EndAtHand, Bystanding
  <2>5. CASE ReceiverLoopFails
    BY <2>5, <1>r, <1>s DEF ReceiverLoopFails, Bystanding
  <2> QED BY <1>2, <2>1, <2>2, <2>3, <2>4, <2>5
<1>3. ReceiverGiveUpChunk => Bystanding
  BY <1>r, <1>s, <1>f DEF ReceiverGiveUpChunk, ChunkArrives, Bystanding
<1>4. ReceiverRequestResume => Bystanding
  <2> SUFFICES ASSUME ReceiverRequestResume PROVE Bystanding
    OBVIOUS
  <2>1. PICK n \in Nat : toS' = Append(toS, [type |-> "RESUME", token |-> rToken, from |-> n])
    BY DEF ReceiverRequestResume
  <2> QED BY <2>1, <1>r, <1>f DEF ReceiverRequestResume, Bystanding
<1>5. CorruptChunk => Bystanding
  <2> SUFFICES ASSUME CorruptChunk PROVE Bystanding
    OBVIOUS
  <2>1. PICK i \in DOMAIN toR : /\ toR[i].type = "DATA"
                                /\ toR' = [toR EXCEPT ![i] = [toR[i] EXCEPT !.intact = FALSE]]
    BY DEF CorruptChunk
  <2>2. toR[i] \in DataFrame
    BY <1>t, <2>1, ChannelTypes DEF ToReceiver, AcceptFrame, EndFrame, FailFrame
  <2>3. Alike([toR[i] EXCEPT !.intact = FALSE], toR[i])
    BY <2>2 DEF Alike, DataFrame
  <2>4. \A j \in DOMAIN toR : j + 0 = j
    BY <1>t, LenProperties
  <2>5. \A j \in DOMAIN toR' : j + 0 \in DOMAIN toR /\ Alike(toR'[j], toR[j + 0])
    BY <2>1, <2>3, <2>4 DEF Alike
  <2>6. Fewer(toR', toR)
    BY <2>5 DEF Fewer
  <2> QED BY <2>6, <1>s DEF CorruptChunk, Bystanding
<1>6. Reset \/ ResetByClosed => Bystanding
  BY <1>l DEF Reset, ResetByClosed, LoseTails, Bystanding
<1>7. ASSUME SenderClose \/ ReceiverClose \/ EditSource \/ Stop \/ UNCHANGED vars
      PROVE  Bystanding
  BY <1>7, <1>r, <1>s DEF SenderClose, ReceiverClose, EditSource, Stop, Bystanding
<1> QED
  BY <1>1, <1>2, <1>3, <1>4, <1>5, <1>6, <1>7
  DEF Next, SenderStep, ReceiverStep, NetworkStep, Moving

(***************************************************************************)
(* The moves of the sender.                                                *)
(***************************************************************************)
LEMMA SenderMoves ==
  ASSUME ExchangeInv, TypeOK',
         \/ SenderListen \/ SenderAccept \/ SenderStartFile \/ SenderTransmit \/ SenderGetAck
         \/ SenderGetNack \/ SenderTimeout \/ SenderFinish
  PROVE  Handshake' /\ ResumeFails' /\ Exchange'
<1> USE DEF sVars, rVars, netVars
<1>t. /\ toR \in Seq(ToReceiver) /\ toS \in Seq(ToSender)
      /\ next \in Nat /\ rResume \in 0 .. NumChunks - 1 /\ NumChunks \in Nat \ {0}
  BY DEF ExchangeInv, TypeInv, TypeOK, ChunkIds
<1>o. UNCHANGED rResume => (Opening(toS)' <=> Opening(toS'))
  BY DEF Opening
<1>i. Handshake /\ ResumeFails /\ Exchange
  BY DEF ExchangeInv
<1>k. toS # <<>> => \A types : None(toS, types) => None(Tail(toS), types)
  BY <1>t, FewerFrames, FewerKeeps, ChannelTypes
<1>h. /\ toS # <<>> /\ Head(toS).type = "REQ" => ~None(toS, {"REQ"})
      /\ toS # <<>> /\ Head(toS).type \in Answers =>
           ~None(toS, Answers) /\ (Single(toS, Answers) => None(Tail(toS), Answers))
      /\ toS # <<>> /\ Head(toS).type = "ACK" => ~None(toS, {"ACK"})
  BY <1>t, HeadFrame
<1>1. CASE SenderListen
  <2> USE <1>1 DEF SenderListen
  <2>1. Handshake'
    BY <1>i, <1>o DEF Handshake
  <2>2. ResumeFails' /\ Exchange'
    BY <1>i DEF ResumeFails, Exchange, Stored
  <2> QED BY <2>1, <2>2
<1>2. CASE SenderAccept
  <2> USE <1>2 DEF SenderAccept
  <2> DEFINE n == IF Head(toS).type = "REQ" THEN Head(toS).total ELSE 0
             m == [type |-> "ACCEPT", token |-> SenderToken, total |-> n]
  <2>1. /\ toR' = Append(toR, m) /\ m \in ToReceiver /\ m.type = "ACCEPT" /\ m.total = n
    <3>1. n \in Nat
      BY <1>t, ChannelTypes, FromFrames
    <3> QED BY <3>1, IntoFrames
  <2>2. /\ \A types : None(toS', types)
        /\ \/ Head(toS).type = "REQ" /\ rResume = 0
           \/ Head(toS).type = "RESUME" /\ Head(toS).from = rResume /\ rResume > 0
    BY <1>t, <1>i, HeadFrame DEF Handshake
  <2>3. sResume' = rResume
    BY <2>2
  <2>4. rResume > 0 => n = 0
    BY <2>2
  <2> HIDE DEF n, m
  <2>5. /\ None(toR, {"DATA"}) => None(toR', {"DATA"})
        /\ rResume > 0 /\ NoChunkCount(toR) => NoChunkCount(toR')
    BY <1>t, <2>1, <2>4, AppendedFrame
  <2>6. rPc # "idle"
    <3>1. DOMAIN toS # {}
      BY <1>t, LenProperties, EmptySeq
    <3> QED BY <3>1, <1>i DEF Handshake
  <2>7. Handshake'
    BY <2>2, <2>3, <2>6 DEF Handshake
  <2>8. ResumeFails'
    BY <1>i, <2>2, <2>5 DEF ResumeFails
  <2>9. Exchange'
    BY <1>i, <2>2, <2>5 DEF Exchange, Stored
  <2> QED BY <2>7, <2>8, <2>9
<1>3. CASE SenderStartFile
  <2> USE <1>3 DEF SenderStartFile
  <2>1. next' = rResume /\ sPc' = "send"
    BY <1>t, <1>i DEF Handshake, GoToChunk
  <2>2. Handshake'
    BY <1>i, <2>1 DEF Handshake
  <2>3. ResumeFails'
    BY <1>i, <2>1 DEF ResumeFails
  <2>4. rResume = 0 => \A c \in ChunkIds : ~(c < next')
    BY <2>1 DEF ChunkIds
  <2>5. Exchange'
    BY <1>i, <2>1, <2>4 DEF Exchange
  <2> QED BY <2>2, <2>3, <2>5
<1>4. CASE SenderTransmit
  <2> USE <1>4 DEF SenderTransmit
  <2> DEFINE m == [type |-> "DATA", id |-> next, data |-> data, intact |-> TRUE]
  <2>1. m \in ToReceiver /\ toR' = Append(toR, m) /\ m.type = "DATA" /\ m.id = next
    BY IntoFrames DEF ExchangeInv, TypeInv, OnAChunk
  <2> HIDE DEF m
  <2>2. /\ None(toR, {"DATA"}) => Single(toR', {"DATA"}) /\ OnlyChunk(toR', next)
        /\ NoChunkCount(toR) => NoChunkCount(toR')
    <3>1. None(toR, {"DATA"}) => OnlyChunk(toR', next)
      <4>1. \A i \in DOMAIN toR' : toR'[i] = m \/ \E j \in DOMAIN toR : toR'[i] = toR[j]
        BY <1>t, <2>1, ElementsKept
      <4> QED BY <2>1, <4>1 DEF None, OnlyChunk
    <3> QED BY <1>t, <2>1, <3>1, AppendedFrame
  <2>3. None(toS, Answers) => Single(toS, Answers) /\ None(toS, {"ACK"})
    BY DEF None, Single, Answers
  <2>4. Handshake'
    BY <1>i DEF Handshake
  <2>5. ResumeFails'
    BY <1>i, <2>2 DEF ResumeFails
  <2>6. None(toR, {"DATA"}) /\ None(toS, Answers) => Outstanding'
    BY <2>2, <2>3 DEF Outstanding, Stored
  <2>7. Exchange'
    BY <1>i, <2>6 DEF Exchange, Stored
  <2> QED BY <2>4, <2>5, <2>7
<1>5. CASE SenderGetAck
  <2> USE <1>5 DEF SenderGetAck
  <2>1. /\ next' = next + 1 /\ sPc' \in {"send", "end"}
        /\ sPc' = "end" => next' >= NumChunks
    BY <1>t DEF GoToChunk
  <2>2. Handshake'
    BY <1>i, <1>k, <2>1 DEF Handshake
  <2>3. ~None(toS, Answers) /\ ~None(toS, {"ACK"}) /\ (Single(toS, Answers) => None(toS', Answers))
    BY <1>h DEF Answers
  <2>4. ResumeFails'
    BY <1>i, <2>3 DEF ResumeFails
  <2>5. Exchange'
    <3> SUFFICES ASSUME used["timeout"] = 0, rResume = 0
                 PROVE  /\ None(toR, {"DATA"}) /\ None(toS', Answers)
                        /\ \A c \in ChunkIds : c < next' => Stored(c)
                        /\ sState = "COMPLETED" => \A c \in ChunkIds : Stored(c)
      BY <2>1 DEF Exchange, Stored
    <3>1. Outstanding /\ \A c \in ChunkIds : c < next => Stored(c)
      BY <1>i DEF Exchange
    <3>2. None(toR, {"DATA"}) /\ None(toS', Answers) /\ Stored(next)
      BY <2>3, <3>1 DEF Outstanding
    <3>3. \A c \in ChunkIds : c < next' => c < next \/ c = next
      BY <1>t, <2>1 DEF ChunkIds
    <3>4. sState = "COMPLETED" => \A c \in ChunkIds : Stored(c)
      BY <1>i DEF Exchange
    <3> QED BY <3>1, <3>2, <3>3, <3>4
  <2> QED BY <2>2, <2>4, <2>5
<1>6. CASE SenderGetNack
  <2> USE <1>6 DEF SenderGetNack
  <2>1. sPc' \in {"send", "abort"}
    BY DEF NextAttempt
  <2>2. Head(toS).type \in Answers /\ rPc # "idle"
    BY <1>i, <1>h DEF Handshake, Answers
  <2>3. Handshake'
    BY <1>i, <1>k, <2>1, <2>2 DEF Handshake
  <2>4. ~None(toS, Answers) /\ (Single(toS, Answers) => None(toS', Answers))
    BY <1>h, <2>2
  <2>5. ResumeFails'
    BY <1>i, <2>4 DEF ResumeFails
  <2>6. Outstanding => None(toR, {"DATA"}) /\ None(toS', Answers)
    BY <2>4 DEF Outstanding
  <2>7. Exchange'
    BY <1>i, <2>1, <2>6 DEF Exchange, Stored
  <2> QED BY <2>3, <2>5, <2>7
<1>7. CASE SenderTimeout
  <2> USE <1>7 DEF SenderTimeout
  <2>1. sPc' \in {"send", "abort"} /\ rPc # "idle"
    BY <1>i DEF NextAttempt, Handshake
  <2>2. used'["timeout"] # 0
    BY DEF Spend, ExchangeInv, TypeInv, TypeOK, Faults
  <2>3. \A types : None(toS, types) /\ "TORN" \notin types => None(toS', types)
    BY <1>t, LenProperties DEF None, Torn
  <2>4. Handshake'
    BY <1>i, <2>1, <2>3 DEF Handshake
  <2>5. ResumeFails'
    BY <1>i, <2>1, <2>3 DEF ResumeFails, Answers
  <2>6. Exchange'
    BY <2>2 DEF Exchange
  <2> QED BY <2>4, <2>5, <2>6
<1>8. CASE SenderFinish
  <2> USE <1>8 DEF SenderFinish
  <2>1. rPc # "idle" /\ ~(rResume > 0)
    BY <1>i DEF Handshake, ResumeFails
  <2>2. Handshake' /\ ResumeFails'
    BY <2>1 DEF Handshake, ResumeFails
  <2>3. \A c \in ChunkIds : next >= NumChunks => c < next
    BY <1>t DEF ChunkIds
  <2>4. Exchange'
    BY <1>i, <2>3 DEF Exchange, Stored
  <2> QED BY <2>2, <2>4
<1> QED BY <1>1, <1>2, <1>3, <1>4, <1>5, <1>6, <1>7, <1>8

(***************************************************************************)
(* The moves of the receiver.                                              *)
(***************************************************************************)
LEMMA ReceiverMoves ==
  ASSUME ExchangeInv, TypeOK',
         ReceiverInitiate \/ ReceiverAccepted \/ ReceiverStoreChunk \/ ReceiverNackChunk
  PROVE  Handshake' /\ ResumeFails' /\ Exchange'
<1> USE DEF sVars, rVars, netVars
<1>t. /\ toR \in Seq(ToReceiver) /\ toS \in Seq(ToSender)
      /\ rResume \in 0 .. NumChunks - 1 /\ rToken \in Tokens
      /\ chunks \in [ChunkIds -> Blocks \union {NoData}]
  BY DEF ExchangeInv, TypeInv, TypeOK, ChunkIds
<1>i. Handshake /\ ResumeFails /\ Exchange
  BY DEF ExchangeInv
<1>k. toR # <<>> => /\ \A types : None(toR, types) => None(Tail(toR), types)
                    /\ NoChunkCount(toR) => NoChunkCount(Tail(toR))
                    /\ \A types : Single(toR, types) => Single(Tail(toR), types)
                    /\ \A c : OnlyChunk(toR, c) => OnlyChunk(Tail(toR), c)
  BY <1>t, FewerFrames, FewerKeeps, ChannelTypes
<1>1. CASE ReceiverInitiate
  <2> USE <1>1 DEF ReceiverInitiate
  <2>1. PICK m \in ToSender :
          /\ toS' = Append(toS, m)
          /\ \/ m.type = "REQ" /\ rResume = 0
             \/ m.type = "RESUME" /\ m.from = rResume /\ rResume > 0
    <3>1. CASE rResume > 0
      BY <1>t, <3>1, IntoFrames
    <3>2. CASE ~(rResume > 0)
      <4>1. PICK n \in Claims : toS' = Append(toS, [type |-> "REQ", token |-> rToken, total |-> n])
        BY <3>2
      <4> QED BY <1>t, <3>2, <4>1, IntoFrames
    <3> QED BY <3>1, <3>2
  <2>2. DOMAIN toS = {} /\ sPc \in {"idle", "recvReq", "ended"}
    BY <1>i DEF Handshake
  <2>3. Opening(toS)'
    <3>1. DOMAIN toS' = {1} /\ toS'[1] = m
      BY <1>t, <2>1, <2>2, AppendProperties, LenProperties
    <3> QED BY <2>1, <3>1 DEF Opening
  <2>4. None(toS, Answers) => None(toS', Answers)
    BY <1>t, <2>1, AppendedFrame DEF Answers
  <2>5. Handshake'
    BY <1>i, <2>2, <2>3 DEF Handshake
  <2>6. ResumeFails'
    BY <1>i, <2>4 DEF ResumeFails
  <2>7. Exchange'
    BY <1>i, <2>2, <2>4 DEF Exchange, Stored
  <2> QED BY <2>5, <2>6, <2>7
<1>2. CASE ReceiverAccepted
  <2> USE <1>2 DEF ReceiverAccepted
  <2>1. ~None(toR, {"ACCEPT"})
    BY <1>t, HeadFrame
  <2>2. rResume = 0
    <3>1. NoChunkCount(toR) => Head(toR).total = 0
      BY <1>t, HeadFrame
    <3> QED BY <1>t, <1>i, <3>1 DEF ResumeFails
  <2>3. chunks' = chunks /\ sPc \notin {"idle", "recvReq"}
    BY <1>i, <2>1, <2>2 DEF Handshake
  <2>4. Handshake'
    BY <1>i, <2>3 DEF Handshake
  <2>5. ResumeFails'
    BY <2>2 DEF ResumeFails
  <2>6. Outstanding => Outstanding'
    BY <1>k, <2>3 DEF Outstanding, Stored
  <2>7. Exchange'
    BY <1>i, <1>k, <2>3, <2>6 DEF Exchange, Stored
  <2> QED BY <2>4, <2>5, <2>7
<1>3. ASSUME ReceiverStoreChunk \/ ReceiverNackChunk
      PROVE  Handshake' /\ ResumeFails' /\ Exchange'
  <2> DEFINE m == Head(toR)
  <2>0. /\ rPc = "loop" /\ rPc' \in {"loop", "ended"} /\ toR # <<>> /\ m.type = "DATA"
        /\ toR' = Tail(toR)
        /\ UNCHANGED <<sPc, sState, sResume, next, rResume, used>>
    BY <1>3 DEF ReceiverStoreChunk, ReceiverNackChunk, ChunkArrives
  <2>1. m.id \in ChunkIds /\ m.data \in Blocks
    BY <1>t, <2>0, ChannelTypes, FromFrames
  <2>2. PICK a \in ToSender :
          /\ toS' = toS \/ toS' = Append(toS, a)
          /\ a.type \in Answers
          /\ a.type = "ACK" => chunks'[m.id] # NoData
    <3>1. CASE ReceiverStoreChunk
      <4> DEFINE a == [type |-> "ACK", id |-> m.id]
      <4>1. toS' = toS \/ toS' = Append(toS, a)
        BY <3>1 DEF ReceiverStoreChunk
      <4>2. chunks' = [chunks EXCEPT ![m.id] = IF @ = NoData THEN m.data ELSE @]
        BY <3>1 DEF ReceiverStoreChunk
      <4>3. chunks'[m.id] # NoData
        BY <1>t, <2>1, <4>2
      <4>4. a \in ToSender /\ a.type \in Answers
        BY <2>1, IntoFrames DEF Answers
      <4> QED BY <4>1, <4>3, <4>4
    <3>2. CASE ReceiverNackChunk
      <4> DEFINE a == [type |-> "NACK", id |-> m.id]
      <4>1. toS' = toS \/ toS' = Append(toS, a)
        BY <3>2 DEF ReceiverNackChunk
      <4>2. a \in ToSender /\ a.type = "NACK"
        BY <2>1, IntoFrames
      <4> QED BY <4>1, <4>2 DEF Answers
    <3> QED BY <1>3, <3>1, <3>2
  <2>3. \A c \in ChunkIds : Stored(c) => chunks'[c] # NoData
    <3>1. CASE ReceiverStoreChunk
      BY <1>t, <2>1, <3>1 DEF ReceiverStoreChunk, Stored
    <3>2. CASE ReceiverNackChunk
      BY <3>2 DEF ReceiverNackChunk, Stored
    <3> QED BY <1>3, <3>1, <3>2
  <2>4. /\ ~None(toR, {"DATA"})
        /\ Single(toR, {"DATA"}) => None(toR', {"DATA"})
        /\ OnlyChunk(toR, next) => m.id = next
    BY <1>t, <2>0, HeadFrame
  <2>5. rResume = 0 /\ sPc \notin {"idle", "recvReq"}
    BY <1>t, <1>i, <2>0 DEF Handshake, ResumeFails
  <2>6. /\ None(toS, {"REQ"}) => None(toS', {"REQ"})
        /\ None(toS, Answers) => Single(toS', Answers)
        /\ None(toS, Answers) /\ a.type # "ACK" => None(toS', {"ACK"})
    <3>1. None(toS, Answers) => Single(toS, Answers) /\ None(toS, {"ACK"})
      BY DEF None, Single, Answers
    <3>2. CASE toS' = toS
      BY <3>1, <3>2
    <3>3. CASE toS' = Append(toS, a)
      <4>1. a.type \notin {"REQ"}
        BY <2>2 DEF Answers
      <4>2. /\ \A types : None(toS, types) /\ a.type \notin types => None(toS', types)
            /\ \A types : None(toS, types) => Single(toS', types)
        BY <1>t, <3>3, AppendedFrame
      <4> QED BY <3>1, <4>1, <4>2
    <3> QED BY <2>2, <3>2, <3>3
  <2>7. Handshake'
    BY <1>i, <2>0, <2>5, <2>6 DEF Handshake
  <2>8. ResumeFails'
    BY <2>0, <2>5 DEF ResumeFails
  <2>9. Outstanding => Outstanding'
    <3> SUFFICES ASSUME Outstanding PROVE Outstanding'
      OBVIOUS
    <3>1. None(toS, Answers) /\ m.id = next /\ None(toR', {"DATA"})
      BY <2>4 DEF Outstanding
    <3>2. Single(toR', {"DATA"}) /\ OnlyChunk(toR', next)
      BY <1>k, <2>0 DEF Outstanding
    <3>3. None(toS', {"ACK"}) \/ chunks'[next] # NoData
      BY <2>2, <2>6, <3>1
    <3> QED BY <2>0, <2>6, <3>1, <3>2, <3>3 DEF Outstanding, Stored
  <2>10. Exchange'
    <3> SUFFICES ASSUME used["timeout"] = 0
                 PROVE  /\ sPc \notin {"send", "end", "ready"}
                        /\ sPc = "wait" => Outstanding'
                        /\ sPc = "wait" => \A c \in ChunkIds : c < next => chunks'[c] # NoData
                        /\ sState = "COMPLETED" => \A c \in ChunkIds : chunks'[c] # NoData
      BY <2>0, <2>5 DEF Exchange, Stored
    <3> QED BY <1>i, <2>3, <2>4, <2>5, <2>9 DEF Exchange
  <2> QED BY <2>7, <2>8, <2>10
<1> QED BY <1>1, <1>2, <1>3

LEMMA ExchangeStep == ExchangeInv /\ [Next]_vars => ExchangeInv'
<1> SUFFICES ASSUME ExchangeInv, [Next]_vars PROVE ExchangeInv'
  OBVIOUS
<1>1. TypeInv /\ TypeInv' /\ TypeOK'
  BY TypeStep, EndAtHandStep DEF ExchangeInv, TypeInv
<1>2. CASE Bystanding
  BY <1>1, <1>2, TimeoutsStay, BystandingKeeps DEF ExchangeInv
<1>3. CASE Quitting
  BY <1>1, <1>3, TimeoutsStay, QuittingKeeps DEF ExchangeInv
<1>4. CASE Moving
  BY <1>1, <1>4, SenderMoves, ReceiverMoves DEF ExchangeInv, Moving
<1> QED BY <1>1, <1>2, <1>3, <1>4, StepKinds

(***************************************************************************)
(* As long as no socket timeout has struck, a sender that reports          *)
(* COMPLETED has had every chunk stored at the other end, for every file,  *)
(* every number of retries, and any damage, edit, reset or resume request: *)
(* send_file() may leave the chunk_id of an acknowledgement unread.        *)
(***************************************************************************)
THEOREM NoChunkIsSkipped == Spec => []NoChunkSkipped
<1>1. Init => ExchangeInv
  <2> SUFFICES ASSUME Init PROVE ExchangeInv
    OBVIOUS
  <2>1. DOMAIN toR = {} /\ DOMAIN toS = {}
    BY DEF Init
  <2>2. Handshake
    BY <2>1 DEF Init, Handshake, None, Opening
  <2>3. ResumeFails /\ Exchange
    BY <2>1 DEF Init, ResumeFails, Exchange, None, NoChunkCount
  <2> QED BY <2>2, <2>3, TypeInit DEF ExchangeInv
<1>2. ExchangeInv => NoChunkSkipped
  <2>1. TypeInv => rResume \in Nat
    BY DEF TypeInv, TypeOK, ChunkIds
  <2> QED BY <2>1 DEF ExchangeInv, ResumeFails, Exchange, NoChunkSkipped, Stored
<1> QED BY <1>1, <1>2, ExchangeStep, PTL DEF Spec
=============================================================================
