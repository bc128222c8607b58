-------------------------- MODULE StpFlightProofs --------------------------
(***************************************************************************)
(* Stop-and-wait, counted: how many chunks and answers are under way in    *)
(* StpTransfer, for every file, every number of retries and every budget   *)
(* of faults.                                                              *)
(***************************************************************************)
EXTENDS StpTransferProofs, FiniteSetTheorems, FunctionTheorems

\* The positions of s that hold a frame of a type in T, and their number.
At(s, T) == {i \in DOMAIN s : s[i].type \in T}
Count(s, T) == Cardinality(At(s, T))

-----------------------------------------------------------------------------
(* What an operation on a sequence does to the number of frames.           *)

LEMMA CountIsNat ==
  ASSUME NEW S, NEW s \in Seq(S), NEW T
  PROVE  IsFiniteSet(At(s, T)) /\ Count(s, T) \in Nat
<1>1. DOMAIN s = 1 .. Len(s) /\ Len(s) \in Nat
  BY LenProperties
<1>2. IsFiniteSet(DOMAIN s)
  BY <1>1, FS_Interval
<1>3. IsFiniteSet(At(s, T))
  BY <1>2, FS_Subset DEF At
<1> QED BY <1>3, FS_CardinalityType DEF Count

\* Positions of s in which the positions of r are counted again.
LEMMA CountSubset ==
  ASSUME NEW S, NEW s \in Seq(S), NEW r, NEW T, At(r, T) \subseteq At(s, T)
  PROVE  Count(r, T) <= Count(s, T)
<1>1. IsFiniteSet(At(s, T))
  BY CountIsNat
<1> QED BY <1>1, FS_Subset DEF Count

LEMMA CountAppend ==
  ASSUME NEW S, NEW s \in Seq(S), NEW T, NEW m \in S
  PROVE  /\ m.type \in T => Count(Append(s, m), T) = Count(s, T) + 1
         /\ m.type \notin T => Count(Append(s, m), T) = Count(s, T)
<1> DEFINE r == Append(s, m)
           n == Len(s) + 1
<1>1. DOMAIN s = 1 .. Len(s) /\ Len(s) \in Nat
  BY LenProperties
<1>2. DOMAIN r = 1 .. n /\ r[n] = m /\ \A i \in 1 .. Len(s) : r[i] = s[i]
  BY AppendProperties, LenProperties
<1>3. n \notin At(s, T) /\ IsFiniteSet(At(s, T)) /\ Count(s, T) \in Nat
  <2>1. n \notin At(s, T)
    BY <1>1 DEF At
  <2> QED BY <2>1, CountIsNat
<1> HIDE DEF r
<1>4. CASE m.type \in T
  <2>1. At(r, T) = At(s, T) \union {n}
    BY <1>1, <1>2, <1>4 DEF At
  <2> QED BY <1>3, <1>4, <2>1, FS_AddElement DEF Count, r
<1>5. CASE m.type \notin T
  <2>1. At(r, T) = At(s, T)
    BY <1>1, <1>2, <1>5 DEF At
  <2> QED BY <1>3, <1>5, <2>1 DEF Count, r
<1> QED BY <1>4, <1>5

LEMMA CountTail ==
  ASSUME NEW S, NEW s \in Seq(S), NEW T, s # <<>>
  PROVE  /\ Head(s).type \in T => Count(s, T) = Count(Tail(s), T) + 1
         /\ Head(s).type \notin T => Count(s, T) = Count(Tail(s), T)
<1> DEFINE r == Tail(s)
           rest == At(s, T) \ {1}
           f == [i \in At(r, T) |-> i + 1]
<1>1. DOMAIN s = 1 .. Len(s) /\ Len(s) \in Nat /\ Len(s) >= 1 /\ Head(s) = s[1]
  BY LenProperties, EmptySeq
<1>2. r \in Seq(S) /\ DOMAIN r = 1 .. Len(s) - 1 /\ \A i \in 1 .. Len(s) - 1 : r[i] = s[i + 1]
  BY HeadTailProperties, LenProperties
<1>3. IsFiniteSet(At(s, T)) /\ IsFiniteSet(At(r, T)) /\ Count(s, T) \in Nat /\ Count(r, T) \in Nat
  BY <1>2, CountIsNat
<1> HIDE DEF r
<1>4. Cardinality(rest) = Count(r, T)
  <2>1. f \in [At(r, T) -> rest]
    BY <1>1, <1>2 DEF At
  <2>2. \A i, j \in At(r, T) : f[i] = f[j] => i = j
    BY <1>2 DEF At
  <2>3. \A k \in rest : \E i \in At(r, T) : f[i] = k
    <3> TAKE k \in rest
    <3>1. k - 1 \in At(r, T) /\ (k - 1) + 1 = k
      BY <1>1, <1>2 DEF At
    <3> QED BY <3>1
  <2>4. ExistsBijection(At(r, T), rest)
    BY <2>1, <2>2, <2>3, Fun_IsBij DEF ExistsBijection
  <2> QED BY <1>3, <2>4, FS_Bijection DEF Count
<1>5. CASE Head(s).type \in T
  <2>1. 1 \in At(s, T)
    BY <1>1, <1>5 DEF At
  <2>2. Cardinality(rest) = Count(s, T) - 1
    BY <1>3, <2>1, FS_RemoveElement DEF Count
  <2> QED BY <1>3, <1>4, <1>5, <2>2 DEF r
<1>6. CASE Head(s).type \notin T
  <2>1. rest = At(s, T)
    BY <1>1, <1>6 DEF At
  <2>2. Count(s, T) = Count(r, T)
    BY <1>4, <2>1 DEF Count
  <2> QED BY <1>3, <1>6, <2>2 DEF r
<1> QED BY <1>5, <1>6

LEMMA CountSubSeq ==
  ASSUME NEW S, NEW s \in Seq(S), NEW T, NEW n \in 0 .. Len(s)
  PROVE  Count(SubSeq(s, 1, n), T) <= Count(s, T)
<1> DEFINE r == SubSeq(s, 1, n)
<1>1. DOMAIN s = 1 .. Len(s) /\ Len(s) \in Nat
  BY LenProperties
<1>2. \A i \in 1 .. n : s[i] \in S
  BY <1>1, ElementOfSeq
<1>3. r \in Seq(S) /\ Len(r) = n /\ \A i \in 1 .. n : r[i] = s[i]
  BY <1>1, <1>2, SubSeqProperties
<1>4. DOMAIN r = 1 .. n
  BY <1>3, LenProperties
<1> HIDE DEF r
<1>5. At(r, T) \subseteq At(s, T)
  BY <1>1, <1>3, <1>4 DEF At
<1> QED BY <1>5, CountSubset DEF r

LEMMA CountExcept ==
  ASSUME NEW S, NEW s \in Seq(S), NEW T, NEW n \in DOMAIN s, NEW m \in S,
         m.type \in T => s[n].type \in T
  PROVE  Count([s EXCEPT ![n] = m], T) <= Count(s, T)
<1>1. At([s EXCEPT ![n] = m], T) \subseteq At(s, T)
  BY LenProperties DEF At
<1> QED BY <1>1, CountSubset

-----------------------------------------------------------------------------
(* The invariant.                                                          *)

InFlight == Count(toR, {"DATA"}) + Count(toS, {"ACK", "NACK"})

(***************************************************************************)
(* The receiver's TRANSFER_REQ is its first frame, so no sender that sends *)
(* chunks still has one to read and to take for a CHUNK_NACK.              *)
(***************************************************************************)
RequestFirst ==
  /\ rPc = "idle" => toS = <<>> /\ sPc \in {"idle", "recvReq", "ended"}
  /\ \A i \in DOMAIN toS : toS[i].type = "REQ" => i = 1 /\ sPc \in {"idle", "recvReq", "ended"}

(***************************************************************************)
(* A sender about to send has had the answer to its last chunk, or has     *)
(* spent a timeout on it.                                                  *)
(***************************************************************************)
FlightBound ==
  /\ sPc \in {"idle", "recvReq", "ready"} => InFlight = 0
  /\ sPc = "send" => InFlight <= used["timeout"]
  /\ InFlight <= 1 + used["timeout"]

FlightInv == TypeInv /\ RequestFirst /\ FlightBound

LEMMA FlightInit == Init => FlightInv
<1> SUFFICES ASSUME Init PROVE FlightInv
  OBVIOUS
<1>1. toR = <<>> /\ toS = <<>> /\ sPc = "idle" /\ used = [k \in Faults |-> 0] /\ "timeout" \in Faults
  BY DEF Init, Faults
<1>2. \A T : Count(<<>>, T) = 0
  <2> TAKE T
  <2>1. At(<<>>, T) = {}
    BY LenProperties, EmptySeq DEF At
  <2> QED BY <2>1, FS_EmptySet DEF Count
<1>3. InFlight = 0
  BY <1>1, <1>2 DEF InFlight
<1>4. DOMAIN toS = {}
  BY <1>1
<1> QED BY <1>1, <1>3, <1>4, TypeInit DEF FlightInv, RequestFirst, FlightBound

LEMMA CountTypes ==
  ASSUME TypeOK
  PROVE  /\ Count(toR, {"DATA"}) \in Nat /\ Count(toS, {"ACK", "NACK"}) \in Nat
         /\ InFlight \in Nat /\ used["timeout"] \in Nat
<1>1. toR \in Seq(ToReceiver) /\ toS \in Seq(ToSender)
  BY DEF TypeOK
<1>2. Count(toR, {"DATA"}) \in Nat /\ Count(toS, {"ACK", "NACK"}) \in Nat
  BY <1>1, CountIsNat
<1> QED BY <1>2 DEF InFlight, TypeOK, Faults

\* The budgets only grow.
LEMMA TimeoutsGrow ==
  ASSUME TypeOK
  PROVE  /\ \A k \in Faults : Spend(k) => used'["timeout"] \in Nat /\ used["timeout"] <= used'["timeout"]
         /\ Spend("timeout") => used'["timeout"] = used["timeout"] + 1
<1>1. used \in [Faults -> Nat] /\ "timeout" \in Faults
  BY DEF TypeOK, Faults
<1>2. \A k \in Faults : Spend(k) => used' = [used EXCEPT ![k] = used[k] + 1]
  BY DEF Spend
<1> QED BY <1>1, <1>2

LEMMA RequestFirstStep == TypeOK /\ RequestFirst /\ [Next]_vars => RequestFirst'
<1> SUFFICES ASSUME TypeOK, RequestFirst, [Next]_vars PROVE RequestFirst'
  OBVIOUS
<1>t. toS \in Seq(ToSender)
  BY DEF TypeOK
<1>r. DOMAIN toS = 1 .. Len(toS) /\ Len(toS) \in Nat
  BY <1>t, LenProperties
\* Nothing is asked for, and the sender is where it was or further on.
<1>0. ASSUME rPc' = "idle" => rPc = "idle" /\ toS' = toS,
             sPc \in {"idle", "recvReq", "ended"} => sPc' \in {"idle", "recvReq", "ended"},
             \A i \in DOMAIN toS' : toS'[i].type = "REQ" =>
               i \in DOMAIN toS /\ toS[i].type = "REQ"
      PROVE  RequestFirst'
  BY <1>0 DEF RequestFirst
\* What the operations on toS leave of the request.
<1>a. ASSUME NEW m \in ToSender, m.type # "REQ", toS' = Append(toS, m)
      PROVE  \A i \in DOMAIN toS' : toS'[i].type = "REQ" => i \in DOMAIN toS /\ toS[i].type = "REQ"
  <2>1. /\ DOMAIN toS' = 1 .. Len(toS) + 1 /\ toS'[Len(toS) + 1] = m
        /\ \A i \in 1 .. Len(toS) : toS'[i] = toS[i]
    BY <1>a, <1>t, <1>r, AppendProperties, LenProperties
  <2> QED BY <1>a, <1>r, <2>1
<1>b. ASSUME toS # <<>>, toS' = Tail(toS)
      PROVE  \A i \in DOMAIN toS' : toS'[i].type # "REQ"
  <2>1. /\ DOMAIN toS' = 1 .. Len(toS) - 1
        /\ \A i \in 1 .. Len(toS) - 1 : toS'[i] = toS[i + 1]
    BY <1>b, <1>t, HeadTailProperties, LenProperties
  <2>2. \A i \in 1 .. Len(toS) - 1 : i + 1 \in DOMAIN toS /\ i + 1 # 1
    BY <1>r
  <2> QED BY <2>1, <2>2 DEF RequestFirst
<1>c. ASSUME NEW n \in 0 .. Len(toS), toS' = SubSeq(toS, 1, n)
      PROVE  \A i \in DOMAIN toS' : toS'[i].type = "REQ" => i \in DOMAIN toS /\ toS[i].type = "REQ"
  <2>1. \A i \in 1 .. n : toS[i] \in ToSender
    BY <1>t, <1>r, ElementOfSeq
  <2>2. /\ DOMAIN toS' = 1 .. n
        /\ \A i \in 1 .. n : toS'[i] = toS[i]
    BY <1>c, <2>1, SubSeqProperties, LenProperties
  <2> QED BY <1>r, <2>2
\* The receiver's TRANSFER_REQ.
<1>1. CASE ReceiverInitiate
  <2>1. rPc = "idle" /\ rPc' = "accept" /\ sPc' = sPc
    BY <1>1 DEF ReceiverInitiate, sVars
  <2>2. toS = <<>> /\ sPc \in {"idle", "recvReq", "ended"}
    BY <2>1 DEF RequestFirst
  <2>3. \E m \in ToSender : toS' = Append(toS, m)
    <3>1. CASE rResume > 0
      <4>1. rToken \in Tokens /\ rResume \in Nat
        BY StpAssumption DEF TypeOK, ChunkIds
      <4> QED BY <1>1, <3>1, <4>1, IntoFrames DEF ReceiverInitiate
    <3>2. CASE ~(rResume > 0)
      <4>1. rToken \in Tokens
        BY DEF TypeOK
      <4> QED BY <1>1, <3>2, <4>1, IntoFrames DEF ReceiverInitiate
    <3> QED BY <3>1, <3>2
  <2>4. DOMAIN toS' = 1 .. 1
    BY <1>t, <2>2, <2>3, AppendProperties, LenProperties, EmptySeq
  <2> QED BY <2>1, <2>2, <2>4 DEF RequestFirst
<1>2. CASE SenderAccept
  <2>1. rPc' = rPc /\ toS # <<>> /\ toS' = Tail(toS)
    BY <1>2 DEF SenderAccept, rVars
  <2> QED BY <1>b, <2>1 DEF RequestFirst
<1>3. CASE \/ SenderRefuse \/ SenderGetAck \/ SenderGetNack \/ SenderGetResume \/ SenderGetFail
           \/ SenderGetTorn \/ (SenderHandshakeRaises /\ toS' # toS)
  <2>1. rPc' = rPc /\ toS # <<>> /\ toS' = Tail(toS)
    BY <1>3 DEF SenderRefuse, SenderGetAck, SenderGetNack, SenderGetResume, SenderGetFail,
       SenderGetTorn, SenderHandshakeRaises, rVars
  <2> QED BY <1>b, <2>1 DEF RequestFirst
<1>4. CASE SenderTimeout /\ toS' # toS
  <2>1. /\ rPc' = rPc /\ toS # <<>> /\ toS' = [toS EXCEPT ![1] = Torn]
    BY <1>4 DEF SenderTimeout, rVars
  <2>2. DOMAIN toS' = DOMAIN toS /\ \A i \in DOMAIN toS : toS'[i] = toS[i] \/ toS'[i] = Torn
    BY <2>1
  <2>3. Torn.type # "REQ" /\ rPc # "idle"
    BY <2>1 DEF Torn, RequestFirst
  <2>4. sPc = "wait"
    BY <1>4 DEF SenderTimeout
  <2> QED BY <1>0, <2>1, <2>2, <2>3, <2>4
<1>5. CASE ReceiverStoreChunk \/ ReceiverNackChunk \/ ReceiverGiveUpChunk \/ ReceiverRequestResume
  <2>1. /\ rPc # "idle" /\ rPc' # "idle" /\ sPc' = sPc
    BY <1>5 DEF ReceiverStoreChunk, ReceiverNackChunk, ReceiverGiveUpChunk, ReceiverRequestResume,
       ChunkArrives, sVars, rVars
  <2>2. toS' = toS \/ \E m \in ToSender : m.type # "REQ" /\ toS' = Append(toS, m)
    <3>1. ChunkArrives => Head(toR).id \in ChunkIds
      BY ChannelTypes, FromFrames DEF ChunkArrives, TypeOK
    <3>2. CASE ReceiverStoreChunk \/ ReceiverNackChunk \/ ReceiverGiveUpChunk
      <4>1. ChunkArrives
        BY <3>2 DEF ReceiverStoreChunk, ReceiverNackChunk, ReceiverGiveUpChunk
      <4>2. \/ toS' = toS \/ toS' = Append(toS, Fail)
            \/ toS' = Append(toS, [type |-> "ACK", id |-> Head(toR).id])
            \/ toS' = Append(toS, [type |-> "NACK", id |-> Head(toR).id])
        BY <3>2 DEF ReceiverStoreChunk, ReceiverNackChunk, ReceiverGiveUpChunk
      <4>3. Fail.type # "REQ"
        BY DEF Fail
      <4> QED BY <3>1, <4>1, <4>2, <4>3, IntoFrames
    <3>3. CASE ReceiverRequestResume
      <4>1. \E n \in Nat : toS' = Append(toS, [type |-> "RESUME", token |-> rToken, from |-> n])
        BY <3>3 DEF ReceiverRequestResume, TypeOK
      <4> QED BY <4>1, IntoFrames DEF TypeOK
    <3> QED BY <1>5, <3>2, <3>3
  <2>3. \A i \in DOMAIN toS' : toS'[i].type = "REQ" => i \in DOMAIN toS /\ toS[i].type = "REQ"
    BY <1>a, <2>2
  <2> QED BY <1>0, <2>1, <2>3
<1>6. CASE LoseTails
  <2>1. rPc' = rPc /\ sPc' = sPc /\ \E n \in 0 .. Len(toS) : toS' = SubSeq(toS, 1, n)
    BY <1>6 DEF LoseTails, sVars, rVars
  <2>2. toS = <<>> => toS' = toS
    BY <1>r, <2>1
  <2>3. \A i \in DOMAIN toS' : toS'[i].type = "REQ" => i \in DOMAIN toS /\ toS[i].type = "REQ"
    BY <1>c, <2>1
  <2> QED BY <1>0, <2>1, <2>2, <2>3 DEF RequestFirst
<1>7. CASE \/ SenderListen \/ SenderStartFile \/ SenderTransmit \/ SenderFinish \/ SenderAbort
           \/ SenderClose \/ (SenderTimeout /\ toS' = toS) \/ (SenderHandshakeRaises /\ toS' = toS)
  <2>1. UNCHANGED <<rPc, toS>>
        /\ (sPc \in {"idle", "recvReq", "ended"} => sPc' \in {"idle", "recvReq", "ended"})
    BY <1>7 DEF SenderListen, SenderStartFile, SenderTransmit, SenderFinish, SenderAbort,
       SenderClose, SenderTimeout, SenderHandshakeRaises, GoToChunk, sVars, rVars, netVars
  <2> QED BY <1>0, <2>1
<1>8. CASE \/ ReceiverAccepted \/ ReceiverAssemblerRaises \/ ReceiverRefused
           \/ ReceiverHandshakeRaises \/ ReceiverStartLoop \/ ReceiverChunkOutOfRange
           \/ ReceiverEndIncomplete \/ ReceiverWriteFile \/ ReceiverVerifyFile
           \/ ReceiverLoopFails \/ ReceiverClose \/ CorruptChunk \/ EditSource \/ UNCHANGED vars
  <2>1. UNCHANGED <<sPc, toS>> /\ (rPc' = "idle" => rPc = "idle")
    BY <1>8 DEF ReceiverAccepted, ReceiverAssemblerRaises, ReceiverRefused,
       ReceiverHandshakeRaises, ReceiverStartLoop, ReceiverChunkOutOfRange,
       ReceiverEndIncomplete, ReceiverWriteFile, ReceiverVerifyFile, ReceiverLoopFails,
       ReceiverClose, CorruptChunk, EditSource, vars, sVars, rVars, netVars
  <2> QED BY <1>0, <2>1
<1>9. CASE SenderStep
  BY <1>2, <1>3, <1>4, <1>7, <1>9 DEF SenderStep
<1>10. CASE ReceiverStep
  BY <1>1, <1>5, <1>8, <1>10 DEF ReceiverStep
<1>11. CASE NetworkStep \/ Stop \/ UNCHANGED vars
  BY <1>6, <1>8, <1>11 DEF NetworkStep, Reset, ResetByClosed, Stop
<1> QED BY <1>9, <1>10, <1>11 DEF Next

(***************************************************************************)
(* What each step does to the chunks and the answers under way.            *)
(***************************************************************************)
Chunks  == Count(toR, {"DATA"})
Answers == Count(toS, {"ACK", "NACK"})

LEMMA ChannelCounts ==
  ASSUME TypeOK
  PROVE  /\ toR # <<>> /\ toR' = Tail(toR) =>
              /\ Head(toR).type = "DATA" => Chunks = Chunks' + 1
              /\ Head(toR).type # "DATA" => Chunks = Chunks'
         /\ toS # <<>> /\ toS' = Tail(toS) =>
              /\ Head(toS).type \in {"ACK", "NACK"} => Answers = Answers' + 1
              /\ Head(toS).type \notin {"ACK", "NACK"} => Answers = Answers'
         /\ \A m \in ToReceiver : toR' = Append(toR, m) =>
              /\ m.type = "DATA" => Chunks' = Chunks + 1
              /\ m.type # "DATA" => Chunks' = Chunks
         /\ \A m \in ToSender : toS' = Append(toS, m) =>
              /\ m.type \in {"ACK", "NACK"} => Answers' = Answers + 1
              /\ m.type \notin {"ACK", "NACK"} => Answers' = Answers
         /\ toR' = toR => Chunks' = Chunks
         /\ toS' = toS => Answers' = Answers
<1>1. toR \in Seq(ToReceiver) /\ toS \in Seq(ToSender)
  BY DEF TypeOK
<1>2. ASSUME toR # <<>>, toR' = Tail(toR)
      PROVE  /\ Head(toR).type = "DATA" => Chunks = Chunks' + 1
             /\ Head(toR).type # "DATA" => Chunks = Chunks'
  BY <1>1, <1>2, CountTail DEF Chunks
<1>3. ASSUME toS # <<>>, toS' = Tail(toS)
      PROVE  /\ Head(toS).type \in {"ACK", "NACK"} => Answers = Answers' + 1
             /\ Head(toS).type \notin {"ACK", "NACK"} => Answers = Answers'
  BY <1>1, <1>3, CountTail DEF Answers
<1>4. ASSUME NEW m \in ToReceiver, toR' = Append(toR, m)
      PROVE  /\ m.type = "DATA" => Chunks' = Chunks + 1
             /\ m.type # "DATA" => Chunks' = Chunks
  BY <1>1, <1>4, CountAppend DEF Chunks
<1>5. ASSUME NEW m \in ToSender, toS' = Append(toS, m)
      PROVE  /\ m.type \in {"ACK", "NACK"} => Answers' = Answers + 1
             /\ m.type \notin {"ACK", "NACK"} => Answers' = Answers
  BY <1>1, <1>5, CountAppend DEF Answers
<1>6. (toR' = toR => Chunks' = Chunks) /\ (toS' = toS => Answers' = Answers)
  BY DEF Chunks, Answers
<1> QED BY <1>2, <1>3, <1>4, <1>5, <1>6

\* A reset, a timeout in the middle of a frame and damage only take away.
LEMMA LossCounts ==
  ASSUME TypeOK
  PROVE  /\ LoseTails => Chunks' <= Chunks /\ Answers' <= Answers
         /\ toS # <<>> /\ toS' = [toS EXCEPT ![1] = Torn] => Answers' <= Answers
         /\ CorruptChunk => Chunks' <= Chunks
<1>1. /\ toR \in Seq(ToReceiver) /\ toS \in Seq(ToSender)
      /\ Len(toR) \in Nat /\ Len(toS) \in Nat /\ DOMAIN toS = 1 .. Len(toS)
  BY LenProperties DEF TypeOK
<1>2. ASSUME LoseTails PROVE Chunks' <= Chunks /\ Answers' <= Answers
  <2>1. /\ \E i \in 0 .. Len(toR) : toR' = SubSeq(toR, 1, i)
        /\ \E i \in 0 .. Len(toS) : toS' = SubSeq(toS, 1, i)
    BY <1>1, <1>2 DEF LoseTails, HeadRead
  <2> QED BY <1>1, <2>1, CountSubSeq DEF Chunks, Answers
<1>3. ASSUME toS # <<>>, toS' = [toS EXCEPT ![1] = Torn] PROVE Answers' <= Answers
  <2>1. 1 \in DOMAIN toS /\ Torn \in ToSender /\ Torn.type \notin {"ACK", "NACK"}
    BY <1>1, <1>3, EmptySeq, IntoFrames DEF Torn
  <2> QED BY <1>1, <1>3, <2>1, CountExcept DEF Answers
<1>4. ASSUME CorruptChunk PROVE Chunks' <= Chunks
  <2>1. PICK n \in DOMAIN toR : /\ toR[n].type = "DATA"
                                /\ toR' = [toR EXCEPT ![n] = [toR[n] EXCEPT !.intact = FALSE]]
    BY <1>4 DEF CorruptChunk
  <2>2. [toR[n] EXCEPT !.intact = FALSE] \in ToReceiver
    BY <1>1, <2>1, ChannelTypes, FromFrames
  <2> QED BY <1>1, <2>1, <2>2, CountExcept DEF Chunks
<1> QED BY <1>2, <1>3, <1>4

LEMMA FlightStep == TypeInv /\ RequestFirst /\ FlightBound /\ [Next]_vars => FlightBound'
<1> SUFFICES ASSUME TypeInv, RequestFirst, FlightBound, [Next]_vars PROVE FlightBound'
  OBVIOUS
<1>k. TypeOK /\ TypeOK'
  BY TypeStep DEF TypeInv
<1>q. /\ toR \in Seq(ToReceiver) /\ toS \in Seq(ToSender)
      /\ toR' \in Seq(ToReceiver) /\ toS' \in Seq(ToSender)
  BY <1>k DEF TypeOK
<1>n. /\ Chunks \in Nat /\ Answers \in Nat /\ Chunks' \in Nat /\ Answers' \in Nat
      /\ used["timeout"] \in Nat /\ used'["timeout"] \in Nat
  <2>1. used["timeout"] \in Nat /\ used'["timeout"] \in Nat
    BY <1>k DEF TypeOK, Faults
  <2>2. Chunks \in Nat /\ Answers \in Nat /\ Chunks' \in Nat /\ Answers' \in Nat
    BY <1>q, CountIsNat DEF Chunks, Answers
  <2> QED BY <2>1, <2>2
<1>f. /\ sPc \in {"idle", "recvReq", "ready"} => Chunks + Answers = 0
      /\ sPc = "send" => Chunks + Answers <= used["timeout"]
      /\ Chunks + Answers <= 1 + used["timeout"]
  BY DEF FlightBound, InFlight, Chunks, Answers
<1>g. ASSUME sPc' \in {"idle", "recvReq", "ready"} => Chunks' + Answers' = 0,
             sPc' = "send" => Chunks' + Answers' <= used'["timeout"],
             Chunks' + Answers' <= 1 + used'["timeout"]
      PROVE  FlightBound'
  BY <1>g DEF FlightBound, InFlight, Chunks, Answers
<1>s. Spend("timeout") => used'["timeout"] = used["timeout"] + 1
  BY <1>k, TimeoutsGrow
<1>u. (\E k \in Faults : Spend(k)) \/ used' = used => used["timeout"] <= used'["timeout"]
  BY <1>k, <1>n, TimeoutsGrow
\* No frame more, and the sender does not go on to send.
<1>0. ASSUME Chunks' + Answers' <= Chunks + Answers, used["timeout"] <= used'["timeout"],
             sPc' = sPc \/ sPc' \notin {"idle", "recvReq", "ready", "send"}
      PROVE  FlightBound'
  BY <1>n, <1>f, <1>g, <1>0 DEF Chunks, Answers
<1>c. /\ toR' = toR => Chunks' = Chunks
      /\ toS' = toS => Answers' = Answers
      /\ toS # <<>> /\ toS' = Tail(toS) => Answers' <= Answers
      /\ toR # <<>> /\ toR' = Tail(toR) => Chunks' <= Chunks
  BY <1>k, <1>n, ChannelCounts DEF Chunks, Answers
<1>1. CASE SenderStep
  <2>1. CASE SenderListen
    <3>1. sPc = "idle" /\ sPc' = "recvReq" /\ UNCHANGED <<toR, toS, used>>
      BY <2>1 DEF SenderListen, netVars
    <3> QED BY <1>n, <1>f, <1>g, <1>c, <3>1 DEF Chunks, Answers
  <2>2. CASE SenderAccept
    <3>1. /\ sPc = "recvReq" /\ sPc' = "ready" /\ toS # <<>> /\ toS' = Tail(toS) /\ used' = used
          /\ \E m \in ToReceiver : m.type # "DATA" /\ toR' = Append(toR, m)
      <4>1. Head(toS) \in ToSender
        BY <1>q, <2>2, ChannelTypes DEF SenderAccept
      <4>2. PICK n \in Nat : toR' = Append(toR, [type |-> "ACCEPT", token |-> SenderToken, total |-> n])
        BY <2>2, <4>1, FromFrames DEF SenderAccept
      <4>3. sPc = "recvReq" /\ sPc' = "ready" /\ toS # <<>> /\ toS' = Tail(toS) /\ used' = used
        BY <2>2 DEF SenderAccept
      <4> QED BY <4>2, <4>3, IntoFrames
    <3>2. Chunks' = Chunks /\ Answers' <= Answers
      BY <1>k, <1>c, <3>1, ChannelCounts DEF Chunks
    <3> QED BY <1>n, <1>f, <1>g, <3>1, <3>2 DEF Chunks, Answers
  <2>3. CASE SenderStartFile
    <3>1. sPc = "ready" /\ sPc' \in {"send", "end"} /\ UNCHANGED <<toR, toS, used>>
      BY <2>3 DEF SenderStartFile, GoToChunk, netVars
    <3> QED BY <1>n, <1>f, <1>g, <1>c, <3>1 DEF Chunks, Answers
  <2>4. CASE SenderTransmit
    <3>1. sPc = "send" /\ sPc' = "wait" /\ UNCHANGED <<toS, used>>
      BY <2>4 DEF SenderTransmit
    <3>2. \E m \in ToReceiver : m.type = "DATA" /\ toR' = Append(toR, m)
      <4>1. [type |-> "DATA", id |-> next, data |-> data, intact |-> TRUE] \in ToReceiver
        BY <3>1, IntoFrames DEF TypeInv, OnAChunk
      <4> QED BY <2>4, <4>1 DEF SenderTransmit
    <3>3. Chunks' = Chunks + 1
      BY <1>k, <3>2, ChannelCounts DEF Chunks
    <3> QED BY <1>n, <1>f, <1>g, <1>c, <3>1, <3>3 DEF Chunks, Answers
  <2>5. CASE SenderGetAck \/ SenderGetNack
    <3>1. /\ toS # <<>> /\ Head(toS).type \in {"ACK", "NACK", "REQ"} /\ toS' = Tail(toS)
          /\ sPc = "wait" /\ sPc' \in {"send", "end", "abort"} /\ UNCHANGED <<toR, used>>
      BY <2>5 DEF SenderGetAck, SenderGetNack, GoToChunk, NextAttempt
    <3>2. Head(toS).type # "REQ"
      <4>1. 1 \in DOMAIN toS /\ Head(toS) = toS[1]
        BY <1>q, <3>1, HeadTailProperties, LenProperties, EmptySeq
      <4> QED BY <3>1, <4>1 DEF RequestFirst
    <3>3. Answers = Answers' + 1
      BY <1>k, <3>1, <3>2, ChannelCounts DEF Answers
    <3> QED BY <1>n, <1>f, <1>g, <1>c, <3>1, <3>3 DEF Chunks, Answers
  <2>6. CASE SenderTimeout
    <3>1. /\ Spend("timeout") /\ toR' = toR /\ sPc = "wait" /\ sPc' \in {"send", "abort"}
          /\ toS' = toS \/ (toS # <<>> /\ toS' = [toS EXCEPT ![1] = Torn])
      BY <2>6 DEF SenderTimeout, NextAttempt
    <3>2. Answers' <= Answers
      BY <1>k, <1>n, <1>c, <3>1, LossCounts DEF Answers
    <3> QED BY <1>n, <1>s, <1>f, <1>g, <1>c, <3>1, <3>2 DEF Chunks, Answers
  <2>7. CASE SenderRefuse \/ SenderFinish \/ SenderAbort
    <3>1. sPc' = "ended" /\ used' = used /\ (toS' = toS \/ (toS # <<>> /\ toS' = Tail(toS)))
      BY <2>7 DEF SenderRefuse, SenderFinish, SenderAbort
    <3>2. toR' = toR \/ \E m \in ToReceiver : m.type # "DATA" /\ toR' = Append(toR, m)
      <4>1. Fail.type # "DATA" /\ Fail \in ToReceiver
        BY IntoFrames DEF Fail
      <4>2. [type |-> "END", hash |-> hashed, hmac |-> source] \in ToReceiver
        BY <1>k, IntoFrames DEF TypeOK
      <4> QED BY <2>7, <4>1, <4>2 DEF SenderRefuse, SenderFinish, SenderAbort, ToRIfUp
    <3>3. Chunks' = Chunks
      BY <1>k, <1>c, <3>2, ChannelCounts DEF Chunks
    <3>4. Answers' <= Answers
      BY <1>n, <1>c, <3>1 DEF Answers
    <3> QED BY <1>n, <1>f, <1>g, <3>1, <3>3, <3>4 DEF Chunks, Answers
  <2>8. CASE SenderHandshakeRaises \/ SenderGetResume \/ SenderGetFail \/ SenderGetTorn
    <3>1. /\ sPc' \in {"ended", "abort"} /\ toR' = toR
          /\ toS' = toS \/ (toS # <<>> /\ toS' = Tail(toS))
          /\ (\E k \in Faults : Spend(k)) \/ used' = used
      BY <2>8 DEF SenderHandshakeRaises, SenderGetResume, SenderGetFail, SenderGetTorn, Faults
    <3>2. Answers' <= Answers
      BY <1>n, <1>c, <3>1 DEF Answers
    <3> QED BY <1>n, <1>u, <1>f, <1>g, <1>c, <3>1, <3>2 DEF Chunks, Answers
  <2>9. CASE SenderClose
    <3>1. UNCHANGED <<sPc, toR, toS, used>>
      BY <2>9 DEF SenderClose, sVars
    <3> QED BY <1>n, <1>f, <1>g, <1>c, <3>1 DEF Chunks, Answers
  <2> QED BY <1>1, <2>1, <2>2, <2>3, <2>4, <2>5, <2>6, <2>7, <2>8, <2>9 DEF SenderStep
<1>2. CASE ReceiverStep
  <2>1. CASE ReceiverStoreChunk \/ ReceiverNackChunk
    <3>1. /\ toR # <<>> /\ Head(toR).type = "DATA" /\ toR' = Tail(toR)
          /\ UNCHANGED <<sPc, used>>
      BY <2>1 DEF ReceiverStoreChunk, ReceiverNackChunk, ChunkArrives, sVars
    <3>2. toS' = toS \/ \E m \in ToSender : m.type \in {"ACK", "NACK"} /\ toS' = Append(toS, m)
      <4>1. Head(toR).id \in ChunkIds
        BY <1>q, <3>1, ChannelTypes, FromFrames
      <4>2. \/ toS' = toS
            \/ toS' = Append(toS, [type |-> "ACK", id |-> Head(toR).id])
            \/ toS' = Append(toS, [type |-> "NACK", id |-> Head(toR).id])
        BY <2>1 DEF ReceiverStoreChunk, ReceiverNackChunk
      <4> QED BY <4>1, <4>2, IntoFrames
    <3>3. Chunks = Chunks' + 1
      BY <1>k, <3>1, ChannelCounts DEF Chunks
    <3>4. Answers' = Answers \/ Answers' = Answers + 1
      BY <1>k, <1>c, <3>2, ChannelCounts DEF Answers
    <3>5. Chunks' + Answers' <= Chunks + Answers
      BY <1>n, <3>3, <3>4 DEF Chunks, Answers
    <3> QED BY <1>0, <1>u, <3>1, <3>5
  <2>2. CASE ReceiverStep /\ ~ReceiverStoreChunk /\ ~ReceiverNackChunk
    <3>1. /\ sPc' = sPc
          /\ toR' = toR \/ (toR # <<>> /\ toR' = Tail(toR))
          /\ (\E k \in Faults : Spend(k)) \/ used' = used
      <4>1. CASE ReceiverHandshakeRaises \/ ReceiverLoopFails \/ ReceiverRequestResume
        BY <4>1 DEF ReceiverHandshakeRaises, ReceiverLoopFails, ReceiverRequestResume, sVars,
           netVars, Faults
      <4>2. CASE ReceiverVerifyFile
        BY <4>2 DEF TypeInv, EndAtHand, ReceiverVerifyFile, sVars
      <4>3. CASE \/ ReceiverInitiate \/ ReceiverAccepted \/ ReceiverAssemblerRaises \/ ReceiverRefused
                 \/ ReceiverStartLoop \/ ReceiverChunkOutOfRange \/ ReceiverGiveUpChunk
                 \/ ReceiverEndIncomplete \/ ReceiverWriteFile \/ ReceiverClose
        BY <4>3 DEF ReceiverInitiate, ReceiverAccepted, ReceiverAssemblerRaises, ReceiverRefused,
           ReceiverStartLoop, ReceiverChunkOutOfRange, ReceiverGiveUpChunk, ReceiverEndIncomplete,
           ReceiverWriteFile, ReceiverClose, ChunkArrives, EndArrives, sVars, netVars
      <4> QED BY <2>2, <4>1, <4>2, <4>3 DEF ReceiverStep
    <3>2. toS' = toS \/ \E m \in ToSender : m.type \notin {"ACK", "NACK"} /\ toS' = Append(toS, m)
      <4>1. CASE ReceiverInitiate
        <5>1. CASE rResume > 0
          <6>1. rToken \in Tokens /\ rResume \in Nat
            BY <1>k, StpAssumption DEF TypeOK, ChunkIds
          <6> QED BY <4>1, <5>1, <6>1, IntoFrames DEF ReceiverInitiate
        <5>2. CASE ~(rResume > 0)
          <6>1. rToken \in Tokens
            BY <1>k DEF TypeOK
          <6> QED BY <4>1, <5>2, <6>1, IntoFrames DEF ReceiverInitiate
        <5> QED BY <5>1, <5>2
      <4>2. CASE ReceiverRequestResume
        <5>1. \E n \in Nat : toS' = Append(toS, [type |-> "RESUME", token |-> rToken, from |-> n])
          BY <1>k, <4>2 DEF ReceiverRequestResume, TypeOK
        <5> QED BY <1>k, <5>1, IntoFrames DEF TypeOK
      <4>3. CASE ReceiverGiveUpChunk
        <5>1. toS' = toS \/ toS' = Append(toS, Fail)
          BY <4>3 DEF ReceiverGiveUpChunk
        <5> QED BY <5>1, IntoFrames DEF Fail
      <4>4. CASE \/ ReceiverHandshakeRaises \/ ReceiverLoopFails \/ ReceiverVerifyFile
                 \/ ReceiverAccepted \/ ReceiverAssemblerRaises \/ ReceiverRefused
                 \/ ReceiverStartLoop \/ ReceiverChunkOutOfRange
                 \/ ReceiverEndIncomplete \/ ReceiverWriteFile \/ ReceiverClose
        BY <4>4 DEF ReceiverHandshakeRaises, ReceiverLoopFails, ReceiverVerifyFile, ReceiverAccepted,
           ReceiverAssemblerRaises, ReceiverRefused, ReceiverStartLoop, ReceiverChunkOutOfRange,
           ReceiverEndIncomplete, ReceiverWriteFile, ReceiverClose, netVars
      <4> QED BY <2>2, <4>1, <4>2, <4>3, <4>4 DEF ReceiverStep
    <3>3. Chunks' <= Chunks
      BY <1>n, <1>c, <3>1 DEF Chunks
    <3>4. Answers' = Answers
      BY <1>k, <1>c, <3>2, ChannelCounts DEF Answers
    <3>5. Chunks' + Answers' <= Chunks + Answers
      BY <1>n, <3>3, <3>4 DEF Chunks, Answers
    <3> QED BY <1>0, <1>u, <3>1, <3>5
  <2> QED BY <1>2, <2>1, <2>2
<1>3. CASE NetworkStep
  <2>1. sPc' = sPc
    BY <1>3 DEF NetworkStep, CorruptChunk, Reset, ResetByClosed, LoseTails, EditSource, sVars
  <2>2. Chunks' <= Chunks /\ Answers' <= Answers
    <3>1. CASE CorruptChunk
      <4>1. Answers' = Answers
        BY <1>k, <3>1, ChannelCounts DEF CorruptChunk
      <4> QED BY <1>k, <1>n, <3>1, <4>1, LossCounts
    <3>2. CASE LoseTails
      BY <1>k, <3>2, LossCounts
    <3>3. CASE EditSource
      BY <1>k, <1>n, <3>3, ChannelCounts DEF EditSource, netVars
    <3> QED BY <1>3, <3>1, <3>2, <3>3 DEF NetworkStep, Reset, ResetByClosed
  <2>3. used["timeout"] <= used'["timeout"]
    <3>1. \/ Spend("corrupt") \/ Spend("reset") \/ Spend("edit") \/ used' = used
      BY <1>3 DEF NetworkStep, CorruptChunk, Reset, ResetByClosed, EditSource
    <3>2. {"corrupt", "reset", "edit"} \subseteq Faults
      BY DEF Faults
    <3> QED BY <1>u, <3>1, <3>2
  <2>4. Chunks' + Answers' <= Chunks + Answers
    BY <1>n, <2>2 DEF Chunks, Answers
  <2> QED BY <1>0, <2>1, <2>3, <2>4
<1>4. CASE Stop \/ UNCHANGED vars
  BY <1>4 DEF FlightBound, InFlight, Stop, vars, sVars, netVars
<1> QED BY <1>1, <1>2, <1>3, <1>4 DEF Next

(***************************************************************************)
(* The protocol is stop-and-wait: the chunks and the answers that are      *)
(* under way are at most one, and one more for every timeout after which   *)
(* _send_chunk_with_retry() sent a chunk again.                            *)
(***************************************************************************)
THEOREM StopAndWait == Spec => []InFlightBounded
<1>1. FlightInv /\ [Next]_vars => FlightInv'
  BY TypeStep, EndAtHandStep, RequestFirstStep, FlightStep DEF FlightInv, TypeInv
<1>2. FlightInv => InFlightBounded
  <2> SUFFICES ASSUME FlightInv PROVE InFlightBounded
    OBVIOUS
  <2>1. {i \in DOMAIN toR : toR[i].type = "DATA"} = At(toR, {"DATA"})
    BY DEF At
  <2>2. {i \in DOMAIN toS : toS[i].type \in {"ACK", "NACK"}} = At(toS, {"ACK", "NACK"})
    BY DEF At
  <2>3. Cardinality(At(toR, {"DATA"})) + Cardinality(At(toS, {"ACK", "NACK"})) <= 1 + used["timeout"]
    BY DEF FlightInv, FlightBound, InFlight, Count
  <2> QED BY <2>1, <2>2, <2>3 DEF InFlightBounded
<1> QED BY FlightInit, <1>1, <1>2, PTL DEF Spec
=============================================================================
