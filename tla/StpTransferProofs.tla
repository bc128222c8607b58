------------------------- MODULE StpTransferProofs -------------------------
(***************************************************************************)
(* Theorems about StpTransfer, for every file, every number of retries and *)
(* every budget of faults.                                                 *)
(***************************************************************************)
EXTENDS StpTransfer, SequenceTheorems, TLAPS

LEMMA ChannelTypes ==
  ASSUME NEW S, NEW s \in Seq(S)
  PROVE  /\ \A m \in S : Append(s, m) \in Seq(S)
         /\ s # <<>> => Head(s) \in S /\ Tail(s) \in Seq(S)
         /\ \A i \in 0 .. Len(s) : SubSeq(s, 1, i) \in Seq(S)
         /\ \A i \in DOMAIN s : s[i] \in S
         /\ \A i \in DOMAIN s, m \in S : [s EXCEPT ![i] = m] \in Seq(S)
<1>1. \A m \in S : Append(s, m) \in Seq(S)
  BY AppendProperties
<1>2. s # <<>> => Head(s) \in S /\ Tail(s) \in Seq(S)
  BY HeadTailProperties
<1>3. \A i \in 0 .. Len(s) : SubSeq(s, 1, i) \in Seq(S)
  <2> TAKE i \in 0 .. Len(s)
  <2>1. \A j \in 1 .. i : s[j] \in S
    BY ElementOfSeq, LenProperties
  <2> QED BY <2>1, SubSeqProperties, LenProperties
<1>4. \A i \in DOMAIN s : s[i] \in S
  BY ElementOfSeq, LenProperties
<1>5. \A i \in DOMAIN s, m \in S : [s EXCEPT ![i] = m] \in Seq(S)
  BY ExceptSeq, LenProperties
<1> QED BY <1>1, <1>2, <1>3, <1>4, <1>5

LEMMA HeadKept ==
  ASSUME NEW S, NEW s \in Seq(S), s # <<>>
  PROVE  /\ \A m \in S : Append(s, m) # <<>> /\ Head(Append(s, m)) = Head(s)
         /\ \A i \in 1 .. Len(s) : SubSeq(s, 1, i) # <<>> /\ Head(SubSeq(s, 1, i)) = Head(s)
         /\ \A i \in DOMAIN s, m \in S :
              /\ [s EXCEPT ![i] = m] # <<>>
              /\ Head([s EXCEPT ![i] = m]) = IF i = 1 THEN m ELSE Head(s)
<1>1. Len(s) \in Nat /\ Len(s) >= 1 /\ Head(s) = s[1] /\ DOMAIN s = 1 .. Len(s)
  BY EmptySeq, LenProperties, HeadTailProperties
<1>2. \A m \in S : Append(s, m) # <<>> /\ Head(Append(s, m)) = Head(s)
  BY <1>1, AppendProperties
<1>3. \A i \in 1 .. Len(s) : SubSeq(s, 1, i) # <<>> /\ Head(SubSeq(s, 1, i)) = Head(s)
  BY <1>1, SubSeqProperties
<1>4. \A i \in DOMAIN s, m \in S :
         /\ [s EXCEPT ![i] = m] # <<>>
         /\ Head([s EXCEPT ![i] = m]) = IF i = 1 THEN m ELSE Head(s)
  BY <1>1, ExceptSeq
<1> QED BY <1>2, <1>3, <1>4

(***************************************************************************)
(* The sender's loop is on a chunk of the file while it sends one.         *)
(***************************************************************************)
OnAChunk == sPc \in {"send", "wait"} => next \in ChunkIds /\ data \in Blocks

(***************************************************************************)
(* The END frame stays in front of the receiver while it verifies.         *)
(***************************************************************************)
EndAtHand == rPc = "verify" => toR # <<>> /\ Head(toR).type = "END"

TypeInv == TypeOK /\ OnAChunk /\ EndAtHand

USE StpAssumption

LEMMA TypeInit == Init => TypeInv
<1> SUFFICES ASSUME Init PROVE TypeInv
  OBVIOUS
<1>1. toR \in Seq(ToReceiver) /\ toS \in Seq(ToSender)
  BY EmptySeq DEF Init
<1> QED BY <1>1 DEF Init, TypeInv, TypeOK, OnAChunk, EndAtHand, States, Files, ChunkIds, Prefix

(***************************************************************************)
(* What the code puts into a channel has the type of the channel, and what *)
(* it reads from a frame has the type of that field.                       *)
(***************************************************************************)
LEMMA IntoFrames ==
  /\ \A n \in Nat : [type |-> "ACCEPT", token |-> SenderToken, total |-> n] \in ToReceiver
  /\ \A i \in ChunkIds, b \in Blocks :
       [type |-> "DATA", id |-> i, data |-> b, intact |-> TRUE] \in ToReceiver
  /\ \A f, g \in Files : [type |-> "END", hash |-> f, hmac |-> g] \in ToReceiver
  /\ Fail \in ToReceiver /\ Fail \in ToSender /\ Torn \in ToSender
  /\ \A t \in Tokens, n \in Claims : [type |-> "REQ", token |-> t, total |-> n] \in ToSender
  /\ \A t \in Tokens, n \in Nat : [type |-> "RESUME", token |-> t, from |-> n] \in ToSender
  /\ \A i \in ChunkIds : /\ [type |-> "ACK", id |-> i] \in ToSender
                          /\ [type |-> "NACK", id |-> i] \in ToSender
BY DEF ToReceiver, ToSender, AcceptFrame, DataFrame, EndFrame, FailFrame, ReqFrame,
       ResumeFrame, AckFrame, NackFrame, TornFrame, Fail, Torn

LEMMA FromFrames ==
  /\ \A m \in ToReceiver :
       /\ m.type = "ACCEPT" => m.total \in Nat
       /\ m.type = "DATA" => /\ m.id \in ChunkIds /\ m.data \in Blocks
                             /\ [m EXCEPT !.intact = FALSE] \in ToReceiver
  /\ \A m \in ToSender :
       /\ m.type = "REQ" => m.total \in Nat
       /\ m.type = "RESUME" => m.from \in Nat
<1>1. ASSUME NEW m \in ToReceiver, m.type = "DATA"
      PROVE  /\ m.id \in ChunkIds /\ m.data \in Blocks
             /\ [m EXCEPT !.intact = FALSE] \in ToReceiver
  <2>1. m \in DataFrame
    BY <1>1 DEF ToReceiver, AcceptFrame, EndFrame, FailFrame
  <2>2. [m EXCEPT !.intact = FALSE] \in DataFrame
    BY <2>1 DEF DataFrame
  <2> QED BY <2>1, <2>2 DEF DataFrame, ToReceiver
<1>2. ASSUME NEW m \in ToReceiver, m.type = "ACCEPT"
      PROVE  m.total \in Nat
  BY <1>2 DEF ToReceiver, AcceptFrame, DataFrame, EndFrame, FailFrame
<1>3. ASSUME NEW m \in ToSender
      PROVE  /\ m.type = "REQ" => m.total \in Nat
             /\ m.type = "RESUME" => m.from \in Nat
  BY <1>3 DEF ToSender, ReqFrame, ResumeFrame, AckFrame, NackFrame, FailFrame, TornFrame
<1> QED BY <1>1, <1>2, <1>3

LEMMA TypeStep == TypeInv /\ [Next]_vars => TypeOK' /\ OnAChunk'
<1> SUFFICES ASSUME TypeInv, [Next]_vars PROVE TypeOK' /\ OnAChunk'
  OBVIOUS
<1> USE DEF TypeInv, TypeOK, OnAChunk, sVars, rVars, netVars, vars
<1>S. /\ {"NEGOTIATING", "TRANSFERRING", "COMPLETED", "FAILED"} \subseteq States \ {"VERIFYING"}
      /\ States \ {"VERIFYING"} \subseteq States /\ "VERIFYING" \in States
  BY DEF States
<1>r. /\ \A m \in ToReceiver : Append(toR, m) \in Seq(ToReceiver)
      /\ toR # <<>> => Head(toR) \in ToReceiver /\ Tail(toR) \in Seq(ToReceiver)
      /\ \A i \in 0 .. Len(toR) : SubSeq(toR, 1, i) \in Seq(ToReceiver)
      /\ \A i \in DOMAIN toR : toR[i] \in ToReceiver
      /\ \A i \in DOMAIN toR, m \in ToReceiver :
           [toR EXCEPT ![i] = m] \in Seq(ToReceiver)
  BY ChannelTypes
<1>s. /\ \A m \in ToSender : Append(toS, m) \in Seq(ToSender)
      /\ toS # <<>> => Head(toS) \in ToSender /\ Tail(toS) \in Seq(ToSender)
      /\ \A i \in 0 .. Len(toS) : SubSeq(toS, 1, i) \in Seq(ToSender)
      /\ toS # <<>> => [toS EXCEPT ![1] = Torn] \in Seq(ToSender)
  <2>1. toS # <<>> => 1 \in DOMAIN toS
    BY LenProperties, EmptySeq
  <2> QED BY <2>1, ChannelTypes, IntoFrames
<1>n. \A c \in Nat : c < NumChunks => c \in ChunkIds /\ source[c] \in Blocks
  BY DEF ChunkIds, Files
<1>p. ResumePoints \subseteq Nat
  BY DEF ChunkIds
<1>f. \A f \in [ChunkIds -> Blocks \union {NoData}], n \in Nat :
        Prefix(f, n) \in [ChunkIds -> Blocks \union {NoData}]
  BY DEF Prefix
<1>u. \A k \in Faults : Spend(k) => used' \in [Faults -> Nat]
  BY DEF Spend
<1>k. {"timeout", "corrupt", "edit", "reset", "resume", "unlink"} \subseteq Faults
  BY DEF Faults
<1>l. LoseTails => /\ toR' \in Seq(ToReceiver) /\ toS' \in Seq(ToSender) /\ up' = FALSE
                   /\ UNCHANGED <<sVars, rVars, source, closed>>
  <2>1. \A i \in HeadRead .. Len(toR) : i \in 0 .. Len(toR)
    BY LenProperties DEF HeadRead
  <2> QED BY <2>1, <1>r, <1>s DEF LoseTails
<1>t. \A i \in ChunkIds : [retries EXCEPT ![i] = @ + 1] \in [ChunkIds -> Nat]
  OBVIOUS
<1>e. \A c \in ChunkIds, b \in Blocks : [source EXCEPT ![c] = b] \in Files
  BY DEF Files
<1>1. CASE SenderListen
  BY <1>1, <1>S DEF SenderListen
<1>2. CASE SenderAccept
  BY <1>2, <1>r, <1>s, FromFrames, IntoFrames DEF SenderAccept
<1>3. CASE SenderRefuse
  BY <1>3, <1>S, <1>r, <1>s, IntoFrames DEF SenderRefuse
<1>4. CASE SenderHandshakeRaises
  BY <1>4, <1>s, <1>u, <1>k DEF SenderHandshakeRaises
<1>5. CASE SenderStartFile
  <2>1. CASE sResume < NumChunks
    BY <1>5, <1>S, <1>n, <2>1 DEF SenderStartFile, GoToChunk
  <2>2. CASE ~(sResume < NumChunks)
    BY <1>5, <1>S, <2>2 DEF SenderStartFile, GoToChunk
  <2> QED BY <2>1, <2>2
<1>6. CASE SenderTransmit
  <2>1. next \in ChunkIds /\ data \in Blocks
    BY <1>6, <1>S DEF SenderTransmit
  <2>2. [type |-> "DATA", id |-> next, data |-> data, intact |-> TRUE] \in ToReceiver
    BY <2>1, IntoFrames
  <2>3. toR' \in Seq(ToReceiver)
    BY <1>6, <1>r, <2>2 DEF SenderTransmit
  <2> QED BY <1>6, <2>3 DEF SenderTransmit
<1>7. CASE SenderGetAck
  <2>1. toS' \in Seq(ToSender) /\ next' = next + 1
    BY <1>7, <1>s DEF SenderGetAck, GoToChunk
  <2>2. /\ sPc' \in {"send", "end"} /\ data' \in Blocks \union {NoData} /\ attempt' \in Nat
        /\ sPc' = "send" => next' \in ChunkIds /\ data' \in Blocks
    BY <1>7, <1>n, <2>1 DEF SenderGetAck, GoToChunk
  <2> QED BY <2>1, <2>2, <1>7 DEF SenderGetAck
<1>8. CASE SenderGetNack
  BY <1>8, <1>s DEF SenderGetNack, NextAttempt
<1>9. CASE SenderGetResume
  BY <1>9, <1>s, FromFrames DEF SenderGetResume
<1>10. CASE SenderGetFail
  BY <1>10, <1>S, <1>s DEF SenderGetFail
<1>11. CASE SenderGetTorn
  BY <1>11, <1>s DEF SenderGetTorn
<1>12. CASE SenderTimeout
  <2>1. toS' \in Seq(ToSender)
    BY <1>12, <1>s DEF SenderTimeout
  <2>2. sPc' \in {"send", "abort"}
    BY <1>12 DEF SenderTimeout, NextAttempt
  <2> QED BY <2>1, <2>2, <1>12, <1>u, <1>k DEF SenderTimeout
<1>13. CASE SenderFinish
  BY <1>13, <1>S, <1>r, IntoFrames DEF SenderFinish
<1>14. CASE SenderAbort
  BY <1>14, <1>S, <1>r, IntoFrames DEF SenderAbort, ToRIfUp
<1>15. CASE SenderClose
  BY <1>15 DEF SenderClose
<1>16. CASE ReceiverInitiate
  BY <1>16, <1>S, <1>s, <1>p, IntoFrames DEF ReceiverInitiate
<1>17. CASE ReceiverAccepted
  <2>1. total' \in Nat
    BY <1>17, <1>r, FromFrames DEF ReceiverAccepted
  <2>2. chunks' \in [ChunkIds -> Blocks \union {NoData}]
    BY <1>17, <1>f, <1>p DEF ReceiverAccepted
  <2> QED BY <2>1, <2>2, <1>17, <1>r DEF ReceiverAccepted
<1>18. CASE ReceiverAssemblerRaises
  BY <1>18, <1>r DEF ReceiverAssemblerRaises
<1>19. CASE ReceiverRefused
  BY <1>19, <1>S, <1>r DEF ReceiverRefused
<1>20. CASE ReceiverHandshakeRaises
  BY <1>20, <1>S DEF ReceiverHandshakeRaises, Spend
<1>21. CASE ReceiverStartLoop
  BY <1>21, <1>S DEF ReceiverStartLoop
<1>22. CASE ReceiverStoreChunk
  BY <1>22, <1>S, <1>r, <1>s, FromFrames, IntoFrames DEF ReceiverStoreChunk, ChunkArrives
<1>23. CASE ReceiverChunkOutOfRange
  BY <1>23, <1>r DEF ReceiverChunkOutOfRange, ChunkArrives
<1>24. CASE ReceiverNackChunk
  <2>1. Head(toR).id \in ChunkIds
    BY <1>24, <1>r, FromFrames DEF ReceiverNackChunk, ChunkArrives
  <2>2. toS' \in Seq(ToSender)
    BY <1>24, <2>1, <1>s, IntoFrames DEF ReceiverNackChunk
  <2> QED BY <2>1, <2>2, <1>24, <1>S, <1>r, <1>t DEF ReceiverNackChunk, ChunkArrives
<1>25. CASE ReceiverGiveUpChunk
  <2>1. Head(toR).id \in ChunkIds
    BY <1>25, <1>r, FromFrames DEF ReceiverGiveUpChunk, ChunkArrives
  <2>2. toS' \in Seq(ToSender)
    BY <1>25, <1>s, IntoFrames DEF ReceiverGiveUpChunk
  <2> QED BY <2>1, <2>2, <1>25, <1>S, <1>r, <1>t DEF ReceiverGiveUpChunk, ChunkArrives
<1>26. CASE ReceiverEndIncomplete
  BY <1>26, <1>S, <1>r DEF ReceiverEndIncomplete, EndArrives
<1>27. CASE ReceiverWriteFile
  BY <1>27, <1>S, <1>f DEF ReceiverWriteFile
<1>28. CASE ReceiverVerifyFile
  <2>1. toR # <<>>
    BY <1>28 DEF ReceiverVerifyFile, EndAtHand
  <2> QED BY <2>1, <1>28, <1>S, <1>r DEF ReceiverVerifyFile
<1>29. CASE ReceiverLoopFails
  BY <1>29, <1>S, <1>r, <1>u, <1>k DEF ReceiverLoopFails
<1>30. CASE ReceiverRequestResume
  <2>1. toS' \in Seq(ToSender)
    BY <1>30, <1>s, IntoFrames DEF ReceiverRequestResume
  <2> QED BY <2>1, <1>30, <1>u, <1>k DEF ReceiverRequestResume
<1>31. CASE ReceiverClose
  BY <1>31 DEF ReceiverClose
<1>32. CASE CorruptChunk
  <2>1. PICK i \in DOMAIN toR :
          toR[i].type = "DATA" /\ toR' = [toR EXCEPT ![i] = [toR[i] EXCEPT !.intact = FALSE]]
    BY <1>32 DEF CorruptChunk
  <2>2. toR' \in Seq(ToReceiver)
    BY <2>1, <1>r, FromFrames
  <2> QED BY <2>2, <1>32, <1>u, <1>k DEF CorruptChunk
<1>33. CASE Reset
  BY <1>33, <1>l, <1>u, <1>k DEF Reset
<1>34. CASE ResetByClosed
  BY <1>34, <1>l DEF ResetByClosed
<1>35. CASE EditSource
  <2>1. PICK c \in ChunkIds, b \in Blocks : source' = [source EXCEPT ![c] = b]
    BY <1>35, Zenon DEF EditSource
  <2>2. source' \in Files
    BY <2>1, <1>e, Zenon
  <2> QED BY <2>2, <1>35, <1>u, <1>k DEF EditSource
<1>36. CASE Stop
  BY <1>36 DEF Stop
<1>37. CASE UNCHANGED vars
  BY <1>37
<1> QED
  BY <1>1, <1>2, <1>3, <1>4, <1>5, <1>6, <1>7, <1>8, <1>9, <1>10, <1>11, <1>12, <1>13, <1>14, <1>15, <1>16, <1>17, <1>18, <1>19, <1>20, <1>21, <1>22, <1>23, <1>24, <1>25, <1>26, <1>27, <1>28, <1>29, <1>30, <1>31, <1>32, <1>33, <1>34, <1>35, <1>36, <1>37 DEF Next, SenderStep, ReceiverStep, NetworkStep

LEMMA EndAtHandStep == TypeInv /\ [Next]_vars => EndAtHand'
<1> SUFFICES ASSUME TypeInv, [Next]_vars, rPc' = "verify"
             PROVE  toR' # <<>> /\ Head(toR').type = "END"
  BY DEF EndAtHand
<1> USE DEF TypeInv, EndAtHand, sVars, rVars, netVars, vars
<1>1. CASE ReceiverWriteFile
  BY <1>1 DEF ReceiverWriteFile, EndArrives
<1> SUFFICES ASSUME ~ReceiverWriteFile
             PROVE  toR' # <<>> /\ Head(toR').type = "END"
  BY <1>1
<1>2. rPc = "verify" \/ (rPc # "verify" /\ ReceiverStep)
  BY DEF Next, Stop, SenderStep, NetworkStep, SenderListen, SenderAccept,
     SenderRefuse, SenderHandshakeRaises, SenderStartFile, SenderTransmit, SenderGetAck,
     SenderGetNack, SenderGetResume, SenderGetFail, SenderGetTorn, SenderTimeout, SenderFinish,
     SenderAbort, SenderClose, CorruptChunk, Reset, ResetByClosed, LoseTails, EditSource
<1>3. ~(rPc # "verify" /\ ReceiverStep)
  BY DEF ReceiverStep, ReceiverInitiate, ReceiverAccepted, ReceiverAssemblerRaises,
     ReceiverRefused, ReceiverHandshakeRaises, ReceiverStartLoop, ReceiverStoreChunk,
     ReceiverChunkOutOfRange, ReceiverNackChunk, ReceiverGiveUpChunk, ReceiverEndIncomplete,
     ReceiverVerifyFile, ReceiverLoopFails, ReceiverRequestResume, ReceiverClose,
     ChunkArrives, EndArrives
<1>4. rPc = "verify" /\ toR # <<>> /\ toR \in Seq(ToReceiver)
  BY <1>2, <1>3 DEF TypeOK
<1>5. CASE \E m \in ToReceiver : toR' = Append(toR, m)
  BY <1>4, <1>5, HeadKept
<1>6. CASE UNCHANGED toR
  BY <1>4, <1>6
<1>7. CASE LoseTails
  <2>1. PICK i \in 1 .. Len(toR) : toR' = SubSeq(toR, 1, i)
    BY <1>4, <1>7 DEF LoseTails, HeadRead
  <2> QED BY <1>4, <2>1, HeadKept
<1>8. CASE CorruptChunk
  <2>1. PICK i \in DOMAIN toR : /\ toR[i].type = "DATA"
                                 /\ toR' = [toR EXCEPT ![i] = [toR[i] EXCEPT !.intact = FALSE]]
    BY <1>8 DEF CorruptChunk
  <2>2. [toR[i] EXCEPT !.intact = FALSE] \in ToReceiver
    BY <1>4, <2>1, ChannelTypes, FromFrames
  <2>3. i # 1
    BY <1>4, <2>1, HeadTailProperties
  <2> QED BY <1>4, <2>1, <2>2, <2>3, HeadKept
<1>9. SenderStep => UNCHANGED toR \/ \E m \in ToReceiver : toR' = Append(toR, m)
  <2>1. SenderAccept => \E m \in ToReceiver : toR' = Append(toR, m)
    <3> SUFFICES ASSUME SenderAccept PROVE \E m \in ToReceiver : toR' = Append(toR, m)
      OBVIOUS
    <3>1. Head(toS) \in ToSender
      BY ChannelTypes DEF SenderAccept, TypeOK
    <3> QED BY <3>1, FromFrames, IntoFrames DEF SenderAccept
  <2>2. SenderTransmit => \E m \in ToReceiver : toR' = Append(toR, m)
    BY IntoFrames DEF SenderTransmit, OnAChunk
  <2>3. SenderFinish => \E m \in ToReceiver : toR' = Append(toR, m)
    BY IntoFrames DEF SenderFinish, TypeOK
  <2>4. SenderRefuse \/ SenderAbort => UNCHANGED toR \/ \E m \in ToReceiver : toR' = Append(toR, m)
    BY IntoFrames DEF SenderRefuse, SenderAbort, ToRIfUp
  <2> QED
    BY <2>1, <2>2, <2>3, <2>4 DEF SenderStep, SenderListen, SenderHandshakeRaises,
       SenderStartFile, SenderGetAck, SenderGetNack, SenderGetResume, SenderGetFail,
       SenderGetTorn, SenderTimeout, SenderClose
<1>10. ReceiverStep => UNCHANGED toR
  BY <1>4 DEF ReceiverStep, ReceiverInitiate, ReceiverAccepted, ReceiverAssemblerRaises,
     ReceiverRefused, ReceiverHandshakeRaises, ReceiverStartLoop, ReceiverStoreChunk,
     ReceiverChunkOutOfRange, ReceiverNackChunk, ReceiverGiveUpChunk, ReceiverEndIncomplete,
     ReceiverVerifyFile, ReceiverLoopFails, ReceiverRequestResume, ReceiverClose,
     ChunkArrives, EndArrives
<1> QED
  BY <1>5, <1>6, <1>7, <1>8, <1>9, <1>10
  DEF Next, NetworkStep, Reset, ResetByClosed, EditSource, Stop

(***************************************************************************)
(* Every variable keeps its type, for every file, every number of retries  *)
(* and every budget of faults: no action of the two threads, and no fault, *)
(* puts a frame without its fields into a channel or a chunk outside the   *)
(* file into the assembler.                                                *)
(***************************************************************************)
THEOREM TypeCorrect == Spec => []TypeOK
<1>1. TypeInv /\ [Next]_vars => TypeInv'
  BY TypeStep, EndAtHandStep DEF TypeInv
<1>2. TypeInv => TypeOK
  BY DEF TypeInv
<1> QED BY TypeInit, <1>1, <1>2, PTL DEF Spec

-----------------------------------------------------------------------------
(***************************************************************************)
(* What is in a channel after a step was there before, or was just sent.   *)
(***************************************************************************)
LEMMA ElementsKept ==
  ASSUME NEW S, NEW s \in Seq(S)
  PROVE  /\ \A m \in S : \A i \in DOMAIN Append(s, m) :
              Append(s, m)[i] = m \/ \E j \in DOMAIN s : Append(s, m)[i] = s[j]
         /\ s # <<>> => \A i \in DOMAIN Tail(s) : \E j \in DOMAIN s : Tail(s)[i] = s[j]
         /\ \A n \in 0 .. Len(s) : \A i \in DOMAIN SubSeq(s, 1, n) :
              \E j \in DOMAIN s : SubSeq(s, 1, n)[i] = s[j]
         /\ \A n \in DOMAIN s, m \in S : \A i \in DOMAIN [s EXCEPT ![n] = m] :
              [s EXCEPT ![n] = m][i] = m \/ \E j \in DOMAIN s : [s EXCEPT ![n] = m][i] = s[j]
<1>1. Len(s) \in Nat /\ DOMAIN s = 1 .. Len(s)
  BY LenProperties
<1>2. \A m \in S : \A i \in DOMAIN Append(s, m) :
        Append(s, m)[i] = m \/ \E j \in DOMAIN s : Append(s, m)[i] = s[j]
  BY <1>1, AppendProperties, LenProperties
<1>3. ASSUME s # <<>>, NEW i \in DOMAIN Tail(s)
      PROVE  \E j \in DOMAIN s : Tail(s)[i] = s[j]
  <2>1. /\ Tail(s) \in Seq(S) /\ Len(Tail(s)) = Len(s) - 1
        /\ \A k \in 1 .. Len(Tail(s)) : Tail(s)[k] = s[k+1]
    BY <1>3, HeadTailProperties
  <2>2. i \in 1 .. Len(s) - 1 /\ Tail(s)[i] = s[i+1]
    BY <2>1, <1>3, LenProperties
  <2>3. i + 1 \in DOMAIN s
    BY <2>2, <1>1
  <2> QED BY <2>2, <2>3
<1>4. ASSUME NEW n \in 0 .. Len(s), NEW i \in DOMAIN SubSeq(s, 1, n)
      PROVE  \E j \in DOMAIN s : SubSeq(s, 1, n)[i] = s[j]
  <2>1. \A j \in 1 .. n : s[j] \in S
    BY <1>1, ElementOfSeq
  <2>2. /\ SubSeq(s, 1, n) \in Seq(S) /\ Len(SubSeq(s, 1, n)) = n
        /\ \A k \in 1 .. n : SubSeq(s, 1, n)[k] = s[k]
    BY <2>1, <1>1, SubSeqProperties
  <2>3. i \in 1 .. n
    BY <2>2, <1>4, LenProperties
  <2> QED BY <2>2, <2>3, <1>1
<1>5. \A n \in DOMAIN s, m \in S : \A i \in DOMAIN [s EXCEPT ![n] = m] :
        [s EXCEPT ![n] = m][i] = m \/ \E j \in DOMAIN s : [s EXCEPT ![n] = m][i] = s[j]
  BY <1>1
<1> QED BY <1>2, <1>3, <1>4, <1>5

(***************************************************************************)
(* The receiver trusts the END frame, and the END frame is the last word   *)
(* of a sender that has returned: what it promises can no longer change.   *)
(***************************************************************************)
SenderSettled == sState = "COMPLETED" /\ sPc = "ended"

EndIsPromise == \A i \in DOMAIN toR : toR[i].type = "END" => toR[i].hash = hashed /\ SenderSettled

CompletedIsPromise ==
  rState = "COMPLETED" =>
    /\ file = hashed /\ rToken = SenderToken /\ rPc = "ended"
    /\ SenderSettled

PromiseInv == TypeInv /\ EndIsPromise /\ CompletedIsPromise

LEMMA SenderEnded == sPc = "ended" /\ [Next]_vars => UNCHANGED <<sState, sPc, hashed>>
BY DEF Next, SenderStep, ReceiverStep, NetworkStep, Stop, vars, sVars, rVars, netVars,
   SenderListen, SenderAccept, SenderRefuse, SenderHandshakeRaises, SenderStartFile,
   SenderTransmit, SenderGetAck, SenderGetNack, SenderGetResume, SenderGetFail, SenderGetTorn,
   SenderTimeout, SenderFinish, SenderAbort, SenderClose, ReceiverInitiate, ReceiverAccepted,
   ReceiverAssemblerRaises, ReceiverRefused, ReceiverHandshakeRaises, ReceiverStartLoop,
   ReceiverStoreChunk, ReceiverChunkOutOfRange, ReceiverNackChunk, ReceiverGiveUpChunk,
   ReceiverEndIncomplete, ReceiverWriteFile, ReceiverVerifyFile, ReceiverLoopFails,
   ReceiverRequestResume, ReceiverClose, CorruptChunk, Reset, ResetByClosed, LoseTails,
   EditSource

LEMMA ReceiverEnded == rPc = "ended" /\ [Next]_vars => UNCHANGED <<rState, rPc, rToken, file>>
BY DEF Next, SenderStep, ReceiverStep, NetworkStep, Stop, vars, sVars, rVars, netVars,
   SenderListen, SenderAccept, SenderRefuse, SenderHandshakeRaises, SenderStartFile,
   SenderTransmit, SenderGetAck, SenderGetNack, SenderGetResume, SenderGetFail, SenderGetTorn,
   SenderTimeout, SenderFinish, SenderAbort, SenderClose, ReceiverInitiate, ReceiverAccepted,
   ReceiverAssemblerRaises, ReceiverRefused, ReceiverHandshakeRaises, ReceiverStartLoop,
   ReceiverStoreChunk, ReceiverChunkOutOfRange, ReceiverNackChunk, ReceiverGiveUpChunk,
   ReceiverEndIncomplete, ReceiverWriteFile, ReceiverVerifyFile, ReceiverLoopFails,
   ReceiverRequestResume, ReceiverClose, CorruptChunk, Reset, ResetByClosed, LoseTails,
   EditSource, ChunkArrives, EndArrives

(***************************************************************************)
(* The only step that puts an END frame on the wire is SenderFinish.       *)
(***************************************************************************)
LEMMA EndFrames ==
  ASSUME TypeInv, [Next]_vars, NEW i \in DOMAIN toR', toR'[i].type = "END"
  PROVE  \/ \E j \in DOMAIN toR : toR[j] = toR'[i]
         \/ SenderFinish /\ toR'[i].hash = hashed
<1> DEFINE Old == \E j \in DOMAIN toR : toR[j] = toR'[i]
<1>t. toR \in Seq(ToReceiver) /\ toS \in Seq(ToSender)
  BY DEF TypeInv, TypeOK
<1>a. ASSUME NEW m \in ToReceiver, toR' = Append(toR, m) PROVE Old \/ toR'[i] = m
  BY <1>a, <1>t, ElementsKept
<1>1. CASE UNCHANGED toR
  BY <1>1
<1>2. CASE toR # <<>> /\ toR' = Tail(toR)
  BY <1>2, <1>t, ElementsKept
<1>3. CASE LoseTails
  <2>1. PICK n \in 0 .. Len(toR) : toR' = SubSeq(toR, 1, n)
    BY <1>3, <1>t, LenProperties DEF LoseTails, HeadRead
  <2> QED BY <2>1, <1>t, ElementsKept
<1>4. CASE CorruptChunk
  <2>1. PICK n \in DOMAIN toR : /\ toR[n].type = "DATA"
                                /\ toR' = [toR EXCEPT ![n] = [toR[n] EXCEPT !.intact = FALSE]]
    BY <1>4 DEF CorruptChunk
  <2> DEFINE m == [toR[n] EXCEPT !.intact = FALSE]
  <2>2. m \in ToReceiver /\ toR[n] \in ToReceiver
    BY <1>t, <2>1, ChannelTypes, FromFrames
  <2>3. m.type = "DATA"
    BY <2>1, <2>2 DEF ToReceiver, AcceptFrame, DataFrame, EndFrame, FailFrame
  <2>4. toR'[i] = m \/ Old
    BY <1>t, <2>1, <2>2, ElementsKept
  <2> QED BY <2>3, <2>4
<1>5. CASE SenderAccept
  <2>1. PICK n \in Nat : toR' = Append(toR, [type |-> "ACCEPT", token |-> SenderToken, total |-> n])
    <3>1. Head(toS) \in ToSender
      BY <1>5, <1>t, ChannelTypes DEF SenderAccept
    <3> QED BY <3>1, <1>5, FromFrames DEF SenderAccept
  <2> QED BY <2>1, <1>a, IntoFrames
<1>6. CASE SenderRefuse \/ SenderAbort
  <2>1. Fail.type = "FAIL"
    BY DEF Fail
  <2> QED BY <1>6, <2>1, <1>1, <1>a, IntoFrames DEF SenderRefuse, SenderAbort, ToRIfUp
<1>7. CASE SenderTransmit
  BY <1>7, <1>a, IntoFrames DEF SenderTransmit, TypeInv, OnAChunk
<1>8. CASE SenderFinish
  <2>1. hashed \in Files /\ source \in Files
    BY DEF TypeInv, TypeOK
  <2> QED BY <1>8, <2>1, <1>a, IntoFrames DEF SenderFinish
<1>9. SenderStep => \/ UNCHANGED toR \/ SenderAccept \/ SenderRefuse \/ SenderAbort
                    \/ SenderTransmit \/ SenderFinish
  BY DEF SenderStep, SenderListen, SenderHandshakeRaises, SenderStartFile, SenderGetAck,
     SenderGetNack, SenderGetResume, SenderGetFail, SenderGetTorn, SenderTimeout, SenderClose,
     netVars
<1>10. ReceiverStep => UNCHANGED toR \/ (toR # <<>> /\ toR' = Tail(toR))
  BY DEF TypeInv, EndAtHand, ReceiverStep, ReceiverInitiate, ReceiverAccepted,
     ReceiverAssemblerRaises, ReceiverRefused, ReceiverHandshakeRaises, ReceiverStartLoop,
     ReceiverStoreChunk, ReceiverChunkOutOfRange, ReceiverNackChunk, ReceiverGiveUpChunk,
     ReceiverEndIncomplete, ReceiverWriteFile, ReceiverVerifyFile, ReceiverLoopFails,
     ReceiverRequestResume, ReceiverClose, ChunkArrives, EndArrives, netVars
<1> QED
  BY <1>1, <1>2, <1>3, <1>4, <1>5, <1>6, <1>7, <1>8, <1>9, <1>10
  DEF Next, NetworkStep, Reset, ResetByClosed, EditSource, Stop, vars, netVars

LEMMA PromiseStep == PromiseInv /\ [Next]_vars => PromiseInv'
<1> SUFFICES ASSUME PromiseInv, [Next]_vars PROVE PromiseInv'
  OBVIOUS
<1>1. TypeInv'
  BY TypeStep, EndAtHandStep DEF PromiseInv, TypeInv
<1>2. EndIsPromise'
  <2> SUFFICES ASSUME NEW i \in DOMAIN toR', toR'[i].type = "END"
               PROVE  toR'[i].hash = hashed' /\ SenderSettled'
    BY DEF EndIsPromise
  <2>1. CASE \E j \in DOMAIN toR : toR[j] = toR'[i]
    BY <2>1, SenderEnded DEF PromiseInv, EndIsPromise, SenderSettled
  <2>2. CASE SenderFinish /\ toR'[i].hash = hashed
    BY <2>2 DEF SenderFinish, SenderSettled
  <2> QED BY <2>1, <2>2, EndFrames DEF PromiseInv
<1>3. CompletedIsPromise'
  <2> SUFFICES ASSUME rState' = "COMPLETED" PROVE CompletedIsPromise'
    BY DEF CompletedIsPromise
  <2>1. CASE rState = "COMPLETED"
    BY <2>1, SenderEnded, ReceiverEnded DEF PromiseInv, CompletedIsPromise, SenderSettled
  <2>2. CASE rState # "COMPLETED"
    <3>1. ReceiverVerifyFile
      BY <2>2 DEF Next, SenderStep, ReceiverStep, NetworkStep, Stop, vars, sVars, rVars, netVars,
         SenderListen, SenderAccept, SenderRefuse, SenderHandshakeRaises, SenderStartFile,
         SenderTransmit, SenderGetAck, SenderGetNack, SenderGetResume, SenderGetFail,
         SenderGetTorn, SenderTimeout, SenderFinish, SenderAbort, SenderClose, ReceiverInitiate,
         ReceiverAccepted, ReceiverAssemblerRaises, ReceiverRefused, ReceiverHandshakeRaises,
         ReceiverStartLoop, ReceiverStoreChunk, ReceiverChunkOutOfRange, ReceiverNackChunk,
         ReceiverGiveUpChunk, ReceiverEndIncomplete, ReceiverWriteFile, ReceiverLoopFails,
         ReceiverRequestResume, ReceiverClose, CorruptChunk, Reset, ResetByClosed, LoseTails,
         EditSource
    <3>2. /\ file' = Head(toR).hash /\ rToken' = SenderToken /\ rPc' = "ended"
          /\ UNCHANGED <<sState, sPc, hashed>>
      BY <3>1 DEF ReceiverVerifyFile, VerifyFile, sVars
    <3>3. Head(toR).hash = hashed /\ SenderSettled
      <4>1. toR # <<>> /\ Head(toR).type = "END" /\ toR \in Seq(ToReceiver)
        BY <3>1 DEF PromiseInv, TypeInv, TypeOK, EndAtHand, ReceiverVerifyFile
      <4>2. 1 \in DOMAIN toR /\ Head(toR) = toR[1]
        BY <4>1, HeadTailProperties, LenProperties, EmptySeq
      <4> QED BY <4>1, <4>2 DEF PromiseInv, EndIsPromise
    <3> QED BY <3>2, <3>3 DEF CompletedIsPromise, SenderSettled
  <2> QED BY <2>1, <2>2
<1> QED BY <1>1, <1>2, <1>3 DEF PromiseInv

(***************************************************************************)
(* A receiver that reports COMPLETED holds exactly the file the sender     *)
(* hashed before it sent the first chunk, whatever was lost, damaged,      *)
(* repeated or edited on the way, and the sender has reported COMPLETED.   *)
(***************************************************************************)
THEOREM DeliveryCorrect == Spec => []DeliveredIsPromised
<1>1. Init => PromiseInv
  <2> SUFFICES ASSUME Init PROVE PromiseInv
    OBVIOUS
  <2>1. DOMAIN toR = {}
    BY DEF Init
  <2> QED BY <2>1, TypeInit DEF Init, PromiseInv, EndIsPromise, CompletedIsPromise
<1>2. PromiseInv => DeliveredIsPromised
  BY DEF PromiseInv, CompletedIsPromise, SenderSettled, DeliveredIsPromised
<1> QED BY <1>1, <1>2, PromiseStep, PTL DEF Spec

-----------------------------------------------------------------------------
(***************************************************************************)
(* Every step is a step of FileDelivery, or changes nothing it speaks of.  *)
(***************************************************************************)
SenderReports ==
  /\ sPc # "ended" /\ sPc' = "ended"
  /\ UNCHANGED <<source, hashed, rPc, rState, file>>

ReceiverReportsFailure ==
  /\ rPc # "ended" /\ rPc' = "ended" /\ rState' # "COMPLETED"
  /\ UNCHANGED <<source, hashed, sPc, sState, file>>

Unseen ==
  /\ UNCHANGED <<source, hashed, file>>
  /\ UNCHANGED <<sPc, sState>> \/ (sPc # "ended" /\ sPc' # "ended")
  /\ UNCHANGED <<rPc, rState>> \/ (rPc # "ended" /\ rPc' # "ended")

LEMMA SenderVisible ==
  ASSUME SenderStep
  PROVE  SenderStartFile \/ SenderReports \/ Unseen
<1> USE DEF rVars, SenderReports, Unseen
<1>1. SenderListen \/ SenderAccept \/ SenderTransmit \/ SenderGetNack \/ SenderGetResume
        \/ SenderGetFail \/ SenderTimeout \/ SenderClose => Unseen
  BY DEF sVars, SenderListen, SenderAccept, SenderTransmit, SenderGetNack, SenderGetResume,
     SenderGetFail, SenderTimeout, SenderClose, NextAttempt
<1>2. SenderGetAck => Unseen
  BY DEF SenderGetAck, GoToChunk
<1>3. SenderRefuse \/ SenderHandshakeRaises \/ SenderGetTorn \/ SenderFinish \/ SenderAbort
        => SenderReports
  BY DEF SenderRefuse, SenderHandshakeRaises, SenderGetTorn, SenderFinish, SenderAbort
<1> QED BY <1>1, <1>2, <1>3 DEF SenderStep

LEMMA ReceiverVisible ==
  ASSUME CompletedIsPromise, ReceiverStep
  PROVE  ReceiverWriteFile \/ ReceiverVerifyFile \/ ReceiverReportsFailure \/ Unseen
<1> USE DEF sVars, ReceiverReportsFailure, Unseen, CompletedIsPromise
<1>1. ReceiverInitiate \/ ReceiverAccepted \/ ReceiverStartLoop \/ ReceiverRequestResume
        \/ ReceiverClose => Unseen
  BY DEF rVars, ReceiverInitiate, ReceiverAccepted, ReceiverStartLoop, ReceiverRequestResume,
     ReceiverClose
<1>2. ReceiverAssemblerRaises \/ ReceiverRefused \/ ReceiverHandshakeRaises
        \/ ReceiverChunkOutOfRange \/ ReceiverGiveUpChunk \/ ReceiverEndIncomplete
        \/ ReceiverLoopFails => ReceiverReportsFailure
  BY DEF ReceiverAssemblerRaises, ReceiverRefused, ReceiverHandshakeRaises,
     ReceiverChunkOutOfRange, ReceiverGiveUpChunk, ReceiverEndIncomplete, ReceiverLoopFails,
     ChunkArrives, EndArrives
<1>3. ReceiverStoreChunk \/ ReceiverNackChunk => ReceiverReportsFailure \/ Unseen
  BY DEF ReceiverStoreChunk, ReceiverNackChunk, ChunkArrives
<1> QED BY <1>1, <1>2, <1>3 DEF ReceiverStep

LEMMA DeliveryStep ==
  ASSUME PromiseInv, [Next]_vars
  PROVE  [Delivery!Next]_(Delivery!vars)
<1> USE DEF Delivery!Next, Delivery!vars, Verdict
<1>1. CASE Unseen
  BY <1>1 DEF Unseen
<1>2. CASE EditSource
  <2>1. source' \in Delivery!Files
    <3>1. PICK c \in ChunkIds, b \in Blocks : source' = [source EXCEPT ![c] = b]
      BY <1>2, Zenon DEF EditSource
    <3>2. source \in Files
      BY DEF PromiseInv, TypeInv, TypeOK
    <3>3. source' \in Files
      BY <3>1, <3>2 DEF Files
    <3> QED BY <3>3 DEF Files, ChunkIds, Delivery!Files, Delivery!ChunkIds
  <2> QED BY <1>2, <2>1 DEF EditSource, sVars, rVars, Delivery!Edit
<1>3. CASE SenderStartFile
  <2>1. sPc = "ready" /\ sPc' \in {"send", "end"} /\ hashed' = source
        /\ UNCHANGED <<source, rPc, rState, file>>
    BY <1>3 DEF SenderStartFile, GoToChunk, rVars
  <2> QED BY <2>1 DEF Delivery!Promise
<1>4. CASE SenderReports
  BY <1>4 DEF SenderReports, Delivery!ReportSent
<1>5. CASE ReceiverReportsFailure
  BY <1>5 DEF ReceiverReportsFailure, Delivery!ReportFailed
<1>e. rPc = "verify" \/ EndArrives => SenderSettled /\ Head(toR).hash = hashed
  <2> SUFFICES ASSUME rPc = "verify" \/ EndArrives
               PROVE  SenderSettled /\ Head(toR).hash = hashed
    OBVIOUS
  <2>1. toR # <<>> /\ Head(toR).type = "END" /\ toR \in Seq(ToReceiver)
    BY DEF PromiseInv, TypeInv, TypeOK, EndAtHand, EndArrives
  <2>2. 1 \in DOMAIN toR /\ Head(toR) = toR[1]
    BY <2>1, HeadTailProperties, LenProperties, EmptySeq
  <2> QED BY <2>1, <2>2 DEF PromiseInv, EndIsPromise
<1>6. CASE ReceiverWriteFile
  <2>1. EndArrives /\ rPc = "loop" /\ rPc' = "verify" /\ file' = Prefix(chunks, total)
        /\ UNCHANGED <<source, hashed, sPc, sState>>
    BY <1>6 DEF ReceiverWriteFile, EndArrives, sVars
  <2>2. file' \in Delivery!PartialFiles
    BY <2>1 DEF PromiseInv, TypeInv, TypeOK, Prefix, ChunkIds, Delivery!PartialFiles,
       Delivery!ChunkIds
  <2> QED BY <1>e, <2>1, <2>2 DEF SenderSettled, Delivery!Write
<1>7. CASE ReceiverVerifyFile
  <2>1. rPc = "verify" /\ rPc' = "ended" /\ UNCHANGED <<source, hashed, sPc, sState>>
    BY <1>7 DEF ReceiverVerifyFile, sVars
  <2>2. CASE VerifyFile(Head(toR))
    <3>1. rState' = "COMPLETED" /\ file' = file /\ file = hashed
      BY <1>7, <1>e, <2>1, <2>2 DEF ReceiverVerifyFile, VerifyFile
    <3> QED BY <1>e, <2>1, <3>1 DEF SenderSettled, Delivery!ReportDelivered
  <2>3. CASE ~VerifyFile(Head(toR))
    <3>1. rState' = "FAILED" /\ file' = NoFile
      BY <1>7, <2>3 DEF ReceiverVerifyFile
    <3> QED BY <2>1, <3>1 DEF Delivery!ReportFailed
  <2> QED BY <2>2, <2>3
<1>8. CASE CorruptChunk \/ Reset \/ ResetByClosed \/ Stop \/ UNCHANGED vars
  BY <1>8 DEF CorruptChunk, Reset, ResetByClosed, LoseTails, Stop, vars, sVars, rVars
<1> QED
  BY <1>1, <1>2, <1>3, <1>4, <1>5, <1>6, <1>7, <1>8, SenderVisible, ReceiverVisible
  DEF Next, NetworkStep, PromiseInv

(***************************************************************************)
(* A transfer implements FileDelivery: each side reports once, the promise *)
(* stands once the sender has reported, and the output path is written     *)
(* only between the two reports, for every file and budget of faults.      *)
(***************************************************************************)
THEOREM DeliveryImplemented == Spec => ImplementsDelivery
<1>1. Init => PromiseInv /\ Delivery!Init
  <2> SUFFICES ASSUME Init PROVE PromiseInv /\ Delivery!Init
    OBVIOUS
  <2>1. DOMAIN toR = {}
    BY DEF Init
  <2>2. PromiseInv
    BY <2>1, TypeInit DEF Init, PromiseInv, EndIsPromise, CompletedIsPromise
  <2>3. file \in Delivery!PartialFiles \union {NoFile} /\ source \in Delivery!Files
    BY DEF Init, Prefix, ChunkIds, Delivery!PartialFiles, Delivery!Files, Delivery!ChunkIds
  <2> QED BY <2>2, <2>3 DEF Init, Delivery!Init, Verdict
<1> QED
  BY <1>1, PromiseStep, DeliveryStep, PTL DEF Spec, ImplementsDelivery, Delivery!Spec

-----------------------------------------------------------------------------
(***************************************************************************)
(* Every step leaves less to do.  The sender counts its attempts, and no   *)
(* more faults happen than the budget allows.                              *)
(***************************************************************************)
Budget ==
  /\ sPc \in {"send", "wait"} => attempt <= MaxRetries
  /\ sPc = "send" => attempt < MaxRetries
  /\ \A k \in Faults : used[k] <= Limit[k]

WorkInv == TypeInv /\ Budget

LEMMA FaultSpent ==
  ASSUME TypeOK, NEW k \in Faults, Spend(k)
  PROVE  /\ FaultsLeft' = FaultsLeft - 1
         /\ (\A j \in Faults : used[j] <= Limit[j]) => \A j \in Faults : used'[j] <= Limit[j]
<1>1. /\ used \in [Faults -> Nat] /\ used[k] < Limit[k]
      /\ used' = [used EXCEPT ![k] = used[k] + 1]
  BY DEF TypeOK, Spend
<1>2. \A j \in Faults : used'[j] = IF j = k THEN used[j] + 1 ELSE used[j]
  BY <1>1
<1>3. \A j \in Faults : Limit[j] \in Nat /\ used[j] \in Nat
  BY <1>1
<1>4. k \in {"timeout", "corrupt", "edit", "reset", "resume", "unlink"}
  BY DEF Faults
<1>5. FaultsLeft' = FaultsLeft - 1
  <2> DEFINE left(j) == Limit[j] - used[j]
             more(j) == IF j = k THEN 1 ELSE 0
  <2>1. \A j \in Faults : Limit[j] - used'[j] = left(j) - more(j) /\ left(j) \in Int
    BY <1>2, <1>3
  <2>2. more("timeout") + more("corrupt") + more("edit") + more("reset") + more("resume")
          + more("unlink") = 1
    BY <1>4
  <2>3. \A j \in Faults : more(j) \in Int
    OBVIOUS
  <2>4. {"timeout", "corrupt", "edit", "reset", "resume", "unlink"} \subseteq Faults
    BY DEF Faults
  <2>5. FaultsLeft = left("timeout") + left("corrupt") + left("edit") + left("reset")
                      + left("resume") + left("unlink")
    BY DEF FaultsLeft
  <2>6. FaultsLeft' = (left("timeout") - more("timeout")) + (left("corrupt") - more("corrupt"))
                       + (left("edit") - more("edit")) + (left("reset") - more("reset"))
                       + (left("resume") - more("resume")) + (left("unlink") - more("unlink"))
    BY <2>1, <2>4 DEF FaultsLeft
  <2> HIDE DEF left, more
  <2> QED BY <2>1, <2>2, <2>3, <2>4, <2>5, <2>6
<1> QED BY <1>1, <1>2, <1>3, <1>5

LEMMA BudgetStep == WorkInv /\ [Next]_vars => WorkInv'
<1> SUFFICES ASSUME WorkInv, [Next]_vars PROVE Budget'
  BY TypeStep, EndAtHandStep DEF WorkInv, TypeInv
<1>t. TypeOK /\ Budget
  BY DEF WorkInv, TypeInv
<1>u. \A k \in Faults : Spend(k) => \A j \in Faults : used'[j] <= Limit[j]
  BY <1>t, FaultSpent DEF Budget
<1>k. {"timeout", "corrupt", "edit", "reset", "resume", "unlink"} \subseteq Faults
  BY DEF Faults
\* Only the sender's loop counts attempts.
<1>a. \/ UNCHANGED <<sPc, attempt>>
      \/ sPc' \notin {"send", "wait"}
      \/ \E c : GoToChunk(c)
      \/ SenderTransmit
      \/ NextAttempt /\ UNCHANGED attempt /\ sPc = "wait"
  BY DEF Next, SenderStep, ReceiverStep, NetworkStep, SenderListen, SenderAccept, SenderRefuse,
         SenderHandshakeRaises, SenderStartFile, SenderGetAck, SenderGetNack, SenderGetResume,
         SenderGetFail, SenderGetTorn, SenderTimeout, SenderFinish, SenderAbort, SenderClose,
         ReceiverInitiate, ReceiverAccepted, ReceiverAssemblerRaises, ReceiverRefused,
         ReceiverHandshakeRaises, ReceiverStartLoop, ReceiverStoreChunk, ReceiverChunkOutOfRange,
         ReceiverNackChunk, ReceiverGiveUpChunk, ReceiverEndIncomplete, ReceiverWriteFile,
         ReceiverVerifyFile, ReceiverLoopFails, ReceiverRequestResume, ReceiverClose,
         CorruptChunk, Reset, ResetByClosed, LoseTails, EditSource, Stop, vars, sVars
<1>b. \A j \in Faults : used'[j] <= Limit[j]
  <2>1. used' = used \/ \E k \in Faults : Spend(k)
    BY <1>k DEF Next, SenderStep, ReceiverStep, NetworkStep, SenderListen, SenderAccept,
         SenderRefuse, SenderHandshakeRaises, SenderStartFile, SenderTransmit, SenderGetAck,
         SenderGetNack, SenderGetResume, SenderGetFail, SenderGetTorn, SenderTimeout,
         SenderFinish, SenderAbort, SenderClose,
         ReceiverInitiate, ReceiverAccepted, ReceiverAssemblerRaises, ReceiverRefused,
         ReceiverHandshakeRaises, ReceiverStartLoop, ReceiverStoreChunk, ReceiverChunkOutOfRange,
         ReceiverNackChunk, ReceiverGiveUpChunk, ReceiverEndIncomplete, ReceiverWriteFile,
         ReceiverVerifyFile, ReceiverLoopFails, ReceiverRequestResume, ReceiverClose,
         CorruptChunk, Reset, ResetByClosed, LoseTails, EditSource, Stop, vars
  <2> QED BY <2>1, <1>t, <1>u DEF Budget
<1>c. attempt \in Nat
  BY <1>t DEF TypeOK
<1> QED BY <1>a, <1>b, <1>c, <1>t DEF Budget, GoToChunk, SenderTransmit, NextAttempt

LEMMA Lengths ==
  ASSUME NEW S, NEW s \in Seq(S)
  PROVE  /\ Len(s) \in Nat
         /\ \A m \in S : Len(Append(s, m)) = Len(s) + 1
         /\ s # <<>> => Len(Tail(s)) = Len(s) - 1
         /\ \A i \in 0 .. Len(s) : Len(SubSeq(s, 1, i)) \in 0 .. Len(s)
         /\ \A i \in DOMAIN s, m \in S : Len([s EXCEPT ![i] = m]) = Len(s)
<1>1. Len(s) \in Nat
  BY LenProperties
<1>2. \A m \in S : Len(Append(s, m)) = Len(s) + 1
  BY AppendProperties
<1>3. s # <<>> => Len(Tail(s)) = Len(s) - 1
  BY HeadTailProperties
<1>4. \A i \in 0 .. Len(s) : Len(SubSeq(s, 1, i)) \in 0 .. Len(s)
  <2> TAKE i \in 0 .. Len(s)
  <2>1. \A j \in 1 .. i : s[j] \in S
    BY ElementOfSeq, LenProperties
  <2> QED BY <2>1, <1>1, SubSeqProperties
<1>5. \A i \in DOMAIN s, m \in S : Len([s EXCEPT ![i] = m]) = Len(s)
  BY ExceptSeq, LenProperties
<1> QED BY <1>1, <1>2, <1>3, <1>4, <1>5

LEMMA ProductSteps ==
  ASSUME NEW n \in Nat, NEW m \in Nat, NEW k \in Nat, k < n
  PROVE  /\ n * m \in Nat /\ (n - k) * m \in Nat
         /\ (n - k) * m >= m /\ (n - k) * m <= n * m
         /\ (n - (k + 1)) * m = (n - k) * m - m
  BY SMT

LEMMA WorkIsNat ==
  ASSUME WorkInv
  PROVE  /\ FaultsLeft \in Nat /\ SendsLeft \in Nat /\ SenderStage \in Nat
         /\ ReceiverStage \in Nat /\ OpenEnds \in Nat /\ Len(toR) \in Nat /\ Len(toS) \in Nat
         /\ Work \in Nat
<1> USE DEF WorkInv, TypeInv
<1>1. FaultsLeft \in Nat
  <2>1. \A k \in Faults : Limit[k] - used[k] \in Nat
    BY DEF TypeOK, Budget
  <2> QED BY <2>1 DEF FaultsLeft, Faults
<1>2. SendsLeft \in Nat
  <2>1. NumChunks * MaxRetries \in Nat
    BY ProductSteps
  <2>2. CASE sPc \in {"send", "wait"}
    <3>1. next \in Nat /\ next < NumChunks /\ attempt \in Nat /\ attempt <= MaxRetries
      BY <2>2 DEF OnAChunk, ChunkIds, Budget, TypeOK
    <3>2. /\ (NumChunks - next) * MaxRetries \in Nat
          /\ (NumChunks - next) * MaxRetries >= MaxRetries
      BY <3>1, ProductSteps
    <3> QED BY <2>2, <3>1, <3>2 DEF SendsLeft
  <2> QED BY <2>1, <2>2 DEF SendsLeft
<1>3. SenderStage \in Nat /\ ReceiverStage \in Nat /\ OpenEnds \in Nat
  BY DEF SenderStage, ReceiverStage, OpenEnds
<1>4. Len(toR) \in Nat /\ Len(toS) \in Nat
  BY Lengths DEF TypeOK
<1> QED BY <1>1, <1>2, <1>3, <1>4 DEF Work

LEMMA WorkStep ==
  ASSUME WorkInv, Next
  PROVE  Work' < Work \/ UNCHANGED vars
<1> USE DEF sVars, rVars, netVars
<1>t. TypeOK /\ OnAChunk /\ Budget
  BY DEF WorkInv, TypeInv
<1>n. /\ FaultsLeft \in Nat /\ SendsLeft \in Nat /\ SenderStage \in Nat
      /\ ReceiverStage \in Nat /\ OpenEnds \in Nat /\ Len(toR) \in Nat /\ Len(toS) \in Nat
  BY WorkIsNat
<1>w. /\ Work = 2 * FaultsLeft + 3 * SendsLeft + SenderStage + ReceiverStage + 2 * Len(toR)
                + Len(toS) + OpenEnds
      /\ Work' = 2 * FaultsLeft' + 3 * SendsLeft' + SenderStage' + ReceiverStage' + 2 * Len(toR')
                + Len(toS') + OpenEnds'
  BY DEF Work
\* A sum falls when no part of it grows and one part falls.
<1>f. ASSUME FaultsLeft' \in Int, SendsLeft' \in Int, SenderStage' \in Int,
             ReceiverStage' \in Int, Len(toR') \in Int, Len(toS') \in Int, OpenEnds' \in Int,
             FaultsLeft' <= FaultsLeft, SendsLeft' <= SendsLeft, OpenEnds' <= OpenEnds,
             SenderStage' <= SenderStage, ReceiverStage' <= ReceiverStage,
             Len(toR') <= Len(toR), Len(toS') <= Len(toS),
             \/ FaultsLeft' < FaultsLeft \/ OpenEnds' < OpenEnds
             \/ SenderStage' < SenderStage \/ ReceiverStage' < ReceiverStage
             \/ Len(toR') < Len(toR) \/ Len(toS') < Len(toS)
      PROVE  Work' < Work
  <2> DEFINE f == FaultsLeft'  s == SendsLeft'  o == OpenEnds'
             a == SenderStage'  r == ReceiverStage'  x == Len(toR')  y == Len(toS')
  <2>1. /\ f \in Int /\ s \in Int /\ o \in Int /\ a \in Int /\ r \in Int /\ x \in Int
        /\ y \in Int
    BY <1>f
  <2>2. /\ f <= FaultsLeft /\ s <= SendsLeft /\ o <= OpenEnds /\ a <= SenderStage
        /\ r <= ReceiverStage /\ x <= Len(toR) /\ y <= Len(toS)
    BY <1>f
  <2>3. \/ f < FaultsLeft \/ o < OpenEnds \/ a < SenderStage \/ r < ReceiverStage
        \/ x < Len(toR) \/ y < Len(toS)
    BY <1>f
  <2>4. Work' = 2 * f + 3 * s + a + r + 2 * x + y + o
    BY <1>w
  <2>5. 2 * f + 3 * s + a + r + 2 * x + y + o < Work
    <3> HIDE DEF f, s, o, a, r, x, y
    <3> QED BY <2>1, <2>2, <2>3, <1>n, <1>w
  <2> QED BY <2>4, <2>5
<1>k. /\ \A k \in {"timeout", "corrupt", "edit", "reset", "resume", "unlink"} :
           Spend(k) => FaultsLeft' = FaultsLeft - 1
      /\ UNCHANGED used => FaultsLeft' = FaultsLeft
  BY <1>t, FaultSpent DEF Faults, FaultsLeft
<1>o. UNCHANGED <<up, closed>> => OpenEnds' = OpenEnds
  BY DEF OpenEnds
<1>s. UNCHANGED <<sPc, next, attempt>> => SendsLeft' = SendsLeft /\ SenderStage' = SenderStage
  BY DEF SendsLeft, SenderStage
<1>r. UNCHANGED rPc => ReceiverStage' = ReceiverStage
  BY DEF ReceiverStage
<1>e. /\ sPc' \in {"abort", "end"} => SendsLeft' = 0 /\ SenderStage' = 3
      /\ sPc' = "ended" => SendsLeft' = 0 /\ SenderStage' = 0
      /\ sPc \in {"send", "wait", "abort", "end"} => SenderStage = 3
      /\ sPc = "ready" => SenderStage = 4 /\ SendsLeft = NumChunks * MaxRetries
      /\ sPc = "recvReq" => SenderStage = 6 /\ SendsLeft = NumChunks * MaxRetries
  BY DEF SendsLeft, SenderStage
<1>p. /\ rPc' = "ended" => ReceiverStage' = 0
      /\ rPc = "verify" => ReceiverStage = 1
      /\ rPc = "loop" => ReceiverStage = 2
      /\ rPc = "ready" => ReceiverStage = 3
      /\ rPc = "accept" => ReceiverStage = 4
      /\ rPc = "idle" => ReceiverStage = 6
      /\ rPc' = "verify" => ReceiverStage' = 1
      /\ rPc' = "loop" => ReceiverStage' = 2
      /\ rPc' = "ready" => ReceiverStage' = 3
      /\ rPc' = "accept" => ReceiverStage' = 4
  BY DEF ReceiverStage
\* The channels.
<1>l. /\ \A m \in ToReceiver : Len(Append(toR, m)) = Len(toR) + 1
      /\ \A m \in ToSender : Len(Append(toS, m)) = Len(toS) + 1
      /\ toR # <<>> => Len(Tail(toR)) = Len(toR) - 1
      /\ toS # <<>> => Len(Tail(toS)) = Len(toS) - 1
  BY <1>t, Lengths DEF TypeOK
<1>x. ASSUME LoseTails
      PROVE  Len(toR') <= Len(toR) /\ Len(toS') <= Len(toS) /\ Len(toR') \in Nat /\ Len(toS') \in Nat
  <2>1. PICK i \in HeadRead .. Len(toR) : toR' = SubSeq(toR, 1, i)
    BY <1>x DEF LoseTails
  <2>2. PICK j \in 0 .. Len(toS) : toS' = SubSeq(toS, 1, j)
    BY <1>x DEF LoseTails
  <2>3. i \in 0 .. Len(toR)
    BY <1>n DEF HeadRead
  <2>4. Len(SubSeq(toR, 1, i)) \in 0 .. Len(toR) /\ Len(SubSeq(toS, 1, j)) \in 0 .. Len(toS)
    BY <2>2, <2>3, <1>t, Lengths DEF TypeOK
  <2> QED BY <2>1, <2>2, <2>4, <1>n
\* The loop of send_file() goes to chunk c.
<1>g. ASSUME NEW c \in Nat, GoToChunk(c)
      PROVE  /\ SenderStage' = 3 /\ SendsLeft' \in Nat
             /\ SendsLeft' <= NumChunks * MaxRetries
             /\ c < NumChunks => SendsLeft' = (NumChunks - c) * MaxRetries
             /\ c >= NumChunks => SendsLeft' = 0
  <2>1. CASE c < NumChunks
    <3>1. sPc' = "send" /\ next' = c /\ attempt' = 0
      BY <1>g, <2>1 DEF GoToChunk
    <3>2. (NumChunks - c) * MaxRetries \in Nat /\ (NumChunks - c) * MaxRetries <= NumChunks * MaxRetries
      BY <2>1, ProductSteps
    <3> QED BY <2>1, <3>1, <3>2 DEF SendsLeft, SenderStage
  <2>2. CASE c >= NumChunks
    <3>1. sPc' = "end"
      BY <1>g, <2>2 DEF GoToChunk
    <3>2. NumChunks * MaxRetries \in Nat
      BY SMT
    <3> QED BY <2>2, <3>1, <3>2 DEF SendsLeft, SenderStage
  <2> QED BY <2>1, <2>2
<1>1. CASE SenderListen
  <2>1. SendsLeft' = SendsLeft /\ SenderStage' = 6 /\ SenderStage = 7
    BY <1>1 DEF SenderListen, SendsLeft, SenderStage
  <2> QED BY <1>1, <2>1, <1>n, <1>w, <1>k, <1>o, <1>r DEF SenderListen
<1>2. CASE SenderAccept
  <2>1. toS # <<>> /\ Head(toS) \in ToSender
    BY <1>2, <1>t, ChannelTypes DEF SenderAccept, TypeOK
  <2>2. Len(toR') = Len(toR) + 1
    <3> DEFINE n == IF Head(toS).type = "REQ" THEN Head(toS).total ELSE 0
    <3>1. n \in Nat
      BY <2>1, FromFrames
    <3>2. toR' = Append(toR, [type |-> "ACCEPT", token |-> SenderToken, total |-> n])
      BY <1>2 DEF SenderAccept
    <3> HIDE DEF n
    <3> QED BY <3>1, <3>2, <1>l, IntoFrames
  <2>3. SendsLeft' = SendsLeft /\ SenderStage' = 4 /\ SenderStage = 6
    BY <1>2 DEF SenderAccept, SendsLeft, SenderStage
  <2>4. Len(toS') = Len(toS) - 1
    BY <1>2, <2>1, <1>l DEF SenderAccept
  <2> QED BY <1>2, <2>2, <2>3, <2>4, <1>n, <1>w, <1>k, <1>o, <1>r DEF SenderAccept
<1>3. CASE SenderRefuse
  <2>1. Len(toR') = Len(toR) + 1 /\ Len(toS') = Len(toS) - 1
    BY <1>3, <1>l, IntoFrames DEF SenderRefuse
  <2>2. SendsLeft' = 0 /\ SenderStage' = 0 /\ SenderStage = 6
    BY <1>3, <1>e DEF SenderRefuse
  <2>3. /\ FaultsLeft' = FaultsLeft /\ OpenEnds' = OpenEnds
        /\ ReceiverStage' = ReceiverStage
    BY <1>3, <1>k, <1>o, <1>r DEF SenderRefuse
  <2> QED BY <2>1, <2>2, <2>3, <1>n, <1>w
<1>4. CASE SenderHandshakeRaises
  <2>1. Len(toS') <= Len(toS) /\ Len(toS') \in Int
    BY <1>4, <1>l, <1>n DEF SenderHandshakeRaises
  <2>2. FaultsLeft' <= FaultsLeft /\ FaultsLeft' \in Int
    BY <1>4, <1>k, <1>n DEF SenderHandshakeRaises
  <2>3. SendsLeft' = 0 /\ SenderStage' = 0 /\ SenderStage > 0
    BY <1>4, <1>e DEF SenderHandshakeRaises
  <2>4. OpenEnds' = OpenEnds /\ ReceiverStage' = ReceiverStage /\ toR' = toR
    BY <1>4, <1>o, <1>r DEF SenderHandshakeRaises
  <2> QED BY <2>1, <2>2, <2>3, <2>4, <1>n, <1>f
<1>5. CASE SenderStartFile
  <2>1. SenderStage' = 3 /\ SendsLeft' \in Nat /\ SendsLeft' <= NumChunks * MaxRetries
    BY <1>5, <1>t, <1>g DEF SenderStartFile, TypeOK
  <2>2. SenderStage = 4 /\ SendsLeft = NumChunks * MaxRetries
    BY <1>5, <1>e DEF SenderStartFile
  <2>3. /\ FaultsLeft' = FaultsLeft /\ OpenEnds' = OpenEnds
        /\ ReceiverStage' = ReceiverStage /\ Len(toR') = Len(toR) /\ Len(toS') = Len(toS)
    BY <1>5, <1>k, <1>o, <1>r DEF SenderStartFile
  <2> QED BY <2>1, <2>2, <2>3, <1>n, <1>f
<1>6. CASE SenderTransmit
  <2>1. next \in ChunkIds /\ data \in Blocks /\ attempt \in Nat /\ next \in Nat /\ next < NumChunks
    BY <1>6, <1>t DEF SenderTransmit, OnAChunk, TypeOK, ChunkIds
  <2>2. Len(toR') = Len(toR) + 1
    BY <1>6, <2>1, <1>l, IntoFrames DEF SenderTransmit
  <2>3. (NumChunks - next) * MaxRetries \in Nat
    BY <2>1, ProductSteps
  <2>4. SendsLeft' = SendsLeft - 1 /\ SenderStage' = SenderStage
    BY <1>6, <2>1, <2>3 DEF SenderTransmit, SendsLeft, SenderStage
  <2> QED BY <1>6, <2>2, <2>4, <1>n, <1>w, <1>k, <1>o, <1>r DEF SenderTransmit
<1>7. CASE SenderGetAck
  <2>1. /\ next \in Nat /\ next < NumChunks /\ attempt \in Nat /\ attempt <= MaxRetries
        /\ sPc = "wait"
    BY <1>7, <1>t DEF SenderGetAck, OnAChunk, TypeOK, ChunkIds, Budget
  <2>2. /\ (NumChunks - (next + 1)) * MaxRetries = (NumChunks - next) * MaxRetries - MaxRetries
        /\ (NumChunks - next) * MaxRetries \in Nat
    BY <2>1, ProductSteps
  <2>3. SendsLeft = (NumChunks - next) * MaxRetries - attempt
    BY <2>1 DEF SendsLeft
  <2>4. /\ SenderStage' = 3 /\ SendsLeft' \in Nat
        /\ next + 1 < NumChunks => SendsLeft' = (NumChunks - (next + 1)) * MaxRetries
        /\ next + 1 >= NumChunks => SendsLeft' = 0
    <3>1. next + 1 \in Nat /\ GoToChunk(next + 1)
      BY <1>7, <2>1 DEF SenderGetAck
    <3> QED BY <3>1, <1>g
  <2>5. SendsLeft' <= SendsLeft
    BY <2>1, <2>2, <2>3, <2>4, <1>n
  <2>6. Len(toS') = Len(toS) - 1 /\ SenderStage = 3
    BY <1>7, <1>l, <1>e DEF SenderGetAck
  <2>7. /\ FaultsLeft' = FaultsLeft /\ OpenEnds' = OpenEnds
        /\ ReceiverStage' = ReceiverStage /\ Len(toR') = Len(toR)
    BY <1>7, <1>k, <1>o, <1>r DEF SenderGetAck
  <2> QED BY <2>4, <2>5, <2>6, <2>7, <1>n, <1>f
\* The next attempt, or none.
<1>8. ASSUME sPc = "wait", NextAttempt, UNCHANGED <<next, attempt>>
      PROVE  SendsLeft' \in Nat /\ SendsLeft' <= SendsLeft /\ SenderStage' = SenderStage
  <2>1. CASE sPc' = "send"
    BY <1>8, <2>1, <1>n DEF SendsLeft, SenderStage
  <2>2. CASE sPc' = "abort"
    BY <1>8, <2>2, <1>n, <1>e
  <2> QED BY <1>8, <2>1, <2>2 DEF NextAttempt
<1>9. CASE SenderGetNack
  <2>1. Len(toS') = Len(toS) - 1
    BY <1>9, <1>l DEF SenderGetNack
  <2>2. SendsLeft' \in Nat /\ SendsLeft' <= SendsLeft /\ SenderStage' = SenderStage
    BY <1>9, <1>8 DEF SenderGetNack
  <2>3. /\ FaultsLeft' = FaultsLeft /\ OpenEnds' = OpenEnds
        /\ ReceiverStage' = ReceiverStage /\ Len(toR') = Len(toR)
    BY <1>9, <1>k, <1>o, <1>r DEF SenderGetNack
  <2> QED BY <2>1, <2>2, <2>3, <1>n, <1>f
<1>10. CASE SenderGetResume \/ SenderGetFail
  <2>1. Len(toS') = Len(toS) - 1 /\ SenderStage' = 3 /\ SendsLeft' = 0 /\ SenderStage = 3
    BY <1>10, <1>l, <1>e DEF SenderGetResume, SenderGetFail
  <2> QED BY <1>10, <2>1, <1>n, <1>w, <1>k, <1>o, <1>r DEF SenderGetResume, SenderGetFail
<1>11. CASE SenderGetTorn
  <2>1. Len(toS') = Len(toS) - 1 /\ SenderStage' = 0 /\ SendsLeft' = 0 /\ SenderStage = 3
    BY <1>11, <1>l, <1>e DEF SenderGetTorn
  <2> QED BY <1>11, <2>1, <1>n, <1>w, <1>k, <1>o, <1>r DEF SenderGetTorn
<1>12. CASE SenderTimeout
  <2>1. Len(toS') = Len(toS)
    <3>1. CASE toS # <<>> /\ toS' = [toS EXCEPT ![1] = Torn]
      <4>1. 1 \in DOMAIN toS
        BY <3>1, <1>t, EmptySeq, LenProperties DEF TypeOK
      <4> QED BY <3>1, <4>1, <1>t, Lengths, IntoFrames DEF TypeOK
    <3> QED BY <1>12, <3>1 DEF SenderTimeout
  <2>2. SendsLeft' \in Nat /\ SendsLeft' <= SendsLeft /\ SenderStage' = SenderStage
    BY <1>12, <1>8 DEF SenderTimeout
  <2>3. /\ FaultsLeft' = FaultsLeft - 1 /\ OpenEnds' = OpenEnds
        /\ ReceiverStage' = ReceiverStage /\ Len(toR') = Len(toR)
    BY <1>12, <1>k, <1>o, <1>r DEF SenderTimeout
  <2> QED BY <2>1, <2>2, <2>3, <1>n, <1>f
<1>13. CASE SenderFinish
  <2>1. Len(toR') = Len(toR) + 1
    BY <1>13, <1>t, <1>l, IntoFrames DEF SenderFinish, TypeOK
  <2>2. SenderStage' = 0 /\ SendsLeft' = 0 /\ SenderStage = 3
    BY <1>13, <1>e DEF SenderFinish
  <2> QED BY <1>13, <2>1, <2>2, <1>n, <1>w, <1>k, <1>o, <1>r DEF SenderFinish
<1>14. CASE SenderAbort
  <2>1. Len(toR') <= Len(toR) + 1 /\ Len(toR') \in Int
    BY <1>14, <1>l, <1>n, IntoFrames DEF SenderAbort, ToRIfUp
  <2>2. SenderStage' = 0 /\ SendsLeft' = 0 /\ SenderStage = 3
    BY <1>14, <1>e DEF SenderAbort
  <2> QED BY <1>14, <2>1, <2>2, <1>n, <1>w, <1>k, <1>o, <1>r DEF SenderAbort
<1>15. CASE SenderClose \/ ReceiverClose
  <2>1. OpenEnds' = OpenEnds - 1
    BY <1>15 DEF SenderClose, ReceiverClose, OpenEnds
  <2>2. /\ FaultsLeft' = FaultsLeft /\ SendsLeft' = SendsLeft /\ SenderStage' = SenderStage
        /\ ReceiverStage' = ReceiverStage /\ Len(toR') = Len(toR) /\ Len(toS') = Len(toS)
    BY <1>15, <1>k, <1>s, <1>r DEF SenderClose, ReceiverClose
  <2> QED BY <2>1, <2>2, <1>n, <1>w
<1>16. CASE ReceiverInitiate
  <2>1. Len(toS') = Len(toS) + 1
    <3>1. rToken \in Tokens /\ rResume \in Nat
      BY <1>t DEF TypeOK, ChunkIds
    <3>2. CASE rResume > 0
      <4>1. toS' = Append(toS, [type |-> "RESUME", token |-> rToken, from |-> rResume])
        BY <1>16, <3>2 DEF ReceiverInitiate
      <4> QED BY <4>1, <3>1, <1>l, IntoFrames
    <3>3. CASE ~(rResume > 0)
      <4>1. PICK n \in Claims : toS' = Append(toS, [type |-> "REQ", token |-> rToken, total |-> n])
        BY <1>16, <3>3 DEF ReceiverInitiate
      <4> QED BY <4>1, <3>1, <1>l, IntoFrames
    <3> QED BY <3>2, <3>3
  <2>2. /\ FaultsLeft' = FaultsLeft /\ SendsLeft' = SendsLeft /\ SenderStage' = SenderStage
        /\ OpenEnds' = OpenEnds /\ Len(toR') = Len(toR)
        /\ ReceiverStage = 6 /\ ReceiverStage' = 4
    BY <1>16, <1>k, <1>o, <1>s, <1>p DEF ReceiverInitiate
  <2> QED BY <2>1, <2>2, <1>n, <1>w
<1>17. CASE ReceiverAccepted \/ ReceiverAssemblerRaises \/ ReceiverRefused
  <2>1. Len(toR') = Len(toR) - 1 /\ ReceiverStage' < ReceiverStage /\ ReceiverStage' \in Nat
    BY <1>17, <1>l, <1>p DEF ReceiverAccepted, ReceiverAssemblerRaises, ReceiverRefused
  <2>2. /\ FaultsLeft' = FaultsLeft /\ SendsLeft' = SendsLeft /\ SenderStage' = SenderStage
        /\ OpenEnds' = OpenEnds /\ Len(toS') = Len(toS)
    BY <1>17, <1>k, <1>o, <1>s DEF ReceiverAccepted, ReceiverAssemblerRaises, ReceiverRefused
  <2> QED BY <2>1, <2>2, <1>n, <1>w
<1>18. CASE ReceiverHandshakeRaises
  <2>1. FaultsLeft' <= FaultsLeft /\ FaultsLeft' \in Int /\ ReceiverStage' = 0 /\ ReceiverStage > 0
    BY <1>18, <1>k, <1>n, <1>p DEF ReceiverHandshakeRaises
  <2>2. /\ SendsLeft' = SendsLeft /\ SenderStage' = SenderStage
        /\ OpenEnds' = OpenEnds /\ Len(toS') = Len(toS) /\ Len(toR') = Len(toR)
    BY <1>18, <1>o, <1>s DEF ReceiverHandshakeRaises
  <2> QED BY <2>1, <2>2, <1>n, <1>f
<1>19. CASE ReceiverStartLoop
  BY <1>19, <1>n, <1>w, <1>k, <1>o, <1>s, <1>p DEF ReceiverStartLoop
\* A frame is taken, and answered with one frame at most.
<1>20. ASSUME rPc = "loop", rPc' \in {"loop", "ended"}, toR # <<>>, toR' = Tail(toR),
              toS' = toS \/ \E m \in ToSender : toS' = Append(toS, m),
              UNCHANGED <<sPc, next, attempt, up, closed, used>>
       PROVE  Work' < Work
  <2>1. Len(toR') = Len(toR) - 1 /\ (Len(toS') = Len(toS) \/ Len(toS') = Len(toS) + 1)
    BY <1>20, <1>l
  <2>2. ReceiverStage = 2 /\ (ReceiverStage' = 2 \/ ReceiverStage' = 0)
    BY <1>20, <1>p
  <2>3. /\ FaultsLeft' = FaultsLeft /\ SendsLeft' = SendsLeft /\ SenderStage' = SenderStage
        /\ OpenEnds' = OpenEnds
    BY <1>20, <1>k, <1>o, <1>s
  <2> QED BY <2>1, <2>2, <2>3, <1>n, <1>w
<1>21. ASSUME ChunkArrives PROVE Head(toR).id \in ChunkIds
  BY <1>21, <1>t, ChannelTypes, FromFrames DEF ChunkArrives, TypeOK
<1>22. CASE ReceiverStoreChunk
  <2>1. toS' = toS \/ \E m \in ToSender : toS' = Append(toS, m)
    BY <1>22, <1>21, IntoFrames DEF ReceiverStoreChunk
  <2> QED BY <1>22, <2>1, <1>20 DEF ReceiverStoreChunk, ChunkArrives
<1>23. CASE ReceiverChunkOutOfRange
  BY <1>23, <1>20 DEF ReceiverChunkOutOfRange, ChunkArrives
<1>24. CASE ReceiverNackChunk
  <2>1. toS' = toS \/ \E m \in ToSender : toS' = Append(toS, m)
    BY <1>24, <1>21, IntoFrames DEF ReceiverNackChunk
  <2> QED BY <1>24, <2>1, <1>20 DEF ReceiverNackChunk, ChunkArrives
<1>25. CASE ReceiverGiveUpChunk
  <2>1. toS' = toS \/ \E m \in ToSender : toS' = Append(toS, m)
    BY <1>25, IntoFrames DEF ReceiverGiveUpChunk
  <2> QED BY <1>25, <2>1, <1>20 DEF ReceiverGiveUpChunk, ChunkArrives
<1>26. CASE ReceiverEndIncomplete
  BY <1>26, <1>20 DEF ReceiverEndIncomplete, EndArrives
<1>27. CASE ReceiverWriteFile
  BY <1>27, <1>n, <1>w, <1>k, <1>o, <1>s, <1>p DEF ReceiverWriteFile, EndArrives
<1>28. CASE ReceiverVerifyFile
  <2>1. toR # <<>>
    BY <1>28 DEF ReceiverVerifyFile, WorkInv, TypeInv, EndAtHand
  <2>2. Len(toR') = Len(toR) - 1
    BY <1>28, <2>1, <1>l DEF ReceiverVerifyFile
  <2> QED BY <1>28, <2>2, <1>n, <1>w, <1>k, <1>o, <1>s, <1>p DEF ReceiverVerifyFile
<1>29. CASE ReceiverLoopFails
  <2>1. Len(toR') <= Len(toR) /\ Len(toR') \in Int
    BY <1>29, <1>l, <1>n DEF ReceiverLoopFails
  <2>2. FaultsLeft' <= FaultsLeft /\ FaultsLeft' \in Int
    BY <1>29, <1>k, <1>n DEF ReceiverLoopFails
  <2>3. /\ SendsLeft' = SendsLeft /\ SenderStage' = SenderStage
        /\ OpenEnds' = OpenEnds /\ Len(toS') = Len(toS)
        /\ ReceiverStage = 2 /\ ReceiverStage' = 0
    BY <1>29, <1>o, <1>s, <1>p DEF ReceiverLoopFails
  <2> QED BY <2>1, <2>2, <2>3, <1>n, <1>f
<1>30. CASE ReceiverRequestResume
  <2>1. PICK n \in 0 .. total : toS' = Append(toS, [type |-> "RESUME", token |-> rToken, from |-> n])
    BY <1>30 DEF ReceiverRequestResume
  <2>2. Len(toS') = Len(toS) + 1
    <3>1. n \in Nat /\ rToken \in Tokens
      BY <1>t DEF TypeOK
    <3> QED BY <2>1, <3>1, <1>l, IntoFrames
  <2> QED BY <1>30, <2>2, <1>n, <1>w, <1>k, <1>o, <1>s, <1>r DEF ReceiverRequestResume
<1>31. CASE CorruptChunk
  <2>1. PICK i \in DOMAIN toR :
          toR[i].type = "DATA" /\ toR' = [toR EXCEPT ![i] = [toR[i] EXCEPT !.intact = FALSE]]
    BY <1>31 DEF CorruptChunk
  <2>2. toR[i] \in ToReceiver /\ [toR[i] EXCEPT !.intact = FALSE] \in ToReceiver
    BY <2>1, <1>t, ChannelTypes, FromFrames DEF TypeOK
  <2>3. Len(toR') = Len(toR)
    BY <2>1, <2>2, <1>t, Lengths DEF TypeOK
  <2>4. /\ FaultsLeft' = FaultsLeft - 1 /\ SendsLeft' = SendsLeft
        /\ SenderStage' = SenderStage /\ ReceiverStage' = ReceiverStage
        /\ OpenEnds' = OpenEnds /\ Len(toS') = Len(toS)
    BY <1>31, <1>k, <1>o, <1>s, <1>r DEF CorruptChunk
  <2> QED BY <2>3, <2>4, <1>n, <1>w
<1>32. CASE Reset \/ ResetByClosed
  <2>1. LoseTails /\ up /\ UNCHANGED <<sPc, next, attempt, rPc, closed>> /\ ~up'
    BY <1>32 DEF Reset, ResetByClosed, LoseTails
  <2>2. OpenEnds' = OpenEnds - 1
    BY <2>1 DEF OpenEnds
  <2>3. FaultsLeft' <= FaultsLeft /\ FaultsLeft' \in Int
    BY <1>32, <1>k, <1>n DEF Reset, ResetByClosed
  <2>4. /\ SendsLeft' = SendsLeft /\ SenderStage' = SenderStage
        /\ ReceiverStage' = ReceiverStage
        /\ Len(toR') <= Len(toR) /\ Len(toS') <= Len(toS)
        /\ Len(toR') \in Nat /\ Len(toS') \in Nat
    BY <2>1, <1>x, <1>s, <1>r
  <2> QED BY <2>2, <2>3, <2>4, <1>n, <1>f
<1>33. CASE EditSource
  BY <1>33, <1>n, <1>w, <1>k, <1>o, <1>s, <1>r DEF EditSource
<1> QED
  BY <1>1, <1>2, <1>3, <1>4, <1>5, <1>6, <1>7, <1>9, <1>10, <1>11, <1>12, <1>13, <1>14, <1>15,
     <1>16, <1>17, <1>18, <1>19, <1>22, <1>23, <1>24, <1>25, <1>26, <1>27, <1>28, <1>29, <1>30,
     <1>31, <1>32, <1>33
  DEF Next, SenderStep, ReceiverStep, NetworkStep, Stop

\* Every step of a transfer uses up one of finitely many frames, attempts and
\* faults: for any number of chunks and of retries, neither side sends for ever,
\* and nothing the network does keeps them exchanging frames.
THEOREM TransferRunsOut == Spec => WorkRunsOut
<1>1. Init => WorkInv
  BY TypeInit DEF Init, WorkInv, Budget
<1>2. WorkInv => Work \in Nat
  BY WorkIsNat
<1>3. WorkInv /\ [Next]_vars => [Work' < Work]_vars
  BY WorkStep
<1>4. (Work \in Nat)' /\ [Work' < Work]_vars => [0 <= Work' /\ Work' < Work]_vars
  OBVIOUS
<1> QED BY <1>1, <1>2, <1>3, <1>4, BudgetStep, PTL DEF Spec, WorkRunsOut
=============================================================================
