---------------------------- MODULE StpTransfer ----------------------------
(***************************************************************************)
(* One STP file transfer (src/stp): an STPSender, on the machine of the    *)
(* song's owner, and an STPReceiver, on the machine of the downloader,     *)
(* joined by one TCP connection.  Each side is one thread that runs the    *)
(* two public calls of its class: handle_transfer_req() and send_file(),   *)
(* initiate_transfer() and receive_file().                                 *)
(*                                                                         *)
(* A call that returns or raises leaves the side at pc "ended" with the    *)
(* _state the code has given it; its caller then closes the socket.        *)
(* One action is the code between two socket operations, so that the       *)
(* other side, the network and the socket timeouts interleave with it.     *)
(***************************************************************************)
EXTENDS Naturals, Sequences, FiniteSets

CONSTANTS
  NumChunks,    \* calculate_total_chunks() of the owner's file
  MaxRetries,   \* STPConfig.max_retries
  Blocks,       \* what a chunk can contain
  NoData,       \* a chunk that is not there
  NoFile,       \* the output path names no file
  Original,     \* the owner's file when the transfer starts
  SenderToken,  \* the peer token the owner's side was given
  Tokens,       \* the peer tokens the downloader may present
  Claims,       \* the total_chunks a TRANSFER_REQ may announce
  ResumePoints, \* the resume_from values initiate_transfer() is called with
  Limit         \* how many faults of each kind a behaviour may have

ChunkIds == 0 .. NumChunks - 1
Faults   == {"timeout", "corrupt", "edit", "reset", "resume", "unlink"}

ASSUME StpAssumption ==
  /\ NumChunks \in Nat \ {0}
  /\ MaxRetries \in Nat \ {0}
  /\ NoData \notin Blocks
  /\ Original \in [ChunkIds -> Blocks]
  /\ NoFile \notin [ChunkIds -> Blocks \union {NoData}]
  /\ SenderToken \in Tokens
  /\ Claims \subseteq Nat
  /\ ResumePoints \subseteq ChunkIds
  /\ Limit \in [Faults -> Nat]

(***************************************************************************)
(* The frames each side sends, with the fields the other side reads.  An   *)
(* END frame carries the file its hash and the file its HMAC were          *)
(* computed from: SHA-256 is taken to be injective.  A "torn" frame is     *)
(* what is left of a frame after a timeout in the middle of reading it.    *)
(***************************************************************************)
Files == [ChunkIds -> Blocks]

ReqFrame    == [type : {"REQ"}, token : Tokens, total : Claims]
ResumeFrame == [type : {"RESUME"}, token : Tokens, from : Nat]
AckFrame    == [type : {"ACK"}, id : ChunkIds]
NackFrame   == [type : {"NACK"}, id : ChunkIds]
FailFrame   == [type : {"FAIL"}]
TornFrame   == [type : {"TORN"}]
AcceptFrame == [type : {"ACCEPT"}, token : {SenderToken}, total : Nat]
DataFrame   == [type : {"DATA"}, id : ChunkIds, data : Blocks, intact : BOOLEAN]
EndFrame    == [type : {"END"}, hash : Files, hmac : Files]

ToSender   == ReqFrame \union ResumeFrame \union AckFrame \union NackFrame
                \union FailFrame \union TornFrame
ToReceiver == AcceptFrame \union DataFrame \union EndFrame \union FailFrame

Fail == [type |-> "FAIL"]
Torn == [type |-> "TORN"]

VARIABLES
  sState,     \* STPSender._state
  sPc,        \* where the sender's thread is
  hashed,     \* the file whose hash send_file() computed
  next,       \* chunk_id of the loop of send_file()
  data,       \* the bytes chunk_file() yielded for it
  attempt,    \* attempts made by _send_chunk_with_retry()
  sResume,    \* STPSender._resume_from
  rState,     \* STPReceiver._state
  rPc,        \* where the receiver's thread is
  rToken,     \* STPReceiver._peer_token
  rResume,    \* resume_from of initiate_transfer()
  total,      \* ChunkAssembler.total_chunks (0: no assembler yet)
  chunks,     \* ChunkAssembler._chunks
  retries,    \* STPReceiver._chunk_retries
  file,       \* the file at the receiver's output path
  source,     \* the owner's file on disk
  toR, toS,   \* bytes in flight, as frames
  up,         \* FALSE once the connection has been reset
  closed,     \* the sides whose socket has been closed
  used        \* faults spent

sVars   == <<sState, sPc, hashed, next, data, attempt, sResume>>
rVars   == <<rState, rPc, rToken, rResume, total, chunks, retries, file>>
netVars == <<toR, toS, up, closed>>
vars    == <<sVars, rVars, source, netVars, used>>

States == {"IDLE", "NEGOTIATING", "TRANSFERRING", "VERIFYING", "COMPLETED", "FAILED"}

TypeOK ==
  /\ sState \in States \ {"VERIFYING"}
  /\ sPc \in {"idle", "recvReq", "ready", "send", "wait", "end", "abort", "ended"}
  /\ hashed \in Files
  /\ next \in Nat
  /\ data \in Blocks \union {NoData}
  /\ attempt \in Nat
  /\ sResume \in Nat
  /\ rState \in States
  /\ rPc \in {"idle", "accept", "ready", "loop", "verify", "ended"}
  /\ rToken \in Tokens
  /\ rResume \in ResumePoints
  /\ total \in Nat
  /\ chunks \in [ChunkIds -> Blocks \union {NoData}]
  /\ retries \in [ChunkIds -> Nat]
  /\ file \in [ChunkIds -> Blocks \union {NoData}] \union {NoFile}
  /\ source \in Files
  /\ toR \in Seq(ToReceiver)
  /\ toS \in Seq(ToSender)
  /\ up \in BOOLEAN
  /\ closed \in SUBSET {"sender", "receiver"}
  /\ used \in [Faults -> Nat]

-----------------------------------------------------------------------------
(* The connection, and the chunk assembler.                                *)

Spend(k) == used[k] < Limit[k] /\ used' = [used EXCEPT ![k] = @ + 1]

\* sendall() raises once the connection is reset, and may raise once the
\* peer has closed; when it does not, the closed peer never reads the frame.
SenderCanSend   == up
SenderCantSend  == ~up \/ "receiver" \in closed
ReceiverCanSend == up
ReceiverCantSend == ~up \/ "sender" \in closed

\* recv_exact() has no more bytes and the connection is over.
SenderEof   == toS = <<>> /\ SenderCantSend
ReceiverEof == toR = <<>> /\ ReceiverCantSend

\* Mutant: the last frame of an aborting sender is built as a CHUNK_NACK.
AbortWithNack(f) == toR' = IF up THEN Append(toR, [type |-> "NACK", id |-> next]) ELSE toR

ToRIfUp(f) == toR' = IF up THEN Append(toR, f) ELSE toR

Missing == {i \in 0 .. total - 1 : i \notin ChunkIds \/ chunks[i] = NoData}
\* n is next_expected_chunk(): the lowest missing chunk_id, or total_chunks.
IsNextExpected(n) ==
  /\ n \in Missing \union {total}
  /\ \A i \in Missing : n <= i
Prefix(f, k) == [i \in ChunkIds |-> IF i < k THEN f[i] ELSE NoData]

Init ==
  /\ sState = "IDLE" /\ sPc = "idle"
  /\ hashed = Original
  /\ next = 0 /\ data = NoData /\ attempt = 0 /\ sResume = 0
  /\ rState = "IDLE" /\ rPc = "idle"
  /\ rToken \in Tokens
  /\ rResume \in ResumePoints
  /\ total = 0
  /\ chunks = [i \in ChunkIds |-> NoData]
  /\ retries = [i \in ChunkIds |-> 0]
  /\ file = IF rResume > 0 THEN Prefix(Original, rResume) ELSE NoFile
  /\ source = Original
  /\ toR = <<>> /\ toS = <<>> /\ up = TRUE /\ closed = {}
  /\ used = [k \in Faults |-> 0]

-----------------------------------------------------------------------------
(* The sender: handle_transfer_req().                                      *)

SenderListen ==
  /\ sPc = "idle"
  /\ sState' = "NEGOTIATING" /\ sPc' = "recvReq"
  /\ UNCHANGED <<hashed, next, data, attempt, sResume, rVars, source, netVars, used>>

\* TRANSFER_REQ or RESUME_REQ with the right token: TRANSFER_ACCEPT echoes the
\* announced total_chunks, and 0 for a RESUME_REQ, which announces none.
SenderAccept ==
  /\ sPc = "recvReq" /\ toS # <<>>
  /\ Head(toS).type \in {"REQ", "RESUME"} /\ Head(toS).token = SenderToken
  /\ SenderCanSend
  /\ LET m == Head(toS)
         n == IF m.type = "REQ" THEN m.total ELSE 0
     IN  /\ toR' = Append(toR, [type |-> "ACCEPT", token |-> SenderToken, total |-> n])
         /\ sResume' = IF m.type = "RESUME" THEN m.from ELSE 0
  /\ toS' = Tail(toS)
  /\ sPc' = "ready"
  /\ UNCHANGED <<sState, hashed, next, data, attempt, rVars, source, up, closed, used>>

\* Any other frame, or another token: TRANSFER_FAIL, FAILED, ValueError.
SenderRefuse ==
  /\ sPc = "recvReq" /\ toS # <<>>
  /\ ~(Head(toS).type \in {"REQ", "RESUME"} /\ Head(toS).token = SenderToken)
  /\ SenderCanSend
  /\ toR' = Append(toR, Fail)
  /\ toS' = Tail(toS)
  /\ sState' = "FAILED" /\ sPc' = "ended"
  /\ UNCHANGED <<hashed, next, data, attempt, sResume, rVars, source, up, closed, used>>

\* A socket error or timeout here propagates and leaves NEGOTIATING behind;
\* so does FileNotFoundError when send_file() finds no file.
SenderHandshakeRaises ==
  /\ \/ sPc = "recvReq" /\ SenderEof /\ UNCHANGED <<toS, used>>
     \/ sPc = "recvReq" /\ toS # <<>> /\ SenderCantSend
        /\ toS' = Tail(toS) /\ UNCHANGED used
     \/ sPc = "recvReq" /\ Spend("timeout") /\ UNCHANGED toS
     \/ sPc = "ready" /\ Spend("unlink") /\ UNCHANGED toS
  /\ sPc' = "ended"
  /\ UNCHANGED <<sState, hashed, next, data, attempt, sResume, rVars, source,
                 toR, up, closed>>

-----------------------------------------------------------------------------
(* The sender: send_file() and _send_chunk_with_retry().                   *)

\* The loop of send_file() moves to chunk c: chunk_file() reads it now, and
\* the retry loop starts over; after the last chunk it is TRANSFER_END's turn.
GoToChunk(c) ==
  /\ next' = c
  /\ IF c < NumChunks
     THEN /\ sPc' = "send" /\ data' = source[c] /\ attempt' = 0
     ELSE /\ sPc' = "end" /\ UNCHANGED <<data, attempt>>

\* The file is hashed, then chunks below resume_from are skipped and the next one
\* is read.  That the file is edited between the two, or vanishes, is left out.
SenderStartFile ==
  /\ sPc = "ready"
  /\ hashed' = source
  /\ sState' = "TRANSFERRING"
  /\ GoToChunk(sResume)
  /\ UNCHANGED <<sResume, rVars, source, netVars, used>>

\* Mutant: the first copy of a chunk is followed by another at once.
TransmitTwice ==
  /\ sPc = "send"
  /\ SenderCanSend
  /\ toR' = Append(toR, [type |-> "DATA", id |-> next, data |-> data, intact |-> TRUE])
  /\ attempt' = attempt + 1
  /\ sPc' = IF attempt = 0 THEN "send" ELSE "wait"
  /\ UNCHANGED <<sState, hashed, next, data, sResume, rVars, source, toS, up,
                 closed, used>>

SenderTransmit ==
  /\ sPc = "send"
  /\ SenderCanSend
  /\ toR' = Append(toR, [type |-> "DATA", id |-> next, data |-> data, intact |-> TRUE])
  /\ attempt' = attempt + 1
  /\ sPc' = "wait"
  /\ UNCHANGED <<sState, hashed, next, data, sResume, rVars, source, toS, up,
                 closed, used>>

\* Mutant: the last attempt is never made.
OneAttemptLess == sPc' = IF attempt + 1 < MaxRetries THEN "send" ELSE "abort"

\* Next attempt, or max_retries exhausted: send_file() will abort.
NextAttempt == sPc' = IF attempt < MaxRetries THEN "send" ELSE "abort"

\* Mutant: any answer that names a chunk counts as its acknowledgement.
AnyAnswerIsAck ==
  /\ sPc = "wait" /\ toS # <<>> /\ Head(toS).type \in {"ACK", "NACK"}
  /\ toS' = Tail(toS)
  /\ GoToChunk(next + 1)
  /\ UNCHANGED <<sState, hashed, sResume, rVars, source, toR, up, closed, used>>

\* CHUNK_ACK: the chunk_id it carries is not looked at.
SenderGetAck ==
  /\ sPc = "wait" /\ toS # <<>> /\ Head(toS).type = "ACK"
  /\ toS' = Tail(toS)
  /\ GoToChunk(next + 1)
  /\ UNCHANGED <<sState, hashed, sResume, rVars, source, toR, up, closed, used>>

\* Mutant: a CHUNK_NACK starts the retry loop over.
NackStartsOver ==
  /\ sPc = "wait" /\ toS # <<>> /\ Head(toS).type \in {"NACK", "REQ"}
  /\ toS' = Tail(toS)
  /\ attempt' = 0 /\ sPc' = "send"
  /\ UNCHANGED <<sState, hashed, next, data, sResume, rVars, source, toR, up,
                 closed, used>>

\* CHUNK_NACK, whose chunk_id is not looked at either, or an unexpected type.
SenderGetNack ==
  /\ sPc = "wait" /\ toS # <<>> /\ Head(toS).type \in {"NACK", "REQ"}
  /\ toS' = Tail(toS)
  /\ NextAttempt
  /\ UNCHANGED <<sState, hashed, next, data, attempt, sResume, rVars, source,
                 toR, up, closed, used>>

\* A RESUME_REQ is noted in _resume_from and reported as a failed chunk.
SenderGetResume ==
  /\ sPc = "wait" /\ toS # <<>> /\ Head(toS).type = "RESUME"
  /\ toS' = Tail(toS)
  /\ sResume' = Head(toS).from
  /\ sPc' = "abort"
  /\ UNCHANGED <<sState, hashed, next, data, attempt, rVars, source, toR, up,
                 closed, used>>

SenderGetFail ==
  /\ sPc = "wait" /\ toS # <<>> /\ Head(toS).type = "FAIL"
  /\ toS' = Tail(toS)
  /\ sState' = "FAILED" /\ sPc' = "abort"
  /\ UNCHANGED <<hashed, next, data, attempt, sResume, rVars, source, toR, up,
                 closed, used>>

\* The rest of a half-read frame does not parse: ValueError leaves send_file().
SenderGetTorn ==
  /\ sPc = "wait" /\ toS # <<>> /\ Head(toS).type = "TORN"
  /\ toS' = Tail(toS)
  /\ sPc' = "ended"
  /\ UNCHANGED <<sState, hashed, next, data, attempt, sResume, rVars, source,
                 toR, up, closed, used>>

\* The socket timeout strikes before the answer, or in the middle of it.
SenderTimeout ==
  /\ sPc = "wait"
  /\ Spend("timeout")
  /\ \/ UNCHANGED toS
     \/ toS # <<>> /\ toS' = [toS EXCEPT ![1] = Torn]
  /\ NextAttempt
  /\ UNCHANGED <<sState, hashed, next, data, attempt, sResume, rVars, source,
                 toR, up, closed>>

\* TRANSFER_END: the whole-file HMAC is computed from the file as it is now.
SenderFinish ==
  /\ sPc = "end"
  /\ SenderCanSend
  /\ toR' = Append(toR, [type |-> "END", hash |-> hashed, hmac |-> source])
  /\ sState' = "COMPLETED" /\ sPc' = "ended"
  /\ UNCHANGED <<hashed, next, data, attempt, sResume, rVars, source, toS, up,
                 closed, used>>

\* send_file() gives up (the chunk failed), or a socket error ends it: it
\* tries to send TRANSFER_FAIL, and the state is FAILED whether it could or not.
SenderAbort ==
  /\ \/ sPc = "abort"
     \/ sPc \in {"send", "end"} /\ SenderCantSend
     \/ sPc = "wait" /\ SenderEof
  /\ ToRIfUp(Fail)
  /\ sState' = "FAILED" /\ sPc' = "ended"
  /\ UNCHANGED <<hashed, next, data, attempt, sResume, rVars, source, toS, up,
                 closed, used>>

SenderClose ==
  /\ sPc = "ended" /\ "sender" \notin closed
  /\ closed' = closed \union {"sender"}
  /\ UNCHANGED <<sVars, rVars, source, toR, toS, up, used>>

-----------------------------------------------------------------------------
(* The receiver: initiate_transfer().                                      *)

ReceiverInitiate ==
  /\ rPc = "idle"
  /\ ReceiverCanSend
  /\ IF rResume > 0
     THEN toS' = Append(toS, [type |-> "RESUME", token |-> rToken, from |-> rResume])
     ELSE \E n \in Claims :
            toS' = Append(toS, [type |-> "REQ", token |-> rToken, total |-> n])
  /\ rState' = "NEGOTIATING" /\ rPc' = "accept"
  /\ UNCHANGED <<rToken, rResume, total, chunks, retries, file, sVars, source,
                 toR, up, closed, used>>

\* ChunkAssembler is built for the total_chunks of the ACCEPT, and on a resume
\* it is given the chunks of the partial file.
ReceiverAccepted ==
  /\ rPc = "accept" /\ toR # <<>>
  /\ Head(toR).type = "ACCEPT" /\ Head(toR).token = rToken /\ Head(toR).total >= 1
  /\ toR' = Tail(toR)
  /\ total' = Head(toR).total
  /\ chunks' = IF rResume > 0 /\ file # NoFile THEN Prefix(file, rResume) ELSE chunks
  /\ rPc' = "ready"
  /\ UNCHANGED <<rState, rToken, rResume, retries, file, sVars, source, toS, up,
                 closed, used>>

\* ChunkAssembler refuses total_chunks < 1 with a ValueError nobody catches.
ReceiverAssemblerRaises ==
  /\ rPc = "accept" /\ toR # <<>>
  /\ Head(toR).type = "ACCEPT" /\ Head(toR).token = rToken /\ Head(toR).total < 1
  /\ toR' = Tail(toR)
  /\ rPc' = "ended"
  /\ UNCHANGED <<rState, rToken, rResume, total, chunks, retries, file, sVars,
                 source, toS, up, closed, used>>

\* TRANSFER_FAIL, or anything but an ACCEPT that echoes the token.
ReceiverRefused ==
  /\ rPc = "accept" /\ toR # <<>>
  /\ ~(Head(toR).type = "ACCEPT" /\ Head(toR).token = rToken)
  /\ toR' = Tail(toR)
  /\ rState' = "FAILED" /\ rPc' = "ended"
  /\ UNCHANGED <<rToken, rResume, total, chunks, retries, file, sVars, source,
                 toS, up, closed, used>>

\* Socket errors and timeouts in initiate_transfer() leave NEGOTIATING behind.
ReceiverHandshakeRaises ==
  /\ \/ rPc = "idle" /\ ReceiverCantSend /\ rState' = "NEGOTIATING" /\ UNCHANGED used
     \/ rPc = "accept" /\ ReceiverEof /\ UNCHANGED <<rState, used>>
     \/ rPc = "accept" /\ Spend("timeout") /\ UNCHANGED rState
  /\ rPc' = "ended"
  /\ UNCHANGED <<rToken, rResume, total, chunks, retries, file, sVars, source,
                 netVars>>

-----------------------------------------------------------------------------
(* The receiver: receive_file(), _handle_chunk() and _finalize_transfer(). *)

ReceiverStartLoop ==
  /\ rPc = "ready"
  /\ rState' = "TRANSFERRING" /\ rPc' = "loop"
  /\ UNCHANGED <<rToken, rResume, total, chunks, retries, file, sVars, source,
                 netVars, used>>

ChunkArrives == rPc = "loop" /\ toR # <<>> /\ Head(toR).type = "DATA"

\* verify_chunk(): SHA-256 of the payload and an HMAC keyed with the token.
VerifyChunk(m) == m.intact /\ rToken = SenderToken

\* A verified chunk is stored once and acknowledged every time.  When the
\* ACK cannot be sent the socket error fails the transfer.
ReceiverStoreChunk ==
  /\ ChunkArrives
  /\ LET m == Head(toR) IN
       /\ VerifyChunk(m) /\ m.id < total
       /\ chunks' = [chunks EXCEPT ![m.id] = IF @ = NoData THEN m.data ELSE @]
       /\ retries' = [retries EXCEPT ![m.id] = 0]
       /\ \/ /\ ReceiverCanSend
             /\ toS' = Append(toS, [type |-> "ACK", id |-> m.id])
             /\ UNCHANGED <<rState, rPc>>
          \/ /\ ReceiverCantSend
             /\ rState' = "FAILED" /\ rPc' = "ended"
             /\ UNCHANGED toS
  /\ toR' = Tail(toR)
  /\ UNCHANGED <<rToken, rResume, total, file, sVars, source, up, closed, used>>

\* add_chunk() refuses a chunk_id beyond total_chunks: ValueError, uncaught.
ReceiverChunkOutOfRange ==
  /\ ChunkArrives
  /\ VerifyChunk(Head(toR)) /\ Head(toR).id >= total
  /\ toR' = Tail(toR)
  /\ rPc' = "ended"
  /\ UNCHANGED <<rState, rToken, rResume, total, chunks, retries, file, sVars,
                 source, toS, up, closed, used>>

\* A damaged chunk: NACK, until max_retries damaged copies have been seen.
ReceiverNackChunk ==
  /\ ChunkArrives
  /\ LET m == Head(toR) IN
       /\ ~VerifyChunk(m)
       /\ retries' = [retries EXCEPT ![m.id] = @ + 1]
       /\ retries[m.id] + 1 < MaxRetries
       /\ \/ /\ ReceiverCanSend
             /\ toS' = Append(toS, [type |-> "NACK", id |-> m.id])
             /\ UNCHANGED <<rState, rPc>>
          \/ /\ ReceiverCantSend
             /\ rState' = "FAILED" /\ rPc' = "ended"
             /\ UNCHANGED toS
  /\ toR' = Tail(toR)
  /\ UNCHANGED <<rToken, rResume, total, chunks, file, sVars, source, up, closed, used>>

ReceiverGiveUpChunk ==
  /\ ChunkArrives
  /\ ~VerifyChunk(Head(toR))
  /\ retries[Head(toR).id] + 1 >= MaxRetries
  /\ retries' = [retries EXCEPT ![Head(toR).id] = @ + 1]
  /\ toS' = IF up THEN Append(toS, Fail) ELSE toS
  /\ toR' = Tail(toR)
  /\ rState' = "FAILED" /\ rPc' = "ended"
  /\ UNCHANGED <<rToken, rResume, total, chunks, file, sVars, source, up, closed, used>>

\* Mutant: TRANSFER_FAIL is dispatched to _finalize_transfer() as well.
EndOrFailArrives == rPc = "loop" /\ toR # <<>> /\ Head(toR).type \in {"END", "FAIL"}

EndArrives == rPc = "loop" /\ toR # <<>> /\ Head(toR).type = "END"

\* TRANSFER_END with chunks missing: the ValueError leaves VERIFYING behind.
ReceiverEndIncomplete ==
  /\ EndArrives
  /\ Missing # {}
  /\ toR' = Tail(toR)
  /\ rState' = "VERIFYING" /\ rPc' = "ended"
  /\ UNCHANGED <<rToken, rResume, total, chunks, retries, file, sVars, source,
                 toS, up, closed, used>>

\* finalize() writes the output path before the file has been verified; the
\* END frame stays at hand for verify_file().
ReceiverWriteFile ==
  /\ EndArrives
  /\ Missing = {}
  /\ rState' = "VERIFYING" /\ rPc' = "verify"
  /\ file' = Prefix(chunks, total)
  /\ UNCHANGED <<rToken, rResume, total, chunks, retries, sVars, source, netVars, used>>

\* Mutant: only the HMAC of the END frame is compared.
VerifyHmacOnly(m) == file = m.hmac /\ rToken = SenderToken

\* verify_file(): hash and HMAC of the END frame against the written file.
VerifyFile(m) == file = m.hash /\ file = m.hmac /\ rToken = SenderToken

ReceiverVerifyFile ==
  /\ rPc = "verify"
  /\ IF VerifyFile(Head(toR))
     THEN rState' = "COMPLETED" /\ UNCHANGED file
     ELSE rState' = "FAILED" /\ file' = NoFile
  /\ rPc' = "ended"
  /\ toR' = Tail(toR)
  /\ UNCHANGED <<rToken, rResume, total, chunks, retries, sVars, source, toS, up,
                 closed, used>>

\* Mutant: an empty recv() is taken for "nothing yet" and tried again.
LoopIgnoresEof ==
  /\ rPc = "loop"
  /\ \/ /\ \/ toR # <<>> /\ Head(toR).type = "FAIL" /\ toR' = Tail(toR) /\ UNCHANGED used
           \/ Spend("timeout") /\ UNCHANGED toR
        /\ rState' = "FAILED" /\ rPc' = "ended"
     \/ ReceiverEof /\ UNCHANGED <<toR, used, rState, rPc>>
  /\ UNCHANGED <<rToken, rResume, total, chunks, retries, file, sVars, source,
                 toS, up, closed>>

\* TRANSFER_FAIL, end of the connection, or no frame within the timeout.
ReceiverLoopFails ==
  /\ rPc = "loop"
  /\ \/ toR # <<>> /\ Head(toR).type = "FAIL" /\ toR' = Tail(toR) /\ UNCHANGED used
     \/ ReceiverEof /\ UNCHANGED <<toR, used>>
     \/ Spend("timeout") /\ UNCHANGED toR
  /\ rState' = "FAILED" /\ rPc' = "ended"
  /\ UNCHANGED <<rToken, rResume, total, chunks, retries, file, sVars, source,
                 toS, up, closed>>

\* send_resume_request(), called while there is an assembler.
ReceiverRequestResume ==
  /\ rPc \in {"ready", "loop"}
  /\ ReceiverCanSend
  /\ Spend("resume")
  /\ \E n \in 0 .. total :
       /\ IsNextExpected(n)
       /\ toS' = Append(toS, [type |-> "RESUME", token |-> rToken, from |-> n])
  /\ UNCHANGED <<rVars, sVars, source, toR, up, closed>>

ReceiverClose ==
  /\ rPc = "ended" /\ "receiver" \notin closed
  /\ closed' = closed \union {"receiver"}
  /\ UNCHANGED <<sVars, rVars, source, toR, toS, up, used>>

-----------------------------------------------------------------------------
(* The network and the owner's disk.                                       *)

\* A chunk is damaged on its way.
CorruptChunk ==
  /\ Spend("corrupt")
  /\ \E i \in DOMAIN toR :
       /\ toR[i].type = "DATA" /\ toR[i].intact
       /\ toR' = [toR EXCEPT ![i] = [toR[i] EXCEPT !.intact = FALSE]]
  /\ UNCHANGED <<sVars, rVars, source, toS, up, closed>>

\* The END frame verify_file() works with has been read: it cannot be lost.
HeadRead == IF rPc = "verify" THEN 1 ELSE 0

\* The connection is cut; bytes that had already arrived can still be read.
LoseTails ==
  /\ up' = FALSE
  /\ \E i \in HeadRead .. Len(toR) : toR' = SubSeq(toR, 1, i)
  /\ \E i \in 0 .. Len(toS) : toS' = SubSeq(toS, 1, i)
  /\ UNCHANGED <<sVars, rVars, source, closed>>

Reset == up /\ Spend("reset") /\ LoseTails

\* TCP answers data for a socket that has been closed with a reset.
ResetByClosed ==
  /\ up
  /\ \/ "sender" \in closed /\ toS # <<>>
     \/ "receiver" \in closed /\ toR # <<>>
  /\ LoseTails
  /\ UNCHANGED used

\* The owner's file is rewritten in place while the transfer runs.
EditSource ==
  /\ Spend("edit")
  /\ \E c \in ChunkIds, b \in Blocks :
       source[c] # b /\ source' = [source EXCEPT ![c] = b]
  /\ UNCHANGED <<sVars, rVars, netVars>>

-----------------------------------------------------------------------------

SenderStep ==
  \/ SenderListen \/ SenderAccept \/ SenderRefuse \/ SenderHandshakeRaises
  \/ SenderStartFile \/ SenderTransmit \/ SenderGetAck \/ SenderGetNack
  \/ SenderGetResume \/ SenderGetFail \/ SenderGetTorn \/ SenderTimeout
  \/ SenderFinish \/ SenderAbort \/ SenderClose

ReceiverStep ==
  \/ ReceiverInitiate \/ ReceiverAccepted \/ ReceiverAssemblerRaises
  \/ ReceiverRefused \/ ReceiverHandshakeRaises \/ ReceiverStartLoop
  \/ ReceiverStoreChunk \/ ReceiverChunkOutOfRange \/ ReceiverNackChunk
  \/ ReceiverGiveUpChunk \/ ReceiverEndIncomplete \/ ReceiverWriteFile
  \/ ReceiverVerifyFile \/ ReceiverLoopFails \/ ReceiverRequestResume
  \/ ReceiverClose

NetworkStep == CorruptChunk \/ Reset \/ ResetByClosed \/ EditSource

\* Both calls are over: the only state in which the system stops.
Finished == sPc = "ended" /\ rPc = "ended" /\ closed = {"sender", "receiver"}
Stop     == Finished /\ UNCHANGED vars

Next == SenderStep \/ ReceiverStep \/ NetworkStep \/ Stop

Spec == Init /\ [][Next]_vars

\* Each thread keeps running: neither code path waits for anything but the
\* socket, whose timeout or end it handles.
FairSpec == Spec /\ WF_vars(SenderStep) /\ WF_vars(ReceiverStep)

-----------------------------------------------------------------------------
(* Safety.                                                                 *)

\* A receiver that reports COMPLETED holds, at its output path, exactly the
\* file the sender hashed before it sent the first chunk, although chunks are
\* read later and one by one; the sender has reported COMPLETED as well, and
\* both sides hold the same peer token.
DeliveredIsPromised ==
  rState = "COMPLETED" =>
    file = hashed /\ sState = "COMPLETED" /\ rToken = SenderToken

\* As long as no socket timeout has struck, the sender reports COMPLETED only
\* when every chunk of the file has been verified and stored at the other end:
\* the acknowledgement of each chunk, read without looking at its chunk_id, was
\* the acknowledgement of that chunk, whatever was damaged or cut off.  One
\* timeout is enough to break this (see VerifyingIsResolved).
NoChunkSkipped ==
  sState = "COMPLETED" /\ used["timeout"] = 0 => \A i \in ChunkIds : chunks[i] # NoData

\* The protocol is stop-and-wait: chunks and answers under way are at most
\* one, and one more for each timeout that made the sender repeat a chunk.
InFlightBounded ==
  LET chunksInFlight  == {i \in DOMAIN toR : toR[i].type = "DATA"}
      answersInFlight == {i \in DOMAIN toS : toS[i].type \in {"ACK", "NACK"}}
  IN  Cardinality(chunksInFlight) + Cardinality(answersInFlight)
        <= 1 + used["timeout"]

\* What both sides promise together, as the module FileDelivery states it.
Verdict(pc, state, good) ==
  IF pc # "ended" THEN "pending" ELSE IF state = "COMPLETED" THEN good ELSE "failed"

Delivery == INSTANCE FileDelivery WITH
  promised <- hashed,
  sent     <- Verdict(sPc, sState, "sent"),
  verdict  <- Verdict(rPc, rState, "delivered")

\* A transfer implements FileDelivery: verdicts are final, the promise stands
\* once the sender has reported, and the output path never changes after the
\* receiver has reported.
ImplementsDelivery == Delivery!Spec

-----------------------------------------------------------------------------
(* How much work is left: a bound on the steps still to come.              *)

FaultsLeft ==
  LET left(k) == Limit[k] - used[k]
  IN  left("timeout") + left("corrupt") + left("edit") + left("reset") + left("resume")
        + left("unlink")

\* The transmissions the retry loops of send_file() may still make.
SendsLeft ==
  CASE sPc \in {"idle", "recvReq", "ready"} -> NumChunks * MaxRetries
    [] sPc \in {"send", "wait"} -> (NumChunks - next) * MaxRetries - attempt
    [] OTHER -> 0

SenderStage ==
  CASE sPc = "idle" -> 7 [] sPc = "recvReq" -> 6 [] sPc = "ready" -> 4
    [] sPc \in {"send", "wait", "end", "abort"} -> 3 [] OTHER -> 0

ReceiverStage ==
  CASE rPc = "idle" -> 6 [] rPc = "accept" -> 4 [] rPc = "ready" -> 3 [] rPc = "loop" -> 2
    [] rPc = "verify" -> 1 [] OTHER -> 0

OpenEnds ==
  LET one(b) == IF b THEN 1 ELSE 0
  IN  one("sender" \notin closed) + one("receiver" \notin closed) + one(up)

\* A frame to the receiver may bring about an answer, a transmission a frame.
Work ==
  2 * FaultsLeft + 3 * SendsLeft + SenderStage + ReceiverStage + 2 * Len(toR) + Len(toS)
    + OpenEnds

\* No exchange of frames goes round in circles: every step of a side, every
\* damaged or lost frame, every timeout and every retry leaves less to do, so
\* that a transfer is over after Work steps at most, under any schedule.  What
\* the two sides answer each other with is paid for by the retry loop of
\* _send_chunk_with_retry() (stp/sender.py:336).
WorkRunsOut == [][0 <= Work' /\ Work' < Work]_vars

-----------------------------------------------------------------------------
(* Liveness.                                                               *)

\* Whatever the network does, both calls end and both sockets are closed.
Terminates == <>Finished

OnlyDamage ==
  /\ \A k \in Faults \ {"corrupt"} : used[k] = 0
  /\ used["corrupt"] < MaxRetries
  /\ rToken = SenderToken /\ rResume = 0 /\ total \in {0, NumChunks}

\* Damage alone never costs the transfer: when nothing else goes wrong, the
\* announced chunk count is right and fewer than max_retries chunks arrive
\* damaged, the retries of the two sides together deliver the file.
DamageRepaired == []OnlyDamage => <>(rState = "COMPLETED")

-----------------------------------------------------------------------------
(* What the documentation says and the code does not do.                   *)

\* src/stp/receiver.py:33 draws the receiver's states as "IDLE -> NEGOTIATING
\* -> TRANSFERRING -> VERIFYING -> COMPLETED | FAILED": a verification ends in
\* one of the last two.
VerifyingIsResolved == ~(rPc = "ended" /\ rState = "VERIFYING")

\* src/stp/receiver.py:173, of resume_from: "If > 0, sends RESUME_REQ to
\* continue an interrupted transfer": an undisturbed resumed transfer completes.
ResumeCompletes == <>(rState = "COMPLETED")
=============================================================================
