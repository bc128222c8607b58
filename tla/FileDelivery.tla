---------------------------- MODULE FileDelivery ----------------------------
(***************************************************************************)
(* What one file transfer promises, whatever happens between its ends:     *)
(* the sender fixes the file it promises, each end reports exactly once,   *)
(* and the receiver reports "delivered" only when the promised file is, as *)
(* a whole, at its output path and the sender has reported "sent".         *)
(***************************************************************************)
EXTENDS Naturals

CONSTANTS NumChunks, Blocks, NoData, NoFile

VARIABLES
  source,   \* the owner's file, which the owner may change at any time
  promised, \* the file the sender has promised
  sent,     \* the sender's report
  file,     \* what is at the receiver's output path
  verdict   \* the receiver's report

vars == <<source, promised, sent, file, verdict>>

ChunkIds == 0 .. NumChunks - 1
Files    == [ChunkIds -> Blocks]
PartialFiles == [ChunkIds -> Blocks \union {NoData}]

\* An interrupted transfer may have left some of the chunks behind.
Init ==
  /\ source \in Files
  /\ promised = source
  /\ sent = "pending" /\ verdict = "pending"
  /\ file \in PartialFiles \union {NoFile}

Edit ==
  /\ source' \in Files
  /\ UNCHANGED <<promised, sent, file, verdict>>

\* The sender settles on the file as it is.
Promise ==
  /\ sent = "pending"
  /\ promised' = source
  /\ UNCHANGED <<source, sent, file, verdict>>

ReportSent ==
  /\ sent = "pending"
  /\ sent' \in {"sent", "failed"}
  /\ UNCHANGED <<source, promised, file, verdict>>

\* The receiver writes its output path only after the sender's report.  What
\* it writes may be wrong, as long as it has not reported.
Write ==
  /\ sent = "sent" /\ verdict = "pending"
  /\ file' \in PartialFiles
  /\ UNCHANGED <<source, promised, sent, verdict>>

ReportDelivered ==
  /\ sent = "sent" /\ verdict = "pending"
  /\ file = promised
  /\ verdict' = "delivered"
  /\ UNCHANGED <<source, promised, sent, file>>

\* A failed receiver leaves the path alone or removes what it wrote.
ReportFailed ==
  /\ verdict = "pending"
  /\ verdict' = "failed"
  /\ file' \in {file, NoFile}
  /\ UNCHANGED <<source, promised, sent>>

Next == Edit \/ Promise \/ ReportSent \/ Write \/ ReportDelivered \/ ReportFailed

Spec == Init /\ [][Next]_vars
=============================================================================
