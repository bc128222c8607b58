----------------------------- MODULE RequestBook -----------------------------
(***************************************************************************)
(* What the negotiation calls mean, each as one step: a book of download   *)
(* requests and of the peer tokens that were issued for them.              *)
(***************************************************************************)
CONSTANTS Requests, RequesterOf, SongOf, Tokens, NoToken

VARIABLES
  status,   \* of every request
  tokenOf,  \* the token a request was approved with
  token     \* of every token: not issued, good for one transfer, used

vars == <<status, tokenOf, token>>

Init ==
  /\ status = [r \in Requests |-> "none"]
  /\ tokenOf = [r \in Requests |-> NoToken]
  /\ token = [t \in Tokens |-> "none"]

Rivals(q, r) == RequesterOf[q] = RequesterOf[r] /\ SongOf[q] = SongOf[r]

\* A new request replaces the pending ones of its requester for its song.
Submit(r) ==
  /\ status[r] = "none"
  /\ status' = [q \in Requests |->
       CASE q = r -> "pending"
         [] q # r /\ Rivals(q, r) /\ status[q] = "pending" -> "superseded"
         [] OTHER -> status[q]]
  /\ UNCHANGED <<tokenOf, token>>

\* A token is issued before it is used in an approval, which may not happen.
Issue(t) ==
  /\ token[t] = "none"
  /\ token' = [token EXCEPT ![t] = "fresh"]
  /\ UNCHANGED <<status, tokenOf>>

\* Each token serves one approval, and only a pending request is decided.
Approve(r, t) ==
  /\ status[r] = "pending"
  /\ token[t] = "fresh" /\ \A q \in Requests : tokenOf[q] # t
  /\ status' = [status EXCEPT ![r] = "approved"]
  /\ tokenOf' = [tokenOf EXCEPT ![r] = t]
  /\ UNCHANGED token

Reject(r) ==
  /\ status[r] = "pending"
  /\ status' = [status EXCEPT ![r] = "rejected"]
  /\ UNCHANGED <<tokenOf, token>>

\* The ends of the transfer report on requests that exist.
Report(r, s) ==
  /\ status[r] # "none"
  /\ status' = [status EXCEPT ![r] = s]
  /\ UNCHANGED <<tokenOf, token>>

Redeem(t) ==
  /\ token[t] = "fresh"
  /\ token' = [token EXCEPT ![t] = "used"]
  /\ UNCHANGED <<status, tokenOf>>

Next ==
  \/ \E r \in Requests : \/ Submit(r) \/ Reject(r)
                         \/ \E t \in Tokens : Approve(r, t)
                         \/ \E s \in {"in_progress", "completed", "failed"} : Report(r, s)
  \/ \E t \in Tokens : Issue(t) \/ Redeem(t)

Spec == Init /\ [][Next]_vars
=============================================================================
