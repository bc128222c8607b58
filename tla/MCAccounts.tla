----------------------------- MODULE MCAccounts -----------------------------
(***************************************************************************)
(* Values for TLC: the server finds ann, who is logged in and has          *)
(* published a song, and bob, who has asked for it; one user_id and one    *)
(* name are left for registrations and renamings.                          *)
(***************************************************************************)
EXTENDS Accounts, TLC

CONSTANTS ann, bob, cat, n1, n2, n3, h1, h2

MCAtStart ==
  [name |-> ann :> n1 @@ bob :> n2 @@ cat :> NoName,
   shown |-> ann :> n1 @@ bob :> n2 @@ cat :> NoProfile,
   session |-> [s \in Sessions |-> IF s = 1 THEN [by |-> ann, live |-> TRUE]
                                   ELSE [by |-> NoUser, live |-> FALSE]],
   songs |-> {ann}, published |-> {ann}, peers |-> {ann}, asked |-> {<<bob, ann>>}]

\* Tasks are alike.
Symmetry == Permutations(Tasks)
=============================================================================
