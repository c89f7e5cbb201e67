----------------------------- MODULE MCChatHost -----------------------------
(***************************************************************************)
(* Instances of ChatHost for TLC: who sent the requests.                   *)
(***************************************************************************)
EXTENDS ChatHostInv, TLC

CONSTANTS r1, r2, r3, ann, bob

OneUser == [r \in Requests |-> ann]

\* The last request comes from another user.
TwoUsers == [r \in Requests |-> IF r = r3 THEN bob ELSE ann]

Symmetry == Permutations({r1, r2})

=============================================================================
