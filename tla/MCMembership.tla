---------------------------- MODULE MCMembership ----------------------------
(* Small instances of Membership for TLC. The users other than the creator *)
(* are interchangeable.                                                    *)
EXTENDS Membership, TLC

Others == Permutations(User \ {Creator})

=============================================================================
