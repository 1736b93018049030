------------------------------ MODULE MCAccess ------------------------------
(* Access at small constants.                                                 *)
EXTENDS Access, TLC

CONSTANTS a1, a2, ann, ben, owner, visitor, admin

Symmetric == Permutations(Requests) \cup Permutations(Tokens) \cup Permutations({a1, a2})
=============================================================================
