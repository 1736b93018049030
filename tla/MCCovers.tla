------------------------------ MODULE MCCovers ------------------------------
(* A unit of time stands for about 45 minutes, shortened to what the ordering *)
(* of the program's durations needs: 2 h > 45 min + 45 min + a request.       *)
EXTENDS Covers
CONSTANTS u1, s1, alice

OneAccount == [c \in {u1, s1} |-> alice]
=============================================================================
