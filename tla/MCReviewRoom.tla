----------------------------- MODULE MCReviewRoom -----------------------------
(* Two people, one of whom may take the seat, or be invited by the owner.      *)
EXTENDS ReviewRoom

CONSTANTS a, b, s1, o1
MCComments == {<<a, 1>>}
===============================================================================
