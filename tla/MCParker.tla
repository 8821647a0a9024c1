------------------------------ MODULE MCParker ------------------------------
(* Model values for the parker pairs.  With two producers, each writing    *)
(* its payload up to twice, notifications coalesce in both orders and a    *)
(* later unpark meets a consumer that has already taken an earlier one.    *)
EXTENDS Parker

CONSTANTS p1, p2

MCMulti == {p1, p2}
=============================================================================
