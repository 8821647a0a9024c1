--------------------------- MODULE MCWaitStrategy ---------------------------
(* Two values are enough to tell equal from different; a third lets a      *)
(* return value differ from every other one in play.                       *)
EXTENDS WaitStrategy

MCValues == 0..2
=============================================================================
