----------------------------- MODULE MCR3BRunLock -----------------------------
(* Two commands on the same run or on different runs, with children. *)
EXTENDS R3BRunLock, TLC

CONSTANTS o1, o2, w1, w2, w3, r1, r2

MCOperators == {o1, o2}
MCPool == o1 :> {w1, w2} @@ o2 :> {w3}
MCRun == o1 :> r1 @@ o2 :> r2
=============================================================================
