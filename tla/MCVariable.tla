----------------------------- MODULE MCVariable -----------------------------
(* Variable with narrow integers of one bit: 0, and -1, which a signed     *)
(* narrow variable has too but whose copy into it overflows.               *)
EXTENDS Variable

MCValues == {-1, 0}
MCAbove == {-1, 0}
MCBehind == {0, 1}
=============================================================================
