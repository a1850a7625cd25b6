------------------------------ MODULE MCNsaRv -------------------------------
(* NsaRv on a line of points.                                              *)
EXTENDS NsaRv

MCPoint == 0 .. 4
MCDistance == [e \in MCPoint \X MCPoint |-> IF e[1] < e[2] THEN e[2] - e[1] ELSE e[1] - e[2]]
Normal(x) == [x |-> x, normal |-> TRUE]
Anomalous(x) == [x |-> x, normal |-> FALSE]
MCTables == {<< >>, <<Normal(0), Normal(4)>>, <<Normal(0), Anomalous(4)>>,
             <<Anomalous(3), Normal(1), Normal(0)>>}
=============================================================================
