--------------------------- MODULE MCConstraintStore ---------------------------
(***************************************************************************)
(* ConstraintStore on arrays of up to four cells with two tokens, and three *)
(* sentence rows whose phrases agree at some positions and differ at others.*)
(***************************************************************************)
EXTENDS ConstraintStore

CONSTANTS t1, t2

S(start, token) == [start |-> start, token |-> token]

MCRows == {<<>>, <<S(0, t1), S(1, t1), S(3, t2)>>, <<S(0, t2), S(2, t1)>>,
           <<S(0, t1), S(1, t2)>>}
================================================================================
