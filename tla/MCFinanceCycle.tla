--------------------------- MODULE MCFinanceCycle ---------------------------
(***************************************************************************)
(* TLC instances of FinanceCycle: two periods that share a day, so that a  *)
(* lock of one blocks the other, and two that do not.                      *)
(***************************************************************************)
EXTENDS FinanceCycle, TLC

CONSTANTS x1, x2, r1, r2

MCPeriodsShared == {[start |-> 1, end |-> 2], [start |-> 2, end |-> 3]}
MCPeriodsApart == {[start |-> 1, end |-> 2], [start |-> 3, end |-> 4]}
MCPeriodOne == {[start |-> 1, end |-> 2]}

MCInputs == {x1, x2}
MCInputOne == {x1}
MCOneRequest == {r1}
MCTwoRequests == {r1, r2}

=============================================================================
