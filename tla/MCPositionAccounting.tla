------------------------ MODULE MCPositionAccounting ------------------------
(* Finite instance of PositionAccounting for TLC.                          *)
EXTENDS PositionAccounting, TLC

WinOrLose == {-2, 1}
JustLose == {-2}

Symmetry == Permutations(Tickets) \cup Permutations(Symbols)
=============================================================================
