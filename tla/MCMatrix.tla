------------------------------ MODULE MCMatrix ------------------------------
(* Small instances of Matrix for TLC: the three ways of storing a row, and rows
   of few columns; every constant gets its value in the cfg. *)
EXTENDS Matrix
=============================================================================
