---------------------------- MODULE MCEnvironment ----------------------------
(* The two overrides; a value that is a number and one that is not. *)
EXTENDS Environment

CONSTANTS number, text

MCToInt == [v \in {number, text, Empty} |-> IF v = number THEN 50 ELSE Threw]

=============================================================================
