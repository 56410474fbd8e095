--------------------------- MODULE MCWorkingContext ---------------------------
(* WorkingContext for TLC. *)
EXTENDS WorkingContext

CONSTANTS eager, optional

SomeSkills == {eager, optional}
EagerSkills == {eager}

=============================================================================
