----------------------------- MODULE MCControl -----------------------------
(* Control for TLC.  The configurations give the constants their values. *)
EXTENDS Control

=============================================================================
