--------------------------- MODULE MCTokenTracker ---------------------------
(* TokenTracker for TLC.  The configurations give the constants their values. *)
EXTENDS TokenTracker

=============================================================================
