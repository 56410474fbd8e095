--------------------------- MODULE MCProviderStream ---------------------------
(* ProviderStream for TLC. *)
EXTENDS ProviderStream

=============================================================================
