--------------------------- MODULE MCStreamOverlap ---------------------------
(* StreamOverlap for TLC: three calls, the first without arguments. *)
EXTENDS StreamOverlap

ThreeCalls == << 0, 1, 2 >>

(* How each adapter's providers name their calls. *)
Styles ==
    {<<"chat", "indexed">>, <<"chat", "byId">>, <<"chat", "inOrder">>, <<"chat", "text">>,
     <<"anthropic", "blocks">>, <<"anthropic", "late">>, <<"responses", "parallel">>}

AllModes == {[adapter |-> s[1], style |-> s[2], complete |-> b] : s \in Styles, b \in BOOLEAN}

SomeSafe == {Calls, {1, 3}, {}}

=============================================================================
