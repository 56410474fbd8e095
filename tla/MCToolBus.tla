------------------------------ MODULE MCToolBus ------------------------------
(* Instances of ToolBus for TLC. *)
EXTENDS ToolBus

Def(concurrency, max, group, timeout) ==
    [concurrency |-> concurrency, max |-> max, group |-> group, timeout |-> timeout]

(* A parallel tool, a retrieval tool, a sequential one, and two that share   *)
(* one permit, one of them with a deadline.                                 *)
Tools ==
    [read   |-> Def("parallel", 0, NoGroup, FALSE),
     search |-> Def("parallel", 0, NoGroup, FALSE),
     edit   |-> Def("sequential", 0, NoGroup, FALSE),
     exec   |-> Def("exclusive", 0, "shell", FALSE),
     poll   |-> Def("parallel", 1, "shell", TRUE)]

(* Any batch of up to three calls, alone, or two dispatches of one call each *)
(* that contend for a permit.                                               *)
Batches ==
    [1..3 -> {"read", "edit", "exec"}]
        \cup UNION {[1..n -> {"read", "edit", "exec", "missing"}] : n \in 1..2}
Alone == CHOOSE r \in Runs : TRUE

SharedLoads ==
    [Runs -> {<<"exec">>, <<"poll">>}] \cup [Runs -> {<<"edit">>}]
        \cup {[r \in Runs |-> IF r = Alone THEN b ELSE << >>] : b \in Batches}

=============================================================================
