------------------------------ MODULE MCBindings -----------------------------
(***************************************************************************)
(* Two Bytecodes, one taken from code with a loop and a protected region,  *)
(* the other seeded from it or empty, and every short series of edits.     *)
(***************************************************************************)
EXTENDS Bindings

MCArgKind == [op \in Op |->
    CASE op = "JUMP" -> "JUMP" [] op = "LOAD_CONST" -> "CONST" [] OTHER -> "NONE"]
MCNumber == [op \in Op |->
    CASE op = "LOAD_CONST" -> {9} [] op = "NOP" -> {4, 9} [] OTHER -> {0}]

\* 7 is cut to EXC_DEPTH_AUTO.
MCDepth == {0, 7}

\* One jump back to the instruction that label 0 is on, and the entry
\* [label 0, label 1) whose handler is label 0; label 1 is at the end.
Loop ==
    [instrs |-> <<[op |-> "JUMP", arg |-> <<"label", 0>>, labels |-> <<0>>]>>,
     end_labels |-> <<1>>,
     exc |-> <<[start |-> 0, stop |-> 1, handler |-> 0, depth |-> 0, lasti |-> FALSE]>>,
     next |-> 2, jumps |-> 1]
Codes == {Loop}
=============================================================================
