------------------------------- MODULE Editing -------------------------------
(***************************************************************************)
(* What a Bytecode promises whoever edits it: an instruction names a       *)
(* variable or a constant, never an index (README.md:428-441), and each    *)
(* code object that to_code() returns does exactly what the instructions   *)
(* named when it was called.                                               *)
(***************************************************************************)
EXTENDS Sequences

CONSTANT Item   \* what an instruction may name: <<kind, value>>

VARIABLES
    source,  \* the instructions, in the user's terms
    built    \* the last code object, in the interpreter's terms

vars == <<source, built>>

Init ==
    /\ source \in Seq(Item)
    /\ built = source

Edit ==
    /\ source' \in Seq(Item)
    /\ UNCHANGED built

Build ==
    /\ built' = source
    /\ UNCHANGED source

Next == Edit \/ Build

Spec == Init /\ [][Next]_vars

=============================================================================
