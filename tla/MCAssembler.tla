----------------------------- MODULE MCAssembler -----------------------------
(***************************************************************************)
(* Every source of a few lines: labels, jumps, a protected region, nested  *)
(* code blocks (h with a header that cannot be), arguments to bind; and    *)
(* longer ones with more in one nested block.                              *)
(***************************************************************************)
EXTENDS Assembler

Plain(kind, of) == [kind |-> kind, of |-> of]
Instr(by, of, ends) == [kind |-> "instr", of |-> of, by |-> by, ends |-> ends]
Code(name, args, frees) ==
    [kind |-> "code", of |-> name, args |-> args, cellvars |-> {}, freevars |-> frees]

Label == Plain("label", "a")
Try == [kind |-> "try", of |-> "a", lasti |-> TRUE]
Tried == Plain("tried", "")
Jump == Instr("label", "a", TRUE)
Argument == Instr("bind", "x", FALSE)
Call == Instr("code", "f", FALSE)
Block == Code("f", {}, {})
End == Plain("end", "")

MCLine ==
    {Label, Try, Tried, Jump, Argument, Call, Block, End,
     Code("g", {"p"}, {"q"}), Code("h", {"p"}, {"p"})}

Inside == {Label, Try, Tried, Jump, Argument}

\* A block that the module refers to, of at most six lines.
OneBlock(s) ==
    /\ Len(s) <= 9
    /\ \A i \in DOMAIN s :
          \/ i = 1 /\ s[i] = Block
          \/ i \in 2 .. 7 /\ s[i] \in Inside
          \/ i > 5 /\ s[i] = End
          \/ i > 6 /\ s[i - 1] = End /\ s[i] = Call

MCSources == {s \in Seq(MCLine) : Len(s) <= 6 \/ OneBlock(s)}
=============================================================================
