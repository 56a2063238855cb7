---------------------------- MODULE MCStackDepth ----------------------------
(***************************************************************************)
(* Programs of a given length over a given set of opcodes, with every jump *)
(* target, and tables of exception entries.  Labels L0, L1, ... stand at   *)
(* their index; Nowhere is attached to no instruction.                     *)
(***************************************************************************)
EXTENDS StackDepth, Sequences, TLC

CONSTANT Nowhere

JumpOp == {"JUMP_FORWARD", "POP_JUMP_IF_TRUE", "FOR_ITER"}
AllOps == JumpOp \cup {"LOAD_CONST", "POP_TOP", "RETURN_VALUE", "GEN_START"}
UncondJumpOp == {"JUMP_FORWARD"}
ScopeExitOp == {"RETURN_VALUE"}
NeutralOp == {"GEN_START"}

EffectOf == [o \in AllOps |->
    CASE o \in {"LOAD_CONST", "FOR_ITER"} -> 1
      [] o \in {"POP_TOP", "POP_JUMP_IF_TRUE", "RETURN_VALUE", "GEN_START"} -> -1
      [] OTHER -> 0]
TakenEffectOf == [o \in AllOps |->
    IF o \in {"FOR_ITER", "POP_JUMP_IF_TRUE"} THEN -1 ELSE 0]

LabelNames == <<"L0", "L1", "L2", "L3", "L4", "L5">>
Attached(N) == {LabelNames[i + 1] : i \in 0 .. N}
IndexOf(N) == [l \in Attached(N) |-> CHOOSE i \in 0 .. N : LabelNames[i + 1] = l]
AllLabels == Attached(5) \cup {Nowhere, "Twin"}

\* A jump that has no label, or one that is attached nowhere, is tried with
\* one jump opcode.
Bad == {[op |-> "JUMP_FORWARD", arg |-> a] : a \in {Nowhere, RawInt}}
Choices(N, ops) ==
    [op : ops \ JumpOp, arg : {RawInt}] \cup [op : ops \cap JumpOp, arg : Attached(N)]

Listings(N, choices, tables) ==
    [n : {N}, instrs : [0 .. N - 1 -> choices], resolves : {Attached(N)},
     label_idx : {IndexOf(N)}, m : {Len(t) : t \in tables}, exc : tables]

EntriesOf(labels, depths, lastis) ==
    [start_lbl : labels, stop_lbl : labels, handler_lbl : labels,
     depth : depths, lasti : lastis]

\* The entries whose region holds at least one instruction.
ProperEntries(N, depths, lastis) ==
    {x \in EntriesOf(Attached(N), depths, lastis) :
        IndexOf(N)[x.start_lbl] < IndexOf(N)[x.stop_lbl]}

AUTO == EXC_DEPTH_AUTO

PlainOps == {"LOAD_CONST", "POP_TOP", "RETURN_VALUE"}

-----------------------------------------------------------------------------
(***************************************************************************)
(* The programs of each run.                                               *)
(***************************************************************************)
\* Jumps forward and back, loops among them, without handlers; and one entry over
\* programs that push, jump and return, whose region holds an instruction or
\* starts at the end.
ExecPrograms ==
    Listings(3, Choices(3, AllOps \ {"POP_JUMP_IF_TRUE"}) \cup Bad, {<<>>})
      \cup Listings(3, Choices(3, {"LOAD_CONST", "RETURN_VALUE", "JUMP_FORWARD"}),
                    {<<x>> : x \in ProperEntries(3, {AUTO, 0}, {1})
                                 \cup {e \in EntriesOf(Attached(3), {AUTO, 0}, {1}) : e.start_lbl = "L3"}})

\* One AUTO entry over conditional jumps; two entries over short programs; and
\* one entry of any labels, attached or not, over any region.
AutoPrograms ==
    Listings(3, Choices(3, PlainOps \cup {"POP_JUMP_IF_TRUE"}),
             {<<x>> : x \in ProperEntries(3, {AUTO}, {0})})
      \cup Listings(2, Choices(2, PlainOps),
                    [1 .. 2 -> ProperEntries(2, {AUTO, 1}, {0, 1})])
      \cup Listings(2, Choices(2, PlainOps \cup {"FOR_ITER"}) \cup Bad,
                    {<<x>> : x \in EntriesOf(Attached(2) \cup {Nowhere}, {AUTO, 1}, {0})})

\* Two AUTO entries whose handlers stand at the second instruction: they name one
\* label, or two labels that stand there.
TwinPrograms ==
    {[p EXCEPT !.resolves = @ \cup {"Twin"}, !.label_idx = @ @@ ("Twin" :> 1)] :
        p \in Listings(3, Choices(3, PlainOps),
                      [1 .. 2 -> {x \in EntriesOf(Attached(3) \cup {"Twin"}, {AUTO}, {0}) :
                                    /\ <<x.start_lbl, x.stop_lbl>> \in
                                         {<<"L0", "L1">>, <<"L2", "L3">>, <<"L0", "L3">>}
                                    /\ x.handler_lbl \in {"L1", "Twin"}}])}

StackPrograms == ExecPrograms \cup AutoPrograms \cup TwinPrograms

\* The first instruction is protected by a handler at the last one; the second
\* entry is any.
StaleCandidatePrograms ==
    Listings(5, Choices(5, {"LOAD_CONST", "RETURN_VALUE"}),
             {<<first, second>> :
                first \in {x \in ProperEntries(5, {AUTO}, {0}) :
                             x.start_lbl = "L0" /\ x.stop_lbl = "L1" /\ x.handler_lbl = "L4"},
                second \in ProperEntries(5, {AUTO}, {0})})
=============================================================================
