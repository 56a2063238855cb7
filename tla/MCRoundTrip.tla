----------------------------- MODULE MCRoundTrip -----------------------------
(***************************************************************************)
(* Code objects of a given number of instructions, each with one of a set  *)
(* of chains of prefixes, whose jumps stay on the starts of instructions,  *)
(* with or without an exception table entry over those.                    *)
(***************************************************************************)
EXTENDS RoundTrip, SequencesExt

AllOps == {"LOAD_GLOBAL", "JUMP_FORWARD", "JUMP_BACKWARD", "JUMP_ABSOLUTE"}
MCOp == AllOps \cup {"EXTENDED_ARG", "CACHE"}
MCJumpKindOf == [o \in MCOp |->
    CASE o = "JUMP_FORWARD" -> "FWD" [] o = "JUMP_BACKWARD" -> "BWD"
      [] o = "JUMP_ABSOLUTE" -> "ABS" [] OTHER -> "NONE"]
MCCacheSize == [o \in MCOp |->
    IF o = "LOAD_GLOBAL" THEN 2 ELSE IF o = "JUMP_BACKWARD" THEN 1 ELSE 0]

WordsOf(x) ==
    [i \in 1 .. Len(x[1]) |-> <<"EXTENDED_ARG", x[1][i]>>]
      \o <<<<x[2], x[3]>>>>
      \o [i \in 1 .. MCCacheSize[x[2]] |-> <<"CACHE", 0>>]
LengthOf(x) == Len(x[1]) + 1 + MCCacheSize[x[2]]
Value(x) == FoldLeft(LAMBDA v, b : v * Base + b, 0, x[1]) * Base + x[3]

At(s, k) == FoldLeft(LAMBDA x, i : x + LengthOf(s[i]), 0, [i \in 1 .. k |-> i])
StartsOf(s) == {At(s, k) : k \in 0 .. Len(s)}

GoodJump(s, k) ==
    CASE MCJumpKindOf[s[k][2]] = "NONE" -> TRUE
      [] MCJumpKindOf[s[k][2]] = "ABS" -> Value(s[k]) \in StartsOf(s)
      [] MCJumpKindOf[s[k][2]] = "FWD" -> At(s, k) + Value(s[k]) \in StartsOf(s)
      [] MCJumpKindOf[s[k][2]] = "BWD" -> At(s, k) - Value(s[k]) \in StartsOf(s)

\* A source instruction is <<prefix bytes, op, byte>>.
Sources(N, chains, ops, bytes) ==
    {s \in [1 .. N -> chains \X ops \X bytes] : \A k \in 1 .. N : GoodJump(s, k)}

EntriesOver(s) ==
    {e \in [start : StartsOf(s), stop : StartsOf(s), handler : StartsOf(s)] :
        e.start < e.stop}

CodeOf(s, t) == [words |-> FlattenSeq([k \in 1 .. Len(s) |-> WordsOf(s[k])]), table |-> t]
WithoutTable(S) == {CodeOf(s, <<>>) : s \in S}
WithEntry(S) == UNION {{CodeOf(s, <<e>>) : e \in EntriesOver(s)} : s \in S}

-----------------------------------------------------------------------------
\* Necessary and redundant prefixes, none that begins a chain with 0.
RoundTrips ==
    WithoutTable(Sources(3, {<<>>, <<1>>, <<2>>, <<1, 0>>}, AllOps, {0, 1, 2}))
      \cup WithEntry(Sources(3, {<<>>, <<1>>}, {"LOAD_GLOBAL", "JUMP_FORWARD"}, {0, 1}))
=============================================================================
