---------------------------- MODULE MCRelaxation ----------------------------
(***************************************************************************)
(* Every program of N slots over a few kinds of instruction whose jumps    *)
(* point the way their opcodes go, and every one of N - 1 slots whose      *)
(* jumps point anywhere, or nowhere.  Bytes have three values: jumps over  *)
(* three words need a prefix, over nine two.                               *)
(***************************************************************************)
EXTENDS Relaxation, Sequences

CONSTANTS N, MCCaches, MCInts

MCCapacity == [e \in Exts |-> 3^(e + 1)]

\* A slot is <<kind, cache, int, target>>.
Slot(i, targets(_, _)) ==
    {<<"INT", c, a, -1>> : c \in MCCaches, a \in MCInts}
      \cup UNION {{<<k, 0, 0, t>> : t \in targets(k, i)} : k \in {"ABS", "FWD"}}
      \cup {<<"BWD", 1, 0, t>> : t \in targets("BWD", i)}

Column(f, c) == [i \in 0 .. Len(f) - 1 |-> f[i + 1][c]]
ProgramsOf(size, targets(_, _)) ==
    LET Lists[k \in 0 .. size] ==
            IF k = 0 THEN {<<>>}
            ELSE {Append(f, c) : f \in Lists[k - 1], c \in Slot(k - 1, targets)}
    IN  {[n |-> size, kind |-> Column(f, 1), cache |-> Column(f, 2),
          int |-> Column(f, 3), target |-> Column(f, 4)] : f \in Lists[size]}

Directed(k, i) ==
    CASE k = "FWD" -> i + 1 .. N
      [] k = "BWD" -> 0 .. i
      [] OTHER -> 0 .. N
Anywhere(k, i) == (0 .. N - 1) \cup {-1}

MCPrograms == ProgramsOf(N, Directed) \cup ProgramsOf(N - 1, Anywhere)

\* The places that widths x imply.
Places(p, x) ==
    LET at[i \in 0 .. p.n] ==
            IF i = 0 THEN 0 ELSE at[i - 1] + x[i - 1] + 1 + p.cache[i - 1]
    IN  at

MCLayouts(p) ==
    {[ext |-> x, offset |-> Places(p, x)] : x \in [0 .. p.n - 1 -> 0 .. 2]}
=============================================================================
