----------------------------- MODULE Relaxation -----------------------------
(***************************************************************************)
(* The EXTENDED_ARG relaxation and the emit loop of Bytecode::to_code()    *)
(* (src/src/bytecode.cpp): where every instruction is placed and how many  *)
(* EXTENDED_ARG prefixes it gets, when the argument of a jump depends on   *)
(* the places and the places depend on the widths of the arguments.        *)
(*                                                                         *)
(* Offsets count words of INSTR_BYTES bytes.  A place is the position of a *)
(* slot, or n for the end of the code: offset[n] is total_bytes.           *)
(***************************************************************************)
EXTENDS Integers

CONSTANTS
    Capacity,     \* Capacity[e]: one more than the largest argument e prefixes carry
    ArgModulus,   \* unsigned differences wrap at this many words
    MaxCache,     \* the largest instr_cache_size()
    Programs,     \* the slot lists considered
    Layouts(_)    \* of a program, the consistent layouts to compare with

Exts == 0 .. 3
Kinds == {"INT", "ABS", "FWD", "BWD"}   \* an int argument, or a jump_kind()

ASSUME CapacityAssumption ==
    /\ Capacity \in [Exts -> Nat \ {0}]
    /\ Capacity[0] < Capacity[1] /\ Capacity[1] < Capacity[2] /\ Capacity[2] < Capacity[3]
    /\ MaxCache \in Nat
    /\ ArgModulus \in Nat \ {0} /\ ArgModulus <= Capacity[3]

(***************************************************************************)
(* A program: n slots, the kind of each argument, the CACHE words after    *)
(* each, the integer arguments, and where lmap puts the label of a jump (a *)
(* place, or -1 for a label that is attached nowhere).  The code is small  *)
(* enough for offsets not to wrap.                                         *)
(***************************************************************************)
IsProgram(p) ==
    /\ p.n \in Nat /\ p.n * (4 + MaxCache) < ArgModulus
    /\ p.kind \in [0 .. p.n - 1 -> Kinds]
    /\ p.cache \in [0 .. p.n - 1 -> 0 .. MaxCache]
    /\ p.int \in [0 .. p.n - 1 -> 0 .. Capacity[3] - 1]
    /\ p.target \in [0 .. p.n - 1 -> -1 .. p.n]

ASSUME ProgramsAssumption == \A p \in Programs : IsProgram(p)

ASSUME LayoutsAssumption ==
    \A p \in Programs : \A l \in Layouts(p) :
        /\ l.ext \in [0 .. p.n - 1 -> Exts]
        /\ l.offset \in [0 .. p.n -> 0 .. ArgModulus - 1]

VARIABLES
    prog,     \* the slots (never changes)
    phase,    \* "assign" and "grow" are the two passes of the loop
    cursor,   \* the slot the current pass is at
    ext,      \* n_extended of each slot
    offset,   \* the place of each slot, and of the end
    changed,
    start,    \* where the words of each slot were emitted
    carried,  \* the argument those words carry
    length    \* code.size()

vars == <<prog, phase, cursor, ext, offset, changed, start, carried, length>>

n == prog.n
Slots == 0 .. n - 1
IsJump(i) == prog.kind[i] # "INT"
Resolved(i) == prog.target[i] # -1

\* Mutant: the bytes of the argument, not the prefixes among them.
ArgBytes(a) ==
    IF a < Capacity[0] THEN 1 ELSE IF a < Capacity[1] THEN 2
    ELSE IF a < Capacity[2] THEN 3 ELSE 4

\* extended_args_needed()
ExtNeeded(a) ==
    IF a < Capacity[0] THEN 0
    ELSE IF a < Capacity[1] THEN 1
    ELSE IF a < Capacity[2] THEN 2
    ELSE 3

\* The words of slot i with e prefixes.
SizeWith(e, i) == e + 1 + prog.cache[i]

\* The argument of jump i in the layout <<x, o>> (widths and places).
NextIn(x, o, i) == o[i] + SizeWith(x[i], i)
ArgIn(x, o, i) ==
    LET target == o[prog.target[i]]
    IN  CASE prog.kind[i] = "ABS" -> target
          [] prog.kind[i] = "FWD" -> (target - NextIn(x, o, i)) % ArgModulus
          [] prog.kind[i] = "BWD" -> (NextIn(x, o, i) - target) % ArgModulus

Init ==
    /\ prog \in Programs
    /\ phase = "assign"
    /\ cursor = 0
    /\ ext = [i \in 0 .. prog.n - 1 |->
                IF prog.kind[i] = "INT" THEN ExtNeeded(prog.int[i]) ELSE 0]
    /\ offset = [i \in 0 .. prog.n |-> 0]
    /\ changed = FALSE
    /\ start = [i \in 0 .. prog.n - 1 |-> 0]
    /\ carried = [i \in 0 .. prog.n - 1 |-> 0]
    /\ length = 0

\* The first pass: the next slot starts where this one ends.
Assign ==
    /\ phase = "assign"
    /\ cursor < n
    /\ offset' = [offset EXCEPT
                    ![cursor + 1] = offset[cursor] + SizeWith(ext[cursor], cursor)]
    /\ cursor' = cursor + 1
    /\ UNCHANGED <<prog, phase, ext, changed, start, carried, length>>

AssignDone ==
    /\ phase = "assign"
    /\ cursor = n
    /\ phase' = "grow"
    /\ cursor' = 0
    /\ UNCHANGED <<prog, ext, offset, changed, start, carried, length>>

\* Mutant: the absolute place of the target, whatever the kind of jump.
NeededForPlace(i) == ExtNeeded(offset[prog.target[i]])

\* The second pass.  The offsets are the first pass's: a slot that grew has
\* not moved the ones after it yet.
Needed(i) == ExtNeeded(ArgIn(ext, offset, i))

\* Mutant: the last jump decides whether the loop goes round again.
GrowOverwrites ==
    /\ phase = "grow"
    /\ cursor < n
    /\ IsJump(cursor) => Resolved(cursor)
    /\ IF IsJump(cursor)
       THEN /\ ext' = [ext EXCEPT ![cursor] = IF Needed(cursor) > @ THEN Needed(cursor) ELSE @]
            /\ changed' = (Needed(cursor) > ext[cursor])
       ELSE UNCHANGED <<ext, changed>>
    /\ cursor' = cursor + 1
    /\ UNCHANGED <<prog, phase, offset, start, carried, length>>

\* Mutant: a width that was already right counts as a change.
GrowOnTie ==
    /\ phase = "grow"
    /\ cursor < n
    /\ IsJump(cursor) => Resolved(cursor)
    /\ IF IsJump(cursor) /\ Needed(cursor) >= ext[cursor]
       THEN /\ ext' = [ext EXCEPT ![cursor] = Needed(cursor)]
            /\ changed' = TRUE
       ELSE UNCHANGED <<ext, changed>>
    /\ cursor' = cursor + 1
    /\ UNCHANGED <<prog, phase, offset, start, carried, length>>

Grow ==
    /\ phase = "grow"
    /\ cursor < n
    /\ IsJump(cursor) => Resolved(cursor)
    /\ IF IsJump(cursor) /\ Needed(cursor) > ext[cursor]
       THEN /\ ext' = [ext EXCEPT ![cursor] = Needed(cursor)]
            /\ changed' = TRUE
       ELSE UNCHANGED <<ext, changed>>
    /\ cursor' = cursor + 1
    /\ UNCHANGED <<prog, phase, offset, start, carried, length>>

UnresolvedLabel ==
    /\ phase = "grow"
    /\ cursor < n
    /\ IsJump(cursor) /\ ~ Resolved(cursor)
    /\ phase' = "unresolved"
    /\ UNCHANGED <<prog, cursor, ext, offset, changed, start, carried, length>>

GrowDone ==
    /\ phase = "grow"
    /\ cursor = n
    /\ phase' = IF changed THEN "assign" ELSE "emit"
    /\ changed' = FALSE
    /\ cursor' = 0
    /\ UNCHANGED <<prog, ext, offset, start, carried, length>>

ArgOf(i) == IF IsJump(i) THEN ArgIn(ext, offset, i) ELSE prog.int[i]

\* The prefixes and the instruction carry the low ext[i] + 1 bytes of arg_val.
Emit ==
    /\ phase = "emit"
    /\ cursor < n
    /\ start' = [start EXCEPT ![cursor] = length]
    /\ carried' = [carried EXCEPT ![cursor] = ArgOf(cursor) % Capacity[ext[cursor]]]
    /\ length' = length + SizeWith(ext[cursor], cursor)
    /\ cursor' = cursor + 1
    /\ UNCHANGED <<prog, phase, ext, offset, changed>>

EmitDone ==
    /\ phase = "emit"
    /\ cursor = n
    /\ phase' = "done"
    /\ UNCHANGED <<prog, cursor, ext, offset, changed, start, carried, length>>

Returned == phase \in {"done", "unresolved"} /\ UNCHANGED vars

Next ==
    \/ Assign \/ AssignDone
    \/ Grow \/ UnresolvedLabel \/ GrowDone
    \/ Emit \/ EmitDone
    \/ Returned

Spec == Init /\ [][Next]_vars

\* One thread runs to_code() to its end.
FairSpec == Spec /\ WF_vars(Next)

-----------------------------------------------------------------------------
(***************************************************************************)
(* Properties.                                                             *)
(***************************************************************************)
\* The values the variables hold.
TypeOK ==
    /\ IsProgram(prog)
    /\ phase \in {"assign", "grow", "emit", "done", "unresolved"}
    /\ cursor \in 0 .. n
    /\ ext \in [Slots -> Exts]
    /\ offset \in [0 .. n -> Nat]
    /\ changed \in BOOLEAN
    /\ start \in [Slots -> Nat]
    /\ carried \in [Slots -> Nat]
    /\ length \in Nat

\* A relative jump whose target lies on the side its opcode jumps to, seen from the
\* end of the jump.
WellDirected(i) ==
    /\ prog.kind[i] = "FWD" => i < prog.target[i]
    /\ prog.kind[i] = "BWD" => prog.target[i] <= i + 1

\* Where the interpreter finds place j in the emitted code, and where the
\* emitted jump i takes it.
EmittedAt(j) == IF j < n THEN start[j] ELSE length
Lands(i) ==
    CASE prog.kind[i] = "ABS" -> carried[i]
      [] prog.kind[i] = "FWD" -> EmittedAt(i + 1) + carried[i]
      [] prog.kind[i] = "BWD" -> EmittedAt(i + 1) - carried[i]

\* The code that relaxation settles on is right: every jump lands on the words
\* of the slot its label is attached to, and every integer argument is carried
\* whole (bytecode.cpp:561-671).
ArgsSurvive ==
    phase = "done" =>
        \A i \in Slots :
            IF IsJump(i) THEN WellDirected(i) => Lands(i) = EmittedAt(prog.target[i])
                         ELSE carried[i] = prog.int[i]

\* A layout <<x, o>> (widths and places) that needs no further growth.
IsLayout(x, o) ==
    /\ o[0] = 0
    /\ \A i \in Slots : o[i + 1] = NextIn(x, o, i)
    /\ \A i \in Slots :
          IF IsJump(i) THEN Resolved(i) /\ ExtNeeded(ArgIn(x, o, i)) <= x[i]
                       ELSE ExtNeeded(prog.int[i]) <= x[i]

\* Relaxation never widens more than it must: of all consistent layouts of a
\* program it reaches the one with the fewest prefixes at every slot, although
\* it decides from offsets that its own growth has made stale
\* (bytecode.cpp:588-616).
LeastLayout ==
    (phase = "done" /\ \A i \in Slots : WellDirected(i))
        => \A l \in Layouts(prog) :
              IsLayout(l.ext, l.offset) => \A i \in Slots : ext[i] <= l.ext[i]

\* The loop ends, whatever the jumps.
Termination == <>(phase \in {"done", "unresolved"})

=============================================================================
