----------------------------- MODULE Disassembly -----------------------------
(***************************************************************************)
(* Bytecode::from_code() of src/src/bytecode.cpp: from the words of a code *)
(* object and the entries of its exception table to instructions whose     *)
(* jumps, and whose protected regions, name labels.                        *)
(*                                                                         *)
(* Offsets count words.  Arguments are kept as the numbers they are (what  *)
(* index they are into which table is the subject of another module), and  *)
(* no argument has more than the three prefixes the interpreter allows.    *)
(***************************************************************************)
EXTENDS Integers, Sequences, FiniteSets

CONSTANTS
    Op,             \* opcodes, EXTENDED_ARG and CACHE among them
    EXTENDED_ARG,
    CACHE,
    JumpKindOf,     \* jump_kind(op): "NONE" for an opcode that does not jump
    CacheSize,      \* instr_cache_size(op)
    Base,           \* the values a byte has
    CodeObjects     \* the code objects considered

ASSUME OpAssumption ==
    /\ {EXTENDED_ARG, CACHE} \subseteq Op /\ EXTENDED_ARG # CACHE
    /\ JumpKindOf \in [Op -> {"NONE", "ABS", "FWD", "BWD"}]
    /\ CacheSize \in [Op -> Nat]
    /\ Base \in Nat \ {0, 1}

\* One more than the largest argument that e prefixes carry.
Capacity == [e \in 0 .. 3 |->
    IF e = 0 THEN Base ELSE IF e = 1 THEN Base * Base
    ELSE IF e = 2 THEN Base * Base * Base ELSE Base * Base * Base * Base]

(***************************************************************************)
(* A code object: its words, <<op, byte>>, and its exception table.        *)
(***************************************************************************)
IsCodeObject(c) ==
    /\ c.words \in Seq(Op \X (0 .. Base - 1))
    /\ c.table \in Seq([start : Nat, stop : Nat, handler : Nat])

ASSUME CodeAssumption == \A c \in CodeObjects : IsCodeObject(c)

VARIABLES
    co,              \* the code object (never changes)
    stage,           \* the part of from_code() that is running
    at,              \* the word, instruction or entry that part is at
    extended_arg,    \* the prefixes folded so far
    ext_start,       \* where they start
    instrs,          \* instructions: their op and arg
    idx_to_off,      \* where each instruction's prefixes (or its op) start
    idx_to_nextoff,  \* the end of its CACHE words
    offset_to_label, \* the label given to each jump target
    off_to_label,    \* the label given to each exception table boundary
    labels,          \* the labels attached to each place
    next_label_id,
    exc_labeled      \* the entries, by label

vars == <<co, stage, at, extended_arg, ext_start, instrs, idx_to_off, idx_to_nextoff,
          offset_to_label, off_to_label, labels, next_label_id, exc_labeled>>

nwords == Len(co.words)
word == co.words[at + 1]     \* words are numbered from 0, as in the code
Count == Len(instrs)
Places == 0 .. Count         \* an instruction, or Count: end_labels
IsJumpOp(o) == JumpKindOf[o] # "NONE"

Init ==
    /\ co \in CodeObjects
    /\ stage = "scan"
    /\ at = 0
    /\ extended_arg = 0 /\ ext_start = 0
    /\ instrs = <<>> /\ idx_to_off = <<>> /\ idx_to_nextoff = <<>>
    /\ offset_to_label = <<>> /\ off_to_label = <<>>
    /\ labels = <<>>
    /\ next_label_id = 0
    /\ exc_labeled = <<>>

-----------------------------------------------------------------------------
(***************************************************************************)
(* The words, one by one.                                                  *)
(***************************************************************************)
Scanning == stage = "scan" /\ at < nwords /\ at' = at + 1

SkipCache ==
    /\ Scanning
    /\ word[1] = CACHE /\ extended_arg = 0
    /\ UNCHANGED <<co, stage, extended_arg, ext_start, instrs, idx_to_off,
                   idx_to_nextoff, offset_to_label, off_to_label, labels,
                   next_label_id, exc_labeled>>

\* Mutant: the last prefix, not the first, is where the instruction starts.
FoldPrefixLast ==
    /\ Scanning
    /\ word[1] = EXTENDED_ARG
    /\ ext_start' = at
    /\ extended_arg' = (extended_arg + word[2]) * Base
    /\ UNCHANGED <<co, stage, instrs, idx_to_off, idx_to_nextoff, offset_to_label,
                   off_to_label, labels, next_label_id, exc_labeled>>

\* A chain of prefixes is told from none by the value folded so far.
FoldPrefix ==
    /\ Scanning
    /\ word[1] = EXTENDED_ARG
    /\ ext_start' = IF extended_arg = 0 THEN at ELSE ext_start
    /\ extended_arg' = (extended_arg + word[2]) * Base
    /\ UNCHANGED <<co, stage, instrs, idx_to_off, idx_to_nextoff, offset_to_label,
                   off_to_label, labels, next_label_id, exc_labeled>>

\* Mutant: the base of relative jumps is the end of the op word.
NextOffWithoutCache(o) == at + 1

NextOff(o) == at + 1 + CacheSize[o]

\* Mutant: the prefixes of one instruction leak into the next.
DecodeKeepsPrefixes ==
    /\ Scanning
    /\ word[1] # EXTENDED_ARG
    /\ ~ (word[1] = CACHE /\ extended_arg = 0)
    /\ instrs' = Append(instrs, [op |-> word[1], arg |-> extended_arg + word[2]])
    /\ idx_to_off' = Append(idx_to_off, IF extended_arg # 0 THEN ext_start ELSE at)
    /\ idx_to_nextoff' = Append(idx_to_nextoff, NextOff(word[1]))
    /\ UNCHANGED <<co, stage, extended_arg, ext_start, offset_to_label, off_to_label,
                   labels, next_label_id, exc_labeled>>

DecodeInstr ==
    /\ Scanning
    /\ word[1] # EXTENDED_ARG
    /\ ~ (word[1] = CACHE /\ extended_arg = 0)
    /\ instrs' = Append(instrs, [op |-> word[1], arg |-> extended_arg + word[2]])
    /\ idx_to_off' = Append(idx_to_off, IF extended_arg # 0 THEN ext_start ELSE at)
    /\ idx_to_nextoff' = Append(idx_to_nextoff, NextOff(word[1]))
    /\ extended_arg' = 0
    /\ UNCHANGED <<co, stage, ext_start, offset_to_label, off_to_label, labels,
                   next_label_id, exc_labeled>>

ScanDone ==
    /\ stage = "scan"
    /\ at = nwords
    /\ stage' = "jumps"
    /\ at' = 0
    /\ labels' = [p \in Places |-> {}]
    /\ UNCHANGED <<co, extended_arg, ext_start, instrs, idx_to_off, idx_to_nextoff,
                   offset_to_label, off_to_label, next_label_id, exc_labeled>>

-----------------------------------------------------------------------------
(***************************************************************************)
(* Jump targets become labels.                                             *)
(***************************************************************************)
\* off_to_idx: the places that start at offset x, at most one.
PlacesAt(x) ==
    {k \in 0 .. Count - 1 : idx_to_off[k + 1] = x} \cup {k \in {Count} : x = nwords}

\* The map f, with label l for offset x.
With(f, x, l) == [y \in DOMAIN f \cup {x} |-> IF y = x THEN l ELSE f[y]]

TargetOf(k) ==
    LET i == instrs[k + 1]
    IN  CASE JumpKindOf[i.op] = "FWD" -> idx_to_nextoff[k + 1] + i.arg
          [] JumpKindOf[i.op] = "BWD" -> idx_to_nextoff[k + 1] - i.arg
          [] OTHER -> i.arg

Attached(f, x, l) == [p \in DOMAIN f |-> f[p] \cup {m \in {l} : p \in PlacesAt(x)}]

LabelJump ==
    LET x == TargetOf(at)
    IN  /\ stage = "jumps"
        /\ at < Count
        /\ IsJumpOp(instrs[at + 1].op)
        /\ IF x \in DOMAIN offset_to_label
           THEN /\ instrs' = [instrs EXCEPT ![at + 1].arg = offset_to_label[x]]
                /\ UNCHANGED <<offset_to_label, labels, next_label_id>>
           ELSE /\ instrs' = [instrs EXCEPT ![at + 1].arg = next_label_id]
                /\ offset_to_label' = With(offset_to_label, x, next_label_id)
                /\ labels' = Attached(labels, x, next_label_id)
                /\ next_label_id' = next_label_id + 1
        /\ at' = at + 1
        /\ UNCHANGED <<co, stage, extended_arg, ext_start, idx_to_off, idx_to_nextoff,
                       off_to_label, exc_labeled>>

KeepArg ==
    /\ stage = "jumps"
    /\ at < Count
    /\ ~ IsJumpOp(instrs[at + 1].op)
    /\ at' = at + 1
    /\ UNCHANGED <<co, stage, extended_arg, ext_start, instrs, idx_to_off, idx_to_nextoff,
                   offset_to_label, off_to_label, labels, next_label_id, exc_labeled>>

JumpsDone ==
    /\ stage = "jumps"
    /\ at = Count
    /\ stage' = "table"
    /\ at' = 0
    /\ UNCHANGED <<co, extended_arg, ext_start, instrs, idx_to_off, idx_to_nextoff,
                   offset_to_label, off_to_label, labels, next_label_id, exc_labeled>>

-----------------------------------------------------------------------------
(***************************************************************************)
(* The exception table, through a label map of its own.                    *)
(***************************************************************************)
GetOrCreate(s, x) ==
    IF x \in DOMAIN s.map THEN s
    ELSE [map |-> With(s.map, x, s.next), next |-> s.next + 1]

LabelEntry ==
    LET e == co.table[at + 1]
        s == GetOrCreate(GetOrCreate(GetOrCreate(
                [map |-> off_to_label, next |-> next_label_id], e.start), e.stop), e.handler)
    IN  /\ stage = "table"
        /\ at < Len(co.table)
        /\ off_to_label' = s.map
        /\ next_label_id' = s.next
        /\ exc_labeled' = Append(exc_labeled, [start_lbl |-> s.map[e.start],
                                               stop_lbl |-> s.map[e.stop],
                                               handler_lbl |-> s.map[e.handler]])
        /\ at' = at + 1
        /\ UNCHANGED <<co, stage, extended_arg, ext_start, instrs, idx_to_off,
                       idx_to_nextoff, offset_to_label, labels>>

\* Mutant: a boundary at the end of the code is not attached.
AttachInside ==
    /\ stage = "table"
    /\ at = Len(co.table)
    /\ stage' = "decoded"
    /\ labels' = [p \in Places |-> IF p = Count THEN labels[p] ELSE labels[p] \cup
                    {off_to_label[x] : x \in {y \in DOMAIN off_to_label : p \in PlacesAt(y)}}]
    /\ UNCHANGED <<co, at, extended_arg, ext_start, instrs, idx_to_off, idx_to_nextoff,
                   offset_to_label, off_to_label, next_label_id, exc_labeled>>

Attach ==
    /\ stage = "table"
    /\ at = Len(co.table)
    /\ stage' = "decoded"
    /\ labels' = [p \in Places |-> labels[p] \cup
                    {off_to_label[x] : x \in {y \in DOMAIN off_to_label : p \in PlacesAt(y)}}]
    /\ UNCHANGED <<co, at, extended_arg, ext_start, instrs, idx_to_off, idx_to_nextoff,
                   offset_to_label, off_to_label, next_label_id, exc_labeled>>

Decode ==
    \/ SkipCache \/ FoldPrefix \/ DecodeInstr \/ ScanDone
    \/ LabelJump \/ KeepArg \/ JumpsDone
    \/ LabelEntry \/ Attach

-----------------------------------------------------------------------------
\* label_index_map(): the last place a label is attached to, if any.
LabelPlaces(l) == {p \in Places : l \in labels[p]}
LabelIndex(l) == CHOOSE p \in LabelPlaces(l) : \A q \in LabelPlaces(l) : q <= p

\* The values the variables hold.
TypeOK ==
    /\ IsCodeObject(co)
    /\ stage \in {"scan", "jumps", "table", "decoded"}
    /\ at \in 0 .. nwords + Len(co.table)
    /\ extended_arg \in 0 .. Capacity[3] - 1 /\ ext_start \in 0 .. nwords
    /\ instrs \in Seq([op : Op, arg : Nat])
    /\ Len(idx_to_off) = Count /\ Len(idx_to_nextoff) = Count
    /\ \A k \in 1 .. Count : 0 <= idx_to_off[k] /\ idx_to_off[k] < idx_to_nextoff[k]
    /\ next_label_id \in Nat
    /\ \A p \in DOMAIN labels : labels[p] \subseteq 0 .. next_label_id - 1
    /\ Len(exc_labeled) <= Len(co.table)

=============================================================================
