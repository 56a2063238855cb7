------------------------------ MODULE RoundTrip ------------------------------
(***************************************************************************)
(* A code object taken apart by from_code() and, untouched, put together   *)
(* again by to_code(): the modules Disassembly and Relaxation one after    *)
(* the other (src/src/bytecode.cpp).                                       *)
(***************************************************************************)
EXTENDS Disassembly

CONSTANTS MaxCache, ArgModulus, Unit   \* Unit: what a program is before it is known

ASSUME WidthAssumption ==
    /\ MaxCache \in Nat
    /\ ArgModulus \in Nat \ {0} /\ ArgModulus <= Capacity[3]
    /\ \A o \in Op : CacheSize[o] <= MaxCache

(***************************************************************************)
(* What the interpreter reads in the words of a code object: prefixes, the *)
(* instruction, its CACHE words.                                           *)
(***************************************************************************)
Size(c) == Len(c.words)
OpAt(c, i) == c.words[i + 1][1]
ByteAt(c, i) == c.words[i + 1][2]
OpWords(c) == {i \in 0 .. Size(c) - 1 : OpAt(c, i) \notin {EXTENDED_ARG, CACHE}}
IsPrefixWord(c, i) == i \in 0 .. Size(c) - 1 /\ OpAt(c, i) = EXTENDED_ARG

\* The instruction whose op word is i starts at s, prefixes included.
StartsAt(c, s, i) == (\A j \in s .. i - 1 : IsPrefixWord(c, j)) /\ ~ IsPrefixWord(c, s - 1)
StartOf(c, i) == CHOOSE s \in 0 .. i : StartsAt(c, s, i)

\* The starts of the instructions, and the end of the code.
Starts(c) == {StartOf(c, i) : i \in OpWords(c)} \cup {Size(c)}

ArgAt(c, i) ==
    LET value[j \in StartOf(c, i) .. i] ==
            ByteAt(c, j) + IF j = StartOf(c, i) THEN 0 ELSE Base * value[j - 1]
    IN  value[i]

NextAt(c, i) == i + 1 + CacheSize[OpAt(c, i)]

TargetAt(c, i) ==
    CASE JumpKindOf[OpAt(c, i)] = "FWD" -> NextAt(c, i) + ArgAt(c, i)
      [] JumpKindOf[OpAt(c, i)] = "BWD" -> NextAt(c, i) - ArgAt(c, i)
      [] OTHER -> ArgAt(c, i)

\* The compiler's code: a chain of prefixes is no longer than it may be, does not
\* begin with 0 and ends with an instruction, which has the CACHE words it is due;
\* jumps and protected regions keep to the starts of instructions; offsets do not
\* wrap.
WellFormed(c) ==
    /\ \A i \in 0 .. Size(c) - 1 : IsPrefixWord(c, i) =>
          /\ i + 1 < Size(c) /\ OpAt(c, i + 1) # CACHE
          /\ \E j \in i + 1 .. i + 3 : ~ IsPrefixWord(c, j)
          /\ ~ IsPrefixWord(c, i - 1) => ByteAt(c, i) # 0
    /\ Size(c) > 0 => OpAt(c, 0) # CACHE
    /\ \A i \in OpWords(c) :
          /\ NextAt(c, i) <= Size(c)
          /\ \A j \in i + 1 .. NextAt(c, i) - 1 : OpAt(c, j) = CACHE
          /\ NextAt(c, i) < Size(c) => OpAt(c, NextAt(c, i)) # CACHE
          /\ IsJumpOp(OpAt(c, i)) => TargetAt(c, i) \in Starts(c)
    /\ \A e \in DOMAIN c.table :
          {c.table[e].start, c.table[e].stop, c.table[e].handler} \subseteq Starts(c)
    /\ Cardinality(OpWords(c)) * (4 + MaxCache) < ArgModulus

ASSUME WellFormedAssumption == \A c \in CodeObjects : WellFormed(c)

VARIABLES prog, phase, cursor, ext, offset, changed, start, carried, length

asmVars == <<prog, phase, cursor, ext, offset, changed, start, carried, length>>
allVars == <<vars, asmVars>>

NoPrograms == {}
NoLayouts(p) == {}

Assembly == INSTANCE Relaxation WITH Programs <- NoPrograms, Layouts <- NoLayouts

RoundTripInit ==
    /\ Init
    /\ prog = Unit /\ phase = "decoding" /\ cursor = 0 /\ changed = FALSE /\ length = 0
    /\ ext = <<>> /\ offset = <<>> /\ start = <<>> /\ carried = <<>>

\* The slots that to_code() starts from.
Jumps(k) == IsJumpOp(instrs[k + 1].op)

SlotsOf ==
    [n |-> Count,
     kind |-> [k \in 0 .. Count - 1 |->
                IF Jumps(k) THEN JumpKindOf[instrs[k + 1].op] ELSE "INT"],
     cache |-> [k \in 0 .. Count - 1 |-> CacheSize[instrs[k + 1].op]],
     int |-> [k \in 0 .. Count - 1 |-> IF Jumps(k) THEN 0 ELSE instrs[k + 1].arg],
     target |-> [k \in 0 .. Count - 1 |->
                IF Jumps(k) /\ LabelPlaces(instrs[k + 1].arg) # {}
                THEN LabelIndex(instrs[k + 1].arg) ELSE -1]]

\* Mutant: every jump starts with a prefix.
ToCodeWide ==
    /\ stage = "decoded" /\ phase = "decoding"
    /\ prog' = SlotsOf
    /\ phase' = "assign"
    /\ ext' = [k \in 0 .. Count - 1 |->
                 IF prog'.kind[k] = "INT" THEN Assembly!ExtNeeded(prog'.int[k]) ELSE 1]
    /\ offset' = [k \in 0 .. Count |-> 0]
    /\ start' = [k \in 0 .. Count - 1 |-> 0]
    /\ carried' = [k \in 0 .. Count - 1 |-> 0]
    /\ UNCHANGED <<vars, cursor, changed, length>>

\* to_code() is called on the Bytecode that from_code() returned.
ToCode ==
    /\ stage = "decoded" /\ phase = "decoding"
    /\ prog' = SlotsOf
    /\ phase' = "assign"
    /\ ext' = [k \in 0 .. Count - 1 |->
                 IF prog'.kind[k] = "INT" THEN Assembly!ExtNeeded(prog'.int[k]) ELSE 0]
    /\ offset' = [k \in 0 .. Count |-> 0]
    /\ start' = [k \in 0 .. Count - 1 |-> 0]
    /\ carried' = [k \in 0 .. Count - 1 |-> 0]
    /\ UNCHANGED <<vars, cursor, changed, length>>

\* to_code() raises before it lays out a thing: an opcode is internal to the
\* interpreter, or compute_stacksize() fails.  The code of a compiler has no such
\* opcode and from_code() no depth to infer, which leaves a lookup of an effect that
\* raises, and that may happen to any Bytecode.
ToCodeFails ==
    /\ stage = "decoded" /\ phase = "decoding"
    /\ phase' = "refused"
    /\ UNCHANGED <<vars, prog, cursor, ext, offset, changed, start, carried, length>>

Refused == phase = "refused" /\ UNCHANGED allVars

Decoding == phase = "decoding" /\ Decode /\ UNCHANGED asmVars
Assembling == phase \notin {"decoding", "refused"} /\ Assembly!Next /\ UNCHANGED vars

RoundTripNext == Decoding \/ ToCode \/ ToCodeFails \/ Assembling \/ Refused
RoundTripSpec == RoundTripInit /\ [][RoundTripNext]_allVars

-----------------------------------------------------------------------------
(***************************************************************************)
(* What the original words say.                                            *)
(***************************************************************************)
OriginalAt(k) == CHOOSE s \in Starts(co) : Cardinality({r \in Starts(co) : r < s}) = k
OpWordOf(k) == CHOOSE i \in OpWords(co) : StartOf(co, i) = OriginalAt(k)
PrefixCount(k) == OpWordOf(k) - OriginalAt(k)
OriginalArg(k) == ArgAt(co, OpWordOf(k))
OriginalTarget(k) == TargetAt(co, OpWordOf(k))
OriginalCount == Cardinality(OpWords(co))
EmittedAt(k) == IF k < Count THEN start[k] ELSE length
Lands(k) == Assembly!Lands(k)
Done == phase = "done"

\* The new code is the old one: every integer argument is the one it was, and
\* every jump lands on the instruction it used to land on, at its new place
\* (README.md:376-380).
SameBehaviour ==
    Done =>
        /\ Count = OriginalCount
        /\ \A k \in 0 .. Count - 1 :
              IF Jumps(k)
              THEN \A j \in 0 .. Count :
                      OriginalAt(j) = OriginalTarget(k) => Lands(k) = EmittedAt(j)
              ELSE carried[k] = OriginalArg(k)

\* An untouched function never grows, and one without a spare prefix comes back
\* word for word where it was (README.md:379-380).
NeverWider ==
    Done => \A k \in 0 .. Count - 1 :
                /\ ext[k] <= PrefixCount(k)
                /\ (\A j \in 0 .. Count - 1 : ext[j] = PrefixCount(j))
                      => /\ start[k] = OriginalAt(k)
                         /\ carried[k] = OriginalArg(k)

\* Each entry of the new exception table protects the instructions the old one
\* protected, and hands over to the same instruction (bytecode.cpp:346-383,
\* 710-742).
SameRegions ==
    Done =>
        \A e \in 1 .. Len(co.table) :
            \A b \in {[was |-> co.table[e].start, lbl |-> exc_labeled[e].start_lbl],
                      [was |-> co.table[e].stop, lbl |-> exc_labeled[e].stop_lbl],
                      [was |-> co.table[e].handler, lbl |-> exc_labeled[e].handler_lbl]} :
                /\ LabelPlaces(b.lbl) # {}
                /\ OriginalAt(LabelIndex(b.lbl)) = b.was

\* An untouched function can be assembled: every jump it has finds its label.
NeverUnresolved == phase # "unresolved"

=============================================================================
