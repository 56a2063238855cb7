------------------------------ MODULE Interning ------------------------------
(***************************************************************************)
(* Names and constants in src/src/bytecode.cpp: from_code() turns the      *)
(* indices of a code object into the objects they stand for, the user      *)
(* edits the instructions and the tables, and to_code() turns objects into *)
(* indices again, in two sweeps that extend the tables as they go.         *)
(*                                                                         *)
(* A code object says whether it belongs to an interpreter that keeps all  *)
(* variables in one array (UNIFIED_LOCALSPLUS: 3.11 and later).            *)
(* Indices are numbered from 0, as in the code.                            *)
(***************************************************************************)
EXTENDS Integers, FiniteSets, SequencesExt

CONSTANTS
    Name,           \* the names of variables
    Object,         \* constants, told apart by identity
    Type, Eq,       \* type(o); objects are == when they have the same Eq
    Meaning,        \* what a program can tell of o
    CodeObjects,    \* the code objects from_code() is called on
    Edits,          \* what a user's new instructions may name, <<kind, value>>
    Additions,      \* what a user may pass to add_const(), add_varname(), encode_name_arg()
    MaxEdits, MaxCalls

ASSUME ObjectAssumption ==
    /\ Object \subseteq DOMAIN Type \cap DOMAIN Eq \cap DOMAIN Meaning
    /\ MaxEdits \in Nat /\ MaxCalls \in Nat

\* GLOBAL is an opcode that packs a flag beside the index of a name where
\* UNIFIED_LOCALSPLUS holds: LOAD_GLOBAL, which pushes a NULL when it is set, and
\* LOAD_ATTR (from 3.12), which looks up a method.  NAME is one that packs none.
NameKind == {"NAME", "GLOBAL"}
Kind == {"CONST", "LOCAL", "FREE"} \cup NameKind
IsItem(x) == x[1] \in Kind /\ IF x[1] = "CONST" THEN x[2] \in Object ELSE x[2] \in Name
ASSUME EditsAssumption ==
    /\ \A x \in Edits \cup Additions : IsItem(x)
    /\ \A x \in Edits : x[1] \notin NameKind

VARIABLES
    co,          \* the code object from_code() was called on
    consts, names, varnames, cellvars, freevars, nlocals,   \* the tables of CodeMeta
    instrs,      \* instructions: their kind, and an object or a raw index
    phase,       \* decode, edit, or the sweep of to_code() that is running
    cursor,
    code,        \* the indices that the second sweep has resolved
    built,       \* the code object that to_code() returned last
    source,      \* history: what each instruction was meant to name
    edited,      \* history: instructions or tables changed since built
    nedits, ncalls

tables == <<consts, names, varnames, cellvars, freevars>>
budget == <<nedits, ncalls>>
vars == <<co, tables, nlocals, instrs, phase, cursor, code, built, source, edited, budget>>

Unified == co.unified
Value(v) == [form |-> "value", is |-> v]
Index(i) == [form |-> "index", is |-> i]

-----------------------------------------------------------------------------
(***************************************************************************)
(* The tables.                                                             *)
(***************************************************************************)
\* find_only(): the first index of x in s, or -1.
FindOnly(s, x) == SelectInSeq(s, LAMBDA y : y = x) - 1

\* find_or_add() takes item for o: identity, or equality within one type.
Matches(item, o) == item = o \/ (Type[item] = Type[o] /\ Eq[item] = Eq[o])
FindConst(o) == SelectInSeq(consts, LAMBDA item : Matches(item, o)) - 1

\* py_find_or_add(), behind add_const(), does not look at types.
FindAdded(o) == SelectInSeq(consts, LAMBDA item : Eq[item] = Eq[o]) - 1

OrAppend(s, at, x) == IF at < 0 THEN Append(s, x) ELSE s

IndexOr(at, s) == IF at < 0 THEN Len(s) ELSE at

\* Mutant: cells are counted wholesale.
SlotsBeforeEveryCell(c) == c

\* Of the first c cells, those that do not share an argument's slot.
OwnCells(c) == {k \in 1 .. c : FindOnly(varnames, cellvars[k]) < 0}
SlotsBefore(c) == Cardinality(OwnCells(c))

\* localsplus_find(): varnames, then the cells of their own, then freevars.
LocalsPlusFind(x) ==
    LET local == FindOnly(varnames, x)
        cell == FindOnly(cellvars, x)
        free == FindOnly(freevars, x)
    IN  CASE local >= 0 -> local
          [] local < 0 /\ cell >= 0 -> Len(varnames) + SlotsBefore(cell)
          [] local < 0 /\ cell < 0 /\ free >= 0 ->
                Len(varnames) + SlotsBefore(Len(cellvars)) + free
          [] OTHER -> -1

\* The name from_code() gives index i of a variable opcode, {} if it has none.
NamesAt(kind, i) ==
    LET n == Len(cellvars)
        at(s, from) == {s[j] : j \in {i - from + 1} \cap DOMAIN s}
        own == {k \in OwnCells(n) : Len(varnames) + SlotsBefore(k - 1) = i}
    IN  IF Unified THEN at(varnames, 0) \cup {cellvars[k] : k \in own}
                          \cup at(freevars, Len(varnames) + SlotsBefore(n))
        ELSE IF kind = "LOCAL" THEN at(varnames, 0)
        ELSE at(cellvars, 0) \cup at(freevars, Len(cellvars))

ArgOf(kind, i) ==
    IF kind = "CONST"
    THEN IF i < Len(consts) THEN Value(consts[i + 1]) ELSE Index(i)
    ELSE IF kind \in NameKind \/ NamesAt(kind, i) = {} THEN Index(i)
    ELSE Value(CHOOSE x \in NamesAt(kind, i) : TRUE)

-----------------------------------------------------------------------------
(***************************************************************************)
(* What the interpreter finds at an index of a code object.                *)
(***************************************************************************)
Cells(c) == c.cellvars \o c.freevars
Own(c) == {k \in DOMAIN c.cellvars : ~ Contains(c.varnames, c.cellvars[k])}
UpTo(own, k) == Cardinality({j \in own : j <= k})
OwnSlots(c) ==
    [m \in 1 .. Cardinality(Own(c)) |-> c.cellvars[CHOOSE k \in Own(c) : UpTo(Own(c), k) = m]]
Frame(c) == c.varnames \o OwnSlots(c) \o c.freevars

\* The item an instruction <<kind, index>> of c stands for.
Reads(c, x) ==
    LET i == x[2] + 1
    IN  CASE x[1] = "CONST" -> <<"CONST", Meaning[c.consts[i]]>>
          [] x[1] = "NAME" -> <<"NAME", c.names[i]>>
          [] x[1] = "GLOBAL" /\ ~ c.unified -> <<"GLOBAL", c.names[i]>>
          [] x[1] = "GLOBAL" /\ c.unified ->
                <<IF x[2] % 2 = 1 THEN "GLOBAL" ELSE "GLOBAL without NULL", c.names[x[2] \div 2 + 1]>>
          [] x[1] = "LOCAL" -> <<"LOCAL", IF c.unified THEN Frame(c)[i] ELSE c.varnames[i]>>
          [] x[1] = "FREE" /\ ~ c.unified -> <<"FREE", Cells(c)[i]>>
          [] x[1] = "FREE" /\ c.unified ->
                <<IF Contains(Cells(c), Frame(c)[i]) THEN "FREE" ELSE "not a cell", Frame(c)[i]>>

\* An instruction of a code object refers to something, and what takes a cell
\* gets one.
Refers(c, x) ==
    LET i == x[2] + 1
    IN  CASE x[1] = "CONST" -> i \in DOMAIN c.consts
          [] x[1] = "NAME" -> i \in DOMAIN c.names
          [] x[1] = "GLOBAL" -> (IF c.unified THEN x[2] \div 2 + 1 ELSE i) \in DOMAIN c.names
          [] x[1] = "LOCAL" -> i \in IF c.unified THEN DOMAIN Frame(c) ELSE DOMAIN c.varnames
          [] x[1] = "FREE" ->
                IF c.unified THEN i \in DOMAIN Frame(c) /\ Contains(Cells(c), Frame(c)[i])
                ELSE i \in DOMAIN Cells(c)

ASSUME CodeAssumption ==
    \A c \in CodeObjects :
        /\ c.consts \in Seq(Object)
        /\ \A s \in {c.names, c.varnames, c.cellvars, c.freevars} : s \in Seq(Name)
        /\ c.nlocals \in Nat /\ c.unified \in BOOLEAN
        /\ c.code \in Seq(Kind \X Nat)
        /\ \A k \in DOMAIN c.code : Refers(c, c.code[k])

Denotes(c) == [k \in DOMAIN c.code |-> Reads(c, c.code[k])]
Meant(kind, v) == <<kind, IF kind = "CONST" THEN Meaning[v] ELSE v>>

-----------------------------------------------------------------------------
(***************************************************************************)
(* from_code(): copy the tables, resolve the arguments one by one.         *)
(***************************************************************************)
Init ==
    /\ co \in CodeObjects
    /\ consts = co.consts /\ names = co.names /\ varnames = co.varnames
    /\ cellvars = co.cellvars /\ freevars = co.freevars
    /\ nlocals = co.nlocals
    /\ instrs = <<>>
    /\ phase = "decode"
    /\ cursor = 0
    /\ code = <<>>
    /\ built = co
    /\ source = Denotes(co)
    /\ edited = FALSE
    /\ nedits = 0 /\ ncalls = 0

DecodeArg ==
    /\ phase = "decode"
    /\ cursor < Len(co.code)
    /\ LET x == co.code[cursor + 1]
       IN  instrs' = Append(instrs, [kind |-> x[1], arg |-> ArgOf(x[1], x[2])])
    /\ cursor' = cursor + 1
    /\ UNCHANGED <<co, tables, nlocals, phase, code, built, source, edited, budget>>

DecodeDone ==
    /\ phase = "decode"
    /\ cursor = Len(co.code)
    /\ phase' = "edit"
    /\ UNCHANGED <<co, tables, nlocals, instrs, cursor, code, built, source, edited, budget>>

-----------------------------------------------------------------------------
(***************************************************************************)
(* The user's edits.                                                       *)
(***************************************************************************)
Touch ==
    /\ phase = "edit"
    /\ nedits < MaxEdits
    /\ nedits' = nedits + 1
    /\ edited' = TRUE
    /\ UNCHANGED <<co, nlocals, phase, cursor, code, built, ncalls>>

UsedAs(kind, v) == \E k \in DOMAIN source : source[k] = <<kind, v>>

\* Where one array holds all variables, a name that is new to the tables is a
\* local or a free variable, and a plain local is no free variable.
Sensible(kind, v) ==
    Unified =>
        CASE kind = "FREE" ->
                \/ Contains(cellvars \o freevars, v)
                \/ ~ Contains(varnames, v) /\ ~ UsedAs("LOCAL", v)
          [] kind = "LOCAL" ->
                Contains(varnames \o cellvars \o freevars, v) \/ ~ UsedAs("FREE", v)
          [] OTHER -> TRUE

Insert(k, kind, arg, item) ==
    /\ instrs' = InsertAt(instrs, k, [kind |-> kind, arg |-> arg])
    /\ source' = InsertAt(source, k, item)

\* Instr(op, value)
AddInstr(k, kind, v) ==
    /\ Touch
    /\ Sensible(kind, v)
    /\ Insert(k, kind, Value(v), Meant(kind, v))
    /\ UNCHANGED tables

\* bc.add_const(o): no instruction takes the index it hands back, since an
\* integer given to one is a constant itself.
AddConst(o) ==
    /\ Touch
    /\ consts' = OrAppend(consts, FindAdded(o), o)
    /\ UNCHANGED <<names, varnames, cellvars, freevars, instrs, source>>

\* Instr(op, bc.add_varname(x))
AddVarname(k, x) ==
    /\ Touch
    /\ Sensible("LOCAL", x) /\ ~ Contains(freevars, x)
    /\ varnames' = OrAppend(varnames, FindOnly(varnames, x), x)
    /\ Insert(k, "LOCAL", Index(IndexOr(FindOnly(varnames, x), varnames)), Meant("LOCAL", x))
    /\ UNCHANGED <<consts, names, cellvars, freevars>>

\* encode_name_arg(): the flag goes beside the index where there is room for one.
Packs(kind) == kind = "GLOBAL" /\ Unified
EncodeName(kind, flag, i) == IF Packs(kind) THEN 2 * i + flag ELSE i
Flagged(kind, flag) == IF Packs(kind) /\ flag = 0 THEN "GLOBAL without NULL" ELSE kind

\* Instr(op, encode_name_arg(bc, op, x, flag=flag))
AddName(k, kind, flag, x) ==
    /\ Touch
    /\ names' = OrAppend(names, FindOnly(names, x), x)
    /\ Insert(k, kind, Index(EncodeName(kind, flag, IndexOr(FindOnly(names, x), names))),
              <<Flagged(kind, flag), x>>)
    /\ UNCHANGED <<consts, varnames, cellvars, freevars>>

\* bc.consts = ..., bc.names = ... and so on: the same entries in another order.
\* An index that an instruction holds would be void then, so none does.
HoldNoIndex(kinds) ==
    \A k \in DOMAIN instrs : instrs[k].kind \in kinds => instrs[k].arg.form = "value"

AssignConsts ==
    /\ Touch /\ HoldNoIndex({"CONST"})
    /\ consts' = Reverse(consts)
    /\ UNCHANGED <<names, varnames, cellvars, freevars, instrs, source>>

AssignNames ==
    /\ Touch /\ HoldNoIndex(NameKind)
    /\ names' = Reverse(names)
    /\ UNCHANGED <<consts, varnames, cellvars, freevars, instrs, source>>

AssignVarnames ==
    /\ Touch /\ HoldNoIndex({"LOCAL"})
    /\ varnames' = Reverse(varnames)
    /\ UNCHANGED <<consts, names, cellvars, freevars, instrs, source>>

AssignCellvars ==
    /\ Touch /\ HoldNoIndex({"FREE"})
    /\ cellvars' = Reverse(cellvars)
    /\ UNCHANGED <<consts, names, varnames, freevars, instrs, source>>

AssignFreevars ==
    /\ Touch /\ HoldNoIndex({"FREE"})
    /\ freevars' = Reverse(freevars)
    /\ UNCHANGED <<consts, names, varnames, cellvars, instrs, source>>

RemoveInstr(k) ==
    /\ Touch
    /\ instrs' = RemoveAt(instrs, k)
    /\ source' = RemoveAt(source, k)
    /\ UNCHANGED tables

Edit ==
    \/ \E k \in 1 .. Len(instrs) + 1 :
          \/ \E x \in Edits : AddInstr(k, x[1], x[2])
          \/ \E x \in Additions : x[1] = "LOCAL" /\ AddVarname(k, x[2])
          \/ \E x \in Additions, flag \in {0, 1} :
                x[1] \in NameKind /\ AddName(k, x[1], flag, x[2])
    \/ \E x \in Additions : x[1] = "CONST" /\ AddConst(x[2])
    \/ AssignConsts \/ AssignNames \/ AssignVarnames \/ AssignCellvars \/ AssignFreevars
    \/ \E k \in DOMAIN instrs : RemoveInstr(k)

-----------------------------------------------------------------------------
(***************************************************************************)
(* to_code(): intern every name, then take every index.                    *)
(***************************************************************************)
ToCode ==
    /\ phase = "edit"
    /\ ncalls < MaxCalls
    /\ ncalls' = ncalls + 1
    /\ phase' = "intern"
    /\ cursor' = 0
    /\ code' = <<>>
    /\ UNCHANGED <<co, tables, nlocals, instrs, built, source, edited, nedits>>

instr == instrs[cursor + 1]
arg == instr.arg
IsObject == arg.form = "value"
Sweeping(p) ==
    /\ phase = p
    /\ cursor < Len(instrs)
    /\ cursor' = cursor + 1
    /\ UNCHANGED <<co, nlocals, instrs, phase, built, source, edited, budget>>

\* Mutant: every table is searched, on every version.
KnownAnywhere(x) == LocalsPlusFind(x) >= 0

KnownLocal(x) == IF Unified THEN LocalsPlusFind(x) >= 0 ELSE FindOnly(varnames, x) >= 0
KnownFree(x) == FindOnly(cellvars, x) >= 0 \/ FindOnly(freevars, x) >= 0

\* Mutant: constants are interned as names are.
InternLocalOrConst ==
    /\ Sweeping("intern")
    /\ instr.kind # "FREE" /\ IsObject
    /\ varnames' = IF KnownLocal(arg.is) THEN varnames ELSE Append(varnames, arg.is)
    /\ UNCHANGED <<consts, names, cellvars, freevars, code>>

InternLocal ==
    /\ Sweeping("intern")
    /\ instr.kind = "LOCAL" /\ IsObject
    /\ varnames' = IF KnownLocal(arg.is) THEN varnames ELSE Append(varnames, arg.is)
    /\ UNCHANGED <<consts, names, cellvars, freevars, code>>

\* Mutant: an unknown name becomes a cell.
InternFreeAsCell ==
    /\ Sweeping("intern")
    /\ instr.kind = "FREE" /\ IsObject
    /\ cellvars' = IF KnownFree(arg.is) THEN cellvars ELSE Append(cellvars, arg.is)
    /\ UNCHANGED <<consts, names, varnames, freevars, code>>

InternFree ==
    /\ Sweeping("intern")
    /\ instr.kind = "FREE" /\ IsObject
    /\ freevars' = IF KnownFree(arg.is) THEN freevars ELSE Append(freevars, arg.is)
    /\ UNCHANGED <<consts, names, varnames, cellvars, code>>

\* Constants, and arguments that are indices already.
InternNothing ==
    /\ Sweeping("intern")
    /\ instr.kind = "CONST" \/ ~ IsObject
    /\ UNCHANGED <<tables, code>>

InternDone ==
    /\ phase = "intern"
    /\ cursor = Len(instrs)
    /\ phase' = "index"
    /\ cursor' = 0
    /\ UNCHANGED <<co, tables, nlocals, instrs, code, built, source, edited, budget>>

IndexConst ==
    /\ Sweeping("index")
    /\ instr.kind = "CONST" /\ IsObject
    /\ consts' = OrAppend(consts, FindConst(arg.is), arg.is)
    /\ code' = Append(code, <<"CONST", IndexOr(FindConst(arg.is), consts)>>)
    /\ UNCHANGED <<names, varnames, cellvars, freevars>>

VariableIndex(kind, x) ==
    IF Unified THEN LocalsPlusFind(x)
    ELSE IF kind = "LOCAL" THEN FindOnly(varnames, x)
    ELSE IF FindOnly(cellvars, x) >= 0 THEN FindOnly(cellvars, x)
    ELSE IF FindOnly(freevars, x) >= 0 THEN Len(cellvars) + FindOnly(freevars, x)
    ELSE -1

IndexVariable ==
    /\ Sweeping("index")
    /\ instr.kind \in {"LOCAL", "FREE"} /\ IsObject
    /\ VariableIndex(instr.kind, arg.is) >= 0
    /\ code' = Append(code, <<instr.kind, VariableIndex(instr.kind, arg.is)>>)
    /\ UNCHANGED tables

KeepIndex ==
    /\ Sweeping("index")
    /\ ~ IsObject
    /\ code' = Append(code, <<instr.kind, arg.is>>)
    /\ UNCHANGED tables

\* A label that does not resolve, an encoder or PyCode_New that raises: the
\* tables keep what the sweeps have added, nlocals what was set before
\* PyCode_New.
ToCodeFails ==
    /\ phase = "index"
    /\ cursor = Len(instrs)
    /\ phase' = "edit"
    /\ nlocals' \in {nlocals, Len(varnames)}
    /\ UNCHANGED <<co, tables, instrs, cursor, code, built, source, edited, budget>>

Assembled ==
    [consts |-> consts, names |-> names, varnames |-> varnames, cellvars |-> cellvars,
     freevars |-> freevars, nlocals |-> nlocals', unified |-> Unified, code |-> code]

\* Mutant: nlocals is recomputed once the code object has been built.
ReturnBeforeNlocals ==
    /\ phase = "index"
    /\ cursor = Len(instrs)
    /\ phase' = "edit"
    /\ nlocals' = Len(varnames)
    /\ built' = [Assembled EXCEPT !.nlocals = nlocals]
    /\ edited' = FALSE
    /\ UNCHANGED <<co, tables, instrs, cursor, code, source, budget>>

Return ==
    /\ phase = "index"
    /\ cursor = Len(instrs)
    /\ phase' = "edit"
    /\ nlocals' = Len(varnames)
    /\ built' = Assembled
    /\ edited' = FALSE
    /\ UNCHANGED <<co, tables, instrs, cursor, code, source, budget>>

Stop ==
    /\ phase = "edit"
    /\ ncalls = MaxCalls /\ nedits = MaxEdits
    /\ UNCHANGED vars

Next ==
    \/ DecodeArg \/ DecodeDone
    \/ Edit
    \/ ToCode
    \/ InternLocal \/ InternFree \/ InternNothing \/ InternDone
    \/ IndexConst \/ IndexVariable \/ KeepIndex
    \/ ToCodeFails \/ Return
    \/ Stop

Spec == Init /\ [][Next]_vars

-----------------------------------------------------------------------------
(***************************************************************************)
(* Properties.                                                             *)
(***************************************************************************)
\* The values the variables hold.  Past the early phases every argument that
\* came out of a table is an object, and every name of the sweep's part is in a
\* table.
TypeOK ==
    /\ consts \in Seq(Object)
    /\ \A s \in {names, varnames, cellvars, freevars} : s \in Seq(Name)
    /\ nlocals \in Nat
    /\ phase \in {"decode", "edit", "intern", "index"}
    /\ cursor \in Nat
    /\ \A k \in DOMAIN instrs : instrs[k].kind \in Kind
    /\ code \in Seq(Kind \X Nat)
    /\ phase # "decode" => Len(instrs) = Len(source)
    /\ edited \in BOOLEAN

\* The error "cannot resolve variable argument" is never raised: the first sweep
\* has put every name where the second looks for it (bytecode.cpp:525-531).
EveryNameIsFound ==
    (phase = "index" /\ cursor < Len(instrs)) =>
        (instr.kind \in {"LOCAL", "FREE"} /\ IsObject =>
            VariableIndex(instr.kind, arg.is) >= 0)

\* Every code object that to_code() returns means what the instructions named
\* when it was called, whatever was interned before, by edits or by calls that
\* failed (README.md:428-456).
Items == ({"LOCAL", "FREE", "NAME", "GLOBAL", "GLOBAL without NULL"} \X Name)
           \cup ({"CONST"} \X {Meaning[o] : o \in Object})
Promise == INSTANCE Editing WITH Item <- Items, built <- Denotes(built)
ImplementsEditing == Promise!Spec

\* In between edits, the last code object means what the instructions name.
BuiltAsMeant == (phase = "edit" /\ ~ edited) => Denotes(built) = source

\* Interning is stable: to_code() on instructions and tables nobody has touched
\* returns the code object it returned last time, the one from_code() was given
\* to begin with (README.md:378-380), also when calls in between have failed.
RebuildsTheSame == [][Return /\ ~ edited => built' = built]_vars

\* A function's closure is laid out by co_cellvars and co_freevars: nothing but an
\* assignment to those lists moves a cell, makes one, or moves a free variable, no
\* other edit and no call, whichever way the lists have been assigned before
\* (bytecode.cpp:486-489).
ClosureKept ==
    [][\/ AssignCellvars \/ AssignFreevars
       \/ cellvars' = cellvars /\ IsPrefix(freevars, freevars')]_vars

=============================================================================
