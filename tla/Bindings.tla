------------------------------ MODULE Bindings -------------------------------
(***************************************************************************)
(* The Python side of src/src/module.cpp: Bytecode, Instr, ExcEntry and    *)
(* Label as objects that a program shares and changes, and the C++         *)
(* Bytecode behind each, which to_code() fills from them.                  *)
(*                                                                         *)
(* Lists, instructions and entries have identities: an Instr or an         *)
(* ExcEntry may lie in two lists, or twice in one, and two owners may hold *)
(* one list, because the setters keep the list they are given.  No handler *)
(* calls back into Python, and all run under the interpreter lock: each is *)
(* one action.                                                             *)
(*                                                                         *)
(* A label is its id; who issued it is remembered beside it (by).          *)
(***************************************************************************)
EXTENDS Integers, SequencesExt

CONSTANTS
    Bytecode,       \* the Bytecode objects
    Op, ArgKind,    \* opcodes, and arg_kind() or jump_kind() of each
    Internal,       \* the opcodes that is_internal_opcode() refuses
    Ends,           \* unconditional jumps and scope exits: no way on to the next
    Number,         \* the integers that may be arguments, of each opcode
    Depth,          \* the integers that an entry's depth is set to
    INT_MAX, LONG_MAX,
    Decoded,        \* what Bytecode::from_code() may return
    MaxEdits, MaxInstrs, MaxLabels, MaxEntries

ASSUME BindingsAssumption ==
    /\ Bytecode # {}
    /\ ArgKind \in [Op -> {"JUMP", "CONST", "NONE"}]
    /\ Internal \subseteq Op /\ Ends \subseteq Op
    /\ Number \in [Op -> SUBSET Nat] /\ Depth \subseteq Int
    /\ INT_MAX \in Nat /\ LONG_MAX \in Nat /\ INT_MAX < LONG_MAX
    /\ {MaxEdits, MaxInstrs, MaxLabels, MaxEntries} \subseteq Nat

\* Bytecode::from_code() numbers the labels it makes, from 0.
ASSUME DecodedAssumption ==
    \A c \in Decoded :
        LET ids == 0 .. c.next - 1
        IN  /\ c.next \in Nat
            /\ c.instrs \in Seq([op : Op, labels : Seq(ids),
                                 arg : ({"label"} \X ids) \cup ({"int"} \X Nat)])
            /\ c.end_labels \in Seq(ids)
            /\ c.exc \in Seq([start : ids, stop : ids, handler : ids,
                              depth : Nat, lasti : BOOLEAN])

VARIABLES
    born,      \* the Bytecodes there are
    instr,     \* the Instrs there are: op, arg and which list .labels is
    lists,     \* the lists of labels there are
    body,      \* the lists of Instrs, by the Bytecode each was made for
    entry,     \* the ExcEntries there are
    table,     \* the lists of ExcEntries, by the Bytecode each was made for
    instrs,    \* whose list .instrs is
    end_labels,  \* which list .end_labels is
    exc_entries, \* whose list .exc_entries is
    next,      \* next_label_id
    cpp,       \* the instrs, end_labels and exc_labeled of the C++ Bytecode
    built,     \* what to_code() returned last
    outcome,   \* history: how the last to_code() ended, "none" since an edit
    edits

heap == <<instr, lists, body, entry, table>>
held == <<instrs, end_labels, exc_entries>>
object == <<born, held, next>>
result == <<cpp, built, outcome>>
vars == <<heap, object, result, edits>>

Junk == 0    \* an item of .instrs that is no Instr, of .exc_entries that is no ExcEntry
NoLabel == [none |-> Junk]   \* an item of .end_labels that is no Label
EXC_DEPTH_AUTO == -1
Items(b) == body[instrs[b]]
Entries(b) == table[exc_entries[b]]
Issued == UNION {[id : 0 .. next[b] - 1, by : {b}] : b \in born}
Ids(s) == {s[k].id : k \in {j \in DOMAIN s : s[j] # NoLabel}}

Empty == [instrs |-> <<>>, end_labels |-> <<>>, exc_labeled |-> <<>>]

Init ==
    /\ born = {}
    /\ instr = <<>> /\ lists = <<>>
    /\ body = [b \in Bytecode |-> <<>>] /\ instrs = [b \in Bytecode |-> b]
    /\ entry = <<>>
    /\ table = [b \in Bytecode |-> <<>>] /\ exc_entries = [b \in Bytecode |-> b]
    /\ end_labels = [b \in Bytecode |-> 0]
    /\ next = [b \in Bytecode |-> 0]
    /\ cpp = [b \in Bytecode |-> Empty]
    /\ built = [b \in Bytecode |-> <<>>] /\ outcome = [b \in Bytecode |-> "none"]
    /\ edits = 0

-----------------------------------------------------------------------------
(***************************************************************************)
(* Making objects.                                                         *)
(***************************************************************************)
Label(b, id) == [id |-> id, by |-> b]
Issue(b, ids) == [k \in DOMAIN ids |-> Label(b, ids[k])]
ArgFrom(b, a) == [form |-> a[1], is |-> IF a[1] = "label" THEN Label(b, a[2]) ELSE a[2]]
ExcEntry(start, stop, handler, depth, lasti) ==
    [start |-> start, stop |-> stop, handler |-> handler, depth |-> depth, lasti |-> lasti]
IssueEntry(b, e) ==
    ExcEntry(Label(b, e.start), Label(b, e.stop), Label(b, e.handler), e.depth, e.lasti)

\* The lists of labels that Bytecode.from_code() makes.
ListsFrom(b, c) ==
    [k \in DOMAIN c.instrs |-> Issue(b, c.instrs[k].labels)] \o <<Issue(b, c.end_labels)>>

\* Mutant: labels are counted from the jumps alone.
CountedFrom(c) == c.jumps

\* next_label_id as Bytecode::from_code() leaves it.
CounterOf(c) == c.next

\* Bytecode.from_code(): every label becomes an object, on every instruction
\* that has it; the C++ instructions go, the C++ entries stay.
FromCode(b, c) ==
    LET n == Len(lists)
        fresh == [k \in DOMAIN c.instrs |->
                    [op |-> c.instrs[k].op, arg |-> ArgFrom(b, c.instrs[k].arg),
                     labels |-> n + k]]
    IN  /\ b \notin born
        /\ Len(instr) + Len(fresh) <= MaxInstrs /\ Len(entry) + Len(c.exc) <= MaxEntries
        /\ born' = born \cup {b}
        /\ instr' = instr \o fresh
        /\ lists' = lists \o ListsFrom(b, c)
        /\ body' = [body EXCEPT ![b] = [k \in DOMAIN fresh |-> Len(instr) + k]]
        /\ end_labels' = [end_labels EXCEPT ![b] = n + Len(fresh) + 1]
        /\ entry' = entry \o [k \in DOMAIN c.exc |-> IssueEntry(b, c.exc[k])]
        /\ table' = [table EXCEPT ![b] = [k \in DOMAIN c.exc |-> Len(entry) + k]]
        /\ next' = [next EXCEPT ![b] = CounterOf(c)]
        /\ cpp' = [cpp EXCEPT ![b] = [instrs |-> <<>>, end_labels |-> c.end_labels,
                                      exc_labeled |-> c.exc]]
        /\ UNCHANGED <<instrs, exc_entries, built, outcome, edits>>

\* Bytecode(items), for () or the .instrs of another: a list of its own, the
\* same Instrs.  An item that is none raises, and there is no object.
NewBytecode(b, items) ==
    /\ b \notin born
    /\ \A k \in DOMAIN items : items[k] # Junk
    /\ born' = born \cup {b}
    /\ body' = [body EXCEPT ![b] = items]
    /\ lists' = Append(lists, <<>>)
    /\ end_labels' = [end_labels EXCEPT ![b] = Len(lists) + 1]
    /\ UNCHANGED <<instr, entry, table, instrs, exc_entries, next, result, edits>>

\* bc.new_label(): the label is the caller's to use.
NewLabel(b) ==
    /\ b \in born
    /\ next[b] < MaxLabels
    /\ next' = [next EXCEPT ![b] = next[b] + 1]
    /\ UNCHANGED <<heap, born, held, result, edits>>

-----------------------------------------------------------------------------
(***************************************************************************)
(* Changing them.  Lists are live: the program edits them in place, and    *)
(* what is put into one is not looked at before to_code().                 *)
(***************************************************************************)
Edit ==
    /\ edits < MaxEdits
    /\ edits' = edits + 1
    /\ outcome' = [b \in Bytecode |-> "none"]
    /\ UNCHANGED <<born, next, cpp, built>>

\* The arguments that README.md:432-441 lists for an opcode.  Integers stand for
\* every constant; names are Interning's.  Nothing checks that they fit, and an
\* edit of op or arg alone makes pairs that do not.
Arguments(op) ==
    IF ArgKind[op] = "JUMP" THEN [form : {"label"}, is : Issued]
    ELSE [form : {"int"}, is : Number[op]]

\* bc.instrs.insert(k, Instr(op, arg))
InsertInstr(b, k, op, arg) ==
    /\ Edit
    /\ Len(instr) < MaxInstrs
    /\ instr' = Append(instr, [op |-> op, arg |-> arg, labels |-> Len(lists) + 1])
    /\ lists' = Append(lists, <<>>)
    /\ body' = [body EXCEPT ![instrs[b]] = InsertAt(@, k, Len(instr) + 1)]
    /\ UNCHANGED <<entry, table, held>>

\* bc.instrs.insert(k, o), for an Instr that is somewhere already, or for an
\* object that is none.
InsertAgain(b, k, o) ==
    /\ Edit
    /\ Len(Items(b)) < MaxInstrs
    /\ body' = [body EXCEPT ![instrs[b]] = InsertAt(@, k, o)]
    /\ UNCHANGED <<instr, lists, entry, table, held>>

Delete(b, k) ==
    /\ Edit
    /\ body' = [body EXCEPT ![instrs[b]] = RemoveAt(@, k)]
    /\ UNCHANGED <<instr, lists, entry, table, held>>

\* o.op = op
SetOp(o, op) ==
    /\ Edit
    /\ instr' = [instr EXCEPT ![o].op = op]
    /\ UNCHANGED <<lists, body, entry, table, held>>

\* o.arg = arg
SetArg(o, arg) ==
    /\ Edit
    /\ instr' = [instr EXCEPT ![o].arg = arg]
    /\ UNCHANGED <<lists, body, entry, table, held>>

\* o.labels.append(l), bc.end_labels.append(l).  What is no Label goes only to a
\* list that no instruction has: to_code() looks at no item of those.
AppendLabel(i, l) ==
    /\ Edit
    /\ l = NoLabel => \A o \in DOMAIN instr : instr[o].labels # i
    /\ Len(lists[i]) < MaxLabels
    /\ lists' = [lists EXCEPT ![i] = Append(@, l)]
    /\ UNCHANGED <<instr, body, entry, table, held>>

\* o.labels = x.labels: the list that was checked is kept, not a copy.
SetLabels(o, i) ==
    /\ ~ Contains(lists[i], NoLabel)
    /\ Edit
    /\ instr' = [instr EXCEPT ![o].labels = i]
    /\ UNCHANGED <<lists, body, entry, table, held>>

SetEndLabels(b, i) ==
    /\ ~ Contains(lists[i], NoLabel)
    /\ Edit
    /\ end_labels' = [end_labels EXCEPT ![b] = i]
    /\ UNCHANGED <<heap, instrs, exc_entries>>

\* b.instrs = c.instrs
SetInstrs(b, c) ==
    /\ Edit
    /\ instrs' = [instrs EXCEPT ![b] = instrs[c]]
    /\ UNCHANGED <<heap, end_labels, exc_entries>>

\* bc.exc_entries.append(ExcEntry(l, l, l)): the depth is to be inferred.
AppendEntry(b, l) ==
    /\ Edit
    /\ Len(entry) < MaxEntries
    /\ entry' = Append(entry, ExcEntry(l, l, l, EXC_DEPTH_AUTO, FALSE))
    /\ table' = [table EXCEPT ![exc_entries[b]] = Append(@, Len(entry) + 1)]
    /\ UNCHANGED <<instr, lists, body, held>>

\* bc.exc_entries.append(x), for an ExcEntry that is somewhere already, or for
\* an object that is none.
AppendEntryAgain(b, x) ==
    /\ Edit
    /\ Len(Entries(b)) < MaxEntries
    /\ table' = [table EXCEPT ![exc_entries[b]] = Append(@, x)]
    /\ UNCHANGED <<instr, lists, body, entry, held>>

DeleteEntry(b, k) ==
    /\ Edit
    /\ table' = [table EXCEPT ![exc_entries[b]] = RemoveAt(@, k)]
    /\ UNCHANGED <<instr, lists, body, entry, held>>

\* A C long, cut to a C int.
ToInt(n) == ((n + INT_MAX + 1) % (2 * (INT_MAX + 1))) - (INT_MAX + 1)

\* x.start = l, x.stop = l, x.handler = l; x.depth = d, which is cut to an int
\* where ExcEntry(...) would refuse it; x.lasti = v
SetEntry(x, changed) ==
    /\ Edit
    /\ entry' = [entry EXCEPT ![x] = changed]
    /\ UNCHANGED <<instr, lists, body, table, held>>

SetLabel(x, f, l) == SetEntry(x, [entry[x] EXCEPT ![f] = l])
SetDepth(x, d) == SetEntry(x, [entry[x] EXCEPT !.depth = ToInt(d)])
SetLasti(x, v) == SetEntry(x, [entry[x] EXCEPT !.lasti = v])

\* b.exc_entries = c.exc_entries
SetExcEntries(b, c) ==
    /\ Edit
    /\ exc_entries' = [exc_entries EXCEPT ![b] = exc_entries[c]]
    /\ UNCHANGED <<heap, instrs, end_labels>>

Change(b) ==
    \/ \E k \in 1 .. Len(Items(b)) + 1 :
          \/ \E op \in Op : \E arg \in Arguments(op) : InsertInstr(b, k, op, arg)
          \/ \E o \in DOMAIN instr \cup {Junk} : InsertAgain(b, k, o)
    \/ \E k \in DOMAIN Items(b) : Delete(b, k)
    \/ \E o \in DOMAIN instr, op \in Op :
          \/ SetOp(o, op)
          \/ \E arg \in Arguments(op) : SetArg(o, arg)
    \/ \E i \in DOMAIN lists :
          \/ \E l \in Issued \cup {NoLabel} : AppendLabel(i, l)
          \/ \E o \in DOMAIN instr : SetLabels(o, i)
          \/ SetEndLabels(b, i)
    \/ \E c \in born : SetInstrs(b, c) \/ SetExcEntries(b, c)
    \/ \E l \in Issued : AppendEntry(b, l)
    \/ \E x \in DOMAIN entry \cup {Junk} : AppendEntryAgain(b, x)
    \/ \E k \in DOMAIN Entries(b) : DeleteEntry(b, k)
    \/ \E x \in DOMAIN entry :
          \/ \E f \in {"start", "stop", "handler"}, l \in Issued : SetLabel(x, f, l)
          \/ \E d \in Depth : SetDepth(x, d)
          \/ \E v \in BOOLEAN : SetLasti(x, v)

-----------------------------------------------------------------------------
(***************************************************************************)
(* to_code(): copy everything to C++, assemble, forget the copy.           *)
(***************************************************************************)
Overflows(i) == i.arg.form = "int" /\ ArgKind[i.op] # "CONST" /\ i.arg.is > LONG_MAX

\* pyinstr_to_cpp(), of an Instr that does not overflow: a Label is one whatever
\* the opcode, and only then is arg_kind() asked.
CppArg(i) ==
    IF i.arg.form = "label" THEN <<"Label", i.arg.is.id>>
    ELSE IF ArgKind[i.op] = "CONST" THEN <<"PyObject", i.arg.is>>
    ELSE <<"int", ToInt(i.arg.is)>>
CppInstr(o) ==
    [op |-> instr[o].op, arg |-> CppArg(instr[o]),
     labels |-> Ids(lists[instr[o].labels])]

Convertible(o) == o # Junk /\ ~ Overflows(instr[o])
CppEntry(x) ==
    LET e == entry[x]
    IN  ExcEntry(e.start.id, e.stop.id, e.handler.id, e.depth, e.lasti)

\* Mutant: the entries of the last call are still there.
EntriesOnTop(b) ==
    cpp[b].exc_labeled \o [k \in DOMAIN Entries(b) |-> CppEntry(Entries(b)[k])]

SyncEntries(b) == [k \in DOMAIN Entries(b) |-> CppEntry(Entries(b)[k])]

\* What is copied before the first item that is none, which raises.
EntriesBefore(b) ==
    LET bad == SelectInSeq(Entries(b), LAMBDA x : x = Junk)
    IN  [k \in 1 .. bad - 1 |-> CppEntry(Entries(b)[k])]

EndLabels(b) == lists[end_labels[b]]
SyncLabels(b) == [k \in DOMAIN EndLabels(b) |-> EndLabels(b)[k].id]
LabelsBefore(b) ==
    LET bad == SelectInSeq(EndLabels(b), LAMBDA l : l = NoLabel)
    IN  [k \in 1 .. bad - 1 |-> EndLabels(b)[k].id]

\* An item that is no Instr, or an integer beyond a C long.
RefuseInstr(b) ==
    /\ \E k \in DOMAIN Items(b) : ~ Convertible(Items(b)[k])
    /\ cpp' = [cpp EXCEPT ![b].instrs = <<>>]
    /\ outcome' = [outcome EXCEPT ![b] = "raised"]
    /\ UNCHANGED built

AllConvertible(b) == \A k \in DOMAIN Items(b) : Convertible(Items(b)[k])

RefuseEndLabel(b) ==
    /\ AllConvertible(b)
    /\ Contains(EndLabels(b), NoLabel)
    /\ cpp' = [cpp EXCEPT ![b] = [instrs |-> <<>>, end_labels |-> LabelsBefore(b),
                                  exc_labeled |-> @.exc_labeled]]
    /\ outcome' = [outcome EXCEPT ![b] = "raised"]
    /\ UNCHANGED built

RefuseEntry(b) ==
    /\ AllConvertible(b)
    /\ ~ Contains(EndLabels(b), NoLabel)
    /\ Contains(Entries(b), Junk)
    /\ cpp' = [cpp EXCEPT ![b] = [instrs |-> <<>>, end_labels |-> SyncLabels(b),
                                  exc_labeled |-> EntriesBefore(b)]]
    /\ outcome' = [outcome EXCEPT ![b] = "raised"]
    /\ UNCHANGED built

Synced(b) ==
    [instrs |-> [k \in DOMAIN Items(b) |-> CppInstr(Items(b)[k])],
     end_labels |-> SyncLabels(b), exc_labeled |-> SyncEntries(b)]

Placed(c) == (UNION {c.instrs[k].labels : k \in DOMAIN c.instrs}) \cup ToSet(c.end_labels)
PlacesOf(c, l) ==
    {k \in 0 .. Len(c.instrs) - 1 : l \in c.instrs[k + 1].labels}
      \cup {k \in {Len(c.instrs)} : Contains(c.end_labels, l)}

\* Mutant: the first instruction that has a label is its place.
FirstIndexMap(c) == [l \in Placed(c) |-> Min(PlacesOf(c, l))]

\* label_index_map(): the last place that has a label is its place.
LabelIndexMap(c) == [l \in Placed(c) |-> Max(PlacesOf(c, l))]

\* compute_stacksize(): the instructions that control reaches from some others.
Places(c) == 0 .. Len(c.instrs) - 1
Follows(c, k) ==
    LET i == c.instrs[k + 1]
    IN  (IF ArgKind[i.op] = "JUMP" /\ i.arg[1] = "Label"
         THEN {LabelIndexMap(c)[i.arg[2]]} ELSE {})
          \cup (IF i.op \in Ends THEN {} ELSE {k + 1})
Reached(c, from) ==
    LET closed == {S \in SUBSET Places(c) :
                     /\ from \cap Places(c) \subseteq S
                     /\ \A k \in S : Follows(c, k) \cap Places(c) \subseteq S}
    IN  {k \in Places(c) : \A S \in closed : k \in S}

\* to_code() of C++ raises nothing: there is no internal opcode, every label that
\* is named has a place, ordinary flow reaches where a depth is to be inferred,
\* and no jump that is reached names a number.  A region that starts one past
\* the end is looked up out of range, and may pass for a reached one (lucky).
Assembles(c, lucky) ==
    LET at == LabelIndexMap(c)
        e == c.exc_labeled
        handlers == {at[e[k].handler] : k \in DOMAIN e}
    IN  /\ \A k \in DOMAIN c.instrs :
              /\ c.instrs[k].op \notin Internal
              /\ c.instrs[k].arg[1] = "Label" => c.instrs[k].arg[2] \in DOMAIN at
        /\ \A k \in DOMAIN e : {e[k].start, e[k].stop, e[k].handler} \subseteq DOMAIN at
        /\ \A k \in DOMAIN e :
              e[k].depth = EXC_DEPTH_AUTO =>
                 \/ at[e[k].start] \in Reached(c, {0})
                 \/ lucky /\ Contains(c.end_labels, e[k].start)
        /\ \A k \in Reached(c, {0} \cup handlers) :
              ArgKind[c.instrs[k + 1].op] = "JUMP" => c.instrs[k + 1].arg[1] = "Label"

\* An inferred depth is StackDepth's: here it is still EXC_DEPTH_AUTO.
InstrItem(op, what, n) == <<op, what, n, 0, 0, 0>>
EntryItem(start, stop, handler, depth, lasti) ==
    <<"entry", IF lasti THEN "lasti" ELSE "", start, stop, handler, depth>>

\* The code object: Label arguments and entries name places.
Assembled(c) ==
    LET at == LabelIndexMap(c)
        item(i) ==
            IF i.arg[1] = "Label" THEN InstrItem(i.op, "to", at[i.arg[2]])
            ELSE InstrItem(i.op, i.arg[1], i.arg[2])
        row(e) == EntryItem(at[e.start], at[e.stop], at[e.handler], e.depth, e.lasti)
    IN  [k \in DOMAIN c.instrs |-> item(c.instrs[k])]
          \o [k \in DOMAIN c.exc_labeled |-> row(c.exc_labeled[k])]

Assemble(b, lucky) ==
    LET c == Synced(b)
    IN  /\ AllConvertible(b)
        /\ ~ Contains(EndLabels(b), NoLabel) /\ ~ Contains(Entries(b), Junk)
        /\ IF Assembles(c, lucky)
           THEN /\ built' = [built EXCEPT ![b] = Assembled(c)]
                /\ outcome' = [outcome EXCEPT ![b] = "returned"]
           ELSE /\ outcome' = [outcome EXCEPT ![b] = "raised"]
                /\ UNCHANGED built
        /\ cpp' = [cpp EXCEPT ![b] = [c EXCEPT !.instrs = <<>>, !.end_labels = <<>>]]

ToCode(b) ==
    /\ b \in born
    /\ RefuseInstr(b) \/ RefuseEndLabel(b) \/ RefuseEntry(b)
       \/ \E lucky \in BOOLEAN : Assemble(b, lucky)
    /\ UNCHANGED <<heap, object, edits>>

Next ==
    \E b \in Bytecode :
        \/ \E c \in Decoded : FromCode(b, c)
        \/ NewBytecode(b, <<>>)
        \/ \E o \in born : NewBytecode(b, Items(o))
        \/ NewLabel(b)
        \/ b \in born /\ Change(b)
        \/ ToCode(b)

Spec == Init /\ [][Next]_vars

-----------------------------------------------------------------------------
(***************************************************************************)
(* Properties.                                                             *)
(***************************************************************************)
\* label_positions(): where Python is told that a label points, -1 if nowhere.  It
\* does not look at what an item is; one that is no Instr stands for one without
\* labels.
LabelPosition(b, l) ==
    LET s == Items(b)
        places == {k \in DOMAIN s : s[k] # Junk /\ l \in Ids(lists[instr[s[k]].labels])}
    IN  IF l \in Ids(EndLabels(b)) THEN Len(s) ELSE Max({0} \cup places) - 1

\* What the objects say: Labels and entries by the places that Python sees,
\* other arguments as README.md:432-441 lists them (an integer too wide for a C
\* int is cut).
Shown(b) ==
    LET place(l) == LabelPosition(b, l.id)
        says(i) ==
            IF i.arg.form = "label" THEN InstrItem(i.op, "to", place(i.arg.is))
            ELSE IF ArgKind[i.op] = "CONST" THEN InstrItem(i.op, "PyObject", i.arg.is)
            ELSE InstrItem(i.op, "int", ToInt(i.arg.is))
        instructions ==
            [k \in DOMAIN Items(b) |->
                IF Items(b)[k] = Junk THEN InstrItem("junk", "", 0) ELSE says(instr[Items(b)[k]])]
        row(e) == EntryItem(place(e.start), place(e.stop), place(e.handler), e.depth, e.lasti)
        entries ==
            [k \in DOMAIN Entries(b) |->
                IF Entries(b)[k] = Junk THEN InstrItem("junk", "", 1) ELSE row(entry[Entries(b)[k]])]
    IN  IF b \in born THEN instructions \o entries ELSE <<>>

\* to_code() returns what the objects say at the time of the call, its labels
\* where label_positions() says they are, and changes nothing they say: nothing
\* stays in the C++ Bytecode from an earlier call, whichever way that ended.
\* Next treats all Bytecodes alike, so one stands for every one.
Watched == CHOOSE b \in Bytecode : TRUE
Item ==
    (Op \cup {"entry", "junk"}) \X {"", "to", "PyObject", "int", "lasti"}
      \X Int \X Int \X Int \X Int
Promise == INSTANCE Editing WITH source <- Shown(Watched), built <- built[Watched]
BuildsWhatIsShown == Promise!Spec

\* A depth is to be inferred for a region that starts one past the end, where
\* the look-up is out of range and what it finds undefined.
ReadsPastEnd(b) ==
    \E k \in DOMAIN Entries(b) :
        LET x == Entries(b)[k]
        IN  /\ x # Junk
            /\ entry[x].depth = EXC_DEPTH_AUTO
            /\ entry[x].start.id \in Ids(EndLabels(b))

\* Called again with nothing changed, to_code() ends as it did: an error is not
\* mended, or made, by having failed before (module.cpp:706-790).
ToCodeRepeats ==
    [][\A b \in born :
         outcome[b] # "none" /\ outcome'[b] # "none" /\ ~ ReadsPastEnd(b) =>
             outcome'[b] = outcome[b] /\ built'[b] = built[b]]_vars

\* new_label() reserves an id (bytecode.h:78-80): the next one is on no
\* instruction, jump, entry or list that holds a label of the same Bytecode.
\* Labels of another Bytecode are not its business, and do clash.
InUse ==
    (UNION {ToSet(lists[i]) \ {NoLabel} : i \in DOMAIN lists})
      \cup {instr[o].arg.is :
              o \in {x \in DOMAIN instr : instr[x].arg.form = "label"}}
      \cup (UNION {{entry[x].start, entry[x].stop, entry[x].handler} : x \in DOMAIN entry})
NextLabelIsFresh == \A l \in InUse : l.id < next[l.by]

=============================================================================
