--------------------------- MODULE Bindings_proofs ---------------------------
(***************************************************************************)
(* However objects are shared, edited and assembled, and however many      *)
(* there are: new_label() is fresh, to_code() ends as it did, and what it  *)
(* returns is what the objects show.                                       *)
(***************************************************************************)
EXTENDS Bindings, SequenceTheorems, WellFoundedInduction, TLAPS

-----------------------------------------------------------------------------
(***************************************************************************)
(* Sequences, and the largest of some numbers.                             *)
(***************************************************************************)
LEMMA MapType ==
    ASSUME NEW S, NEW n \in Nat, NEW f, f = [k \in 1 .. n |-> f[k]],
           \A k \in 1 .. n : f[k] \in S
    PROVE  f \in Seq(S) /\ Len(f) = n
<1>1. f \in [1 .. n -> S]
  OBVIOUS
<1>2. f \in Seq(S)
  BY <1>1, SeqDef
<1> QED
  BY <1>1, <1>2, LenProperties

LEMMA LenOfConcat ==
    ASSUME NEW S, NEW s \in Seq(S), NEW t \in Seq(S)
    PROVE  Len(s \o t) = Len(s) + Len(t)
  BY ConcatProperties

LEMMA LenOfMap ==
    \A n \in Nat : \A f : f = [k \in 1 .. n |-> f[k]] => Len(f) = n
<1> TAKE n \in Nat
<1> TAKE f
<1> HAVE f = [k \in 1 .. n |-> f[k]]
<1>1. \A k \in 1 .. n : f[k] \in {f[j] : j \in 1 .. n}
  OBVIOUS
<1> QED
  BY <1>1, MapType

LEMMA InsertAtType ==
    ASSUME NEW S, NEW s \in Seq(S), NEW k \in 1 .. Len(s) + 1, NEW e \in S
    PROVE  InsertAt(s, k, e) \in Seq(S)
<1>1. Len(s) \in Nat /\ \A i \in 1 .. Len(s) : s[i] \in S
  BY ElementOfSeq, LenProperties
<1>2. SubSeq(s, 1, k - 1) \in Seq(S) /\ SubSeq(s, k, Len(s)) \in Seq(S)
  BY <1>1, SubSeqProperties
<1>3. <<e>> \in Seq(S)
  OBVIOUS
<1>4. SubSeq(s, 1, k - 1) \o <<e>> \in Seq(S)
  BY <1>2, <1>3, ConcatProperties
<1> QED
  BY <1>2, <1>4, ConcatProperties DEF InsertAt

LEMMA RemoveAtType ==
    ASSUME NEW S, NEW s \in Seq(S), NEW k \in 1 .. Len(s)
    PROVE  RemoveAt(s, k) \in Seq(S)
<1>1. Len(s) \in Nat /\ \A i \in 1 .. Len(s) : s[i] \in S
  BY ElementOfSeq, LenProperties
<1>2. SubSeq(s, 1, k - 1) \in Seq(S) /\ SubSeq(s, k + 1, Len(s)) \in Seq(S)
  BY <1>1, SubSeqProperties
<1> QED
  BY <1>2, ConcatProperties DEF RemoveAt

LEMMA MaxIs ==
    ASSUME NEW S, S \subseteq Int, NEW m \in S, \A y \in S : y <= m
    PROVE  Max(S) = m
<1> DEFINE x == CHOOSE x \in S : \A y \in S : x >= y
<1>1. x \in S /\ \A y \in S : x >= y
  OBVIOUS
<1>2. x = m
  <2> HIDE DEF x
  <2> QED
    BY <1>1
<1> QED
  BY <1>2 DEF Max

LEMMA MaxOf ==
    ASSUME NEW n \in Nat, NEW S, S \subseteq 0 .. n, S # {}
    PROVE  Max(S) \in S /\ \A y \in S : y <= Max(S)
<1> DEFINE T == {n - x : x \in S}
           R == OpToRel(<, Nat)
<1>1. T \subseteq Nat /\ T # {}
  <2>1. \A x \in S : n - x \in Nat /\ n - x \in T
    OBVIOUS
  <2> QED
    BY <2>1
<1>2. IsWellFoundedOn(R, Nat)
  BY NatLessThanWellFounded
<1> HIDE DEF T, R
<1>3. PICK t \in T : \A u \in T : ~ (<<u, t>> \in R)
  BY <1>1, <1>2, WFMin
<1>4. \A u \in T : t <= u
  <2>1. ASSUME NEW u \in T, u < t PROVE <<u, t>> \in R
    <3>1. u \in Nat /\ t \in Nat
      BY <1>1
    <3> DEFINE p == <<u, t>>
    <3>2. p \in Nat \X Nat /\ p[1] < p[2]
      BY <2>1, <3>1
    <3> HIDE DEF p
    <3>3. p \in {q \in Nat \X Nat : q[1] < q[2]}
      BY <3>2
    <3> QED
      BY <3>3 DEF R, OpToRel, p
  <2>2. \A u \in T : ~ (u < t)
    BY <1>3, <2>1
  <2>3. \A u \in T : u \in Nat
    BY <1>1
  <2> QED
    BY <2>2, <2>3
<1>5. PICK m \in S : t = n - m
  BY <1>3 DEF T
<1>6. \A y \in S : y <= m
  BY <1>4, <1>5 DEF T
<1>7. Max(S) = m
  <2>1. S \subseteq Int
    OBVIOUS
  <2> QED
    BY <1>6, <2>1, MaxIs
<1> QED
  BY <1>6, <1>7

-----------------------------------------------------------------------------
(***************************************************************************)
(* The inductive invariant.                                                *)
(***************************************************************************)
\* Each label has been issued.
Entry == [start : Issued, stop : Issued, handler : Issued, depth : Int, lasti : BOOLEAN]
Argument == [form : {"label"}, is : Issued] \cup [form : {"int"}, is : Nat]
Instr == [op : Op, labels : DOMAIN lists, arg : Argument]

HeapOK ==
    /\ lists \in Seq(Seq(Issued \cup {NoLabel}))
    /\ instr \in Seq(Instr)
    /\ body \in [Bytecode -> Seq(DOMAIN instr \cup {Junk})]
    /\ entry \in Seq(Entry)
    /\ table \in [Bytecode -> Seq(DOMAIN entry \cup {Junk})]

ObjectsOK ==
    /\ born \subseteq Bytecode
    /\ instrs \in [Bytecode -> Bytecode] /\ exc_entries \in [Bytecode -> Bytecode]
    /\ \A b \in born : instrs[b] \in born /\ exc_entries[b] \in born
    /\ \A b \in Bytecode \ born : instrs[b] = b /\ exc_entries[b] = b
    /\ end_labels \in [Bytecode -> Nat]
    /\ \A b \in born : end_labels[b] \in DOMAIN lists
    /\ next \in [Bytecode -> Nat]
    /\ \A b \in Bytecode \ born : next[b] = 0

ResultsOK ==
    /\ built \in [Bytecode -> Seq(Item)]
    /\ outcome \in [Bytecode -> {"none", "returned", "raised"}]
    /\ \A b \in Bytecode \ born : outcome[b] = "none" /\ built[b] = <<>>

TypeOK == HeapOK /\ ObjectsOK /\ ResultsOK

\* to_code() returns; what is read past the end is lucky or not.
Fine(b, lucky) ==
    /\ AllConvertible(b)
    /\ ~ Contains(EndLabels(b), NoLabel) /\ ~ Contains(Entries(b), Junk)
    /\ Assembles(Synced(b), lucky)

\* How the last call ended is how a call could end, when nothing was changed.
Remembered ==
    \A b \in born :
        /\ outcome[b] = "returned" => Fine(b, TRUE) /\ built[b] = Assembled(Synced(b))
        /\ outcome[b] = "raised" => ~ Fine(b, FALSE)

IInv == TypeOK /\ Remembered

-----------------------------------------------------------------------------
(***************************************************************************)
(* Types.                                                                  *)
(***************************************************************************)
IssuedOf(B, n) == UNION {[id : 0 .. n[b] - 1, by : {b}] : b \in B}
LEMMA IssuedIs ==
    ASSUME NEW B, NEW n
    PROVE  \A l : l \in IssuedOf(B, n) <=>
                     \E b \in B : \E id \in 0 .. n[b] - 1 : l = Label(b, id)
BY DEF IssuedOf, Label

\* A label once issued stays so, and what is typed stays so when there are more
\* labels and lists.
LEMMA LabelsStay ==
    ASSUME born \subseteq born', \A b \in born : next'[b] \in Int /\ next[b] \in Int /\ next'[b] >= next[b]
    PROVE  Issued \subseteq Issued'
<1>1. Issued = IssuedOf(born, next) /\ Issued' = IssuedOf(born', next')
  BY DEF Issued, IssuedOf
<1>2. ASSUME NEW l \in IssuedOf(born, next) PROVE l \in IssuedOf(born', next')
  <2>1. PICK b \in born : \E id \in 0 .. next[b] - 1 : l = Label(b, id)
    BY IssuedIs
  <2>3. PICK id \in 0 .. next[b] - 1 : l = Label(b, id)
    BY <2>1
  <2>2. id \in 0 .. next'[b] - 1
    OBVIOUS
  <2> QED
    BY <2>2, <2>3, IssuedIs
<1> QED
  BY <1>1, <1>2

LEMMA TypesGrow ==
    ASSUME Issued \subseteq Issued', DOMAIN lists \subseteq DOMAIN lists'
    PROVE  Instr \subseteq Instr' /\ Entry \subseteq Entry'
BY DEF Instr, Entry, Argument

LEMMA ItemsType ==
    ASSUME TypeOK, NEW b \in Bytecode
    PROVE  /\ Items(b) \in Seq(DOMAIN instr \cup {Junk})
           /\ Entries(b) \in Seq(DOMAIN entry \cup {Junk})
           /\ instrs[b] \in Bytecode /\ exc_entries[b] \in Bytecode
BY DEF TypeOK, HeapOK, ObjectsOK, Items, Entries

LEMMA ToIntType ==
    ASSUME NEW n \in Int
    PROVE  ToInt(n) \in Int
<1> DEFINE w == 2 * (INT_MAX + 1)
<1>1. w \in Nat /\ w > 0
  BY BindingsAssumption
<1>2. n + INT_MAX + 1 \in Int
  BY BindingsAssumption
<1> HIDE DEF w
<1>3. (n + INT_MAX + 1) % w \in Int
  BY <1>1, <1>2
<1> QED
  BY <1>3, BindingsAssumption DEF ToInt, w

\* After an edit only what it was about remains to be looked at.
LEMMA EditKeeps ==
    ASSUME TypeOK, Edit
    PROVE  /\ Issued' = Issued /\ Entry' = Entry
           /\ DOMAIN lists \subseteq DOMAIN lists' => Instr \subseteq Instr'
           /\ DOMAIN lists' = DOMAIN lists => Instr' = Instr
           /\ ResultsOK'
           /\ UNCHANGED <<born, next>>
<1>1. UNCHANGED <<born, next, built>> /\ outcome' = [b \in Bytecode |-> "none"]
  BY DEF Edit
<1>2. Issued' = Issued /\ Entry' = Entry /\ Argument' = Argument
  BY <1>1 DEF Issued, Entry, Argument
<1>4. DOMAIN lists' = DOMAIN lists => Instr' = Instr
  BY <1>2 DEF Instr
<1>3. ResultsOK'
  BY <1>1 DEF TypeOK, ResultsOK
<1> QED
  BY <1>1, <1>2, <1>3, <1>4, TypesGrow

LEMMA ArgumentType ==
    ASSUME NEW op \in Op, NEW arg \in Arguments(op)
    PROVE  arg \in Argument
<1>1. CASE ArgKind[op] = "JUMP"
  BY <1>1 DEF Arguments, Argument
<1>2. CASE ArgKind[op] # "JUMP"
  BY <1>2, BindingsAssumption DEF Arguments, Argument
<1> QED
  BY <1>1, <1>2

LEMMA TypeInsertInstr ==
    ASSUME TypeOK, NEW b \in Bytecode, NEW k \in 1 .. Len(Items(b)) + 1,
           NEW op \in Op, NEW arg \in Arguments(op), InsertInstr(b, k, op, arg)
    PROVE  TypeOK'
<1> USE DEF TypeOK
<1>1. /\ instr' = Append(instr, [op |-> op, arg |-> arg, labels |-> Len(lists) + 1])
      /\ lists' = Append(lists, <<>>)
      /\ body' = [body EXCEPT ![instrs[b]] = InsertAt(@, k, Len(instr) + 1)]
      /\ UNCHANGED <<entry, table, instrs, end_labels, exc_entries>>
      /\ Edit
  BY DEF InsertInstr, held
<1>2. /\ Issued' = Issued /\ Entry' = Entry
      /\ DOMAIN lists \subseteq DOMAIN lists' => Instr \subseteq Instr'
      /\ ResultsOK' /\ UNCHANGED <<born, next>>
  BY <1>1, EditKeeps
<1>3. lists' \in Seq(Seq(Issued \cup {NoLabel})) /\ DOMAIN lists' = 1 .. Len(lists) + 1
      /\ DOMAIN lists = 1 .. Len(lists) /\ Len(lists) \in Nat
  <2>1. <<>> \in Seq(Issued \cup {NoLabel})
    OBVIOUS
  <2>2. lists \in Seq(Seq(Issued \cup {NoLabel}))
    BY DEF HeapOK
  <2> QED
    BY <1>1, <2>1, <2>2, AppendProperties, LenProperties
<1>4. Instr \subseteq Instr'
  BY <1>2, <1>3
<1>5. [op |-> op, arg |-> arg, labels |-> Len(lists) + 1] \in Instr'
  <2>1. Len(lists) + 1 \in DOMAIN lists'
    BY <1>3
  <2>2. arg \in Argument'
    BY <1>2, ArgumentType DEF Argument
  <2> QED
    BY <2>1, <2>2 DEF Instr
<1>6. instr' \in Seq(Instr') /\ DOMAIN instr' = 1 .. Len(instr) + 1
      /\ DOMAIN instr = 1 .. Len(instr) /\ Len(instr) \in Nat
  <2>1. instr \in Seq(Instr) /\ instr \in Seq(Instr')
    BY <1>4, SeqMonotonic DEF HeapOK
  <2> QED
    BY <1>1, <1>5, <2>1, AppendProperties, LenProperties
<1>7. body' \in [Bytecode -> Seq(DOMAIN instr' \cup {Junk})]
  <2> DEFINE S == DOMAIN instr \cup {Junk}
             T == DOMAIN instr' \cup {Junk}
  <2>1. S \subseteq T /\ Len(instr) + 1 \in T
    BY <1>6
  <2>2. body \in [Bytecode -> Seq(S)]
    BY DEF HeapOK
  <2> HIDE DEF S, T
  <2>3. \A c \in Bytecode : body[c] \in Seq(T)
    BY <2>1, <2>2, SeqMonotonic
  <2>4. InsertAt(body[instrs[b]], k, Len(instr) + 1) \in Seq(T)
    BY <2>1, <2>3, ItemsType, InsertAtType DEF Items
  <2> QED
    BY <1>1, <2>2, <2>3, <2>4 DEF T
<1>10. entry' \in Seq(Entry') /\ table' \in [Bytecode -> Seq(DOMAIN entry' \cup {Junk})]
  BY <1>1, <1>2 DEF HeapOK
<1>8. HeapOK'
  BY <1>2, <1>3, <1>6, <1>7, <1>10 DEF HeapOK
<1>9. ObjectsOK'
  BY <1>1, <1>2, <1>3 DEF ObjectsOK
<1> QED
  BY <1>2, <1>8, <1>9

LEMMA TypeInsertAgain ==
    ASSUME TypeOK, NEW b \in Bytecode, NEW k \in 1 .. Len(Items(b)) + 1,
           NEW o \in DOMAIN instr \cup {Junk}, InsertAgain(b, k, o)
    PROVE  TypeOK'
<1> USE DEF TypeOK
<1>1. /\ body' = [body EXCEPT ![instrs[b]] = InsertAt(@, k, o)]
      /\ UNCHANGED <<instr, lists, entry, table, instrs, end_labels, exc_entries>>
      /\ Edit
  BY DEF InsertAgain, held
<1>2. /\ Issued' = Issued /\ Entry' = Entry /\ Instr' = Instr
      /\ ResultsOK' /\ UNCHANGED <<born, next>>
  BY <1>1, EditKeeps
<1>3. InsertAt(body[instrs[b]], k, o) \in Seq(DOMAIN instr \cup {Junk})
  BY ItemsType, InsertAtType DEF Items
<1>4. HeapOK'
  BY <1>1, <1>2, <1>3 DEF HeapOK
<1>5. ObjectsOK'
  BY <1>1, <1>2 DEF ObjectsOK
<1> QED
  BY <1>2, <1>4, <1>5

LEMMA TypeDelete ==
    ASSUME TypeOK, NEW b \in Bytecode, NEW k \in DOMAIN Items(b), Delete(b, k)
    PROVE  TypeOK'
<1> USE DEF TypeOK
<1>1. /\ body' = [body EXCEPT ![instrs[b]] = RemoveAt(@, k)]
      /\ UNCHANGED <<instr, lists, entry, table, instrs, end_labels, exc_entries>>
      /\ Edit
  BY DEF Delete, held
<1>2. /\ Issued' = Issued /\ Entry' = Entry /\ Instr' = Instr
      /\ ResultsOK' /\ UNCHANGED <<born, next>>
  BY <1>1, EditKeeps
<1>3. RemoveAt(body[instrs[b]], k) \in Seq(DOMAIN instr \cup {Junk})
  <2>1. k \in 1 .. Len(Items(b))
    BY ItemsType, LenProperties
  <2> QED
    BY <2>1, ItemsType, RemoveAtType DEF Items
<1>4. HeapOK'
  BY <1>1, <1>2, <1>3 DEF HeapOK
<1>5. ObjectsOK'
  BY <1>1, <1>2 DEF ObjectsOK
<1> QED
  BY <1>2, <1>4, <1>5

\* One Instr is another one now.
LEMMA TypeSetInstr ==
    ASSUME TypeOK, NEW o \in DOMAIN instr, NEW i \in Instr,
           instr' = [instr EXCEPT ![o] = i],
           Edit, UNCHANGED <<lists, body, entry, table, held>>
    PROVE  TypeOK'
<1> USE DEF TypeOK
<1>2. /\ Issued' = Issued /\ Entry' = Entry /\ Instr' = Instr
      /\ ResultsOK' /\ UNCHANGED <<born, next>>
  BY EditKeeps
<1>3. instr \in Seq(Instr) /\ DOMAIN instr = 1 .. Len(instr) /\ o \in 1 .. Len(instr)
  BY LenProperties DEF HeapOK
<1>6. instr' \in Seq(Instr) /\ DOMAIN instr' = DOMAIN instr
  BY <1>3, ExceptSeq
<1>7. HeapOK'
  BY <1>2, <1>6 DEF HeapOK
<1>8. ObjectsOK'
  BY <1>2 DEF ObjectsOK, held
<1> QED
  BY <1>2, <1>7, <1>8

LEMMA TypeSetOp ==
    ASSUME TypeOK, NEW o \in DOMAIN instr, NEW op \in Op, SetOp(o, op)
    PROVE  TypeOK'
<1> DEFINE i == [instr[o] EXCEPT !.op = op]
<1>1. instr[o] \in Instr
  BY LenProperties, ElementOfSeq DEF TypeOK, HeapOK
<1>2. i \in Instr
  BY <1>1 DEF Instr
<1>3. /\ instr' = [instr EXCEPT ![o] = i]
      /\ Edit /\ UNCHANGED <<lists, body, entry, table, held>>
  BY DEF SetOp
<1> HIDE DEF i
<1> QED
  BY <1>2, <1>3, TypeSetInstr

LEMMA TypeSetArg ==
    ASSUME TypeOK, NEW o \in DOMAIN instr, NEW op \in Op, NEW arg \in Arguments(op),
           SetArg(o, arg)
    PROVE  TypeOK'
<1> DEFINE i == [instr[o] EXCEPT !.arg = arg]
<1>1. instr[o] \in Instr
  BY LenProperties, ElementOfSeq DEF TypeOK, HeapOK
<1>2. i \in Instr
  BY <1>1, ArgumentType DEF Instr
<1>3. /\ instr' = [instr EXCEPT ![o] = i]
      /\ Edit /\ UNCHANGED <<lists, body, entry, table, held>>
  BY DEF SetArg
<1> HIDE DEF i
<1> QED
  BY <1>2, <1>3, TypeSetInstr

LEMMA TypeAppendLabel ==
    ASSUME TypeOK, NEW i \in DOMAIN lists, NEW l \in Issued \cup {NoLabel}, AppendLabel(i, l)
    PROVE  TypeOK'
<1> USE DEF TypeOK
<1>1. /\ lists' = [lists EXCEPT ![i] = Append(@, l)]
      /\ UNCHANGED <<instr, body, entry, table, instrs, end_labels, exc_entries>>
      /\ Edit
  BY DEF AppendLabel, held
<1> DEFINE S == Seq(Issued \cup {NoLabel})
<1>2. lists \in Seq(S) /\ i \in 1 .. Len(lists) /\ lists[i] \in S
  BY LenProperties DEF HeapOK
<1>3. Append(lists[i], l) \in S
  BY <1>2
<1>4. lists' \in Seq(S) /\ DOMAIN lists' = DOMAIN lists
  <2> HIDE DEF S
  <2> QED
    BY <1>1, <1>2, <1>3, ExceptSeq
<1>5. /\ Issued' = Issued /\ Entry' = Entry /\ Instr' = Instr
      /\ ResultsOK' /\ UNCHANGED <<born, next>>
  BY <1>1, <1>4, EditKeeps
<1>6. HeapOK'
  BY <1>1, <1>4, <1>5 DEF HeapOK
<1>7. ObjectsOK'
  BY <1>1, <1>4, <1>5 DEF ObjectsOK
<1> QED
  BY <1>5, <1>6, <1>7

LEMMA TypeSetLabels ==
    ASSUME TypeOK, NEW o \in DOMAIN instr, NEW i \in DOMAIN lists, SetLabels(o, i)
    PROVE  TypeOK'
<1> DEFINE x == [instr[o] EXCEPT !.labels = i]
<1>1. instr[o] \in Instr
  BY LenProperties, ElementOfSeq DEF TypeOK, HeapOK
<1>2. x \in Instr
  BY <1>1 DEF Instr
<1>3. /\ instr' = [instr EXCEPT ![o] = x]
      /\ Edit /\ UNCHANGED <<lists, body, entry, table, held>>
  BY DEF SetLabels
<1> HIDE DEF x
<1> QED
  BY <1>2, <1>3, TypeSetInstr

LEMMA TypeSetLists ==
    ASSUME TypeOK, NEW b \in born,
           \/ \E i \in DOMAIN lists : SetEndLabels(b, i)
           \/ \E c \in born : SetInstrs(b, c) \/ SetExcEntries(b, c)
    PROVE  TypeOK'
<1> USE DEF TypeOK
<1>1. Edit /\ UNCHANGED <<instr, lists, body, entry, table>>
  BY DEF SetEndLabels, SetInstrs, SetExcEntries, heap
<1>2. /\ Issued' = Issued /\ Entry' = Entry /\ Instr' = Instr
      /\ ResultsOK' /\ UNCHANGED <<born, next>>
  BY <1>1, EditKeeps
<1>3. HeapOK'
  BY <1>1, <1>2 DEF HeapOK
<1>4. ASSUME NEW i \in DOMAIN lists, SetEndLabels(b, i) PROVE ObjectsOK'
  <2>1. i \in Nat
    BY LenProperties DEF HeapOK
  <2> QED
    BY <1>1, <1>2, <1>4, <2>1 DEF ObjectsOK, SetEndLabels
<1>5. ASSUME NEW c \in born, NEW f, NEW g, f \in [Bytecode -> Bytecode],
             \A x \in born : f[x] \in born, \A x \in Bytecode \ born : f[x] = x,
             g = [f EXCEPT ![b] = f[c]]
      PROVE  /\ g \in [Bytecode -> Bytecode]
             /\ \A x \in born : g[x] \in born
             /\ \A x \in Bytecode \ born : g[x] = x
  <2>1. f[c] \in born /\ f[c] \in Bytecode /\ b \in Bytecode
    BY <1>5 DEF ObjectsOK
  <2>2. /\ g \in [Bytecode -> Bytecode]
        /\ \A x \in Bytecode : g[x] = IF x = b THEN f[c] ELSE f[x]
    BY <1>5, <2>1
  <2> QED
    BY <1>5, <2>1, <2>2 DEF ObjectsOK
<1>6. ASSUME NEW c \in born, SetInstrs(b, c) PROVE ObjectsOK'
  <2>1. instrs' = [instrs EXCEPT ![b] = instrs[c]] /\ UNCHANGED <<end_labels, exc_entries>>
    BY <1>6 DEF SetInstrs
  <2>2. /\ instrs' \in [Bytecode -> Bytecode]
        /\ \A x \in born : instrs'[x] \in born
        /\ \A x \in Bytecode \ born : instrs'[x] = x
    BY <1>5, <2>1 DEF ObjectsOK
  <2> QED
    BY <1>1, <1>2, <2>1, <2>2 DEF ObjectsOK
<1>7. ASSUME NEW c \in born, SetExcEntries(b, c) PROVE ObjectsOK'
  <2>1. exc_entries' = [exc_entries EXCEPT ![b] = exc_entries[c]] /\ UNCHANGED <<instrs, end_labels>>
    BY <1>7 DEF SetExcEntries
  <2>2. /\ exc_entries' \in [Bytecode -> Bytecode]
        /\ \A x \in born : exc_entries'[x] \in born
        /\ \A x \in Bytecode \ born : exc_entries'[x] = x
    BY <1>5, <2>1 DEF ObjectsOK
  <2> QED
    BY <1>1, <1>2, <2>1, <2>2 DEF ObjectsOK
<1> QED
  BY <1>2, <1>3, <1>4, <1>6, <1>7

LEMMA TypeAppendEntry ==
    ASSUME TypeOK, NEW b \in Bytecode, NEW l \in Issued, AppendEntry(b, l)
    PROVE  TypeOK'
<1> USE DEF TypeOK
<1> DEFINE e == ExcEntry(l, l, l, EXC_DEPTH_AUTO, FALSE)
           T == DOMAIN entry' \cup {Junk}
<1>1. /\ entry' = Append(entry, e)
      /\ table' = [table EXCEPT ![exc_entries[b]] = Append(@, Len(entry) + 1)]
      /\ UNCHANGED <<instr, lists, body, instrs, end_labels, exc_entries>> /\ Edit
  BY DEF AppendEntry, held
<1>2. /\ Issued' = Issued /\ Entry' = Entry /\ Instr' = Instr
      /\ ResultsOK' /\ UNCHANGED <<born, next>>
  BY <1>1, EditKeeps
<1>3. e \in Entry
  BY DEF Entry, ExcEntry, EXC_DEPTH_AUTO
<1> HIDE DEF e
<1>4. /\ entry' \in Seq(Entry) /\ DOMAIN entry' = 1 .. Len(entry) + 1
      /\ DOMAIN entry = 1 .. Len(entry) /\ Len(entry) \in Nat
  BY <1>1, <1>3, AppendProperties, LenProperties DEF HeapOK
<1>5. table' \in [Bytecode -> Seq(T)]
  <2> DEFINE S == DOMAIN entry \cup {Junk}
  <2>1. S \subseteq T /\ Len(entry) + 1 \in T
    BY <1>4
  <2>2. table \in [Bytecode -> Seq(S)] /\ exc_entries[b] \in Bytecode
    BY DEF HeapOK, ObjectsOK
  <2> HIDE DEF S, T
  <2>3. \A c \in Bytecode : table[c] \in Seq(T)
    BY <2>1, <2>2, SeqMonotonic
  <2>4. Append(table[exc_entries[b]], Len(entry) + 1) \in Seq(T)
    BY <2>1, <2>2, <2>3, AppendProperties
  <2> QED
    BY <1>1, <2>2, <2>3, <2>4
<1>6. HeapOK'
  BY <1>1, <1>2, <1>4, <1>5 DEF HeapOK
<1>7. ObjectsOK'
  BY <1>1, <1>2 DEF ObjectsOK
<1> QED
  BY <1>2, <1>6, <1>7

LEMMA TypeTable ==
    ASSUME TypeOK, NEW b \in Bytecode, NEW s \in Seq(DOMAIN entry \cup {Junk}),
           table' = [table EXCEPT ![exc_entries[b]] = s],
           Edit, UNCHANGED <<instr, lists, body, entry, held>>
    PROVE  TypeOK'
<1> USE DEF TypeOK
<1>1. /\ Issued' = Issued /\ Entry' = Entry /\ Instr' = Instr
      /\ ResultsOK' /\ UNCHANGED <<born, next>>
  BY EditKeeps
<1>2. HeapOK'
  BY <1>1, ItemsType DEF HeapOK
<1>3. ObjectsOK'
  BY <1>1 DEF ObjectsOK, held
<1> QED
  BY <1>1, <1>2, <1>3

LEMMA TypeAppendEntryAgain ==
    ASSUME TypeOK, NEW b \in Bytecode, NEW x \in DOMAIN entry \cup {Junk},
           AppendEntryAgain(b, x)
    PROVE  TypeOK'
<1> DEFINE S == DOMAIN entry \cup {Junk}
           s == Append(Entries(b), x)
<1>1. Entries(b) \in Seq(S) /\ exc_entries[b] \in Bytecode /\ x \in S
  BY ItemsType
<1> HIDE DEF S
<1>2. s \in Seq(S)
  BY <1>1, AppendProperties
<1>3. /\ table' = [table EXCEPT ![exc_entries[b]] = s]
      /\ Edit /\ UNCHANGED <<instr, lists, body, entry, held>>
  BY <1>1 DEF AppendEntryAgain, Entries
<1> HIDE DEF s
<1> QED
  BY <1>2, <1>3, TypeTable DEF S

LEMMA TypeDeleteEntry ==
    ASSUME TypeOK, NEW b \in Bytecode, NEW k \in DOMAIN Entries(b), DeleteEntry(b, k)
    PROVE  TypeOK'
<1> DEFINE S == DOMAIN entry \cup {Junk}
           s == RemoveAt(Entries(b), k)
<1>1. Entries(b) \in Seq(S) /\ exc_entries[b] \in Bytecode
  BY ItemsType
<1> HIDE DEF S
<1>2. k \in 1 .. Len(Entries(b))
  BY <1>1, LenProperties
<1>3. s \in Seq(S)
  BY <1>1, <1>2, RemoveAtType
<1>4. /\ table' = [table EXCEPT ![exc_entries[b]] = s]
      /\ Edit /\ UNCHANGED <<instr, lists, body, entry, held>>
  BY <1>1 DEF DeleteEntry, Entries
<1> HIDE DEF s
<1> QED
  BY <1>3, <1>4, TypeTable DEF S

LEMMA TypeSetEntry ==
    ASSUME TypeOK, NEW x \in DOMAIN entry, NEW e \in Entry, SetEntry(x, e)
    PROVE  TypeOK'
<1> USE DEF TypeOK
<1>1. /\ entry' = [entry EXCEPT ![x] = e]
      /\ Edit /\ UNCHANGED <<instr, lists, body, table, held>>
  BY DEF SetEntry
<1>2. /\ Issued' = Issued /\ Entry' = Entry /\ Instr' = Instr
      /\ ResultsOK' /\ UNCHANGED <<born, next>>
  BY <1>1, EditKeeps
<1>3. entry \in Seq(Entry) /\ DOMAIN entry = 1 .. Len(entry) /\ x \in 1 .. Len(entry)
  BY LenProperties DEF HeapOK
<1>4. entry' \in Seq(Entry) /\ DOMAIN entry' = DOMAIN entry
  BY <1>1, <1>3, ExceptSeq
<1>5. HeapOK'
  BY <1>1, <1>2, <1>4 DEF HeapOK
<1>6. ObjectsOK'
  BY <1>1, <1>2 DEF ObjectsOK, held
<1> QED
  BY <1>2, <1>5, <1>6

LEMMA TypeSetField ==
    ASSUME TypeOK, NEW x \in DOMAIN entry,
           \/ \E f \in {"start", "stop", "handler"}, l \in Issued : SetLabel(x, f, l)
           \/ \E d \in Depth : SetDepth(x, d)
           \/ \E v \in BOOLEAN : SetLasti(x, v)
    PROVE  TypeOK' /\ Edit
<1>1. entry[x] \in Entry
  BY LenProperties, ElementOfSeq DEF TypeOK, HeapOK
<1>2. \A f \in {"start", "stop", "handler"}, l \in Issued : [entry[x] EXCEPT ![f] = l] \in Entry
  BY <1>1 DEF Entry
<1>3. \A d \in Int : [entry[x] EXCEPT !.depth = d] \in Entry
  BY <1>1 DEF Entry
<1>4. \A v \in BOOLEAN : [entry[x] EXCEPT !.lasti = v] \in Entry
  BY <1>1 DEF Entry
<1>5. \A d \in Depth : ToInt(d) \in Int
  BY ToIntType, BindingsAssumption
<1>6. \E e \in Entry : SetEntry(x, e)
  BY <1>2, <1>3, <1>4, <1>5 DEF SetLabel, SetDepth, SetLasti
<1> QED
  BY <1>6, TypeSetEntry DEF SetEntry

-----------------------------------------------------------------------------
(***************************************************************************)
(* What to_code() returns is what is shown.                                *)
(***************************************************************************)
\* What a born Bytecode refers to is there.
LEMMA BornType ==
    ASSUME TypeOK, NEW b \in born
    PROVE  /\ b \in Bytecode
           /\ Items(b) \in Seq(DOMAIN instr \cup {Junk})
           /\ EndLabels(b) \in Seq(Issued \cup {NoLabel})
           /\ Entries(b) \in Seq(DOMAIN entry \cup {Junk})
           /\ DOMAIN Items(b) = 1 .. Len(Items(b)) /\ Len(Items(b)) \in Nat
           /\ DOMAIN EndLabels(b) = 1 .. Len(EndLabels(b)) /\ Len(EndLabels(b)) \in Nat
           /\ DOMAIN Entries(b) = 1 .. Len(Entries(b)) /\ Len(Entries(b)) \in Nat
<1>1. b \in Bytecode /\ Items(b) \in Seq(DOMAIN instr \cup {Junk})
      /\ Entries(b) \in Seq(DOMAIN entry \cup {Junk})
  BY ItemsType DEF TypeOK, ObjectsOK
<1>2. EndLabels(b) \in Seq(Issued \cup {NoLabel})
  <2> DEFINE S == Seq(Issued \cup {NoLabel})
  <2>1. lists \in Seq(S) /\ end_labels[b] \in 1 .. Len(lists)
    BY LenProperties DEF TypeOK, HeapOK, ObjectsOK
  <2> HIDE DEF S
  <2>2. lists[end_labels[b]] \in S
    BY <2>1, ElementOfSeq
  <2> QED
    BY <2>2 DEF S, EndLabels
<1> QED
  BY <1>1, <1>2, LenProperties

LEMMA InstrType ==
    ASSUME TypeOK, NEW o \in DOMAIN instr
    PROVE  /\ instr[o] \in Instr
           /\ instr[o].labels \in DOMAIN lists
           /\ lists[instr[o].labels] \in Seq(Issued \cup {NoLabel})
<1>1. instr[o] \in Instr
  BY LenProperties, ElementOfSeq DEF TypeOK, HeapOK
<1>2. instr[o].labels \in DOMAIN lists
  BY <1>1 DEF Instr
<1> DEFINE S == Seq(Issued \cup {NoLabel})
<1>3. lists \in Seq(S)
  BY DEF TypeOK, HeapOK
<1> HIDE DEF S
<1>4. lists[instr[o].labels] \in S
  BY <1>2, <1>3, LenProperties, ElementOfSeq
<1> QED
  BY <1>1, <1>2, <1>4 DEF S

LEMMA EntryType ==
    ASSUME TypeOK, NEW x \in DOMAIN entry
    PROVE  entry[x] \in Entry
BY LenProperties, ElementOfSeq DEF TypeOK, HeapOK

LEMMA IssuedType ==
    ASSUME TypeOK, NEW l \in Issued
    PROVE  l.id \in Nat /\ l.by \in born /\ l.id < next[l.by] /\ l.by \in Bytecode
<1>1. Issued = IssuedOf(born, next)
  BY DEF Issued, IssuedOf
<1>2. PICK b \in born : \E id \in 0 .. next[b] - 1 : l = Label(b, id)
  BY <1>1, IssuedIs
<1>3. PICK id \in 0 .. next[b] - 1 : l = Label(b, id)
  BY <1>2
<1>4. l.id = id /\ l.by = b
  BY <1>3 DEF Label
<1>5. b \in Bytecode /\ next[b] \in Nat
  BY DEF TypeOK, ObjectsOK
<1> QED
  BY <1>3, <1>4, <1>5

\* Where instructions have a label, by Python's count.
LabelledBy(b, l) ==
    {k \in DOMAIN Items(b) : Items(b)[k] # Junk /\ l \in Ids(lists[instr[Items(b)[k]].labels])}
LEMMA PositionType ==
    ASSUME TypeOK, NEW b \in born, NEW l
    PROVE  /\ LabelPosition(b, l) \in Int
           /\ LabelPosition(b, l) =
                IF l \in Ids(EndLabels(b)) THEN Len(Items(b)) ELSE Max({0} \cup LabelledBy(b, l)) - 1
           /\ LET m == Max({0} \cup LabelledBy(b, l))
              IN  /\ m \in {0} \cup LabelledBy(b, l)
                  /\ \A k \in {0} \cup LabelledBy(b, l) : k <= m
<1> DEFINE S == {0} \cup LabelledBy(b, l)
<1>1. Len(Items(b)) \in Nat /\ S \subseteq 0 .. Len(Items(b))
  BY BornType DEF LabelledBy
<1>2. S # {}
  OBVIOUS
<1>3. Max(S) \in S /\ \A k \in S : k <= Max(S)
  <2> HIDE DEF S
  <2> QED
    BY <1>1, <1>2, MaxOf
<1>4. LabelPosition(b, l) = IF l \in Ids(EndLabels(b)) THEN Len(Items(b)) ELSE Max(S) - 1
  BY DEF LabelPosition, LabelledBy
<1>5. Max(S) \in Int
  <2> HIDE DEF S
  <2>1. \A x \in S : x \in Int
    BY <1>1
  <2> QED
    BY <1>3, <2>1
<1> HIDE DEF S
<1>6. LabelPosition(b, l) \in Int
  BY <1>1, <1>4, <1>5
<1> QED
  BY <1>3, <1>4, <1>6 DEF S

\* The labels that point past the end, on either side.
LEMMA EndLabelIs ==
    ASSUME TypeOK, NEW b \in born, ~ Contains(EndLabels(b), NoLabel), NEW l
    PROVE  Contains(SyncLabels(b), l) <=> l \in Ids(EndLabels(b))
<1> DEFINE s == SyncLabels(b)
           n == Len(EndLabels(b))
<1>1. DOMAIN EndLabels(b) = 1 .. n /\ n \in Nat
  BY BornType
<1>2. s = [k \in 1 .. n |-> EndLabels(b)[k].id]
  BY <1>1 DEF SyncLabels
<1>3. Len(s) = n
  BY <1>1, <1>2, LenOfMap
<1>4. \A k \in 1 .. n : EndLabels(b)[k] # NoLabel
  BY DEF Contains
<1>5. Ids(EndLabels(b)) = {EndLabels(b)[k].id : k \in 1 .. n}
  BY <1>1, <1>4 DEF Ids
<1>6. \A k \in 1 .. n : s[k] = EndLabels(b)[k].id
  BY <1>2
<1> HIDE DEF s
<1> QED
  BY <1>3, <1>5, <1>6 DEF Contains, s

\* The C++ side puts a label where Python says it is.
LEMMA PlaceIs ==
    ASSUME TypeOK, NEW b \in born, AllConvertible(b), ~ Contains(EndLabels(b), NoLabel),
           NEW l, l \in Placed(Synced(b))
    PROVE  LabelIndexMap(Synced(b))[l] = LabelPosition(b, l)
<1> DEFINE c == Synced(b)
           n == Len(Items(b))
           P == PlacesOf(c, l)
<1>0. l \in Placed(c)
  OBVIOUS
<1>1. /\ DOMAIN Items(b) = 1 .. n /\ n \in Nat
      /\ DOMAIN EndLabels(b) = 1 .. Len(EndLabels(b)) /\ Len(EndLabels(b)) \in Nat
  BY BornType
<1>2. /\ c.instrs = [k \in 1 .. n |-> CppInstr(Items(b)[k])]
      /\ c.end_labels = [k \in 1 .. Len(EndLabels(b)) |-> EndLabels(b)[k].id]
  BY <1>1 DEF Synced, SyncLabels
<1>3. Len(c.instrs) = n /\ Len(c.end_labels) = Len(EndLabels(b))
  BY <1>1, <1>2, LenOfMap
<1>4. \A k \in 1 .. n : /\ Items(b)[k] # Junk
                        /\ c.instrs[k].labels = Ids(lists[instr[Items(b)[k]].labels])
  BY <1>1, <1>2 DEF AllConvertible, Convertible, CppInstr
<1>5. Contains(c.end_labels, l) <=> l \in Ids(EndLabels(b))
  <2>1. c.end_labels = SyncLabels(b)
    BY DEF Synced
  <2> QED
    BY <2>1, EndLabelIs
<1> HIDE DEF c
<1>6. P = {k \in 0 .. n - 1 : k + 1 \in LabelledBy(b, l)}
            \cup {k \in {n} : l \in Ids(EndLabels(b))}
  <2>1. \A k \in 0 .. n - 1 : k + 1 \in 1 .. n
    BY <1>1
  <2>2. \A k \in 0 .. n - 1 : l \in c.instrs[k + 1].labels <=> k + 1 \in LabelledBy(b, l)
    BY <1>1, <1>4, <2>1 DEF LabelledBy
  <2> QED
    BY <1>3, <1>5, <2>2 DEF PlacesOf
<1>7. LabelIndexMap(c)[l] = Max(P)
  BY DEF LabelIndexMap, c
<1>8. P \subseteq Int /\ \A k \in P : k <= n
  BY <1>1, <1>6
<1>9. CASE l \in Ids(EndLabels(b))
  <2>1. n \in P
    BY <1>6, <1>9
  <2>2. Max(P) = n
    <3> HIDE DEF P
    <3> QED
      BY <1>8, <2>1, MaxIs
  <2> QED
    BY <1>7, <1>9, <2>2, PositionType DEF c
<1>10. CASE l \notin Ids(EndLabels(b))
  <2>1. \E k \in 1 .. n : k \in LabelledBy(b, l)
    <3>1. PICK k \in DOMAIN c.instrs : l \in c.instrs[k].labels
      <4>1. ~ (l \in ToSet(c.end_labels))
        <5>1. DOMAIN c.end_labels = 1 .. Len(c.end_labels)
          BY <1>2, <1>3 DEF c
        <5> QED
          BY <1>5, <1>10, <5>1 DEF ToSet, Contains
      <4> QED
        BY <1>0, <4>1 DEF Placed
    <3>2. k \in 1 .. n
      BY <1>2, <3>1 DEF c
    <3> QED
      BY <1>1, <1>4, <3>1, <3>2 DEF LabelledBy
  <2> DEFINE m == Max({0} \cup LabelledBy(b, l))
  <2>2. m \in LabelledBy(b, l) /\ m \in 1 .. n /\ \A k \in LabelledBy(b, l) : k <= m
    <3>1. m \in {0} \cup LabelledBy(b, l) /\ \A k \in {0} \cup LabelledBy(b, l) : k <= m
      BY PositionType
    <3> HIDE DEF m
    <3>2. LabelledBy(b, l) \subseteq 1 .. n
      BY <1>1 DEF LabelledBy
    <3> QED
      BY <2>1, <3>1, <3>2
  <2> HIDE DEF m
  <2>3. m - 1 \in P /\ \A k \in P : k <= m - 1
    BY <1>1, <1>6, <1>10, <2>2
  <2>4. Max(P) = m - 1
    <3> HIDE DEF P
    <3> QED
      BY <1>8, <2>3, MaxIs
  <2> QED
    BY <1>7, <1>10, <2>4, PositionType DEF c, m
<1> QED
  BY <1>9, <1>10

ShownInstr(b, k) ==
    LET i == instr[Items(b)[k]]
    IN  IF Items(b)[k] = Junk THEN InstrItem("junk", "", 0)
        ELSE IF i.arg.form = "label" THEN InstrItem(i.op, "to", LabelPosition(b, i.arg.is.id))
        ELSE IF ArgKind[i.op] = "CONST" THEN InstrItem(i.op, "PyObject", i.arg.is)
        ELSE InstrItem(i.op, "int", ToInt(i.arg.is))
ShownEntry(b, k) ==
    LET e == entry[Entries(b)[k]]
    IN  IF Entries(b)[k] = Junk THEN InstrItem("junk", "", 1)
        ELSE EntryItem(LabelPosition(b, e.start.id), LabelPosition(b, e.stop.id),
                       LabelPosition(b, e.handler.id), e.depth, e.lasti)
LEMMA ShownIs ==
    ASSUME NEW b \in born
    PROVE  Shown(b) = [k \in DOMAIN Items(b) |-> ShownInstr(b, k)]
                        \o [k \in DOMAIN Entries(b) |-> ShownEntry(b, k)]
BY DEF Shown, ShownInstr, ShownEntry

AssembledInstr(c, k) ==
    LET i == c.instrs[k]
    IN  IF i.arg[1] = "Label" THEN InstrItem(i.op, "to", LabelIndexMap(c)[i.arg[2]])
        ELSE InstrItem(i.op, i.arg[1], i.arg[2])
AssembledEntry(c, k) ==
    LET e == c.exc_labeled[k]
    IN  EntryItem(LabelIndexMap(c)[e.start], LabelIndexMap(c)[e.stop], LabelIndexMap(c)[e.handler],
                  e.depth, e.lasti)
LEMMA AssembledIs ==
    ASSUME NEW c
    PROVE  Assembled(c) = [k \in DOMAIN c.instrs |-> AssembledInstr(c, k)]
                            \o [k \in DOMAIN c.exc_labeled |-> AssembledEntry(c, k)]
BY DEF Assembled, AssembledInstr, AssembledEntry

Ops == Op \cup {"entry", "junk"}
Forms == {"", "to", "PyObject", "int", "lasti"}
LEMMA ItemType ==
    /\ \A op \in Ops, what \in Forms, n \in Int : InstrItem(op, what, n) \in Item
    /\ \A x, y, z, d \in Int, v \in BOOLEAN : EntryItem(x, y, z, d, v) \in Item
<1> DEFINE row == "entry"
           none == ""
           lasti == "lasti"
<1>1. row \in Ops /\ none \in Forms /\ lasti \in Forms
  BY DEF Ops, Forms
<1>2. \A op \in Ops, what \in Forms, x, y, z, d \in Int : <<op, what, x, y, z, d>> \in Item
  BY DEF Item, Ops, Forms
<1> HIDE DEF row, none, lasti
<1>3. \A op \in Ops, what \in Forms, n \in Int : InstrItem(op, what, n) \in Item
  BY <1>2 DEF InstrItem
<1>4. \A x, y, z, d \in Int : <<row, none, x, y, z, d>> \in Item /\ <<row, lasti, x, y, z, d>> \in Item
  BY <1>1, <1>2
<1>6. ASSUME NEW x \in Int, NEW y \in Int, NEW z \in Int, NEW d \in Int, NEW v \in BOOLEAN
      PROVE  EntryItem(x, y, z, d, v) \in Item
  <2> DEFINE p == <<row, none, x, y, z, d>>
             q == <<row, lasti, x, y, z, d>>
             i == EntryItem(x, y, z, d, v)
  <2>1. p \in Item /\ q \in Item
    BY <1>4
  <2>2. i = p \/ i = q
    BY DEF EntryItem, row, none, lasti
  <2> HIDE DEF p, q, i
  <2>3. i \in Item
    BY <2>1, <2>2
  <2> QED
    BY <2>3 DEF i
<1> QED
  BY <1>3, <1>6

LEMMA ShownType ==
    ASSUME TypeOK, NEW b \in born
    PROVE  Shown(b) \in Seq(Item)
<1>1. ASSUME NEW k \in DOMAIN Items(b) PROVE ShownInstr(b, k) \in Item
  <2> DEFINE o == Items(b)[k]
             i == instr[o]
  <2>1. CASE o = Junk
    <3> DEFINE junk == "junk"
               none == ""
    <3>1. ShownInstr(b, k) = InstrItem(junk, none, 0)
      BY <2>1 DEF ShownInstr
    <3>2. junk \in Ops /\ none \in Forms
      BY DEF Ops, Forms
    <3> HIDE DEF junk, none
    <3> QED
      BY <3>1, <3>2, ItemType
  <2>2. CASE o # Junk
    <3>1. o \in DOMAIN instr
      BY <2>2, BornType, ElementOfSeq
    <3>2. i \in Instr /\ i.op \in Op
      BY <3>1, InstrType DEF Instr
    <3> DEFINE to == "to"
               object_ == "PyObject"
               int == "int"
    <3>3. i.op \in Ops /\ to \in Forms /\ object_ \in Forms /\ int \in Forms
      BY <3>2 DEF Ops, Forms
    <3>4. CASE i.arg.form = "label"
      <4>1. ShownInstr(b, k) = InstrItem(i.op, to, LabelPosition(b, i.arg.is.id))
        BY <2>2, <3>4 DEF ShownInstr
      <4>2. LabelPosition(b, i.arg.is.id) \in Int
        BY PositionType
      <4> HIDE DEF to, object_, int
      <4> QED
        BY <3>3, <4>1, <4>2, ItemType
    <3>5. CASE i.arg.form # "label"
      <4>1. i.arg.is \in Nat
        BY <3>2, <3>5 DEF Instr, Argument
      <4>2. \/ ShownInstr(b, k) = InstrItem(i.op, object_, i.arg.is)
            \/ ShownInstr(b, k) = InstrItem(i.op, int, ToInt(i.arg.is))
        BY <2>2, <3>5 DEF ShownInstr
      <4>3. i.arg.is \in Int /\ ToInt(i.arg.is) \in Int
        BY <4>1, ToIntType
      <4> HIDE DEF to, object_, int
      <4> QED
        BY <3>3, <4>2, <4>3, ItemType
    <3> QED
      BY <3>4, <3>5
  <2> QED
    BY <2>1, <2>2
<1>2. ASSUME NEW k \in DOMAIN Entries(b) PROVE ShownEntry(b, k) \in Item
  <2> DEFINE x == Entries(b)[k]
             e == entry[x]
  <2>1. CASE x = Junk
    <3> DEFINE junk == "junk"
               none == ""
    <3>1. ShownEntry(b, k) = InstrItem(junk, none, 1)
      BY <2>1 DEF ShownEntry
    <3>2. junk \in Ops /\ none \in Forms
      BY DEF Ops, Forms
    <3> HIDE DEF junk, none
    <3> QED
      BY <3>1, <3>2, ItemType
  <2>2. CASE x # Junk
    <3>1. /\ LabelPosition(b, e.start.id) \in Int
          /\ LabelPosition(b, e.stop.id) \in Int
          /\ LabelPosition(b, e.handler.id) \in Int
      BY PositionType
    <3>4. e.depth \in Int /\ e.lasti \in BOOLEAN
      <4>1. x \in DOMAIN entry
        BY <2>2, BornType, ElementOfSeq
      <4> QED
        BY <4>1, EntryType DEF Entry
    <3>2. ShownEntry(b, k) = EntryItem(LabelPosition(b, e.start.id), LabelPosition(b, e.stop.id),
                                       LabelPosition(b, e.handler.id), e.depth, e.lasti)
      BY <2>2 DEF ShownEntry
    <3> QED
      BY <3>1, <3>2, <3>4, ItemType
  <2> QED
    BY <2>1, <2>2
<1> DEFINE x == [k \in DOMAIN Items(b) |-> ShownInstr(b, k)]
           y == [k \in DOMAIN Entries(b) |-> ShownEntry(b, k)]
<1>3. x \in Seq(Item)
  <2>1. x = [k \in 1 .. Len(Items(b)) |-> x[k]] /\ \A k \in 1 .. Len(Items(b)) : x[k] \in Item
    BY <1>1, BornType
  <2> HIDE DEF x
  <2> QED
    BY <2>1, BornType, MapType
<1>4. y \in Seq(Item)
  <2>1. /\ y = [k \in 1 .. Len(Entries(b)) |-> y[k]]
        /\ \A k \in 1 .. Len(Entries(b)) : y[k] \in Item
    BY <1>2, BornType
  <2> HIDE DEF y
  <2> QED
    BY <2>1, BornType, MapType
<1> HIDE DEF x, y
<1>5. x \o y \in Seq(Item)
  BY <1>3, <1>4, ConcatProperties
<1> QED
  BY <1>5, ShownIs DEF x, y

LEMMA BuiltIsShown ==
    ASSUME TypeOK, NEW b \in born, NEW lucky, Fine(b, lucky)
    PROVE  Assembled(Synced(b)) = Shown(b)
<1> DEFINE c == Synced(b)
<1>1. /\ DOMAIN c.instrs = DOMAIN Items(b)
      /\ \A k \in DOMAIN Items(b) : c.instrs[k] = CppInstr(Items(b)[k])
      /\ DOMAIN c.exc_labeled = DOMAIN Entries(b)
      /\ \A k \in DOMAIN Entries(b) : c.exc_labeled[k] = CppEntry(Entries(b)[k])
  BY DEF Synced, SyncEntries
<1>2. AllConvertible(b) /\ ~ Contains(EndLabels(b), NoLabel) /\ ~ Contains(Entries(b), Junk)
  BY DEF Fine
<1>3. /\ \A k \in DOMAIN c.instrs : c.instrs[k].arg[1] = "Label" => c.instrs[k].arg[2] \in Placed(c)
      /\ \A k \in DOMAIN c.exc_labeled :
            /\ c.exc_labeled[k].start \in Placed(c)
            /\ c.exc_labeled[k].stop \in Placed(c)
            /\ c.exc_labeled[k].handler \in Placed(c)
  <2>1. DOMAIN LabelIndexMap(c) = Placed(c)
    BY DEF LabelIndexMap
  <2> HIDE DEF c
  <2> QED
    BY <2>1 DEF Fine, Assembles, c
<1>4. \A l \in Placed(c) : LabelIndexMap(c)[l] = LabelPosition(b, l)
  BY <1>2, PlaceIs
<1> HIDE DEF c
<1>5. ASSUME NEW k \in DOMAIN Items(b) PROVE AssembledInstr(c, k) = ShownInstr(b, k)
  <2> DEFINE o == Items(b)[k]
             i == instr[o]
  <2>1. o # Junk /\ o \in DOMAIN instr
    BY <1>2, BornType, ElementOfSeq DEF AllConvertible, Convertible
  <2>3. c.instrs[k].op = i.op /\ c.instrs[k].arg = CppArg(i)
    <3>1. c.instrs[k] = CppInstr(o)
      BY <1>1
    <3>2. CppInstr(o) = [op |-> i.op, arg |-> CppArg(i), labels |-> Ids(lists[i.labels])]
      BY DEF CppInstr
    <3> QED
      BY <3>1, <3>2
  <2>4. CASE i.arg.form = "label"
    <3>1. c.instrs[k].arg = <<"Label", i.arg.is.id>>
      BY <2>3, <2>4 DEF CppArg
    <3>2. i.arg.is.id \in Placed(c)
      BY <1>1, <1>3, <3>1
    <3>3. AssembledInstr(c, k) = InstrItem(i.op, "to", LabelIndexMap(c)[i.arg.is.id])
      BY <2>3, <3>1 DEF AssembledInstr
    <3>4. ShownInstr(b, k) = InstrItem(i.op, "to", LabelPosition(b, i.arg.is.id))
      BY <2>1, <2>4 DEF ShownInstr
    <3> QED
      BY <1>4, <3>2, <3>3, <3>4
  <2>5. CASE i.arg.form # "label" /\ ArgKind[i.op] = "CONST"
    <3>1. c.instrs[k].arg = <<"PyObject", i.arg.is>>
      BY <2>3, <2>5 DEF CppArg
    <3>2. AssembledInstr(c, k) = InstrItem(i.op, "PyObject", i.arg.is)
      BY <2>3, <3>1 DEF AssembledInstr
    <3>3. ShownInstr(b, k) = InstrItem(i.op, "PyObject", i.arg.is)
      BY <2>1, <2>5 DEF ShownInstr
    <3> QED
      BY <3>2, <3>3
  <2>6. CASE i.arg.form # "label" /\ ArgKind[i.op] # "CONST"
    <3>1. c.instrs[k].arg = <<"int", ToInt(i.arg.is)>>
      BY <2>3, <2>6 DEF CppArg
    <3>2. AssembledInstr(c, k) = InstrItem(i.op, "int", ToInt(i.arg.is))
      BY <2>3, <3>1 DEF AssembledInstr
    <3>3. ShownInstr(b, k) = InstrItem(i.op, "int", ToInt(i.arg.is))
      BY <2>1, <2>6 DEF ShownInstr
    <3> QED
      BY <3>2, <3>3
  <2> QED
    BY <2>4, <2>5, <2>6
<1>6. ASSUME NEW k \in DOMAIN Entries(b) PROVE AssembledEntry(c, k) = ShownEntry(b, k)
  <2> DEFINE x == Entries(b)[k]
             e == entry[x]
  <2>1. x # Junk
    BY <1>2, BornType DEF Contains
  <2>2. c.exc_labeled[k] = ExcEntry(e.start.id, e.stop.id, e.handler.id, e.depth, e.lasti)
    BY <1>1 DEF CppEntry
  <2>3. /\ c.exc_labeled[k].start = e.start.id
        /\ c.exc_labeled[k].stop = e.stop.id
        /\ c.exc_labeled[k].handler = e.handler.id
        /\ c.exc_labeled[k].depth = e.depth
        /\ c.exc_labeled[k].lasti = e.lasti
    BY <2>2 DEF ExcEntry
  <2>4. /\ LabelIndexMap(c)[e.start.id] = LabelPosition(b, e.start.id)
        /\ LabelIndexMap(c)[e.stop.id] = LabelPosition(b, e.stop.id)
        /\ LabelIndexMap(c)[e.handler.id] = LabelPosition(b, e.handler.id)
    BY <1>1, <1>3, <1>4, <2>3
  <2> QED
    BY <2>1, <2>3, <2>4 DEF AssembledEntry, ShownEntry
<1>7. Assembled(c) = [k \in DOMAIN c.instrs |-> AssembledInstr(c, k)]
                        \o [k \in DOMAIN c.exc_labeled |-> AssembledEntry(c, k)]
  BY AssembledIs
<1>8. /\ [k \in DOMAIN c.instrs |-> AssembledInstr(c, k)]
           = [k \in DOMAIN Items(b) |-> ShownInstr(b, k)]
      /\ [k \in DOMAIN c.exc_labeled |-> AssembledEntry(c, k)]
           = [k \in DOMAIN Entries(b) |-> ShownEntry(b, k)]
  BY <1>1, <1>5, <1>6
<1> QED
  BY <1>7, <1>8, ShownIs DEF c

-----------------------------------------------------------------------------
(***************************************************************************)
(* New objects, and calls.                                                 *)
(***************************************************************************)
LEMMA TypeNewLabel ==
    ASSUME TypeOK, NEW b \in Bytecode, NewLabel(b)
    PROVE  TypeOK'
<1> USE DEF TypeOK
<1>1. /\ b \in born /\ next' = [next EXCEPT ![b] = next[b] + 1]
      /\ UNCHANGED <<instr, lists, body, entry, table, born, instrs, end_labels, exc_entries,
                      built, outcome>>
  BY DEF NewLabel, heap, held, result
<1>2. next' \in [Bytecode -> Nat] /\ \A x \in Bytecode : next'[x] \in Nat /\ next[x] \in Nat /\ next'[x] >= next[x]
  BY <1>1 DEF ObjectsOK
<1>3. Issued \subseteq Issued' /\ Instr \subseteq Instr' /\ Entry \subseteq Entry'
  BY <1>1, <1>2, LabelsStay, TypesGrow DEF ObjectsOK
<1>4. HeapOK'
  <2> DEFINE S == Issued \cup {NoLabel}
             T == Issued' \cup {NoLabel}
  <2>1. S \subseteq T /\ lists \in Seq(Seq(S))
    BY <1>3 DEF HeapOK
  <2> HIDE DEF S, T
  <2>2. Seq(S) \subseteq Seq(T)
    BY <2>1, SeqMonotonic
  <2>3. lists \in Seq(Seq(T))
    BY <2>1, <2>2, SeqMonotonic
  <2>4. instr \in Seq(Instr') /\ entry \in Seq(Entry')
    BY <1>3, SeqMonotonic DEF HeapOK
  <2> QED
    BY <1>1, <2>3, <2>4 DEF HeapOK, T
<1>5. ObjectsOK'
  BY <1>1, <1>2 DEF ObjectsOK
<1>6. ResultsOK'
  BY <1>1 DEF ResultsOK
<1> QED
  BY <1>4, <1>5, <1>6

LEMMA TypeNewBytecode ==
    ASSUME TypeOK, NEW b \in Bytecode, NEW items \in Seq(DOMAIN instr \cup {Junk}),
           NewBytecode(b, items)
    PROVE  TypeOK'
<1> USE DEF TypeOK
<1>1. /\ b \notin born /\ born' = born \cup {b}
      /\ body' = [body EXCEPT ![b] = items]
      /\ lists' = Append(lists, <<>>)
      /\ end_labels' = [end_labels EXCEPT ![b] = Len(lists) + 1]
      /\ UNCHANGED <<instr, entry, table, instrs, exc_entries, next, built, outcome>>
  BY DEF NewBytecode, result
<1>2. lists' \in Seq(Seq(Issued \cup {NoLabel})) /\ DOMAIN lists' = 1 .. Len(lists) + 1
      /\ DOMAIN lists = 1 .. Len(lists) /\ Len(lists) \in Nat
  <2>1. <<>> \in Seq(Issued \cup {NoLabel})
    OBVIOUS
  <2>2. lists \in Seq(Seq(Issued \cup {NoLabel}))
    BY DEF HeapOK
  <2> QED
    BY <1>1, <2>1, <2>2, AppendProperties, LenProperties
<1>3. Issued' = Issued
  <2>1. next[b] = 0 /\ next' = next
    BY <1>1 DEF ObjectsOK
  <2>2. [id : 0 .. next[b] - 1, by : {b}] = {}
    BY <2>1
  <2>3. Issued' = Issued \cup [id : 0 .. next[b] - 1, by : {b}]
    BY <1>1, <2>1 DEF Issued
  <2> QED
    BY <2>2, <2>3
<1>4. Instr \subseteq Instr' /\ Entry' = Entry
  BY <1>2, <1>3, TypesGrow DEF Entry
<1>5. HeapOK'
  <2>1. instr' \in Seq(Instr') /\ entry' \in Seq(Entry')
    BY <1>1, <1>4, SeqMonotonic DEF HeapOK
  <2>2. body' \in [Bytecode -> Seq(DOMAIN instr \cup {Junk})]
    BY <1>1 DEF HeapOK
  <2> QED
    BY <1>1, <1>2, <1>3, <2>1, <2>2 DEF HeapOK
<1>6. ObjectsOK'
  <2>1. born' \subseteq Bytecode /\ end_labels' \in [Bytecode -> Nat]
    BY <1>1, <1>2 DEF ObjectsOK
  <2>2. \A x \in born' : end_labels'[x] \in DOMAIN lists'
    BY <1>1, <1>2 DEF ObjectsOK
  <2>3. /\ \A x \in born' : instrs'[x] \in born' /\ exc_entries'[x] \in born'
        /\ \A x \in Bytecode \ born' : instrs'[x] = x /\ exc_entries'[x] = x
    BY <1>1 DEF ObjectsOK
  <2> QED
    BY <1>1, <1>4, <2>1, <2>2, <2>3 DEF ObjectsOK
<1>7. ResultsOK'
  BY <1>1 DEF ResultsOK
<1> QED
  BY <1>5, <1>6, <1>7

LEMMA LuckHelps ==
    ASSUME NEW b, Fine(b, FALSE)
    PROVE  \A lucky \in BOOLEAN : Fine(b, lucky)
BY DEF Fine, Assembles

\* Luck is about what is read past the end alone.
LEMMA NoLuckNeeded ==
    ASSUME TypeOK, NEW b \in born, Fine(b, TRUE), ~ ReadsPastEnd(b)
    PROVE  Fine(b, FALSE)
<1> DEFINE c == Synced(b)
<1>1. /\ AllConvertible(b) /\ ~ Contains(EndLabels(b), NoLabel) /\ ~ Contains(Entries(b), Junk)
      /\ Assembles(c, TRUE)
  BY DEF Fine
<1>2. /\ DOMAIN c.exc_labeled = DOMAIN Entries(b)
      /\ \A k \in DOMAIN Entries(b) : c.exc_labeled[k] = CppEntry(Entries(b)[k])
      /\ c.end_labels = SyncLabels(b)
  BY DEF Synced, SyncEntries
<1> HIDE DEF c
<1>3. ASSUME NEW k \in DOMAIN c.exc_labeled, c.exc_labeled[k].depth = EXC_DEPTH_AUTO
      PROVE  ~ Contains(c.end_labels, c.exc_labeled[k].start)
  <2> DEFINE x == Entries(b)[k]
  <2>1. x # Junk
    BY <1>1, <1>2, BornType DEF Contains
  <2>2. c.exc_labeled[k].depth = entry[x].depth /\ c.exc_labeled[k].start = entry[x].start.id
    <3>1. c.exc_labeled[k] = CppEntry(x)
      BY <1>2
    <3> HIDE DEF x
    <3> QED
      BY <3>1 DEF CppEntry, ExcEntry
  <2>3. ~ (entry[x].start.id \in Ids(EndLabels(b)))
    BY <1>2, <1>3, <2>1, <2>2 DEF ReadsPastEnd
  <2> QED
    BY <1>1, <1>2, <2>2, <2>3, EndLabelIs
<1>4. Assembles(c, FALSE)
  BY <1>1, <1>3 DEF Assembles
<1> QED
  BY <1>1, <1>4 DEF Fine, c

LEMMA ToCodeResult ==
    ASSUME TypeOK, NEW b \in Bytecode, ToCode(b)
    PROVE  /\ b \in born /\ UNCHANGED <<heap, object>>
           /\ \/ /\ Fine(b, TRUE)
                 /\ built' = [built EXCEPT ![b] = Assembled(Synced(b))]
                 /\ outcome' = [outcome EXCEPT ![b] = "returned"]
              \/ /\ ~ Fine(b, FALSE)
                 /\ built' = built
                 /\ outcome' = [outcome EXCEPT ![b] = "raised"]
<1>1. b \in born /\ UNCHANGED <<heap, object>>
  BY DEF ToCode
<1>2. CASE RefuseInstr(b)
  BY <1>1, <1>2 DEF RefuseInstr, Fine, AllConvertible
<1>3. CASE RefuseEndLabel(b)
  BY <1>1, <1>3 DEF RefuseEndLabel, Fine
<1>4. CASE RefuseEntry(b)
  BY <1>1, <1>4 DEF RefuseEntry, Fine
<1>5. ASSUME NEW lucky \in BOOLEAN, Assemble(b, lucky)
      PROVE  \/ /\ Fine(b, TRUE)
                /\ built' = [built EXCEPT ![b] = Assembled(Synced(b))]
                /\ outcome' = [outcome EXCEPT ![b] = "returned"]
             \/ /\ ~ Fine(b, FALSE)
                /\ built' = built
                /\ outcome' = [outcome EXCEPT ![b] = "raised"]
  <2>1. /\ AllConvertible(b)
        /\ ~ Contains(EndLabels(b), NoLabel) /\ ~ Contains(Entries(b), Junk)
        /\ IF Assembles(Synced(b), lucky)
           THEN /\ built' = [built EXCEPT ![b] = Assembled(Synced(b))]
                /\ outcome' = [outcome EXCEPT ![b] = "returned"]
           ELSE /\ outcome' = [outcome EXCEPT ![b] = "raised"]
                /\ UNCHANGED built
    BY <1>5 DEF Assemble
  <2>2. CASE Assembles(Synced(b), lucky)
    <3>1. Fine(b, lucky)
      BY <2>1, <2>2 DEF Fine
    <3>2. Fine(b, TRUE)
      <4>1. CASE lucky = TRUE
        BY <3>1, <4>1
      <4>2. CASE lucky = FALSE
        BY <3>1, <4>2, LuckHelps
      <4> QED
        BY <4>1, <4>2
    <3> QED
      BY <2>1, <2>2, <3>2
  <2>3. CASE ~ Assembles(Synced(b), lucky)
    <3>1. ~ Fine(b, lucky)
      BY <2>3 DEF Fine
    <3>2. ~ Fine(b, FALSE)
      BY <3>1, LuckHelps
    <3> QED
      BY <2>1, <2>3, <3>2
  <2> QED
    BY <2>2, <2>3
<1> QED
  BY <1>1, <1>2, <1>3, <1>4, <1>5 DEF ToCode

LEMMA TypeToCode ==
    ASSUME TypeOK, NEW b \in Bytecode, ToCode(b)
    PROVE  TypeOK'
<1>1. /\ UNCHANGED <<instr, lists, body, entry, table, born, instrs, end_labels, exc_entries, next>>
      /\ b \in born
  BY ToCodeResult DEF heap, held, object
<1>2. Issued' = Issued /\ Instr' = Instr /\ Entry' = Entry
  BY <1>1 DEF Issued, Instr, Entry, Argument
<1>3. HeapOK' /\ ObjectsOK'
  BY <1>1, <1>2 DEF TypeOK, HeapOK, ObjectsOK
<1>4. ResultsOK'
  <2>1. CASE Fine(b, TRUE)
    <3>1. Assembled(Synced(b)) \in Seq(Item)
      BY <1>1, <2>1, BuiltIsShown, ShownType
    <3> QED
      BY <1>1, <2>1, <3>1, ToCodeResult DEF TypeOK, ResultsOK
  <2>2. CASE ~ Fine(b, TRUE)
    BY <1>1, <2>2, ToCodeResult DEF TypeOK, ResultsOK
  <2> QED
    BY <2>1, <2>2
<1> QED
  BY <1>3, <1>4 DEF TypeOK

\* What the C++ side has decoded, piece by piece.
LEMMA DecodedType ==
    ASSUME NEW c \in Decoded
    PROVE  /\ c.next \in Nat
           /\ DOMAIN c.instrs = 1 .. Len(c.instrs) /\ Len(c.instrs) \in Nat
           /\ \A k \in 1 .. Len(c.instrs) :
                 /\ c.instrs[k].op \in Op
                 /\ c.instrs[k].labels \in Seq(0 .. c.next - 1)
                 /\ c.instrs[k].arg \in ({"label"} \X (0 .. c.next - 1)) \cup ({"int"} \X Nat)
           /\ c.end_labels \in Seq(0 .. c.next - 1)
           /\ DOMAIN c.exc = 1 .. Len(c.exc) /\ Len(c.exc) \in Nat
           /\ \A k \in 1 .. Len(c.exc) :
                 /\ {c.exc[k].start, c.exc[k].stop, c.exc[k].handler} \subseteq 0 .. c.next - 1
                 /\ c.exc[k].depth \in Nat /\ c.exc[k].lasti \in BOOLEAN
<1> DEFINE ids == 0 .. c.next - 1
           I == [op : Op, labels : Seq(ids), arg : ({"label"} \X ids) \cup ({"int"} \X Nat)]
           E == [start : ids, stop : ids, handler : ids, depth : Nat, lasti : BOOLEAN]
<1>1. /\ c.next \in Nat /\ c.instrs \in Seq(I) /\ c.end_labels \in Seq(ids) /\ c.exc \in Seq(E)
  BY DecodedAssumption
<1>2. /\ DOMAIN c.instrs = 1 .. Len(c.instrs) /\ Len(c.instrs) \in Nat
      /\ \A k \in 1 .. Len(c.instrs) : c.instrs[k] \in I
  <2> HIDE DEF I
  <2> QED
    BY <1>1, LenProperties, ElementOfSeq
<1>3. /\ DOMAIN c.exc = 1 .. Len(c.exc) /\ Len(c.exc) \in Nat
      /\ \A k \in 1 .. Len(c.exc) : c.exc[k] \in E
  <2> HIDE DEF E
  <2> QED
    BY <1>1, LenProperties, ElementOfSeq
<1>4. ASSUME NEW k \in 1 .. Len(c.instrs)
      PROVE  /\ c.instrs[k].op \in Op
             /\ c.instrs[k].labels \in Seq(ids)
             /\ c.instrs[k].arg \in ({"label"} \X ids) \cup ({"int"} \X Nat)
  <2>1. c.instrs[k] \in I
    BY <1>2
  <2> QED
    BY <2>1
<1>5. ASSUME NEW k \in 1 .. Len(c.exc)
      PROVE  /\ {c.exc[k].start, c.exc[k].stop, c.exc[k].handler} \subseteq ids
             /\ c.exc[k].depth \in Nat /\ c.exc[k].lasti \in BOOLEAN
  <2>1. c.exc[k] \in E
    BY <1>3
  <2> QED
    BY <2>1
<1> QED
  BY <1>1, <1>2, <1>3, <1>4, <1>5

LEMMA TypeFromCode ==
    ASSUME TypeOK, NEW b \in Bytecode, NEW c \in Decoded, FromCode(b, c)
    PROVE  TypeOK'
<1> USE DEF TypeOK
<1> DEFINE N == Len(c.instrs)
           n == Len(lists)
           m == Len(instr)
           M == Len(c.exc)
           e == Len(entry)
           rows == [k \in DOMAIN c.exc |-> IssueEntry(b, c.exc[k])]
           fresh == [k \in DOMAIN c.instrs |->
                       [op |-> c.instrs[k].op, arg |-> ArgFrom(b, c.instrs[k].arg),
                        labels |-> n + k]]
           T == Issued' \cup {NoLabel}
<1>1. /\ b \notin born /\ born' = born \cup {b}
      /\ instr' = instr \o fresh
      /\ lists' = lists \o ListsFrom(b, c)
      /\ body' = [body EXCEPT ![b] = [k \in DOMAIN fresh |-> Len(instr) + k]]
      /\ end_labels' = [end_labels EXCEPT ![b] = n + Len(fresh) + 1]
      /\ entry' = entry \o rows
      /\ table' = [table EXCEPT ![b] = [k \in DOMAIN c.exc |-> Len(entry) + k]]
      /\ next' = [next EXCEPT ![b] = c.next]
      /\ UNCHANGED <<instrs, exc_entries, built, outcome>>
  BY DEF FromCode, CounterOf
<1>2. /\ N \in Nat /\ DOMAIN c.instrs = 1 .. N /\ c.next \in Nat
      /\ n \in Nat /\ DOMAIN lists = 1 .. n /\ m \in Nat /\ DOMAIN instr = 1 .. m
      /\ M \in Nat /\ DOMAIN c.exc = 1 .. M /\ e \in Nat /\ DOMAIN entry = 1 .. e
  BY DecodedType, LenProperties DEF HeapOK
<1>3. Len(fresh) = N /\ DOMAIN fresh = 1 .. N
  <2>1. fresh = [k \in 1 .. N |-> fresh[k]]
    BY <1>2
  <2> HIDE DEF fresh, N
  <2> QED
    BY <1>2, <2>1, LenOfMap
<1> HIDE DEF fresh, N, n, m, M, e, rows
<1>4. /\ Issued \subseteq Issued'
      /\ \A id \in 0 .. c.next - 1 : Label(b, id) \in Issued'
  <2>0. b \notin born /\ next' = [next EXCEPT ![b] = c.next]
    BY <1>1
  <2>1. \A x \in born : next'[x] \in Int /\ next[x] \in Int /\ next'[x] >= next[x]
    BY <2>0 DEF ObjectsOK
  <2>2. Issued \subseteq Issued'
    BY <1>1, <2>1, LabelsStay
  <2>3. Issued' = IssuedOf(born', next') /\ b \in born' /\ next'[b] = c.next
    BY <1>1 DEF Issued, IssuedOf, ObjectsOK
  <2> QED
    BY <2>2, <2>3, IssuedIs
<1>5. ASSUME NEW s \in Seq(0 .. c.next - 1) PROVE Issue(b, s) \in Seq(T)
  <2>1. Len(s) \in Nat /\ DOMAIN s = 1 .. Len(s) /\ \A k \in 1 .. Len(s) : s[k] \in 0 .. c.next - 1
    BY LenProperties, ElementOfSeq
  <2> DEFINE f == Issue(b, s)
  <2>2. f = [k \in 1 .. Len(s) |-> f[k]] /\ \A k \in 1 .. Len(s) : f[k] \in T
    BY <1>4, <2>1 DEF Issue
  <2> HIDE DEF f, T
  <2>3. f \in Seq(T)
    BY <2>1, <2>2, MapType
  <2> QED
    BY <2>3 DEF f
<1>6. ListsFrom(b, c) \in Seq(Seq(T)) /\ Len(ListsFrom(b, c)) = N + 1
  <2> DEFINE x == [k \in DOMAIN c.instrs |-> Issue(b, c.instrs[k].labels)]
             y == <<Issue(b, c.end_labels)>>
  <2>1. x = [k \in 1 .. N |-> x[k]] /\ \A k \in 1 .. N : x[k] \in Seq(T)
    BY <1>2, <1>5, DecodedType DEF N
  <2>2. Issue(b, c.end_labels) \in Seq(T)
    BY <1>5, DecodedType
  <2> DEFINE S == Seq(T)
  <2>3. (\A k \in 1 .. N : x[k] \in S) /\ Issue(b, c.end_labels) \in S
    BY <2>1, <2>2
  <2> HIDE DEF T, S
  <2>4. y \in Seq(S) /\ Len(y) = 1
    BY <2>3
  <2> HIDE DEF x, y
  <2>5. x \in Seq(S) /\ Len(x) = N
    BY <1>2, <2>1, <2>3, MapType
  <2>6. x \o y \in Seq(S) /\ Len(x \o y) = N + 1
    BY <2>4, <2>5, ConcatProperties
  <2>7. ListsFrom(b, c) = x \o y
    BY DEF ListsFrom, x, y
  <2> QED
    BY <2>6, <2>7 DEF S
<1>7. lists' \in Seq(Seq(T)) /\ DOMAIN lists' = 1 .. n + N + 1
  <2>1. lists \in Seq(Seq(T))
    <3> DEFINE S == Issued \cup {NoLabel}
    <3>1. S \subseteq T /\ lists \in Seq(Seq(S))
      BY <1>4 DEF HeapOK
    <3> HIDE DEF S, T
    <3>2. Seq(S) \subseteq Seq(T)
      BY <3>1, SeqMonotonic
    <3> QED
      BY <3>1, <3>2, SeqMonotonic
  <2> HIDE DEF T
  <2>2. lists' \in Seq(Seq(T)) /\ Len(lists') = n + (N + 1)
    BY <1>1, <1>2, <1>6, <2>1, ConcatProperties DEF n
  <2> QED
    BY <1>2, <2>2, LenProperties
<1>8. Instr \subseteq Instr' /\ Entry \subseteq Entry'
  <2>1. DOMAIN lists \subseteq DOMAIN lists'
    BY <1>2, <1>7
  <2> QED
    BY <1>4, <2>1, TypesGrow
<1>9. ASSUME NEW k \in 1 .. N PROVE fresh[k] \in Instr'
  <2> DEFINE a == c.instrs[k].arg
             op == c.instrs[k].op
             x == ArgFrom(b, a)
             j == n + k
  <2>1. op \in Op /\ a \in ({"label"} \X (0 .. c.next - 1)) \cup ({"int"} \X Nat)
    BY DecodedType DEF N
  <2>2. fresh[k] = [op |-> op, arg |-> x, labels |-> j]
    BY <1>2 DEF fresh
  <2>3. j \in DOMAIN lists'
    BY <1>2, <1>7
  <2>4. x = [form |-> a[1], is |-> IF a[1] = "label" THEN Label(b, a[2]) ELSE a[2]]
    BY DEF ArgFrom
  <2> HIDE DEF a, op, x, j
  <2>5. x \in Argument'
    <3>1. CASE a \in {"label"} \X (0 .. c.next - 1)
      <4>1. a[1] = "label" /\ a[2] \in 0 .. c.next - 1
        BY <3>1
      <4>2. x = [form |-> "label", is |-> Label(b, a[2])] /\ Label(b, a[2]) \in Issued'
        BY <1>4, <2>4, <4>1
      <4> QED
        BY <4>2 DEF Argument
    <3>2. CASE a \in {"int"} \X Nat
      <4>1. a[1] = "int" /\ a[2] \in Nat /\ a[1] # "label"
        BY <3>2
      <4>2. x = [form |-> "int", is |-> a[2]]
        BY <2>4, <4>1
      <4> QED
        BY <4>1, <4>2 DEF Argument
    <3> QED
      BY <2>1, <3>1, <3>2
  <2>6. [op |-> op, arg |-> x, labels |-> j] \in Instr'
    BY <2>1, <2>3, <2>5 DEF Instr
  <2> QED
    BY <2>2, <2>6
<1>10. instr' \in Seq(Instr') /\ DOMAIN instr' = 1 .. m + N
  <2>1. fresh \in Seq(Instr')
    <3>1. fresh = [k \in 1 .. N |-> fresh[k]]
      BY <1>2 DEF fresh
    <3> QED
      BY <1>2, <1>9, <3>1, MapType
  <2>2. instr \in Seq(Instr')
    BY <1>8, SeqMonotonic DEF HeapOK
  <2>3. instr' \in Seq(Instr') /\ Len(instr') = m + N
    BY <1>1, <1>3, <2>1, <2>2, ConcatProperties DEF m
  <2> QED
    BY <1>2, <2>3, LenProperties
<1>11. body' \in [Bytecode -> Seq(DOMAIN instr' \cup {Junk})]
  <2> DEFINE D == DOMAIN instr \cup {Junk}
             F == DOMAIN instr' \cup {Junk}
             f == [k \in DOMAIN fresh |-> Len(instr) + k]
  <2>1. D \subseteq F /\ \A k \in 1 .. N : m + k \in F
    BY <1>2, <1>10
  <2>2. f = [k \in 1 .. N |-> f[k]] /\ \A k \in 1 .. N : f[k] = m + k
    BY <1>3 DEF m
  <2>3. body \in [Bytecode -> Seq(D)]
    BY DEF HeapOK
  <2> HIDE DEF D, F, f
  <2>4. f \in Seq(F)
    BY <1>2, <2>1, <2>2, MapType
  <2>5. Seq(D) \subseteq Seq(F)
    BY <2>1, SeqMonotonic
  <2>6. body' = [body EXCEPT ![b] = f]
    BY <1>1 DEF f
  <2>7. body' \in [Bytecode -> Seq(F)]
    BY <2>3, <2>4, <2>5, <2>6
  <2> QED
    BY <2>7 DEF F
<1>13. entry' \in Seq(Entry') /\ DOMAIN entry' = 1 .. e + M
  <2>1. \A k \in 1 .. M : rows[k] \in Entry'
    BY <1>2, <1>4, DecodedType DEF IssueEntry, ExcEntry, Entry, M, rows
  <2>2. rows = [k \in 1 .. M |-> rows[k]]
    BY <1>2 DEF rows
  <2>3. rows \in Seq(Entry') /\ Len(rows) = M
    BY <1>2, <2>1, <2>2, MapType
  <2>4. entry \in Seq(Entry')
    BY <1>8, SeqMonotonic DEF HeapOK
  <2>5. entry' \in Seq(Entry') /\ Len(entry') = e + M
    BY <1>1, <2>3, <2>4, ConcatProperties DEF e
  <2> QED
    BY <1>2, <2>5, LenProperties
<1>16. table' \in [Bytecode -> Seq(DOMAIN entry' \cup {Junk})]
  <2> DEFINE D == DOMAIN entry \cup {Junk}
             F == DOMAIN entry' \cup {Junk}
             f == [k \in DOMAIN c.exc |-> Len(entry) + k]
  <2>1. D \subseteq F /\ \A k \in 1 .. M : e + k \in F
    BY <1>2, <1>13
  <2>2. f = [k \in 1 .. M |-> f[k]] /\ \A k \in 1 .. M : f[k] = e + k
    BY <1>2 DEF e
  <2>3. table \in [Bytecode -> Seq(D)]
    BY DEF HeapOK
  <2> HIDE DEF D, F, f
  <2>4. f \in Seq(F)
    BY <1>2, <2>1, <2>2, MapType
  <2>5. Seq(D) \subseteq Seq(F)
    BY <2>1, SeqMonotonic
  <2>6. table' = [table EXCEPT ![b] = f]
    BY <1>1 DEF f
  <2>7. table' \in [Bytecode -> Seq(F)]
    BY <2>3, <2>4, <2>5, <2>6
  <2> QED
    BY <2>7 DEF F
<1>12. HeapOK'
  BY <1>7, <1>10, <1>11, <1>13, <1>16 DEF HeapOK
<1>14. ObjectsOK'
  <2>1. /\ born' \subseteq Bytecode /\ end_labels' \in [Bytecode -> Nat] /\ next' \in [Bytecode -> Nat]
        /\ \A x \in Bytecode \ born' : next'[x] = 0
    BY <1>1, <1>2, <1>3 DEF ObjectsOK
  <2>2. \A x \in born' : end_labels'[x] \in DOMAIN lists'
    BY <1>1, <1>2, <1>3, <1>7 DEF ObjectsOK
  <2>3. /\ \A x \in born' : instrs'[x] \in born' /\ exc_entries'[x] \in born'
        /\ \A x \in Bytecode \ born' : instrs'[x] = x /\ exc_entries'[x] = x
    BY <1>1 DEF ObjectsOK
  <2> QED
    BY <1>1, <2>1, <2>2, <2>3 DEF ObjectsOK
<1>15. ResultsOK'
  BY <1>1 DEF ResultsOK
<1> QED
  BY <1>12, <1>14, <1>15

-----------------------------------------------------------------------------
(***************************************************************************)
(* The types hold.                                                         *)
(***************************************************************************)
LEMMA TypeInit == Init => TypeOK
<1> SUFFICES ASSUME Init PROVE TypeOK
  OBVIOUS
<1>1. HeapOK
  <2>1. /\ DOMAIN instr = {} /\ instr \in Seq(Instr) /\ lists \in Seq(Seq(Issued \cup {NoLabel}))
        /\ DOMAIN entry = {} /\ entry \in Seq(Entry)
    BY DEF Init
  <2> QED
    BY <2>1 DEF HeapOK, Init
<1>2. ObjectsOK
  BY DEF ObjectsOK, Init
<1>3. ResultsOK
  BY DEF ResultsOK, Init
<1> QED
  BY <1>1, <1>2, <1>3 DEF TypeOK

LEMMA TypeChange ==
    ASSUME TypeOK, NEW b \in born, Change(b)
    PROVE  TypeOK' /\ Edit
<1>0. b \in Bytecode
  BY BornType
<1>1. ASSUME NEW k \in 1 .. Len(Items(b)) + 1, NEW op \in Op, NEW arg \in Arguments(op),
             InsertInstr(b, k, op, arg)
      PROVE  TypeOK' /\ Edit
  BY <1>0, <1>1, TypeInsertInstr DEF InsertInstr
<1>2. ASSUME NEW k \in 1 .. Len(Items(b)) + 1, NEW o \in DOMAIN instr \cup {Junk},
             InsertAgain(b, k, o)
      PROVE  TypeOK' /\ Edit
  BY <1>0, <1>2, TypeInsertAgain DEF InsertAgain
<1>3. ASSUME NEW k \in DOMAIN Items(b), Delete(b, k) PROVE TypeOK' /\ Edit
  BY <1>0, <1>3, TypeDelete DEF Delete
<1>4. ASSUME NEW o \in DOMAIN instr, NEW op \in Op,
             SetOp(o, op) \/ \E arg \in Arguments(op) : SetArg(o, arg)
      PROVE  TypeOK' /\ Edit
  BY <1>4, TypeSetOp, TypeSetArg DEF SetOp, SetArg
<1>5. ASSUME NEW i \in DOMAIN lists, NEW l \in Issued \cup {NoLabel}, AppendLabel(i, l)
      PROVE  TypeOK' /\ Edit
  BY <1>5, TypeAppendLabel DEF AppendLabel
<1>6. ASSUME NEW i \in DOMAIN lists, NEW o \in DOMAIN instr, SetLabels(o, i)
      PROVE  TypeOK' /\ Edit
  BY <1>6, TypeSetLabels DEF SetLabels
<1>7. ASSUME NEW i \in DOMAIN lists, SetEndLabels(b, i) PROVE TypeOK' /\ Edit
  BY <1>7, TypeSetLists DEF SetEndLabels
<1>8. ASSUME NEW c \in born, SetInstrs(b, c) \/ SetExcEntries(b, c) PROVE TypeOK' /\ Edit
  BY <1>8, TypeSetLists DEF SetInstrs, SetExcEntries
<1>9. ASSUME NEW l \in Issued, AppendEntry(b, l) PROVE TypeOK' /\ Edit
  BY <1>0, <1>9, TypeAppendEntry DEF AppendEntry
<1>10. ASSUME NEW x \in DOMAIN entry \cup {Junk}, AppendEntryAgain(b, x) PROVE TypeOK' /\ Edit
  BY <1>0, <1>10, TypeAppendEntryAgain DEF AppendEntryAgain
<1>11. ASSUME NEW k \in DOMAIN Entries(b), DeleteEntry(b, k) PROVE TypeOK' /\ Edit
  BY <1>0, <1>11, TypeDeleteEntry DEF DeleteEntry
<1>12. ASSUME NEW x \in DOMAIN entry,
              \/ \E f \in {"start", "stop", "handler"}, l \in Issued : SetLabel(x, f, l)
              \/ \E d \in Depth : SetDepth(x, d)
              \/ \E v \in BOOLEAN : SetLasti(x, v)
       PROVE  TypeOK' /\ Edit
  BY <1>12, TypeSetField
<1> QED
  BY <1>1, <1>2, <1>3, <1>4, <1>5, <1>6, <1>7, <1>8, <1>9, <1>10, <1>11, <1>12 DEF Change

\* What happens when nothing is changed: an object is made, or a label.
Making(b) ==
    \/ \E c \in Decoded : FromCode(b, c)
    \/ \E items \in Seq(DOMAIN instr \cup {Junk}) : NewBytecode(b, items)
    \/ NewLabel(b)

LEMMA NextIs ==
    ASSUME TypeOK, Next
    PROVE  \E b \in Bytecode : Making(b) \/ (b \in born /\ Change(b)) \/ ToCode(b)
<1>1. PICK b \in Bytecode :
         \/ \E c \in Decoded : FromCode(b, c)
         \/ NewBytecode(b, <<>>)
         \/ \E o \in born : NewBytecode(b, Items(o))
         \/ NewLabel(b)
         \/ b \in born /\ Change(b)
         \/ ToCode(b)
  BY DEF Next
<1>2. \A o \in born : Items(o) \in Seq(DOMAIN instr \cup {Junk})
  BY BornType
<1>3. <<>> \in Seq(DOMAIN instr \cup {Junk})
  OBVIOUS
<1> QED
  BY <1>1, <1>2, <1>3 DEF Making

LEMMA TypeNext ==
    ASSUME TypeOK, [Next]_vars
    PROVE  TypeOK'
<1>1. CASE UNCHANGED vars
  <2>1. UNCHANGED <<instr, lists, body, entry, table, born, instrs, end_labels, exc_entries, next,
                    built, outcome>>
    BY <1>1 DEF vars, heap, held, object, result
  <2>2. Issued' = Issued /\ Instr' = Instr /\ Entry' = Entry
    BY <2>1 DEF Issued, Instr, Entry, Argument
  <2> QED
    BY <2>1, <2>2 DEF TypeOK, HeapOK, ObjectsOK, ResultsOK
<1>2. CASE Next
  <2>1. PICK b \in Bytecode : Making(b) \/ (b \in born /\ Change(b)) \/ ToCode(b)
    BY <1>2, NextIs
  <2> QED
    BY <2>1, TypeFromCode, TypeNewBytecode, TypeNewLabel, TypeChange, TypeToCode DEF Making
<1> QED
  BY <1>1, <1>2

-----------------------------------------------------------------------------
(***************************************************************************)
(* What was returned is remembered.                                        *)
(***************************************************************************)
\* Making an object leaves alone what the others refer to.
LEMMA MakingKeeps ==
    ASSUME TypeOK, NEW x \in Bytecode, Making(x), NEW b \in born
    PROVE  /\ \A o \in DOMAIN instr : instr'[o] = instr[o]
           /\ \A i \in DOMAIN lists : lists'[i] = lists[i]
           /\ \A y \in DOMAIN entry : entry'[y] = entry[y]
           /\ Items(b)' = Items(b) /\ EndLabels(b)' = EndLabels(b) /\ Entries(b)' = Entries(b)
           /\ UNCHANGED <<built, outcome>>
<1> USE DEF TypeOK
<1>1. /\ b \in Bytecode /\ instrs[b] \in born /\ exc_entries[b] \in born
      /\ end_labels[b] \in DOMAIN lists
      /\ Len(lists) \in Nat /\ DOMAIN lists = 1 .. Len(lists)
      /\ Len(instr) \in Nat /\ DOMAIN instr = 1 .. Len(instr)
      /\ Len(entry) \in Nat /\ DOMAIN entry = 1 .. Len(entry)
  BY LenProperties DEF HeapOK, ObjectsOK
<1>2. CASE \E c \in Decoded : FromCode(x, c)
  <2>1. PICK c \in Decoded : FromCode(x, c)
    BY <1>2
  <2> DEFINE fresh == [k \in DOMAIN c.instrs |->
                         [op |-> c.instrs[k].op, arg |-> ArgFrom(x, c.instrs[k].arg),
                          labels |-> Len(lists) + k]]
             rows == [k \in DOMAIN c.exc |-> IssueEntry(x, c.exc[k])]
  <2>2. /\ x \notin born
        /\ instr' = instr \o fresh /\ lists' = lists \o ListsFrom(x, c)
        /\ entry' = entry \o rows
        /\ \A y \in born : body'[y] = body[y] /\ end_labels'[y] = end_labels[y]
                             /\ table'[y] = table[y]
        /\ UNCHANGED <<instrs, exc_entries, built, outcome>>
    BY <2>1 DEF FromCode, HeapOK, ObjectsOK
  <2> DEFINE more == ListsFrom(x, c)
  <2>3. /\ \E N \in Nat : Len(fresh) = N
        /\ \E N \in Nat : Len(more) = N
        /\ \E N \in Nat : Len(rows) = N
    <3>1. /\ DOMAIN c.instrs = 1 .. Len(c.instrs) /\ Len(c.instrs) \in Nat
          /\ DOMAIN c.exc = 1 .. Len(c.exc) /\ Len(c.exc) \in Nat
      BY DecodedType
    <3> DEFINE first == [k \in DOMAIN c.instrs |-> Issue(x, c.instrs[k].labels)]
               any == {first[k] : k \in DOMAIN c.instrs} \cup {Issue(x, c.end_labels)}
               last == <<Issue(x, c.end_labels)>>
    <3>2. /\ rows = [k \in 1 .. Len(c.exc) |-> rows[k]]
          /\ fresh = [k \in 1 .. Len(c.instrs) |-> fresh[k]]
          /\ first = [k \in 1 .. Len(c.instrs) |-> first[k]]
          /\ \A k \in 1 .. Len(c.instrs) : first[k] \in any
          /\ Issue(x, c.end_labels) \in any
      BY <3>1
    <3>3. more = first \o last
      BY DEF ListsFrom
    <3> HIDE DEF any, first, fresh, more, rows
    <3>4. Len(fresh) = Len(c.instrs) /\ Len(rows) = Len(c.exc)
      BY <3>1, <3>2, LenOfMap
    <3>5. last \in Seq(any) /\ Len(last) = 1
      BY <3>2
    <3>6. first \in Seq(any) /\ Len(first) = Len(c.instrs)
      BY <3>1, <3>2, MapType
    <3> HIDE DEF last
    <3>7. Len(first \o last) = Len(c.instrs) + 1
      BY <3>5, <3>6, LenOfConcat
    <3> QED
      BY <3>1, <3>3, <3>4, <3>7
  <2> HIDE DEF fresh, more, rows
  <2>4. /\ \A o \in 1 .. Len(instr) : (instr \o fresh)[o] = instr[o]
        /\ \A i \in 1 .. Len(lists) : (lists \o more)[i] = lists[i]
        /\ \A y \in 1 .. Len(entry) : (entry \o rows)[y] = entry[y]
    BY <1>1, <2>3
  <2>5. /\ \A o \in DOMAIN instr : instr'[o] = instr[o]
        /\ \A i \in DOMAIN lists : lists'[i] = lists[i]
        /\ \A y \in DOMAIN entry : entry'[y] = entry[y]
    BY <1>1, <2>2, <2>4 DEF more
  <2> QED
    BY <1>1, <2>2, <2>5 DEF Items, EndLabels, Entries
<1>3. CASE \E items \in Seq(DOMAIN instr \cup {Junk}) : NewBytecode(x, items)
  <2>1. /\ x \notin born
        /\ lists' = Append(lists, <<>>)
        /\ \A y \in born : body'[y] = body[y] /\ end_labels'[y] = end_labels[y]
        /\ UNCHANGED <<instr, entry, table, instrs, exc_entries, built, outcome>>
    <3>1. PICK items \in Seq(DOMAIN instr \cup {Junk}) : NewBytecode(x, items)
      BY <1>3
    <3> QED
      BY <3>1 DEF NewBytecode, HeapOK, ObjectsOK, result
  <2>2. \A i \in DOMAIN lists : lists'[i] = lists[i]
    BY <1>1, <2>1
  <2> QED
    BY <1>1, <2>1, <2>2 DEF Items, EndLabels, Entries
<1>4. CASE NewLabel(x)
  <2>1. UNCHANGED <<instr, lists, body, entry, table, instrs, end_labels, exc_entries, built, outcome>>
    BY <1>4 DEF NewLabel, heap, held, result
  <2> QED
    BY <2>1 DEF Items, EndLabels, Entries
<1> QED
  BY <1>2, <1>3, <1>4 DEF Making

LEMMA FineStays ==
    ASSUME TypeOK, NEW b \in born,
           \A o \in DOMAIN instr : instr'[o] = instr[o],
           \A i \in DOMAIN lists : lists'[i] = lists[i],
           \A x \in DOMAIN entry : entry'[x] = entry[x],
           Items(b)' = Items(b), EndLabels(b)' = EndLabels(b), Entries(b)' = Entries(b)
    PROVE  \A lucky \in BOOLEAN :
              /\ Fine(b, lucky)' <=> Fine(b, lucky)
              /\ Fine(b, lucky) => Synced(b)' = Synced(b)
<1>1. /\ \A k \in DOMAIN Items(b) : Items(b)[k] \in DOMAIN instr \cup {Junk}
      /\ \A k \in DOMAIN Entries(b) : Entries(b)[k] \in DOMAIN entry \cup {Junk}
  BY BornType, ElementOfSeq
<1>2. AllConvertible(b)' <=> AllConvertible(b)
  BY <1>1 DEF AllConvertible, Convertible
<1>3. ASSUME AllConvertible(b), ~ Contains(Entries(b), Junk) PROVE Synced(b)' = Synced(b)
  <2>1. ASSUME NEW k \in DOMAIN Items(b)
        PROVE  CppInstr(Items(b)[k])' = CppInstr(Items(b)[k])
    <3> DEFINE o == Items(b)[k]
    <3>1. o \in DOMAIN instr
      BY <1>1, <1>3 DEF AllConvertible, Convertible
    <3>2. Items(b)'[k] = o /\ instr'[o] = instr[o] /\ lists'[instr[o].labels] = lists[instr[o].labels]
      BY <3>1, InstrType
    <3> HIDE DEF o
    <3> QED
      BY <3>2 DEF CppInstr, o
  <2>2. [k \in DOMAIN Items(b) |-> CppInstr(Items(b)[k])]'
          = [k \in DOMAIN Items(b) |-> CppInstr(Items(b)[k])]
    BY <2>1
  <2>3. SyncLabels(b)' = SyncLabels(b)
    BY DEF SyncLabels
  <2>4. ASSUME NEW k \in DOMAIN Entries(b)
        PROVE  CppEntry(Entries(b)[k])' = CppEntry(Entries(b)[k])
    <3> DEFINE x == Entries(b)[k]
    <3>1. x \in DOMAIN entry
      BY <1>1, <1>3, BornType DEF Contains
    <3>2. Entries(b)'[k] = x /\ entry'[x] = entry[x]
      BY <3>1
    <3> HIDE DEF x
    <3> QED
      BY <3>2 DEF CppEntry, x
  <2>5. SyncEntries(b)' = SyncEntries(b)
    BY <2>4 DEF SyncEntries
  <2> QED
    BY <2>2, <2>3, <2>5 DEF Synced
<1>4. Contains(Entries(b), Junk)' <=> Contains(Entries(b), Junk)
  BY DEF Contains
<1>5. Contains(EndLabels(b), NoLabel)' <=> Contains(EndLabels(b), NoLabel)
  BY DEF Contains
<1> QED
  BY <1>2, <1>3, <1>4, <1>5 DEF Fine

LEMMA RememberedNext ==
    ASSUME TypeOK, Remembered, [Next]_vars
    PROVE  Remembered'
<1>1. CASE UNCHANGED vars
  <2>1. UNCHANGED <<instr, lists, body, entry, table, born, instrs, end_labels, exc_entries,
                    built, outcome>>
    BY <1>1 DEF vars, heap, held, object, result
  <2>2. \A b \in born : /\ Items(b)' = Items(b) /\ EndLabels(b)' = EndLabels(b)
                        /\ Entries(b)' = Entries(b)
    BY <2>1 DEF Items, EndLabels, Entries
  <2>3. \A b \in born, lucky \in BOOLEAN :
                        /\ Fine(b, lucky)' <=> Fine(b, lucky)
                        /\ Fine(b, lucky) => Synced(b)' = Synced(b)
    BY <2>1, <2>2, FineStays
  <2> QED
    BY <2>1, <2>3 DEF Remembered
<1>2. CASE Next
  <2>1. PICK x \in Bytecode : Making(x) \/ (x \in born /\ Change(x)) \/ ToCode(x)
    BY <1>2, NextIs
  <2>2. CASE Making(x)
    <3>1. UNCHANGED <<built, outcome>> /\ born' \subseteq born \cup {x}
      BY <2>2 DEF Making, FromCode, NewBytecode, NewLabel, result
    <3>2. ASSUME NEW b \in born
          PROVE  /\ outcome'[b] = "returned" => Fine(b, TRUE)' /\ built'[b] = Assembled(Synced(b)')
                 /\ outcome'[b] = "raised" => ~ Fine(b, FALSE)'
      <4>1. \A lucky \in BOOLEAN :
              /\ Fine(b, lucky)' <=> Fine(b, lucky)
              /\ Fine(b, lucky) => Synced(b)' = Synced(b)
        BY <2>2, MakingKeeps, FineStays
      <4> QED
        BY <3>1, <4>1 DEF Remembered
    <3>3. \A b \in born' \ born : outcome'[b] = "none"
      BY <3>1 DEF TypeOK, ResultsOK
    <3> QED
      BY <3>2, <3>3 DEF Remembered
  <2>3. CASE x \in born /\ Change(x)
    <3>1. outcome' = [b \in Bytecode |-> "none"] /\ born' = born
      BY <2>3, TypeChange DEF Edit
    <3>2. \A b \in born' : outcome'[b] = "none"
      BY <3>1 DEF TypeOK, ObjectsOK
    <3> QED
      BY <3>2 DEF Remembered
  <2>4. CASE ToCode(x)
    <3>1. UNCHANGED <<instr, lists, body, entry, table, born, instrs, end_labels, exc_entries>>
      BY <2>4, ToCodeResult DEF heap, held, object
    <3>2. \A b \in born : /\ Items(b)' = Items(b) /\ EndLabels(b)' = EndLabels(b)
                          /\ Entries(b)' = Entries(b)
      BY <3>1 DEF Items, EndLabels, Entries
    <3>3. \A b \in born, lucky \in BOOLEAN :
                          /\ Fine(b, lucky)' <=> Fine(b, lucky)
                          /\ Fine(b, lucky) => Synced(b)' = Synced(b)
      BY <3>1, <3>2, FineStays
    <3>4. ASSUME NEW b \in born
          PROVE  /\ outcome'[b] = "returned" => Fine(b, TRUE) /\ built'[b] = Assembled(Synced(b))
                 /\ outcome'[b] = "raised" => ~ Fine(b, FALSE)
      <4>1. b \in Bytecode /\ DOMAIN outcome = Bytecode /\ DOMAIN built = Bytecode
        BY DEF TypeOK, ObjectsOK, ResultsOK
      <4>2. CASE b # x
        BY <2>4, <4>1, <4>2, ToCodeResult DEF Remembered
      <4>3. CASE b = x
        BY <2>4, <4>1, <4>3, ToCodeResult
      <4> QED
        BY <4>2, <4>3
    <3> QED
      BY <3>1, <3>3, <3>4 DEF Remembered
  <2> QED
    BY <2>1, <2>2, <2>3, <2>4
<1> QED
  BY <1>1, <1>2

LEMMA InvHolds == Spec => []IInv
<1>1. Init => IInv
  <2>1. Init => Remembered
    BY DEF Init, Remembered
  <2> QED
    BY <2>1, TypeInit DEF IInv
<1>2. IInv /\ [Next]_vars => IInv'
  BY TypeNext, RememberedNext DEF IInv
<1> QED
  BY <1>1, <1>2, PTL DEF Spec

-----------------------------------------------------------------------------
(***************************************************************************)
(* The theorems.                                                           *)
(***************************************************************************)
\* However labels, lists and entries are shared between Bytecodes, what
\* new_label() returns next is on nothing that is reachable, bytecode.h:78-80.
THEOREM NextLabelIsFreshHolds == Spec => []NextLabelIsFresh
<1>1. IInv => NextLabelIsFresh
  <2> SUFFICES ASSUME IInv, NEW l \in InUse PROVE l.id < next[l.by]
    BY DEF NextLabelIsFresh
  <2>0. TypeOK
    BY DEF IInv
  <2>1. CASE l \in UNION {ToSet(lists[i]) \ {NoLabel} : i \in DOMAIN lists}
    <3>1. PICK i \in DOMAIN lists : l \in ToSet(lists[i]) /\ l # NoLabel
      BY <2>1
    <3> DEFINE S == Issued \cup {NoLabel}
               Q == Seq(S)
    <3>2. lists \in Seq(Q)
      BY <2>0 DEF TypeOK, HeapOK
    <3> HIDE DEF Q
    <3>3. lists[i] \in Q
      BY <3>1, <3>2, LenProperties, ElementOfSeq
    <3>4. l \in S
      <4> HIDE DEF S
      <4>1. lists[i] \in Seq(S)
        BY <3>3 DEF Q
      <4> QED
        BY <3>1, <4>1, LenProperties, ElementOfSeq DEF ToSet
    <3> QED
      BY <2>0, <3>1, <3>4, IssuedType
  <2>2. CASE l \in {instr[o].arg.is : o \in {x \in DOMAIN instr : instr[x].arg.form = "label"}}
    <3>1. PICK o \in DOMAIN instr : instr[o].arg.form = "label" /\ l = instr[o].arg.is
      BY <2>2
    <3>2. instr[o] \in Instr
      BY <2>0, InstrType
    <3>3. instr[o].arg \in [form : {"label"}, is : Issued] \cup [form : {"int"}, is : Nat]
      BY <3>2 DEF Instr, Argument
    <3>4. l \in Issued
      BY <3>1, <3>3
    <3> QED
      BY <2>0, <3>4, IssuedType
  <2>3. CASE l \in UNION {{entry[x].start, entry[x].stop, entry[x].handler} : x \in DOMAIN entry}
    <3>1. PICK x \in DOMAIN entry : l \in {entry[x].start, entry[x].stop, entry[x].handler}
      BY <2>3
    <3>2. entry[x] \in Entry
      BY <2>0, EntryType
    <3>3. l \in Issued
      BY <3>1, <3>2 DEF Entry
    <3> QED
      BY <2>0, <3>3, IssuedType
  <2> QED
    BY <2>1, <2>2, <2>3 DEF InUse
<1> QED
  BY <1>1, InvHolds, PTL

\* An error is not mended, or made, by having failed before, and a second call
\* returns what the first did, whatever other Bytecodes do in between.
THEOREM ToCodeRepeatsHolds == Spec => ToCodeRepeats
<1>1. ASSUME IInv, [Next]_vars
      PROVE  [\A b \in born :
                outcome[b] # "none" /\ outcome'[b] # "none" /\ ~ ReadsPastEnd(b) =>
                   outcome'[b] = outcome[b] /\ built'[b] = built[b]]_vars
  <2> SUFFICES ASSUME Next, NEW b \in born, outcome[b] # "none", outcome'[b] # "none",
                      ~ ReadsPastEnd(b)
               PROVE  outcome'[b] = outcome[b] /\ built'[b] = built[b]
    BY <1>1
  <2>0. TypeOK
    BY <1>1 DEF IInv
  <2>1. PICK x \in Bytecode : Making(x) \/ (x \in born /\ Change(x)) \/ ToCode(x)
    BY <2>0, NextIs
  <2>2. CASE Making(x)
    BY <2>2 DEF Making, FromCode, NewBytecode, NewLabel, result
  <2>3. CASE x \in born /\ Change(x)
    <3>1. b \in Bytecode /\ outcome' = [y \in Bytecode |-> "none"]
      BY <2>0, <2>3, TypeChange DEF Edit, TypeOK, ObjectsOK
    <3> QED
      BY <3>1
  <2>4. CASE ToCode(x)
    <3>1. b \in Bytecode /\ DOMAIN outcome = Bytecode /\ DOMAIN built = Bytecode
      BY <2>0 DEF TypeOK, ObjectsOK, ResultsOK
    <3>2. outcome[b] \in {"returned", "raised"} /\ outcome'[b] \in {"returned", "raised"}
      <4>1. outcome[b] \in {"none", "returned", "raised"}
        BY <2>0, <3>1 DEF TypeOK, ResultsOK
      <4>2. TypeOK'
        BY <2>0, <2>4, TypeToCode
      <4>3. outcome'[b] \in {"none", "returned", "raised"}
        BY <3>1, <4>2 DEF TypeOK, ResultsOK
      <4> QED
        BY <4>1, <4>3
    <3>3. CASE b # x
      BY <2>0, <2>4, <3>1, <3>3, ToCodeResult
    <3>6. /\ outcome[b] = "returned" => Fine(b, TRUE) /\ built[b] = Assembled(Synced(b))
          /\ outcome[b] = "raised" => ~ Fine(b, FALSE)
          /\ Fine(b, TRUE) => Fine(b, FALSE)
      BY <1>1, <2>0, NoLuckNeeded DEF IInv, Remembered
    <3>4. CASE b = x /\ outcome'[b] = "returned"
      <4>1. Fine(b, TRUE) /\ built'[b] = Assembled(Synced(b))
        BY <2>0, <2>4, <3>1, <3>4, ToCodeResult
      <4> QED
        BY <3>2, <3>4, <3>6, <4>1
    <3>5. CASE b = x /\ outcome'[b] # "returned"
      <4>1. ~ Fine(b, FALSE) /\ built'[b] = built[b] /\ outcome'[b] = "raised"
        BY <2>0, <2>4, <3>1, <3>5, ToCodeResult
      <4> QED
        BY <3>2, <3>5, <3>6, <4>1
    <3> QED
      BY <3>3, <3>4, <3>5
  <2> QED
    BY <2>1, <2>2, <2>3, <2>4
<1> QED
  BY <1>1, InvHolds, PTL DEF Spec, ToCodeRepeats

\* Every code object that to_code() returns is what its Bytecode shows at that
\* moment: each step of the objects is an edit or a build of the promise.
Typed == Shown(Watched) \in Seq(Item)
THEOREM BuildsWhatIsShownHolds == Spec => BuildsWhatIsShown
<1>0. Watched \in Bytecode
  BY BindingsAssumption DEF Watched
<1>1. Init => Promise!Init
  <2> SUFFICES ASSUME Init PROVE Promise!Init
    OBVIOUS
  <2>1. Shown(Watched) = <<>> /\ built[Watched] = <<>>
    BY <1>0 DEF Init, Shown
  <2> QED
    BY <2>1 DEF Promise!Init
<1>2. IInv => Typed
  <2>1. CASE Watched \in born
    BY <2>1, ShownType DEF IInv, Typed
  <2>2. CASE Watched \notin born
    <3>1. Shown(Watched) = <<>>
      BY <2>2 DEF Shown
    <3> QED
      BY <3>1 DEF Typed
  <2> QED
    BY <2>1, <2>2
<1>3. ASSUME IInv, Typed, Typed', [Next]_vars
      PROVE  [Promise!Next]_(Promise!vars)
  <2>0. TypeOK /\ Shown(Watched)' \in Seq(Item)
    BY <1>3 DEF IInv, Typed, Item
  <2>1. CASE built'[Watched] = built[Watched]
    <3>1. Promise!Edit
      BY <2>0, <2>1 DEF Promise!Edit
    <3> QED
      BY <3>1 DEF Promise!Next
  <2>2. CASE built'[Watched] # built[Watched]
    <3>1. PICK x \in Bytecode : Making(x) \/ (x \in born /\ Change(x)) \/ ToCode(x)
      <4>1. Next
        BY <1>3, <2>2 DEF vars, result
      <4> QED
        BY <2>0, <4>1, NextIs
    <3>2. ToCode(x)
      <4>1. Making(x) => UNCHANGED built
        BY DEF Making, FromCode, NewBytecode, NewLabel, result
      <4>2. x \in born /\ Change(x) => UNCHANGED built
        BY <2>0, TypeChange DEF Edit
      <4> QED
        BY <2>2, <3>1, <4>1, <4>2
    <3>3. x = Watched /\ Fine(Watched, TRUE) /\ Watched \in born
      <4>1. x \in born /\ built \in [Bytecode -> Seq(Item)]
        BY <2>0, <3>2, ToCodeResult DEF TypeOK, ResultsOK
      <4>2. Fine(x, TRUE)
        BY <2>0, <2>2, <3>2, ToCodeResult
      <4>3. built' = [built EXCEPT ![x] = Assembled(Synced(x))]
        BY <2>0, <2>2, <3>2, ToCodeResult
      <4>4. x = Watched
        BY <1>0, <2>2, <4>1, <4>3
      <4> QED
        BY <4>1, <4>2, <4>4
    <3>4. built'[Watched] = Shown(Watched)
      <4>1. built'[Watched] = Assembled(Synced(Watched))
        BY <1>0, <2>0, <2>2, <3>2, <3>3, ToCodeResult DEF TypeOK, ResultsOK
      <4> QED
        BY <2>0, <3>3, <4>1, BuiltIsShown
    <3>5. Shown(Watched)' = Shown(Watched)
      <4>1. UNCHANGED <<instr, lists, body, entry, table, born, instrs, end_labels, exc_entries>>
        BY <2>0, <3>2, ToCodeResult DEF heap, held, object
      <4> QED
        BY <4>1 DEF Shown, Items, Entries, LabelPosition, EndLabels
    <3>6. Promise!Build
      BY <3>4, <3>5 DEF Promise!Build
    <3> QED
      BY <3>6 DEF Promise!Next
  <2> QED
    BY <2>1, <2>2
<1> QED
  BY <1>1, <1>2, <1>3, InvHolds, PTL DEF Spec, BuildsWhatIsShown, Promise!Spec
=============================================================================
