------------------------------ MODULE Assembler ------------------------------
(***************************************************************************)
(* src/spasm/_asm.py: Assembly.parse(), which reads a source line by line  *)
(* into blocks, and bind(), which makes a Bytecode of the outermost block. *)
(*                                                                         *)
(* All blocks share one iterator over the lines: a "code" header hands it  *)
(* to a new Assembly, which stops at its own "end".  An Assembly is known  *)
(* by its place among all there are; those being read are a stack here.  A *)
(* line is what the _parse_* methods find in it; comments and blank lines  *)
(* are dropped (471-475), and Python has an exception table (PY311).       *)
(* Arguments are of the kind that their opcode takes.                      *)
(***************************************************************************)
EXTENDS Integers, SequencesExt

CONSTANTS
    Line,      \* lines of a source
    Sources    \* the sources considered, and the beginnings of each

\* of is the label, the handler, the block or the argument that a line names; an
\* instruction's by says what kind of argument it is, and ends that control does
\* not go from it to the next one.
ASSUME AssemblerAssumption ==
    \A l \in Line :
        \/ l.kind \in {"label", "tried", "end"}
        \/ l.kind = "try" /\ l.lasti \in BOOLEAN
        \/ l.kind = "instr" /\ l.by \in {"nothing", "label", "bind", "code"} /\ l.ends \in BOOLEAN
        \/ l.kind = "code" /\ \A f \in {"args", "cellvars", "freevars"} : l[f] \subseteq STRING

VARIABLES
    read,     \* the lines read so far
    ended,    \* the lines are used up
    blocks,   \* the Assemblies there are, in the order of their headers
    nesting,  \* those being read, the innermost last
    outcome,  \* "reading", the exception raised, "parsed" or "bound"
    bound     \* what bind() was given last, what it met, and the code it made

vars == <<read, ended, blocks, nesting, outcome, bound>>

Assembly(header) ==
    [header |-> header, labels |-> <<>>, ref_labels |-> {}, exc_entries |-> <<>>,
     tb |-> <<>>, instrs |-> <<>>, codes |-> <<>>]
Module == [kind |-> "code", of |-> "<module>", args |-> {}, cellvars |-> {}, freevars |-> {}]

NoCode == [made |-> FALSE]
NoBind == [args |-> {}, lucky |-> {}, code |-> NoCode]

Init ==
    /\ read = <<>> /\ ended = FALSE
    /\ blocks = <<Assembly(Module)>> /\ nesting = <<1>>
    /\ outcome = "reading"
    /\ bound = NoBind

-----------------------------------------------------------------------------
(***************************************************************************)
(* Reading.                                                                *)
(***************************************************************************)
self == blocks[Last(nesting)]
Update(b) == blocks' = [blocks EXCEPT ![Last(nesting)] = b] /\ UNCHANGED nesting

Reads(l, kind) ==
    /\ outcome = "reading"
    /\ l.kind = kind
    /\ Append(read, l) \in Sources
    /\ read' = Append(read, l)
    /\ UNCHANGED <<ended, bound>>

Proceed == UNCHANGED outcome
Raise(e) == outcome' = e /\ UNCHANGED <<blocks, nesting>>

Idents(b) == {b.labels[k].ident : k \in DOMAIN b.labels}

\* _parse_label_ref()
Referring(b, ident) == IF ident \in Idents(b) THEN b ELSE [b EXCEPT !.ref_labels = @ \cup {ident}]

Define(b, ident) ==
    [b EXCEPT !.labels = Append(@, [ident |-> ident, index |-> Len(b.instrs)]),
              !.ref_labels = @ \ {ident}]

ParseLabel(l) ==
    /\ Reads(l, "label")
    /\ IF l.of \in Idents(self)
       THEN Raise("SpasmParseError")
       ELSE Update(Define(self, l.of)) /\ Proceed

ParseTryBegin(l) ==
    /\ Reads(l, "try")
    /\ IF self.tb # <<>>
       THEN Raise("SpasmParseError")
       ELSE /\ Update([Referring(self, l.of) EXCEPT
                          !.tb = <<[handler |-> l.of, start |-> Len(self.instrs), lasti |-> l.lasti]>>])
            /\ Proceed

ParseTryEnd(l) ==
    /\ Reads(l, "tried")
    /\ IF self.tb = <<>>
       THEN Raise("SpasmParseError")
       ELSE /\ Update([self EXCEPT
                          !.exc_entries = Append(@, [start |-> self.tb[1].start, stop |-> Len(self.instrs),
                                                     handler |-> self.tb[1].handler,
                                                     lasti |-> self.tb[1].lasti]),
                          !.tb = <<>>])
            /\ Proceed

\* An instruction; its line number is where it stands.
ParseInstruction(l) ==
    /\ Reads(l, "instr")
    /\ LET b == IF l.by = "label" THEN Referring(self, l.of) ELSE self
       IN  Update([b EXCEPT !.instrs = Append(@, [by |-> l.by, of |-> l.of, ends |-> l.ends,
                                                  lineno |-> Len(read')])])
    /\ Proceed

WithCode(b, name, k) ==
    [b EXCEPT !.codes = [c \in DOMAIN b.codes \cup {name} |-> IF c = name THEN k ELSE b.codes[c]]]

\* "code": a new block is one of the codes of the block that it is in, and from
\* here on the lines are its own.
CodeBegin(l) ==
    /\ Reads(l, "code")
    /\ IF l.of \in DOMAIN self.codes
       THEN Raise("ValueError")
       ELSE /\ blocks' = Append([blocks EXCEPT ![Last(nesting)] = WithCode(self, l.of, Len(blocks) + 1)],
                                Assembly(l))
            /\ nesting' = Append(nesting, Len(blocks) + 1)
            /\ Proceed

\* Mutant: an open try block is let pass.
ValidLabels(b) ==
    /\ b.ref_labels = {}
    /\ b.header.cellvars \cap b.header.freevars = {}
    /\ b.header.freevars \cap b.header.args = {}

\* _validate()
Valid(b) ==
    /\ b.ref_labels = {}
    /\ b.tb = <<>>
    /\ b.header.cellvars \cap b.header.freevars = {}
    /\ b.header.freevars \cap b.header.args = {}

\* "end"
CodeEnd(l) ==
    /\ Reads(l, "end")
    /\ IF Len(nesting) = 1 \/ ~ Valid(self)
       THEN Raise("ValueError")
       ELSE nesting' = Front(nesting) /\ UNCHANGED blocks /\ Proceed

EndOfLines ==
    /\ outcome = "reading"
    /\ ended' = TRUE
    /\ outcome' = IF Len(nesting) = 1 /\ Valid(self) THEN "parsed" ELSE "ValueError"
    /\ UNCHANGED <<read, blocks, nesting, bound>>

-----------------------------------------------------------------------------
(***************************************************************************)
(* Binding.  Code blocks are bound along with the block that they are in,  *)
(* provided that it refers to one of them.                                 *)
(***************************************************************************)
Names(b, by) == {b.instrs[k].of : k \in {j \in DOMAIN b.instrs : b.instrs[j].by = by}}

\* The labels that _materialise() makes: those that have a name, and two for
\* each protected region; and the places they stand for.
LabelIds(b) ==
    ({"label"} \X DOMAIN b.labels) \cup ({"start", "stop"} \X DOMAIN b.exc_entries)

Position(b, id) ==
    CASE id[1] = "label" -> b.labels[id[2]].index
      [] id[1] = "start" -> b.exc_entries[id[2]].start
      [] id[1] = "stop" -> b.exc_entries[id[2]].stop

\* Mutant: labels at the end go with the last instruction.
AttachedClipped(b, index) ==
    {id \in LabelIds(b) : Min({Position(b, id), Len(b.instrs) - 1}) = index}

Attached(b, index) == {id \in LabelIds(b) : Position(b, id) = index}

LabelOf(b, ident) == <<"label", SelectInSeq(b.labels, LAMBDA l : l.ident = ident)>>

\* The Bytecode of b, codes being the code objects of its blocks.
Materialise(b, codes) ==
    LET arg(i) ==
            CASE i.by = "label" -> LabelOf(b, i.of)
              [] i.by = "code" -> codes[i.of]
              [] OTHER -> i.of
    IN  [made |-> TRUE,
         instrs |-> [k \in DOMAIN b.instrs |->
                        [by |-> b.instrs[k].by, arg |-> arg(b.instrs[k]),
                         lineno |-> b.instrs[k].lineno, labels |-> Attached(b, k - 1)]],
         end_labels |-> Attached(b, Len(b.instrs)),
         exc_entries |-> [k \in DOMAIN b.exc_entries |->
                            [start |-> <<"start", k>>, stop |-> <<"stop", k>>,
                             handler |-> LabelOf(b, b.exc_entries[k].handler),
                             lasti |-> b.exc_entries[k].lasti]],
         header |-> b.header]

\* The instructions that ordinary control flow reaches: the least set that holds
\* the first and is closed under jumps and steps.
Flows(b, S) ==
    /\ 0 \in S
    /\ \A k \in DOMAIN b.instrs : k - 1 \in S =>
          /\ b.instrs[k].by = "label" => Position(b, LabelOf(b, b.instrs[k].of)) \in S
          /\ ~ b.instrs[k].ends => k \in S

\* Mutant: paths do not end.
ReachableThroughEnds(b) == 0 .. Len(b.instrs) - 1

Reachable(b) ==
    {k \in 0 .. Len(b.instrs) - 1 : \A S \in SUBSET (0 .. Len(b.instrs)) : Flows(b, S) => k \in S}

\* to_code() infers the depth of every region, and raises over one whose first
\* instruction is not reached (stackdepth.cpp:346-354).  It reads past the end of
\* what it knows where no instruction follows; b is lucky if it raises no error.
Refused(b, lucky) ==
    LET here == Reachable(b) \cup (IF lucky THEN {Len(b.instrs)} ELSE {})
    IN  \E k \in DOMAIN b.exc_entries : b.exc_entries[k].start \notin here

Missing(b, args) == Names(b, "bind") \ args

\* bind(args), and what it takes: the code objects of the codes of b, if it refers
\* to any; NoCode if it raises.
CodesOf(b, code) ==
    IF Names(b, "code") = {} THEN <<>> ELSE [c \in DOMAIN b.codes |-> code[b.codes[c]]]

Bytecode(b, codes, args) ==
    IF \/ Missing(b, args) # {}
       \/ \E c \in DOMAIN codes : codes[c] = NoCode
       \/ ~ Names(b, "code") \subseteq DOMAIN codes
    THEN NoCode
    ELSE Materialise(b, codes)

\* compile(args): all blocks but the outermost are assembled too.
Compiled(k, code, args, lucky) ==
    IF k # 1 /\ Refused(blocks[k], k \in lucky)
    THEN NoCode
    ELSE Bytecode(blocks[k], CodesOf(blocks[k], code), args)

Compile(args, lucky) ==
    LET code[k \in DOMAIN blocks] == Compiled(k, code, args, lucky)
    IN  code[1]

BindArgs == {l.of : l \in {x \in Line : x.kind = "instr" /\ x.by = "bind"}}

\* The blocks with a region at their end.
Dangling ==
    {k \in DOMAIN blocks \ {1} :
        \E j \in DOMAIN blocks[k].exc_entries : blocks[k].exc_entries[j].start = Len(blocks[k].instrs)}

Bind(args) ==
    /\ outcome \in {"parsed", "bound"}
    /\ \E lucky \in SUBSET Dangling :
          bound' = [args |-> args, lucky |-> lucky, code |-> Compile(args, lucky)]
    /\ outcome' = "bound"
    /\ UNCHANGED <<read, ended, blocks, nesting>>

Next ==
    \/ \E l \in Line :
          \/ ParseLabel(l) \/ ParseTryBegin(l) \/ ParseTryEnd(l)
          \/ ParseInstruction(l) \/ CodeBegin(l) \/ CodeEnd(l)
    \/ EndOfLines
    \/ \E args \in SUBSET BindArgs : Bind(args)

Spec == Init /\ [][Next]_vars

-----------------------------------------------------------------------------
(***************************************************************************)
(* The grammar (_asm.py:8-24), said of a source as a whole: a block is     *)
(* known by the line that its header is on, the module by 0.               *)
(***************************************************************************)
Lines(kind) == {i \in DOMAIN read : read[i].kind = kind}
Depth(i) == Cardinality({j \in Lines("code") : j <= i}) - Cardinality({j \in Lines("end") : j <= i})

\* The block that line i is in: the last one begun before it that is still open.
Owner(i) ==
    Max({0} \cup {b \in Lines("code") : b < i /\ \A k \in b .. i - 1 : Depth(k) >= Depth(b)})
Own(b, kind) == {i \in Lines(kind) : Owner(i) = b}
Instrs(b, by) == {i \in Own(b, "instr") : read[i].by = by}
Before(b, kind, i) == Cardinality({j \in Own(b, kind) : j < i})
Open(b, i) ==
    Cardinality({j \in Own(b, "try") : j <= i}) - Cardinality({j \in Own(b, "tried") : j <= i})
Header(b) == IF b = 0 THEN Module ELSE read[b]

Blocks == {0} \cup Lines("code")
Named(S) == {read[i].of : i \in S}
Repeats(S) == Cardinality(Named(S)) < Cardinality(S)

Flawed(b) ==
    \/ Repeats(Own(b, "label")) \/ Repeats(Own(b, "code"))
    \/ \E i \in DOMAIN read : Open(b, i) \notin {0, 1}

Unfinished(b) ==
    \/ ~ Named(Instrs(b, "label") \cup Own(b, "try")) \subseteq Named(Own(b, "label"))
    \/ Open(b, Len(read)) # 0
    \/ Header(b).freevars \cap (Header(b).cellvars \cup Header(b).args) # {}

Hopeless ==
    \/ \E i \in DOMAIN read : Depth(i) < 0
    \/ \E b \in Blocks : Flawed(b) \/ (Own(b, "end") # {} /\ Unfinished(b))

Complete == Depth(Len(read)) = 0 /\ ~ Unfinished(0)

-----------------------------------------------------------------------------
(***************************************************************************)
(* Properties.                                                             *)
(***************************************************************************)
\* parse() raises at the first line that breaks the grammar, the end of a block
\* being the line that breaks it when the block lacks something or its header is
\* at odds with itself, and at the end of a source that stops too early; and it
\* accepts every other: a label, a try block or a code block that is left open is
\* not carried into the block around it, nor into the one inside
\* (_asm.py:395-415, 417-468).
AcceptsTheGrammar ==
    CASE outcome = "reading" -> ~ Hopeless
      [] outcome \in {"parsed", "bound"} -> ~ Hopeless /\ Complete
      [] OTHER -> Hopeless \/ (ended /\ ~ Complete)

\* Where the label with this id is in a Bytecode.
Places(m, id) ==
    {k - 1 : k \in {j \in DOMAIN m.instrs : id \in m.instrs[j].labels}}
      \cup {k \in {Len(m.instrs)} : id \in m.end_labels}

LineOf(b, kind, name) == CHOOSE i \in Own(b, kind) : read[i].of = name
Place(b, i) == Before(b, "instr", i)
LabelPlace(b, name) == Place(b, LineOf(b, "label", name))

\* The code objects of the blocks that bind() went through.
CodeOf[b \in Blocks] ==
    IF b = 0 THEN bound.code
    ELSE LET outer == CodeOf[Owner(b)]
             at == {k \in DOMAIN outer.instrs :
                        outer.instrs[k].by = "code" /\ read[outer.instrs[k].lineno].of = read[b].of}
         IN  IF ~ outer.made \/ at = {} THEN NoCode ELSE outer.instrs[Min(at)].arg

InstrsAreLines(m, b) ==
    /\ Len(m.instrs) = Cardinality(Own(b, "instr"))
    /\ \A i \in Own(b, "instr") :
          LET x == m.instrs[Place(b, i) + 1]
          IN  /\ x.lineno = i /\ x.by = read[i].by
              /\ CASE x.by = "label" -> Places(m, x.arg) = {LabelPlace(b, read[i].of)}
                   [] x.by = "code" -> x.arg = CodeOf[LineOf(b, "code", read[i].of)]
                   [] OTHER -> x.arg = read[i].of

RegionsAreTries(m, b) ==
    /\ Len(m.exc_entries) = Cardinality(Own(b, "try"))
    /\ Len(m.exc_entries) = Cardinality(Own(b, "tried"))
    /\ \A i \in Own(b, "try"), j \in Own(b, "tried") :
          Before(b, "try", i) = Before(b, "tried", j) =>
              LET e == m.exc_entries[Before(b, "try", i) + 1]
              IN  /\ Places(m, e.start) = {Place(b, i)}
                  /\ Places(m, e.stop) = {Place(b, j)}
                  /\ Places(m, e.handler) = {LabelPlace(b, read[i].of)}
                  /\ e.lasti = read[i].lasti

\* Each Bytecode has the instructions of its block's own lines, in order; a
\* jump goes to the instruction after the line of its label, in its own block,
\* and a block that is named is that of its own blocks; and the protected
\* regions are the instructions between each try and its tried
\* (_asm.py:200-270, 512-566).
CodeIsTheSource ==
    bound.code.made => \A b \in Blocks : CodeOf[b].made =>
        /\ CodeOf[b].header = Header(b)
        /\ InstrsAreLines(CodeOf[b], b)
        /\ RegionsAreTries(CodeOf[b], b)

\* A block is bound if the blocks around it refer to some block of theirs each.
Reached(b) ==
    \A c \in Blocks : c # 0 /\ c <= b /\ (\A k \in c .. b : Depth(k) >= Depth(c)) =>
        Instrs(Owner(c), "code") # {}

Given(b) ==
    /\ Named(Instrs(b, "bind")) \subseteq bound.args
    /\ Named(Instrs(b, "code")) \subseteq Named(Own(b, "code"))

\* Where control gets to from the first instruction of b, without unwinding.
Leads(b, S) ==
    /\ 0 \in S
    /\ \A i \in Own(b, "instr") : Place(b, i) \in S =>
          /\ read[i].by = "label" => LabelPlace(b, read[i].of) \in S
          /\ ~ read[i].ends => Place(b, i) + 1 \in S

Length(b) == Cardinality(Own(b, "instr"))
Walked(b) == {p \in 0 .. Length(b) - 1 : \A S \in SUBSET (0 .. Length(b)) : Leads(b, S) => p \in S}

Entered(b) == \A i \in Own(b, "try") : Place(b, i) \in Walked(b)
Enterable(b) == \A i \in Own(b, "try") : Place(b, i) \in Walked(b) \cup {Length(b)}

\* bind() succeeds if every block it goes through is given its arguments, has the
\* blocks it refers to and, unless it is the outermost, which is not assembled, is
\* entered from its start wherever it protects something; and it raises if one of
\* them is not, except that a region at the very end of a block may pass for
\* entered.  Labels are never missing by then, as parse() has seen to
\* (_asm.py:568-597, stackdepth.cpp:346-354).
BindsWhatIsGiven ==
    outcome = "bound" =>
        /\ bound.code.made =>
              \A b \in Blocks : Reached(b) => Given(b) /\ (b # 0 => Enterable(b))
        /\ (\A b \in Blocks : Reached(b) => Given(b) /\ (b # 0 => Entered(b))) =>
              bound.code.made

=============================================================================
