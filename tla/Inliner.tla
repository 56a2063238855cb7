------------------------------- MODULE Inliner -------------------------------
(***************************************************************************)
(* inline() of src/spasm/inliner.py: the body of a function in place of a  *)
(* call to it.  A behaviour takes one caller, splices its call sites, once *)
(* or more than once, and then runs the caller as it was and as it has     *)
(* become, to compare them.                                                *)
(*                                                                         *)
(* Every argument, name, label and value is a pair of a number and a       *)
(* string.  Names and labels of the source are <<Own, s>>, names of splice *)
(* number k are <<k, s>>, and its labels <<j, s>> if it is the j-th of all *)
(* applications.  A callable and the NULL that goes with it are one item   *)
(* of the stack; PRECALL and CALL are one instruction.                     *)
(***************************************************************************)
EXTENDS Integers, SequencesExt

CONSTANTS
    Programs,       \* callers, with their callees, globals and arguments
    MaxPasses,      \* applications of inline() to a caller
    MaxSteps        \* a run that takes longer is given up

Own == -1
Func(f) == <<1, f>>             \* the callee f, as a value
EXC == <<2, "exception">>       \* what the interpreter pushes for a handler
FALSY == <<0, "False">>

JumpOps == {"JUMP", "POP_JUMP_IF_FALSE"}
LocalOps == {"LOAD_FAST", "STORE_FAST", "DELETE_FAST"}
SimpleArgOps == {"LOAD_FAST", "LOAD_CONST"}

\* Fused instructions; their argument packs two indices into varnames.
PairedOps == {"LOAD_FAST_LOAD_FAST", "STORE_FAST_LOAD_FAST", "STORE_FAST_STORE_FAST"}
Halves(op) ==
    CASE op = "LOAD_FAST_LOAD_FAST" -> <<"LOAD_FAST", "LOAD_FAST">>
      [] op = "STORE_FAST_LOAD_FAST" -> <<"STORE_FAST", "LOAD_FAST">>
      [] op = "STORE_FAST_STORE_FAST" -> <<"STORE_FAST", "STORE_FAST">>
HalfNames(arg, varnames) == <<varnames[(arg[1] \div 16) + 1], varnames[(arg[1] % 16) + 1]>>
PairedArgOps == {"LOAD_FAST_LOAD_FAST"}

Ops == JumpOps \cup LocalOps \cup PairedOps \cup
       {"RESUME", "LOAD_CONST", "LOAD_GLOBAL", "CALL", "POP_TOP", "RETURN_VALUE", "RETURN_CONST"}

Instr(op, arg) == [op |-> op, arg |-> arg, labels |-> {}]
NoArg == <<0, "">>

Names == Int \X STRING
Instruction == [op : Ops, arg : Names, labels : SUBSET Names]

\* The labels that jumps go to, and those that bound protected regions.
Targets(code) == {code[k].arg : k \in {m \in DOMAIN code : code[m].op \in JumpOps}}
Bounds(exc) == UNION {{exc[e].start, exc[e].stop, exc[e].handler} : e \in DOMAIN exc}

\* Label l is attached to one instruction, or to the end.
Places(code, end, l) ==
    {k \in 1 .. Len(code) + 1 : l \in IF k \in DOMAIN code THEN code[k].labels ELSE end}
OnePlace(code, end, l) == \E k \in Places(code, end, l) : Places(code, end, l) = {k}

\* What from_code() returns: instructions with labels of its own.
IsCode(c) ==
    /\ c.instrs \in Seq(Instruction) /\ c.varnames \in Seq(Names)
    /\ \A k \in DOMAIN c.instrs : c.instrs[k].op \in PairedOps =>
          LET a == c.instrs[k].arg[1]
          IN  {(a \div 16) + 1, (a % 16) + 1} \subseteq DOMAIN c.varnames
    /\ \A k \in DOMAIN c.instrs : c.instrs[k].labels \subseteq {Own} \X STRING
    /\ Targets(c.instrs) \subseteq {Own} \X STRING

ASSUME ProgramAssumption == \A p \in Programs :
    /\ IsCode(p.caller)
    /\ p.caller.end_labels \cup Bounds(p.caller.exc) \subseteq {Own} \X STRING
    /\ \A f \in DOMAIN p.callees :
          LET c == p.callees[f]
          IN  /\ IsCode(c)
              /\ \A j, k \in DOMAIN c.varnames : c.varnames[j] = c.varnames[k] => j = k
              /\ c.argcount \in 0 .. Len(c.varnames)

\* from_code() attaches each label it hands out once.  A callee that is spliced has
\* no exception table and ends with a return, so its labels are at instructions; the
\* name "end" is kept for the label of a splice's end.
ASSUME LabelAssumption == \A p \in Programs :
    /\ \A l \in Targets(p.caller.instrs) \cup Bounds(p.caller.exc) :
          OnePlace(p.caller.instrs, p.caller.end_labels, l)
    /\ \A f \in DOMAIN p.callees :
          LET code == p.callees[f].instrs
          IN  /\ code # <<>> /\ code[Len(code)].op # "RESUME"
              /\ \A l \in Targets(code) : OnePlace(code, {}, l)
              /\ \A k \in DOMAIN code : <<Own, "end">> \notin code[k].labels
ASSUME EndAssumption == "end" \in STRING     \* true, and unknown to the provers
ASSUME BoundAssumption == MaxPasses \in Nat \ {0} /\ MaxSteps \in Nat

VARIABLES
    prog,         \* never changes
    phase,        \* "splice", then which of the two callers runs
    instrs,       \* the caller as inline() has found it
    i,            \* the instruction inline() is at
    new_instrs, pending_labels, splice_id,
    end_labels,   \* of the caller as it has become
    passes,       \* applications that are over
    splices,      \* splices of all applications
    frames,       \* of the run, the running one last
    raised,       \* an exception has been raised in the run of the original
    steps,
    outcome       \* of both runs

inlining == <<instrs, i, new_instrs, pending_labels, splice_id, end_labels, passes, splices>>
running == <<frames, raised, steps, outcome>>
vars == <<prog, phase, inlining, running>>

Init ==
    /\ prog \in Programs
    /\ phase = "splice"
    /\ instrs = prog.caller.instrs
    /\ i = 1
    /\ new_instrs = <<>> /\ pending_labels = {} /\ splice_id = 0
    /\ passes = 0 /\ splices = 0
    /\ end_labels = prog.caller.end_labels
    /\ frames = <<>> /\ raised = FALSE /\ steps = 0
    /\ outcome = <<>>

-----------------------------------------------------------------------------
(***************************************************************************)
(* Call sites.                                                             *)
(***************************************************************************)
\* What pushes each argument: an instruction, or none for half of a pair.
SourcesOf(x) == IF x.op \in PairedArgOps THEN <<{}, {}>> ELSE <<{x}>>
ArgSources(args) == FlattenSeq([k \in DOMAIN args |-> SourcesOf(args[k])])

\* Mutant: a jump into the pushes is overlooked.
AnyArgRun(args) ==
    \A k \in DOMAIN args : args[k].op \in SimpleArgOps \cup PairedArgOps

IsArgRun(args) ==
    \A k \in DOMAIN args :
        args[k].op \in SimpleArgOps \cup PairedArgOps /\ args[k].labels = {}

Between(s, e) == SubSeq(instrs, s + 1, e - 1)

\* The call that starts with the load at s ends with the CALL at e.
MatchCallSite(s, e) ==
    /\ instrs[s].op = "LOAD_GLOBAL" /\ instrs[s].arg[1] = 1
    /\ IsArgRun(Between(s, e))
    /\ instrs[e].op = "CALL" /\ instrs[e].labels = {}
    /\ instrs[e].arg[1] = Len(ArgSources(Between(s, e)))

\* _resolve_global(): the caller's globals, at the time inline() runs.
ResolveGlobal(name) == prog.globals[prog.caller.module][name]

IsFunc(value) == \E f \in DOMAIN prog.callees : value = Func(f)

\* The code of the call at i.
callee == prog.callees[ResolveGlobal(instrs[i].arg[2])[2]]

EligibleCallee(value, argcount) ==
    /\ IsFunc(value)
    /\ callee.plain              \* no generator, *args, closure, LOAD_FAST_AND_CLEAR; not the caller
    /\ ~ callee.exc              \* no exception table
    /\ callee.argcount = argcount

-----------------------------------------------------------------------------
(***************************************************************************)
(* _splice(): the callee's instructions for the call with arguments args.  *)
(***************************************************************************)
Param(k) == callee.varnames[k]
IsParam(v) == \E k \in 1 .. callee.argcount : Param(k) = v
IndexOf(v) == CHOOSE k \in DOMAIN callee.varnames : callee.varnames[k] = v

Renamed(v) == <<splice_id, v[2]>>
Mapped(l) == <<splices, l[2]>>
EndLabel == <<splices, "end">>

\* Mutant: fused stores are overlooked.
Overwrites(x, v) == x.op \in {"STORE_FAST", "DELETE_FAST"} /\ x.arg = v

Writes(x, v) ==
    \/ x.op \in {"STORE_FAST", "DELETE_FAST"} /\ x.arg = v
    \/ /\ x.op \in PairedOps
       /\ \E h \in 1 .. 2 : /\ Halves(x.op)[h] = "STORE_FAST"
                            /\ HalfNames(x.arg, callee.varnames)[h] = v

Reassigned(v) == \E k \in DOMAIN callee.instrs : Writes(callee.instrs[k], v)

\* A parameter that is only read, and is pushed by one instruction, is pushed
\* by a copy of that instruction wherever it is read.
Propagated(v, args) ==
    /\ IsParam(v)
    /\ ArgSources(args)[IndexOf(v)] # {}
    /\ ~ Reassigned(v)

LocalAccess(op, v, args) ==
    IF op = "LOAD_FAST" /\ Propagated(v, args)
    THEN LET source == CHOOSE x \in ArgSources(args)[IndexOf(v)] : TRUE
         IN  Instr(source.op, source.arg)
    ELSE Instr(op, Renamed(v))

Spliced(x, args) ==
    CASE x.op = "RESUME" -> <<>>
      [] x.op \in PairedOps ->
            [h \in 1 .. 2 |->
                LocalAccess(Halves(x.op)[h], HalfNames(x.arg, callee.varnames)[h], args)]
      [] x.op = "RETURN_CONST" -> <<Instr("LOAD_CONST", x.arg), Instr("JUMP", EndLabel)>>
      [] x.op = "RETURN_VALUE" -> <<Instr("JUMP", EndLabel)>>
      [] x.op \in LocalOps -> <<LocalAccess(x.op, x.arg, args)>>
      [] x.op \in JumpOps -> <<Instr(x.op, Mapped(x.arg))>>
      [] OTHER -> <<Instr(x.op, x.arg)>>

WithLabels(s, ls) == IF s = <<>> THEN s ELSE [s EXCEPT ![1].labels = @ \cup ls]

\* The labels of instruction k, and of the RESUMEs just before it.
LabelsFor(k) ==
    LET carried == {j \in 1 .. k : \A m \in j .. k - 1 : callee.instrs[m].op = "RESUME"}
    IN  {Mapped(l) : l \in UNION {callee.instrs[j].labels : j \in carried}}

Body(args) ==
    FlattenSeq([k \in DOMAIN callee.instrs |->
        WithLabels(Spliced(callee.instrs[k], args), LabelsFor(k))])

\* The first slot that argument push k fills.
Slot(args, k) == Len(ArgSources(SubSeq(args, 1, k - 1))) + 1

\* The pushes that are kept, and the stores that take them off the stack, the last
\* parameter's first.
KeptPushes(args) ==
    FlattenSeq([k \in DOMAIN args |->
        IF args[k].op \in PairedArgOps \/ ~ Propagated(Param(Slot(args, k)), args)
        THEN <<args[k]>> ELSE <<>>])

ArgStores(args) ==
    FlattenSeq([k \in 1 .. callee.argcount |->
        LET v == Param(callee.argcount + 1 - k)
        IN  IF Propagated(v, args) THEN <<>> ELSE <<Instr("STORE_FAST", Renamed(v))>>])

Splice(args) == KeptPushes(args) \o ArgStores(args) \o Body(args)

-----------------------------------------------------------------------------
(***************************************************************************)
(* The loop of inline().                                                   *)
(***************************************************************************)
IsSpliced(e) ==
    /\ MatchCallSite(i, e)
    /\ EligibleCallee(ResolveGlobal(instrs[i].arg[2]), instrs[e].arg[1])

KeepInstr ==
    /\ phase = "splice"
    /\ i \in DOMAIN instrs
    /\ ~ \E e \in i + 1 .. Len(instrs) : IsSpliced(e)
    /\ new_instrs' = Append(new_instrs, [instrs[i] EXCEPT !.labels = @ \cup pending_labels])
    /\ pending_labels' = {}
    /\ i' = i + 1
    /\ UNCHANGED <<prog, phase, instrs, splice_id, end_labels, passes, splices, running>>

\* Mutant: the labels of the dropped load are dropped with it.
HeadLabelsPending(s) == pending_labels

HeadLabels(s) == pending_labels \cup instrs[s].labels

SpliceCall ==
    /\ phase = "splice"
    /\ \E e \in i + 1 .. Len(instrs) :
          /\ IsSpliced(e)
          /\ new_instrs' = new_instrs \o WithLabels(Splice(Between(i, e)), HeadLabels(i))
          /\ i' = e + 1
    /\ pending_labels' = {EndLabel}
    /\ splice_id' = splice_id + 1 /\ splices' = splices + 1
    /\ UNCHANGED <<prog, phase, instrs, end_labels, passes, running>>

Frame(code, locals) == [code |-> code, pc |-> 1, stack |-> <<>>, locals |-> locals]

\* inline() is over: the labels that wait go to the end.
Inlined ==
    /\ phase = "splice"
    /\ i \notin DOMAIN instrs
    /\ end_labels' = pending_labels \cup end_labels
    /\ pending_labels' = {}
    /\ passes' = passes + 1

\* inline(inline(f)): the code goes through to_code() and from_code(), which
\* keep what it says (RoundTrip), and splices are numbered from 0 again.
Again ==
    /\ Inlined
    /\ passes + 1 < MaxPasses
    /\ instrs' = new_instrs /\ new_instrs' = <<>>
    /\ i' = 1 /\ splice_id' = 0
    /\ UNCHANGED <<prog, phase, splices, running>>

Compare ==
    /\ Inlined
    /\ phase' = "original"
    /\ frames' = <<Frame("original", prog.args)>>
    /\ UNCHANGED <<prog, instrs, i, new_instrs, splice_id, splices, raised, steps, outcome>>

-----------------------------------------------------------------------------
(***************************************************************************)
(* The interpreter.                                                        *)
(***************************************************************************)
InstrsOf(code) ==
    CASE code = "original" -> prog.caller.instrs
      [] code = "inlined" -> new_instrs
      [] OTHER -> prog.callees[code].instrs

FunctionOf(code) == IF code \in DOMAIN prog.callees THEN prog.callees[code] ELSE prog.caller
ModuleOf(code) == FunctionOf(code).module
VarnamesOf(code) == FunctionOf(code).varnames

PlaceOf(code, l) ==
    LET places == {k \in DOMAIN InstrsOf(code) : l \in InstrsOf(code)[k].labels}
    IN  IF places = {} THEN Len(InstrsOf(code)) + 1 ELSE CHOOSE k \in places : TRUE

top == frames[Len(frames)]
ins == InstrsOf(top.code)[top.pc]
Pop(s, n) == SubSeq(s, 1, Len(s) - n)

\* Local accesses: one, or the two halves of a pair.  A frame in which an
\* unbound local was read or deleted is marked.
AccessLocal(f, op, v) ==
    CASE op = "LOAD_FAST" ->
            IF v \in DOMAIN f.locals THEN [f EXCEPT !.stack = Append(@, f.locals[v])]
            ELSE [f EXCEPT !.pc = 0]
      [] op = "STORE_FAST" ->
            [f EXCEPT !.stack = Pop(@, 1), !.locals = (v :> Last(f.stack)) @@ @]
      [] op = "DELETE_FAST" ->
            IF v \in DOMAIN f.locals
            THEN [f EXCEPT !.locals = [x \in DOMAIN @ \ {v} |-> @[x]]]
            ELSE [f EXCEPT !.pc = 0]

AccessPair(f, op, arg) ==
    LET v == HalfNames(arg, VarnamesOf(f.code))
        g == AccessLocal(f, Halves(op)[1], v[1])
    IN  IF g.pc = 0 THEN g ELSE AccessLocal(g, Halves(op)[2], v[2])

Step(f, x) ==
    CASE x.op \in LocalOps -> AccessLocal(f, x.op, x.arg)
      [] x.op \in PairedOps -> AccessPair(f, x.op, x.arg)
      [] x.op = "LOAD_CONST" -> [f EXCEPT !.stack = Append(@, x.arg)]
      [] x.op = "LOAD_GLOBAL" ->
            [f EXCEPT !.stack = Append(@, prog.globals[ModuleOf(f.code)][x.arg[2]])]
      [] x.op = "POP_TOP" -> [f EXCEPT !.stack = Pop(@, 1)]
      [] x.op = "RESUME" -> f

Running == phase \in {"original", "inlined"} /\ steps < MaxSteps

Advance(f) == [frames EXCEPT ![Len(frames)] = f]

Execute ==
    /\ Running
    /\ ins.op \notin JumpOps \cup {"CALL", "RETURN_VALUE", "RETURN_CONST"}
    /\ LET f == Step(top, ins)
       IN  f.pc # 0 /\ frames' = Advance([f EXCEPT !.pc = @ + 1])
    /\ steps' = steps + 1
    /\ UNCHANGED <<prog, phase, inlining, raised, outcome>>

Jump ==
    /\ Running
    /\ ins.op \in JumpOps
    /\ LET taken == ins.op = "JUMP" \/ Last(top.stack) = FALSY
           rest == IF ins.op = "JUMP" THEN top.stack ELSE Pop(top.stack, 1)
       IN  frames' = Advance([top EXCEPT !.stack = rest,
                                !.pc = IF taken THEN PlaceOf(top.code, ins.arg) ELSE @ + 1])
    /\ steps' = steps + 1
    /\ UNCHANGED <<prog, phase, inlining, raised, outcome>>

Callable == top.stack[Len(top.stack) - ins.arg[1]]
Called == prog.callees[Callable[2]]
CanCall == IsFunc(Callable) /\ Called.argcount = ins.arg[1]

Call ==
    /\ Running
    /\ ins.op = "CALL"
    /\ CanCall
    /\ LET n == ins.arg[1]
           d == Len(top.stack)
           params == SubSeq(Called.varnames, 1, n)
           args == [v \in ToSet(params) |-> top.stack[d - n + SelectInSeq(params, LAMBDA x : x = v)]]
       IN  frames' = Append(Advance([top EXCEPT !.stack = Pop(@, n + 1)]), Frame(Callable[2], args))
    /\ steps' = steps + 1
    /\ UNCHANGED <<prog, phase, inlining, raised, outcome>>

\* The value ends the run, or goes to the frame that called.
NextRun ==
    IF phase = "original"
    THEN phase' = "inlined" /\ frames' = <<Frame("inlined", prog.args)>>
    ELSE phase' = "done" /\ frames' = <<>>

Return ==
    LET value == IF ins.op = "RETURN_CONST" THEN ins.arg ELSE Last(top.stack)
        caller == frames[Len(frames) - 1]
    IN  /\ Running
        /\ ins.op \in {"RETURN_VALUE", "RETURN_CONST"}
        /\ IF Len(frames) > 1
           THEN /\ frames' = Append(SubSeq(frames, 1, Len(frames) - 2),
                                    [caller EXCEPT !.stack = Append(@, value), !.pc = @ + 1])
                /\ steps' = steps + 1
                /\ UNCHANGED <<phase, outcome>>
           ELSE /\ NextRun
                /\ steps' = 0
                /\ outcome' = Append(outcome, <<"returned", value>>)
        /\ UNCHANGED <<prog, inlining, raised>>

\* An unbound local or a bad call: the caller's first entry that covers its
\* instruction takes over, or the run ends.
Faults == IF ins.op = "CALL" THEN ~ CanCall
          ELSE /\ ins.op \in LocalOps \cup PairedOps
               /\ Step(top, ins).pc = 0

Raise ==
    LET f == frames[1]
        covers(e) == f.pc \in PlaceOf(f.code, e.start) .. PlaceOf(f.code, e.stop) - 1
        handlers == SelectSeq(prog.caller.exc, covers)
        h == Head(handlers)
    IN  /\ Running
        /\ Faults
        /\ IF handlers # <<>>
           THEN /\ frames' = <<[f EXCEPT !.stack = Append(SubSeq(@, 1, h.depth), EXC),
                                         !.pc = PlaceOf(f.code, h.handler)]>>
                /\ steps' = steps + 1
                /\ UNCHANGED <<phase, outcome>>
           ELSE /\ NextRun
                /\ steps' = 0
                /\ outcome' = Append(outcome, <<"raised", EXC>>)
        /\ raised' = (raised \/ phase = "original")
        /\ UNCHANGED <<prog, inlining>>

GiveUp ==
    /\ phase \in {"original", "inlined"}
    /\ steps = MaxSteps
    /\ NextRun
    /\ steps' = 0
    /\ outcome' = Append(outcome, <<"endless", NoArg>>)
    /\ UNCHANGED <<prog, inlining, raised>>

Done == phase = "done" /\ UNCHANGED vars

Next ==
    \/ KeepInstr \/ SpliceCall \/ Again \/ Compare
    \/ Execute \/ Jump \/ Call \/ Return \/ Raise \/ GiveUp
    \/ Done

Spec == Init /\ [][Next]_vars

-----------------------------------------------------------------------------
(***************************************************************************)
(* Properties.                                                             *)
(***************************************************************************)
\* The values the variables hold.
TypeOK ==
    /\ phase \in {"splice", "original", "inlined", "done"}
    /\ i \in 1 .. Len(instrs) + 1
    /\ new_instrs \in Seq(Instruction)
    /\ splice_id \in 0 .. Len(instrs) /\ splice_id <= splices
    /\ passes \in 0 .. MaxPasses
    /\ \A k \in DOMAIN frames : /\ frames[k].pc \in 1 .. Len(InstrsOf(frames[k].code))
                                /\ frames[k].code \in {phase} \cup DOMAIN prog.callees
    /\ Len(frames) <= 1 + Cardinality(DOMAIN prog.callees)
    /\ steps \in 0 .. MaxSteps
    /\ \A k \in DOMAIN outcome : outcome[k][1] \in {"returned", "raised", "endless"}

\* "inline is a pure optimization: it never changes what a caller returns"
\* (README.md:303-305).
SameReturn ==
    phase = "done" /\ outcome[1][1] = "returned" => outcome[2] = outcome[1]

\* The same, for a caller that raises nothing on its way.
SameReturnUnlessRaised ==
    phase = "done" /\ outcome[1][1] = "returned" /\ ~ raised => outcome[2] = outcome[1]

\* Every jump and every boundary of a protected region still has the one place it
\* stands for, although the instructions that carried the label may be gone
\* (_splice()'s label_map, inline()'s pending_labels).
NoLabelLost ==
    phase # "splice" =>
        \A l \in Targets(new_instrs) \cup Bounds(prog.caller.exc) :
            OnePlace(new_instrs, end_labels, l)

=============================================================================
