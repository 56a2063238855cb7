----------------------------- MODULE StackDepth -----------------------------
(***************************************************************************)
(* compute_stacksize() of src/src/stackdepth.cpp: the least stack size of  *)
(* a label-based instruction list, and the depth of every exception table  *)
(* entry whose depth was left to be inferred.                              *)
(*                                                                         *)
(* The code keeps `worklist` as a vector used as a stack.  Here it is a    *)
(* set and drain() may take any member: what is shown holds for every      *)
(* order, the code's one included.  A repeated pair is dropped by the code *)
(* without effect (depth <= visited[idx]), so merging repeats loses        *)
(* nothing.                                                                *)
(*                                                                         *)
(* Instructions are numbered from 0, as in the code.  C ints wrap, as the  *)
(* extension is built with -fwrapv (the flags of the interpreter's own     *)
(* build); INT_MAX is a parameter, so that wrapping can be checked.        *)
(***************************************************************************)
EXTENDS Integers, FiniteSets

CONSTANTS
    Op,             \* opcodes
    JumpOps,        \* is_jump_opcode
    UncondJumpOps,  \* is_unconditional_jump
    ScopeExitOps,   \* is_scope_exit
    NeutralOps,     \* is_stackdepth_neutral
    POP_TOP,        \* POP_TOP_OPCODE
    Effect,         \* stack_effect(op), and stack_effect(op, jump=False)
    TakenEffect,    \* stack_effect(op, jump=True)
    Labels,         \* label ids
    RawInt,         \* an int argument, where a jump needs a label
    INT_MAX,        \* the largest C int
    Programs        \* the instruction lists and entries considered

ASSUME OpAssumption ==
    /\ JumpOps \subseteq Op /\ UncondJumpOps \subseteq JumpOps
    /\ ScopeExitOps \subseteq Op /\ NeutralOps \subseteq Op
    /\ Effect \in [Op -> Int] /\ TakenEffect \in [Op -> Int]
    /\ RawInt \notin Labels
    /\ INT_MAX \in Nat

EXC_DEPTH_AUTO == -1
INT_MIN == -INT_MAX - 1
UNVISITED == INT_MIN

\* The value a C int holds after an operation whose exact result is x.
Wrap(x) == IF x \in INT_MIN .. INT_MAX THEN x
           ELSE ((x - INT_MIN) % (INT_MAX - INT_MIN + 1)) + INT_MIN

\* The depths that neither wrap nor collide with the UNVISITED sentinel.
Depths == (INT_MIN + 1) .. INT_MAX

(***************************************************************************)
(* A program: n instructions, the labels that label_index_map() resolved   *)
(* (to an index, or to n for a label at the end), and the exception table. *)
(***************************************************************************)
Instr == [op : Op, arg : Labels \cup {RawInt}]
ExcEntryL == [start_lbl : Labels, stop_lbl : Labels, handler_lbl : Labels,
              depth : Int, lasti : {0, 1}]

IsProgram(p) ==
    /\ p.n \in Nat
    /\ p.instrs \in [0 .. p.n - 1 -> Instr]
    /\ p.resolves \subseteq Labels
    /\ p.label_idx \in [p.resolves -> 0 .. p.n]
    /\ p.m \in Nat
    /\ p.exc \in [1 .. p.m -> ExcEntryL]

ASSUME ProgramsAssumption == \A p \in Programs : IsProgram(p)

VARIABLES
    prog,        \* the arguments (never changes)
    phase,       \* where compute_stacksize() is; the reason, once it fails
    visited,     \* the depth each instruction was last explored with
    worklist,    \* pairs <<instruction, depth>> still to be explored
    maxdepth,
    exc_depth,   \* exc_labeled[i].depth
    candidate,   \* candidate[i], for the entries in candidate_done
    candidate_done,
    resolved,
    progress,
    overflowed   \* history: some depth wrapped, or met the sentinel

vars == <<prog, phase, visited, worklist, maxdepth, exc_depth, candidate,
          candidate_done, resolved, progress, overflowed>>

Failures == {"unresolved_label", "raw_int_jump", "no_effect", "unwind_only", "unreachable"}
Terminal == Failures \cup {"done"}

n == prog.n
Indices == 0 .. n - 1
Entries == 1 .. prog.m
op(i) == prog.instrs[i].op
arg(i) == prog.instrs[i].arg
Resolved(l) == l \in prog.resolves
Target(l) == prog.label_idx[l]
Max2(a, b) == IF a < b THEN b ELSE a

(***************************************************************************)
(* The edges <<successor, effect>> that ordinary control flow may take.    *)
(***************************************************************************)
JumpResolves(i) == arg(i) # RawInt /\ Resolved(arg(i))

AfterNeutral(i) == IF i + 1 < n /\ op(i + 1) = POP_TOP THEN i + 2 ELSE i + 1

TakenEdges(i) ==
    IF op(i) \in JumpOps /\ JumpResolves(i)
    THEN {<<Target(arg(i)), TakenEffect[op(i)]>>} ELSE {}

IsNeutral(i) == op(i) \in NeutralOps \ JumpOps
Ends(i) == op(i) \in UncondJumpOps \cup (ScopeExitOps \ (JumpOps \cup NeutralOps))

FallEdges(i) ==
    IF Ends(i) THEN {}
    ELSE IF IsNeutral(i) THEN {<<AfterNeutral(i), 0>>}
    ELSE {<<i + 1, Effect[op(i)]>>}

Edges(i) == TakenEdges(i) \cup FallEdges(i)

\* The depth (before wrapping) that drain() records in maxdepth after i.
DepthAfter(i, d) ==
    IF op(i) \in JumpOps THEN d + TakenEffect[op(i)]
    ELSE IF IsNeutral(i) THEN d
    ELSE d + Effect[op(i)]

-----------------------------------------------------------------------------
(***************************************************************************)
(* Seeding the worklist.                                                   *)
(***************************************************************************)
Explicit == {k \in Entries : prog.exc[k].depth # EXC_DEPTH_AUTO}

HandlerResolves(k) == Resolved(prog.exc[k].handler_lbl)
Handler(k) == Target(prog.exc[k].handler_lbl)
SeedDepth(k, d) == d + 1 + prog.exc[k].lasti

\* Mutant: the lasti the interpreter pushes is forgotten.
SeedsWithoutLasti(K, d) == {<<Handler(k), Wrap(d[k] + 1)>> : k \in K}

Seeds(K, d) == {<<Handler(k), Wrap(SeedDepth(k, d[k]))>> : k \in K}

StartResolves(k) == Resolved(prog.exc[k].start_lbl)
StopResolves(k) == Resolved(prog.exc[k].stop_lbl)
Start(k) == Target(prog.exc[k].start_lbl)
Stop(k) == Target(prog.exc[k].stop_lbl)
Region(k) == Start(k) .. Stop(k) - 1

\* Mutant: entries are seeded one by one, without waiting for their group.
FirstOfGroup(h) ==
    {k \in Entries \ resolved :
        /\ prog.exc[k].handler_lbl = h
        /\ \A j \in Entries \ resolved : prog.exc[j].handler_lbl = h => k <= j}

\* handler_groups: the entries that name the same handler label.
Group(h) == {k \in Entries : prog.exc[k].handler_lbl = h}

\* No entry of k's handler label protects an instruction or says a depth: what is
\* inferred for them is INT_MAX, and the depth their handler is seeded with wraps
\* to INT_MIN, the sentinel, or with lasti to the depth just above it.
NoRegion(k) ==
    \A j \in Group(prog.exc[k].handler_lbl) :
        j \notin Explicit /\ StartResolves(j) /\ StopResolves(j) /\ Region(j) = {}

\* The seeds that matter: nothing ever unwinds to a handler that has no region.
SeedsOverflow(K, d) == \E k \in K : ~ NoRegion(k) /\ SeedDepth(k, d[k]) \notin Depths

Init ==
    /\ prog \in Programs
    /\ phase = "start"
    /\ visited = [i \in 0 .. prog.n - 1 |-> UNVISITED]
    /\ worklist = {}
    /\ maxdepth = 0
    /\ exc_depth = [k \in 1 .. prog.m |-> prog.exc[k].depth]
    /\ candidate = [k \in 1 .. prog.m |-> 0]
    /\ candidate_done = {k \in 1 .. prog.m : prog.exc[k].depth # EXC_DEPTH_AUTO}
    /\ resolved = {k \in 1 .. prog.m : prog.exc[k].depth # EXC_DEPTH_AUTO}
    /\ progress = FALSE
    /\ overflowed = FALSE

\* Mutant: the function is taken to start with one value on its stack.
SeedExplicitAtOne ==
    /\ phase = "start"
    /\ \A k \in Explicit : HandlerResolves(k)
    /\ phase' = "drain"
    /\ worklist' = {<<0, 1>>} \cup Seeds(Explicit, exc_depth)
    /\ overflowed' = SeedsOverflow(Explicit, exc_depth)
    /\ UNCHANGED <<prog, visited, maxdepth, exc_depth, candidate,
                   candidate_done, resolved, progress>>

SeedExplicit ==
    /\ phase = "start"
    /\ \A k \in Explicit : HandlerResolves(k)
    /\ phase' = "drain"
    /\ worklist' = {<<0, 0>>} \cup Seeds(Explicit, exc_depth)
    /\ overflowed' = SeedsOverflow(Explicit, exc_depth)
    /\ UNCHANGED <<prog, visited, maxdepth, exc_depth, candidate,
                   candidate_done, resolved, progress>>

SeedExplicitFails ==
    /\ phase = "start"
    /\ \E k \in Explicit : ~ HandlerResolves(k)
    /\ phase' = "unresolved_label"
    /\ UNCHANGED <<prog, visited, worklist, maxdepth, exc_depth, candidate,
                   candidate_done, resolved, progress, overflowed>>

-----------------------------------------------------------------------------
(***************************************************************************)
(* drain(): take a pair off the worklist and explore it.                   *)
(***************************************************************************)
\* Mutant: a tie is explored again.
ImprovesOrTies(w) == w[2] >= visited[w[1]]

\* drain() explores w: its depth is above what its instruction was explored with.
Improves(w) == w[2] > visited[w[1]]

FallOffEnd(w) ==
    /\ w[1] >= n
    /\ maxdepth' = Max2(maxdepth, w[2])
    /\ worklist' = worklist \ {w}
    /\ UNCHANGED <<visited, phase, overflowed>>

\* Mutant: an instruction is explored once only.
DropVisited(w) ==
    /\ w[1] < n
    /\ visited[w[1]] # UNVISITED
    /\ worklist' = worklist \ {w}
    /\ UNCHANGED <<visited, maxdepth, phase, overflowed>>

DropStale(w) ==
    /\ w[1] < n
    /\ ~ Improves(w)
    /\ worklist' = worklist \ {w}
    /\ UNCHANGED <<visited, maxdepth, phase, overflowed>>

Visit(w) ==
    LET i == w[1]
        d == w[2]
    IN  /\ i < n
        /\ Improves(w)
        /\ op(i) \in JumpOps => JumpResolves(i)
        /\ visited' = [visited EXCEPT ![i] = d]
        /\ maxdepth' = Max2(Max2(maxdepth, d), Wrap(DepthAfter(i, d)))
        /\ worklist' = (worklist \ {w})
                         \cup {<<e[1], Wrap(d + e[2])>> : e \in Edges(i)}
        /\ overflowed' = (\/ overflowed
                          \/ DepthAfter(i, d) \notin Depths
                          \/ \E e \in Edges(i) : d + e[2] \notin Depths)
        /\ UNCHANGED phase

JumpFails(w) ==
    /\ w[1] < n
    /\ Improves(w)
    /\ op(w[1]) \in JumpOps
    /\ ~ JumpResolves(w[1])
    /\ phase' = IF arg(w[1]) = RawInt THEN "raw_int_jump" ELSE "unresolved_label"
    /\ UNCHANGED <<visited, maxdepth, worklist, overflowed>>

\* stack_effect() asks the interpreter, which may not know the opcode or its
\* argument, or be out of memory.
LookupFails(w) ==
    /\ w[1] < n
    /\ Improves(w)
    /\ ~ IsNeutral(w[1])
    /\ phase' = "no_effect"
    /\ UNCHANGED <<visited, maxdepth, worklist, overflowed>>

Explore(w) ==
    FallOffEnd(w) \/ DropStale(w) \/ Visit(w) \/ JumpFails(w) \/ LookupFails(w)

Drain ==
    /\ phase = "drain"
    /\ \E w \in worklist : Explore(w)
    /\ UNCHANGED <<prog, exc_depth, candidate, candidate_done, resolved, progress>>

\* The worklist is empty: stop, or try (again) to resolve the AUTO entries.
DrainDone ==
    /\ phase = "drain"
    /\ worklist = {}
    /\ phase' = IF resolved = Entries THEN "done" ELSE "candidates"
    /\ progress' = FALSE
    /\ UNCHANGED <<prog, visited, worklist, maxdepth, exc_depth, candidate,
                   candidate_done, resolved, overflowed>>

-----------------------------------------------------------------------------
(***************************************************************************)
(* Resolving the AUTO entries.                                             *)
(***************************************************************************)

\* The instructions ordinary control flow reaches from the function's entry:
\* the least set that holds 0 and is closed under Edges.
\* Mutant: scope exits and unconditional jumps do not end a path.
ReachableThroughExits == Indices

NormallyReachable ==
    {i \in Indices :
        \A S \in SUBSET (0 .. n) :
            (0 \in S /\ \A k \in S \cap Indices : \A e \in Edges(k) : e[1] \in S)
                => i \in S}

\* What normally_reachable[i] and visited[i] # UNVISITED may read.  A label at
\* the end of the code has index n, one past the end of both vectors.
ReadsReachable(i) == IF i < n THEN {i \in NormallyReachable} ELSE BOOLEAN
ReadsVisited(i) == IF i < n THEN {visited[i] # UNVISITED} ELSE BOOLEAN

\* Mutant: the depth at the start of the region, not the least one in it.
StartDepthOnly(k) == {visited[i] : i \in {Start(k)} \cap Indices} \cup {INT_MAX}

\* The depths candidate_for_entry() takes the minimum of.
RegionDepths(k) ==
    LET Inside == {i \in Region(k) : visited[i] # UNVISITED}
        Leaves(i) == i + 1 \notin Region(k)
        Jumps == {i \in Inside : op(i) \in JumpOps}
        Taken == {i \in Jumps : JumpResolves(i) => Target(arg(i)) \notin Region(k)}
        Fallen == {i \in Jumps : op(i) \notin UncondJumpOps /\ Leaves(i)}
        Others == {i \in Inside \ Jumps : op(i) \in ScopeExitOps \/ Leaves(i)}
    IN  {INT_MAX} \cup {visited[i] : i \in Inside}
          \cup {Wrap(visited[i] + TakenEffect[op(i)]) : i \in Taken}
          \cup {Wrap(visited[i] + Effect[op(i)]) : i \in Fallen \cup Others}

Least(S, x) == x \in S /\ \A y \in S : x <= y

Pending == Entries \ candidate_done

ResolveCandidate(k) ==
    /\ phase = "candidates"
    /\ k \in Pending
    /\ StartResolves(k) /\ StopResolves(k)
    /\ TRUE \in ReadsReachable(Start(k)) /\ TRUE \in ReadsVisited(Start(k))
    /\ \E c \in RegionDepths(k) :
          Least(RegionDepths(k), c) /\ candidate' = [candidate EXCEPT ![k] = c]
    /\ candidate_done' = candidate_done \cup {k}
    /\ progress' = TRUE
    /\ UNCHANGED <<prog, phase, visited, worklist, maxdepth, exc_depth, resolved,
                   overflowed>>

RejectEntry(k) ==
    /\ phase = "candidates"
    /\ k \in Pending
    /\ \/ /\ ~ StartResolves(k)
          /\ phase' = "unresolved_label"
       \/ /\ StartResolves(k)
          /\ FALSE \in ReadsReachable(Start(k))
          /\ phase' = "unwind_only"
       \/ /\ StartResolves(k) /\ ~ StopResolves(k)
          /\ TRUE \in ReadsReachable(Start(k)) /\ TRUE \in ReadsVisited(Start(k))
          /\ phase' = "unresolved_label"
       \* stack_effect() fails for an instruction of the region.
       \/ /\ StartResolves(k) /\ StopResolves(k)
          /\ TRUE \in ReadsReachable(Start(k)) /\ TRUE \in ReadsVisited(Start(k))
          /\ \E i \in Region(k) : visited[i] # UNVISITED
          /\ phase' = "no_effect"
    /\ UNCHANGED <<prog, visited, worklist, maxdepth, exc_depth, candidate,
                   candidate_done, resolved, progress, overflowed>>

CandidatesDone ==
    /\ phase = "candidates"
    /\ \A k \in Pending : /\ StartResolves(k)
                         /\ TRUE \in ReadsReachable(Start(k))
                         /\ FALSE \in ReadsVisited(Start(k))
    /\ phase' = "groups"
    /\ UNCHANGED <<prog, visited, worklist, maxdepth, exc_depth, candidate,
                   candidate_done, resolved, progress, overflowed>>

Ready(h) == Group(h) \subseteq candidate_done /\ ~ (Group(h) \subseteq resolved)

SeedGroup(h) ==
    LET depthOf(k) == IF k \in resolved THEN exc_depth[k] ELSE candidate[k]
        New == Group(h) \ resolved
    IN  /\ phase = "groups"
        /\ Ready(h)
        /\ \E d \in {depthOf(k) : k \in Group(h)} :
              /\ Least({depthOf(k) : k \in Group(h)}, d)
              /\ exc_depth' = [k \in Entries |-> IF k \in New THEN d ELSE exc_depth[k]]
        /\ IF Resolved(h)
           THEN /\ worklist' = worklist \cup Seeds(New, exc_depth')
                /\ overflowed' = (overflowed \/ SeedsOverflow(New, exc_depth'))
                /\ resolved' = resolved \cup New
                /\ progress' = TRUE
                /\ UNCHANGED phase
           ELSE /\ phase' = "unresolved_label"
                /\ UNCHANGED <<worklist, overflowed, resolved, progress>>
        /\ UNCHANGED <<prog, visited, maxdepth, candidate, candidate_done>>

RoundDone ==
    /\ phase = "groups"
    /\ \A h \in Labels : ~ Ready(h)
    /\ phase' = IF progress THEN "drain" ELSE "unreachable"
    /\ UNCHANGED <<prog, visited, worklist, maxdepth, exc_depth, candidate,
                   candidate_done, resolved, progress, overflowed>>

\* compute_stacksize() has returned.
Returned == phase \in Terminal /\ UNCHANGED vars

Next ==
    \/ SeedExplicit \/ SeedExplicitFails
    \/ Drain \/ DrainDone
    \/ \E k \in Entries : ResolveCandidate(k) \/ RejectEntry(k)
    \/ CandidatesDone
    \/ \E h \in Labels : SeedGroup(h)
    \/ RoundDone
    \/ Returned

Spec == Init /\ [][Next]_vars

\* One thread runs the function to its end: it always takes a next step.
FairSpec == Spec /\ WF_vars(Next)

-----------------------------------------------------------------------------
(***************************************************************************)
(* Properties.                                                             *)
(***************************************************************************)
TypeOK ==
    /\ prog \in Programs
    /\ phase \in {"start", "drain", "candidates", "groups"} \cup Terminal
    /\ visited \in [Indices -> Int]
    /\ worklist \subseteq (0 .. n) \X Int
    /\ maxdepth \in Int
    /\ exc_depth \in [Entries -> Int]
    /\ candidate \in [Entries -> Int]
    /\ candidate_done \subseteq Entries
    /\ resolved \subseteq candidate_done
    /\ progress \in BOOLEAN
    /\ overflowed \in BOOLEAN

\* Depth d at instruction j is provided for: explored, on the worklist, or,
\* past the end, counted in maxdepth.
Covered(j, d) ==
    \/ j < n /\ visited[j] # UNVISITED /\ d <= visited[j]
    \/ j >= n /\ d <= maxdepth
    \/ \E w \in worklist : w[1] = j /\ d <= w[2] /\ w[2] \in Depths

CoversEdges(i) ==
    visited[i] # UNVISITED =>
        /\ visited[i] <= maxdepth
        /\ DepthAfter(i, visited[i]) <= maxdepth
        /\ op(i) \in JumpOps => JumpResolves(i)
        /\ \A e \in Edges(i) : Covered(e[1], visited[i] + e[2])

CoversSeed(k) ==
    HandlerResolves(k) /\ Covered(Handler(k), SeedDepth(k, exc_depth[k]))

CoversSeeds ==
    phase \notin {"start"} \cup Failures =>
        /\ Covered(0, 0)
        /\ \A k \in resolved : ~ NoRegion(k) => CoversSeed(k)

\* At every moment of the computation no path is lost: unless a depth wrapped,
\* every edge out of an explored instruction and every seed is explored with at
\* least its depth or still on the worklist (stackdepth.cpp:77-83, 119-196).  A
\* handler whose entries protect nothing is seeded with a depth that has wrapped,
\* and no other path is lost for it (stackdepth.cpp:273).
WorklistCovers ==
    (phase \notin Failures /\ ~ overflowed)
        => CoversSeeds /\ \A i \in Indices : CoversEdges(i)

\* f bounds every depth by b: 0 and the handlers are given at least the seeds
\* they got, and f is closed under Edges (UNVISITED where f says nothing).
Gives(f, j, d) == f[j] # UNVISITED /\ d <= f[j]

BoundsSeeds(f) ==
    /\ Gives(f, 0, 0)
    /\ \A s \in Seeds(resolved, exc_depth) : s[2] # UNVISITED => Gives(f, s[1], s[2])

BoundsEdges(f, b) ==
    /\ \A i \in 0 .. n : f[i] # UNVISITED => f[i] <= b
    /\ \A i \in Indices : f[i] # UNVISITED =>
          /\ DepthAfter(i, f[i]) <= b
          /\ \A e \in Edges(i) : Gives(f, e[1], f[i] + e[2])

IsBound(f, b) == BoundsSeeds(f) /\ BoundsEdges(f, b)

\* The result is not an over-estimate: no assignment of depths closed under the
\* program's edges stays below it (the "fixed point" of stackdepth.cpp:80-83).
StackSizeIsLeast ==
    (phase = "done" /\ ~ overflowed /\ maxdepth > 0)
        => \A f \in [0 .. n -> INT_MIN .. maxdepth - 1] : ~ IsBound(f, maxdepth - 1)

\* Every AUTO entry that survives the normally_reachable test has a candidate
\* in the first round: the last error of compute_stacksize() (stackdepth.cpp:
\* 408-414) is only reached through the read past the end of visited.
UnreachableNeedsLabelAtEnd ==
    (phase = "unreachable" /\ ~ overflowed) => \E k \in Pending : Start(k) = n

\* compute_stacksize() returns, whatever the program and the order of the
\* worklist: each visit raises a depth, and depths are bounded.
Termination == <>(phase \in Terminal)

\* The program is balanced: every way into an instruction agrees on its depth,
\* which is never negative.
BalancedFlow ==
    \A i \in Indices : visited[i] # UNVISITED =>
        /\ visited[i] >= 0
        /\ \A e \in Edges(i) : e[1] < n => visited[e[1]] = visited[i] + e[2]

Balanced ==
    /\ BalancedFlow
    /\ \A k \in Entries : Handler(k) < n => visited[Handler(k)] = SeedDepth(k, exc_depth[k])

AutoEntries == Entries \ Explicit

\* No instruction of the region runs below the depth its handler unwinds to, so
\* that unwinding never pops values that are not there ("raises for the rest
\* rather than silently emitting a too-high depth", stackdepth.cpp:215-219).
AutoDepthFitsRegion ==
    (phase = "done" /\ ~ overflowed /\ Balanced)
        => \A k \in AutoEntries : \A i \in Region(k) :
              visited[i] # UNVISITED => exc_depth[k] <= visited[i]

\* Nor does any that ordinary control flow reaches, whatever the program: by the
\* time an entry's candidate is taken, drain() has explored all of those, and it
\* only raises depths afterwards (stackdepth.cpp:215-219, 237-256, 365).  The
\* instructions only unwinding reaches are the ones a candidate may come too early for.
AutoDepthFitsReached ==
    (phase = "done" /\ ~ overflowed)
        => \A k \in AutoEntries : \A i \in Region(k) \cap NormallyReachable :
              exc_depth[k] <= visited[i]

\* Entries that name the same handler label start it at the same depth, the least
\* any of them was given or inferred (stackdepth.cpp:229-235, 320-324, 374-388).
\* Two labels at one instruction are two handlers to the code.
SharedHandlerAgrees ==
    phase = "done" =>
        \A k \in AutoEntries, j \in Entries :
            prog.exc[j].handler_lbl = prog.exc[k].handler_lbl =>
                /\ exc_depth[k] <= exc_depth[j]
                /\ j \in AutoEntries => exc_depth[k] = exc_depth[j]

=============================================================================
