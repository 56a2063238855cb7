-------------------------- MODULE StackDepth_proofs --------------------------
(***************************************************************************)
(* Proofs about compute_stacksize(), and about the executions of what it   *)
(* computed, for every program.                                            *)
(***************************************************************************)
EXTENDS StackExec, TLAPS

LEMMA WrapType == ASSUME NEW x \in Int PROVE Wrap(x) \in Int
BY OpAssumption DEF Wrap, INT_MIN

LEMMA WrapInDepths == ASSUME NEW x \in Depths PROVE Wrap(x) = x
BY OpAssumption DEF Wrap, Depths, INT_MIN

\* The values a C int can hold: the depths, and the sentinel.
CInts == INT_MIN .. INT_MAX

LEMMA WrapInCInts == ASSUME NEW x \in Int PROVE Wrap(x) \in CInts
BY OpAssumption DEF Wrap, CInts, INT_MIN

LEMMA Max2Type ==
    ASSUME NEW a \in Int, NEW b \in Int
    PROVE  Max2(a, b) \in Int /\ a <= Max2(a, b) /\ b <= Max2(a, b)
BY DEF Max2

LEMMA ProgramFacts ==
    ASSUME TypeOK
    PROVE  /\ n \in Nat /\ prog.m \in Nat
           /\ prog.resolves \subseteq Labels
           /\ prog.label_idx \in [prog.resolves -> 0 .. n]
           /\ \A i \in Indices : op(i) \in Op /\ arg(i) \in Labels \cup {RawInt}
           /\ \A k \in Entries : prog.exc[k] \in ExcEntryL
BY ProgramsAssumption DEF TypeOK, IsProgram, n, Indices, op, arg, Entries, Instr

LEMMA EdgeType ==
    ASSUME TypeOK, NEW i \in Indices, NEW e \in Edges(i)
    PROVE  e = <<e[1], e[2]>> /\ e[1] \in 0 .. n /\ e[2] \in Int
<1> USE ProgramFacts, OpAssumption
<1>1. CASE e \in TakenEdges(i)
  BY <1>1 DEF TakenEdges, JumpResolves, Resolved, Target
<1>2. CASE e \in FallEdges(i)
  <2>1. i + 1 \in 0 .. n
    BY DEF Indices
  <2>2. AfterNeutral(i) \in 0 .. n
    BY DEF Indices, AfterNeutral
  <2> QED BY <1>2, <2>1, <2>2 DEF FallEdges
<1> QED BY <1>1, <1>2 DEF Edges

LEMMA DepthAfterType ==
    ASSUME TypeOK, NEW i \in Indices, NEW d \in Int
    PROVE  DepthAfter(i, d) \in Int
BY ProgramFacts, OpAssumption DEF DepthAfter

LEMMA SeedDepthType ==
    ASSUME TypeOK, NEW k \in Entries, NEW d \in Int
    PROVE  SeedDepth(k, d) \in Int
BY ProgramFacts DEF SeedDepth, ExcEntryL

LEMMA SeedsType ==
    ASSUME TypeOK, NEW K \in SUBSET Entries, NEW d \in [Entries -> Int],
           \A k \in K : HandlerResolves(k)
    PROVE  Seeds(K, d) \subseteq (0 .. n) \X Int
<1> SUFFICES ASSUME NEW k \in K
             PROVE  <<Handler(k), Wrap(SeedDepth(k, d[k]))>> \in (0 .. n) \X Int
  BY DEF Seeds
<1>1. Handler(k) \in 0 .. n
  BY ProgramFacts DEF Handler, HandlerResolves, Resolved, Target
<1>2. Wrap(SeedDepth(k, d[k])) \in Int
  BY SeedDepthType, WrapType
<1> QED BY <1>1, <1>2

-----------------------------------------------------------------------------
LEMMA InitType == Init => TypeOK
<1> SUFFICES ASSUME Init PROVE TypeOK
  OBVIOUS
<1>1. IsProgram(prog)
  BY ProgramsAssumption DEF Init
<1>2. \A k \in 1 .. prog.m : prog.exc[k].depth \in Int
  BY <1>1 DEF IsProgram, ExcEntryL
<1>3. visited \in [Indices -> Int]
  BY OpAssumption DEF Init, n, Indices, UNVISITED, INT_MIN
<1>4. exc_depth \in [Entries -> Int] /\ candidate \in [Entries -> Int]
  BY <1>2 DEF Init, Entries
<1>5. candidate_done \subseteq Entries /\ resolved \subseteq candidate_done
  BY DEF Init, Entries
<1>6. maxdepth \in Int /\ worklist \subseteq (0 .. n) \X Int
  BY SMT DEF Init
<1>7. progress \in BOOLEAN /\ overflowed \in BOOLEAN
  BY Zenon DEF Init
<1>8. prog \in Programs /\ phase \in {"start", "drain", "candidates", "groups"}
  BY DEF Init
<1> QED
  BY <1>3, <1>4, <1>5, <1>6, <1>7, <1>8, Zenon DEF TypeOK

LEMMA ExploredType ==
    ASSUME TypeOK, phase = "drain", NEW w \in worklist,
           Explore(w)
    PROVE  /\ visited' \in [Indices -> Int]
           /\ worklist' \subseteq (0 .. n) \X Int
           /\ maxdepth' \in Int
           /\ overflowed' \in BOOLEAN
           /\ phase' \in {"drain", "raw_int_jump", "unresolved_label", "no_effect"}
<1>0. w = <<w[1], w[2]>> /\ w[1] \in 0 .. n /\ w[2] \in Int
  BY DEF TypeOK
<1>1. CASE FallOffEnd(w)
  BY <1>0, <1>1 DEF FallOffEnd, TypeOK, Max2
<1>2. CASE DropStale(w)
  BY <1>2 DEF Improves, DropStale, TypeOK
<1>3. CASE Visit(w)
  <2>0. w[1] \in Indices
    BY <1>0, <1>3, ProgramFacts DEF Improves, Visit, Indices
  <2>1. visited' \in [Indices -> Int]
    BY <1>0, <1>3, <2>0 DEF Improves, Visit, TypeOK
  <2>2. \A e \in Edges(w[1]) : <<e[1], Wrap(w[2] + e[2])>> \in (0 .. n) \X Int
    <3> TAKE e \in Edges(w[1])
    <3>1. e[1] \in 0 .. n /\ e[2] \in Int
      BY <2>0, EdgeType
    <3> QED BY <3>1, <1>0, WrapType
  <2>3. worklist' \subseteq (0 .. n) \X Int
    BY <1>3, <2>2 DEF Improves, Visit, TypeOK
  <2>4. Wrap(DepthAfter(w[1], w[2])) \in Int
    BY <1>0, <2>0, DepthAfterType, WrapType
  <2>5. maxdepth' \in Int
    BY <1>0, <1>3, <2>4, Max2Type DEF Improves, Visit, TypeOK
  <2> QED BY <1>3, <2>1, <2>3, <2>5 DEF Improves, Visit
<1>4. CASE JumpFails(w) \/ LookupFails(w)
  BY <1>4 DEF JumpFails, LookupFails, TypeOK
<1> QED BY <1>1, <1>2, <1>3, <1>4 DEF Explore

LEMMA RegionDepthsType ==
    ASSUME TypeOK, NEW k \in Entries, StartResolves(k), StopResolves(k)
    PROVE  RegionDepths(k) \subseteq Int
<1>1. Region(k) \subseteq Indices
  BY ProgramFacts DEF Region, Start, Stop, StartResolves, StopResolves,
                      Resolved, Target, Indices
<1>2. \A i \in Region(k) : visited[i] \in Int /\ op(i) \in Op
  BY <1>1, ProgramFacts DEF TypeOK
<1>3. \A i \in Region(k) : /\ Wrap(visited[i] + TakenEffect[op(i)]) \in Int
                           /\ Wrap(visited[i] + Effect[op(i)]) \in Int
  BY <1>2, WrapType, OpAssumption
<1> QED BY <1>2, <1>3, OpAssumption DEF RegionDepths

LEMMA TypeStep == TypeOK /\ [Next]_vars => TypeOK'
<1> SUFFICES ASSUME TypeOK, [Next]_vars PROVE TypeOK'
  OBVIOUS
<1> USE DEF TypeOK, Terminal, Failures
<1>same. prog' = prog => /\ n' = n /\ Indices' = Indices /\ Entries' = Entries
  BY DEF n, Indices, Entries
<1>1. CASE SeedExplicit
  <2>1. Explicit \subseteq Entries /\ \A k \in Explicit : HandlerResolves(k)
    BY <1>1 DEF SeedExplicit, Explicit
  <2>2. Seeds(Explicit, exc_depth) \subseteq (0 .. n) \X Int
    BY <2>1, SeedsType
  <2>3. <<0, 0>> \in (0 .. n) \X Int
    BY ProgramFacts
  <2>4. SeedsOverflow(Explicit, exc_depth) \in BOOLEAN
    BY DEF SeedsOverflow
  <2> QED BY <1>1, <1>same, <2>2, <2>3, <2>4 DEF SeedExplicit
<1>2. CASE SeedExplicitFails
  BY <1>2, <1>same DEF SeedExplicitFails
<1>3. CASE Drain
  <2>1. PICK w \in worklist : Explore(w)
    BY <1>3 DEF Drain
  <2>2. phase = "drain"
    BY <1>3 DEF Drain
  <2>3. /\ visited' \in [Indices -> Int] /\ worklist' \subseteq (0 .. n) \X Int
        /\ maxdepth' \in Int /\ overflowed' \in BOOLEAN
        /\ phase' \in {"drain", "raw_int_jump", "unresolved_label", "no_effect"}
    BY <2>1, <2>2, ExploredType
  <2> QED BY <1>3, <1>same, <2>3 DEF Drain
<1>4. CASE DrainDone
  BY <1>4, <1>same DEF DrainDone
<1>5. ASSUME NEW k \in Entries, ResolveCandidate(k) PROVE TypeOK'
  <2>1. PICK c \in RegionDepths(k) : candidate' = [candidate EXCEPT ![k] = c]
    BY <1>5 DEF ResolveCandidate
  <2>2. c \in Int
    BY <1>5, RegionDepthsType DEF ResolveCandidate
  <2> QED BY <1>5, <1>same, <2>1, <2>2 DEF ResolveCandidate
<1>6. ASSUME NEW k \in Entries, RejectEntry(k) PROVE TypeOK'
  BY <1>6, <1>same DEF RejectEntry
<1>7. CASE CandidatesDone
  BY <1>7, <1>same DEF CandidatesDone
<1>8. ASSUME NEW h \in Labels, SeedGroup(h) PROVE TypeOK'
  <2> DEFINE depthOf(k) == IF k \in resolved THEN exc_depth[k] ELSE candidate[k]
             New == Group(h) \ resolved
  <2>0. New \subseteq Entries /\ New \subseteq candidate_done
    BY <1>8 DEF Group, SeedGroup, Ready
  <2>1. PICK d \in {depthOf(k) : k \in Group(h)} :
            exc_depth' = [k \in Entries |-> IF k \in New THEN d ELSE exc_depth[k]]
    BY <1>8 DEF SeedGroup
  <2>2. d \in Int
    BY <2>1 DEF Group
  <2>3. exc_depth' \in [Entries -> Int]
    BY <2>1, <2>2
  <2>4. CASE Resolved(h)
    <3>1. \A k \in New : HandlerResolves(k)
      BY <2>4 DEF Group, HandlerResolves
    <3>2. Seeds(New, exc_depth') \subseteq (0 .. n) \X Int
      BY <2>0, <2>3, <3>1, SeedsType
    <3>3. SeedsOverflow(New, exc_depth') \in BOOLEAN
      BY DEF SeedsOverflow
    <3>4. /\ worklist' = worklist \cup Seeds(New, exc_depth')
          /\ overflowed' = (overflowed \/ SeedsOverflow(New, exc_depth'))
          /\ resolved' = resolved \cup New /\ progress' = TRUE /\ phase' = phase
          /\ UNCHANGED <<prog, visited, maxdepth, candidate, candidate_done>>
      BY <1>8, <2>4 DEF SeedGroup
    <3> QED BY <1>same, <2>0, <2>3, <3>2, <3>3, <3>4
  <2>5. CASE ~ Resolved(h)
    BY <1>8, <1>same, <2>3, <2>5 DEF SeedGroup
  <2> QED BY <2>4, <2>5
<1>9. CASE RoundDone
  BY <1>9, <1>same DEF RoundDone
<1>10. CASE UNCHANGED vars
  BY <1>10, <1>same DEF vars
<1> QED
  BY <1>1, <1>2, <1>3, <1>4, <1>5, <1>6, <1>7, <1>8, <1>9, <1>10
  DEF Next, Returned

\* Type correctness of compute_stacksize(), for every program.
THEOREM TypeCorrect == Spec => []TypeOK
BY InitType, TypeStep, PTL DEF Spec

-----------------------------------------------------------------------------
(***************************************************************************)
(* No path is lost.                                                        *)
(***************************************************************************)

\* The program decides the edges, so a step does not change them.
LEMMA SameProgram ==
    ASSUME prog' = prog
    PROVE  /\ n' = n /\ Indices' = Indices /\ Entries' = Entries
           /\ \A i : Edges(i)' = Edges(i) /\ op(i)' = op(i)
           /\ \A i : JumpResolves(i)' <=> JumpResolves(i)
           /\ \A i, d : DepthAfter(i, d)' = DepthAfter(i, d)
           /\ \A k : Handler(k)' = Handler(k)
           /\ \A k : HandlerResolves(k)' <=> HandlerResolves(k)
           /\ \A k, d : SeedDepth(k, d)' = SeedDepth(k, d)
<1> USE DEF n, op, arg, Resolved, Target
<1>1. \A i : JumpResolves(i)' <=> JumpResolves(i)
  BY DEF JumpResolves
<1>2. \A i : op(i)' = op(i)
  OBVIOUS
<1>3. \A i : IsNeutral(i)' = IsNeutral(i)
  BY DEF IsNeutral
<1>4. \A i : TakenEdges(i)' = TakenEdges(i)
  BY DEF TakenEdges, JumpResolves
<1>5. \A i : FallEdges(i)' = FallEdges(i)
  BY DEF FallEdges, Ends, IsNeutral, AfterNeutral
<1>6. \A i : Edges(i)' = Edges(i)
  BY <1>4, <1>5 DEF Edges
<1>7. \A i, d : DepthAfter(i, d)' = DepthAfter(i, d)
  BY DEF DepthAfter, IsNeutral
<1>8. /\ n' = n /\ Indices' = Indices /\ Entries' = Entries
      /\ \A k : Handler(k)' = Handler(k)
      /\ \A k : HandlerResolves(k)' <=> HandlerResolves(k)
      /\ \A k, d : SeedDepth(k, d)' = SeedDepth(k, d)
  BY DEF Indices, Entries, Handler, HandlerResolves, SeedDepth
<1> QED BY <1>1, <1>2, <1>6, <1>7, <1>8

\* What is covered stays covered when depths, maxdepth and worklist only grow.
LEMMA CoveredGrows ==
    ASSUME TypeOK, TypeOK', prog' = prog, NEW j \in 0 .. n, NEW d \in Int,
           Covered(j, d),
           \A i \in Indices : visited[i] = visited'[i]
               \/ (visited[i] <= visited'[i] /\ visited'[i] # UNVISITED),
           maxdepth <= maxdepth',
           \A w \in worklist : w \in worklist' \/ w[2] \notin Depths
               \/ IF w[1] < n THEN visited'[w[1]] # UNVISITED /\ w[2] <= visited'[w[1]]
                              ELSE w[2] <= maxdepth'
    PROVE  Covered(j, d)'
<1>1. n' = n /\ n \in Nat
  BY SameProgram, ProgramFacts
<1>2. CASE j < n /\ visited[j] # UNVISITED /\ d <= visited[j]
  <2>1. visited[j] \in Int /\ visited'[j] \in Int
    BY <1>1, <1>2 DEF TypeOK, Indices
  <2>2. visited'[j] # UNVISITED /\ d <= visited'[j]
    BY <1>1, <1>2, <2>1 DEF Indices
  <2> QED BY <1>1, <1>2, <2>2 DEF Covered
<1>3. CASE j >= n /\ d <= maxdepth
  BY <1>1, <1>3 DEF Covered, TypeOK
<1>4. ASSUME NEW w \in worklist, w[1] = j, d <= w[2], w[2] \in Depths
      PROVE  Covered(j, d)'
  <2>1. w[2] \in Int
    BY DEF TypeOK
  <2>2. CASE w \in worklist'
    BY <1>4, <2>2 DEF Covered
  <2>3. CASE w[1] < n /\ visited'[j] # UNVISITED /\ w[2] <= visited'[j]
    <3>1. visited'[j] \in Int
      BY <1>1, <1>4, <2>3 DEF TypeOK, Indices
    <3> QED BY <1>1, <1>4, <2>1, <2>3, <3>1 DEF Covered
  <2>4. CASE w[1] >= n /\ w[2] <= maxdepth'
    <3>1. maxdepth' \in Int
      BY DEF TypeOK
    <3> QED BY <1>1, <1>4, <2>1, <2>4, <3>1 DEF Covered
  <2>5. j < n \/ j >= n
    BY <1>1
  <2> QED BY <1>4, <2>2, <2>3, <2>4, <2>5, <1>1
<1> QED BY <1>2, <1>3, <1>4 DEF Covered

\* What each way of taking a pair off the worklist leaves behind.
LEMMA ExploredGrows ==
    ASSUME TypeOK, TypeOK', prog' = prog, phase = "drain", NEW w \in worklist,
           Visit(w) => w[2] \in Depths, FallOffEnd(w) \/ DropStale(w) \/ Visit(w)
    PROVE  /\ \A i \in Indices : visited[i] = visited'[i]
                  \/ (visited[i] <= visited'[i] /\ visited'[i] # UNVISITED)
           /\ maxdepth <= maxdepth'
           /\ \A x \in worklist : x \in worklist' \/ x[2] \notin Depths
                  \/ IF x[1] < n THEN visited'[x[1]] # UNVISITED /\ x[2] <= visited'[x[1]]
                                 ELSE x[2] <= maxdepth'
<1>0. /\ w[1] \in 0 .. n /\ w[2] \in Int /\ maxdepth \in Int /\ n \in Nat
      /\ \A x \in worklist : x[1] \in 0 .. n /\ x[2] \in Int
      /\ \A i \in Indices : visited[i] \in Int
  BY ProgramFacts DEF TypeOK
<1>1. \A d \in Depths : d # UNVISITED /\ d > UNVISITED
  BY OpAssumption DEF Depths, UNVISITED, INT_MIN
<1>2. CASE FallOffEnd(w)
  <2>1. maxdepth' = Max2(maxdepth, w[2]) /\ w[1] >= n
        /\ worklist' = worklist \ {w} /\ visited' = visited
    BY <1>2 DEF FallOffEnd
  <2>2. maxdepth <= maxdepth' /\ w[2] <= maxdepth'
    BY <1>0, <2>1, Max2Type
  <2> QED BY <1>0, <2>1, <2>2
<1>3. CASE DropStale(w)
  <2>1. w[1] < n /\ ~ Improves(w) /\ worklist' = worklist \ {w}
        /\ visited' = visited /\ maxdepth' = maxdepth
    BY <1>3 DEF DropStale
  <2>2. w[1] \in Indices /\ w[2] <= visited[w[1]]
    BY <1>0, <2>1 DEF Indices, Improves
  <2>3. w[2] \in Depths => visited[w[1]] # UNVISITED
    BY <1>0, <1>1, <2>1, <2>2 DEF UNVISITED, INT_MIN, Depths
  <2> QED BY <1>0, <2>1, <2>2, <2>3
<1>4. CASE Visit(w)
  <2>1. /\ w[1] < n /\ w[2] > visited[w[1]]
        /\ visited' = [visited EXCEPT ![w[1]] = w[2]]
        /\ maxdepth' = Max2(Max2(maxdepth, w[2]), Wrap(DepthAfter(w[1], w[2])))
        /\ worklist \ {w} \subseteq worklist' /\ w[2] \in Depths
    BY <1>4 DEF Improves, Visit
  <2>2. w[1] \in Indices
    BY <1>0, <2>1 DEF Indices
  <2>3. Wrap(DepthAfter(w[1], w[2])) \in Int
    BY <1>0, <2>2, DepthAfterType, WrapType
  <2>4. maxdepth <= maxdepth'
    BY <1>0, <2>1, <2>3 DEF Max2
  <2>5. visited'[w[1]] = w[2] /\ \A i \in Indices \ {w[1]} : visited'[i] = visited[i]
    BY <2>1, <2>2 DEF TypeOK
  <2> QED BY <1>0, <1>1, <2>1, <2>2, <2>4, <2>5
<1> QED BY <1>2, <1>3, <1>4

\* Every depth that is recorded or to be explored is one a C int can hold.
WorklistInDepths ==
    /\ \A w \in worklist : w[2] \in CInts
    /\ \A i \in Indices : visited[i] \in CInts

LEMMA ZeroInDepths == 0 \in Depths /\ 0 \in CInts
BY OpAssumption DEF Depths, CInts, INT_MIN

\* So what is explored has a depth other than the sentinel.
LEMMA VisitInDepths ==
    ASSUME TypeOK, WorklistInDepths, NEW w \in worklist, Visit(w)
    PROVE  w[2] \in Depths
<1>1. w[1] \in Indices /\ w[2] > visited[w[1]]
  BY ProgramFacts DEF Visit, Improves, TypeOK, Indices
<1>2. w[2] \in CInts /\ visited[w[1]] \in CInts
  BY <1>1 DEF WorklistInDepths
<1> QED BY <1>1, <1>2, OpAssumption DEF CInts, Depths, INT_MIN

LEMMA SeedsInDepths ==
    ASSUME TypeOK, NEW K \in SUBSET Entries, NEW d \in [Entries -> Int],
           ~ SeedsOverflow(K, d)
    PROVE  \A k \in K : ~ NoRegion(k) =>
                /\ SeedDepth(k, d[k]) \in Depths
                /\ <<Handler(k), SeedDepth(k, d[k])>> \in Seeds(K, d)
<1>1. \A k \in K : ~ NoRegion(k) => SeedDepth(k, d[k]) \in Depths
  BY DEF SeedsOverflow
<1>2. \A k \in K : ~ NoRegion(k) => Wrap(SeedDepth(k, d[k])) = SeedDepth(k, d[k])
  BY <1>1, WrapInDepths
<1> QED BY <1>1, <1>2 DEF Seeds

LEMMA SeedsInCInts ==
    ASSUME TypeOK, NEW K \in SUBSET Entries, NEW d \in [Entries -> Int]
    PROVE  \A s \in Seeds(K, d) : s[2] \in CInts
<1>1. \A k \in K : Wrap(SeedDepth(k, d[k])) \in CInts
  BY SeedDepthType, WrapInCInts
<1> QED BY <1>1 DEF Seeds

LEMMA InDepthsStep ==
    ASSUME TypeOK, TypeOK', WorklistInDepths, Next
    PROVE  WorklistInDepths'
<1>1. CASE SeedExplicit
  <2>1. /\ worklist' = {<<0, 0>>} \cup Seeds(Explicit, exc_depth)
        /\ visited' = visited /\ prog' = prog
    BY <1>1 DEF SeedExplicit
  <2>2. Explicit \in SUBSET Entries /\ exc_depth \in [Entries -> Int]
    BY DEF Explicit, TypeOK
  <2> QED BY <2>1, <2>2, SeedsInCInts, ZeroInDepths, SameProgram DEF WorklistInDepths
<1>2. CASE Drain
  <2>1. PICK w \in worklist : Explore(w)
    BY <1>2 DEF Drain
  <2>2. Indices' = Indices
    BY <1>2, SameProgram DEF Drain
  <2>3. CASE FallOffEnd(w) \/ DropStale(w) \/ JumpFails(w) \/ LookupFails(w)
    BY <2>1, <2>2, <2>3 DEF FallOffEnd, DropStale, JumpFails, LookupFails, WorklistInDepths
  <2>4. CASE Visit(w)
    <3>1. /\ visited' = [visited EXCEPT ![w[1]] = w[2]]
          /\ worklist' = (worklist \ {w})
                           \cup {<<e[1], Wrap(w[2] + e[2])>> : e \in Edges(w[1])}
          /\ w[1] \in Indices /\ w[2] \in Int
      BY <2>4, ProgramFacts DEF Visit, TypeOK, Indices
    <3>2. \A e \in Edges(w[1]) : Wrap(w[2] + e[2]) \in CInts
      <4> TAKE e \in Edges(w[1])
      <4>1. w[2] + e[2] \in Int
        BY <3>1, EdgeType
      <4> QED BY <4>1, WrapInCInts
    <3>3. \A i \in Indices : visited'[i] \in CInts
      BY <3>1 DEF WorklistInDepths, TypeOK
    <3> QED BY <2>2, <3>1, <3>2, <3>3 DEF WorklistInDepths
  <2> QED BY <2>1, <2>3, <2>4 DEF Explore
<1>3. ASSUME NEW h \in Labels, SeedGroup(h)
      PROVE  WorklistInDepths'
  <2> DEFINE New == Group(h) \ resolved
  <2>1. visited' = visited /\ Indices' = Indices /\ Entries' = Entries
    BY <1>3, SameProgram DEF SeedGroup
  <2>2. CASE Resolved(h)
    <3>1. worklist' = worklist \cup Seeds(New, exc_depth')
      BY <1>3, <2>2 DEF SeedGroup
    <3>2. New \in SUBSET Entries /\ exc_depth' \in [Entries -> Int]
      BY <2>1 DEF Group, TypeOK
    <3> HIDE DEF New
    <3> QED BY <2>1, <3>1, <3>2, SeedsInCInts DEF WorklistInDepths
  <2>3. CASE ~ Resolved(h)
    BY <1>3, <2>1, <2>3 DEF SeedGroup, WorklistInDepths
  <2> QED BY <2>2, <2>3
<1>4. CASE UNCHANGED <<prog, worklist, visited>>
  BY <1>4, SameProgram DEF WorklistInDepths
<1>5. (\E k \in Entries : ResolveCandidate(k) \/ RejectEntry(k))
        => UNCHANGED <<prog, worklist, visited>>
  BY DEF ResolveCandidate, RejectEntry
<1> QED
  BY <1>1, <1>2, <1>3, <1>4, <1>5
  DEF Next, SeedExplicitFails, DrainDone, CandidatesDone, RoundDone, Returned, vars

\* The program decides which handlers have no region.
LEMMA SameNoRegion ==
    ASSUME prog' = prog
    PROVE  \A k : NoRegion(k)' <=> NoRegion(k)
BY DEF NoRegion, Group, Entries, Explicit, StartResolves, StopResolves, Resolved,
       Region, Start, Stop, Target

\* Nothing is explored before the seeds are in place.
StartState ==
    phase = "start" => /\ \A i \in Indices : visited[i] = UNVISITED
                       /\ resolved = Explicit /\ worklist = {}
                       /\ maxdepth = 0 /\ ~ overflowed

IInv == TypeOK /\ WorklistInDepths /\ StartState /\ WorklistCovers

\* Edges and seeds stay covered, apart from those of the instruction and of the
\* entries the step is about.
LEMMA CoversKept ==
    ASSUME TypeOK, TypeOK', prog' = prog,
           \A j \in 0 .. n, d \in Int : Covered(j, d) => Covered(j, d)',
           maxdepth <= maxdepth'
    PROVE  /\ \A i \in Indices : visited'[i] = visited[i] /\ CoversEdges(i)
                                    => CoversEdges(i)'
           /\ Covered(0, 0) => Covered(0, 0)'
           /\ \A k \in Entries : exc_depth'[k] = exc_depth[k] /\ CoversSeed(k)
                                    => CoversSeed(k)'
<1> USE SameProgram, ProgramFacts
<1>0. maxdepth \in Int /\ maxdepth' \in Int
  BY DEF TypeOK
<1>1. ASSUME NEW i \in Indices, visited'[i] = visited[i], CoversEdges(i),
             visited[i] # UNVISITED
      PROVE  CoversEdges(i)'
  <2>1. visited[i] \in Int /\ DepthAfter(i, visited[i]) \in Int
    BY DepthAfterType DEF TypeOK
  <2>2. /\ visited[i] <= maxdepth'
        /\ DepthAfter(i, visited[i]) <= maxdepth'
        /\ op(i) \in JumpOps => JumpResolves(i)
    BY <1>0, <1>1, <2>1 DEF CoversEdges
  <2>3. ASSUME NEW e \in Edges(i), NEW c \in Int, c = visited[i] + e[2]
        PROVE  Covered(e[1], c)'
    <3>1. e[1] \in 0 .. n
      BY EdgeType
    <3>2. Covered(e[1], c)
      BY <1>1, <2>3 DEF CoversEdges
    <3> QED BY <3>1, <3>2
  <2>4. \A e \in Edges(i) : visited[i] + e[2] \in Int
    BY <2>1, EdgeType
  <2>5. \A e \in Edges(i) : Covered(e[1], visited[i] + e[2])'
    BY <1>1, <2>3, <2>4 DEF Covered
  <2>6. DepthAfter(i, visited[i])' = DepthAfter(i, visited[i])
    BY <1>1
  <2> QED BY <1>1, <2>2, <2>5, <2>6 DEF CoversEdges
<1>2. \A i \in Indices : visited'[i] = visited[i] /\ CoversEdges(i) => CoversEdges(i)'
  BY <1>1 DEF CoversEdges, UNVISITED
<1>3. Covered(0, 0) => Covered(0, 0)'
  <2>1. 0 \in 0 .. n /\ 0 \in Int
    OBVIOUS
  <2> QED BY <2>1
<1>4. ASSUME NEW k \in Entries, exc_depth'[k] = exc_depth[k], CoversSeed(k)
      PROVE  CoversSeed(k)'
  <2>1. HandlerResolves(k) /\ Handler(k) \in 0 .. n
    BY <1>4 DEF CoversSeed, Handler, HandlerResolves, Resolved, Target
  <2>2. SeedDepth(k, exc_depth[k]) \in Int
    BY SeedDepthType DEF TypeOK
  <2>3. ASSUME NEW j \in 0 .. n, NEW c \in Int,
               j = Handler(k), c = SeedDepth(k, exc_depth[k])
        PROVE  Covered(j, c)'
    BY <1>4, <2>3 DEF CoversSeed
  <2>4. SeedDepth(k, exc_depth[k])' = SeedDepth(k, exc_depth[k])
    BY <1>4
  <2> QED BY <2>1, <2>2, <2>3, <2>4 DEF CoversSeed, Covered
<1> QED BY <1>2, <1>3, <1>4

LEMMA CoversVisit ==
    ASSUME TypeOK, TypeOK', WorklistCovers, prog' = prog, phase = "drain",
           ~ overflowed, ~ overflowed', NEW w \in worklist, Visit(w) => w[2] \in Depths,
           exc_depth' = exc_depth, resolved' = resolved, phase' = phase,
           FallOffEnd(w) \/ DropStale(w) \/ Visit(w)
    PROVE  WorklistCovers'
<1> USE SameProgram, ProgramFacts
<1>1. CoversSeeds /\ \A i \in Indices : CoversEdges(i)
  BY DEF WorklistCovers, Failures
<1>2. /\ \A i \in Indices : visited[i] = visited'[i]
            \/ (visited[i] <= visited'[i] /\ visited'[i] # UNVISITED)
      /\ maxdepth <= maxdepth'
      /\ \A x \in worklist : x \in worklist' \/ x[2] \notin Depths
            \/ IF x[1] < n THEN visited'[x[1]] # UNVISITED /\ x[2] <= visited'[x[1]]
                           ELSE x[2] <= maxdepth'
  BY ExploredGrows
<1>3. \A j \in 0 .. n, d \in Int : Covered(j, d) => Covered(j, d)'
  BY <1>2, CoveredGrows
<1>4. /\ \A i \in Indices : visited'[i] = visited[i] => CoversEdges(i)'
      /\ Covered(0, 0) => Covered(0, 0)'
      /\ \A k \in Entries : CoversSeed(k) => CoversSeed(k)'
  BY <1>1, <1>2, <1>3, CoversKept
<1>5. CoversSeeds'
  BY <1>1, <1>4, SameNoRegion DEF CoversSeeds, TypeOK, Failures
<1>6. CASE FallOffEnd(w) \/ DropStale(w)
  BY <1>4, <1>5, <1>6 DEF FallOffEnd, DropStale, WorklistCovers
<1>7. CASE Visit(w)
  <2>0. w[1] \in Indices /\ w[2] \in Int /\ maxdepth \in Int
    BY <1>7 DEF Improves, Visit, TypeOK, Indices
  <2>1. /\ op(w[1]) \in JumpOps => JumpResolves(w[1])
        /\ visited' = [visited EXCEPT ![w[1]] = w[2]]
        /\ maxdepth' = Max2(Max2(maxdepth, w[2]), Wrap(DepthAfter(w[1], w[2])))
        /\ worklist' = (worklist \ {w})
                         \cup {<<e[1], Wrap(w[2] + e[2])>> : e \in Edges(w[1])}
        /\ DepthAfter(w[1], w[2]) \in Depths
        /\ \A e \in Edges(w[1]) : w[2] + e[2] \in Depths
    BY <1>7 DEF Improves, Visit
  <2>2. visited'[w[1]] = w[2]
    BY <2>0, <2>1 DEF TypeOK
  <2>3. w[2] <= maxdepth' /\ DepthAfter(w[1], w[2]) <= maxdepth'
    <3>1. Wrap(DepthAfter(w[1], w[2])) = DepthAfter(w[1], w[2])
      BY <2>1, WrapInDepths
    <3>2. DepthAfter(w[1], w[2]) \in Int
      BY <2>0, DepthAfterType
    <3> QED BY <2>0, <2>1, <3>1, <3>2 DEF Max2
  <2>4. ASSUME NEW e \in Edges(w[1]) PROVE Covered(e[1], w[2] + e[2])'
    <3>1. <<e[1], w[2] + e[2]>> \in worklist'
      BY <2>1, WrapInDepths
    <3>2. w[2] + e[2] \in Depths /\ w[2] + e[2] \in Int
      BY <2>0, <2>1, <2>4, EdgeType
    <3> QED BY <3>1, <3>2 DEF Covered
  <2>5. DepthAfter(w[1], visited[w[1]])' = DepthAfter(w[1], w[2])
    BY <2>2
  <2>6. \A e \in Edges(w[1])' : Covered(e[1], visited[w[1]] + e[2])'
    BY <2>2, <2>4 DEF Covered
  <2>7. CoversEdges(w[1])'
    BY <2>1, <2>2, <2>3, <2>5, <2>6 DEF CoversEdges
  <2>8. \A i \in Indices \ {w[1]} : visited'[i] = visited[i]
    BY <2>0, <2>1 DEF TypeOK
  <2> QED BY <1>4, <1>5, <2>7, <2>8 DEF WorklistCovers
<1> QED BY <1>6, <1>7

\* Steps that leave the explored depths and the worklist alone.
LEMMA CoversSame ==
    ASSUME TypeOK, TypeOK', WorklistCovers, phase # "start", phase \notin Failures,
           UNCHANGED <<prog, visited, worklist, maxdepth, exc_depth, resolved,
                       overflowed>>
    PROVE  WorklistCovers'
<1> USE SameProgram, ProgramFacts
<1> SUFFICES ASSUME ~ overflowed PROVE WorklistCovers'
  BY DEF WorklistCovers
<1>1. CoversSeeds /\ \A i \in Indices : CoversEdges(i)
  BY DEF WorklistCovers
<1>2. \A j \in 0 .. n, d \in Int : Covered(j, d) => Covered(j, d)'
  BY DEF Covered
<1>3. maxdepth <= maxdepth'
  BY DEF TypeOK
<1>4. /\ \A i \in Indices : CoversEdges(i)'
      /\ Covered(0, 0) => Covered(0, 0)'
      /\ \A k \in Entries : CoversSeed(k) => CoversSeed(k)'
  BY <1>1, <1>2, <1>3, CoversKept
<1>5. CoversSeeds'
  BY <1>1, <1>4, SameNoRegion DEF CoversSeeds, TypeOK
<1> QED BY <1>4, <1>5 DEF WorklistCovers

\* Seeding the groups, or the entries given a depth, covers the new seeds.
LEMMA CoversSeeding ==
    ASSUME TypeOK, TypeOK', prog' = prog, visited' = visited, maxdepth' = maxdepth,
           \A i \in Indices : CoversEdges(i), ~ overflowed',
           NEW K \in SUBSET Entries, resolved' = resolved \cup K,
           \A k \in K : HandlerResolves(k),
           \A k \in resolved \ K : /\ ~ NoRegion(k) => CoversSeed(k)
                                   /\ exc_depth'[k] = exc_depth[k],
           ~ SeedsOverflow(K, exc_depth'),
           worklist \cup Seeds(K, exc_depth') \subseteq worklist',
           Covered(0, 0)'
    PROVE  WorklistCovers'
<1> USE SameProgram, ProgramFacts
<1>1. \A j \in 0 .. n, d \in Int : Covered(j, d) => Covered(j, d)'
  BY DEF Covered
<1>2. /\ \A i \in Indices : CoversEdges(i)'
      /\ \A k \in Entries : exc_depth'[k] = exc_depth[k] /\ CoversSeed(k) => CoversSeed(k)'
  <2>1. maxdepth <= maxdepth'
    BY DEF TypeOK
  <2> QED BY <1>1, <2>1, CoversKept
<1>3. ASSUME NEW k \in K, ~ NoRegion(k) PROVE CoversSeed(k)'
  <2>1. exc_depth' \in [Entries -> Int]
    BY DEF TypeOK
  <2>2. <<Handler(k), SeedDepth(k, exc_depth'[k])>> \in worklist'
    BY <1>3, <2>1, SeedsInDepths
  <2>3. SeedDepth(k, exc_depth'[k]) \in Depths
    BY <1>3 DEF SeedsOverflow
  <2>4. SeedDepth(k, exc_depth'[k]) \in Int
    BY <2>1, SeedDepthType
  <2>5. Handler(k)' = Handler(k)
        /\ SeedDepth(k, exc_depth[k])' = SeedDepth(k, exc_depth'[k])
    OBVIOUS
  <2>6. Covered(Handler(k), SeedDepth(k, exc_depth[k]))'
    BY <2>2, <2>3, <2>4, <2>5 DEF Covered
  <2> QED BY <2>6 DEF CoversSeed
<1>4. \A k \in resolved' : ~ NoRegion(k)' => CoversSeed(k)'
  BY <1>2, <1>3, SameNoRegion DEF TypeOK
<1> QED BY <1>2, <1>4 DEF WorklistCovers, CoversSeeds

LEMMA InitIInv == Init => IInv
<1> SUFFICES ASSUME Init PROVE IInv
  OBVIOUS
<1>1. TypeOK
  BY InitType
<1>2. WorklistInDepths
  BY OpAssumption DEF Init, WorklistInDepths, Indices, n, UNVISITED, CInts, INT_MIN
<1>3. StartState
  BY DEF Init, StartState, Explicit, Entries, Indices, n
<1>4. \A i \in Indices : CoversEdges(i)
  BY DEF Init, CoversEdges, Indices, n
<1>5. CoversSeeds
  BY DEF Init, CoversSeeds
<1> QED BY <1>1, <1>2, <1>3, <1>4, <1>5 DEF IInv, WorklistCovers

LEMMA StartStep == ASSUME IInv, Next PROVE StartState'
<1>1. phase' # "start"
  <2>1. \A k \in Entries : ResolveCandidate(k) \/ RejectEntry(k) => phase' # "start"
    BY DEF ResolveCandidate, RejectEntry
  <2>2. \A h \in Labels : SeedGroup(h) => phase' # "start"
    BY DEF SeedGroup
  <2>3. Drain => phase' # "start"
    BY DEF Drain, Explore, FallOffEnd, DropStale, Visit, JumpFails, LookupFails
  <2> QED
    BY <2>1, <2>2, <2>3 DEF Next, SeedExplicit, SeedExplicitFails, DrainDone,
          CandidatesDone, RoundDone, Returned, Terminal, Failures, vars
<1> QED BY <1>1 DEF StartState

LEMMA CoversStep == ASSUME IInv, TypeOK', Next PROVE WorklistCovers'
<1> USE DEF IInv
<1> SUFFICES ASSUME ~ overflowed', phase' \notin Failures PROVE WorklistCovers'
  BY DEF WorklistCovers
<1>1. CASE SeedExplicit
  <2>1. /\ phase = "start" /\ visited' = visited /\ maxdepth' = maxdepth
        /\ prog' = prog /\ exc_depth' = exc_depth /\ resolved' = resolved
        /\ worklist' = {<<0, 0>>} \cup Seeds(Explicit, exc_depth)
        /\ ~ SeedsOverflow(Explicit, exc_depth)
        /\ \A k \in Explicit : HandlerResolves(k)
    BY <1>1 DEF SeedExplicit
  <2>2. Explicit \subseteq Entries /\ resolved = Explicit
    BY <2>1 DEF Explicit, StartState
  <2>3. \A i \in Indices : CoversEdges(i)
    BY <2>1 DEF StartState, CoversEdges
  <2>4. Covered(0, 0)'
    <3>1. \E w \in worklist' : w = <<0, 0>>
      BY <2>1
    <3>2. \E w \in worklist' : w[1] = 0 /\ 0 <= w[2] /\ w[2] \in Depths
      BY <3>1, ZeroInDepths
    <3> QED BY <3>2 DEF Covered
  <2>5. /\ ~ SeedsOverflow(Explicit, exc_depth')
        /\ worklist \cup Seeds(Explicit, exc_depth') \subseteq worklist'
        /\ resolved' = resolved \cup Explicit /\ resolved \ Explicit = {}
    BY <2>1, <2>2 DEF StartState
  <2> QED
    BY <2>1, <2>2, <2>3, <2>4, <2>5, CoversSeeding
<1>2. CASE Drain
  <2>1. PICK w \in worklist : Explore(w)
    BY <1>2 DEF Drain
  <2>2. FallOffEnd(w) \/ DropStale(w) \/ Visit(w)
    BY <2>1 DEF Explore, JumpFails, LookupFails, Failures
  <2>3. /\ phase = "drain" /\ phase' = phase /\ prog' = prog
        /\ exc_depth' = exc_depth /\ resolved' = resolved
    BY <1>2, <2>2 DEF Drain, FallOffEnd, DropStale, Visit
  <2>4. ~ overflowed
    BY <2>2 DEF FallOffEnd, DropStale, Visit
  <2>5. Visit(w) => w[2] \in Depths
    BY VisitInDepths
  <2> QED BY <2>2, <2>3, <2>4, <2>5, CoversVisit
<1>3. ASSUME NEW h \in Labels, SeedGroup(h) PROVE WorklistCovers'
  <2> DEFINE New == Group(h) \ resolved
  <2>1. /\ phase = "groups" /\ Resolved(h)
        /\ worklist' = worklist \cup Seeds(New, exc_depth')
        /\ ~ overflowed /\ ~ SeedsOverflow(New, exc_depth')
        /\ resolved' = resolved \cup New
        /\ prog' = prog /\ visited' = visited /\ maxdepth' = maxdepth
    BY <1>3 DEF SeedGroup, Failures
  <2>2. New \in SUBSET Entries /\ \A k \in New : HandlerResolves(k)
    BY <2>1 DEF Group, HandlerResolves
  <2>3. \A k \in resolved \ New : exc_depth'[k] = exc_depth[k]
    BY <1>3 DEF SeedGroup, TypeOK
  <2>4. CoversSeeds /\ \A i \in Indices : CoversEdges(i)
    BY <2>1 DEF WorklistCovers, Failures
  <2>5. \A k \in resolved : ~ NoRegion(k) => CoversSeed(k)
    BY <2>1, <2>4 DEF CoversSeeds, Failures
  <2>6. Covered(0, 0)'
    <3>1. Covered(0, 0)
      BY <2>1, <2>4 DEF CoversSeeds, Failures
    <3> QED BY <2>1, <3>1, SameProgram DEF Covered
  <2> HIDE DEF New
  <2> QED BY <2>1, <2>2, <2>3, <2>4, <2>5, <2>6, CoversSeeding
<1>4. ASSUME phase # "start", phase \notin Failures,
             UNCHANGED <<prog, visited, worklist, maxdepth, exc_depth, resolved,
                         overflowed>>
      PROVE  WorklistCovers'
  BY <1>4, CoversSame
<1>5. CASE DrainDone \/ CandidatesDone \/ RoundDone
  BY <1>4, <1>5 DEF DrainDone, CandidatesDone, RoundDone, Failures
<1>6. ASSUME NEW k \in Entries, ResolveCandidate(k) PROVE WorklistCovers'
  BY <1>4, <1>6 DEF ResolveCandidate, Failures
<1>7. ASSUME NEW k \in Entries, RejectEntry(k) PROVE FALSE
  BY <1>7 DEF RejectEntry, Failures
<1>8. CASE SeedExplicitFails
  BY <1>8 DEF SeedExplicitFails, Failures
<1>9. CASE Returned
  BY <1>4, <1>9 DEF Returned, Terminal, vars
<1> QED
  BY <1>1, <1>2, <1>3, <1>5, <1>6, <1>7, <1>8, <1>9 DEF Next

LEMMA IInvStep == IInv /\ [Next]_vars => IInv'
<1> SUFFICES ASSUME IInv, [Next]_vars PROVE IInv'
  OBVIOUS
<1>1. TypeOK'
  BY TypeStep DEF IInv
<1>2. CASE Next
  BY <1>1, <1>2, StartStep, InDepthsStep, CoversStep DEF IInv
<1>3. CASE UNCHANGED vars
  <2>1. WorklistInDepths' /\ StartState'
    BY <1>3, SameProgram
    DEF vars, IInv, WorklistInDepths, StartState, Explicit, Entries, Indices, n
  <2>2. WorklistCovers'
    <3>1. CASE phase \notin {"start"} \cup Failures
      BY <1>1, <1>3, <3>1, CoversSame DEF vars, IInv
    <3>2. CASE phase \in Failures
      BY <1>3, <3>2 DEF vars, WorklistCovers
    <3>3. CASE phase = "start"
      <4>1. \A i \in Indices : visited[i] = UNVISITED
        BY <3>3 DEF IInv, StartState
      <4>2. \A i \in Indices' : visited'[i] = UNVISITED
        BY <1>3, <4>1, SameProgram DEF vars
      <4> QED BY <1>3, <3>3, <4>2 DEF vars, WorklistCovers, CoversSeeds, CoversEdges
    <3> QED BY <3>1, <3>2, <3>3
  <2> QED BY <1>1, <2>1, <2>2 DEF IInv
<1> QED BY <1>2, <1>3

\* At every moment of the computation no path is lost.
THEOREM NoPathLost == Spec => []WorklistCovers
<1>1. IInv => WorklistCovers
  BY DEF IInv
<1> QED BY InitIInv, IInvStep, <1>1, PTL DEF Spec

-----------------------------------------------------------------------------
(***************************************************************************)
(* The result is the least one.                                            *)
(***************************************************************************)

\* Everything reached so far is below f and b.
Below(f, b) ==
    /\ \A w \in worklist : w[2] # UNVISITED => Gives(f, w[1], w[2])
    /\ \A i \in Indices : visited[i] # UNVISITED => Gives(f, i, visited[i])
    /\ maxdepth <= b

LeastInv ==
    ~ overflowed => \A f \in [0 .. n -> Int], b \in Int : IsBound(f, b) => Below(f, b)

LEMMA InitLeast == Init => LeastInv
<1> SUFFICES ASSUME Init, NEW f \in [0 .. n -> Int], NEW b \in Int, IsBound(f, b)
             PROVE  Below(f, b)
  BY DEF LeastInv
<1>0. n \in Nat
  BY InitType, ProgramFacts
<1>1. 0 <= f[0] /\ f[0] <= b
  BY <1>0 DEF IsBound, BoundsSeeds, BoundsEdges, Gives
<1>2. f[0] \in Int
  BY <1>0
<1> QED BY <1>1, <1>2 DEF Init, Below, Indices, n

\* One pair taken off the worklist keeps everything below f and b.
LEMMA VisitBelow ==
    ASSUME TypeOK, WorklistInDepths, NEW w \in worklist, ~ overflowed', phase = "drain",
           Explore(w), NEW f \in [0 .. n -> Int], NEW b \in Nat, BoundsEdges(f, b),
           Below(f, b), prog' = prog
    PROVE  Below(f, b)'
<1> USE SameProgram, ProgramFacts
<1>0. /\ w[1] \in 0 .. n /\ w[2] \in Int /\ maxdepth \in Int /\ f[w[1]] \in Int
      /\ w[2] # UNVISITED => f[w[1]] # UNVISITED /\ w[2] <= f[w[1]] /\ f[w[1]] <= b
  BY DEF TypeOK, Below, Gives, BoundsEdges
<1>1. CASE DropStale(w) \/ JumpFails(w) \/ LookupFails(w)
  BY <1>1 DEF Improves, DropStale, JumpFails, LookupFails, Below, Gives
<1>2. CASE FallOffEnd(w)
  <2>0. w[2] <= b
    BY <1>0, OpAssumption DEF UNVISITED, INT_MIN
  <2>1. maxdepth' <= b
    BY <1>0, <1>2, <2>0 DEF FallOffEnd, Max2, Below
  <2> QED BY <1>2, <2>1 DEF FallOffEnd, Below, Gives
<1>3. CASE Visit(w)
  <2> DEFINE i == w[1]
  <2>0. w[2] # UNVISITED /\ f[i] # UNVISITED /\ w[2] <= f[i] /\ f[i] <= b
    <3>1. w[2] \in Depths
      BY <1>3, VisitInDepths
    <3> QED BY <1>0, <3>1, OpAssumption DEF Depths, UNVISITED, INT_MIN
  <2>1. i \in Indices
    BY <1>0, <1>3 DEF Improves, Visit, Indices
  <2>2. /\ visited' = [visited EXCEPT ![i] = w[2]]
        /\ maxdepth' = Max2(Max2(maxdepth, w[2]), Wrap(DepthAfter(i, w[2])))
        /\ worklist' = (worklist \ {w})
                         \cup {<<e[1], Wrap(w[2] + e[2])>> : e \in Edges(i)}
        /\ DepthAfter(i, w[2]) \in Depths
        /\ \A e \in Edges(i) : w[2] + e[2] \in Depths
    BY <1>3 DEF Improves, Visit
  <2>3. /\ DepthAfter(i, f[i]) <= b
        /\ \A e \in Edges(i) : Gives(f, e[1], f[i] + e[2])
    BY <1>0, <2>0, <2>1 DEF BoundsEdges
  <2>4. maxdepth' <= b
    <3>1. DepthAfter(i, w[2]) <= DepthAfter(i, f[i])
      BY <1>0, <2>0, <2>1, OpAssumption DEF DepthAfter
    <3>2. DepthAfter(i, w[2]) \in Int /\ DepthAfter(i, f[i]) \in Int
      BY <1>0, <2>1, DepthAfterType
    <3>3. Wrap(DepthAfter(i, w[2])) = DepthAfter(i, w[2])
      BY <2>2, WrapInDepths
    <3> QED BY <1>0, <2>0, <2>2, <2>3, <3>1, <3>2, <3>3 DEF Max2, Below
  <2>5. ASSUME NEW e \in Edges(i)
        PROVE  Gives(f, e[1], Wrap(w[2] + e[2]))
    <3>1. e[1] \in 0 .. n /\ e[2] \in Int
      BY <2>1, EdgeType
    <3>2. Wrap(w[2] + e[2]) = w[2] + e[2]
      BY <2>2, WrapInDepths
    <3>3. f[e[1]] \in Int
      BY <3>1
    <3> QED BY <1>0, <2>0, <2>3, <3>1, <3>2, <3>3 DEF Gives
  <2>6. \A x \in worklist' : x[2] # UNVISITED => Gives(f, x[1], x[2])
    BY <2>2, <2>5 DEF Below
  <2>7. \A k \in Indices : visited'[k] # UNVISITED => Gives(f, k, visited'[k])
    BY <1>0, <2>0, <2>1, <2>2 DEF Below, Gives, TypeOK
  <2> QED BY <2>4, <2>6, <2>7 DEF Below, Gives
<1> QED BY <1>1, <1>2, <1>3 DEF Explore

\* Entries keep their seeds while others get theirs.
LEMMA SeedsGrow ==
    ASSUME NEW K, NEW L, K \subseteq L, NEW d, NEW e, \A k \in K : d[k] = e[k]
    PROVE  Seeds(K, d) \subseteq Seeds(L, e)
BY DEF Seeds

LEMMA SameSeeds ==
    ASSUME prog' = prog
    PROVE  Seeds(resolved, exc_depth)' = Seeds(resolved', exc_depth')
BY SameProgram DEF Seeds

LEMMA LeastStep == ASSUME IInv, LeastInv, Next PROVE LeastInv'
<1>0. TypeOK /\ TypeOK'
  BY IInvStep DEF IInv
<1>1. prog' = prog
  <2>1. \A k \in Entries : ResolveCandidate(k) \/ RejectEntry(k) => prog' = prog
    BY DEF ResolveCandidate, RejectEntry
  <2>2. \A h \in Labels : SeedGroup(h) => prog' = prog
    BY DEF SeedGroup
  <2> QED
    BY <2>1, <2>2 DEF Next, SeedExplicit, SeedExplicitFails, Drain, DrainDone,
       CandidatesDone, RoundDone, Returned, vars
<1> USE <1>0, <1>1, SameProgram, ProgramFacts
<1> SUFFICES ASSUME ~ overflowed', NEW f \in [0 .. n -> Int], NEW b \in Int, IsBound(f, b)'
             PROVE  Below(f, b)'
  BY DEF LeastInv
<1>2. BoundsEdges(f, b) /\ Gives(f, 0, 0)
      /\ \A s \in Seeds(resolved', exc_depth') : s[2] # UNVISITED => Gives(f, s[1], s[2])
  BY SameSeeds DEF IsBound, BoundsEdges, BoundsSeeds, Gives
<1>nat. b \in Nat
  <2>1. 0 <= f[0] /\ f[0] <= b /\ f[0] \in Int
    BY <1>2 DEF Gives, BoundsEdges
  <2> QED BY <2>1
<1>3. ASSUME ~ overflowed, resolved \subseteq resolved',
             \A k \in resolved : exc_depth'[k] = exc_depth[k]
      PROVE  Below(f, b)
  <2>1. Seeds(resolved, exc_depth) \subseteq Seeds(resolved', exc_depth')
    BY <1>3, SeedsGrow
  <2> QED BY <1>2, <1>3, <2>1 DEF LeastInv, IsBound, BoundsSeeds
<1>4. ASSUME ~ overflowed, UNCHANGED <<visited, worklist, maxdepth, exc_depth, resolved>>
      PROVE  Below(f, b)'
  BY <1>3, <1>4 DEF Below, Gives
<1>5. CASE SeedExplicit
  <2>1. /\ resolved = Explicit /\ resolved' = resolved /\ exc_depth' = exc_depth
        /\ visited' = visited /\ maxdepth' = maxdepth
        /\ worklist' = {<<0, 0>>} \cup Seeds(Explicit, exc_depth)
        /\ ~ SeedsOverflow(Explicit, exc_depth)
        /\ \A i \in Indices : visited[i] = UNVISITED
    BY <1>5 DEF SeedExplicit, IInv, StartState
  <2>2. \A s \in Seeds(Explicit, exc_depth) : s[2] # UNVISITED => Gives(f, s[1], s[2])
    BY <1>2, <2>1
  <2>3. maxdepth <= b
    <3>1. 0 <= f[0] /\ f[0] <= b /\ f[0] \in Int
      BY <1>2 DEF Gives, BoundsEdges
    <3>2. maxdepth = 0
      BY <1>5 DEF SeedExplicit, IInv, StartState
    <3> QED BY <3>1, <3>2
  <2> QED BY <1>2, <2>1, <2>2, <2>3 DEF Below, Gives
<1>6. CASE Drain
  <2>1. PICK w \in worklist : Explore(w)
    BY <1>6 DEF Drain
  <2>2. phase = "drain" /\ resolved' = resolved /\ exc_depth' = exc_depth
    BY <1>6 DEF Drain
  <2>3. ~ overflowed
    BY <2>1 DEF Explore, FallOffEnd, DropStale, Visit, JumpFails, LookupFails
  <2>4. Below(f, b)
    BY <1>3, <2>2, <2>3
  <2>5. WorklistInDepths
    BY DEF IInv
  <2> QED BY <1>2, <1>nat, <2>1, <2>2, <2>4, <2>5, VisitBelow
<1>7. ASSUME NEW h \in Labels, SeedGroup(h) PROVE Below(f, b)'
  <2> DEFINE New == Group(h) \ resolved
  <2>1. /\ visited' = visited /\ maxdepth' = maxdepth
        /\ \A k \in Entries \ New : exc_depth'[k] = exc_depth[k]
    BY <1>7 DEF SeedGroup, TypeOK
  <2>2. resolved \subseteq Entries /\ New \in SUBSET Entries
    BY DEF TypeOK, Group
  <2>3. CASE Resolved(h)
    <3>1. /\ worklist' = worklist \cup Seeds(New, exc_depth')
          /\ ~ overflowed /\ ~ SeedsOverflow(New, exc_depth')
          /\ resolved' = resolved \cup New
      BY <1>7, <2>3 DEF SeedGroup
    <3>2. Below(f, b)
      BY <1>3, <2>1, <2>2, <3>1
    <3>3. Seeds(New, exc_depth') \subseteq Seeds(resolved', exc_depth')
      BY <3>1, SeedsGrow
    <3>4. \A s \in Seeds(New, exc_depth') : s[2] # UNVISITED => Gives(f, s[1], s[2])
      BY <1>2, <3>3
    <3> QED BY <2>1, <3>1, <3>2, <3>4 DEF Below, Gives
  <2>4. CASE ~ Resolved(h)
    <3>1. ~ overflowed /\ worklist' = worklist /\ resolved' = resolved
      BY <1>7, <2>4 DEF SeedGroup
    <3>2. Below(f, b)
      BY <1>3, <2>1, <2>2, <3>1
    <3> QED BY <2>1, <3>1, <3>2 DEF Below, Gives
  <2> QED BY <2>3, <2>4
<1>8. CASE SeedExplicitFails \/ DrainDone \/ CandidatesDone \/ RoundDone \/ Returned
  BY <1>4, <1>8
  DEF SeedExplicitFails, DrainDone, CandidatesDone, RoundDone, Returned, vars
<1>9. ASSUME NEW k \in Entries, ResolveCandidate(k) \/ RejectEntry(k) PROVE Below(f, b)'
  BY <1>4, <1>9 DEF ResolveCandidate, RejectEntry
<1> QED BY <1>5, <1>6, <1>7, <1>8, <1>9 DEF Next

LEMMA LeastStutter == ASSUME LeastInv, UNCHANGED vars PROVE LeastInv'
<1>1. prog' = prog
  BY DEF vars
<1> SUFFICES ASSUME ~ overflowed, NEW f \in [0 .. n -> Int], NEW b \in Int, IsBound(f, b)'
             PROVE  Below(f, b)'
  BY <1>1, SameProgram DEF LeastInv, vars
<1>2. IsBound(f, b)
  <2>1. Seeds(resolved, exc_depth)' = Seeds(resolved, exc_depth)
    BY <1>1, SameSeeds DEF vars
  <2>2. BoundsSeeds(f)
    BY <2>1 DEF IsBound, BoundsSeeds, Gives
  <2>3. BoundsEdges(f, b)
    BY <1>1, SameProgram DEF IsBound, BoundsEdges, Gives
  <2> QED BY <2>2, <2>3 DEF IsBound
<1>3. Below(f, b)
  BY <1>2 DEF LeastInv
<1> QED BY <1>1, <1>3, SameProgram DEF Below, Gives, vars

\* compute_stacksize() never returns more than the program needs: no closed
\* assignment of depths stays below its result.
THEOREM LeastStackSize == Spec => []StackSizeIsLeast
<1>1. Init => IInv /\ LeastInv
  BY InitIInv, InitLeast
<1>2. (IInv /\ LeastInv) /\ [Next]_vars => (IInv /\ LeastInv)'
  BY IInvStep, LeastStep, LeastStutter
<1>3. IInv /\ LeastInv => StackSizeIsLeast
  <2> SUFFICES ASSUME IInv, LeastInv, phase = "done", ~ overflowed, maxdepth > 0,
                      NEW f \in [0 .. n -> INT_MIN .. maxdepth - 1],
                      IsBound(f, maxdepth - 1)
               PROVE  FALSE
    BY DEF StackSizeIsLeast
  <2>1. maxdepth \in Int
    BY DEF IInv, TypeOK
  <2>2. f \in [0 .. n -> Int] /\ maxdepth - 1 \in Int
    BY <2>1, OpAssumption DEF INT_MIN
  <2>3. maxdepth <= maxdepth - 1
    BY <2>2 DEF LeastInv, Below
  <2> QED BY <2>1, <2>3
<1> QED BY <1>1, <1>2, <1>3, PTL DEF Spec

-----------------------------------------------------------------------------
(***************************************************************************)
(* The last error of the function.                                         *)
(***************************************************************************)

\* With nothing left to explore, what is normally reachable has been explored.
LEMMA ReachableVisited ==
    ASSUME TypeOK, WorklistCovers, worklist = {}, ~ overflowed,
           phase \notin {"start"} \cup Failures
    PROVE  \A i \in NormallyReachable : visited[i] # UNVISITED
<1> USE ProgramFacts
<1> DEFINE S == {i \in 0 .. n : i < n => visited[i] # UNVISITED}
<1>1. CoversSeeds /\ \A i \in Indices : CoversEdges(i)
  BY DEF WorklistCovers
<1>2. 0 \in S
  <2>1. Covered(0, 0)
    BY <1>1 DEF CoversSeeds
  <2> QED BY <2>1 DEF Covered
<1>3. ASSUME NEW k \in S \cap Indices, NEW e \in Edges(k) PROVE e[1] \in S
  <2>1. visited[k] # UNVISITED /\ e[1] \in 0 .. n
    BY EdgeType DEF Indices
  <2>2. Covered(e[1], visited[k] + e[2])
    BY <1>1, <2>1 DEF CoversEdges
  <2> QED BY <2>1, <2>2 DEF Covered
<1>4. S \in SUBSET (0 .. n)
  OBVIOUS
<1> HIDE DEF S
<1>5. \A i \in NormallyReachable : i \in S /\ i \in Indices
  BY <1>2, <1>3, <1>4 DEF NormallyReachable
<1> QED BY <1>5 DEF S, Indices

\* An entry the candidate loop passed over: it may be reachable, yet unexplored.
Skipped(k) ==
    /\ StartResolves(k)
    /\ TRUE \in ReadsReachable(Start(k))
    /\ FALSE \in ReadsVisited(Start(k))

RoundInv ==
    /\ phase = "candidates" => worklist = {} /\ resolved # Entries
    /\ phase = "groups" /\ ~ progress =>
          /\ worklist = {} /\ resolved # Entries
          /\ \A k \in Pending : Skipped(k)
    /\ UnreachableNeedsLabelAtEnd

LEMMA RoundStep == ASSUME IInv, RoundInv, Next PROVE RoundInv'
<1>0. TypeOK
  BY DEF IInv
<1> USE DEF Failures
<1>1. CASE DrainDone
  BY <1>1 DEF DrainDone, RoundInv, UnreachableNeedsLabelAtEnd, Entries
<1>2. CASE CandidatesDone
  <2>1. phase' = "groups" /\ worklist = {} /\ resolved # Entries
        /\ \A k \in Pending : Skipped(k)
    BY <1>2 DEF CandidatesDone, RoundInv, Skipped
  <2>2. UNCHANGED <<prog, visited, worklist, candidate_done, resolved>>
    BY <1>2 DEF CandidatesDone
  <2>3. Entries' = Entries /\ Pending' = Pending
    BY <2>2 DEF Entries, Pending
  <2>4. \A k : Skipped(k)' <=> Skipped(k)
    BY <2>2 DEF Skipped, StartResolves, Start, ReadsReachable, ReadsVisited,
       NormallyReachable, Indices, n, Edges, TakenEdges, FallEdges, JumpResolves,
       IsNeutral, Ends, AfterNeutral, op, arg, Resolved, Target
  <2> QED BY <2>1, <2>2, <2>3, <2>4 DEF RoundInv, UnreachableNeedsLabelAtEnd
<1>3. CASE RoundDone
  <2>1. phase = "groups" /\ (\A h \in Labels : ~ Ready(h))
        /\ phase' \in {"drain", "unreachable"}
        /\ (phase' = "unreachable" => ~ progress)
        /\ UNCHANGED <<prog, candidate_done, overflowed>>
    BY <1>3, <1>0 DEF RoundDone, TypeOK
  <2>2. ASSUME ~ progress, ~ overflowed PROVE \E k \in Pending : Start(k) = n
    <3>1. worklist = {} /\ resolved # Entries /\ \A k \in Pending : Skipped(k)
      BY <2>1, <2>2 DEF RoundInv
    <3>2. PICK k \in Entries : k \notin resolved
      BY <3>1, <1>0 DEF TypeOK
    <3>3. prog.exc[k].handler_lbl \in Labels
      BY <1>0, ProgramFacts DEF ExcEntryL
    <3>4. ~ (Group(prog.exc[k].handler_lbl) \subseteq candidate_done)
      BY <2>1, <3>2, <3>3 DEF Ready, Group
    <3>5. PICK m \in Entries : m \notin candidate_done
      BY <3>4 DEF Group
    <3>6. m \in Pending /\ Skipped(m)
      BY <3>1, <3>5 DEF Pending
    <3>7. Start(m) \in 0 .. n /\ n \in Nat
      BY <1>0, <3>6, ProgramFacts DEF Skipped, StartResolves, Resolved, Start, Target
    <3>8. ~ (Start(m) < n)
      <4> SUFFICES ASSUME Start(m) < n PROVE FALSE
        OBVIOUS
      <4>1. Start(m) \in NormallyReachable /\ visited[Start(m)] = UNVISITED
        BY <3>6 DEF Skipped, ReadsReachable, ReadsVisited
      <4> QED
        BY <1>0, <2>1, <2>2, <3>1, <4>1, ReachableVisited DEF IInv
    <3> QED BY <3>6, <3>7, <3>8
  <2>3. (\E k \in Pending : Start(k) = n)' <=> (\E k \in Pending : Start(k) = n)
    BY <2>1 DEF Pending, Entries, Start, Target, n
  <2> QED BY <2>1, <2>2, <2>3 DEF RoundInv, UnreachableNeedsLabelAtEnd
<1>4. ASSUME NEW k \in Entries, ResolveCandidate(k) PROVE RoundInv'
  BY <1>4 DEF ResolveCandidate, RoundInv, UnreachableNeedsLabelAtEnd, Entries
<1>5. ASSUME NEW k \in Entries, RejectEntry(k) PROVE RoundInv'
  BY <1>5 DEF RejectEntry, RoundInv, UnreachableNeedsLabelAtEnd
<1>6. ASSUME NEW h \in Labels, SeedGroup(h) PROVE RoundInv'
  BY <1>6 DEF SeedGroup, RoundInv, UnreachableNeedsLabelAtEnd
<1>7. CASE Drain
  BY <1>7 DEF Drain, Explore, FallOffEnd, DropStale, Visit, JumpFails, LookupFails, RoundInv,
     UnreachableNeedsLabelAtEnd
<1>8. CASE SeedExplicit \/ SeedExplicitFails
  BY <1>8 DEF SeedExplicit, SeedExplicitFails, RoundInv, UnreachableNeedsLabelAtEnd
<1>9. CASE Returned
  BY <1>9 DEF Returned, vars, RoundInv, UnreachableNeedsLabelAtEnd, Terminal,
     Pending, Entries, Start, Target, n
<1> QED BY <1>1, <1>2, <1>3, <1>4, <1>5, <1>6, <1>7, <1>8, <1>9 DEF Next

LEMMA InitRound == Init => RoundInv
BY DEF Init, RoundInv, UnreachableNeedsLabelAtEnd

LEMMA RoundInvStep == IInv /\ RoundInv /\ [Next]_vars => (IInv /\ RoundInv)'
<1>1. ASSUME RoundInv, UNCHANGED vars PROVE RoundInv'
  <2>1. /\ Pending' = Pending /\ Entries' = Entries
        /\ \A k : Skipped(k)' <=> Skipped(k)
        /\ \A k : Start(k)' = Start(k)
        /\ n' = n
    BY <1>1 DEF vars, Pending, Entries, Skipped, StartResolves, Start, ReadsReachable,
       ReadsVisited, NormallyReachable, Indices, n, Edges, TakenEdges, FallEdges,
       JumpResolves, IsNeutral, Ends, AfterNeutral, op, arg, Resolved, Target
  <2> QED BY <1>1, <2>1 DEF vars, RoundInv, UnreachableNeedsLabelAtEnd
<1> QED BY <1>1, IInvStep, RoundStep

\* The error of the second round needs a label at the end of the code.
THEOREM UnreachableErrorIsDead == Spec => []UnreachableNeedsLabelAtEnd
<1>1. Init => IInv /\ RoundInv
  BY InitIInv, InitRound
<1>2. RoundInv => UnreachableNeedsLabelAtEnd
  BY DEF RoundInv
<1> QED BY <1>1, <1>2, RoundInvStep, PTL DEF Spec

-----------------------------------------------------------------------------
(***************************************************************************)
(* The depths that are inferred.                                           *)
(***************************************************************************)

\* The program decides the labels and the groups, so a step does not change them.
LEMMA SameEntries ==
    ASSUME prog' = prog
    PROVE  /\ Entries' = Entries /\ Explicit' = Explicit /\ AutoEntries' = AutoEntries
           /\ \A k : Start(k)' = Start(k) /\ Stop(k)' = Stop(k)
           /\ \A k : (StartResolves(k)' <=> StartResolves(k))
           /\ \A k : (StopResolves(k)' <=> StopResolves(k))
           /\ \A h : Group(h)' = Group(h)
BY DEF Entries, Explicit, AutoEntries, Start, Stop, Target, StartResolves, StopResolves,
       Resolved, Group

\* k and j name one handler label.
Shares(k, j) == prog.exc[j].handler_lbl = prog.exc[k].handler_lbl

\* A group is resolved as a whole, and its inferred depths are its least one.
GroupsWhole ==
    \A k \in AutoEntries \cap resolved, j \in Entries :
        Shares(k, j) =>
            /\ j \in resolved
            /\ exc_depth[k] <= exc_depth[j]
            /\ j \in AutoEntries => exc_depth[k] = exc_depth[j]

\* What a group settles on is at most every candidate in it.
CandidatesLow == \A k \in AutoEntries \cap resolved : exc_depth[k] <= candidate[k]

AutoInv ==
    /\ TypeOK
    /\ Explicit \subseteq resolved
    /\ phase = "done" => resolved = Entries
    /\ GroupsWhole
    /\ CandidatesLow

LEMMA InitAuto == Init => AutoInv
<1> SUFFICES ASSUME Init PROVE AutoInv
  OBVIOUS
<1>1. resolved = Explicit /\ candidate_done = Explicit /\ phase = "start"
  BY DEF Init, Explicit, Entries
<1> QED BY <1>1, InitType DEF AutoInv, GroupsWhole, CandidatesLow, AutoEntries

\* A step that leaves the entries alone.
LEMMA AutoKept ==
    ASSUME AutoInv, TypeOK', prog' = prog,
           UNCHANGED <<exc_depth, candidate, resolved>>,
           phase' = "done" => resolved = Entries
    PROVE  AutoInv'
BY SameEntries DEF AutoInv, GroupsWhole, CandidatesLow, Shares

LEMMA CandidateStep ==
    ASSUME AutoInv, TypeOK', NEW k \in Entries, ResolveCandidate(k)
    PROVE  AutoInv'
<1> USE SameEntries
<1>1. /\ TypeOK /\ prog' = prog /\ k \notin candidate_done
      /\ UNCHANGED <<phase, exc_depth, resolved>>
  BY DEF AutoInv, ResolveCandidate, Pending
<1>2. \A j \in Entries \ {k} : candidate'[j] = candidate[j]
  BY <1>1 DEF ResolveCandidate, TypeOK
<1>3. k \notin resolved /\ resolved \subseteq Entries
  BY <1>1 DEF TypeOK
<1>4. GroupsWhole'
  BY <1>1 DEF GroupsWhole, AutoInv, Shares
<1>5. CandidatesLow'
  BY <1>1, <1>2, <1>3 DEF CandidatesLow, AutoInv
<1> QED BY <1>1, <1>4, <1>5 DEF AutoInv

LEMMA GroupStep ==
    ASSUME AutoInv, TypeOK', NEW h \in Labels, SeedGroup(h)
    PROVE  AutoInv'
<1> USE SameEntries
<1> DEFINE depthOf(k) == IF k \in resolved THEN exc_depth[k] ELSE candidate[k]
           New == Group(h) \ resolved
<1>0. /\ TypeOK /\ prog' = prog /\ phase' # "done"
      /\ UNCHANGED <<visited, candidate, candidate_done>>
  BY DEF AutoInv, SeedGroup
<1>1. PICK d \in {depthOf(k) : k \in Group(h)} :
          /\ Least({depthOf(k) : k \in Group(h)}, d)
          /\ exc_depth' = [k \in Entries |-> IF k \in New THEN d ELSE exc_depth[k]]
  BY DEF SeedGroup
<1>2. \A k \in Group(h) : k \in Entries /\ d <= depthOf(k)
  BY <1>1 DEF Least, Group
<1>3. /\ \A k \in New : exc_depth'[k] = d
      /\ \A k \in Entries \ New : exc_depth'[k] = exc_depth[k]
  BY <1>1, <1>2
<1>4. ~ (Group(h) \subseteq resolved) /\ Group(h) \subseteq candidate_done
  BY DEF SeedGroup, Ready
<1>5. /\ Explicit \subseteq resolved /\ GroupsWhole /\ CandidatesLow
      /\ resolved \subseteq Entries /\ candidate_done \subseteq Entries
  BY <1>0 DEF AutoInv, TypeOK
\* No inferred member of the group was resolved before, as it resolves as a whole.
<1>6. \A k \in Group(h) \cap AutoEntries : k \notin resolved
  <2> SUFFICES ASSUME NEW k \in Group(h) \cap AutoEntries, k \in resolved PROVE FALSE
    OBVIOUS
  <2>1. PICK j \in Group(h) : j \notin resolved
    BY <1>4
  <2>2. Shares(k, j) /\ j \in Entries
    BY DEF Group, Shares
  <2> QED BY <1>5, <2>1, <2>2 DEF GroupsWhole
<1>7. resolved' \in {resolved, resolved \cup New}
  BY DEF SeedGroup
<1>8. \A k \in AutoEntries, j \in Entries : Shares(k, j) =>
          /\ k \in Group(h) <=> j \in Group(h)
  BY DEF Group, Shares, AutoEntries
<1>9. \A k \in Entries : exc_depth[k] \in Int /\ exc_depth'[k] \in Int
  BY <1>0 DEF TypeOK
<1> HIDE DEF New
<1>10. ASSUME NEW k \in AutoEntries \cap resolved', NEW j \in Entries, Shares(k, j)
       PROVE  /\ j \in resolved'
              /\ exc_depth'[k] <= exc_depth'[j]
              /\ j \in AutoEntries => exc_depth'[k] = exc_depth'[j]
  <2>0. k \in Entries
    BY DEF AutoEntries
  <2>1. CASE k \in Group(h)
    <3>1. k \in New /\ resolved' = resolved \cup New /\ j \in Group(h)
      BY <1>6, <1>7, <1>8, <1>10, <2>0, <2>1 DEF New
    <3>2. j \in New \/ (j \in resolved /\ j \notin New /\ j \notin AutoEntries)
      BY <1>6, <3>1 DEF New
    <3>3. CASE j \in New
      BY <1>3, <1>9, <3>1, <3>3
    <3>4. CASE j \in resolved /\ j \notin New /\ j \notin AutoEntries
      <4>1. d <= exc_depth[j]
        BY <1>2, <3>1, <3>4
      <4> QED BY <1>3, <3>1, <3>4, <4>1
    <3> QED BY <3>2, <3>3, <3>4
  <2>2. CASE k \notin Group(h)
    <3>1. k \notin New /\ j \notin Group(h) /\ j \notin New
      BY <1>8, <1>10, <2>2 DEF New
    <3>2. k \in resolved
      BY <1>7, <1>10, <3>1
    <3> QED BY <1>3, <1>5, <1>7, <1>10, <2>0, <3>1, <3>2 DEF GroupsWhole
  <2> QED BY <2>1, <2>2
<1>11. GroupsWhole'
  BY <1>0, <1>10 DEF GroupsWhole, Shares
<1>12. ASSUME NEW k \in AutoEntries \cap resolved' PROVE exc_depth'[k] <= candidate[k]
  <2>0. k \in Entries
    BY DEF AutoEntries
  <2>1. CASE k \in New
    <3>1. k \in Group(h) /\ k \notin resolved
      BY <2>1 DEF New
    <3> QED BY <1>2, <1>3, <2>1, <3>1
  <2>2. CASE k \notin New
    BY <1>3, <1>5, <1>7, <1>12, <2>0, <2>2 DEF CandidatesLow
  <2> QED BY <2>1, <2>2
<1>13. CandidatesLow'
  BY <1>0, <1>5, <1>12 DEF CandidatesLow
<1> QED BY <1>0, <1>5, <1>7, <1>11, <1>13 DEF AutoInv

LEMMA AutoStep == AutoInv /\ [Next]_vars => AutoInv'
<1> SUFFICES ASSUME AutoInv, [Next]_vars PROVE AutoInv'
  OBVIOUS
<1>0. TypeOK /\ TypeOK'
  BY TypeStep DEF AutoInv
<1>2. prog' = prog
  BY DEF Next, vars, SeedExplicit, SeedExplicitFails, Drain, DrainDone, ResolveCandidate,
     RejectEntry, CandidatesDone, SeedGroup, RoundDone, Returned
<1>3. ASSUME UNCHANGED <<exc_depth, candidate, resolved>>,
             phase' = "done" => phase = "done" \/ resolved = Entries
      PROVE  AutoInv'
  BY <1>0, <1>2, <1>3, AutoKept DEF AutoInv
<1>4. CASE SeedExplicit \/ SeedExplicitFails
  BY <1>3, <1>4 DEF SeedExplicit, SeedExplicitFails
<1>5. CASE Drain
  <2>1. UNCHANGED <<exc_depth, candidate, resolved>> /\ phase' # "done"
    BY <1>5 DEF Drain, Explore, FallOffEnd, DropStale, Visit, JumpFails, LookupFails
  <2> QED BY <1>3, <2>1
<1>6. CASE DrainDone
  BY <1>3, <1>6 DEF DrainDone
<1>7. ASSUME NEW k \in Entries, ResolveCandidate(k) PROVE AutoInv'
  BY <1>0, <1>7, CandidateStep
<1>8. ASSUME NEW k \in Entries, RejectEntry(k) PROVE AutoInv'
  BY <1>3, <1>8 DEF RejectEntry
<1>9. CASE CandidatesDone \/ RoundDone
  BY <1>3, <1>9 DEF CandidatesDone, RoundDone
<1>10. ASSUME NEW h \in Labels, SeedGroup(h) PROVE AutoInv'
  BY <1>0, <1>10, GroupStep
<1>11. CASE UNCHANGED vars
  BY <1>3, <1>11 DEF vars
<1> QED
  BY <1>4, <1>5, <1>6, <1>7, <1>8, <1>9, <1>10, <1>11 DEF Next, Returned

\* Whatever the program, the entries of one handler label end with one inferred
\* depth, the least of all its entries.
THEOREM SharedHandlerAgreesHolds == Spec => []SharedHandlerAgrees
<1>1. AutoInv => SharedHandlerAgrees
  BY DEF AutoInv, GroupsWhole, Shares, SharedHandlerAgrees, AutoEntries
<1> QED BY <1>1, InitAuto, AutoStep, PTL DEF Spec

\* A candidate is at most the depth of what ordinary control flow reaches in its
\* region: all of that is explored when the candidate is taken.
CandidatesFit ==
    ~ overflowed =>
        \A k \in AutoEntries \cap candidate_done :
            \A i \in Region(k) \cap NormallyReachable : candidate[k] <= visited[i]

\* drain() only raises depths.
LEMMA DrainRaises ==
    ASSUME TypeOK, Drain
    PROVE  \A i \in Indices : visited[i] <= visited'[i]
<1>1. \A i \in Indices : visited[i] \in Int
  BY DEF TypeOK
<1>2. PICK w \in worklist : Explore(w)
  BY DEF Drain
<1>3. w[2] \in Int
  BY DEF TypeOK
<1>4. CASE visited' = visited
  BY <1>1, <1>4
<1>5. CASE Visit(w)
  <2>1. w[2] > visited[w[1]] /\ visited' = [visited EXCEPT ![w[1]] = w[2]]
    BY <1>5 DEF Visit, Improves
  <2> TAKE i \in Indices
  <2>2. visited'[i] = IF i = w[1] THEN w[2] ELSE visited[i]
    BY <2>1 DEF TypeOK
  <2> QED BY <1>1, <1>3, <2>1, <2>2
<1> QED BY <1>2, <1>4, <1>5 DEF Explore, FallOffEnd, DropStale, JumpFails, LookupFails

LEMMA SameReachable ==
    ASSUME prog' = prog
    PROVE  /\ NormallyReachable' = NormallyReachable
           /\ Indices' = Indices
           /\ \A k : Region(k)' = Region(k)
BY DEF NormallyReachable, Indices, n, Edges, TakenEdges, FallEdges, JumpResolves,
       IsNeutral, Ends, AfterNeutral, op, arg, Resolved, Target, Region, Start, Stop

\* A step that leaves the candidates alone and raises depths.
LEMMA FitKept ==
    ASSUME TypeOK, TypeOK', CandidatesFit, prog' = prog,
           UNCHANGED <<candidate, candidate_done>>,
           \A i \in Indices : visited[i] <= visited'[i],
           overflowed => overflowed'
    PROVE  CandidatesFit'
<1> SUFFICES ASSUME ~ overflowed', NEW k \in AutoEntries \cap candidate_done,
                    NEW i \in Region(k) \cap NormallyReachable
             PROVE  candidate[k] <= visited'[i]
  BY SameReachable, SameEntries DEF CandidatesFit
<1>1. candidate[k] <= visited[i]
  BY DEF CandidatesFit
<1>2. i \in Indices /\ k \in Entries
  BY DEF NormallyReachable, AutoEntries
<1>3. visited[i] \in Int /\ visited'[i] \in Int /\ candidate[k] \in Int
  BY <1>2, SameReachable DEF TypeOK
<1>4. visited[i] <= visited'[i]
  BY <1>2
<1> QED BY <1>1, <1>3, <1>4

\* With nothing left to explore, the candidate is the least of depths that include
\* those of every instruction of the region that ordinary control flow reaches.
LEMMA FitCandidate ==
    ASSUME IInv, RoundInv, CandidatesFit, NEW k \in Entries, ResolveCandidate(k)
    PROVE  CandidatesFit'
<1>1. PICK c \in RegionDepths(k) :
          Least(RegionDepths(k), c) /\ candidate' = [candidate EXCEPT ![k] = c]
  BY DEF ResolveCandidate
<1>2. /\ phase = "candidates" /\ prog' = prog
      /\ candidate_done' = candidate_done \cup {k}
      /\ UNCHANGED <<visited, overflowed>>
  BY DEF ResolveCandidate
<1> SUFFICES ASSUME ~ overflowed, NEW j \in AutoEntries \cap (candidate_done \cup {k}),
                    NEW i \in Region(j) \cap NormallyReachable
             PROVE  candidate'[j] <= visited[i]
  BY <1>2, SameReachable, SameEntries DEF CandidatesFit
<1>3. TypeOK /\ WorklistCovers /\ worklist = {}
  BY <1>2 DEF IInv, RoundInv
<1>4. visited[i] # UNVISITED
  BY <1>2, <1>3, ReachableVisited DEF Failures
<1>5. CASE j = k
  <2>1. visited[i] \in RegionDepths(k)
    BY <1>4, <1>5 DEF RegionDepths
  <2>2. candidate'[k] = c
    BY <1>1, <1>3 DEF TypeOK
  <2> QED BY <1>1, <1>5, <2>1, <2>2 DEF Least
<1>6. CASE j # k
  <2>1. candidate'[j] = candidate[j]
    BY <1>1, <1>3, <1>6 DEF TypeOK, AutoEntries
  <2> QED BY <1>6, <2>1 DEF CandidatesFit
<1> QED BY <1>5, <1>6

LEMMA FitStep ==
    ASSUME IInv, RoundInv, TypeOK', CandidatesFit, [Next]_vars
    PROVE  CandidatesFit'
<1>0. TypeOK
  BY DEF IInv
<1>1. \A i \in Indices : visited[i] \in Int
  BY <1>0 DEF TypeOK
<1>2. prog' = prog
  BY DEF Next, vars, SeedExplicit, SeedExplicitFails, Drain, DrainDone, ResolveCandidate,
     RejectEntry, CandidatesDone, SeedGroup, RoundDone, Returned
<1>3. ASSUME UNCHANGED <<visited, candidate, candidate_done>>, overflowed => overflowed'
      PROVE  CandidatesFit'
  BY <1>0, <1>1, <1>2, <1>3, FitKept
<1>4. CASE SeedExplicit
  <2>1. ~ overflowed
    BY <1>4 DEF SeedExplicit, IInv, StartState
  <2> QED BY <1>3, <1>4, <2>1 DEF SeedExplicit
<1>5. CASE Drain
  <2>1. PICK w \in worklist : Explore(w)
    BY <1>5 DEF Drain
  <2>2. Visit(w) => (overflowed => overflowed')
    BY DEF Visit
  <2>3. FallOffEnd(w) \/ DropStale(w) \/ JumpFails(w) \/ LookupFails(w)
          => (overflowed => overflowed')
    BY DEF FallOffEnd, DropStale, JumpFails, LookupFails
  <2>4. overflowed => overflowed'
    BY <2>1, <2>2, <2>3 DEF Explore
  <2>5. UNCHANGED <<candidate, candidate_done>>
    BY <1>5 DEF Drain
  <2> QED BY <1>0, <1>2, <1>5, <2>4, <2>5, DrainRaises, FitKept
<1>6. CASE SeedExplicitFails \/ DrainDone \/ CandidatesDone \/ RoundDone
  BY <1>3, <1>6 DEF SeedExplicitFails, DrainDone, CandidatesDone, RoundDone
<1>7. ASSUME NEW k \in Entries, ResolveCandidate(k) PROVE CandidatesFit'
  BY <1>7, FitCandidate
<1>8. ASSUME NEW k \in Entries, RejectEntry(k) PROVE CandidatesFit'
  BY <1>3, <1>8 DEF RejectEntry
<1>9. ASSUME NEW h \in Labels, SeedGroup(h) PROVE CandidatesFit'
  BY <1>3, <1>9 DEF SeedGroup
<1>10. CASE UNCHANGED vars
  BY <1>3, <1>10 DEF vars
<1> QED BY <1>4, <1>5, <1>6, <1>7, <1>8, <1>9, <1>10 DEF Next, Returned

FitInv == IInv /\ RoundInv /\ AutoInv /\ CandidatesFit

LEMMA InitFit == Init => FitInv
<1> SUFFICES ASSUME Init PROVE FitInv
  OBVIOUS
<1>1. candidate_done = Explicit
  BY DEF Init, Explicit, Entries
<1>2. CandidatesFit
  BY <1>1 DEF CandidatesFit, AutoEntries
<1> QED BY <1>2, InitIInv, InitAuto, InitRound DEF FitInv

LEMMA FitInvStep == FitInv /\ [Next]_vars => FitInv'
<1> SUFFICES ASSUME FitInv, [Next]_vars PROVE FitInv'
  OBVIOUS
<1>1. IInv' /\ RoundInv' /\ AutoInv'
  BY IInvStep, RoundInvStep, AutoStep DEF FitInv
<1>2. TypeOK'
  BY <1>1 DEF IInv
<1>3. CandidatesFit'
  BY <1>2, FitStep DEF FitInv
<1> QED BY <1>1, <1>3 DEF FitInv

LEMMA FitGives == FitInv => AutoDepthFitsReached
<1> SUFFICES ASSUME FitInv, phase = "done", ~ overflowed,
                    NEW k \in AutoEntries, NEW i \in Region(k) \cap NormallyReachable
             PROVE  exc_depth[k] <= visited[i]
  BY DEF AutoDepthFitsReached
<1>1. /\ TypeOK /\ k \in Entries /\ k \in resolved /\ k \in candidate_done
      /\ i \in Indices
  BY DEF FitInv, AutoInv, AutoEntries, TypeOK, NormallyReachable
<1>2. exc_depth[k] <= candidate[k]
  BY <1>1 DEF FitInv, AutoInv, CandidatesLow
<1>3. candidate[k] <= visited[i]
  BY <1>1 DEF FitInv, CandidatesFit
<1> QED BY <1>1, <1>2, <1>3 DEF TypeOK

\* Whatever the program, no instruction of the region that ordinary control flow
\* reaches is explored with less than the depth inferred for its handler.
THEOREM AutoDepthFitsReachedHolds == Spec => []AutoDepthFitsReached
BY InitFit, FitInvStep, FitGives, PTL DEF Spec

\* No inferred region holds an instruction that only unwinding reaches.
RegionsReached ==
    \A k \in AutoEntries : \A i \in Region(k) :
        visited[i] # UNVISITED => i \in NormallyReachable

\* A too-high depth ("rather than silently emitting a too-high depth", stackdepth.cpp:
\* 215-219) is only ever given to an entry that protects code reached by unwinding.
THEOREM TooHighNeedsUnwoundCode == Spec => [](RegionsReached => AutoDepthFitsRegion)
<1>1. AutoDepthFitsReached /\ RegionsReached => AutoDepthFitsRegion
  BY DEF AutoDepthFitsReached, RegionsReached, AutoDepthFitsRegion
<1> QED BY <1>1, InitFit, FitInvStep, FitGives, PTL DEF Spec

\* What the entries of one label promise each other, for one handler instruction.
OneInstructionAgrees ==
    phase = "done" =>
        \A k \in AutoEntries, j \in Entries :
            (HandlerResolves(k) /\ HandlerResolves(j) /\ Handler(j) = Handler(k)) =>
                /\ exc_depth[k] <= exc_depth[j]
                /\ j \in AutoEntries => exc_depth[k] = exc_depth[j]

HandlerLabels(p) == {p.exc[k].handler_lbl : k \in 1 .. p.m} \cap p.resolves

\* Where no two handler labels stand at one instruction, as from_code() makes them
\* (it has one label for each boundary), the entries that share a handler
\* instruction agree in the same way.
THEOREM OneInstructionAgreesHolds ==
    ASSUME \A p \in Programs : \A l, m \in HandlerLabels(p) :
               p.label_idx[l] = p.label_idx[m] => l = m
    PROVE  Spec => []OneInstructionAgrees
<1>1. ASSUME AutoInv, phase = "done", NEW k \in AutoEntries, NEW j \in Entries,
             HandlerResolves(k), HandlerResolves(j), Handler(j) = Handler(k)
      PROVE  /\ exc_depth[k] <= exc_depth[j]
             /\ j \in AutoEntries => exc_depth[k] = exc_depth[j]
  <2>1. Shares(k, j)
    <3> DEFINE l == prog.exc[k].handler_lbl
               h == prog.exc[j].handler_lbl
    <3>1. prog \in Programs /\ k \in 1 .. prog.m /\ j \in 1 .. prog.m
      BY <1>1 DEF AutoInv, TypeOK, AutoEntries, Entries
    <3>2. l \in HandlerLabels(prog) /\ h \in HandlerLabels(prog)
      BY <1>1, <3>1 DEF HandlerLabels, HandlerResolves, Resolved
    <3>3. prog.label_idx[l] = prog.label_idx[h]
      BY <1>1 DEF Handler, Target
    <3> QED BY <3>1, <3>2, <3>3 DEF Shares
  <2>2. k \in resolved
    BY <1>1 DEF AutoInv, AutoEntries
  <2> QED BY <1>1, <2>1, <2>2 DEF AutoInv, GroupsWhole
<1>2. AutoInv => OneInstructionAgrees
  BY <1>1 DEF OneInstructionAgrees
<1> QED BY <1>2, InitAuto, AutoStep, PTL DEF Spec


-----------------------------------------------------------------------------
(***************************************************************************)
(* The stack size of compute_stacksize() is enough for every execution of  *)
(* the code object built with it.                                          *)
(***************************************************************************)
\* When compute_stacksize() has succeeded nothing is left to explore.
DoneState == phase = "done" => worklist = {} /\ resolved = Entries

LEMMA DoneStep == ASSUME IInv, DoneState, [Next]_vars PROVE DoneState'
<1> SUFFICES ASSUME phase' = "done" PROVE (worklist = {} /\ resolved = Entries)'
  BY DEF DoneState
<1>1. CASE DrainDone
  BY <1>1 DEF DrainDone, Entries
<1>2. CASE UNCHANGED vars
  BY <1>2 DEF DoneState, vars, Entries
<1>3. CASE Drain
  BY <1>3 DEF Drain, Explore, FallOffEnd, DropStale, Visit, JumpFails, LookupFails
<1>4. ASSUME NEW k \in Entries, ResolveCandidate(k) \/ RejectEntry(k) PROVE FALSE
  BY <1>4 DEF ResolveCandidate, RejectEntry
<1>5. ASSUME NEW h \in Labels, SeedGroup(h) PROVE FALSE
  BY <1>5 DEF SeedGroup
<1> QED
  BY <1>1, <1>2, <1>3, <1>4, <1>5
  DEF Next, SeedExplicit, SeedExplicitFails, CandidatesDone, RoundDone, Returned

\* The depth an execution is at is one compute_stacksize() explored.
ExecCovered ==
    /\ sp \in Int /\ pc \in 0 .. n
    /\ phase # "done" => pc = 0 /\ sp = 0
    /\ (phase = "done" /\ ~ overflowed) => Covered(pc, sp)

ExecIInv == IInv /\ DoneState /\ ExecCovered

\* With an empty worklist, to be covered is to be explored.
LEMMA CoveredWhenDone ==
    ASSUME TypeOK, worklist = {}, NEW j \in 0 .. n, NEW d \in Int, Covered(j, d)
    PROVE  IF j < n THEN visited[j] # UNVISITED /\ d <= visited[j] ELSE d <= maxdepth
BY ProgramFacts DEF Covered

LEMMA DoneStays == ASSUME IInv, phase = "done", Next PROVE UNCHANGED vars
<1>1. \A k \in Entries : ~ ResolveCandidate(k) /\ ~ RejectEntry(k)
  BY DEF ResolveCandidate, RejectEntry
<1>2. \A h \in Labels : ~ SeedGroup(h)
  BY DEF SeedGroup
<1> QED
  BY <1>1, <1>2 DEF Next, SeedExplicit, SeedExplicitFails, Drain,
     DrainDone, CandidatesDone, RoundDone, Returned

\* While the execution moves nothing else does, so what covers j at depth d
\* covers the new pc when that is where it goes.
LEMMA CoveredMoves ==
    ASSUME UNCHANGED vars, NEW j, NEW d, Covered(j, d), pc' = j, sp' = d
    PROVE  Covered(pc, sp)'
BY SameProgram DEF Covered, vars

LEMMA AssembleStep == ASSUME ExecIInv, Assembling PROVE ExecCovered'
<1> USE DEF ExecIInv
<1>1. pc' = pc /\ sp' = sp /\ Next
  BY DEF Assembling
<1>2. IInv'
  BY <1>1, IInvStep
<1>3. prog' = prog
  <2>1. \A k \in Entries : ResolveCandidate(k) \/ RejectEntry(k) => prog' = prog
    BY DEF ResolveCandidate, RejectEntry
  <2>2. \A h \in Labels : SeedGroup(h) => prog' = prog
    BY DEF SeedGroup
  <2> QED
    BY <1>1, <2>1, <2>2 DEF Next, SeedExplicit, SeedExplicitFails, Drain, DrainDone,
       CandidatesDone, RoundDone, Returned, vars
<1>4. sp' \in Int /\ pc' \in 0 .. n'
  BY <1>1, <1>3, SameProgram DEF ExecCovered
<1>5. CASE phase = "done"
  <2>1. UNCHANGED vars
    BY <1>1, <1>5, DoneStays
  <2>2. (phase = "done" /\ ~ overflowed) => Covered(pc, sp)'
    BY <1>1, <2>1, CoveredMoves DEF ExecCovered
  <2> QED BY <1>4, <1>5, <2>1, <2>2 DEF vars, ExecCovered
<1>6. CASE phase # "done"
  <2>1. pc' = 0 /\ sp' = 0
    BY <1>1, <1>6 DEF ExecCovered
  <2>2. (phase = "done" /\ ~ overflowed)' => Covered(0, 0)'
    BY <1>2 DEF IInv, WorklistCovers, CoversSeeds, Failures
  <2>3. (phase = "done" /\ ~ overflowed)' => Covered(pc, sp)'
    BY <2>1, <2>2 DEF Covered
  <2> QED BY <1>4, <2>1, <2>3 DEF ExecCovered
<1> QED BY <1>5, <1>6

LEMMA RunningFacts ==
    ASSUME ExecIInv, Running
    PROVE  /\ TypeOK /\ worklist = {} /\ resolved = Entries
           /\ pc \in Indices /\ sp \in Int
           /\ visited[pc] \in Int /\ visited[pc] # UNVISITED /\ sp <= visited[pc]
           /\ CoversSeeds /\ CoversEdges(pc)
<1>1. TypeOK /\ worklist = {} /\ resolved = Entries /\ pc \in 0 .. n /\ sp \in Int
  BY DEF ExecIInv, IInv, DoneState, ExecCovered, Running
<1>2. pc \in Indices /\ pc < n
  BY <1>1, ProgramFacts DEF Running, Indices
<1>3. Covered(pc, sp)
  BY DEF ExecIInv, ExecCovered, Running
<1>4. visited[pc] \in Int /\ visited[pc] # UNVISITED /\ sp <= visited[pc]
  BY <1>1, <1>2, <1>3, CoveredWhenDone DEF TypeOK
<1>5. CoversSeeds /\ CoversEdges(pc)
  BY <1>2 DEF ExecIInv, IInv, WorklistCovers, Running, Failures
<1> QED BY <1>1, <1>2, <1>4, <1>5

LEMMA ExecuteStep == ASSUME ExecIInv, Execute PROVE ExecCovered'
<1>1. PICK e \in Edges(pc) : pc' = e[1] /\ sp' = sp + e[2]
  BY DEF Execute
<1>2. Running /\ UNCHANGED vars
  BY DEF Execute
<1>3. e[1] \in 0 .. n /\ e[2] \in Int
  BY <1>2, RunningFacts, EdgeType
<1>4. Covered(e[1], visited[pc] + e[2])
  BY <1>2, RunningFacts DEF CoversEdges
<1>5. Covered(e[1], sp + e[2])
  <2>1. IF e[1] < n THEN visited[e[1]] # UNVISITED /\ visited[pc] + e[2] <= visited[e[1]]
                    ELSE visited[pc] + e[2] <= maxdepth
    BY <1>2, <1>3, <1>4, RunningFacts, CoveredWhenDone
  <2>2. sp + e[2] <= visited[pc] + e[2] /\ visited[pc] \in Int /\ sp \in Int
    BY <1>2, <1>3, RunningFacts
  <2>3. maxdepth \in Int /\ n \in Nat /\ (e[1] < n => visited[e[1]] \in Int)
    BY <1>2, <1>3, RunningFacts, ProgramFacts DEF TypeOK, Indices
  <2> QED BY <1>3, <2>1, <2>2, <2>3 DEF Covered
<1>6. Covered(pc, sp)'
  BY <1>1, <1>2, <1>5, CoveredMoves
<1>7. sp' \in Int /\ pc' \in 0 .. n'
  BY <1>1, <1>2, <1>3, RunningFacts, SameProgram DEF vars
<1>8. phase' = "done"
  BY <1>2 DEF Running, vars
<1> QED BY <1>6, <1>7, <1>8 DEF ExecCovered

LEMMA RaiseStep == ASSUME ExecIInv, Raise PROVE ExecCovered'
<1>1. PICK k \in Entries :
          Protecting(k) /\ pc' = Handler(k) /\ sp' = SeedDepth(k, exc_depth[k])
  BY DEF Raise
<1>2. Running /\ UNCHANGED vars
  BY DEF Raise
<1>3. CoversSeed(k)
  <2>1. ~ NoRegion(k)
    BY <1>1 DEF Protecting, NoRegion, Group
  <2> QED BY <1>1, <1>2, <2>1, RunningFacts DEF CoversSeeds, Running, Failures
<1>4. Handler(k) \in 0 .. n /\ SeedDepth(k, exc_depth[k]) \in Int
  BY <1>2, <1>3, RunningFacts, ProgramFacts, SeedDepthType
  DEF CoversSeed, Handler, HandlerResolves, Resolved, Target, TypeOK
<1>5. Covered(pc, sp)'
  BY <1>1, <1>2, <1>3, CoveredMoves DEF CoversSeed
<1>6. sp' \in Int /\ pc' \in 0 .. n'
  BY <1>1, <1>2, <1>4, SameProgram DEF vars
<1>7. phase' = "done"
  BY <1>2 DEF Running, vars
<1> QED BY <1>5, <1>6, <1>7 DEF ExecCovered

LEMMA ExecInitIInv == ExecInit => ExecIInv
<1> SUFFICES ASSUME ExecInit PROVE ExecIInv
  OBVIOUS
<1>1. IInv /\ TypeOK
  BY InitIInv DEF ExecInit, IInv
<1>2. DoneState /\ ExecCovered
  BY <1>1, ProgramFacts DEF ExecInit, Init, DoneState, ExecCovered
<1> QED BY <1>1, <1>2 DEF ExecIInv

LEMMA ExecIInvStep == ExecIInv /\ [ExecNext]_allVars => ExecIInv'
<1> SUFFICES ASSUME ExecIInv, [ExecNext]_allVars PROVE ExecIInv'
  OBVIOUS
<1>1. [Next]_vars
  BY DEF ExecNext, Assembling, Execute, Raise, allVars
<1>2. IInv' /\ DoneState'
  BY <1>1, IInvStep, DoneStep DEF ExecIInv
<1>3. CASE ExecNext
  BY <1>2, <1>3, AssembleStep, ExecuteStep, RaiseStep DEF ExecIInv, ExecNext
<1>4. CASE UNCHANGED allVars
  <2>1. UNCHANGED vars /\ pc' = pc /\ sp' = sp
    BY <1>4 DEF allVars
  <2>2. (phase = "done" /\ ~ overflowed) => Covered(pc, sp)'
    BY <2>1, CoveredMoves DEF ExecIInv, ExecCovered
  <2>3. ExecCovered'
    BY <2>1, <2>2, SameProgram DEF ExecIInv, ExecCovered, vars
  <2> QED BY <1>2, <2>3 DEF ExecIInv
<1> QED BY <1>3, <1>4

\* Every execution of every program fits in the computed stack.
THEOREM StackIsEnough == ExecSpec => []NoStackOverflow
<1>1. ExecIInv => NoStackOverflow
  <2> SUFFICES ASSUME ExecIInv, phase = "done", ~ overflowed
               PROVE  sp <= maxdepth /\ (pc < n => DepthAfter(pc, sp) <= maxdepth)
    BY DEF NoStackOverflow
  <2> USE DEF ExecIInv
  <2>1. TypeOK /\ worklist = {} /\ pc \in 0 .. n /\ sp \in Int /\ Covered(pc, sp)
    BY DEF IInv, DoneState, ExecCovered
  <2>2. maxdepth \in Int /\ n \in Nat
    BY <2>1, ProgramFacts DEF TypeOK
  <2>3. CASE pc >= n
    BY <2>1, <2>2, <2>3, CoveredWhenDone
  <2>4. CASE pc < n
    <3>1. pc \in Indices
      BY <2>1, <2>2, <2>4 DEF Indices
    <3>2. visited[pc] \in Int /\ visited[pc] # UNVISITED /\ sp <= visited[pc]
      BY <2>1, <2>4, <3>1, CoveredWhenDone DEF TypeOK
    <3>3. visited[pc] <= maxdepth /\ DepthAfter(pc, visited[pc]) <= maxdepth
      BY <3>1, <3>2 DEF IInv, WorklistCovers, CoversEdges, Failures
    <3>4. DepthAfter(pc, sp) <= DepthAfter(pc, visited[pc])
      BY <2>1, <3>1, <3>2, ProgramFacts, OpAssumption DEF DepthAfter
    <3>5. DepthAfter(pc, sp) \in Int /\ DepthAfter(pc, visited[pc]) \in Int
      BY <2>1, <3>1, <3>2, DepthAfterType
    <3> QED BY <2>1, <2>2, <3>2, <3>3, <3>4, <3>5
  <2> QED BY <2>1, <2>2, <2>3, <2>4
<1> QED BY ExecInitIInv, ExecIInvStep, <1>1, PTL DEF ExecSpec

=============================================================================
