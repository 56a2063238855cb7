-------------------------- MODULE Relaxation_proofs --------------------------
(***************************************************************************)
(* Proofs about the EXTENDED_ARG relaxation, for every slot list, every    *)
(* byte size and every size of the caches.                                 *)
(***************************************************************************)
EXTENDS Relaxation, TLAPS

LEMMA ModType ==
    ASSUME NEW x \in Int, NEW m \in Nat \ {0}
    PROVE  x % m \in 0 .. m - 1 /\ x % m \in Nat
OBVIOUS

LEMMA ModSmall ==
    ASSUME NEW m \in Nat \ {0}, NEW x \in 0 .. m - 1
    PROVE  x % m = x
OBVIOUS

\* extended_args_needed() is monotone, and n prefixes hold what needs n.
LEMMA ExtNeededFacts ==
    ASSUME NEW a \in 0 .. Capacity[3] - 1
    PROVE  /\ ExtNeeded(a) \in Exts
           /\ \A e \in Exts : ExtNeeded(a) <= e => a \in 0 .. Capacity[e] - 1
           /\ \A b \in 0 .. Capacity[3] - 1 : a <= b => ExtNeeded(a) <= ExtNeeded(b)
<1> USE CapacityAssumption DEF Exts
<1>1. \A e \in Exts : Capacity[e] \in Nat \ {0}
  OBVIOUS
<1>2. Exts = {0, 1, 2, 3}
  OBVIOUS
<1>3. \A e \in {0, 1, 2, 3} : ExtNeeded(a) <= e => a < Capacity[e]
  BY <1>1 DEF ExtNeeded
<1> QED BY <1>1, <1>2, <1>3 DEF ExtNeeded

LEMMA ProgramFacts ==
    ASSUME TypeOK
    PROVE  /\ n \in Nat
           /\ \A i \in Slots : /\ prog.kind[i] \in Kinds
                               /\ prog.cache[i] \in Nat /\ prog.cache[i] <= MaxCache
                               /\ prog.int[i] \in 0 .. Capacity[3] - 1
                               /\ prog.target[i] \in -1 .. n
                               /\ Resolved(i) => prog.target[i] \in 0 .. n
<1>1. IsProgram(prog) /\ n \in Nat
  BY DEF TypeOK, IsProgram, n
<1>2. MaxCache \in Nat
  BY CapacityAssumption
<1>3. \A i \in Slots : prog.kind[i] \in Kinds /\ prog.int[i] \in 0 .. Capacity[3] - 1
  BY <1>1 DEF IsProgram, n, Slots
<1>4. \A i \in Slots : prog.cache[i] \in 0 .. MaxCache
  BY <1>1 DEF IsProgram, n, Slots
<1>5. \A i \in Slots : prog.target[i] \in -1 .. n
  BY <1>1 DEF IsProgram, n, Slots
<1> QED BY <1>1, <1>2, <1>3, <1>4, <1>5 DEF Resolved

LEMMA ArgInType ==
    ASSUME TypeOK, NEW x \in [Slots -> Exts], NEW o \in [0 .. n -> Nat],
           NEW i \in Slots, IsJump(i), Resolved(i)
    PROVE  /\ SizeWith(x[i], i) \in Nat /\ NextIn(x, o, i) \in Nat
           /\ o[prog.target[i]] \in Nat
           /\ ArgIn(x, o, i) \in Nat
<1>1. prog.target[i] \in 0 .. n /\ prog.cache[i] \in Nat /\ x[i] \in Nat /\ n \in Nat
  BY ProgramFacts DEF Exts
<1>2. o[i] \in Nat /\ o[prog.target[i]] \in Nat
  BY <1>1 DEF Slots
<1>3. SizeWith(x[i], i) \in Nat
  BY <1>1 DEF SizeWith
<1>6. NextIn(x, o, i) \in Nat
  BY <1>2, <1>3 DEF NextIn
<1>4. \A d \in Int : d % ArgModulus \in Nat
  BY ModType, CapacityAssumption
<1>5. prog.kind[i] \in {"ABS", "FWD", "BWD"}
  BY ProgramFacts DEF IsJump, Kinds
<1> QED BY <1>2, <1>3, <1>4, <1>5, <1>6 DEF ArgIn

-----------------------------------------------------------------------------
(***************************************************************************)
(* Type correctness, and the bound that keeps offsets from wrapping.       *)
(***************************************************************************)
Bounded == \A j \in 0 .. n : offset[j] <= j * (4 + MaxCache)

LEMMA BoundedBelowModulus ==
    ASSUME TypeOK, Bounded, NEW j \in 0 .. n
    PROVE  offset[j] \in 0 .. ArgModulus - 1
<1>1. n \in Nat /\ n * (4 + MaxCache) < ArgModulus /\ MaxCache \in Nat /\ ArgModulus \in Nat
  BY CapacityAssumption DEF TypeOK, IsProgram, n
<1>2. \A k \in Nat, m \in Nat : m <= n => m * k <= n * k
  BY <1>1
<1>3. j \in Nat /\ j <= n /\ 4 + MaxCache \in Nat
  BY <1>1
<1>4. j * (4 + MaxCache) <= n * (4 + MaxCache)
  BY <1>2, <1>3
<1>5. offset[j] \in Nat /\ offset[j] <= j * (4 + MaxCache)
  BY DEF Bounded, TypeOK
<1>6. j * (4 + MaxCache) \in Nat /\ n * (4 + MaxCache) \in Nat
  BY <1>1, <1>3
<1> QED BY <1>1, <1>4, <1>5, <1>6

LEMMA NeededType ==
    ASSUME TypeOK, Bounded, NEW i \in Slots, IsJump(i), Resolved(i)
    PROVE  ArgIn(ext, offset, i) \in 0 .. Capacity[3] - 1 /\ Needed(i) \in Exts
<1>1. offset[prog.target[i]] \in 0 .. ArgModulus - 1
  BY ProgramFacts, BoundedBelowModulus
<1>2. NextIn(ext, offset, i) \in Nat /\ offset[prog.target[i]] \in Nat
  BY ArgInType DEF TypeOK
<1>3. \A d \in Int : d % ArgModulus \in 0 .. ArgModulus - 1
  BY ModType, CapacityAssumption
<1>4. prog.kind[i] \in {"ABS", "FWD", "BWD"}
  BY ProgramFacts DEF IsJump, Kinds
<1>5. ArgIn(ext, offset, i) \in 0 .. ArgModulus - 1
  BY <1>1, <1>2, <1>3, <1>4 DEF ArgIn
<1>6. ArgModulus \in Nat /\ ArgModulus <= Capacity[3] /\ Capacity[3] \in Nat
  BY CapacityAssumption DEF Exts
<1>7. ArgIn(ext, offset, i) \in 0 .. Capacity[3] - 1
  BY <1>5, <1>6
<1> QED BY <1>7, ExtNeededFacts DEF Needed

LEMMA StepKeepsProgram == [Next]_vars => prog' = prog
BY DEF Next, Assign, AssignDone, Grow, UnresolvedLabel, GrowDone, Emit, EmitDone,
   Returned, vars

LEMMA InitType == Init => TypeOK /\ Bounded
<1> SUFFICES ASSUME Init PROVE TypeOK /\ Bounded
  OBVIOUS
<1>1. IsProgram(prog)
  BY ProgramsAssumption DEF Init
<1>2. \A i \in Slots : ExtNeeded(prog.int[i]) \in Exts
  BY <1>1, ExtNeededFacts DEF IsProgram, Slots, n
<1>3. ext \in [Slots -> Exts]
  BY <1>2 DEF Init, Slots, n, Exts
<1>4. 0 \in 0 .. n
  BY <1>1 DEF IsProgram, n
<1>5. \A j \in Nat : 0 <= j * (4 + MaxCache)
  BY CapacityAssumption
<1>6. Bounded
  BY <1>5 DEF Init, Bounded, n
<1> QED BY <1>1, <1>3, <1>4, <1>6 DEF Init, TypeOK, Slots, n

LEMMA SizeBound ==
    ASSUME TypeOK, NEW i \in Slots
    PROVE  SizeWith(ext[i], i) \in Nat /\ SizeWith(ext[i], i) <= 4 + MaxCache
<1>1. ext[i] \in 0 .. 3
  BY DEF TypeOK, Exts
<1> QED BY <1>1, ProgramFacts, CapacityAssumption DEF SizeWith

LEMMA AssignType == ASSUME TypeOK, Bounded, Assign PROVE TypeOK' /\ Bounded'
<1> DEFINE c == cursor
           s == SizeWith(ext[c], c)
           K == 4 + MaxCache
<1>1. c \in Slots /\ c + 1 \in 0 .. n /\ n \in Nat /\ c \in Nat
  BY ProgramFacts DEF Assign, TypeOK, Slots
<1>2. s \in Nat /\ s <= K
  BY <1>1, SizeBound
<1>3. offset[c] \in Nat /\ offset[c] <= c * K
  BY <1>1 DEF TypeOK, Bounded, Slots
<1>4. K \in Nat
  BY CapacityAssumption
<1>5. (c + 1) * K = c * K + K /\ c * K \in Nat
  BY <1>1, <1>4
<1>6. offset[c] + s \in Nat /\ offset[c] + s <= (c + 1) * K
  <2> HIDE DEF s, K, c
  <2> QED BY <1>2, <1>3, <1>4, <1>5
<1>7. offset' = [offset EXCEPT ![c + 1] = offset[c] + s]
  BY DEF Assign
<1>8. offset' \in [0 .. n -> Nat]
  BY <1>6, <1>7 DEF TypeOK
<1>9. \A j \in 0 .. n : offset'[j] <= j * K
  <2> TAKE j \in 0 .. n
  <2>1. CASE j = c + 1
    BY <2>1, <1>1, <1>6, <1>7 DEF TypeOK
  <2>2. CASE j # c + 1
    BY <2>2, <1>1, <1>7 DEF TypeOK, Bounded
  <2> QED BY <2>1, <2>2
<1> QED BY <1>1, <1>8, <1>9 DEF Assign, TypeOK, Bounded, n, Slots

LEMMA GrowType == ASSUME TypeOK, Bounded, Grow PROVE TypeOK' /\ Bounded'
<1>1. cursor \in Slots /\ cursor + 1 \in 0 .. n /\ n \in Nat
  BY ProgramFacts DEF Grow, TypeOK, Slots
<1>2. IsJump(cursor) => Needed(cursor) \in Exts
  BY <1>1, NeededType DEF Grow
<1>3. ext' \in [Slots -> Exts] /\ changed' \in BOOLEAN
  BY <1>1, <1>2 DEF Grow, TypeOK
<1> QED BY <1>1, <1>3 DEF Grow, TypeOK, Bounded, n, Slots

LEMMA EmitType ==
    ASSUME TypeOK, Bounded, Emit, IsJump(cursor) => Resolved(cursor)
    PROVE  TypeOK' /\ Bounded'
<1>1. cursor \in Slots /\ cursor + 1 \in 0 .. n /\ n \in Nat
  BY ProgramFacts DEF Emit, TypeOK, Slots
<1>2. SizeWith(ext[cursor], cursor) \in Nat
  BY <1>1, SizeBound
<1>3. start' \in [Slots -> Nat] /\ length' \in Nat
  BY <1>1, <1>2 DEF Emit, TypeOK
<1>4. carried' \in [Slots -> Nat]
  <2>1. Capacity[ext[cursor]] \in Nat \ {0}
    BY <1>1, CapacityAssumption DEF TypeOK
  <2>2. \A x \in Int : x % Capacity[ext[cursor]] \in Nat
    BY <2>1, ModType
  <2>3. ArgOf(cursor) \in Int
    <3>1. CASE IsJump(cursor)
      <4>1. ext \in [Slots -> Exts] /\ offset \in [0 .. n -> Nat]
        BY DEF TypeOK
      <4>2. ArgIn(ext, offset, cursor) \in Nat
        BY <1>1, <3>1, <4>1, ArgInType
      <4> QED BY <3>1, <4>2 DEF ArgOf
    <3>2. CASE ~ IsJump(cursor)
      <4>1. prog.int[cursor] \in 0 .. Capacity[3] - 1 /\ Capacity[3] \in Nat
        BY <1>1, ProgramFacts, CapacityAssumption DEF Exts
      <4> QED BY <3>2, <4>1 DEF ArgOf
    <3> QED BY <3>1, <3>2
  <2> QED BY <1>1, <2>2, <2>3 DEF Emit, TypeOK
<1> QED BY <1>1, <1>3, <1>4 DEF Emit, TypeOK, Bounded, n, Slots

-----------------------------------------------------------------------------
(***************************************************************************)
(* The layout: consistent in part during the passes, wholly once settled.  *)
(***************************************************************************)
PlacedUpTo(k) == \A i \in Slots : i < k => offset[i + 1] = NextIn(ext, offset, i)
PlacedFrom(k) == \A i \in Slots : k <= i => offset[i + 1] = NextIn(ext, offset, i)
FitsUpTo(k) == \A i \in Slots : (i < k /\ IsJump(i)) => Resolved(i) /\ Needed(i) <= ext[i]
Increasing(k) == \A a, b \in 0 .. n : (a <= b /\ b <= k) => offset[a] <= offset[b]

Limit == IF phase = "assign" THEN cursor ELSE n

Consistent ==
    /\ offset[0] = 0
    /\ \A i \in Slots : ~ IsJump(i) => ext[i] = ExtNeeded(prog.int[i])
    /\ Increasing(Limit)
    /\ phase = "assign" => PlacedUpTo(cursor) /\ ~ changed
    /\ phase = "grow" => PlacedFrom(cursor)
    /\ (phase = "grow" /\ ~ changed) => PlacedUpTo(n) /\ FitsUpTo(cursor)
    /\ phase \in {"emit", "done"} => PlacedUpTo(n) /\ FitsUpTo(n)

IInv == TypeOK /\ Bounded /\ Consistent

LEMMA InitConsistent == Init => Consistent
<1> SUFFICES ASSUME Init PROVE Consistent
  OBVIOUS
<1>1. TypeOK
  BY InitType
<1>2. offset[0] = 0 /\ Limit = 0 /\ phase = "assign" /\ ~ changed /\ cursor = 0
  BY <1>1, ProgramFacts DEF Init, Limit, n
<1>3. \A i \in Slots : ~ IsJump(i) => ext[i] = ExtNeeded(prog.int[i])
  BY DEF Init, Slots, n, IsJump
<1>4. Increasing(0)
  BY <1>1, <1>2, ProgramFacts DEF Increasing
<1>5. PlacedUpTo(0)
  BY <1>1, ProgramFacts DEF PlacedUpTo, Slots
<1> QED BY <1>2, <1>3, <1>4, <1>5 DEF Consistent

LEMMA AssignConsistent == ASSUME IInv, Assign PROVE Consistent'
<1> USE DEF IInv
<1>1. cursor \in Slots /\ cursor + 1 \in 0 .. n /\ n \in Nat /\ cursor \in 0 .. n
  BY ProgramFacts DEF Assign, TypeOK, Slots
<1> DEFINE s == SizeWith(ext[cursor], cursor)
<1>2. s \in Nat
  BY <1>1, SizeBound
<1>3. /\ UNCHANGED <<prog, phase, ext, changed>>
      /\ phase = "assign" /\ cursor' = cursor + 1
      /\ offset' = [offset EXCEPT ![cursor + 1] = offset[cursor] + s]
  BY DEF Assign
<1>4. offset \in [0 .. n -> Nat] /\ offset' \in [0 .. n -> Nat]
  BY AssignType, <1>3 DEF TypeOK, n
<1> HIDE DEF s
<1>5. /\ offset'[cursor + 1] = offset[cursor] + s
      /\ \A j \in 0 .. n : j # cursor + 1 => offset'[j] = offset[j]
  BY <1>1, <1>3, <1>4
<1>6. offset'[0] = 0
  BY <1>1, <1>5 DEF Consistent
<1>7. Increasing(cursor)
  BY <1>3 DEF Consistent, Limit
<1>8. Increasing(cursor)'
  <2> SUFFICES ASSUME NEW a \in 0 .. n, NEW b \in 0 .. n, a <= b, b <= cursor'
               PROVE  offset'[a] <= offset'[b]
    BY <1>3 DEF Increasing, n
  <2>1. CASE b <= cursor
    BY <1>1, <1>5, <1>7, <2>1 DEF Increasing
  <2>2. CASE b = cursor + 1 /\ a <= cursor
    BY <1>1, <1>2, <1>4, <1>5, <1>7, <2>2 DEF Increasing
  <2>3. CASE a = cursor + 1 /\ b = cursor + 1
    BY <1>4, <2>3
  <2> QED BY <1>1, <1>3, <2>1, <2>2, <2>3
<1>9. PlacedUpTo(cursor)'
  <2> SUFFICES ASSUME NEW i \in Slots, i < cursor'
               PROVE  offset'[i + 1] = NextIn(ext, offset', i)
    BY <1>3 DEF PlacedUpTo, Slots, n, NextIn, SizeWith
  <2>1. i \in 0 .. n /\ i + 1 \in 0 .. n
    BY <1>1 DEF Slots
  <2>2. CASE i = cursor
    BY <1>1, <1>5, <2>1, <2>2 DEF NextIn, s
  <2>3. CASE i < cursor
    <3>1. offset[i + 1] = NextIn(ext, offset, i)
      BY <1>3, <2>3 DEF Consistent, PlacedUpTo
    <3> QED BY <1>1, <1>5, <2>1, <2>3, <3>1 DEF NextIn
  <2> QED BY <1>1, <1>3, <2>2, <2>3, <2>1
<1>10. (\A i \in Slots : ~ IsJump(i) => ext[i] = ExtNeeded(prog.int[i]))'
  BY <1>3 DEF Consistent, Slots, n, IsJump
<1>11. Limit' = cursor' /\ ~ changed'
  BY <1>3 DEF Limit, Consistent
<1> QED BY <1>3, <1>6, <1>8, <1>9, <1>10, <1>11 DEF Consistent, Increasing, PlacedUpTo


LEMMA GrowConsistent == ASSUME IInv, Grow PROVE Consistent'
<1> USE DEF IInv
<1>1. cursor \in Slots /\ n \in Nat /\ cursor \in Nat
  BY ProgramFacts DEF Grow, TypeOK, Slots
<1>2. /\ UNCHANGED <<prog, phase, offset>>
      /\ phase = "grow" /\ cursor' = cursor + 1
  BY DEF Grow
<1>3. n' = n /\ Slots' = Slots
  BY <1>2 DEF n, Slots
<1>4. \A i \in Slots : i # cursor => ext'[i] = ext[i]
  BY <1>1 DEF Grow, TypeOK
<1>5. offset'[0] = 0
  BY <1>2 DEF Consistent
<1>6. \A i \in Slots : ~ IsJump(i) => ext'[i] = ext[i]
  BY <1>1, <1>4 DEF Grow
<1>7. (\A i \in Slots : ~ IsJump(i) => ext[i] = ExtNeeded(prog.int[i]))'
  BY <1>2, <1>3, <1>6 DEF Consistent, IsJump
<1>8. (Increasing(Limit))'
  BY <1>2, <1>3 DEF Consistent, Increasing, Limit
<1>9. PlacedFrom(cursor)'
  <2> SUFFICES ASSUME NEW i \in Slots, cursor' <= i
               PROVE  offset'[i + 1] = NextIn(ext', offset', i)
    BY <1>2, <1>3 DEF PlacedFrom, NextIn, SizeWith
  <2>1. cursor <= i /\ i # cursor
    BY <1>1, <1>2 DEF Slots
  <2>2. offset[i + 1] = NextIn(ext, offset, i)
    BY <1>2, <2>1 DEF Consistent, PlacedFrom
  <2> QED BY <1>2, <1>4, <2>1, <2>2 DEF NextIn, SizeWith
<1>10. (phase = "grow" /\ ~ changed)' => PlacedUpTo(n)' /\ FitsUpTo(cursor)'
  <2> SUFFICES ASSUME ~ changed' PROVE PlacedUpTo(n)' /\ FitsUpTo(cursor)'
    OBVIOUS
  <2>1. ~ changed /\ ext' = ext
    BY DEF Grow, TypeOK
  <2>2. PlacedUpTo(n) /\ FitsUpTo(cursor)
    BY <1>2, <2>1 DEF Consistent
  <2>3. PlacedUpTo(n)'
    BY <1>2, <1>3, <2>1, <2>2 DEF PlacedUpTo, NextIn, SizeWith
  <2>4. IsJump(cursor) => Resolved(cursor) /\ Needed(cursor) <= ext[cursor]
    <3> SUFFICES ASSUME IsJump(cursor) PROVE Resolved(cursor) /\ Needed(cursor) <= ext[cursor]
      OBVIOUS
    <3>1. Resolved(cursor) /\ ~ (Needed(cursor) > ext[cursor])
      BY <2>1 DEF Grow
    <3>2. Needed(cursor) \in Exts /\ ext[cursor] \in Exts
      BY <1>1, <3>1, NeededType DEF TypeOK
    <3> QED BY <3>1, <3>2 DEF Exts
  <2>5. \A i \in Slots : i < cursor + 1 => i < cursor \/ i = cursor
    BY <1>1 DEF Slots
  <2>6. \A i \in Slots : (i < cursor + 1 /\ IsJump(i)) => Resolved(i) /\ Needed(i) <= ext[i]
    BY <2>2, <2>4, <2>5 DEF FitsUpTo
  <2>7. FitsUpTo(cursor)'
    BY <1>2, <1>3, <2>1, <2>6
    DEF FitsUpTo, IsJump, Resolved, Needed, ArgIn, NextIn, SizeWith
  <2> QED BY <2>3, <2>7
<1> QED BY <1>2, <1>5, <1>7, <1>8, <1>9, <1>10 DEF Consistent

\* The steps that change no place and no width.
LEMMA OtherConsistent ==
    ASSUME IInv,
           AssignDone \/ UnresolvedLabel \/ GrowDone \/ Emit \/ EmitDone \/ UNCHANGED vars
    PROVE  Consistent'
<1> USE DEF IInv
<1>1. UNCHANGED <<prog, ext, offset>>
  BY DEF AssignDone, UnresolvedLabel, GrowDone, Emit, EmitDone, vars
<1>2. n' = n /\ Slots' = Slots /\ n \in Nat /\ cursor \in 0 .. n
  BY <1>1, ProgramFacts DEF n, Slots, TypeOK
<1>3. (\A i \in Slots : ~ IsJump(i) => ext[i] = ExtNeeded(prog.int[i]))' /\ offset'[0] = 0
  BY <1>1, <1>2 DEF Consistent, IsJump
<1> DEFINE Places == \A i \in Slots : offset[i + 1] = NextIn(ext, offset, i)
           Fits == \A i \in Slots : IsJump(i) => Resolved(i) /\ Needed(i) <= ext[i]
           Up == \A a, b \in 0 .. n : a <= b => offset[a] <= offset[b]
<1>4. Places => PlacedUpTo(n)' /\ PlacedFrom(0)' /\ PlacedFrom(cursor)'
  BY <1>1, <1>2 DEF PlacedUpTo, PlacedFrom, NextIn, SizeWith
<1>5. Fits => FitsUpTo(n)'
  BY <1>1, <1>2 DEF FitsUpTo, IsJump, Resolved, Needed, ArgIn, NextIn, SizeWith
<1>6. Up => \A k \in Nat : \A a, b \in 0 .. n : (a <= b /\ b <= k) => offset'[a] <= offset'[b]
  BY <1>1
<1>7. \A i \in Slots : i < n
  BY <1>2 DEF Slots
<1>8. CASE AssignDone
  <2>1. Places /\ Up
    BY <1>2, <1>7, <1>8 DEF AssignDone, Consistent, PlacedUpTo, Increasing, Limit
  <2>2. phase' = "grow" /\ cursor' = 0 /\ ~ changed'
    BY <1>8 DEF AssignDone, Consistent
  <2>3. FitsUpTo(cursor)'
    BY <1>2, <2>2 DEF FitsUpTo, Slots
  <2>4. (Increasing(Limit))'
    BY <1>1, <1>2, <2>1, <2>2 DEF Increasing, Limit
  <2> HIDE DEF Places, Up, Fits
  <2> QED BY <1>2, <1>3, <1>4, <2>1, <2>2, <2>3, <2>4 DEF Consistent
<1>9. CASE UnresolvedLabel
  <2>1. phase' = "unresolved" /\ (Increasing(Limit))'
    BY <1>1, <1>2, <1>9 DEF UnresolvedLabel, Consistent, Increasing, Limit
  <2> QED BY <1>3, <2>1 DEF Consistent
<1>10. CASE GrowDone
  <2>1. Up
    BY <1>2, <1>10 DEF GrowDone, Consistent, Increasing, Limit
  <2>2. (Increasing(Limit))'
    BY <1>1, <1>2, <1>10, <2>1 DEF GrowDone, Increasing, Limit
  <2>3. CASE changed
    <3>1. phase' = "assign" /\ cursor' = 0 /\ ~ changed'
      BY <1>10, <2>3 DEF GrowDone
    <3>2. PlacedUpTo(cursor)'
      BY <1>2, <3>1 DEF PlacedUpTo, Slots
    <3> QED BY <1>3, <2>2, <3>1, <3>2 DEF Consistent
  <2>4. CASE ~ changed
    <3>1. phase' = "emit" /\ ~ changed'
      BY <1>10, <2>4 DEF GrowDone
    <3>2. Places /\ Fits
      BY <1>2, <1>7, <1>10, <2>4 DEF GrowDone, Consistent, PlacedUpTo, FitsUpTo
    <3> HIDE DEF Places, Fits
    <3> QED BY <1>3, <1>4, <1>5, <2>2, <3>1, <3>2 DEF Consistent
  <2> QED BY <2>3, <2>4
<1>11. CASE Emit \/ EmitDone
  <2>1. Places /\ Fits /\ Up
    BY <1>2, <1>7, <1>11
    DEF Emit, EmitDone, Consistent, PlacedUpTo, FitsUpTo, Increasing, Limit
  <2>2. phase' \in {"emit", "done"}
    BY <1>11 DEF Emit, EmitDone
  <2>3. (Increasing(Limit))'
    BY <1>1, <1>2, <2>1, <2>2 DEF Increasing, Limit
  <2> HIDE DEF Places, Fits, Up
  <2> QED BY <1>3, <1>4, <1>5, <2>1, <2>2, <2>3 DEF Consistent
<1>12. CASE UNCHANGED vars
  BY <1>1, <1>2, <1>12
  DEF vars, Consistent, PlacedUpTo, PlacedFrom, FitsUpTo, Increasing, Limit, NextIn,
      SizeWith, IsJump, Resolved, Needed, ArgIn
<1> QED BY <1>8, <1>9, <1>10, <1>11, <1>12


LEMMA InvInit == Init => IInv
BY InitType, InitConsistent DEF IInv

LEMMA TypeStep == ASSUME IInv, [Next]_vars PROVE TypeOK' /\ Bounded'
<1> USE DEF IInv
<1>1. CASE Assign
  BY <1>1, AssignType
<1>2. CASE Grow
  BY <1>2, GrowType
<1>3. CASE Emit
  <2>1. IsJump(cursor) => Resolved(cursor)
    <3>1. cursor \in Slots /\ cursor < n
      BY <1>3, ProgramFacts DEF Emit, TypeOK, Slots
    <3> QED BY <1>3, <3>1 DEF Emit, Consistent, FitsUpTo
  <2> QED BY <1>3, <2>1, EmitType
<1>4. CASE AssignDone \/ UnresolvedLabel \/ GrowDone \/ EmitDone \/ UNCHANGED vars
  <2>1. UNCHANGED <<prog, ext, offset, start, carried, length>>
    BY <1>4 DEF AssignDone, UnresolvedLabel, GrowDone, EmitDone, vars
  <2>2. 0 \in 0 .. n
    BY ProgramFacts
  <2>3. cursor' \in 0 .. n
    BY <1>4, <2>2 DEF AssignDone, UnresolvedLabel, GrowDone, EmitDone, vars, TypeOK
  <2>4. changed' \in BOOLEAN
    BY <1>4 DEF AssignDone, UnresolvedLabel, GrowDone, EmitDone, vars, TypeOK
  <2>5. phase' \in {"assign", "grow", "emit", "done", "unresolved"}
    BY <1>4 DEF AssignDone, UnresolvedLabel, GrowDone, EmitDone, vars, TypeOK
  <2> QED BY <2>1, <2>3, <2>4, <2>5 DEF TypeOK, Bounded, n, Slots
<1> QED BY <1>1, <1>2, <1>3, <1>4 DEF Next, Returned

LEMMA InvStep == IInv /\ [Next]_vars => IInv'
<1> SUFFICES ASSUME IInv, [Next]_vars PROVE IInv'
  OBVIOUS
<1>1. Consistent'
  BY AssignConsistent, GrowConsistent, OtherConsistent DEF Next, Returned
<1> QED BY <1>1, TypeStep DEF IInv

\* Whatever the jumps, the variables keep their types.
THEOREM TypeCorrect == Spec => []TypeOK
<1>1. IInv => TypeOK
  BY DEF IInv
<1> QED BY InvInit, InvStep, <1>1, PTL DEF Spec

-----------------------------------------------------------------------------
(***************************************************************************)
(* What is emitted.                                                        *)
(***************************************************************************)
\* What an argument keeps of itself in the bytes its prefixes leave it.
LEMMA Carried ==
    ASSUME NEW e \in Exts, NEW a \in 0 .. Capacity[3] - 1, ExtNeeded(a) <= e
    PROVE  a % Capacity[e] = a
<1>1. a \in 0 .. Capacity[e] - 1
  BY ExtNeededFacts
<1>2. Capacity[e] \in Nat \ {0}
  BY CapacityAssumption
<1> QED BY <1>1, <1>2, ModSmall

EmittedUpTo(k) ==
    \A i \in Slots : i < k => start[i] = offset[i] /\ carried[i] = ArgOf(i)

EmitInv ==
    /\ phase \in {"assign", "grow"} => length = 0
    /\ phase \in {"emit", "done"} => length = offset[cursor] /\ EmittedUpTo(cursor)
    /\ phase = "done" => cursor = n

LEMMA EmitWord ==
    ASSUME IInv, Emit
    PROVE  carried' = [carried EXCEPT ![cursor] = ArgOf(cursor)]
           /\ offset[cursor + 1] = offset[cursor] + SizeWith(ext[cursor], cursor)
<1> USE DEF IInv
<1>1. cursor \in Slots /\ n \in Nat /\ cursor < n
  BY ProgramFacts DEF Emit, TypeOK, Slots
<1>2. PlacedUpTo(n) /\ FitsUpTo(n)
  BY DEF Emit, Consistent
<1>3. offset[cursor + 1] = offset[cursor] + SizeWith(ext[cursor], cursor)
  BY <1>1, <1>2 DEF PlacedUpTo, NextIn
<1>4. ext[cursor] \in Exts
  BY <1>1 DEF TypeOK
<1>5. ArgOf(cursor) \in 0 .. Capacity[3] - 1 /\ ExtNeeded(ArgOf(cursor)) <= ext[cursor]
  <2>1. CASE IsJump(cursor)
    <3>1. Resolved(cursor) /\ Needed(cursor) <= ext[cursor]
      BY <1>1, <1>2, <2>1 DEF FitsUpTo
    <3> QED BY <1>1, <2>1, <3>1, NeededType DEF ArgOf, Needed
  <2>2. CASE ~ IsJump(cursor)
    <3>1. prog.int[cursor] \in 0 .. Capacity[3] - 1
      BY <1>1, ProgramFacts
    <3>2. ext[cursor] = ExtNeeded(prog.int[cursor])
      BY <1>1, <2>2 DEF Consistent
    <3> QED BY <1>4, <2>2, <3>1, <3>2 DEF ArgOf, Exts
  <2> QED BY <2>1, <2>2
<1>6. ArgOf(cursor) % Capacity[ext[cursor]] = ArgOf(cursor)
  BY <1>4, <1>5, Carried
<1> QED BY <1>3, <1>6 DEF Emit

LEMMA EmitInvStep == ASSUME IInv, EmitInv, [Next]_vars PROVE EmitInv'
<1> USE DEF IInv
<1>1. n \in Nat /\ cursor \in Nat
  BY ProgramFacts DEF TypeOK
<1>2. CASE Emit
  <2>1. cursor \in Slots /\ UNCHANGED <<prog, ext, offset, phase>> /\ phase = "emit"
        /\ cursor' = cursor + 1
    BY <1>1, <1>2 DEF Emit, TypeOK, Slots
  <2>2. length' = offset'[cursor']
    BY <1>2, <2>1, EmitWord DEF EmitInv, Emit
  <2>3. \A i \in Slots : ArgOf(i)' = ArgOf(i)
    BY <2>1 DEF ArgOf, IsJump, ArgIn, NextIn, SizeWith
  <2>4. EmittedUpTo(cursor)'
    <3> SUFFICES ASSUME NEW i \in Slots, i < cursor'
                 PROVE  start'[i] = offset'[i] /\ carried'[i] = ArgOf(i)'
      BY <2>1 DEF EmittedUpTo, Slots, n
    <3>1. CASE i = cursor
      <4>1. start'[i] = length /\ carried'[i] = ArgOf(i)
        BY <1>2, <2>1, <3>1, EmitWord DEF Emit, TypeOK
      <4> QED BY <2>1, <2>3, <3>1, <4>1 DEF EmitInv
    <3>2. CASE i # cursor
      <4>1. i < cursor
        BY <1>1, <2>1, <3>2 DEF Slots
      <4>2. start[i] = offset[i] /\ carried[i] = ArgOf(i)
        BY <2>1, <4>1 DEF EmitInv, EmittedUpTo
      <4>3. start'[i] = start[i] /\ carried'[i] = carried[i]
        BY <1>2, <3>2, EmitWord DEF Emit, TypeOK
      <4> QED BY <2>1, <2>3, <4>2, <4>3
    <3> QED BY <3>1, <3>2
  <2> QED BY <2>1, <2>2, <2>4 DEF EmitInv
<1>3. CASE GrowDone
  <2>1. offset'[0] = 0 /\ cursor' = 0 /\ length' = 0 /\ n' = n
    BY <1>3 DEF GrowDone, Consistent, EmitInv, n
  <2>2. EmittedUpTo(cursor)'
    BY <1>1, <2>1 DEF EmittedUpTo, Slots
  <2> QED BY <1>3, <2>1, <2>2 DEF EmitInv, GrowDone
<1>4. CASE Assign \/ AssignDone \/ Grow \/ UnresolvedLabel
  BY <1>4 DEF Assign, AssignDone, Grow, UnresolvedLabel, EmitInv
<1>5. CASE EmitDone \/ UNCHANGED vars
  <2>1. UNCHANGED <<prog, cursor, ext, offset, start, carried, length>>
    BY <1>5 DEF EmitDone, vars
  <2>2. EmittedUpTo(cursor) => EmittedUpTo(cursor)'
    BY <2>1 DEF EmittedUpTo, Slots, n, ArgOf, IsJump, ArgIn, NextIn, SizeWith
  <2> QED BY <1>5, <2>1, <2>2 DEF EmitInv, EmitDone, vars, n
<1> QED BY <1>2, <1>3, <1>4, <1>5 DEF Next, Returned

LEMMA InvGivesArgs == ASSUME IInv, EmitInv PROVE ArgsSurvive
<1> SUFFICES ASSUME phase = "done", NEW i \in Slots
             PROVE  IF IsJump(i) THEN WellDirected(i) => Lands(i) = EmittedAt(prog.target[i])
                                 ELSE carried[i] = prog.int[i]
  BY DEF ArgsSurvive
<1> USE DEF IInv
<1>1. n \in Nat /\ i < n /\ i \in 0 .. n /\ i + 1 \in 0 .. n /\ i \in Nat
  BY ProgramFacts DEF Slots
<1>2. /\ cursor = n /\ length = offset[n] /\ PlacedUpTo(n) /\ FitsUpTo(n) /\ Increasing(n)
      /\ \A j \in Slots : start[j] = offset[j] /\ carried[j] = ArgOf(j)
  BY <1>1 DEF EmitInv, EmittedUpTo, Consistent, Limit, Slots
<1>3. \A j \in 0 .. n : EmittedAt(j) = offset[j]
  BY <1>1, <1>2 DEF EmittedAt, Slots
<1>4. offset[i + 1] = NextIn(ext, offset, i)
  BY <1>1, <1>2 DEF PlacedUpTo
<1>5. CASE ~ IsJump(i)
  BY <1>2, <1>5 DEF ArgOf
<1>6. CASE IsJump(i) /\ WellDirected(i)
  <2> DEFINE t == prog.target[i]
  <2>1. t \in 0 .. n
    BY <1>1, <1>2, <1>6, ProgramFacts DEF FitsUpTo
  <2>2. offset[t] \in 0 .. ArgModulus - 1 /\ offset[i + 1] \in 0 .. ArgModulus - 1
    BY <1>1, <2>1, BoundedBelowModulus
  <2>3. ArgModulus \in Nat \ {0}
    BY CapacityAssumption
  <2>4. carried[i] = ArgIn(ext, offset, i)
    BY <1>2, <1>6 DEF ArgOf
  <2>5. CASE prog.kind[i] = "ABS"
    BY <1>3, <1>6, <2>1, <2>4, <2>5 DEF Lands, ArgIn
  <2>6. CASE prog.kind[i] = "FWD"
    <3>1. offset[i + 1] <= offset[t]
      BY <1>1, <1>2, <1>6, <2>1, <2>6 DEF WellDirected, Increasing
    <3>2. offset[t] - offset[i + 1] \in 0 .. ArgModulus - 1
      BY <2>2, <2>3, <3>1
    <3>3. (offset[t] - offset[i + 1]) % ArgModulus = offset[t] - offset[i + 1]
      BY <2>3, <3>2, ModSmall
    <3>4. carried[i] = offset[t] - offset[i + 1]
      BY <1>4, <2>4, <2>6, <3>3 DEF ArgIn
    <3>5. EmittedAt(i + 1) + carried[i] = offset[t]
      BY <1>1, <1>3, <2>2, <3>4
    <3> QED BY <1>3, <1>6, <2>1, <2>6, <3>5 DEF Lands
  <2>7. CASE prog.kind[i] = "BWD"
    <3>1. offset[t] <= offset[i + 1]
      BY <1>1, <1>2, <1>6, <2>1, <2>7 DEF WellDirected, Increasing
    <3>2. offset[i + 1] - offset[t] \in 0 .. ArgModulus - 1
      BY <2>2, <2>3, <3>1
    <3>3. (offset[i + 1] - offset[t]) % ArgModulus = offset[i + 1] - offset[t]
      BY <2>3, <3>2, ModSmall
    <3>4. carried[i] = offset[i + 1] - offset[t]
      BY <1>4, <2>4, <2>7, <3>3 DEF ArgIn
    <3>5. EmittedAt(i + 1) - carried[i] = offset[t]
      BY <1>1, <1>3, <2>2, <3>4
    <3> QED BY <1>3, <1>6, <2>1, <2>7, <3>5 DEF Lands
  <2> QED BY <1>1, <1>6, <2>5, <2>6, <2>7, ProgramFacts DEF IsJump, Kinds
<1> QED BY <1>5, <1>6

\* Every jump of the emitted code lands on its label's instruction, and every
\* integer argument is carried whole, for every slot list.
THEOREM EmittedArgsAreRight == Spec => []ArgsSurvive
<1>1. Init => EmitInv
  BY DEF Init, EmitInv
<1>2. IInv /\ EmitInv /\ [Next]_vars => EmitInv'
  BY EmitInvStep
<1>3. IInv /\ EmitInv => ArgsSurvive
  BY InvGivesArgs
<1> QED BY InvInit, InvStep, <1>1, <1>2, <1>3, PTL DEF Spec


-----------------------------------------------------------------------------
(***************************************************************************)
(* Least widths.  Against any consistent layout l, no slot is wider than   *)
(* l makes it, and no two places are further apart than l has them: stale  *)
(* offsets are only ever too close.                                        *)
(***************************************************************************)
AllDirected == \A i \in Slots : WellDirected(i)

Narrower(l) == \A i \in Slots : ext[i] <= l.ext[i]
Tighter(l, k) ==
    \A a, b \in 0 .. n : (a <= b /\ b <= k)
        => offset[b] - offset[a] <= l.offset[b] - l.offset[a]

LeastInv ==
    /\ prog \in Programs
    /\ AllDirected => \A l \in Layouts(prog) :
          IsLayout(l.ext, l.offset) => Narrower(l) /\ Tighter(l, Limit)

LEMMA LayoutFacts ==
    ASSUME IInv, prog \in Programs, NEW l \in Layouts(prog)
    PROVE  /\ l.ext \in [Slots -> Exts]
           /\ l.offset \in [0 .. n -> Nat]
           /\ \A j \in 0 .. n : l.offset[j] \in 0 .. ArgModulus - 1
           /\ ext \in [Slots -> Exts]
           /\ offset \in [0 .. n -> Nat]
<1>1. l.ext \in [Slots -> Exts] /\ l.offset \in [0 .. n -> 0 .. ArgModulus - 1]
  BY LayoutsAssumption DEF Slots, n
<1>2. \A j \in 0 .. n : l.offset[j] \in 0 .. ArgModulus - 1
  BY <1>1
<1>4. 0 .. ArgModulus - 1 \subseteq Nat
  BY CapacityAssumption
<1>3. l.offset \in [0 .. n -> Nat]
  BY <1>1, <1>2, <1>4
<1> QED BY <1>1, <1>2, <1>3 DEF IInv, TypeOK

LEMMA LeastInit == ASSUME Init PROVE LeastInv
<1>1. IInv
  BY InvInit
<1>2. prog \in Programs /\ n \in Nat /\ Limit = 0 /\ offset[0] = 0
  BY <1>1, ProgramFacts DEF Init, IInv, Limit, Consistent
<1> SUFFICES ASSUME NEW l \in Layouts(prog), IsLayout(l.ext, l.offset)
             PROVE  Narrower(l) /\ Tighter(l, Limit)
  BY <1>2 DEF LeastInv
<1>3. Narrower(l)
  <2> SUFFICES ASSUME NEW i \in Slots PROVE ext[i] <= l.ext[i]
    BY DEF Narrower
  <2>1. CASE IsJump(i)
    <3>1. ext[i] = 0
      BY <2>1 DEF Init, Slots, n, IsJump
    <3>2. l.ext[i] \in Exts
      BY <1>1, <1>2, LayoutFacts
    <3> QED BY <3>1, <3>2 DEF Exts
  <2>2. CASE ~ IsJump(i)
    BY <1>1, <2>2 DEF IInv, Consistent, IsLayout
  <2> QED BY <2>1, <2>2
<1>4. Tighter(l, 0)
  <2> SUFFICES ASSUME NEW a \in 0 .. n, NEW b \in 0 .. n, a <= b, b <= 0
               PROVE  offset[b] - offset[a] <= l.offset[b] - l.offset[a]
    BY DEF Tighter
  <2>1. a = b
    BY <1>2
  <2> QED BY <1>1, <1>2, <2>1, LayoutFacts
<1> QED BY <1>2, <1>3, <1>4

LEMMA LeastAssign ==
    ASSUME IInv, Assign, prog \in Programs, NEW l \in Layouts(prog),
           IsLayout(l.ext, l.offset), Narrower(l), Tighter(l, cursor)
    PROVE  \A a, b \in 0 .. n : (a <= b /\ b <= cursor + 1)
               => offset'[b] - offset'[a] <= l.offset[b] - l.offset[a]
<1> SUFFICES ASSUME NEW a \in 0 .. n, NEW b \in 0 .. n, a <= b, b <= cursor + 1
             PROVE  offset'[b] - offset'[a] <= l.offset[b] - l.offset[a]
  OBVIOUS
<1>1. /\ cursor \in Slots /\ n \in Nat /\ cursor \in 0 .. n /\ cursor + 1 \in 0 .. n
      /\ TypeOK
  BY ProgramFacts DEF Assign, IInv, TypeOK, Slots
<1> DEFINE s == SizeWith(ext[cursor], cursor)
           ls == SizeWith(l.ext[cursor], cursor)
<1>2. s \in Nat /\ ls \in Nat /\ s <= ls
  <2>1. ext[cursor] \in Exts /\ l.ext[cursor] \in Exts /\ ext[cursor] <= l.ext[cursor]
    BY <1>1, LayoutFacts DEF Narrower
  <2> QED BY <1>1, <2>1, ProgramFacts DEF SizeWith, Exts
<1>3. /\ offset'[cursor + 1] = offset[cursor] + s
      /\ \A j \in 0 .. n : j # cursor + 1 => offset'[j] = offset[j]
  BY <1>1 DEF Assign, TypeOK
<1>4. l.offset[cursor + 1] = l.offset[cursor] + ls
  BY <1>1 DEF IsLayout, NextIn
<1>5. \A j \in 0 .. n : offset[j] \in Nat /\ l.offset[j] \in Nat
  BY LayoutFacts
<1> HIDE DEF s, ls
<1>6. CASE b <= cursor
  <2>1. offset'[b] = offset[b] /\ offset'[a] = offset[a]
    BY <1>1, <1>3, <1>6
  <2> QED BY <1>6, <2>1 DEF Tighter
<1>7. CASE b = cursor + 1 /\ a <= cursor
  <2>1. offset[cursor] - offset[a] <= l.offset[cursor] - l.offset[a]
    BY <1>1, <1>7 DEF Tighter
  <2>2. offset'[a] = offset[a] /\ offset'[b] = offset[cursor] + s
    BY <1>1, <1>3, <1>7
  <2> QED BY <1>1, <1>2, <1>4, <1>5, <1>7, <2>1, <2>2
<1>8. CASE b = cursor + 1 /\ a = cursor + 1
  BY <1>1, <1>2, <1>3, <1>5, <1>8
<1> QED BY <1>1, <1>6, <1>7, <1>8

\* What a jump needs in the current offsets, l provides.
LEMMA LeastNeeded ==
    ASSUME IInv, phase = "grow", cursor \in Slots, IsJump(cursor), Resolved(cursor),
           prog \in Programs, NEW l \in Layouts(prog), IsLayout(l.ext, l.offset),
           Narrower(l), Tighter(l, n), WellDirected(cursor)
    PROVE  Needed(cursor) <= l.ext[cursor]
<1> USE DEF IInv
<1> DEFINE t == prog.target[cursor]
           here == ArgIn(ext, offset, cursor)
           there == ArgIn(l.ext, l.offset, cursor)
<1>1. /\ n \in Nat /\ cursor \in 0 .. n /\ cursor + 1 \in 0 .. n /\ t \in 0 .. n
      /\ 0 \in 0 .. n /\ cursor \in Nat
  BY ProgramFacts DEF Slots
<1>2. /\ offset[cursor + 1] = NextIn(ext, offset, cursor)
      /\ l.offset[cursor + 1] = NextIn(l.ext, l.offset, cursor)
      /\ offset[0] = 0 /\ l.offset[0] = 0
      /\ ExtNeeded(there) <= l.ext[cursor]
  BY <1>1 DEF Consistent, PlacedFrom, IsLayout
<1>3. \A j \in 0 .. n : /\ offset[j] \in 0 .. ArgModulus - 1
                        /\ l.offset[j] \in 0 .. ArgModulus - 1
  BY LayoutFacts, BoundedBelowModulus
<1>4. ArgModulus \in Nat \ {0} /\ ArgModulus <= Capacity[3] /\ Capacity[3] \in Nat
  BY CapacityAssumption DEF Exts
<1>5. \A a, b \in 0 .. n : a <= b =>
          /\ offset[b] - offset[a] <= l.offset[b] - l.offset[a]
          /\ offset[b] - offset[a] \in 0 .. ArgModulus - 1
  <2> TAKE a, b \in 0 .. n
  <2> HAVE a <= b
  <2>1. offset[b] - offset[a] <= l.offset[b] - l.offset[a]
    BY <1>1 DEF Tighter
  <2>2. offset[a] <= offset[b]
    BY <1>1 DEF Consistent, Increasing, Limit
  <2> QED BY <1>3, <1>4, <2>1, <2>2
<1>6. \A a, b \in 0 .. n : a <= b => l.offset[b] - l.offset[a] \in 0 .. ArgModulus - 1
  BY <1>3, <1>4, <1>5
<1>7. here \in 0 .. ArgModulus - 1 /\ there \in 0 .. ArgModulus - 1 /\ here <= there
  <2>1. CASE prog.kind[cursor] = "ABS"
    <3>1. here = offset[t] /\ there = l.offset[t]
      BY <2>1 DEF ArgIn
    <3>2. offset[t] - offset[0] <= l.offset[t] - l.offset[0]
      BY <1>1, <1>5
    <3> QED BY <1>1, <1>2, <1>3, <1>4, <3>1, <3>2
  <2>2. CASE prog.kind[cursor] = "FWD"
    <3>1. /\ here = (offset[t] - offset[cursor + 1]) % ArgModulus
          /\ there = (l.offset[t] - l.offset[cursor + 1]) % ArgModulus
      BY <1>2, <2>2 DEF ArgIn
    <3>2. cursor + 1 <= t
      BY <1>1, <2>2 DEF WellDirected
    <3>3. here = offset[t] - offset[cursor + 1] /\ there = l.offset[t] - l.offset[cursor + 1]
      BY <1>1, <1>4, <1>5, <1>6, <3>1, <3>2, ModSmall
    <3> QED BY <1>1, <1>5, <1>6, <3>2, <3>3
  <2>3. CASE prog.kind[cursor] = "BWD"
    <3>1. /\ here = (offset[cursor + 1] - offset[t]) % ArgModulus
          /\ there = (l.offset[cursor + 1] - l.offset[t]) % ArgModulus
      BY <1>2, <2>3 DEF ArgIn
    <3>2. t <= cursor + 1
      BY <1>1, <2>3 DEF WellDirected
    <3>3. here = offset[cursor + 1] - offset[t] /\ there = l.offset[cursor + 1] - l.offset[t]
      BY <1>1, <1>4, <1>5, <1>6, <3>1, <3>2, ModSmall
    <3> QED BY <1>1, <1>5, <1>6, <3>2, <3>3
  <2> QED BY <2>1, <2>2, <2>3, ProgramFacts DEF IsJump, Kinds
<1> HIDE DEF here, there
<1>8. here \in 0 .. Capacity[3] - 1 /\ there \in 0 .. Capacity[3] - 1
  BY <1>4, <1>7
<1>9. ExtNeeded(here) <= ExtNeeded(there)
  BY <1>7, <1>8, ExtNeededFacts
<1>10. ExtNeeded(here) \in Exts /\ ExtNeeded(there) \in Exts /\ l.ext[cursor] \in Exts
  BY <1>8, ExtNeededFacts, LayoutFacts
<1>11. ExtNeeded(here) <= l.ext[cursor]
  BY <1>2, <1>9, <1>10 DEF Exts
<1> QED BY <1>11 DEF Needed, here

LEMMA LeastStep == ASSUME IInv, LeastInv, [Next]_vars PROVE LeastInv'
<1> USE DEF IInv
<1>1. prog' = prog /\ n' = n /\ Slots' = Slots /\ n \in Nat
  BY StepKeepsProgram, ProgramFacts DEF n, Slots
<1>2. AllDirected' = AllDirected
  BY <1>1 DEF AllDirected, WellDirected
<1> SUFFICES ASSUME AllDirected, NEW l \in Layouts(prog), IsLayout(l.ext, l.offset)
             PROVE  /\ \A i \in Slots : ext'[i] <= l.ext[i]
                    /\ \A a, b \in 0 .. n : (a <= b /\ b <= Limit')
                          => offset'[b] - offset'[a] <= l.offset[b] - l.offset[a]
  <2>1. \A x, o : IsLayout(x, o)' = IsLayout(x, o)
    BY <1>1 DEF IsLayout, NextIn, SizeWith, ArgIn, IsJump, Resolved
  <2> QED BY <1>1, <1>2, <2>1 DEF LeastInv, Narrower, Tighter, IsLayout, NextIn, SizeWith,
     ArgIn, IsJump, Resolved
<1>3. prog \in Programs /\ Narrower(l) /\ Tighter(l, Limit)
  BY DEF LeastInv
<1>4. CASE Assign
  <2>1. Limit = cursor /\ Limit' = cursor + 1 /\ ext' = ext
    BY <1>4 DEF Assign, Limit
  <2> QED BY <1>3, <1>4, <2>1, LeastAssign DEF Narrower
<1>5. CASE Grow
  <2>1. Limit = n /\ Limit' = n /\ offset' = offset /\ phase = "grow"
    BY <1>1, <1>5 DEF Grow, Limit
  <2>2. cursor \in Slots
    BY <1>1, <1>5 DEF Grow, TypeOK, Slots
  <2>3. \A i \in Slots : ext'[i] <= l.ext[i]
    <3>1. \A i \in Slots : i # cursor => ext'[i] = ext[i]
      BY <1>5, <2>2 DEF Grow, TypeOK
    <3>2. ext'[cursor] = ext[cursor] \/
            (IsJump(cursor) /\ Resolved(cursor) /\ ext'[cursor] = Needed(cursor))
      BY <1>5, <2>2 DEF Grow, TypeOK
    <3>3. (IsJump(cursor) /\ Resolved(cursor)) => Needed(cursor) <= l.ext[cursor]
      BY <1>3, <2>1, <2>2, LeastNeeded DEF AllDirected
    <3> QED BY <1>3, <3>1, <3>2, <3>3 DEF Narrower
  <2> QED BY <1>3, <2>1, <2>3 DEF Tighter
<1>6. CASE AssignDone \/ UnresolvedLabel \/ Emit \/ EmitDone \/ UNCHANGED vars
  <2>1. UNCHANGED <<ext, offset>> /\ Limit' = Limit
    BY <1>1, <1>6 DEF AssignDone, UnresolvedLabel, Emit, EmitDone, vars, Limit
  <2> QED BY <1>3, <2>1 DEF Narrower, Tighter
<1>7. CASE GrowDone
  <2>1. Limit = n /\ UNCHANGED <<ext, offset>> /\ Limit' \in {0, n}
    BY <1>1, <1>7 DEF GrowDone, Limit
  <2>2. \A b \in 0 .. n : b <= n
    BY <1>1
  <2> QED BY <1>3, <2>1, <2>2 DEF Narrower, Tighter
<1> QED BY <1>4, <1>5, <1>6, <1>7 DEF Next, Returned

\* Relaxation reaches the narrowest consistent layout, whatever the program
\* (of well-directed jumps), the byte size and the caches.
THEOREM RelaxationIsLeast == Spec => []LeastLayout
<1>1. Init => LeastInv
  BY LeastInit
<1>2. IInv /\ LeastInv /\ [Next]_vars => LeastInv'
  BY LeastStep
<1>3. LeastInv => LeastLayout
  BY DEF LeastInv, LeastLayout, AllDirected, Narrower
<1> QED BY InvInit, InvStep, <1>1, <1>2, <1>3, PTL DEF Spec

=============================================================================
