--------------------------- MODULE Interning_proofs --------------------------
(***************************************************************************)
(* Whatever a code object holds, and however it is edited and assembled:   *)
(* every name is found, the closure keeps its layout, and an instruction   *)
(* goes on meaning what it was given to mean.                              *)
(***************************************************************************)
EXTENDS Interning, FiniteSetTheorems, SequenceTheorems, WellFoundedInduction, TLAPS

-----------------------------------------------------------------------------
(***************************************************************************)
(* Searching a table.                                                      *)
(***************************************************************************)
LEMMA MinOf ==
    ASSUME NEW S, S \subseteq Nat, S # {}
    PROVE  Min(S) \in S /\ \A y \in S : Min(S) <= y
<1> DEFINE R == OpToRel(<, Nat)
<1>1. IsWellFoundedOn(R, Nat)
  BY NatLessThanWellFounded
<1> HIDE DEF R
<1>2. PICK m \in S : \A u \in S : ~ (<<u, m>> \in R)
  BY <1>1, WFMin
<1>3. \A u \in S : m <= u
  <2>1. ASSUME NEW u \in S, u < m PROVE <<u, m>> \in R
    <3> DEFINE p == <<u, m>>
    <3>1. p \in Nat \X Nat /\ p[1] < p[2]
      BY <2>1
    <3> HIDE DEF p
    <3>2. p \in {q \in Nat \X Nat : q[1] < q[2]}
      BY <3>1
    <3> QED
      BY <3>2 DEF R, OpToRel, p
  <2>2. \A u \in S : ~ (u < m)
    BY <1>2, <2>1
  <2> QED
    BY <2>2
<1> DEFINE n == CHOOSE x \in S : \A y \in S : x <= y
<1>4. n \in S /\ \A y \in S : n <= y
  BY <1>3
<1> QED
  BY <1>4 DEF Min

\* find_only() returns the first place there is.
LEMMA FindIs ==
    ASSUME NEW S, NEW s \in Seq(S), NEW x
    PROVE  LET at == FindOnly(s, x)
           IN  /\ at \in -1 .. Len(s) - 1
               /\ at >= 0 <=> \E k \in 1 .. Len(s) : s[k] = x
               /\ at >= 0 => at + 1 \in 1 .. Len(s) /\ s[at + 1] = x
<1> DEFINE I == {i \in 1 .. Len(s) : s[i] = x}
<1>1. FindOnly(s, x) = (IF I # {} THEN Min(I) ELSE 0) - 1
  BY DEF FindOnly, SelectInSeq
<1>2. Len(s) \in Nat
  BY LenProperties
<1>3. CASE I = {}
  BY <1>1, <1>2, <1>3
<1>4. CASE I # {}
  <2> DEFINE m == Min(I)
  <2>1. I \subseteq Nat
    OBVIOUS
  <2> HIDE DEF I
  <2>2. m \in I
    BY <1>4, <2>1, MinOf
  <2>3. m \in 1 .. Len(s) /\ s[m] = x
    BY <2>2 DEF I
  <2>4. FindOnly(s, x) = m - 1
    BY <1>1, <1>4
  <2> HIDE DEF m
  <2>5. m - 1 \in -1 .. Len(s) - 1 /\ m - 1 >= 0 /\ m - 1 + 1 = m
    BY <1>2, <2>3
  <2> QED
    BY <2>3, <2>4, <2>5
<1> QED
  BY <1>3, <1>4

\* find_or_add() returns a place that holds an object it takes for o.
LEMMA FindConstIs ==
    ASSUME consts \in Seq(Object), NEW o
    PROVE  LET at == FindConst(o)
           IN  /\ at \in -1 .. Len(consts) - 1
               /\ at >= 0 => at + 1 \in 1 .. Len(consts) /\ Matches(consts[at + 1], o)
<1> DEFINE I == {i \in 1 .. Len(consts) : Matches(consts[i], o)}
<1>1. FindConst(o) = (IF I # {} THEN Min(I) ELSE 0) - 1
  BY DEF FindConst, SelectInSeq
<1>2. Len(consts) \in Nat
  BY LenProperties
<1>3. CASE I = {}
  BY <1>1, <1>2, <1>3
<1>4. CASE I # {}
  <2> DEFINE m == Min(I)
  <2>1. I \subseteq Nat
    OBVIOUS
  <2> HIDE DEF I
  <2>2. m \in I
    BY <1>4, <2>1, MinOf
  <2>3. m \in 1 .. Len(consts) /\ Matches(consts[m], o)
    BY <2>2 DEF I
  <2>4. FindConst(o) = m - 1
    BY <1>1, <1>4
  <2> HIDE DEF m
  <2>5. m - 1 \in -1 .. Len(consts) - 1 /\ m - 1 >= 0 /\ m - 1 + 1 = m
    BY <1>2, <2>3
  <2> QED
    BY <2>3, <2>4, <2>5
<1> QED
  BY <1>3, <1>4

-----------------------------------------------------------------------------
(***************************************************************************)
(* Counting: the m-th of a finite set of numbers.                          *)
(***************************************************************************)
LEMMA CountIs ==
    ASSUME NEW own, own \subseteq Nat, IsFiniteSet(own)
    PROVE  /\ Cardinality(own) \in Nat
           /\ \A k \in own : UpTo(own, k) \in 1 .. Cardinality(own)
           /\ \A j, k \in own : j < k => UpTo(own, j) < UpTo(own, k)
<1> DEFINE U(k) == {j \in own : j <= k}
<1>1. Cardinality(own) \in Nat
  BY FS_CardinalityType
<1>2. ASSUME NEW k \in own
      PROVE  /\ IsFiniteSet(U(k)) /\ UpTo(own, k) = Cardinality(U(k))
             /\ UpTo(own, k) \in 1 .. Cardinality(own)
  <2>1. U(k) \in SUBSET own /\ k \in U(k) /\ UpTo(own, k) = Cardinality(U(k))
    BY DEF UpTo
  <2> HIDE DEF U
  <2>2. IsFiniteSet(U(k)) /\ Cardinality(U(k)) <= Cardinality(own)
    BY <2>1, FS_Subset
  <2>3. Cardinality(U(k)) \in Nat
    BY <2>2, FS_CardinalityType
  <2>4. Cardinality(U(k)) # 0
    BY <2>1, <2>2, FS_EmptySet
  <2> QED
    BY <1>1, <2>1, <2>2, <2>3, <2>4
<1>3. ASSUME NEW j \in own, NEW k \in own, j < k
      PROVE  UpTo(own, j) < UpTo(own, k)
  <2> DEFINE A == U(j)
             B == U(k)
  <2>1. A \in SUBSET B /\ A # B
    <3>1. k \in B /\ k \notin A
      BY <1>3
    <3>2. \A i \in own : i <= j => i <= k
      <4>1. j \in Nat /\ k \in Nat /\ \A i \in own : i \in Nat
        OBVIOUS
      <4> QED
        BY <1>3, <4>1
    <3>3. A \subseteq B
      BY <3>2
    <3> QED
      BY <3>1, <3>3
  <2>2. /\ UpTo(own, j) \in Nat /\ UpTo(own, k) \in Nat
        /\ UpTo(own, j) = Cardinality(A) /\ UpTo(own, k) = Cardinality(B)
        /\ IsFiniteSet(B)
    BY <1>1, <1>2
  <2> HIDE DEF A, B
  <2>3. Cardinality(A) <= Cardinality(B) /\ Cardinality(B) # Cardinality(A)
    BY <2>1, <2>2, FS_Subset
  <2> QED
    BY <2>2, <2>3
<1> QED
  BY <1>1, <1>2, <1>3

LEMMA CountReaches ==
    ASSUME NEW own, own \subseteq Nat, IsFiniteSet(own), NEW m \in 1 .. Cardinality(own)
    PROVE  \E k \in own : UpTo(own, k) = m
<1> DEFINE n == Cardinality(own)
           f == [k \in own |-> UpTo(own, k)]
<1>1. n \in Nat /\ m \in 1 .. n
  BY CountIs
<1>2. f \in [own -> 1 .. n]
  BY CountIs
<1>3. \A j, k \in own : f[j] = f[k] => j = k
  <2>1. ASSUME NEW j \in own, NEW k \in own, j # k PROVE f[j] # f[k]
    <3>1. j < k \/ k < j
      BY <2>1
    <3>2. /\ UpTo(own, j) \in 1 .. n /\ UpTo(own, k) \in 1 .. n
          /\ j < k => UpTo(own, j) < UpTo(own, k)
          /\ k < j => UpTo(own, k) < UpTo(own, j)
      BY CountIs
    <3> HIDE DEF n
    <3> QED
      BY <3>1, <3>2
  <2> QED
    BY <2>1
<1>4. IsFiniteSet(1 .. n) /\ Cardinality(1 .. n) = n
  <2> HIDE DEF n
  <2> QED
    BY <1>1, FS_Interval
<1>5. f \in Injection(own, 1 .. n)
  <2> HIDE DEF f, n
  <2> QED
    BY <1>2, <1>3 DEF Injection, IsInjective
<1>6. f \in Surjection(own, 1 .. n)
  <2> DEFINE T == 1 .. n
  <2>1. f \in Injection(own, T) /\ IsFiniteSet(T) /\ Cardinality(own) = Cardinality(T)
    BY <1>4, <1>5
  <2> HIDE DEF f, T, n
  <2>2. f \in Surjection(own, T)
    BY <2>1, FS_Injection
  <2> QED
    BY <2>2 DEF T
<1>7. \E k \in own : f[k] = m
  <2> HIDE DEF f, n
  <2> QED
    BY <1>1, <1>6 DEF Surjection
<1> QED
  BY <1>7

-----------------------------------------------------------------------------
(***************************************************************************)
(* The interpreter's array of variables.                                   *)
(***************************************************************************)
LEMMA ThreeSeqs ==
    ASSUME NEW S, NEW a \in Seq(S), NEW b \in Seq(S), NEW d \in Seq(S)
    PROVE  /\ a \o b \o d \in Seq(S)
           /\ DOMAIN (a \o b \o d) = 1 .. Len(a) + Len(b) + Len(d)
           /\ \A i \in 1 .. Len(a) : (a \o b \o d)[i] = a[i]
           /\ \A i \in 1 .. Len(b) : (a \o b \o d)[Len(a) + i] = b[i]
           /\ \A i \in 1 .. Len(d) : (a \o b \o d)[Len(a) + Len(b) + i] = d[i]
<1>1. Len(a) \in Nat /\ Len(b) \in Nat /\ Len(d) \in Nat
  BY LenProperties
<1>2. /\ a \o b \in Seq(S) /\ Len(a \o b) = Len(a) + Len(b)
      /\ \A i \in 1 .. Len(a) + Len(b) :
            (a \o b)[i] = IF i <= Len(a) THEN a[i] ELSE b[i - Len(a)]
  BY ConcatProperties
<1> DEFINE ab == a \o b
           e == ab \o d
<1>3. /\ e \in Seq(S) /\ Len(e) = Len(ab) + Len(d)
      /\ \A i \in 1 .. Len(ab) + Len(d) :
            e[i] = IF i <= Len(ab) THEN ab[i] ELSE d[i - Len(ab)]
  <2> HIDE DEF ab
  <2>1. ab \in Seq(S)
    BY <1>2 DEF ab
  <2> QED
    BY <2>1, ConcatProperties
<1>4. DOMAIN e = 1 .. Len(e)
  <2> HIDE DEF e
  <2> QED
    BY <1>3, LenProperties
<1> HIDE DEF ab, e
<1>5. /\ Len(ab) = Len(a) + Len(b)
      /\ \A i \in 1 .. Len(a) + Len(b) :
            ab[i] = IF i <= Len(a) THEN a[i] ELSE b[i - Len(a)]
  BY <1>2 DEF ab
<1>6. \A i \in 1 .. Len(a) : e[i] = a[i]
  BY <1>1, <1>3, <1>5
<1>7. ASSUME NEW i \in 1 .. Len(b) PROVE e[Len(a) + i] = b[i]
  <2>1. Len(a) + i \in 1 .. Len(a) + Len(b) /\ ~ (Len(a) + i <= Len(a)) /\ Len(a) + i - Len(a) = i
    BY <1>1
  <2>2. Len(a) + i \in 1 .. Len(ab) + Len(d) /\ Len(a) + i <= Len(ab)
    BY <1>1, <1>5
  <2>3. e[Len(a) + i] = ab[Len(a) + i]
    BY <1>3, <2>2
  <2> QED
    BY <1>5, <2>1, <2>3
<1>8. ASSUME NEW i \in 1 .. Len(d) PROVE e[Len(a) + Len(b) + i] = d[i]
  <2> DEFINE k == Len(a) + Len(b) + i
  <2>1. k \in 1 .. Len(ab) + Len(d) /\ ~ (k <= Len(ab)) /\ k - Len(ab) = i
    BY <1>1, <1>5
  <2> HIDE DEF k
  <2>2. e[k] = d[i]
    BY <1>3, <2>1
  <2> QED
    BY <2>2 DEF k
<1>9. e = a \o b \o d /\ Len(e) = Len(a) + Len(b) + Len(d)
  BY <1>3, <1>5 DEF e, ab
<1> QED
  BY <1>3, <1>4, <1>6, <1>7, <1>8, <1>9

Variables(c) == c.varnames \in Seq(Name) /\ c.cellvars \in Seq(Name) /\ c.freevars \in Seq(Name)

LEMMA OwnIs ==
    ASSUME NEW c, Variables(c)
    PROVE  /\ Own(c) \subseteq 1 .. Len(c.cellvars) /\ Own(c) \subseteq Nat /\ IsFiniteSet(Own(c))
           /\ Cardinality(Own(c)) \in Nat
           /\ OwnSlots(c) \in Seq(Name) /\ Len(OwnSlots(c)) = Cardinality(Own(c))
           /\ \A k \in Own(c) : /\ UpTo(Own(c), k) \in 1 .. Cardinality(Own(c))
                                /\ OwnSlots(c)[UpTo(Own(c), k)] = c.cellvars[k]
<1>1. Len(c.cellvars) \in Nat /\ DOMAIN c.cellvars = 1 .. Len(c.cellvars)
  BY LenProperties DEF Variables
<1>2. Own(c) \subseteq 1 .. Len(c.cellvars)
  BY <1>1 DEF Own
<1>3. Own(c) \subseteq Nat /\ IsFiniteSet(Own(c))
  <2> DEFINE I == 1 .. Len(c.cellvars)
  <2>1. IsFiniteSet(I) /\ I \subseteq Nat /\ Own(c) \in SUBSET I
    BY <1>1, <1>2, FS_Interval
  <2> HIDE DEF I
  <2> QED
    BY <2>1, FS_Subset
<1> DEFINE n == Cardinality(Own(c))
           own == Own(c)
           at(m) == CHOOSE k \in own : UpTo(own, k) = m
           f == OwnSlots(c)
<1>4. n \in Nat
  BY <1>3, CountIs
<1>5. f = [m \in 1 .. n |-> c.cellvars[at(m)]]
  BY DEF OwnSlots
<1>6. ASSUME NEW m \in 1 .. n PROVE at(m) \in own /\ UpTo(own, at(m)) = m
  BY <1>3, CountReaches
<1>7. \A k \in own : c.cellvars[k] \in Name
  BY <1>2, ElementOfSeq DEF Variables
<1>8. ASSUME NEW k \in own
      PROVE  UpTo(own, k) \in 1 .. n /\ f[UpTo(own, k)] = c.cellvars[k]
  <2>1. UpTo(own, k) \in 1 .. n
    BY <1>3, CountIs
  <2> DEFINE m == UpTo(own, k)
             j == at(m)
  <2>2. j \in own /\ UpTo(own, j) = m
    BY <1>6, <2>1
  <2>3. j = k
    <3> HIDE DEF j
    <3>1. j \in Nat /\ k \in Nat /\ UpTo(own, j) \in Int /\ UpTo(own, k) \in Int
      BY <1>3, <2>1, <2>2
    <3>2. ~ (j < k) /\ ~ (k < j)
      BY <1>3, <2>1, <2>2, <3>1, CountIs
    <3> QED
      BY <3>1, <3>2
  <2> QED
    BY <1>5, <2>1, <2>3
<1>9. f \in Seq(Name) /\ Len(f) = n
  <2>1. f \in [1 .. n -> Name]
    BY <1>5, <1>6, <1>7
  <2> HIDE DEF f, n
  <2>2. f \in Seq(Name)
    BY <1>4, <2>1, SeqDef
  <2> QED
    BY <1>4, <2>1, <2>2, LenProperties
<1> QED
  BY <1>2, <1>3, <1>4, <1>8, <1>9

LEMMA FrameIs ==
    ASSUME NEW c, Variables(c)
    PROVE  LET v == Len(c.varnames)
               n == Cardinality(Own(c))
           IN  /\ DOMAIN Frame(c) = 1 .. v + n + Len(c.freevars)
               /\ Frame(c) \in Seq(Name)
               /\ \A i \in 1 .. v : Frame(c)[i] = c.varnames[i]
               /\ \A k \in Own(c) : Frame(c)[v + UpTo(Own(c), k)] = c.cellvars[k]
               /\ \A i \in 1 .. Len(c.freevars) : Frame(c)[v + n + i] = c.freevars[i]
<1> DEFINE a == c.varnames
           b == OwnSlots(c)
           d == c.freevars
<1>1. a \in Seq(Name) /\ d \in Seq(Name)
  BY DEF Variables
<1>2. b \in Seq(Name) /\ Len(b) = Cardinality(Own(c))
  BY OwnIs
<1>3. /\ a \o b \o d \in Seq(Name)
      /\ DOMAIN (a \o b \o d) = 1 .. Len(a) + Len(b) + Len(d)
      /\ \A i \in 1 .. Len(a) : (a \o b \o d)[i] = a[i]
      /\ \A i \in 1 .. Len(b) : (a \o b \o d)[Len(a) + i] = b[i]
      /\ \A i \in 1 .. Len(d) : (a \o b \o d)[Len(a) + Len(b) + i] = d[i]
  <2>1. a \in Seq(Name) /\ b \in Seq(Name) /\ d \in Seq(Name)
    BY <1>1, <1>2
  <2> HIDE DEF a, b, d
  <2>2. a \o b \o d \in Seq(Name) /\ DOMAIN (a \o b \o d) = 1 .. Len(a) + Len(b) + Len(d)
    BY <2>1, ThreeSeqs
  <2>3. /\ \A i \in 1 .. Len(a) : (a \o b \o d)[i] = a[i]
        /\ \A i \in 1 .. Len(b) : (a \o b \o d)[Len(a) + i] = b[i]
        /\ \A i \in 1 .. Len(d) : (a \o b \o d)[Len(a) + Len(b) + i] = d[i]
    BY <2>1, ThreeSeqs
  <2> QED
    BY <2>2, <2>3
<1>4. \A k \in Own(c) : UpTo(Own(c), k) \in 1 .. Len(b) /\ b[UpTo(Own(c), k)] = c.cellvars[k]
  BY <1>2, OwnIs
<1>5. Frame(c) = a \o b \o d
  BY DEF Frame
<1> HIDE DEF b
<1> QED
  BY <1>2, <1>3, <1>4, <1>5

-----------------------------------------------------------------------------
(***************************************************************************)
(* Finding a variable.                                                     *)
(***************************************************************************)
TablesOK ==
    /\ consts \in Seq(Object) /\ names \in Seq(Name)
    /\ varnames \in Seq(Name) /\ cellvars \in Seq(Name) /\ freevars \in Seq(Name)

\* The variables of c are those in the tables.
Same(c) == c.varnames = varnames /\ c.cellvars = cellvars /\ c.freevars = freevars

LEMMA OwnCellsIs ==
    ASSUME TablesOK, NEW c, Same(c)
    PROVE  /\ Own(c) = {k \in 1 .. Len(cellvars) : FindOnly(varnames, cellvars[k]) < 0}
           /\ OwnCells(Len(cellvars)) = Own(c)
           /\ SlotsBefore(Len(cellvars)) = Cardinality(Own(c))
           /\ \A k \in Own(c) : SlotsBefore(k - 1) = UpTo(Own(c), k) - 1
<1> DEFINE n == Len(cellvars)
           own == Own(c)
<1>0. n \in Nat /\ DOMAIN cellvars = 1 .. n /\ Variables(c)
  BY LenProperties DEF TablesOK, Same, Variables
<1>1. ASSUME NEW x PROVE ~ Contains(varnames, x) <=> FindOnly(varnames, x) < 0
  <2>1. /\ FindOnly(varnames, x) \in -1 .. Len(varnames) - 1
        /\ FindOnly(varnames, x) >= 0 <=> \E k \in 1 .. Len(varnames) : varnames[k] = x
    BY FindIs DEF TablesOK
  <2>2. Len(varnames) \in Nat
    BY LenProperties DEF TablesOK
  <2> QED
    BY <2>1, <2>2 DEF Contains
<1>2. own = {k \in 1 .. n : FindOnly(varnames, cellvars[k]) < 0}
  BY <1>0, <1>1 DEF Own, Same
<1>3. OwnCells(n) = own
  BY <1>2 DEF OwnCells
<1>4. ASSUME NEW k \in own PROVE SlotsBefore(k - 1) = UpTo(own, k) - 1
  <2> DEFINE A == {j \in own : j <= k}
  <2>1. A = OwnCells(k - 1) \cup {k} /\ k \notin OwnCells(k - 1) /\ OwnCells(k - 1) \subseteq own
    <3>1. k \in 1 .. n
      BY <1>2
    <3>3. \A j \in own : j \in Nat
      BY <1>0, <1>2
    <3>2. OwnCells(k - 1) = {j \in own : j < k}
      <4>1. \A j : j \in 1 .. k - 1 <=> j \in 1 .. n /\ j < k
        BY <1>0, <3>1
      <4> QED
        BY <1>2, <4>1 DEF OwnCells
    <3>4. k \in own /\ ~ (k < k) /\ \A j \in own : j <= k <=> j < k \/ j = k
      BY <3>1, <3>3
    <3> HIDE DEF own
    <3> QED
      BY <3>2, <3>4
  <2>2. IsFiniteSet(own) /\ own \subseteq Nat
    BY <1>0, OwnIs
  <2> DEFINE B == OwnCells(k - 1)
  <2> HIDE DEF A, B, own
  <2>3. IsFiniteSet(B)
    BY <2>1, <2>2, FS_Subset DEF B
  <2>4. Cardinality(B) \in Nat /\ Cardinality(A) = Cardinality(B) + 1
    BY <2>1, <2>3, FS_CardinalityType, FS_AddElement DEF B
  <2> QED
    BY <2>4 DEF A, B, UpTo, SlotsBefore
<1> QED
  BY <1>2, <1>3, <1>4 DEF SlotsBefore

Somewhere == ToSet(varnames) \cup ToSet(cellvars) \cup ToSet(freevars)

LEMMA InTable ==
    ASSUME NEW s \in Seq(Name), NEW x
    PROVE  /\ FindOnly(s, x) \in Int
           /\ FindOnly(s, x) >= 0 <=> x \in ToSet(s)
<1>1. FindOnly(s, x) \in -1 .. Len(s) - 1 /\ Len(s) \in Nat /\ DOMAIN s = 1 .. Len(s)
  BY FindIs, LenProperties
<1>2. FindOnly(s, x) >= 0 <=> \E k \in 1 .. Len(s) : s[k] = x
  BY FindIs
<1> QED
  BY <1>1, <1>2 DEF ToSet

\* localsplus_find() returns the place that the interpreter gives the variable.
LEMMA PlaceIs ==
    ASSUME TablesOK, NEW c, Same(c), NEW x
    PROVE  /\ LocalsPlusFind(x) \in Int
           /\ LocalsPlusFind(x) >= 0 <=> x \in Somewhere
           /\ LocalsPlusFind(x) >= 0 =>
                 LocalsPlusFind(x) + 1 \in DOMAIN Frame(c) /\ Frame(c)[LocalsPlusFind(x) + 1] = x
<1> DEFINE v == Len(varnames)
           n == Cardinality(Own(c))
           local == FindOnly(varnames, x)
           cell == FindOnly(cellvars, x)
           free == FindOnly(freevars, x)
           i == LocalsPlusFind(x)
<1>0. /\ Variables(c) /\ v \in Nat /\ n \in Nat /\ Len(cellvars) \in Nat /\ Len(freevars) \in Nat
      /\ c.varnames = varnames /\ c.cellvars = cellvars /\ c.freevars = freevars
  BY LenProperties, OwnIs DEF TablesOK, Same, Variables
<1>1. /\ local \in Int /\ cell \in Int /\ free \in Int
      /\ local >= 0 <=> x \in ToSet(varnames)
      /\ cell >= 0 <=> x \in ToSet(cellvars)
      /\ free >= 0 <=> x \in ToSet(freevars)
  BY InTable DEF TablesOK
<1>2. /\ DOMAIN Frame(c) = 1 .. v + n + Len(freevars)
      /\ \A j \in 1 .. v : Frame(c)[j] = varnames[j]
      /\ \A k \in Own(c) : Frame(c)[v + UpTo(Own(c), k)] = cellvars[k]
      /\ \A j \in 1 .. Len(freevars) : Frame(c)[v + n + j] = freevars[j]
  BY <1>0, FrameIs
<1>3. CASE local >= 0
  <2>1. i = local
    BY <1>1, <1>3 DEF LocalsPlusFind
  <2>2. local + 1 \in 1 .. v /\ varnames[local + 1] = x
    BY <1>3, FindIs DEF TablesOK
  <2> HIDE DEF i, local
  <2>3. local + 1 \in 1 .. v + n + Len(freevars)
    BY <1>0, <2>2
  <2>4. Frame(c)[local + 1] = x
    BY <1>2, <2>2
  <2> QED
    BY <1>1, <1>2, <1>3, <2>1, <2>3, <2>4 DEF Somewhere, i
<1>4. CASE local < 0 /\ cell >= 0
  <2> DEFINE k == cell + 1
  <2>1. i = v + SlotsBefore(cell)
    BY <1>1, <1>4 DEF LocalsPlusFind
  <2>2. k \in 1 .. Len(cellvars) /\ cellvars[k] = x /\ k - 1 = cell
    BY <1>1, <1>4, FindIs DEF TablesOK
  <2>3. k \in Own(c) /\ SlotsBefore(k - 1) = UpTo(Own(c), k) - 1
    BY <1>4, <2>2, OwnCellsIs
  <2>4. UpTo(Own(c), k) \in 1 .. n
    BY <1>0, <2>3, OwnIs
  <2> HIDE DEF i, k, local, cell
  <2>5. i \in Int /\ i >= 0 /\ i + 1 = v + UpTo(Own(c), k)
    BY <1>0, <2>1, <2>2, <2>3, <2>4
  <2>6. Frame(c)[i + 1] = x
    BY <1>2, <2>2, <2>3, <2>5
  <2>7. i + 1 \in DOMAIN Frame(c)
    BY <1>0, <1>2, <2>4, <2>5
  <2> QED
    BY <1>1, <1>4, <2>5, <2>6, <2>7 DEF Somewhere, i
<1>5. CASE local < 0 /\ cell < 0 /\ free >= 0
  <2>1. i = v + n + free
    BY <1>1, <1>5, OwnCellsIs DEF LocalsPlusFind
  <2>2. free + 1 \in 1 .. Len(freevars) /\ freevars[free + 1] = x
    BY <1>1, <1>5, FindIs DEF TablesOK
  <2> HIDE DEF i, local, cell, free, n
  <2>3. i \in Int /\ i >= 0 /\ i + 1 = v + n + (free + 1)
    BY <1>0, <1>1, <1>5, <2>1
  <2>4. Frame(c)[i + 1] = x
    BY <1>2, <2>2, <2>3
  <2>5. i + 1 \in DOMAIN Frame(c)
    BY <1>0, <1>2, <2>2, <2>3
  <2> QED
    BY <1>1, <1>5, <2>3, <2>4, <2>5 DEF Somewhere, i
<1>6. CASE local < 0 /\ cell < 0 /\ free < 0
  <2>1. i = -1
    BY <1>1, <1>6 DEF LocalsPlusFind
  <2> QED
    BY <1>1, <1>6, <2>1 DEF Somewhere
<1> QED
  BY <1>1, <1>3, <1>4, <1>5, <1>6

-----------------------------------------------------------------------------
(***************************************************************************)
(* The inductive invariant.                                                *)
(***************************************************************************)
\* An object is no NAME's argument, and only that of a variable is raw.
Instr ==
    {i \in [kind : Kind, arg : [form : {"value"}, is : Object \cup Name]
                                 \cup [form : {"index"}, is : Nat]] :
        /\ i.arg.form = "value" => IF i.kind = "CONST" THEN i.arg.is \in Object
                                   ELSE i.kind \in {"LOCAL", "FREE"} /\ i.arg.is \in Name
        /\ i.arg.form = "index" => i.kind \in {"LOCAL", "NAME", "GLOBAL"}}

Shape ==
    /\ co \in CodeObjects
    /\ TablesOK
    /\ nlocals \in Nat /\ cursor \in Nat /\ edited \in BOOLEAN
    /\ phase \in {"decode", "edit", "intern", "index"}
    /\ instrs \in Seq(Instr) /\ source \in Seq(Items) /\ code \in Seq(Kind \X Nat)

\* How far each phase has come.
Progress ==
    /\ phase = "decode" =>
          /\ Len(instrs) = cursor /\ cursor <= Len(co.code)
          /\ source = Denotes(co)
          /\ Same(co) /\ co.consts = consts /\ co.names = names
    /\ phase # "decode" => Len(instrs) = Len(source)
    /\ phase \in {"intern", "index"} => cursor <= Len(instrs)
    /\ phase = "intern" => code = <<>>
    /\ phase = "index" => Len(code) = cursor

\* The code object that to_code() would build of the tables.
Now ==
    [consts |-> consts, names |-> names, varnames |-> varnames, cellvars |-> cellvars,
     freevars |-> freevars, unified |-> Unified]

\* What an instruction names, and that an index it holds is one.
Says(i) == IF i.arg.form = "value" THEN Meant(i.kind, i.arg.is)
           ELSE Reads(Now, <<i.kind, i.arg.is>>)
Within(i) ==
    i.arg.form = "index" =>
        IF i.kind = "LOCAL" THEN i.arg.is + 1 \in DOMAIN varnames
        ELSE Refers(Now, <<i.kind, i.arg.is>>)
Meanings == \A k \in DOMAIN instrs : source[k] = Says(instrs[k]) /\ Within(instrs[k])

\* The first sweep has been over i.
Bound(i) ==
    i.arg.form = "value" =>
        /\ i.kind = "FREE" => i.arg.is \in ToSet(cellvars) \cup ToSet(freevars)
        /\ i.kind = "LOCAL" => i.arg.is \in IF Unified THEN Somewhere ELSE ToSet(varnames)
Interned ==
    /\ phase = "intern" => \A k \in 1 .. cursor : Bound(instrs[k])
    /\ phase = "index" => \A k \in DOMAIN instrs : Bound(instrs[k])

IInv == Shape /\ Progress /\ Meanings /\ Interned

\* The second sweep has been right so far.
Coded ==
    phase = "index" =>
        \A k \in DOMAIN code : Refers(Now, code[k]) /\ Reads(Now, code[k]) = source[k]
Built == ~ edited => Denotes(built) = source

-----------------------------------------------------------------------------
(***************************************************************************)
(* What indices refer to.                                                  *)
(***************************************************************************)
LEMMA ReadsSame ==
    ASSUME NEW c, NEW d, NEW x,
           c.consts = d.consts, c.names = d.names, c.varnames = d.varnames,
           c.cellvars = d.cellvars, c.freevars = d.freevars, c.unified = d.unified
    PROVE  Reads(c, x) = Reads(d, x) /\ (Refers(c, x) <=> Refers(d, x))
<1>1. Frame(c) = Frame(d) /\ Cells(c) = Cells(d)
  BY DEF Frame, Cells, OwnSlots, Own
<1> QED
  BY <1>1 DEF Reads, Refers

LEMMA LocalReads ==
    ASSUME NEW c, Variables(c), NEW n \in Nat, n + 1 \in DOMAIN c.varnames
    PROVE  /\ Reads(c, <<"LOCAL", n>>) = <<"LOCAL", c.varnames[n + 1]>>
           /\ Refers(c, <<"LOCAL", n>>)
<1>1. DOMAIN c.varnames = 1 .. Len(c.varnames) /\ Len(c.varnames) \in Nat /\ Len(c.freevars) \in Nat
  BY LenProperties DEF Variables
<1>2. Cardinality(Own(c)) \in Nat
  BY OwnIs
<1>3. n + 1 \in DOMAIN Frame(c) /\ Frame(c)[n + 1] = c.varnames[n + 1]
  BY <1>1, <1>2, FrameIs
<1> QED
  BY <1>3 DEF Reads, Refers

NameAt(unified, kind, n) == IF kind = "GLOBAL" /\ unified THEN n \div 2 + 1 ELSE n + 1
NamedAs(unified, kind, n) ==
    IF kind = "GLOBAL" /\ unified /\ n % 2 # 1 THEN "GLOBAL without NULL" ELSE kind
LEMMA NameReads ==
    ASSUME NEW c, NEW u \in BOOLEAN, c.unified = u, NEW kind \in NameKind, NEW n \in Nat
    PROVE  /\ Refers(c, <<kind, n>>) <=> NameAt(u, kind, n) \in DOMAIN c.names
           /\ Reads(c, <<kind, n>>) = <<NamedAs(u, kind, n), c.names[NameAt(u, kind, n)]>>
<1>1. CASE kind = "NAME"
  BY <1>1 DEF Reads, Refers, NameAt, NamedAs
<1>2. CASE kind = "GLOBAL" /\ ~ u
  BY <1>2 DEF Reads, Refers, NameAt, NamedAs
<1>3. CASE kind = "GLOBAL" /\ u
  BY <1>3 DEF Reads, Refers, NameAt, NamedAs
<1> QED
  BY <1>1, <1>2, <1>3 DEF NameKind

\* Names are only ever added behind names, and arguments behind arguments, as long
\* as an instruction has the index of one.
Kept(s) == \A k \in DOMAIN s : k \in DOMAIN s' /\ s'[k] = s[k]
LEMMA SaysStays ==
    ASSUME TablesOK, TablesOK', UNCHANGED co, Unified \in BOOLEAN,
           NEW i \in Instr, Within(i),
           i.arg.form = "index" /\ i.kind = "LOCAL" => Kept(varnames),
           i.arg.form = "index" /\ i.kind # "LOCAL" => Kept(names)
    PROVE  Says(i)' = Says(i) /\ Within(i)'
<1> DEFINE n == i.arg.is
<1>1. Unified' = Unified /\ Now.unified = Unified /\ Now'.unified = Unified
      /\ Now.names = names /\ Now'.names = names'
      /\ Now.varnames = varnames /\ Now'.varnames = varnames'
      /\ Variables(Now) /\ Variables(Now')
  BY DEF Unified, Now, Variables, TablesOK
<1>2. /\ i.arg.form \in {"value", "index"} /\ i.kind \in Kind
      /\ i.arg.form = "index" => n \in Nat /\ i.kind \in {"LOCAL", "NAME", "GLOBAL"}
  BY DEF Instr
<1>3. CASE i.arg.form = "value"
  BY <1>3 DEF Says, Within
<1>4. CASE i.arg.form = "index" /\ i.kind = "LOCAL"
  <2> DEFINE c == Now
             d == Now'
  <2>1. n + 1 \in DOMAIN varnames /\ n + 1 \in DOMAIN varnames' /\ varnames'[n + 1] = varnames[n + 1]
    BY <1>4 DEF Within, Kept
  <2>2. /\ Variables(c) /\ c.varnames = varnames /\ Variables(d) /\ d.varnames = varnames'
        /\ n \in Nat
    BY <1>1, <1>2, <1>4
  <2> HIDE DEF c, d, n
  <2>3. Reads(c, <<"LOCAL", n>>) = <<"LOCAL", varnames[n + 1]>>
    BY <2>1, <2>2, LocalReads
  <2>4. Reads(d, <<"LOCAL", n>>) = <<"LOCAL", varnames'[n + 1]>>
    BY <2>1, <2>2, LocalReads
  <2>5. Says(i) = Reads(c, <<"LOCAL", n>>) /\ Says(i)' = Reads(d, <<"LOCAL", n>>)
    BY <1>4 DEF Says, c, d, n
  <2>6. Within(i)'
    BY <1>4, <2>1 DEF Within, n
  <2> QED
    BY <2>1, <2>3, <2>4, <2>5, <2>6
<1>5. CASE i.arg.form = "index" /\ i.kind # "LOCAL"
  <2> DEFINE c == Now
             d == Now'
             kind == i.kind
  <2>1. /\ kind \in NameKind /\ n \in Nat /\ c.unified \in BOOLEAN /\ d.unified = c.unified
        /\ c.names = names /\ d.names = names'
    BY <1>1, <1>2, <1>5 DEF NameKind
  <2>2. Refers(c, <<kind, n>>) /\ Says(i) = Reads(c, <<kind, n>>) /\ Says(i)' = Reads(d, <<kind, n>>)
    BY <1>5 DEF Within, Says
  <2>3. Within(i)' <=> Refers(d, <<kind, n>>)
    BY <1>5 DEF Within
  <2> DEFINE u == Unified
             at == NameAt(u, kind, n)
  <2>4. u \in BOOLEAN /\ c.unified = u /\ d.unified = u
    BY <1>1
  <2> HIDE DEF c, d, n, kind, u
  <2>5. (Refers(c, <<kind, n>>) <=> at \in DOMAIN c.names) /\ (Refers(d, <<kind, n>>) <=> at \in DOMAIN d.names)
    BY <2>1, <2>4, NameReads
  <2>6. /\ Reads(c, <<kind, n>>) = <<NamedAs(u, kind, n), c.names[at]>>
        /\ Reads(d, <<kind, n>>) = <<NamedAs(u, kind, n), d.names[at]>>
    BY <2>1, <2>4, NameReads
  <2> HIDE DEF at
  <2>8. at \in DOMAIN names /\ at \in DOMAIN names' /\ names'[at] = names[at]
    BY <1>5, <2>1, <2>2, <2>5 DEF Kept
  <2> QED
    BY <2>1, <2>2, <2>3, <2>5, <2>6, <2>8
<1> QED
  BY <1>2, <1>3, <1>4, <1>5

-----------------------------------------------------------------------------
(***************************************************************************)
(* Sequences that grow and shrink in the middle.                           *)
(***************************************************************************)
\* t is s with e at k, and with nothing at k.
Inserted(t, s, k, e) ==
    /\ Len(t) = Len(s) + 1 /\ DOMAIN t = 1 .. Len(s) + 1
    /\ \A j \in 1 .. k - 1 : t[j] = s[j]
    /\ t[k] = e
    /\ \A j \in k .. Len(s) : t[j + 1] = s[j]
Removed(t, s, k) ==
    /\ Len(t) = Len(s) - 1 /\ DOMAIN t = 1 .. Len(s) - 1
    /\ \A j \in 1 .. k - 1 : t[j] = s[j]
    /\ \A j \in k .. Len(s) - 1 : t[j] = s[j + 1]

LEMMA InsertIs ==
    ASSUME NEW S, NEW s \in Seq(S), NEW k \in 1 .. Len(s) + 1, NEW e \in S
    PROVE  InsertAt(s, k, e) \in Seq(S) /\ Inserted(InsertAt(s, k, e), s, k, e)
<1> DEFINE a == SubSeq(s, 1, k - 1)
           b == <<e>>
           d == SubSeq(s, k, Len(s))
           r == a \o b \o d
<1>1. Len(s) \in Nat /\ k \in Nat /\ \A j \in 1 .. Len(s) : s[j] \in S
  BY LenProperties, ElementOfSeq
<1>2. /\ a \in Seq(S) /\ Len(a) = k - 1 /\ \A j \in 1 .. k - 1 : a[j] = s[j]
      /\ d \in Seq(S) /\ Len(d) = Len(s) - k + 1
      /\ \A j \in 1 .. Len(s) - k + 1 : d[j] = s[k + j - 1]
  <2>1. /\ a \in Seq(S) /\ Len(a) = (IF 1 <= k - 1 THEN k - 1 - 1 + 1 ELSE 0)
        /\ \A j \in 1 .. k - 1 - 1 + 1 : a[j] = s[1 + j - 1]
    BY <1>1, SubSeqProperties
  <2>2. /\ d \in Seq(S) /\ Len(d) = (IF k <= Len(s) THEN Len(s) - k + 1 ELSE 0)
        /\ \A j \in 1 .. Len(s) - k + 1 : d[j] = s[k + j - 1]
    BY <1>1, SubSeqProperties
  <2> HIDE DEF a, d
  <2> QED
    BY <1>1, <2>1, <2>2
<1>3. b \in Seq(S) /\ Len(b) = 1 /\ b[1] = e
  OBVIOUS
<1> HIDE DEF a, b, d
<1>4. /\ r \in Seq(S) /\ DOMAIN r = 1 .. Len(a) + Len(b) + Len(d)
      /\ \A i \in 1 .. Len(a) : r[i] = a[i]
      /\ \A i \in 1 .. Len(b) : r[Len(a) + i] = b[i]
      /\ \A i \in 1 .. Len(d) : r[Len(a) + Len(b) + i] = d[i]
  <2>0. a \in Seq(S) /\ b \in Seq(S) /\ d \in Seq(S)
    BY <1>2, <1>3
  <2>1. r \in Seq(S) /\ DOMAIN r = 1 .. Len(a) + Len(b) + Len(d)
    BY <2>0, ThreeSeqs
  <2>2. /\ \A i \in 1 .. Len(a) : r[i] = a[i]
        /\ \A i \in 1 .. Len(b) : r[Len(a) + i] = b[i]
        /\ \A i \in 1 .. Len(d) : r[Len(a) + Len(b) + i] = d[i]
    BY <2>0, ThreeSeqs
  <2> QED
    BY <2>1, <2>2
<1>5. InsertAt(s, k, e) = r
  BY DEF InsertAt, a, b, d
<1> HIDE DEF r
<1>6. DOMAIN r = 1 .. Len(s) + 1
  BY <1>1, <1>2, <1>3, <1>4
<1>7. Len(r) = Len(s) + 1
  BY <1>1, <1>4, <1>6, LenProperties
<1>8. r[k] = e
  <2>1. 1 \in 1 .. Len(b) /\ Len(a) + 1 = k
    BY <1>1, <1>2, <1>3
  <2> QED
    BY <1>3, <1>4, <2>1
<1>9. ASSUME NEW j \in k + 1 .. Len(s) + 1 PROVE r[j] = s[j - 1]
  <2> DEFINE m == j - k
  <2>1. m \in 1 .. Len(d) /\ m \in 1 .. Len(s) - k + 1 /\ Len(a) + Len(b) + m = j /\ k + m - 1 = j - 1
    BY <1>1, <1>2, <1>3
  <2> HIDE DEF m
  <2>2. r[Len(a) + Len(b) + m] = d[m] /\ d[m] = s[k + m - 1]
    BY <1>2, <1>4, <2>1
  <2> QED
    BY <2>1, <2>2
<1>10. \A j \in 1 .. k - 1 : r[j] = s[j]
  BY <1>2, <1>4
<1>11. ASSUME NEW j \in k .. Len(s) PROVE r[j + 1] = s[j]
  <2>1. j + 1 \in k + 1 .. Len(s) + 1 /\ j + 1 - 1 = j
    BY <1>1
  <2> QED
    BY <1>9, <2>1
<1> QED
  BY <1>4, <1>5, <1>6, <1>7, <1>8, <1>10, <1>11 DEF Inserted

LEMMA RemoveIs ==
    ASSUME NEW S, NEW s \in Seq(S), NEW k \in 1 .. Len(s)
    PROVE  RemoveAt(s, k) \in Seq(S) /\ Removed(RemoveAt(s, k), s, k)
<1> DEFINE a == SubSeq(s, 1, k - 1)
           d == SubSeq(s, k + 1, Len(s))
           r == a \o d
<1>1. Len(s) \in Nat /\ k \in Nat /\ \A j \in 1 .. Len(s) : s[j] \in S
  BY LenProperties, ElementOfSeq
<1>2. /\ a \in Seq(S) /\ Len(a) = k - 1 /\ \A j \in 1 .. k - 1 : a[j] = s[j]
      /\ d \in Seq(S) /\ Len(d) = Len(s) - k
      /\ \A j \in 1 .. Len(s) - k : d[j] = s[k + j]
  <2>1. /\ a \in Seq(S) /\ Len(a) = (IF 1 <= k - 1 THEN k - 1 - 1 + 1 ELSE 0)
        /\ \A j \in 1 .. k - 1 - 1 + 1 : a[j] = s[1 + j - 1]
    BY <1>1, SubSeqProperties
  <2>2. /\ d \in Seq(S) /\ Len(d) = (IF k + 1 <= Len(s) THEN Len(s) - (k + 1) + 1 ELSE 0)
        /\ \A j \in 1 .. Len(s) - (k + 1) + 1 : d[j] = s[k + 1 + j - 1]
    BY <1>1, SubSeqProperties
  <2> HIDE DEF a, d
  <2> QED
    BY <1>1, <2>1, <2>2
<1> HIDE DEF a, d
<1>3. /\ r \in Seq(S) /\ Len(r) = Len(a) + Len(d)
      /\ \A i \in 1 .. Len(a) + Len(d) : r[i] = IF i <= Len(a) THEN a[i] ELSE d[i - Len(a)]
  BY <1>2, ConcatProperties
<1>4. RemoveAt(s, k) = r
  BY DEF RemoveAt, a, d
<1> HIDE DEF r
<1>5. Len(r) = Len(s) - 1 /\ DOMAIN r = 1 .. Len(s) - 1
  <2>1. Len(r) = Len(s) - 1
    BY <1>1, <1>2, <1>3
  <2> QED
    BY <1>3, <2>1, LenProperties
<1>6. ASSUME NEW j \in 1 .. k - 1 PROVE r[j] = s[j]
  <2>1. j \in 1 .. Len(a) + Len(d) /\ j <= Len(a)
    BY <1>1, <1>2
  <2>2. r[j] = a[j]
    BY <1>3, <2>1
  <2> QED
    BY <1>2, <2>2
<1>7. ASSUME NEW j \in k .. Len(s) - 1 PROVE r[j] = s[j + 1]
  <2> DEFINE m == j - (k - 1)
  <2>1. m \in 1 .. Len(s) - k /\ ~ (j <= Len(a)) /\ j \in 1 .. Len(a) + Len(d)
        /\ j - Len(a) = m /\ k + m = j + 1
    BY <1>1, <1>2
  <2> HIDE DEF m
  <2>2. r[j] = d[m] /\ d[m] = s[k + m]
    BY <1>2, <1>3, <2>1
  <2> QED
    BY <2>1, <2>2
<1> QED
  BY <1>3, <1>4, <1>5, <1>6, <1>7 DEF Removed

-----------------------------------------------------------------------------
(***************************************************************************)
(* What from_code() makes of an index.                                     *)
(***************************************************************************)
LEMMA NamesAtUnified ==
    ASSUME TablesOK, NEW c, Same(c), c.unified = TRUE, Unified = TRUE,
           NEW kind \in {"LOCAL", "FREE"}, NEW n \in Nat, n + 1 \in DOMAIN Frame(c)
    PROVE  NamesAt(kind, n) = {Frame(c)[n + 1]} /\ Frame(c)[n + 1] \in Name
<1> DEFINE v == Len(varnames)
           N == Cardinality(Own(c))
           own == {k \in OwnCells(Len(cellvars)) : v + SlotsBefore(k - 1) = n}
           A == {varnames[j] : j \in {n - 0 + 1} \cap DOMAIN varnames}
           B == {cellvars[k] : k \in own}
           D == {freevars[j] : j \in {n - (v + SlotsBefore(Len(cellvars))) + 1} \cap DOMAIN freevars}
           x == Frame(c)[n + 1]
<1>1. NamesAt(kind, n) = A \cup B \cup D
  BY DEF NamesAt
<1>2. /\ Variables(c) /\ v \in Nat /\ N \in Nat /\ Len(freevars) \in Nat
      /\ c.varnames = varnames /\ c.cellvars = cellvars /\ c.freevars = freevars
      /\ DOMAIN varnames = 1 .. v /\ DOMAIN freevars = 1 .. Len(freevars)
  BY LenProperties, OwnIs DEF TablesOK, Same, Variables
<1>3. /\ DOMAIN Frame(c) = 1 .. v + N + Len(freevars) /\ Frame(c) \in Seq(Name)
      /\ \A j \in 1 .. v : Frame(c)[j] = varnames[j]
      /\ \A k \in Own(c) : Frame(c)[v + UpTo(Own(c), k)] = cellvars[k]
      /\ \A j \in 1 .. Len(freevars) : Frame(c)[v + N + j] = freevars[j]
  BY <1>2, FrameIs
<1>4. x \in Name
  BY <1>3, LenProperties, ElementOfSeq
<1>5. /\ own = {k \in Own(c) : v + (UpTo(Own(c), k) - 1) = n}
      /\ D = {freevars[j] : j \in {n - (v + N) + 1} \cap DOMAIN freevars}
      /\ \A k \in Own(c) : UpTo(Own(c), k) \in 1 .. N
  BY <1>2, OwnCellsIs, OwnIs
<1>6. n + 1 \in 1 .. v + N + Len(freevars)
  BY <1>3
<1>7. B = {cellvars[k] : k \in {j \in Own(c) : v + UpTo(Own(c), j) = n + 1}}
  <2>1. \A k \in Own(c) : v + (UpTo(Own(c), k) - 1) = n <=> v + UpTo(Own(c), k) = n + 1
    BY <1>2, <1>5
  <2> HIDE DEF N, v
  <2> QED
    BY <1>5, <2>1
<1>8. A = {varnames[j] : j \in {n + 1} \cap 1 .. v}
  BY <1>2
<1>9. D = {freevars[j] : j \in {n - (v + N) + 1} \cap 1 .. Len(freevars)}
  BY <1>2, <1>5
<1> HIDE DEF A, B, D, x, own, N, v
<1>10. CASE n + 1 \in 1 .. v
  <2>1. A = {x}
    BY <1>3, <1>8, <1>10 DEF x
  <2>2. B = {}
    BY <1>2, <1>5, <1>7, <1>10
  <2>3. D = {}
    BY <1>2, <1>9, <1>10
  <2> QED
    BY <1>1, <1>4, <2>1, <2>2, <2>3 DEF x
<1>11. CASE n + 1 \in v + 1 .. v + N
  <2> DEFINE m == n + 1 - v
  <2>1. m \in 1 .. N /\ v + m = n + 1
    BY <1>2, <1>11
  <2> HIDE DEF m
  <2>2. PICK k \in Own(c) : UpTo(Own(c), k) = m
    BY <1>2, <2>1, CountReaches, OwnIs DEF N
  <2>3. x = cellvars[k]
    BY <1>3, <2>1, <2>2 DEF x
  <2>4. B = {x}
    <3>1. \A j \in Own(c) : v + UpTo(Own(c), j) = n + 1 => cellvars[j] = x
      BY <1>3 DEF x
    <3> QED
      BY <1>7, <2>1, <2>2, <2>3, <3>1
  <2>5. A = {}
    BY <1>2, <1>8, <1>11
  <2>6. D = {}
    BY <1>2, <1>9, <1>11
  <2> QED
    BY <1>1, <1>4, <2>4, <2>5, <2>6 DEF x
<1>12. CASE n + 1 \in v + N + 1 .. v + N + Len(freevars)
  <2> DEFINE m == n - (v + N) + 1
  <2>1. m \in 1 .. Len(freevars) /\ v + N + m = n + 1
    BY <1>2, <1>12
  <2> HIDE DEF m
  <2>2. x = freevars[m]
    BY <1>3, <2>1 DEF x
  <2>3. D = {x}
    BY <1>9, <2>1, <2>2 DEF m
  <2>4. A = {}
    BY <1>2, <1>8, <1>12
  <2>5. B = {}
    BY <1>2, <1>5, <1>7, <1>12
  <2> QED
    BY <1>1, <1>4, <2>3, <2>4, <2>5 DEF x
<1> QED
  BY <1>2, <1>6, <1>10, <1>11, <1>12

LEMMA NamesAtApart ==
    ASSUME TablesOK, NEW c, Same(c), Unified = FALSE, NEW n \in Nat
    PROVE  /\ n + 1 \in DOMAIN varnames =>
                NamesAt("LOCAL", n) = {varnames[n + 1]} /\ varnames[n + 1] \in Name
           /\ n + 1 \in DOMAIN Cells(c) =>
                NamesAt("FREE", n) = {Cells(c)[n + 1]} /\ Cells(c)[n + 1] \in Name
<1>1. ASSUME n + 1 \in DOMAIN varnames
      PROVE  NamesAt("LOCAL", n) = {varnames[n + 1]} /\ varnames[n + 1] \in Name
  <2>1. NamesAt("LOCAL", n) = {varnames[j] : j \in {n - 0 + 1} \cap DOMAIN varnames}
    BY DEF NamesAt
  <2>2. varnames[n + 1] \in Name
    BY <1>1, LenProperties, ElementOfSeq DEF TablesOK
  <2> QED
    BY <1>1, <2>1, <2>2
<1>2. ASSUME n + 1 \in DOMAIN Cells(c)
      PROVE  NamesAt("FREE", n) = {Cells(c)[n + 1]} /\ Cells(c)[n + 1] \in Name
  <2> DEFINE a == Len(cellvars)
             A == {cellvars[j] : j \in {n - 0 + 1} \cap DOMAIN cellvars}
             D == {freevars[j] : j \in {n - a + 1} \cap DOMAIN freevars}
             s == cellvars \o freevars
             x == s[n + 1]
  <2>1. NamesAt("FREE", n) = A \cup D /\ s = Cells(c)
    BY DEF NamesAt, Cells, Same
  <2>2. /\ a \in Nat /\ Len(freevars) \in Nat
        /\ DOMAIN cellvars = 1 .. a /\ DOMAIN freevars = 1 .. Len(freevars)
    BY LenProperties DEF TablesOK
  <2>3. /\ s \in Seq(Name) /\ Len(s) = a + Len(freevars)
        /\ \A i \in 1 .. a + Len(freevars) : s[i] = IF i <= a THEN cellvars[i] ELSE freevars[i - a]
    BY ConcatProperties DEF TablesOK
  <2>4. n + 1 \in 1 .. a + Len(freevars) /\ x \in Name
    <3> HIDE DEF s
    <3>1. DOMAIN s = 1 .. Len(s)
      BY <2>3, LenProperties
    <3> QED
      BY <1>2, <2>1, <2>3, <3>1, ElementOfSeq
  <2> HIDE DEF s, a
  <2>5. CASE n + 1 <= a
    <3>1. x = cellvars[n + 1] /\ A = {x}
      BY <2>2, <2>3, <2>4, <2>5
    <3>2. D = {}
      BY <2>2, <2>5
    <3> QED
      BY <2>1, <2>4, <3>1, <3>2
  <2>6. CASE n + 1 > a
    <3>1. x = freevars[n - a + 1] /\ n - a + 1 \in 1 .. Len(freevars)
      <4>1. n + 1 - a = n - a + 1 /\ ~ (n + 1 <= a)
        BY <2>2, <2>6
      <4> QED
        BY <2>2, <2>3, <2>4, <2>6, <4>1
    <3>2. D = {x}
      BY <2>2, <3>1
    <3>3. A = {}
      BY <2>2, <2>6
    <3> QED
      BY <2>1, <2>4, <3>2, <3>3
  <2> QED
    BY <2>2, <2>5, <2>6
<1> QED
  BY <1>1, <1>2

LEMMA InstrIs ==
    /\ \A o \in Object : [kind |-> "CONST", arg |-> Value(o)] \in Instr
    /\ \A kind \in {"LOCAL", "FREE"}, x \in Name : [kind |-> kind, arg |-> Value(x)] \in Instr
    /\ \A kind \in {"LOCAL", "NAME", "GLOBAL"}, n \in Nat : [kind |-> kind, arg |-> Index(n)] \in Instr
<1>1. ASSUME NEW o \in Object PROVE [kind |-> "CONST", arg |-> Value(o)] \in Instr
  <2>1. Value(o) \in [form : {"value"}, is : Object \cup Name] /\ Value(o).form = "value" /\ Value(o).is = o
    BY DEF Value
  <2> DEFINE a == Value(o)
             A == [form : {"value"}, is : Object \cup Name] \cup [form : {"index"}, is : Nat]
             i == [kind |-> "CONST", arg |-> a]
  <2>2. a \in A /\ a.form = "value" /\ a.is = o
    BY <2>1
  <2> HIDE DEF a, A
  <2>3. i \in [kind : Kind, arg : A]
    BY <2>2 DEF Kind
  <2> QED
    BY <2>2, <2>3 DEF Instr, A, a
<1>2. ASSUME NEW kind \in {"LOCAL", "FREE"}, NEW x \in Name
      PROVE  [kind |-> kind, arg |-> Value(x)] \in Instr
  <2>1. Value(x) \in [form : {"value"}, is : Object \cup Name] /\ Value(x).form = "value" /\ Value(x).is = x
    BY DEF Value
  <2> DEFINE a == Value(x)
             A == [form : {"value"}, is : Object \cup Name] \cup [form : {"index"}, is : Nat]
             i == [kind |-> kind, arg |-> a]
  <2>2. a \in A /\ a.form = "value" /\ a.is = x
    BY <2>1
  <2> HIDE DEF a, A
  <2>3. i \in [kind : Kind, arg : A]
    BY <2>2 DEF Kind
  <2> QED
    BY <2>2, <2>3 DEF Instr, A, a
<1>3. ASSUME NEW kind \in {"LOCAL", "NAME", "GLOBAL"}, NEW n \in Nat
      PROVE  [kind |-> kind, arg |-> Index(n)] \in Instr
  <2>1. Index(n) \in [form : {"index"}, is : Nat] /\ Index(n).form = "index"
    BY DEF Index
  <2> DEFINE a == Index(n)
             A == [form : {"value"}, is : Object \cup Name] \cup [form : {"index"}, is : Nat]
             i == [kind |-> kind, arg |-> a]
  <2>2. a \in A /\ a.form = "index" /\ a.form # "value"
    BY <2>1
  <2> HIDE DEF a, A
  <2>3. i \in [kind : Kind, arg : A]
    BY <2>2 DEF Kind, NameKind
  <2> QED
    BY <2>2, <2>3 DEF Instr, A, a
<1> QED
  BY <1>1, <1>2, <1>3

LEMMA DecodedIs ==
    ASSUME Shape, Progress, phase = "decode", NEW kind \in Kind, NEW n \in Nat,
           Refers(co, <<kind, n>>)
    PROVE  LET i == [kind |-> kind, arg |-> ArgOf(kind, n)]
           IN  i \in Instr /\ Says(i) = Reads(co, <<kind, n>>) /\ Within(i)
<1> DEFINE i == [kind |-> kind, arg |-> ArgOf(kind, n)]
           c == co
<1>1. /\ TablesOK /\ Same(c) /\ c.consts = consts /\ c.names = names
      /\ c.unified = Unified /\ Unified \in BOOLEAN /\ consts \in Seq(Object)
  BY CodeAssumption DEF Shape, Progress, Unified, TablesOK
<1>2. Reads(Now, <<kind, n>>) = Reads(c, <<kind, n>>) /\ (Refers(Now, <<kind, n>>) <=> Refers(c, <<kind, n>>))
  <2> DEFINE d == Now
  <2>1. /\ c.consts = d.consts /\ c.names = d.names /\ c.varnames = d.varnames
        /\ c.cellvars = d.cellvars /\ c.freevars = d.freevars /\ c.unified = d.unified
    BY <1>1 DEF Now, Same
  <2> HIDE DEF c, d
  <2> QED
    BY <2>1, ReadsSame DEF d
<1>3. CASE kind = "CONST"
  <2>1. DOMAIN consts = 1 .. Len(consts) /\ Len(consts) \in Nat /\ \A k \in 1 .. Len(consts) : consts[k] \in Object
    BY <1>1, LenProperties, ElementOfSeq
  <2>2. n + 1 \in 1 .. Len(consts)
    BY <1>1, <1>3, <2>1 DEF Refers
  <2> DEFINE o == consts[n + 1]
  <2>3. ArgOf(kind, n) = Value(o) /\ o \in Object
    BY <1>3, <2>1, <2>2 DEF ArgOf
  <2>4. Value(o).form = "value" /\ Value(o).is = o
    BY DEF Value
  <2>5. Says(i) = <<"CONST", Meaning[o]>>
    BY <1>3, <2>3, <2>4 DEF Says, Meant
  <2>6. Reads(c, <<kind, n>>) = <<"CONST", Meaning[o]>>
    BY <1>1, <1>3 DEF Reads
  <2>7. Within(i)
    BY <2>3, <2>4 DEF Within
  <2> HIDE DEF o
  <2> QED
    BY <1>3, <2>3, <2>5, <2>6, <2>7, InstrIs
<1>4. CASE kind \in NameKind
  <2>1. ArgOf(kind, n) = Index(n) /\ Index(n).form = "index" /\ Index(n).is = n
    BY <1>4 DEF ArgOf, Index, NameKind
  <2>2. kind \in {"LOCAL", "NAME", "GLOBAL"} /\ kind # "LOCAL"
    BY <1>4 DEF NameKind
  <2>3. Says(i) = Reads(Now, <<kind, n>>)
    BY <2>1 DEF Says
  <2>4. Within(i)
    BY <1>2, <2>1, <2>2 DEF Within
  <2> QED
    BY <1>2, <2>1, <2>2, <2>3, <2>4, InstrIs
<1>5. CASE kind \in {"LOCAL", "FREE"}
  <2>1. \E x \in Name : NamesAt(kind, n) = {x} /\ Reads(c, <<kind, n>>) = <<kind, x>>
    <3>1. CASE Unified = TRUE
      <4>1. n + 1 \in DOMAIN Frame(c)
        BY <1>1, <1>5, <3>1 DEF Refers
      <4>2. NamesAt(kind, n) = {Frame(c)[n + 1]} /\ Frame(c)[n + 1] \in Name
        <5> HIDE DEF c
        <5> QED
          BY <1>1, <1>5, <3>1, <4>1, NamesAtUnified
      <4>3. kind = "FREE" => Contains(Cells(c), Frame(c)[n + 1])
        BY <1>1, <3>1 DEF Refers
      <4>4. Reads(c, <<kind, n>>) = <<kind, Frame(c)[n + 1]>>
        BY <1>1, <1>5, <3>1, <4>3 DEF Reads
      <4> QED
        BY <4>2, <4>4
    <3>2. CASE Unified = FALSE /\ kind = "LOCAL"
      <4>1. n + 1 \in DOMAIN varnames
        BY <1>1, <3>2 DEF Refers, Same
      <4>2. NamesAt("LOCAL", n) = {varnames[n + 1]} /\ varnames[n + 1] \in Name
        <5> HIDE DEF c
        <5> QED
          BY <1>1, <3>2, <4>1, NamesAtApart
      <4>3. Reads(c, <<kind, n>>) = <<kind, varnames[n + 1]>>
        BY <1>1, <3>2 DEF Reads, Same
      <4> QED
        BY <3>2, <4>2, <4>3
    <3>3. CASE Unified = FALSE /\ kind = "FREE"
      <4>1. n + 1 \in DOMAIN Cells(c)
        BY <1>1, <3>3 DEF Refers
      <4>2. NamesAt("FREE", n) = {Cells(c)[n + 1]} /\ Cells(c)[n + 1] \in Name
        <5> HIDE DEF c
        <5> QED
          BY <1>1, <3>3, <4>1, NamesAtApart
      <4>3. Reads(c, <<kind, n>>) = <<kind, Cells(c)[n + 1]>>
        BY <1>1, <3>3 DEF Reads
      <4> QED
        BY <3>3, <4>2, <4>3
    <3> QED
      BY <1>1, <1>5, <3>1, <3>2, <3>3
  <2>2. PICK x \in Name : NamesAt(kind, n) = {x} /\ Reads(c, <<kind, n>>) = <<kind, x>>
    BY <2>1
  <2>3. (CHOOSE y \in NamesAt(kind, n) : TRUE) = x
    BY <2>2
  <2>4. ArgOf(kind, n) = Value(x)
    BY <1>5, <2>2, <2>3 DEF ArgOf, NameKind
  <2>5. Value(x).form = "value" /\ Value(x).is = x
    BY DEF Value
  <2>6. Says(i) = <<kind, x>>
    BY <1>5, <2>4, <2>5 DEF Says, Meant
  <2>7. Within(i)
    BY <2>4, <2>5 DEF Within
  <2> QED
    BY <1>5, <2>2, <2>4, <2>6, <2>7, InstrIs
<1> QED
  BY <1>3, <1>4, <1>5 DEF Kind

LEMMA ItemsAre ==
    /\ \A what \in {"LOCAL", "FREE", "NAME", "GLOBAL", "GLOBAL without NULL"}, x \in Name :
          <<what, x>> \in Items
    /\ \A o \in Object : <<"CONST", Meaning[o]>> \in Items
<1> DEFINE const == "CONST"
           M == {Meaning[o] : o \in Object}
<1>1. \A what \in {"LOCAL", "FREE", "NAME", "GLOBAL", "GLOBAL without NULL"}, x \in Name :
          <<what, x>> \in Items
  BY DEF Items
<1>2. \A o \in Object : <<const, Meaning[o]>> \in {const} \X M
  OBVIOUS
<1>3. {const} \X M \subseteq Items
  BY DEF Items
<1> HIDE DEF const, M
<1>4. \A o \in Object : <<const, Meaning[o]>> \in Items
  BY <1>2, <1>3
<1> QED
  BY <1>1, <1>4 DEF const

LEMMA CodeType ==
    ASSUME NEW c \in CodeObjects
    PROVE  /\ c.consts \in Seq(Object) /\ c.names \in Seq(Name) /\ Variables(c)
           /\ c.nlocals \in Nat /\ c.unified \in BOOLEAN
           /\ Len(c.code) \in Nat /\ DOMAIN c.code = 1 .. Len(c.code)
           /\ \A k \in 1 .. Len(c.code) :
                 /\ c.code[k][1] \in Kind /\ c.code[k][2] \in Nat
                 /\ c.code[k] = <<c.code[k][1], c.code[k][2]>>
                 /\ Refers(c, c.code[k])
<1>1. c.code \in Seq(Kind \X Nat)
  BY CodeAssumption
<1> DEFINE P == Kind \X Nat
<1>2. /\ Len(c.code) \in Nat /\ DOMAIN c.code = 1 .. Len(c.code)
      /\ \A k \in 1 .. Len(c.code) : c.code[k] \in P
  <2> HIDE DEF P
  <2> QED
    BY <1>1, LenProperties, ElementOfSeq DEF P
<1>3. \A k \in 1 .. Len(c.code) :
         /\ c.code[k][1] \in Kind /\ c.code[k][2] \in Nat
         /\ c.code[k] = <<c.code[k][1], c.code[k][2]>>
  BY <1>2
<1>4. /\ c.consts \in Seq(Object) /\ c.names \in Seq(Name) /\ Variables(c)
      /\ c.nlocals \in Nat /\ c.unified \in BOOLEAN
  BY CodeAssumption DEF Variables
<1>5. \A k \in 1 .. Len(c.code) : Refers(c, c.code[k])
  BY <1>2, CodeAssumption
<1> QED
  BY <1>2, <1>3, <1>4, <1>5

LEMMA ReadsType ==
    ASSUME NEW c, c.consts \in Seq(Object), c.names \in Seq(Name), Variables(c), c.unified \in BOOLEAN,
           NEW kind \in Kind, NEW n \in Nat, Refers(c, <<kind, n>>)
    PROVE  Reads(c, <<kind, n>>) \in Items
<1>1. CASE kind = "CONST"
  <2>1. Reads(c, <<kind, n>>) = <<"CONST", Meaning[c.consts[n + 1]]>> /\ n + 1 \in DOMAIN c.consts
    BY <1>1 DEF Reads, Refers
  <2>2. c.consts[n + 1] \in Object
    BY <2>1, LenProperties, ElementOfSeq
  <2> QED
    BY <2>1, <2>2, ItemsAre
<1>2. CASE kind \in NameKind
  <2> DEFINE u == c.unified
             at == NameAt(u, kind, n)
  <2>1. at \in DOMAIN c.names /\ Reads(c, <<kind, n>>) = <<NamedAs(u, kind, n), c.names[at]>>
    BY <1>2, NameReads
  <2>2. c.names[at] \in Name
    BY <2>1, LenProperties, ElementOfSeq
  <2>3. NamedAs(u, kind, n) \in {"LOCAL", "FREE", "NAME", "GLOBAL", "GLOBAL without NULL"}
    BY <1>2 DEF NamedAs, NameKind
  <2> HIDE DEF u, at
  <2> QED
    BY <2>1, <2>2, <2>3, ItemsAre
<1>3. CASE kind \in {"LOCAL", "FREE"}
  <2>1. c.varnames \in Seq(Name) /\ Cells(c) \in Seq(Name) /\ Frame(c) \in Seq(Name)
    BY FrameIs, ConcatProperties DEF Variables, Cells
  <2>2. \E x \in Name : Reads(c, <<kind, n>>) = <<kind, x>>
    <3>1. CASE c.unified = TRUE
      <4>1. n + 1 \in DOMAIN Frame(c) /\ (kind = "FREE" => Contains(Cells(c), Frame(c)[n + 1]))
        BY <1>3, <3>1 DEF Refers
      <4>2. Reads(c, <<kind, n>>) = <<kind, Frame(c)[n + 1]>>
        BY <1>3, <3>1, <4>1 DEF Reads
      <4> QED
        BY <2>1, <4>1, <4>2, LenProperties, ElementOfSeq
    <3>2. CASE c.unified = FALSE /\ kind = "LOCAL"
      <4>1. n + 1 \in DOMAIN c.varnames /\ Reads(c, <<kind, n>>) = <<kind, c.varnames[n + 1]>>
        BY <3>2 DEF Refers, Reads
      <4> QED
        BY <2>1, <4>1, LenProperties, ElementOfSeq
    <3>3. CASE c.unified = FALSE /\ kind = "FREE"
      <4>1. n + 1 \in DOMAIN Cells(c) /\ Reads(c, <<kind, n>>) = <<kind, Cells(c)[n + 1]>>
        BY <3>3 DEF Refers, Reads
      <4> QED
        BY <2>1, <4>1, LenProperties, ElementOfSeq
    <3> QED
      BY <1>3, <3>1, <3>2, <3>3
  <2> QED
    BY <1>3, <2>2, ItemsAre
<1> QED
  BY <1>1, <1>2, <1>3 DEF Kind

LEMMA DenotesType ==
    ASSUME NEW c \in CodeObjects
    PROVE  /\ Denotes(c) \in Seq(Items) /\ Len(Denotes(c)) = Len(c.code)
           /\ \A k \in 1 .. Len(c.code) : Denotes(c)[k] = Reads(c, c.code[k])
<1> DEFINE s == Denotes(c)
<1>1. DOMAIN c.code = 1 .. Len(c.code) /\ Len(c.code) \in Nat
  BY CodeType
<1>2. ASSUME NEW k \in 1 .. Len(c.code) PROVE Reads(c, c.code[k]) \in Items
  <2> DEFINE kind == c.code[k][1]
             n == c.code[k][2]
  <2>1. /\ kind \in Kind /\ n \in Nat /\ c.code[k] = <<kind, n>> /\ Refers(c, c.code[k])
        /\ c.consts \in Seq(Object) /\ c.names \in Seq(Name) /\ Variables(c) /\ c.unified \in BOOLEAN
    BY CodeType
  <2> HIDE DEF kind, n
  <2> QED
    BY <2>1, ReadsType
<1>3. s \in [1 .. Len(c.code) -> Items] /\ \A k \in 1 .. Len(c.code) : s[k] = Reads(c, c.code[k])
  BY <1>1, <1>2 DEF Denotes
<1> HIDE DEF s
<1>4. s \in Seq(Items)
  BY <1>1, <1>3, SeqDef
<1> QED
  BY <1>1, <1>3, <1>4, LenProperties DEF s

LEMMA InitInv == Init => IInv
<1> SUFFICES ASSUME Init PROVE IInv
  OBVIOUS
<1>1. co \in CodeObjects /\ source \in Seq(Items) /\ source = Denotes(co)
  BY DenotesType DEF Init
<1>2. TablesOK /\ nlocals \in Nat
  BY <1>1, CodeType DEF Init, TablesOK, Variables
<1>3. Shape
  <2> DEFINE P == Kind \X Nat
  <2>1. instrs \in Seq(Instr) /\ code \in Seq(P)
    <3>1. instrs = <<>> /\ code = <<>>
      BY DEF Init
    <3> HIDE DEF P
    <3> QED
      BY <3>1, EmptySeq
  <2>2. cursor \in Nat /\ edited \in BOOLEAN
    BY DEF Init
  <2>3. phase \in {"decode", "edit", "intern", "index"}
    BY DEF Init
  <2> QED
    BY <1>1, <1>2, <2>1, <2>2, <2>3 DEF Shape
<1>4. Progress
  BY <1>1, CodeType DEF Init, Progress, Same
<1>5. Meanings /\ Interned
  BY DEF Init, Meanings, Interned
<1> QED
  BY <1>3, <1>4, <1>5 DEF IInv

-----------------------------------------------------------------------------
(***************************************************************************)
(* Tables grow at their end.                                               *)
(***************************************************************************)
Extends(t, s) == \A k \in DOMAIN s : k \in DOMAIN t /\ t[k] = s[k]

LEMMA AppendGrows ==
    ASSUME NEW S, NEW s \in Seq(S), NEW x \in S
    PROVE  /\ Append(s, x) \in Seq(S) /\ Extends(Append(s, x), s)
           /\ Len(Append(s, x)) = Len(s) + 1 /\ DOMAIN Append(s, x) = 1 .. Len(s) + 1
           /\ Append(s, x)[Len(s) + 1] = x
           /\ ToSet(Append(s, x)) = ToSet(s) \cup {x}
<1> DEFINE t == Append(s, x)
<1>1. Len(s) \in Nat /\ DOMAIN s = 1 .. Len(s)
  BY LenProperties
<1>2. /\ t \in Seq(S) /\ Len(t) = Len(s) + 1
      /\ \A k \in 1 .. Len(s) : t[k] = s[k]
      /\ t[Len(s) + 1] = x
  BY AppendProperties
<1> HIDE DEF t
<1>3. DOMAIN t = 1 .. Len(s) + 1
  BY <1>2, LenProperties
<1>4. Extends(t, s)
  BY <1>1, <1>2, <1>3 DEF Extends
<1>5. ToSet(t) = ToSet(s) \cup {x}
  <2>1. \A k \in 1 .. Len(s) + 1 : k \in 1 .. Len(s) \/ k = Len(s) + 1
    BY <1>1
  <2>2. Len(s) + 1 \in 1 .. Len(s) + 1 /\ \A k \in 1 .. Len(s) : k \in 1 .. Len(s) + 1
    BY <1>1
  <2> QED
    BY <1>1, <1>2, <1>3, <2>1, <2>2 DEF ToSet
<1> QED
  BY <1>2, <1>3, <1>4, <1>5 DEF t

LEMMA PrefixIs ==
    ASSUME NEW S, NEW s \in Seq(S), NEW x \in S
    PROVE  IsPrefix(s, Append(s, x))
<1> DEFINE n == Len(s)
           t == Append(s, x)
           a == SubSeq(s, 1, n)
           b == SubSeq(t, 1, n)
<1>1. n \in Nat /\ t \in Seq(S) /\ Len(t) = n + 1 /\ \A k \in 1 .. n : t[k] = s[k]
  BY AppendProperties, LenProperties
<1>2. /\ a \in Seq(S) /\ Len(a) = (IF 1 <= n THEN n - 1 + 1 ELSE 0)
      /\ \A k \in 1 .. n - 1 + 1 : a[k] = s[1 + k - 1]
  BY <1>1, SubSeqProperties
<1>3. /\ b \in Seq(S) /\ Len(b) = (IF 1 <= n THEN n - 1 + 1 ELSE 0)
      /\ \A k \in 1 .. n - 1 + 1 : b[k] = t[1 + k - 1]
  <2> HIDE DEF t
  <2> QED
    BY <1>1, SubSeqProperties
<1> HIDE DEF a, b, t
<1>4. Len(a) = Len(b) /\ \A k \in 1 .. Len(a) : a[k] = b[k]
  BY <1>1, <1>2, <1>3
<1>5. a = b
  BY <1>2, <1>3, <1>4, SeqEqual
<1> QED
  BY <1>1, <1>5 DEF IsPrefix, a, b, t

\* The index handed out for x is one in the table, whether x was there or not.
LEMMA OrAppendIs ==
    ASSUME NEW S, NEW s \in Seq(S), NEW x \in S, NEW at \in Int, at >= 0 => at + 1 \in 1 .. Len(s)
    PROVE  LET t == OrAppend(s, at, x)
               i == IndexOr(at, s)
           IN  /\ t \in Seq(S) /\ Extends(t, s)
               /\ i \in Nat /\ i + 1 \in DOMAIN t
               /\ t[i + 1] = IF at < 0 THEN x ELSE s[at + 1]
<1>1. Len(s) \in Nat /\ DOMAIN s = 1 .. Len(s)
  BY LenProperties
<1>2. CASE at < 0
  BY <1>1, <1>2, AppendGrows DEF OrAppend, IndexOr
<1>3. CASE at >= 0
  <2>1. OrAppend(s, at, x) = s /\ IndexOr(at, s) = at /\ ~ (at < 0)
    BY <1>3 DEF OrAppend, IndexOr
  <2> QED
    BY <1>1, <1>3, <2>1 DEF Extends
<1> QED
  BY <1>2, <1>3

LEMMA NameAdded ==
    ASSUME NEW s \in Seq(Name), NEW x \in Name
    PROVE  LET t == OrAppend(s, FindOnly(s, x), x)
               i == IndexOr(FindOnly(s, x), s)
           IN  /\ t \in Seq(Name) /\ Extends(t, s)
               /\ i \in Nat /\ i + 1 \in DOMAIN t /\ t[i + 1] = x
<1> DEFINE at == FindOnly(s, x)
<1>1. /\ at \in Int
      /\ at >= 0 => at + 1 \in 1 .. Len(s) /\ s[at + 1] = x
  BY FindIs, InTable
<1> HIDE DEF at
<1>2. LET t == OrAppend(s, at, x)
          i == IndexOr(at, s)
      IN  /\ t \in Seq(Name) /\ Extends(t, s)
          /\ i \in Nat /\ i + 1 \in DOMAIN t
          /\ t[i + 1] = IF at < 0 THEN x ELSE s[at + 1]
  BY <1>1, OrAppendIs
<1> QED
  BY <1>1, <1>2 DEF at

-----------------------------------------------------------------------------
(***************************************************************************)
(* Instructions keep what they name when tables grow and instructions come *)
(* and go around them.                                                     *)
(***************************************************************************)
NamesKept == Kept(names) \/ HoldNoIndex(NameKind)
LocalsKept == Kept(varnames) \/ HoldNoIndex({"LOCAL"})

LEMMA MeaningStays ==
    ASSUME Shape, Meanings, TablesOK', UNCHANGED co, NamesKept, LocalsKept,
           NEW k \in DOMAIN instrs, NEW i, i = instrs[k]
    PROVE  i \in Instr /\ source[k] = Says(i)' /\ Within(i)'
<1>1. TablesOK /\ Unified \in BOOLEAN
  BY CodeType DEF Shape, Unified
<1>2. i \in Instr
  BY LenProperties, ElementOfSeq DEF Shape
<1>3. source[k] = Says(i) /\ Within(i)
  BY DEF Meanings
<1>4. i.arg.form = "index" /\ i.kind = "LOCAL" => Kept(varnames)
  BY DEF LocalsKept, HoldNoIndex
<1>5. i.arg.form = "index" /\ i.kind # "LOCAL" => Kept(names)
  BY <1>2 DEF NamesKept, HoldNoIndex, Instr, NameKind
<1> QED
  BY <1>1, <1>2, <1>3, <1>4, <1>5, SaysStays

LEMMA MeaningsStay ==
    ASSUME Shape, Meanings, TablesOK', UNCHANGED <<co, instrs, source>>, NamesKept, LocalsKept
    PROVE  Meanings'
<1>1. ASSUME NEW k \in DOMAIN instrs, NEW i, i = instrs[k]
      PROVE  source[k] = Says(i)' /\ Within(i)'
  BY <1>1, MeaningStays
<1> QED
  BY <1>1 DEF Meanings

\* A new instruction at k.
LEMMA InsertMeans ==
    ASSUME Shape, Meanings, Len(instrs) = Len(source), TablesOK', UNCHANGED co, Kept(names),
           Kept(varnames),
           NEW k \in 1 .. Len(instrs) + 1, NEW i \in Instr, NEW m \in Items,
           m = Says(i)', Within(i)',
           instrs' = InsertAt(instrs, k, i), source' = InsertAt(source, k, m)
    PROVE  /\ instrs' \in Seq(Instr) /\ source' \in Seq(Items) /\ Len(instrs') = Len(source')
           /\ Meanings'
<1> DEFINE n == Len(instrs)
<1>1. /\ instrs \in Seq(Instr) /\ source \in Seq(Items) /\ n \in Nat /\ DOMAIN instrs = 1 .. n
      /\ k \in 1 .. n + 1 /\ Len(instrs) = n /\ Len(source) = n
  BY LenProperties DEF Shape
<1> HIDE DEF n
<1>2. /\ instrs' \in Seq(Instr) /\ Len(instrs') = n + 1 /\ DOMAIN instrs' = 1 .. n + 1
      /\ \A j \in 1 .. k - 1 : instrs'[j] = instrs[j]
      /\ instrs'[k] = i
      /\ \A j \in k .. n : instrs'[j + 1] = instrs[j]
  <2>1. instrs' \in Seq(Instr) /\ Inserted(instrs', instrs, k, i)
    BY <1>1, InsertIs
  <2> QED
    BY <1>1, <2>1 DEF Inserted
<1>3. /\ source' \in Seq(Items) /\ Len(source') = n + 1
      /\ \A j \in 1 .. k - 1 : source'[j] = source[j]
      /\ source'[k] = m
      /\ \A j \in k .. n : source'[j + 1] = source[j]
  <2>1. source' \in Seq(Items) /\ Inserted(source', source, k, m)
    BY <1>1, InsertIs
  <2> QED
    BY <1>1, <2>1 DEF Inserted
<1>4. ASSUME NEW j \in DOMAIN instrs, NEW x, x = instrs[j]
      PROVE  source[j] = Says(x)' /\ Within(x)'
  BY <1>4, MeaningStays DEF NamesKept, LocalsKept
<1>5. ASSUME NEW j \in 1 .. n + 1, NEW x, x = instrs'[j]
      PROVE  source'[j] = Says(x)' /\ Within(x)'
  <2>1. CASE j = k
    BY <1>2, <1>3, <1>5, <2>1
  <2>2. CASE j < k
    <3>1. j \in 1 .. k - 1 /\ j \in DOMAIN instrs
      BY <1>1, <2>2
    <3> QED
      BY <1>2, <1>3, <1>4, <1>5, <3>1
  <2>3. CASE j > k
    <3> DEFINE l == j - 1
    <3>1. l \in k .. n /\ l \in DOMAIN instrs /\ l + 1 = j
      BY <1>1, <2>3
    <3> HIDE DEF l
    <3>2. instrs'[j] = instrs[l] /\ source'[j] = source[l]
      BY <1>2, <1>3, <3>1
    <3> QED
      BY <1>4, <1>5, <3>1, <3>2
  <2> QED
    BY <1>1, <2>1, <2>2, <2>3
<1> QED
  BY <1>2, <1>3, <1>5 DEF Meanings

LEMMA RemoveMeans ==
    ASSUME Shape, Meanings, Len(instrs) = Len(source), UNCHANGED <<co, tables>>,
           NEW k \in DOMAIN instrs,
           instrs' = RemoveAt(instrs, k), source' = RemoveAt(source, k)
    PROVE  /\ instrs' \in Seq(Instr) /\ source' \in Seq(Items) /\ Len(instrs') = Len(source')
           /\ Meanings'
<1> DEFINE n == Len(instrs)
<1>1. /\ instrs \in Seq(Instr) /\ source \in Seq(Items) /\ n \in Nat /\ DOMAIN instrs = 1 .. n
      /\ k \in 1 .. n /\ Len(instrs) = n /\ Len(source) = n
  BY LenProperties DEF Shape
<1> HIDE DEF n
<1>2. /\ instrs' \in Seq(Instr) /\ Len(instrs') = n - 1 /\ DOMAIN instrs' = 1 .. n - 1
      /\ \A j \in 1 .. k - 1 : instrs'[j] = instrs[j]
      /\ \A j \in k .. n - 1 : instrs'[j] = instrs[j + 1]
  <2>1. instrs' \in Seq(Instr) /\ Removed(instrs', instrs, k)
    BY <1>1, RemoveIs
  <2> QED
    BY <1>1, <2>1 DEF Removed
<1>3. /\ source' \in Seq(Items) /\ Len(source') = n - 1
      /\ \A j \in 1 .. k - 1 : source'[j] = source[j]
      /\ \A j \in k .. n - 1 : source'[j] = source[j + 1]
  <2>1. source' \in Seq(Items) /\ Removed(source', source, k)
    BY <1>1, RemoveIs
  <2> QED
    BY <1>1, <2>1 DEF Removed
<1>4. ASSUME NEW j \in DOMAIN instrs, NEW x, x = instrs[j]
      PROVE  source[j] = Says(x)' /\ Within(x)'
  <2>1. TablesOK' /\ Kept(names) /\ Kept(varnames)
    BY DEF Shape, TablesOK, tables, Kept
  <2> QED
    BY <1>4, <2>1, MeaningStays DEF NamesKept, LocalsKept
<1>5. ASSUME NEW j \in 1 .. n - 1, NEW x, x = instrs'[j]
      PROVE  source'[j] = Says(x)' /\ Within(x)'
  <2>1. CASE j < k
    <3>1. j \in 1 .. k - 1 /\ j \in DOMAIN instrs
      BY <1>1, <2>1
    <3> QED
      BY <1>2, <1>3, <1>4, <1>5, <3>1
  <2>2. CASE j >= k
    <3>1. j \in k .. n - 1 /\ j + 1 \in DOMAIN instrs
      BY <1>1, <2>2
    <3> QED
      BY <1>2, <1>3, <1>4, <1>5, <3>1
  <2> QED
    BY <1>1, <2>1, <2>2
<1> QED
  BY <1>2, <1>3, <1>5 DEF Meanings

-----------------------------------------------------------------------------
(***************************************************************************)
(* Each step keeps the invariant.                                          *)
(***************************************************************************)
LEMMA DecodeArgInv == IInv /\ DecodeArg => IInv'
<1> SUFFICES ASSUME IInv, DecodeArg PROVE IInv'
  OBVIOUS
<1> USE DEF IInv
<1>1. /\ phase = "decode" /\ cursor < Len(co.code) /\ cursor' = cursor + 1
      /\ UNCHANGED <<co, tables, nlocals, phase, code, built, source, edited, budget>>
      /\ instrs' = Append(instrs, [kind |-> co.code[cursor + 1][1],
                                  arg |-> ArgOf(co.code[cursor + 1][1], co.code[cursor + 1][2])])
  BY DEF DecodeArg
<1> DEFINE k == cursor + 1
           kind == co.code[k][1]
           n == co.code[k][2]
           i == [kind |-> kind, arg |-> ArgOf(kind, n)]
<1>2. /\ cursor \in Nat /\ Len(instrs) = cursor /\ instrs \in Seq(Instr)
      /\ Len(co.code) \in Nat /\ k \in 1 .. Len(co.code)
  BY <1>1, CodeType DEF Shape, Progress
<1>3. kind \in Kind /\ n \in Nat /\ co.code[k] = <<kind, n>> /\ Refers(co, <<kind, n>>)
  BY <1>2, CodeType DEF Shape
<1>4. i \in Instr /\ Says(i) = Reads(co, <<kind, n>>) /\ Within(i)
  <2> HIDE DEF kind, n
  <2> QED
    BY <1>1, <1>3, DecodedIs
<1>5. source[k] = Says(i)
  BY <1>1, <1>2, <1>3, <1>4, DenotesType DEF Shape, Progress
<1>6. instrs' = Append(instrs, i)
  BY <1>1
<1> HIDE DEF i, kind, n
<1>7. /\ instrs' \in Seq(Instr) /\ Len(instrs') = k /\ DOMAIN instrs' = 1 .. k
      /\ Extends(instrs', instrs) /\ instrs'[k] = i
  BY <1>2, <1>4, <1>6, AppendGrows
<1>8. Shape'
  BY <1>1, <1>2, <1>7 DEF Shape, TablesOK, tables
<1>9. Progress'
  BY <1>1, <1>2, <1>7 DEF Progress, Same, tables
<1>10. Meanings'
  <2>1. TablesOK' /\ Kept(names) /\ Kept(varnames) /\ UNCHANGED co
    BY <1>1, <1>8 DEF Shape, tables, Kept
  <2>2. ASSUME NEW j \in 1 .. k, NEW x, x = instrs'[j]
        PROVE  source'[j] = Says(x)' /\ Within(x)'
    <3>1. CASE j = k
      <4>1. x = i /\ x \in Instr
        BY <1>4, <1>7, <2>2, <3>1
      <4>2. Says(x)' = Says(x) /\ Within(x)'
        <5>1. Unified \in BOOLEAN /\ TablesOK
          BY CodeType DEF Shape, Unified
        <5> QED
          BY <1>4, <2>1, <4>1, <5>1, SaysStays
      <4> QED
        BY <1>1, <1>5, <3>1, <4>1, <4>2
    <3>2. CASE j < k
      <4>1. j \in DOMAIN instrs /\ x = instrs[j]
        <5>1. j \in DOMAIN instrs
          BY <1>2, <3>2, LenProperties
        <5> QED
          BY <1>7, <2>2, <5>1 DEF Extends
      <4> QED
        BY <1>1, <2>1, <4>1, MeaningStays DEF NamesKept, LocalsKept
    <3> QED
      BY <1>2, <3>1, <3>2
  <2> QED
    BY <1>7, <2>2 DEF Meanings
<1>11. Interned'
  BY <1>1 DEF Interned
<1> QED
  BY <1>8, <1>9, <1>10, <1>11

LEMMA EditInv ==
    ASSUME IInv, Touch, TablesOK', instrs' \in Seq(Instr), source' \in Seq(Items),
           Len(instrs') = Len(source'), Meanings'
    PROVE  IInv'
<1>1. /\ phase' = "edit" /\ edited' = TRUE
      /\ co' = co /\ nlocals' = nlocals /\ cursor' = cursor /\ code' = code
  BY DEF Touch
<1>2. Shape'
  <2>1. co' \in CodeObjects /\ nlocals' \in Nat /\ cursor' \in Nat /\ code' \in Seq(Kind \X Nat)
    BY <1>1 DEF IInv, Shape
  <2>2. phase' \in {"decode", "edit", "intern", "index"} /\ edited' \in BOOLEAN
    BY <1>1
  <2> QED
    BY <2>1, <2>2 DEF Shape
<1>3. Progress' /\ Interned'
  BY <1>1 DEF Progress, Interned
<1> QED
  BY <1>2, <1>3 DEF IInv

LEMMA AddInstrInv ==
    ASSUME IInv, NEW k \in 1 .. Len(instrs) + 1, NEW x \in Edits, AddInstr(k, x[1], x[2])
    PROVE  IInv'
<1> DEFINE kind == x[1]
           v == x[2]
           i == [kind |-> kind, arg |-> Value(v)]
           m == Meant(kind, v)
<1>1. (kind = "CONST" /\ v \in Object) \/ (kind \in {"LOCAL", "FREE"} /\ v \in Name)
  <2>1. IsItem(x) /\ kind \notin NameKind
    BY EditsAssumption
  <2>2. kind \in {"CONST", "LOCAL", "FREE"}
    BY <2>1 DEF IsItem, Kind
  <2> QED
    BY <2>1, <2>2 DEF IsItem
<1>2. /\ Touch /\ UNCHANGED tables /\ phase = "edit" /\ UNCHANGED co
      /\ instrs' = InsertAt(instrs, k, i) /\ source' = InsertAt(source, k, m)
  BY DEF AddInstr, Insert, Touch
<1>3. i \in Instr /\ m \in Items
  BY <1>1, InstrIs, ItemsAre DEF Meant
<1>4. m = Says(i)' /\ Within(i)'
  BY DEF Says, Within, Value
<1>5. Shape /\ Meanings /\ Len(instrs) = Len(source) /\ TablesOK' /\ Kept(names) /\ Kept(varnames)
  BY <1>2 DEF IInv, Shape, Progress, TablesOK, tables, Kept
<1> HIDE DEF i, m
<1>6. /\ instrs' \in Seq(Instr) /\ source' \in Seq(Items) /\ Len(instrs') = Len(source')
      /\ Meanings'
  BY <1>2, <1>3, <1>4, <1>5, InsertMeans
<1> QED
  BY <1>2, <1>5, <1>6, EditInv

LEMMA AddConstInv ==
    ASSUME IInv, NEW x \in Additions, x[1] = "CONST", AddConst(x[2])
    PROVE  IInv'
<1> DEFINE o == x[2]
<1>1. o \in Object
  BY EditsAssumption DEF IsItem
<1>2. /\ Touch /\ phase = "edit" /\ UNCHANGED co
      /\ consts' = OrAppend(consts, FindAdded(o), o)
      /\ UNCHANGED <<names, varnames, cellvars, freevars, instrs, source>>
  BY DEF AddConst, Touch
<1> HIDE DEF o
<1>3. consts' \in Seq(Object)
  BY <1>1, <1>2, AppendGrows DEF IInv, Shape, TablesOK, OrAppend
<1>4. TablesOK' /\ Kept(names) /\ Kept(varnames) /\ Shape /\ Meanings
  BY <1>2, <1>3 DEF IInv, Shape, TablesOK, Kept
<1>5. Meanings'
  BY <1>2, <1>4, MeaningsStay DEF NamesKept, LocalsKept
<1> QED
  BY <1>2, <1>4, <1>5, EditInv DEF IInv, Shape, Progress

LEMMA AddVarnameInv ==
    ASSUME IInv, NEW k \in 1 .. Len(instrs) + 1, NEW x \in Additions, x[1] = "LOCAL",
           AddVarname(k, x[2])
    PROVE  IInv'
<1> DEFINE v == x[2]
           m == Meant("LOCAL", v)
<1>0. PICK n : n = IndexOr(FindOnly(varnames, v), varnames)
  OBVIOUS
<1> DEFINE i == [kind |-> "LOCAL", arg |-> Index(n)]
<1>1. v \in Name
  BY EditsAssumption DEF IsItem
<1>2. /\ Touch /\ phase = "edit" /\ UNCHANGED co
      /\ varnames' = OrAppend(varnames, FindOnly(varnames, v), v)
      /\ instrs' = InsertAt(instrs, k, i) /\ source' = InsertAt(source, k, m)
      /\ UNCHANGED <<consts, names, cellvars, freevars>>
  BY <1>0 DEF AddVarname, Insert, Touch
<1> HIDE DEF v
<1>3. /\ varnames' \in Seq(Name) /\ Extends(varnames', varnames)
      /\ n \in Nat /\ n + 1 \in DOMAIN varnames' /\ varnames'[n + 1] = v
  BY <1>0, <1>1, <1>2, NameAdded DEF IInv, Shape, TablesOK
<1>4. i \in Instr /\ m \in Items /\ m = <<"LOCAL", v>>
  BY <1>1, <1>3, InstrIs, ItemsAre DEF Meant
<1>5. TablesOK' /\ Kept(names) /\ Kept(varnames) /\ Shape /\ Meanings /\ Len(instrs) = Len(source)
  BY <1>2, <1>3 DEF IInv, Shape, Progress, TablesOK, Kept, Extends
<1>6. m = Says(i)' /\ Within(i)'
  <2> DEFINE d == Now'
  <2>1. Variables(d) /\ d.varnames = varnames'
    BY <1>5 DEF Now, Variables, TablesOK
  <2>2. Says(i)' = Reads(d, <<"LOCAL", n>>)
    BY DEF Says, Index
  <2> HIDE DEF d
  <2>3. Reads(d, <<"LOCAL", n>>) = <<"LOCAL", varnames'[n + 1]>>
    BY <1>3, <2>1, LocalReads
  <2>4. Within(i)'
    BY <1>3 DEF Within, Index
  <2> QED
    BY <1>3, <1>4, <2>2, <2>3, <2>4
<1> HIDE DEF i, m
<1>7. /\ instrs' \in Seq(Instr) /\ source' \in Seq(Items) /\ Len(instrs') = Len(source')
      /\ Meanings'
  BY <1>2, <1>4, <1>5, <1>6, InsertMeans
<1> QED
  BY <1>2, <1>5, <1>7, EditInv

LEMMA AddNameInv ==
    ASSUME IInv, NEW k \in 1 .. Len(instrs) + 1, NEW x \in Additions, x[1] \in NameKind,
           NEW flag \in {0, 1}, AddName(k, x[1], flag, x[2])
    PROVE  IInv'
<1> DEFINE kind == x[1]
           v == x[2]
           as == Flagged(kind, flag)
           m == <<as, v>>
<1>0. PICK j, n : j = IndexOr(FindOnly(names, v), names) /\ n = EncodeName(kind, flag, j)
  OBVIOUS
<1> DEFINE i == [kind |-> kind, arg |-> Index(n)]
<1>1. v \in Name /\ kind \in NameKind /\ kind \in {"LOCAL", "NAME", "GLOBAL"} /\ kind # "CONST" /\ kind # "LOCAL"
  BY EditsAssumption DEF IsItem, NameKind
<1>2. /\ Touch /\ phase = "edit" /\ UNCHANGED co
      /\ names' = OrAppend(names, FindOnly(names, v), v)
      /\ instrs' = InsertAt(instrs, k, i) /\ source' = InsertAt(source, k, m)
      /\ UNCHANGED <<consts, varnames, cellvars, freevars>>
  BY <1>0 DEF AddName, Insert, Touch
<1> HIDE DEF v, kind
<1>3. /\ names' \in Seq(Name) /\ Extends(names', names)
      /\ j \in Nat /\ j + 1 \in DOMAIN names' /\ names'[j + 1] = v
  BY <1>0, <1>1, <1>2, NameAdded DEF IInv, Shape, TablesOK
<1>10. PICK u : u = Unified
  OBVIOUS
<1>4. /\ u \in BOOLEAN /\ co.unified = u
      /\ n = IF kind = "GLOBAL" /\ u THEN 2 * j + flag ELSE j
      /\ as = IF kind = "GLOBAL" /\ u /\ flag = 0 THEN "GLOBAL without NULL" ELSE kind
  BY <1>0, <1>10, CodeType DEF IInv, Shape, Unified, EncodeName, Packs, Flagged
<1> HIDE DEF as
<1>5. n \in Nat /\ NameAt(u, kind, n) = j + 1 /\ NamedAs(u, kind, n) = as
  <2>1. CASE kind = "GLOBAL" /\ u
    <3>1. n = 2 * j + flag
      BY <1>4, <2>1
    <3>2. n \in Nat /\ n \div 2 = j /\ n % 2 = flag
      BY <1>3, <3>1
    <3>3. as = IF flag = 0 THEN "GLOBAL without NULL" ELSE kind
      BY <1>4, <2>1
    <3>4. NameAt(u, kind, n) = j + 1
      BY <2>1, <3>2 DEF NameAt
    <3>5. NamedAs(u, kind, n) = IF n % 2 # 1 THEN "GLOBAL without NULL" ELSE kind
      BY <2>1 DEF NamedAs
    <3>6. n % 2 # 1 <=> flag = 0
      BY <3>2
    <3>7. NamedAs(u, kind, n) = as
      BY <3>3, <3>5, <3>6, Zenon
    <3> QED
      BY <3>2, <3>4, <3>7
  <2>2. CASE ~ (kind = "GLOBAL" /\ u)
    BY <1>3, <1>4, <2>2 DEF NameAt, NamedAs
  <2> QED
    BY <2>1, <2>2
<1>6. i \in Instr /\ m \in Items
  <2>1. i \in Instr
    BY <1>1, <1>5, InstrIs
  <2>2. as \in {"LOCAL", "FREE", "NAME", "GLOBAL", "GLOBAL without NULL"}
    BY <1>1, <1>4
  <2> QED
    BY <1>1, <2>1, <2>2, ItemsAre
<1>7. TablesOK' /\ Kept(names) /\ Kept(varnames) /\ Shape /\ Meanings /\ Len(instrs) = Len(source)
  BY <1>2, <1>3 DEF IInv, Shape, Progress, TablesOK, Kept, Extends
<1>8. m = Says(i)' /\ Within(i)'
  <2> DEFINE d == Now'
  <2>1. d.names = names' /\ d.unified = u
    BY <1>2, <1>4 DEF Now, Unified
  <2>2. Says(i)' = Reads(d, <<kind, n>>) /\ (Within(i)' <=> Refers(d, <<kind, n>>))
    BY <1>1 DEF Says, Within, Index
  <2> HIDE DEF d
  <2>3. /\ Refers(d, <<kind, n>>) <=> NameAt(u, kind, n) \in DOMAIN d.names
        /\ Reads(d, <<kind, n>>) = <<NamedAs(u, kind, n), d.names[NameAt(u, kind, n)]>>
    BY <1>1, <1>4, <1>5, <2>1, NameReads
  <2> QED
    BY <1>3, <1>5, <1>6, <2>1, <2>2, <2>3
<1> HIDE DEF i, m
<1>9. /\ instrs' \in Seq(Instr) /\ source' \in Seq(Items) /\ Len(instrs') = Len(source')
      /\ Meanings'
  BY <1>2, <1>6, <1>7, <1>8, InsertMeans
<1> QED
  BY <1>2, <1>7, <1>9, EditInv

LEMMA ReverseType == ASSUME NEW S, NEW s \in Seq(S) PROVE Reverse(s) \in Seq(S)
<1> DEFINE n == Len(s)
           r == [j \in 1 .. n |-> s[n - j + 1]]
<1>1. n \in Nat /\ \A j \in 1 .. n : s[j] \in S
  BY LenProperties, ElementOfSeq
<1>2. Reverse(s) = r
  BY DEF Reverse
<1> HIDE DEF n
<1>3. \A j \in 1 .. n : n - j + 1 \in 1 .. n
  BY <1>1
<1>4. r \in [1 .. n -> S]
  BY <1>1, <1>3
<1> HIDE DEF r
<1>5. r \in Seq(S)
  BY <1>1, <1>4, SeqDef
<1> QED
  BY <1>2, <1>5

LEMMA AssignConstsInv == IInv /\ AssignConsts => IInv'
<1> SUFFICES ASSUME IInv, AssignConsts PROVE IInv'
  OBVIOUS
<1>1. /\ Touch /\ phase = "edit" /\ UNCHANGED co /\ HoldNoIndex({"CONST"})
      /\ consts' = Reverse(consts)
      /\ UNCHANGED <<names, varnames, cellvars, freevars, instrs, source>>
  BY DEF AssignConsts, Touch
<1>2. Reverse(consts) \in Seq(Object)
  BY ReverseType DEF IInv, Shape, TablesOK
<1>3. TablesOK' /\ NamesKept /\ LocalsKept /\ Shape /\ Meanings
  BY <1>1, <1>2 DEF IInv, Shape, TablesOK, NamesKept, LocalsKept, Kept
<1>4. Meanings'
  BY <1>1, <1>3, MeaningsStay
<1> QED
  BY <1>1, <1>3, <1>4, EditInv DEF IInv, Shape, Progress

LEMMA AssignNamesInv == IInv /\ AssignNames => IInv'
<1> SUFFICES ASSUME IInv, AssignNames PROVE IInv'
  OBVIOUS
<1>1. /\ Touch /\ phase = "edit" /\ UNCHANGED co /\ HoldNoIndex(NameKind)
      /\ names' = Reverse(names)
      /\ UNCHANGED <<consts, varnames, cellvars, freevars, instrs, source>>
  BY DEF AssignNames, Touch
<1>2. Reverse(names) \in Seq(Name)
  BY ReverseType DEF IInv, Shape, TablesOK
<1>3. TablesOK' /\ NamesKept /\ LocalsKept /\ Shape /\ Meanings
  BY <1>1, <1>2 DEF IInv, Shape, TablesOK, NamesKept, LocalsKept, Kept
<1>4. Meanings'
  BY <1>1, <1>3, MeaningsStay
<1> QED
  BY <1>1, <1>3, <1>4, EditInv DEF IInv, Shape, Progress

LEMMA AssignVarnamesInv == IInv /\ AssignVarnames => IInv'
<1> SUFFICES ASSUME IInv, AssignVarnames PROVE IInv'
  OBVIOUS
<1>1. /\ Touch /\ phase = "edit" /\ UNCHANGED co /\ HoldNoIndex({"LOCAL"})
      /\ varnames' = Reverse(varnames)
      /\ UNCHANGED <<consts, names, cellvars, freevars, instrs, source>>
  BY DEF AssignVarnames, Touch
<1>2. Reverse(varnames) \in Seq(Name)
  BY ReverseType DEF IInv, Shape, TablesOK
<1>3. TablesOK' /\ NamesKept /\ LocalsKept /\ Shape /\ Meanings
  BY <1>1, <1>2 DEF IInv, Shape, TablesOK, NamesKept, LocalsKept, Kept
<1>4. Meanings'
  BY <1>1, <1>3, MeaningsStay
<1> QED
  BY <1>1, <1>3, <1>4, EditInv DEF IInv, Shape, Progress

LEMMA AssignCellvarsInv == IInv /\ AssignCellvars => IInv'
<1> SUFFICES ASSUME IInv, AssignCellvars PROVE IInv'
  OBVIOUS
<1>1. /\ Touch /\ phase = "edit" /\ UNCHANGED co /\ HoldNoIndex({"FREE"})
      /\ cellvars' = Reverse(cellvars)
      /\ UNCHANGED <<consts, names, varnames, freevars, instrs, source>>
  BY DEF AssignCellvars, Touch
<1>2. Reverse(cellvars) \in Seq(Name)
  BY ReverseType DEF IInv, Shape, TablesOK
<1>3. TablesOK' /\ NamesKept /\ LocalsKept /\ Shape /\ Meanings
  BY <1>1, <1>2 DEF IInv, Shape, TablesOK, NamesKept, LocalsKept, Kept
<1>4. Meanings'
  BY <1>1, <1>3, MeaningsStay
<1> QED
  BY <1>1, <1>3, <1>4, EditInv DEF IInv, Shape, Progress

LEMMA AssignFreevarsInv == IInv /\ AssignFreevars => IInv'
<1> SUFFICES ASSUME IInv, AssignFreevars PROVE IInv'
  OBVIOUS
<1>1. /\ Touch /\ phase = "edit" /\ UNCHANGED co /\ HoldNoIndex({"FREE"})
      /\ freevars' = Reverse(freevars)
      /\ UNCHANGED <<consts, names, varnames, cellvars, instrs, source>>
  BY DEF AssignFreevars, Touch
<1>2. Reverse(freevars) \in Seq(Name)
  BY ReverseType DEF IInv, Shape, TablesOK
<1>3. TablesOK' /\ NamesKept /\ LocalsKept /\ Shape /\ Meanings
  BY <1>1, <1>2 DEF IInv, Shape, TablesOK, NamesKept, LocalsKept, Kept
<1>4. Meanings'
  BY <1>1, <1>3, MeaningsStay
<1> QED
  BY <1>1, <1>3, <1>4, EditInv DEF IInv, Shape, Progress

LEMMA RemoveInstrInv ==
    ASSUME IInv, NEW k \in DOMAIN instrs, RemoveInstr(k)
    PROVE  IInv'
<1>1. /\ Touch /\ phase = "edit" /\ UNCHANGED <<co, tables>>
      /\ instrs' = RemoveAt(instrs, k) /\ source' = RemoveAt(source, k)
  BY DEF RemoveInstr, Touch
<1>2. TablesOK' /\ Shape /\ Meanings /\ Len(instrs) = Len(source)
  BY <1>1 DEF IInv, Shape, Progress, TablesOK, tables
<1>3. /\ instrs' \in Seq(Instr) /\ source' \in Seq(Items) /\ Len(instrs') = Len(source')
      /\ Meanings'
  BY <1>1, <1>2, RemoveMeans
<1> QED
  BY <1>1, <1>2, <1>3, EditInv

\* Nothing but the phase, the cursor and what to_code() hands back changes.
LEMMA PhaseInv ==
    ASSUME IInv, UNCHANGED <<co, tables, instrs, source>>,
           nlocals' \in Nat, cursor' \in Nat, edited' \in BOOLEAN,
           phase' \in {"edit", "intern", "index"}, phase # "decode" \/ Len(instrs) = Len(source),
           code' \in Seq(Kind \X Nat),
           phase' = "intern" => cursor' = 0 /\ code' = <<>>,
           phase' = "index" => cursor' = 0 /\ code' = <<>> /\ \A k \in DOMAIN instrs : Bound(instrs[k])
    PROVE  IInv'
<1>1. /\ co' = co /\ consts' = consts /\ names' = names /\ varnames' = varnames
      /\ cellvars' = cellvars /\ freevars' = freevars /\ instrs' = instrs /\ source' = source
  BY DEF tables
<1>2. Shape'
  <2>1. phase' \in {"decode", "edit", "intern", "index"}
    OBVIOUS
  <2> QED
    BY <1>1, <2>1 DEF IInv, Shape, TablesOK
<1>3. Progress'
  <2>1. Len(instrs) \in Nat /\ Len(<<>>) = 0 /\ Len(instrs) = Len(source)
    BY LenProperties DEF IInv, Shape, Progress
  <2> QED
    BY <1>1, <2>1 DEF Progress
<1>4. Meanings'
  <2>1. TablesOK' /\ NamesKept /\ LocalsKept /\ Shape /\ Meanings
    BY <1>1 DEF IInv, Shape, TablesOK, NamesKept, LocalsKept, Kept
  <2> QED
    BY <1>1, <2>1, MeaningsStay
<1>5. Interned'
  <2>1. ASSUME phase' = "intern" PROVE \A k \in 1 .. cursor' : Bound(instrs[k])'
    BY <2>1
  <2>2. ASSUME phase' = "index" PROVE \A k \in DOMAIN instrs' : Bound(instrs[k])'
    BY <1>1, <2>2 DEF Bound, Somewhere, Unified
  <2> QED
    BY <2>1, <2>2 DEF Interned
<1> QED
  BY <1>2, <1>3, <1>4, <1>5 DEF IInv

LEMMA PhasesInv ==
    IInv /\ (DecodeDone \/ ToCode \/ InternDone \/ ToCodeFails \/ Return) => IInv'
<1> SUFFICES ASSUME IInv, DecodeDone \/ ToCode \/ InternDone \/ ToCodeFails \/ Return
             PROVE  IInv'
  OBVIOUS
<1> DEFINE P == Kind \X Nat
<1>1. /\ nlocals \in Nat /\ cursor \in Nat /\ edited \in BOOLEAN /\ code \in Seq(P)
      /\ Len(varnames) \in Nat
  BY LenProperties DEF IInv, Shape, TablesOK
<1>2. CASE DecodeDone
  <2>1. /\ UNCHANGED <<co, tables, instrs, source>> /\ nlocals' = nlocals /\ cursor' = cursor
        /\ edited' = edited /\ code' = code /\ phase' = "edit"
    BY <1>2 DEF DecodeDone
  <2>2. Len(instrs) = Len(source)
    BY <1>2, DenotesType DEF DecodeDone, IInv, Shape, Progress
  <2> HIDE DEF P
  <2> QED
    BY <1>1, <2>1, <2>2, PhaseInv DEF P
<1>3. CASE ToCode
  <2>1. /\ UNCHANGED <<co, tables, instrs, source>> /\ nlocals' = nlocals /\ cursor' = 0
        /\ edited' = edited /\ code' = <<>> /\ phase = "edit" /\ phase' = "intern"
    BY <1>3 DEF ToCode
  <2> HIDE DEF P
  <2>2. code' \in Seq(P)
    BY <2>1, EmptySeq
  <2> QED
    BY <1>1, <2>1, <2>2, PhaseInv DEF P
<1>4. CASE InternDone
  <2>1. /\ UNCHANGED <<co, tables, instrs, source>> /\ nlocals' = nlocals /\ cursor' = 0
        /\ edited' = edited /\ code' = code /\ phase = "intern" /\ phase' = "index"
        /\ cursor = Len(instrs)
    BY <1>4 DEF InternDone
  <2>2. code = <<>>
    BY <2>1 DEF IInv, Progress
  <2>3. \A k \in DOMAIN instrs : Bound(instrs[k])
    BY <2>1, LenProperties DEF IInv, Shape, Interned
  <2> HIDE DEF P
  <2> QED
    BY <1>1, <2>1, <2>2, <2>3, PhaseInv DEF P
<1>5. CASE ToCodeFails \/ Return
  <2>1. /\ UNCHANGED <<co, tables, instrs, source>> /\ nlocals' \in {nlocals, Len(varnames)}
        /\ cursor' = cursor /\ edited' \in {edited, FALSE} /\ code' = code
        /\ phase = "index" /\ phase' = "edit"
    BY <1>5 DEF ToCodeFails, Return
  <2> HIDE DEF P
  <2> QED
    BY <1>1, <2>1, PhaseInv DEF P
<1> QED
  BY <1>2, <1>3, <1>4, <1>5

-----------------------------------------------------------------------------
(***************************************************************************)
(* The two sweeps.                                                         *)
(***************************************************************************)
LEMMA BoundStays ==
    ASSUME UNCHANGED co, ToSet(varnames) \subseteq ToSet(varnames'),
           ToSet(cellvars) \subseteq ToSet(cellvars'), ToSet(freevars) \subseteq ToSet(freevars'),
           NEW i, Bound(i)
    PROVE  Bound(i)'
<1>1. Unified' = Unified
  BY DEF Unified
<1>2. Somewhere \subseteq Somewhere'
  BY DEF Somewhere
<1> QED
  BY <1>1, <1>2 DEF Bound

\* A step of the first sweep, that has seen to the next instruction.
LEMMA InternInv ==
    ASSUME IInv, Sweeping("intern"), UNCHANGED <<consts, names, cellvars, code>>,
           varnames' \in Seq(Name), Extends(varnames', varnames),
           ToSet(varnames) \subseteq ToSet(varnames'),
           freevars' \in Seq(Name), ToSet(freevars) \subseteq ToSet(freevars'),
           \A i : i = instr => Bound(i)'
    PROVE  IInv'
<1>1. /\ phase = "intern" /\ cursor < Len(instrs) /\ cursor' = cursor + 1
      /\ co' = co /\ nlocals' = nlocals /\ instrs' = instrs /\ phase' = phase /\ source' = source
      /\ edited' = edited /\ consts' = consts /\ names' = names /\ cellvars' = cellvars
      /\ code' = code
  BY DEF Sweeping
<1>2. cursor \in Nat /\ Len(instrs) \in Nat /\ cursor + 1 \in 1 .. Len(instrs)
  BY <1>1, LenProperties DEF IInv, Shape
<1>3. TablesOK' /\ Kept(names) /\ Kept(varnames) /\ Shape /\ Meanings
  BY <1>1 DEF IInv, Shape, TablesOK, Kept, Extends
<1>4. Shape'
  BY <1>1, <1>2, <1>3 DEF Shape
<1>5. Progress'
  BY <1>1, <1>2 DEF IInv, Progress
<1>6. Meanings'
  BY <1>1, <1>3, MeaningsStay DEF NamesKept, LocalsKept
<1>7. Interned'
  <2>1. ASSUME NEW k \in 1 .. cursor + 1, NEW i, i = instrs[k] PROVE Bound(i)'
    <3>1. CASE k = cursor + 1
      BY <2>1, <3>1 DEF instr
    <3>2. CASE k # cursor + 1
      <4>1. k \in 1 .. cursor
        BY <1>2, <3>2
      <4>2. Bound(i)
        BY <1>1, <2>1, <4>1 DEF IInv, Interned
      <4> QED
        BY <1>1, <4>2, BoundStays
    <3> QED
      BY <3>1, <3>2
  <2> QED
    BY <1>1, <2>1 DEF Interned
<1> QED
  BY <1>4, <1>5, <1>6, <1>7 DEF IInv

LEMMA InternLocalInv == IInv /\ InternLocal => IInv'
<1> SUFFICES ASSUME IInv, InternLocal PROVE IInv'
  OBVIOUS
<1> DEFINE x == arg.is
<1>1. /\ Sweeping("intern") /\ instr.kind = "LOCAL" /\ arg.form = "value"
      /\ varnames' = (IF KnownLocal(x) THEN varnames ELSE Append(varnames, x))
      /\ UNCHANGED <<consts, names, cellvars, freevars, code>>
  BY DEF InternLocal, IsObject
<1>2. co' = co /\ cursor + 1 \in DOMAIN instrs /\ Unified \in BOOLEAN /\ TablesOK
  BY <1>1, LenProperties, CodeType DEF Sweeping, IInv, Shape, Unified
<1>3. instr \in Instr
  BY <1>2, LenProperties, ElementOfSeq DEF instr, IInv, Shape
<1>4. x \in Name
  BY <1>1, <1>3 DEF Instr, arg
<1>5. /\ KnownLocal(x) => x \in IF Unified THEN Somewhere ELSE ToSet(varnames)
  <2>1. CASE Unified
    <3> DEFINE c == [varnames |-> varnames, cellvars |-> cellvars, freevars |-> freevars]
    <3>1. Same(c)
      BY DEF Same
    <3> HIDE DEF c
    <3>2. LocalsPlusFind(x) >= 0 <=> x \in Somewhere
      BY <1>2, <3>1, PlaceIs
    <3> QED
      BY <2>1, <3>2 DEF KnownLocal
  <2>2. CASE ~ Unified
    <3>1. FindOnly(varnames, x) >= 0 <=> x \in ToSet(varnames)
      BY <1>2, InTable DEF TablesOK
    <3> QED
      BY <2>2, <3>1 DEF KnownLocal
  <2> QED
    BY <2>1, <2>2
<1> HIDE DEF x
<1>6. /\ varnames' \in Seq(Name) /\ Extends(varnames', varnames)
      /\ ToSet(varnames) \subseteq ToSet(varnames')
      /\ ~ KnownLocal(x) => x \in ToSet(varnames')
  <2>1. CASE KnownLocal(x)
    BY <1>1, <1>2, <2>1 DEF Extends, TablesOK
  <2>2. CASE ~ KnownLocal(x)
    BY <1>1, <1>2, <1>4, <2>2, AppendGrows DEF TablesOK
  <2> QED
    BY <2>1, <2>2
<1>7. x \in IF Unified' THEN Somewhere' ELSE ToSet(varnames')
  BY <1>1, <1>2, <1>5, <1>6 DEF Unified, Somewhere
<1>8. \A i : i = instr => Bound(i)'
  BY <1>1, <1>7 DEF Bound, arg, x
<1>9. freevars' \in Seq(Name) /\ ToSet(freevars) \subseteq ToSet(freevars')
  BY <1>1, <1>2 DEF TablesOK
<1> QED
  BY <1>1, <1>6, <1>8, <1>9, InternInv

LEMMA InternFreeInv == IInv /\ InternFree => IInv'
<1> SUFFICES ASSUME IInv, InternFree PROVE IInv'
  OBVIOUS
<1> DEFINE x == arg.is
<1>1. /\ Sweeping("intern") /\ instr.kind = "FREE" /\ arg.form = "value"
      /\ freevars' = (IF KnownFree(x) THEN freevars ELSE Append(freevars, x))
      /\ UNCHANGED <<consts, names, varnames, cellvars, code>>
  BY DEF InternFree, IsObject
<1>2. co' = co /\ cursor + 1 \in DOMAIN instrs /\ TablesOK
  BY <1>1, LenProperties DEF Sweeping, IInv, Shape
<1>3. instr \in Instr
  BY <1>2, LenProperties, ElementOfSeq DEF instr, IInv, Shape
<1>4. x \in Name
  BY <1>1, <1>3 DEF Instr, arg
<1>5. KnownFree(x) <=> x \in ToSet(cellvars) \cup ToSet(freevars)
  BY <1>2, InTable DEF KnownFree, TablesOK
<1> HIDE DEF x
<1>6. /\ freevars' \in Seq(Name) /\ ToSet(freevars) \subseteq ToSet(freevars')
      /\ ~ KnownFree(x) => x \in ToSet(freevars')
  <2>1. CASE KnownFree(x)
    BY <1>1, <1>2, <2>1 DEF TablesOK
  <2>2. CASE ~ KnownFree(x)
    BY <1>1, <1>2, <1>4, <2>2, AppendGrows DEF TablesOK
  <2> QED
    BY <2>1, <2>2
<1>7. x \in ToSet(cellvars') \cup ToSet(freevars')
  BY <1>1, <1>5, <1>6
<1>8. \A i : i = instr => Bound(i)'
  BY <1>1, <1>7 DEF Bound, arg, x
<1>9. varnames' \in Seq(Name) /\ Extends(varnames', varnames) /\ ToSet(varnames) \subseteq ToSet(varnames')
  BY <1>1, <1>2 DEF TablesOK, Extends
<1> QED
  BY <1>1, <1>6, <1>8, <1>9, InternInv

LEMMA InternNothingInv == IInv /\ InternNothing => IInv'
<1> SUFFICES ASSUME IInv, InternNothing PROVE IInv'
  OBVIOUS
<1>1. /\ Sweeping("intern")
      /\ instr.kind = "CONST" \/ arg.form # "value"
      /\ UNCHANGED <<consts, names, varnames, cellvars, freevars, code>>
  BY DEF InternNothing, IsObject, tables
<1>2. TablesOK
  BY DEF IInv, Shape
<1>3. \A i : i = instr => Bound(i)'
  BY <1>1 DEF Bound, arg
<1>4. /\ varnames' \in Seq(Name) /\ Extends(varnames', varnames) /\ ToSet(varnames) \subseteq ToSet(varnames')
      /\ freevars' \in Seq(Name) /\ ToSet(freevars) \subseteq ToSet(freevars')
  BY <1>1, <1>2 DEF TablesOK, Extends
<1> QED
  BY <1>1, <1>3, <1>4, InternInv

\* A step of the second sweep, that resolves the next instruction to x.
LEMMA IndexInv ==
    ASSUME IInv, Sweeping("index"), UNCHANGED <<names, varnames, cellvars, freevars>>,
           consts' \in Seq(Object), NEW x \in Kind \X Nat, code' = Append(code, x)
    PROVE  IInv'
<1> DEFINE P == Kind \X Nat
<1>1. /\ phase = "index" /\ cursor < Len(instrs) /\ cursor' = cursor + 1
      /\ co' = co /\ nlocals' = nlocals /\ instrs' = instrs /\ phase' = phase /\ source' = source
      /\ edited' = edited /\ names' = names /\ varnames' = varnames /\ cellvars' = cellvars
      /\ freevars' = freevars
  BY DEF Sweeping
<1>2. cursor \in Nat /\ Len(instrs) \in Nat /\ code \in Seq(P) /\ Len(code) = cursor
  BY <1>1, LenProperties DEF IInv, Shape, Progress
<1>3. TablesOK' /\ Kept(names) /\ Kept(varnames) /\ Shape /\ Meanings
  BY <1>1 DEF IInv, Shape, TablesOK, Kept
<1>4. code' \in Seq(P) /\ Len(code') = cursor + 1
  <2>1. x \in P
    OBVIOUS
  <2> HIDE DEF P
  <2> QED
    BY <1>2, <2>1, AppendGrows
<1>5. Shape'
  BY <1>1, <1>2, <1>3, <1>4 DEF Shape
<1>6. Progress'
  BY <1>1, <1>2, <1>4 DEF IInv, Progress
<1>7. Meanings'
  BY <1>1, <1>3, MeaningsStay DEF NamesKept, LocalsKept
<1>8. Interned'
  <2>1. \A k \in DOMAIN instrs : Bound(instrs[k])
    BY <1>1 DEF IInv, Interned
  <2> QED
    BY <1>1, <2>1 DEF Interned, Bound, Somewhere, Unified
<1> QED
  BY <1>5, <1>6, <1>7, <1>8 DEF IInv

\* What there is to know of the instruction that a sweep has come to.
LEMMA AtCursor ==
    ASSUME IInv, phase \in {"intern", "index"}, cursor < Len(instrs)
    PROVE  /\ cursor + 1 \in DOMAIN instrs /\ instr = instrs[cursor + 1] /\ instr \in Instr
           /\ source[cursor + 1] = Says(instr) /\ Within(instr)
           /\ phase = "index" => Bound(instr)
<1>1. cursor + 1 \in DOMAIN instrs
  BY LenProperties DEF IInv, Shape
<1>2. instr = instrs[cursor + 1] /\ instr \in Instr
  BY <1>1, LenProperties, ElementOfSeq DEF instr, IInv, Shape
<1> QED
  BY <1>1, <1>2 DEF IInv, Meanings, Interned

\* The first sweep has bound each name where the second looks for it.
LEMMA VariableIs ==
    ASSUME IInv, phase = "index", cursor < Len(instrs), instr.kind \in {"LOCAL", "FREE"},
           arg.form = "value"
    PROVE  LET i == VariableIndex(instr.kind, arg.is)
               x == <<instr.kind, i>>
           IN  i \in Nat /\ Refers(Now, x) /\ Reads(Now, x) = source[cursor + 1]
<1> DEFINE kind == instr.kind
           x == arg.is
           c == Now
           i == VariableIndex(kind, x)
<1>1. /\ instr \in Instr /\ source[cursor + 1] = Says(instr) /\ Bound(instr)
  BY AtCursor
<1>2. x \in Name /\ Says(instr) = <<kind, x>>
  BY <1>1 DEF Instr, Says, Meant, arg
<1>3. /\ TablesOK /\ Same(c) /\ c.unified = Unified /\ Unified \in BOOLEAN
      /\ c.varnames = varnames /\ c.cellvars = cellvars /\ c.freevars = freevars
  BY CodeType DEF IInv, Shape, Now, Same, Unified
<1>4. /\ kind = "FREE" => x \in ToSet(cellvars) \cup ToSet(freevars)
      /\ kind = "LOCAL" => x \in IF Unified THEN Somewhere ELSE ToSet(varnames)
  BY <1>1 DEF Bound, arg
<1>5. DOMAIN varnames = 1 .. Len(varnames) /\ Len(varnames) \in Nat /\ Len(cellvars) \in Nat
      /\ DOMAIN cellvars = 1 .. Len(cellvars) /\ DOMAIN freevars = 1 .. Len(freevars) /\ Len(freevars) \in Nat
  BY <1>3, LenProperties DEF TablesOK
<1>6. /\ Cells(c) = cellvars \o freevars
      /\ DOMAIN Cells(c) = 1 .. Len(cellvars) + Len(freevars)
      /\ \A k \in 1 .. Len(cellvars) : Cells(c)[k] = cellvars[k]
      /\ \A k \in 1 .. Len(freevars) : Cells(c)[Len(cellvars) + k] = freevars[k]
  <2> DEFINE s == cellvars \o freevars
  <2>1. /\ s \in Seq(Name) /\ Len(s) = Len(cellvars) + Len(freevars)
        /\ \A k \in 1 .. Len(cellvars) + Len(freevars) :
              s[k] = IF k <= Len(cellvars) THEN cellvars[k] ELSE freevars[k - Len(cellvars)]
    BY <1>3, ConcatProperties DEF TablesOK
  <2>2. Cells(c) = s
    BY <1>3 DEF Cells
  <2> HIDE DEF s, c
  <2>3. DOMAIN s = 1 .. Len(s)
    BY <2>1, LenProperties
  <2>4. \A k \in 1 .. Len(cellvars) : s[k] = cellvars[k]
    BY <1>5, <2>1
  <2>5. ASSUME NEW k \in 1 .. Len(freevars) PROVE s[Len(cellvars) + k] = freevars[k]
    <3> DEFINE j == Len(cellvars) + k
    <3>1. j \in 1 .. Len(cellvars) + Len(freevars) /\ ~ (j <= Len(cellvars)) /\ j - Len(cellvars) = k
      BY <1>5
    <3> HIDE DEF j
    <3>2. s[j] = freevars[k]
      BY <2>1, <3>1
    <3> QED
      BY <3>2 DEF j
  <2> QED
    BY <2>1, <2>2, <2>3, <2>4, <2>5 DEF s
<1>7. kind = "FREE" => Contains(Cells(c), x)
  <2>1. ASSUME x \in ToSet(cellvars) \cup ToSet(freevars) PROVE \E k \in DOMAIN Cells(c) : Cells(c)[k] = x
    <3>1. CASE x \in ToSet(cellvars)
      <4>1. PICK k \in 1 .. Len(cellvars) : cellvars[k] = x
        BY <1>5, <3>1 DEF ToSet
      <4> QED
        BY <1>5, <1>6, <4>1
    <3>2. CASE x \in ToSet(freevars)
      <4>1. PICK k \in 1 .. Len(freevars) : freevars[k] = x
        BY <1>5, <3>2 DEF ToSet
      <4>2. Len(cellvars) + k \in 1 .. Len(cellvars) + Len(freevars)
        BY <1>5
      <4> QED
        BY <1>6, <4>1, <4>2
    <3> QED
      BY <2>1, <3>1, <3>2
  <2>2. Cells(c) \in Seq(Name) /\ DOMAIN Cells(c) = 1 .. Len(Cells(c))
    BY <1>3, <1>6, ConcatProperties, LenProperties DEF TablesOK
  <2> QED
    BY <1>4, <2>1, <2>2 DEF Contains
<1>8. CASE Unified
  <2>1. i = LocalsPlusFind(x)
    BY <1>8 DEF VariableIndex
  <2>2. x \in Somewhere
    BY <1>4, <1>8 DEF Somewhere
  <2> HIDE DEF c
  <2>3. i \in Int /\ i >= 0 /\ i + 1 \in DOMAIN Frame(c) /\ Frame(c)[i + 1] = x
    BY <1>3, <2>1, <2>2, PlaceIs
  <2> HIDE DEF i, x, kind
  <2>4. CASE kind = "LOCAL"
    <3>1. Refers(c, <<kind, i>>) /\ Reads(c, <<kind, i>>) = <<kind, x>>
      BY <1>3, <1>8, <2>3, <2>4 DEF Refers, Reads
    <3> QED
      BY <1>1, <1>2, <2>3, <3>1 DEF c, i, kind, x
  <2>5. CASE kind = "FREE"
    <3>1. Refers(c, <<kind, i>>) /\ Reads(c, <<kind, i>>) = <<kind, x>>
      BY <1>3, <1>7, <1>8, <2>3, <2>5 DEF Refers, Reads
    <3> QED
      BY <1>1, <1>2, <2>3, <3>1 DEF c, i, kind, x
  <2> QED
    BY <2>4, <2>5 DEF kind
<1>9. CASE ~ Unified /\ kind = "LOCAL"
  <2>1. i = FindOnly(varnames, x) /\ x \in ToSet(varnames)
    BY <1>4, <1>9 DEF VariableIndex
  <2> HIDE DEF c
  <2>2. i \in Int /\ i >= 0 /\ i + 1 \in DOMAIN varnames /\ varnames[i + 1] = x
    <3>1. i \in Int /\ i >= 0
      BY <1>3, <2>1, InTable DEF TablesOK
    <3>2. i + 1 \in 1 .. Len(varnames) /\ varnames[i + 1] = x
      BY <1>3, <2>1, <3>1, FindIs DEF TablesOK
    <3> QED
      BY <1>5, <3>1, <3>2
  <2> HIDE DEF i, x, kind
  <2>3. Refers(c, <<kind, i>>) /\ Reads(c, <<kind, i>>) = <<kind, x>>
    BY <1>3, <1>9, <2>2 DEF Refers, Reads
  <2> QED
    BY <1>1, <1>2, <2>2, <2>3 DEF c, i, kind, x
<1>10. CASE ~ Unified /\ kind = "FREE"
  <2> DEFINE cell == FindOnly(cellvars, x)
             free == FindOnly(freevars, x)
  <2>1. /\ cell \in Int /\ free \in Int
        /\ cell >= 0 <=> x \in ToSet(cellvars)
        /\ free >= 0 <=> x \in ToSet(freevars)
    BY <1>3, InTable DEF TablesOK
  <2>2. i = IF cell >= 0 THEN cell ELSE Len(cellvars) + free
    BY <1>4, <1>10, <2>1 DEF VariableIndex
  <2>3. /\ cell >= 0 => cell + 1 \in 1 .. Len(cellvars) /\ cellvars[cell + 1] = x
        /\ free >= 0 => free + 1 \in 1 .. Len(freevars) /\ freevars[free + 1] = x
    BY <1>3, FindIs DEF TablesOK
  <2>4. cell >= 0 \/ free >= 0
    BY <1>4, <1>10, <2>1
  <2> HIDE DEF c, cell, free, i, x, kind
  <2>5. i \in Int /\ i >= 0 /\ i + 1 \in DOMAIN Cells(c) /\ Cells(c)[i + 1] = x
    <3>1. CASE cell >= 0
      <4>1. i = cell /\ cell + 1 \in 1 .. Len(cellvars) + Len(freevars)
        BY <1>5, <2>1, <2>2, <2>3, <3>1
      <4> QED
        BY <1>6, <2>1, <2>3, <3>1, <4>1
    <3>2. CASE ~ (cell >= 0)
      <4>1. /\ i + 1 = Len(cellvars) + (free + 1) /\ i \in Int /\ i >= 0
            /\ i + 1 \in 1 .. Len(cellvars) + Len(freevars)
        BY <1>5, <2>1, <2>2, <2>3, <2>4, <3>2
      <4> QED
        BY <1>6, <2>3, <2>4, <3>2, <4>1
    <3> QED
      BY <3>1, <3>2
  <2>6. Refers(c, <<kind, i>>) /\ Reads(c, <<kind, i>>) = <<kind, x>>
    BY <1>3, <1>10, <2>5 DEF Refers, Reads
  <2> QED
    BY <1>1, <1>2, <2>5, <2>6 DEF c, i, kind, x
<1> QED
  BY <1>3, <1>8, <1>9, <1>10

\* A constant that is taken for o, or o itself, is at the index handed out.
LEMMA ConstIs ==
    ASSUME IInv, IndexConst
    PROVE  LET o == arg.is
               i == IndexOr(FindConst(o), consts)
           IN  /\ o \in Object /\ i \in Nat
               /\ consts' \in Seq(Object) /\ Extends(consts', consts)
               /\ i + 1 \in DOMAIN consts' /\ consts'[i + 1] \in Object /\ Matches(consts'[i + 1], o)
<1> DEFINE o == arg.is
           at == FindConst(o)
           t == OrAppend(consts, at, o)
           i == IndexOr(at, consts)
<1>1. /\ phase = "index" /\ cursor < Len(instrs) /\ instr.kind = "CONST" /\ arg.form = "value"
      /\ consts' = t
  BY DEF IndexConst, Sweeping, IsObject
<1>2. consts \in Seq(Object) /\ Len(consts) \in Nat
  BY LenProperties DEF IInv, Shape, TablesOK
<1>3. o \in Object
  BY <1>1, AtCursor DEF Instr, arg
<1>4. at \in Int /\ (at >= 0 => at + 1 \in 1 .. Len(consts) /\ Matches(consts[at + 1], o))
  BY <1>2, FindConstIs
<1> HIDE DEF o, at
<1>5. /\ t \in Seq(Object) /\ Extends(t, consts)
      /\ i \in Nat /\ i + 1 \in DOMAIN t
      /\ t[i + 1] = IF at < 0 THEN o ELSE consts[at + 1]
  BY <1>2, <1>3, <1>4, OrAppendIs
<1> HIDE DEF t, i
<1>6. Matches(t[i + 1], o)
  <2>1. CASE at < 0
    BY <1>5, <2>1 DEF Matches
  <2>2. CASE at >= 0
    BY <1>4, <1>5, <2>2
  <2> QED
    BY <1>4, <2>1, <2>2
<1>7. t[i + 1] \in Object
  BY <1>5, LenProperties, ElementOfSeq
<1> QED
  BY <1>1, <1>3, <1>5, <1>6, <1>7 DEF o, at, t, i

LEMMA IndexConstInv == IInv /\ IndexConst => IInv'
<1> SUFFICES ASSUME IInv, IndexConst PROVE IInv'
  OBVIOUS
<1> DEFINE i == IndexOr(FindConst(arg.is), consts)
           x == <<"CONST", i>>
<1>1. /\ Sweeping("index") /\ UNCHANGED <<names, varnames, cellvars, freevars>>
      /\ code' = Append(code, x)
  BY DEF IndexConst
<1>2. i \in Nat /\ consts' \in Seq(Object)
  BY ConstIs
<1> HIDE DEF i
<1>3. x \in Kind \X Nat
  BY <1>2 DEF Kind
<1> QED
  BY <1>1, <1>2, <1>3, IndexInv

LEMMA IndexVariableInv == IInv /\ IndexVariable => IInv'
<1> SUFFICES ASSUME IInv, IndexVariable PROVE IInv'
  OBVIOUS
<1> DEFINE i == VariableIndex(instr.kind, arg.is)
           x == <<instr.kind, i>>
<1>1. /\ Sweeping("index") /\ UNCHANGED <<consts, names, varnames, cellvars, freevars>>
      /\ code' = Append(code, x) /\ instr.kind \in {"LOCAL", "FREE"} /\ arg.form = "value"
      /\ phase = "index" /\ cursor < Len(instrs)
  BY DEF IndexVariable, IsObject, tables, Sweeping
<1>2. i \in Nat
  BY <1>1, VariableIs
<1> HIDE DEF i
<1>3. x \in Kind \X Nat
  BY <1>1, <1>2 DEF Kind
<1>4. consts' \in Seq(Object)
  BY <1>1 DEF IInv, Shape, TablesOK
<1> QED
  BY <1>1, <1>3, <1>4, IndexInv

LEMMA KeepIndexInv == IInv /\ KeepIndex => IInv'
<1> SUFFICES ASSUME IInv, KeepIndex PROVE IInv'
  OBVIOUS
<1> DEFINE x == <<instr.kind, arg.is>>
<1>1. /\ Sweeping("index") /\ UNCHANGED <<consts, names, varnames, cellvars, freevars>>
      /\ code' = Append(code, x) /\ arg.form # "value"
      /\ phase = "index" /\ cursor < Len(instrs)
  BY DEF KeepIndex, IsObject, tables, Sweeping
<1>2. instr \in Instr
  BY <1>1, AtCursor
<1>3. x \in Kind \X Nat
  BY <1>1, <1>2 DEF Instr, arg
<1>4. consts' \in Seq(Object)
  BY <1>1 DEF IInv, Shape, TablesOK
<1> QED
  BY <1>1, <1>3, <1>4, IndexInv

LEMMA EditStepInv == IInv /\ Edit => IInv'
<1> SUFFICES ASSUME IInv, Edit PROVE IInv'
  OBVIOUS
<1>1. ASSUME NEW k \in 1 .. Len(instrs) + 1, NEW x \in Edits, AddInstr(k, x[1], x[2]) PROVE IInv'
  BY <1>1, AddInstrInv
<1>2. ASSUME NEW k \in 1 .. Len(instrs) + 1, NEW x \in Additions, x[1] = "LOCAL", AddVarname(k, x[2])
      PROVE  IInv'
  BY <1>2, AddVarnameInv
<1>3. ASSUME NEW k \in 1 .. Len(instrs) + 1, NEW x \in Additions, NEW flag \in {0, 1},
             x[1] \in NameKind, AddName(k, x[1], flag, x[2])
      PROVE  IInv'
  BY <1>3, AddNameInv
<1>4. ASSUME NEW x \in Additions, x[1] = "CONST", AddConst(x[2]) PROVE IInv'
  BY <1>4, AddConstInv
<1>5. CASE \/ AssignConsts \/ AssignNames \/ AssignVarnames
           \/ AssignCellvars \/ AssignFreevars
  BY <1>5, AssignConstsInv, AssignNamesInv, AssignVarnamesInv, AssignCellvarsInv,
     AssignFreevarsInv
<1>6. ASSUME NEW k \in DOMAIN instrs, RemoveInstr(k) PROVE IInv'
  BY <1>6, RemoveInstrInv
<1> QED
  BY <1>1, <1>2, <1>3, <1>4, <1>5, <1>6 DEF Edit

LEMMA StutterInv == IInv /\ UNCHANGED vars => IInv'
<1> SUFFICES ASSUME IInv, UNCHANGED vars PROVE IInv'
  OBVIOUS
<1>1. /\ co' = co /\ consts' = consts /\ names' = names /\ varnames' = varnames
      /\ cellvars' = cellvars /\ freevars' = freevars /\ nlocals' = nlocals /\ instrs' = instrs
      /\ phase' = phase /\ cursor' = cursor /\ code' = code /\ source' = source /\ edited' = edited
  BY DEF vars, tables
<1>2. Shape' /\ Progress'
  BY <1>1 DEF IInv, Shape, TablesOK, Progress, Same
<1>3. Meanings'
  <2>1. TablesOK' /\ Kept(names) /\ Kept(varnames) /\ Shape /\ Meanings
    BY <1>1, <1>2 DEF IInv, Shape, Kept
  <2> QED
    BY <1>1, <2>1, MeaningsStay DEF NamesKept, LocalsKept
<1>4. Interned'
  BY <1>1 DEF IInv, Interned, Bound, Somewhere, Unified
<1> QED
  BY <1>2, <1>3, <1>4 DEF IInv

LEMMA NextInv == IInv /\ [Next]_vars => IInv'
<1> SUFFICES ASSUME IInv, [Next]_vars PROVE IInv'
  OBVIOUS
<1>1. CASE DecodeArg
  BY <1>1, DecodeArgInv
<1>2. CASE DecodeDone \/ ToCode \/ InternDone \/ ToCodeFails \/ Return
  BY <1>2, PhasesInv
<1>3. CASE Edit
  BY <1>3, EditStepInv
<1>4. CASE InternLocal \/ InternFree \/ InternNothing
  BY <1>4, InternLocalInv, InternFreeInv, InternNothingInv
<1>5. CASE IndexConst \/ IndexVariable \/ KeepIndex
  BY <1>5, IndexConstInv, IndexVariableInv, KeepIndexInv
<1>6. CASE Stop \/ UNCHANGED vars
  BY <1>6, StutterInv DEF Stop
<1> QED
  BY <1>1, <1>2, <1>3, <1>4, <1>5, <1>6 DEF Next

LEMMA InvHolds == Spec => []IInv
  BY InitInv, NextInv, PTL DEF Spec

-----------------------------------------------------------------------------
(***************************************************************************)
(* What follows.                                                           *)
(***************************************************************************)
\* Whatever the code object, the tables keep their shape, and no instruction
\* comes without what it is meant to name (bytecode.h, CodeMeta).
THEOREM TypeOKHolds == Spec => []TypeOK
<1>1. IInv => TypeOK
  <2> SUFFICES ASSUME IInv PROVE TypeOK
    OBVIOUS
  <2>1. /\ consts \in Seq(Object) /\ names \in Seq(Name) /\ varnames \in Seq(Name)
        /\ cellvars \in Seq(Name) /\ freevars \in Seq(Name)
        /\ nlocals \in Nat /\ cursor \in Nat /\ edited \in BOOLEAN
    BY DEF IInv, Shape, TablesOK
  <2>2. phase \in {"decode", "edit", "intern", "index"} /\ code \in Seq(Kind \X Nat)
    BY DEF IInv, Shape
  <2>3. \A k \in DOMAIN instrs : instrs[k].kind \in Kind
    <3>1. \A k \in DOMAIN instrs : instrs[k] \in Instr
      BY LenProperties, ElementOfSeq DEF IInv, Shape
    <3> QED
      BY <3>1 DEF Instr
  <2>4. phase # "decode" => Len(instrs) = Len(source)
    BY DEF IInv, Progress
  <2> QED
    BY <2>1, <2>2, <2>3, <2>4 DEF TypeOK
<1> QED
  BY <1>1, InvHolds, PTL

\* to_code() never raises "cannot resolve variable argument", whatever names
\* the instructions were given and however the tables were edited: its first
\* sweep has put each name where its second sweep looks (bytecode.cpp:525-531).
THEOREM EveryNameIsFoundHolds == Spec => []EveryNameIsFound
<1>1. IInv => EveryNameIsFound
  BY VariableIs DEF EveryNameIsFound, IsObject
<1> QED
  BY <1>1, InvHolds, PTL

\* No call, and no edit but an assignment to the two lists, makes or moves a cell or
\* moves a free variable: an inner function's closure stays valid
\* (bytecode.cpp:486-489).
THEOREM ClosureKeptHolds == Spec => ClosureKept
<1>1. ASSUME IInv, [Next]_vars
      PROVE  [\/ AssignCellvars \/ AssignFreevars
              \/ cellvars' = cellvars /\ IsPrefix(freevars, freevars')]_vars
  <2>1. freevars \in Seq(Name)
    BY <1>1 DEF IInv, Shape, TablesOK
  <2>2. IsPrefix(freevars, freevars)
    BY <2>1, LenProperties DEF IsPrefix
  <2>3. CASE UNCHANGED <<cellvars, freevars>>
    BY <2>2, <2>3
  <2>4. CASE InternFree
    <3>1. /\ cellvars' = cellvars
          /\ freevars' = (IF KnownFree(arg.is) THEN freevars ELSE Append(freevars, arg.is))
          /\ phase = "intern" /\ cursor < Len(instrs) /\ instr.kind = "FREE" /\ arg.form = "value"
      BY <2>4 DEF InternFree, Sweeping, IsObject
    <3>2. arg.is \in Name
      BY <1>1, <3>1, AtCursor DEF Instr, arg
    <3>3. CASE KnownFree(arg.is)
      BY <2>2, <3>1, <3>3
    <3>4. CASE ~ KnownFree(arg.is)
      <4>1. IsPrefix(freevars, Append(freevars, arg.is))
        BY <2>1, <3>2, PrefixIs
      <4> QED
        BY <3>1, <3>4, <4>1
    <3> QED
      BY <3>3, <3>4
  <2>5. InternFree \/ AssignCellvars \/ AssignFreevars \/ UNCHANGED <<cellvars, freevars>>
    <3>1. CASE DecodeArg \/ DecodeDone \/ ToCode \/ InternDone \/ ToCodeFails \/ Return
      BY <3>1 DEF DecodeArg, DecodeDone, ToCode, InternDone, ToCodeFails, Return, tables
    <3>2. CASE Edit
      BY <3>2 DEF Edit, AddInstr, AddConst, AddVarname, AddName,
         AssignConsts, AssignNames, AssignVarnames, AssignCellvars, AssignFreevars, RemoveInstr, tables
    <3>3. CASE InternLocal \/ InternFree \/ InternNothing
      BY <3>3 DEF InternLocal, InternNothing, tables
    <3>4. CASE IndexConst \/ IndexVariable \/ KeepIndex
      BY <3>4 DEF IndexConst, IndexVariable, KeepIndex, tables
    <3>5. CASE Stop \/ UNCHANGED vars
      BY <3>5 DEF Stop, vars, tables
    <3> QED
      BY <1>1, <3>1, <3>2, <3>3, <3>4, <3>5 DEF Next
  <2> QED
    BY <2>3, <2>4, <2>5
<1> QED
  BY <1>1, InvHolds, PTL DEF Spec, ClosureKept

-----------------------------------------------------------------------------
(***************************************************************************)
(* Where constants that are taken for each other mean the same, to_code()  *)
(* builds what the instructions name.                                      *)
(***************************************************************************)
\* What find_or_add() goes by tells apart what a program can.  It fails for the
\* zeros of a float, which are == and of one type.
MatchesMean == \A a, b \in Object : Matches(a, b) => Meaning[a] = Meaning[b]

\* An index means the same in a code object with more constants.
LEMMA ReadsStays ==
    ASSUME NEW c, NEW d, Extends(d.consts, c.consts), c.names = d.names, c.varnames = d.varnames,
           c.cellvars = d.cellvars, c.freevars = d.freevars, c.unified = d.unified,
           NEW kind \in Kind, NEW n \in Nat, Refers(c, <<kind, n>>)
    PROVE  Refers(d, <<kind, n>>) /\ Reads(d, <<kind, n>>) = Reads(c, <<kind, n>>)
<1>1. Frame(c) = Frame(d) /\ Cells(c) = Cells(d)
  BY DEF Frame, Cells, OwnSlots, Own
<1>2. CASE kind = "CONST"
  BY <1>2 DEF Reads, Refers, Extends
<1>3. CASE kind = "NAME"
  BY <1>3 DEF Reads, Refers
<1>4. CASE kind = "GLOBAL"
  BY <1>4 DEF Reads, Refers
<1>5. CASE kind = "LOCAL"
  BY <1>1, <1>5 DEF Reads, Refers
<1>6. CASE kind = "FREE"
  BY <1>1, <1>6 DEF Reads, Refers
<1> QED
  BY <1>2, <1>3, <1>4, <1>5, <1>6 DEF Kind, NameKind

LEMMA CodedGrows ==
    ASSUME IInv, Coded, Sweeping("index"), UNCHANGED <<names, varnames, cellvars, freevars>>,
           Extends(consts', consts), NEW x \in Kind \X Nat, code' = Append(code, x),
           Refers(Now', x), Reads(Now', x) = source[cursor + 1]
    PROVE  Coded'
<1> DEFINE P == Kind \X Nat
<1>1. /\ phase = "index" /\ co' = co /\ source' = source
  BY DEF Sweeping
<1>2. cursor \in Nat /\ code \in Seq(P) /\ Len(code) = cursor /\ DOMAIN code = 1 .. cursor
  BY <1>1, LenProperties DEF IInv, Shape, Progress
<1>3. Extends(code', code) /\ DOMAIN code' = 1 .. cursor + 1 /\ code'[cursor + 1] = x
  <2>1. x \in P
    OBVIOUS
  <2> HIDE DEF P
  <2> QED
    BY <1>2, <2>1, AppendGrows
<1>4. ASSUME NEW k \in 1 .. cursor + 1
      PROVE  Refers(Now', code'[k]) /\ Reads(Now', code'[k]) = source[k]
  <2>1. CASE k = cursor + 1
    BY <1>3, <2>1
  <2>2. CASE k # cursor + 1
    <3>1. k \in DOMAIN code
      BY <1>2, <2>2
    <3>2. code'[k] = code[k] /\ Refers(Now, code[k]) /\ Reads(Now, code[k]) = source[k]
      BY <1>1, <1>3, <3>1 DEF Coded, Extends
    <3> DEFINE kind == code[k][1]
               n == code[k][2]
               c == Now
               d == Now'
    <3>3. kind \in Kind /\ n \in Nat /\ code[k] = <<kind, n>>
      <4>1. code[k] \in P
        <5> HIDE DEF P
        <5> QED
          BY <1>2, <3>1, ElementOfSeq
      <4> QED
        BY <4>1
    <3>4. /\ Extends(d.consts, c.consts) /\ c.names = d.names /\ c.varnames = d.varnames
          /\ c.cellvars = d.cellvars /\ c.freevars = d.freevars /\ c.unified = d.unified
      BY <1>1 DEF Now, Unified
    <3>5. Refers(c, <<kind, n>>) /\ Reads(c, <<kind, n>>) = source[k]
      BY <3>2, <3>3
    <3> HIDE DEF kind, n, c, d
    <3>6. Refers(d, <<kind, n>>) /\ Reads(d, <<kind, n>>) = Reads(c, <<kind, n>>)
      BY <3>3, <3>4, <3>5, ReadsStays
    <3> QED
      BY <3>2, <3>3, <3>5, <3>6 DEF d
  <2> QED
    BY <2>1, <2>2
<1> QED
  BY <1>1, <1>3, <1>4 DEF Coded

LEMMA SweepCoded ==
    ASSUME MatchesMean, IInv, Coded, IndexConst \/ IndexVariable \/ KeepIndex
    PROVE  Coded'
<1>1. Sweeping("index") /\ phase = "index" /\ cursor < Len(instrs) /\ TablesOK /\ co' = co
  BY DEF IndexConst, IndexVariable, KeepIndex, Sweeping, IInv, Shape
<1>2. /\ instr \in Instr /\ source[cursor + 1] = Says(instr) /\ Within(instr)
  BY <1>1, AtCursor
<1>3. CASE IndexConst
  <2>1. PICK i : i = IndexOr(FindConst(arg.is), consts)
    OBVIOUS
  <2> DEFINE o == arg.is
             x == <<"CONST", i>>
  <2>2. /\ UNCHANGED <<names, varnames, cellvars, freevars>> /\ code' = Append(code, x)
        /\ instr.kind = "CONST" /\ arg.form = "value"
    BY <1>3, <2>1 DEF IndexConst, IsObject
  <2>3. /\ o \in Object /\ i \in Nat /\ Extends(consts', consts)
        /\ i + 1 \in DOMAIN consts' /\ consts'[i + 1] \in Object /\ Matches(consts'[i + 1], o)
    BY <1>3, <2>1, ConstIs
  <2>4. Meaning[consts'[i + 1]] = Meaning[o]
    BY <2>3 DEF MatchesMean
  <2>5. Says(instr) = <<"CONST", Meaning[o]>>
    BY <2>2 DEF Says, Meant, arg
  <2>6. Refers(Now', x) /\ Reads(Now', x) = <<"CONST", Meaning[consts'[i + 1]]>>
    BY <2>3 DEF Refers, Reads, Now
  <2>7. x \in Kind \X Nat
    BY <2>3 DEF Kind
  <2> HIDE DEF x
  <2> QED
    BY <1>1, <1>2, <2>2, <2>3, <2>4, <2>5, <2>6, <2>7, CodedGrows
<1>4. ASSUME IndexVariable \/ KeepIndex,
             NEW x \in Kind \X Nat, code' = Append(code, x), Refers(Now, x),
             Reads(Now, x) = source[cursor + 1]
      PROVE  Coded'
  <2>1. UNCHANGED <<consts, names, varnames, cellvars, freevars>>
    BY <1>4 DEF IndexVariable, KeepIndex, tables
  <2>2. Extends(consts', consts)
    BY <2>1 DEF Extends
  <2>3. Now' = Now
    BY <1>1, <2>1 DEF Now, Unified
  <2> QED
    BY <1>1, <1>4, <2>1, <2>2, <2>3, CodedGrows
<1>5. CASE IndexVariable
  <2> DEFINE i == VariableIndex(instr.kind, arg.is)
             x == <<instr.kind, i>>
  <2>1. /\ code' = Append(code, x) /\ instr.kind \in {"LOCAL", "FREE"} /\ arg.form = "value"
    BY <1>5 DEF IndexVariable, IsObject
  <2>2. i \in Nat /\ Refers(Now, x) /\ Reads(Now, x) = source[cursor + 1]
    BY <1>1, <2>1, VariableIs
  <2> HIDE DEF i
  <2>3. x \in Kind \X Nat
    BY <2>1, <2>2 DEF Kind
  <2> QED
    BY <1>4, <1>5, <2>1, <2>2, <2>3
<1>6. CASE KeepIndex
  <2> DEFINE n == arg.is
             x == <<instr.kind, n>>
             c == Now
  <2>1. code' = Append(code, x) /\ arg.form # "value"
    BY <1>6 DEF KeepIndex, IsObject
  <2>2. n \in Nat /\ instr.kind \in Kind /\ arg.form = "index"
    BY <1>2, <2>1 DEF Instr, arg
  <2>3. Reads(c, x) = source[cursor + 1]
    BY <1>2, <2>2 DEF Says, arg
  <2>4. Refers(c, x)
    <3>1. CASE instr.kind = "LOCAL"
      <4>1. Variables(c) /\ n + 1 \in DOMAIN c.varnames
        BY <1>1, <1>2, <2>2, <3>1 DEF Within, arg, Now, Variables, TablesOK
      <4> HIDE DEF c, n
      <4> QED
        BY <2>2, <3>1, <4>1, LocalReads
    <3>2. CASE instr.kind # "LOCAL"
      BY <1>2, <2>2, <3>2 DEF Within, arg
    <3> QED
      BY <3>1, <3>2
  <2>5. x \in Kind \X Nat
    BY <2>2
  <2> HIDE DEF x
  <2> QED
    BY <1>4, <1>6, <2>1, <2>3, <2>4, <2>5
<1> QED
  BY <1>3, <1>5, <1>6

\* The second sweep has been over every instruction: the code object is right.
LEMMA BuildsSource ==
    ASSUME IInv, Coded, Return
    PROVE  Denotes(built') = source
<1>1. /\ phase = "index" /\ cursor = Len(instrs)
      /\ built' = Assembled
  BY DEF Return
<1> DEFINE d == Assembled
           c == Now
<1>2. /\ c.consts = d.consts /\ c.names = d.names /\ c.varnames = d.varnames
      /\ c.cellvars = d.cellvars /\ c.freevars = d.freevars /\ c.unified = d.unified
      /\ d.code = code
  BY DEF Now, Assembled
<1>3. /\ source \in Seq(Items) /\ Len(source) \in Nat
      /\ DOMAIN code = 1 .. Len(source) /\ DOMAIN source = 1 .. Len(source)
  <2> DEFINE P == Kind \X Nat
  <2>1. code \in Seq(P) /\ source \in Seq(Items) /\ Len(code) = Len(source)
    BY <1>1 DEF IInv, Shape, Progress
  <2> HIDE DEF P
  <2> QED
    BY <2>1, LenProperties
<1>4. \A k \in DOMAIN code : Reads(c, code[k]) = source[k]
  BY <1>1 DEF Coded
<1> HIDE DEF c, d
<1>5. \A k \in DOMAIN code : Reads(d, code[k]) = source[k]
  BY <1>2, <1>4, ReadsSame
<1>6. Denotes(d) = [k \in 1 .. Len(source) |-> source[k]]
  BY <1>2, <1>3, <1>5 DEF Denotes
<1>7. [k \in 1 .. Len(source) |-> source[k]] = source
  <2> DEFINE s == [k \in 1 .. Len(source) |-> source[k]]
             n == Len(source)
  <2>1. \A k \in 1 .. n : s[k] = source[k] /\ source[k] \in Items
    BY <1>3, ElementOfSeq
  <2>2. s \in Seq(Items) /\ Len(s) = n
    <3>1. s \in [1 .. n -> Items]
      BY <2>1
    <3> HIDE DEF s, n
    <3>2. n \in Nat
      BY <1>3 DEF n
    <3>3. s \in Seq(Items)
      BY <3>1, <3>2, SeqDef
    <3> QED
      BY <3>1, <3>2, <3>3, LenProperties
  <2> HIDE DEF s
  <2> QED
    BY <1>3, <2>1, <2>2, SeqEqual
<1> QED
  BY <1>1, <1>6, <1>7 DEF d

RightSoFar == IInv /\ Coded /\ Built

LEMMA RightInit == Init => RightSoFar
<1> SUFFICES ASSUME Init PROVE RightSoFar
  OBVIOUS
<1>1. IInv
  BY InitInv
<1>2. Coded /\ Built
  BY DEF Init, Coded, Built
<1> QED
  BY <1>1, <1>2 DEF RightSoFar

LEMMA RightNext ==
    ASSUME MatchesMean, RightSoFar, [Next]_vars
    PROVE  RightSoFar'
<1>1. IInv /\ Coded /\ Built /\ IInv'
  BY NextInv DEF RightSoFar
<1>2. Coded'
  <2>1. CASE IndexConst \/ IndexVariable \/ KeepIndex
    BY <1>1, <2>1, SweepCoded
  <2>2. CASE InternDone
    <3>1. code' = <<>>
      BY <1>1, <2>2 DEF InternDone, IInv, Progress
    <3> QED
      BY <3>1 DEF Coded
  <2>3. CASE UNCHANGED vars \/ Stop
    <3>1. Now' = Now /\ UNCHANGED <<phase, code, source>>
      BY <2>3 DEF Stop, vars, tables, Now, Unified
    <3> QED
      BY <1>1, <3>1 DEF Coded
  <2>4. CASE phase' # "index"
    BY <2>4 DEF Coded
  <2>5. \/ IndexConst \/ IndexVariable \/ KeepIndex \/ InternDone \/ UNCHANGED vars \/ Stop
        \/ phase' # "index"
    <3>1. CASE DecodeArg \/ DecodeDone \/ ToCode \/ ToCodeFails \/ Return
      BY <3>1 DEF DecodeArg, DecodeDone, ToCode, ToCodeFails, Return
    <3>2. CASE Edit
      BY <3>2 DEF Edit, Touch, AddInstr, AddConst, AddVarname, AddName,
         AssignConsts, AssignNames, AssignVarnames, AssignCellvars, AssignFreevars, RemoveInstr
    <3>3. CASE InternLocal \/ InternFree \/ InternNothing
      BY <3>3 DEF InternLocal, InternFree, InternNothing, Sweeping
    <3> QED
      BY <3>1, <3>2, <3>3 DEF Next
  <2> QED
    BY <2>1, <2>2, <2>3, <2>4, <2>5
<1>3. Built'
  <2>1. CASE Edit
    <3>1. edited' = TRUE
      BY <2>1 DEF Edit, Touch, AddInstr, AddConst, AddVarname, AddName,
         AssignConsts, AssignNames, AssignVarnames, AssignCellvars, AssignFreevars, RemoveInstr
    <3> QED
      BY <3>1 DEF Built
  <2>2. CASE Return
    <3>1. Denotes(built') = source /\ source' = source
      BY <1>1, <2>2, BuildsSource DEF Return
    <3> QED
      BY <3>1 DEF Built
  <2>3. CASE UNCHANGED <<built, edited, source>>
    BY <1>1, <2>3 DEF Built
  <2>4. Edit \/ Return \/ UNCHANGED <<built, edited, source>>
    <3>1. CASE DecodeArg \/ DecodeDone \/ ToCode \/ InternDone \/ ToCodeFails
      BY <3>1 DEF DecodeArg, DecodeDone, ToCode, InternDone, ToCodeFails
    <3>2. CASE InternLocal \/ InternFree \/ InternNothing
      BY <3>2 DEF InternLocal, InternFree, InternNothing, Sweeping
    <3>3. CASE IndexConst \/ IndexVariable \/ KeepIndex
      BY <3>3 DEF IndexConst, IndexVariable, KeepIndex, Sweeping
    <3>4. CASE Stop \/ UNCHANGED vars
      BY <3>4 DEF Stop, vars
    <3> QED
      BY <3>1, <3>2, <3>3, <3>4 DEF Next
  <2> QED
    BY <2>1, <2>2, <2>3, <2>4
<1> QED
  BY <1>1, <1>2, <1>3 DEF RightSoFar

\* Each step of a Bytecode is an edit of what the user asked for, the building of
\* a code object that means just that, or neither: whatever is interned before,
\* by edits or by calls that fail (README.md:428-456).
THEOREM ImplementsEditingHolds ==
    ASSUME MatchesMean
    PROVE  Spec => ImplementsEditing
<1>1. Init => Promise!Init
  <2> SUFFICES ASSUME Init PROVE Promise!Init
    OBVIOUS
  <2>1. co \in CodeObjects /\ source = Denotes(co) /\ built = co /\ source \in Seq(Items)
    BY DenotesType DEF Init
  <2> QED
    BY <2>1 DEF Promise!Init
<1>2. ASSUME RightSoFar, RightSoFar', [Next]_vars PROVE [Promise!Next]_Promise!vars
  <2>1. source' \in Seq(Items)
    BY <1>2 DEF RightSoFar, IInv, Shape
  <2>2. CASE Return
    <3>1. Denotes(built') = source /\ source' = source
      BY <1>2, <2>2, BuildsSource DEF Return, RightSoFar
    <3> QED
      BY <3>1 DEF Promise!Next, Promise!Build
  <2>3. CASE UNCHANGED built
    BY <2>1, <2>3 DEF Promise!Next, Promise!Edit, Denotes
  <2>4. Return \/ UNCHANGED built
    <3>1. CASE DecodeArg \/ DecodeDone \/ ToCode \/ InternDone \/ ToCodeFails
      BY <3>1 DEF DecodeArg, DecodeDone, ToCode, InternDone, ToCodeFails
    <3>2. CASE Edit
      BY <3>2 DEF Edit, Touch, AddInstr, AddConst, AddVarname, AddName,
         AssignConsts, AssignNames, AssignVarnames, AssignCellvars, AssignFreevars, RemoveInstr
    <3>3. CASE InternLocal \/ InternFree \/ InternNothing
      BY <3>3 DEF InternLocal, InternFree, InternNothing, Sweeping
    <3>4. CASE IndexConst \/ IndexVariable \/ KeepIndex
      BY <3>4 DEF IndexConst, IndexVariable, KeepIndex, Sweeping
    <3>5. CASE Stop \/ UNCHANGED vars
      BY <3>5 DEF Stop, vars
    <3> QED
      BY <1>2, <3>1, <3>2, <3>3, <3>4, <3>5 DEF Next
  <2> QED
    BY <2>2, <2>3, <2>4
<1>3. RightSoFar /\ [Next]_vars => RightSoFar'
  BY RightNext
<1> QED
  BY <1>1, <1>2, <1>3, RightInit, PTL DEF Spec, ImplementsEditing, Promise!Spec

\* In between edits, the last code object means what the instructions name; for
\* the zeros of a float, that MatchesMean leaves out, it may not.
THEOREM BuiltAsMeantHolds ==
    ASSUME MatchesMean
    PROVE  Spec => []BuiltAsMeant
<1>1. RightSoFar => BuiltAsMeant
  BY DEF RightSoFar, Built, BuiltAsMeant
<1>2. RightSoFar /\ [Next]_vars => RightSoFar'
  BY RightNext
<1> QED
  BY <1>1, <1>2, RightInit, PTL DEF Spec

-----------------------------------------------------------------------------
(***************************************************************************)
(* Assembling again what nobody has touched.                               *)
(***************************************************************************)
\* What a compiler makes: no constant is taken for another one, no name stands
\* twice among the variables of a frame, and nlocals counts the arguments and
\* locals.  An interpreter does tell 0.0 from -0.0, and find_or_add() does not.
Ordinary ==
    \A c \in CodeObjects :
        /\ c = [consts |-> c.consts, names |-> c.names, varnames |-> c.varnames,
                cellvars |-> c.cellvars, freevars |-> c.freevars,
                nlocals |-> Len(c.varnames), unified |-> c.unified, code |-> c.code]
        /\ \A j, k \in DOMAIN c.consts : Matches(c.consts[j], c.consts[k]) => j = k
        /\ IsInjective(c.varnames) /\ IsInjective(Cells(c))
        /\ c.unified => IsInjective(Frame(c))

\* The first place of s that find_or_add() takes for o, or -1.
FirstOf(s, o, at) ==
    /\ at \in -1 .. Len(s) - 1
    /\ at >= 0 => at + 1 \in 1 .. Len(s) /\ Matches(s[at + 1], o)
    /\ \A k \in 1 .. Len(s) : Matches(s[k], o) => at >= 0 /\ at + 1 <= k

FirstPlaces == \A o : FirstOf(consts, o, FindConst(o))

LEMMA FirstIs == consts \in Seq(Object) => FirstPlaces
<1> SUFFICES ASSUME consts \in Seq(Object), NEW o PROVE FirstOf(consts, o, FindConst(o))
  BY DEF FirstPlaces
<1> DEFINE I == {i \in 1 .. Len(consts) : Matches(consts[i], o)}
<1>1. FindConst(o) = (IF I # {} THEN Min(I) ELSE 0) - 1
  BY DEF FindConst, SelectInSeq
<1>2. Len(consts) \in Nat
  BY LenProperties
<1>3. CASE I = {}
  BY <1>1, <1>2, <1>3 DEF FirstOf
<1>4. CASE I # {}
  <2> DEFINE m == Min(I)
  <2>1. I \subseteq Nat
    OBVIOUS
  <2> HIDE DEF I
  <2>2. m \in I /\ \A i \in I : m <= i
    BY <1>4, <2>1, MinOf
  <2>3. m \in 1 .. Len(consts) /\ Matches(consts[m], o)
    BY <2>2 DEF I
  <2>4. \A k \in 1 .. Len(consts) : Matches(consts[k], o) => m <= k
    BY <2>2 DEF I
  <2>5. FindConst(o) = m - 1
    BY <1>1, <1>4
  <2> HIDE DEF m
  <2>6. m - 1 \in -1 .. Len(consts) - 1 /\ m - 1 >= 0 /\ m - 1 + 1 = m
    BY <1>2, <2>3
  <2> QED
    BY <2>3, <2>4, <2>5, <2>6 DEF FirstOf
<1> QED
  BY <1>3, <1>4

\* Constants behind it do not change where the first one is.
LEMMA FirstStays ==
    ASSUME NEW s, NEW t, Extends(t, s), NEW o, NEW a, NEW b, FirstOf(s, o, a), FirstOf(t, o, b),
           a >= 0, DOMAIN s = 1 .. Len(s), DOMAIN t = 1 .. Len(t), Len(s) \in Nat, Len(t) \in Nat
    PROVE  b = a
<1>1. a \in Int /\ a + 1 \in DOMAIN s /\ Matches(s[a + 1], o)
  BY DEF FirstOf
<1>2. a + 1 \in 1 .. Len(t) /\ Matches(t[a + 1], o)
  BY <1>1 DEF Extends
<1>3. b \in Int /\ b >= 0 /\ b + 1 <= a + 1 /\ b + 1 \in 1 .. Len(t) /\ Matches(t[b + 1], o)
  BY <1>2 DEF FirstOf
<1>4. b + 1 \in 1 .. Len(s)
  BY <1>1, <1>3
<1>5. Matches(s[b + 1], o)
  BY <1>3, <1>4 DEF Extends
<1>6. a + 1 <= b + 1
  BY <1>4, <1>5 DEF FirstOf
<1> QED
  BY <1>1, <1>3, <1>6

\* What the second sweep makes of i.
IndexOf(i) ==
    <<i.kind, IF i.arg.form = "index" THEN i.arg.is
              ELSE IF i.kind = "CONST" THEN FindConst(i.arg.is)
              ELSE VariableIndex(i.kind, i.arg.is)>>
Found(i) == i.arg.form = "value" /\ i.kind = "CONST" => FindConst(i.arg.is) >= 0

Indexed == phase = "index" => \A k \in 1 .. cursor : code[k] = IndexOf(instrs[k]) /\ Found(instrs[k])

\* What was built last is what the sweeps would make now, and they would add
\* nothing.
Current ==
    /\ built = [consts |-> consts, names |-> names, varnames |-> varnames, cellvars |-> cellvars,
                freevars |-> freevars, nlocals |-> Len(varnames), unified |-> Unified,
                code |-> built.code]
    /\ built.code \in Seq(Kind \X Nat)
    /\ phase = "decode" => built = co
    /\ phase # "decode" => Len(built.code) = Len(instrs)
    /\ \A k \in DOMAIN instrs :
          built.code[k] = IndexOf(instrs[k]) /\ Found(instrs[k]) /\ Bound(instrs[k])
Again == ~ edited => Current

\* A variable's index does not depend on the constants.
LEMMA IndexStays ==
    ASSUME UNCHANGED <<co, varnames, cellvars, freevars>>, NEW i,
           i.arg.form # "index" /\ i.kind = "CONST" => FindConst(i.arg.is)' = FindConst(i.arg.is)
    PROVE  IndexOf(i)' = IndexOf(i)
<1>1. VariableIndex(i.kind, i.arg.is)' = VariableIndex(i.kind, i.arg.is)
  BY DEF VariableIndex, LocalsPlusFind, SlotsBefore, OwnCells, Unified
<1> QED
  BY <1>1 DEF IndexOf

LEMMA ConstStays ==
    ASSUME UNCHANGED consts, NEW o
    PROVE  FindConst(o)' = FindConst(o)
BY DEF FindConst, SelectInSeq

LEMMA CellsAre ==
    ASSUME NEW a \in Seq(Name), NEW b \in Seq(Name), NEW x, Contains(a \o b, x)
    PROVE  x \in ToSet(a) \cup ToSet(b)
<1>1. /\ Len(a) \in Nat /\ Len(b) \in Nat /\ DOMAIN a = 1 .. Len(a) /\ DOMAIN b = 1 .. Len(b)
      /\ Len(a \o b) = Len(a) + Len(b)
      /\ \A k \in 1 .. Len(a) + Len(b) : (a \o b)[k] = IF k <= Len(a) THEN a[k] ELSE b[k - Len(a)]
  BY LenProperties, ConcatProperties
<1>2. PICK k \in 1 .. Len(a) + Len(b) : (a \o b)[k] = x
  BY <1>1 DEF Contains
<1>3. CASE k <= Len(a)
  BY <1>1, <1>2, <1>3 DEF ToSet
<1>4. CASE ~ (k <= Len(a))
  <2>1. k - Len(a) \in 1 .. Len(b) /\ b[k - Len(a)] = x
    BY <1>1, <1>2, <1>4
  <2> QED
    BY <1>1, <2>1 DEF ToSet
<1> QED
  BY <1>3, <1>4

LEMMA NamesSomewhere ==
    ASSUME TablesOK, Unified = TRUE, NEW kind, NEW n, NEW x \in NamesAt(kind, n)
    PROVE  x \in Somewhere
<1>1. /\ DOMAIN varnames = 1 .. Len(varnames) /\ DOMAIN cellvars = 1 .. Len(cellvars)
      /\ DOMAIN freevars = 1 .. Len(freevars)
  BY LenProperties DEF TablesOK
<1>2. OwnCells(Len(cellvars)) \subseteq 1 .. Len(cellvars)
  BY DEF OwnCells
<1> QED
  BY <1>1, <1>2 DEF NamesAt, Somewhere, ToSet

\* Where a cell or free variable is, if variables are kept apart.
CellAt(x) == IF FindOnly(cellvars, x) >= 0 THEN FindOnly(cellvars, x)
             ELSE IF FindOnly(freevars, x) >= 0 THEN Len(cellvars) + FindOnly(freevars, x)
             ELSE -1
LEMMA CellIs ==
    ASSUME TablesOK, NEW s, s = cellvars \o freevars, NEW k \in DOMAIN s, NEW x, x = s[k]
    PROVE  /\ x \in ToSet(cellvars) \cup ToSet(freevars)
           /\ CellAt(x) \in Int /\ CellAt(x) + 1 \in DOMAIN s /\ s[CellAt(x) + 1] = x
<1>1. PICK a, b : a = Len(cellvars) /\ b = Len(freevars) /\ a \in Nat /\ b \in Nat
  BY LenProperties DEF TablesOK
<1>2. /\ DOMAIN s = 1 .. a + b /\ Len(s) = a + b
      /\ \A j \in 1 .. a + b : s[j] = IF j <= a THEN cellvars[j] ELSE freevars[j - a]
  <2>1. s \in Seq(Name) /\ Len(s) = a + b
    BY <1>1, ConcatProperties DEF TablesOK
  <2> QED
    BY <1>1, <2>1, ConcatProperties, LenProperties DEF TablesOK
<1>3. x \in ToSet(cellvars) \cup ToSet(freevars)
  <2>1. Contains(cellvars \o freevars, x)
    BY <1>2 DEF Contains
  <2> QED
    BY <2>1, CellsAre DEF TablesOK
<1>4. PICK f, g : f = FindOnly(cellvars, x) /\ g = FindOnly(freevars, x)
  OBVIOUS
<1>5. /\ f \in Int /\ g \in Int /\ (f >= 0 \/ g >= 0)
      /\ f >= 0 => f + 1 \in 1 .. a /\ cellvars[f + 1] = x
      /\ g >= 0 => g + 1 \in 1 .. b /\ freevars[g + 1] = x
  <2>1. f \in Int /\ g \in Int /\ (f >= 0 \/ g >= 0)
    BY <1>3, <1>4, InTable DEF TablesOK
  <2>2. f >= 0 => f + 1 \in 1 .. a /\ cellvars[f + 1] = x
    BY <1>1, <1>4, FindIs DEF TablesOK
  <2>3. g >= 0 => g + 1 \in 1 .. b /\ freevars[g + 1] = x
    BY <1>1, <1>4, FindIs DEF TablesOK
  <2> QED
    BY <2>1, <2>2, <2>3
<1>6. CASE f >= 0
  <2>1. CellAt(x) = f
    BY <1>4, <1>6 DEF CellAt
  <2>2. f + 1 \in 1 .. a + b /\ f + 1 <= a
    BY <1>1, <1>5, <1>6
  <2> QED
    BY <1>2, <1>3, <1>5, <1>6, <2>1, <2>2
<1>7. CASE ~ (f >= 0)
  <2>1. CellAt(x) = a + g /\ g >= 0
    BY <1>1, <1>4, <1>5, <1>7 DEF CellAt
  <2>2. PICK j : j = a + g + 1
    OBVIOUS
  <2>3. j \in 1 .. a + b /\ ~ (j <= a) /\ j - a = g + 1 /\ a + g \in Int
    BY <1>1, <1>5, <2>1, <2>2
  <2>4. s[j] = x
    BY <1>2, <1>5, <2>1, <2>3
  <2> QED
    BY <1>2, <1>3, <2>1, <2>2, <2>3, <2>4
<1> QED
  BY <1>6, <1>7

\* The objects that from_code() makes of an index get that index back.
LEMMA DecodedIndex ==
    ASSUME Ordinary, Shape, Progress, phase = "decode", NEW kind \in Kind, NEW n \in Nat,
           Refers(co, <<kind, n>>)
    PROVE  LET i == [kind |-> kind, arg |-> ArgOf(kind, n)]
           IN  IndexOf(i) = <<kind, n>> /\ Found(i) /\ Bound(i)
<1> DEFINE i == [kind |-> kind, arg |-> ArgOf(kind, n)]
           c == co
<1>1. /\ TablesOK /\ Same(c) /\ c.consts = consts /\ c.names = names
      /\ c.unified = Unified /\ Unified \in BOOLEAN /\ consts \in Seq(Object)
  BY CodeAssumption DEF Shape, Progress, Unified, TablesOK
<1>2. /\ \A j, k \in DOMAIN consts : Matches(consts[j], consts[k]) => j = k
      /\ IsInjective(varnames) /\ IsInjective(Cells(c))
      /\ Unified => IsInjective(Frame(c))
  BY <1>1 DEF Ordinary, Shape, Same
<1>3. CASE kind = "CONST"
  <2>1. DOMAIN consts = 1 .. Len(consts) /\ Len(consts) \in Nat
    BY <1>1, LenProperties
  <2>2. n + 1 \in 1 .. Len(consts)
    BY <1>1, <1>3, <2>1 DEF Refers
  <2>3. PICK o, at : o = consts[n + 1] /\ at = FindConst(o)
    OBVIOUS
  <2>4. FirstOf(consts, o, at)
    BY <1>1, <2>3, FirstIs DEF FirstPlaces
  <2>5. Matches(consts[n + 1], o)
    BY <2>3 DEF Matches
  <2>6. at >= 0 /\ at \in Int /\ at + 1 \in 1 .. Len(consts) /\ Matches(consts[at + 1], o)
    BY <2>2, <2>4, <2>5 DEF FirstOf
  <2>7. at + 1 = n + 1
    BY <1>2, <2>1, <2>2, <2>3, <2>6
  <2>8. at = n
    BY <2>6, <2>7
  <2>9. ArgOf(kind, n) = Value(o) /\ Value(o).form = "value" /\ Value(o).is = o
    BY <1>3, <2>1, <2>2, <2>3 DEF ArgOf, Value
  <2> QED
    BY <1>3, <2>3, <2>6, <2>8, <2>9 DEF IndexOf, Found, Bound
<1>4. CASE kind \in NameKind
  <2>1. ArgOf(kind, n) = Index(n) /\ Index(n).form = "index" /\ Index(n).is = n
    BY <1>4 DEF ArgOf, Index, NameKind
  <2> QED
    BY <2>1 DEF IndexOf, Found, Bound
<1>5. CASE kind \in {"LOCAL", "FREE"}
  <2>1. \E x : /\ NamesAt(kind, n) = {x} /\ VariableIndex(kind, x) = n
               /\ kind = "FREE" => x \in ToSet(cellvars) \cup ToSet(freevars)
               /\ kind = "LOCAL" => x \in IF Unified THEN Somewhere ELSE ToSet(varnames)
    <3>1. CASE Unified = TRUE
      <4>1. n + 1 \in DOMAIN Frame(c)
        BY <1>1, <1>5, <3>1 DEF Refers
      <4>2. PICK x : x = Frame(c)[n + 1] /\ NamesAt(kind, n) = {x}
        <5>1. NamesAt(kind, n) = {Frame(c)[n + 1]}
          <6> HIDE DEF c
          <6> QED BY <1>1, <1>5, <3>1, <4>1, NamesAtUnified
        <5> QED BY <5>1
      <4>3. x \in Somewhere
        <5>1. x \in NamesAt(kind, n)
          BY <4>2
        <5> QED
          BY <1>1, <3>1, <5>1, NamesSomewhere
      <4>4. PICK at : at = LocalsPlusFind(x)
        OBVIOUS
      <4>5. at \in Int /\ at >= 0 /\ at + 1 \in DOMAIN Frame(c) /\ Frame(c)[at + 1] = x
        <5> HIDE DEF c
        <5> QED BY <1>1, <4>3, <4>4, PlaceIs
      <4>6. at + 1 = n + 1
        BY <1>2, <3>1, <4>1, <4>2, <4>5 DEF IsInjective
      <4>7. VariableIndex(kind, x) = n
        BY <3>1, <4>4, <4>5, <4>6 DEF VariableIndex
      <4>8. ASSUME kind = "FREE" PROVE x \in ToSet(cellvars) \cup ToSet(freevars)
        <5>1. Contains(Cells(c), x)
          BY <1>1, <3>1, <4>2, <4>8 DEF Refers
        <5>2. Cells(c) = cellvars \o freevars
          BY <1>1 DEF Cells, Same
        <5> QED
          BY <1>1, <5>1, <5>2, CellsAre DEF TablesOK
      <4> QED
        BY <3>1, <4>2, <4>3, <4>7, <4>8
    <3>2. CASE Unified = FALSE /\ kind = "LOCAL"
      <4>1. n + 1 \in DOMAIN varnames
        BY <1>1, <3>2 DEF Refers, Same
      <4>2. PICK x : x = varnames[n + 1] /\ NamesAt(kind, n) = {x}
        <5>1. NamesAt("LOCAL", n) = {varnames[n + 1]}
          <6> HIDE DEF c
          <6> QED BY <1>1, <3>2, <4>1, NamesAtApart
        <5> QED BY <3>2, <5>1
      <4>3. x \in ToSet(varnames)
        BY <1>1, <4>1, <4>2, LenProperties DEF ToSet, TablesOK
      <4>4. PICK at : at = FindOnly(varnames, x)
        OBVIOUS
      <4>5. at \in Int /\ at >= 0 /\ at + 1 \in DOMAIN varnames /\ varnames[at + 1] = x
        <5>1. at \in Int /\ at >= 0
          BY <1>1, <4>3, <4>4, InTable DEF TablesOK
        <5>2. at >= 0 => at + 1 \in 1 .. Len(varnames) /\ varnames[at + 1] = x
          BY <1>1, <4>4, FindIs DEF TablesOK
        <5> QED
          BY <1>1, <5>1, <5>2, LenProperties DEF TablesOK
      <4>6. at + 1 = n + 1
        BY <1>2, <4>1, <4>2, <4>5 DEF IsInjective
      <4>7. VariableIndex(kind, x) = n
        BY <3>2, <4>4, <4>5, <4>6 DEF VariableIndex
      <4> QED
        BY <3>2, <4>2, <4>3, <4>7
    <3>3. CASE Unified = FALSE /\ kind = "FREE"
      <4>1. n + 1 \in DOMAIN Cells(c)
        BY <1>1, <3>3 DEF Refers
      <4>2. PICK x : x = Cells(c)[n + 1] /\ NamesAt(kind, n) = {x}
        <5>1. NamesAt("FREE", n) = {Cells(c)[n + 1]}
          <6> HIDE DEF c
          <6> QED BY <1>1, <3>3, <4>1, NamesAtApart
        <5> QED BY <3>3, <5>1
      <4>3. Cells(c) = cellvars \o freevars
        BY <1>1 DEF Cells, Same
      <4>4. /\ x \in ToSet(cellvars) \cup ToSet(freevars)
            /\ CellAt(x) \in Int /\ CellAt(x) + 1 \in DOMAIN Cells(c) /\ Cells(c)[CellAt(x) + 1] = x
        BY <1>1, <4>1, <4>2, <4>3, CellIs
      <4>5. PICK at : at = CellAt(x)
        OBVIOUS
      <4>6. at + 1 = n + 1 /\ at \in Int
        BY <1>2, <4>1, <4>2, <4>4, <4>5 DEF IsInjective
      <4>7. VariableIndex(kind, x) = n
        <5>1. VariableIndex(kind, x) = CellAt(x)
          BY <3>3, <4>4 DEF VariableIndex, CellAt
        <5> QED
          BY <4>5, <4>6, <5>1
      <4> QED
        BY <3>3, <4>2, <4>4, <4>7
    <3> QED
      BY <1>1, <1>5, <3>1, <3>2, <3>3
  <2>2. PICK x : /\ NamesAt(kind, n) = {x} /\ VariableIndex(kind, x) = n
                 /\ kind = "FREE" => x \in ToSet(cellvars) \cup ToSet(freevars)
                 /\ kind = "LOCAL" => x \in IF Unified THEN Somewhere ELSE ToSet(varnames)
    BY <2>1
  <2>3. (CHOOSE y \in NamesAt(kind, n) : TRUE) = x
    BY <2>2
  <2>4. ArgOf(kind, n) = Value(x) /\ Value(x).form = "value" /\ Value(x).is = x
    BY <1>5, <2>2, <2>3 DEF ArgOf, NameKind, Value
  <2> QED
    BY <1>5, <2>2, <2>4 DEF IndexOf, Found, Bound
<1> QED
  BY <1>3, <1>4, <1>5 DEF Kind

\* Nothing that Current is about changes.
LEMMA AgainStays ==
    ASSUME Again, UNCHANGED <<co, tables, instrs, built, edited>>,
           phase' = "decode" => phase = "decode",
           phase = "decode" /\ phase' # "decode" => Len(instrs) = Len(co.code)
    PROVE  Again'
<1> SUFFICES ASSUME ~ edited PROVE Current'
  BY DEF Again
<1>1. /\ co' = co /\ consts' = consts /\ names' = names /\ varnames' = varnames
      /\ cellvars' = cellvars /\ freevars' = freevars /\ instrs' = instrs /\ built' = built
      /\ Unified' = Unified
  BY DEF tables, Unified
<1>2. Current
  BY DEF Again
<1>3. ASSUME NEW i, Found(i), Bound(i) PROVE IndexOf(i)' = IndexOf(i) /\ Found(i)' /\ Bound(i)'
  <2>1. FindConst(i.arg.is)' = FindConst(i.arg.is)
    BY <1>1, ConstStays
  <2>2. IndexOf(i)' = IndexOf(i)
    BY <1>1, <2>1, IndexStays
  <2>3. Found(i)'
    BY <1>3, <2>1 DEF Found
  <2>4. Bound(i)'
    BY <1>1, <1>3 DEF Bound, Somewhere
  <2> QED
    BY <2>2, <2>3, <2>4
<1>4. \A k \in DOMAIN instrs' :
         built'.code[k] = IndexOf(instrs[k])' /\ Found(instrs[k])' /\ Bound(instrs[k])'
  <2> SUFFICES ASSUME NEW k \in DOMAIN instrs, NEW i, i = instrs[k]
               PROVE  built.code[k] = IndexOf(i)' /\ Found(i)' /\ Bound(i)'
    BY <1>1
  <2>1. built.code[k] = IndexOf(i) /\ Found(i) /\ Bound(i)
    BY <1>2 DEF Current
  <2> QED
    BY <1>3, <2>1
<1>5. /\ built'.code \in Seq(Kind \X Nat)
      /\ phase' = "decode" => built' = co'
      /\ phase' # "decode" => Len(built'.code) = Len(instrs')
  BY <1>1, <1>2 DEF Current
<1>6. built' = [consts |-> consts', names |-> names', varnames |-> varnames', cellvars |-> cellvars',
                freevars |-> freevars', nlocals |-> Len(varnames'), unified |-> Unified',
                code |-> built'.code]
  BY <1>1, <1>2 DEF Current
<1> QED
  BY <1>4, <1>5, <1>6 DEF Current

LEMMA AgainDecodes ==
    ASSUME Ordinary, IInv, Again, DecodeArg
    PROVE  Again'
<1> SUFFICES ASSUME ~ edited PROVE Current'
  BY DEF Again, DecodeArg
<1>1. /\ phase = "decode" /\ cursor < Len(co.code)
      /\ UNCHANGED <<co, tables, nlocals, phase, code, built, source, edited, budget>>
      /\ instrs' = Append(instrs, [kind |-> co.code[cursor + 1][1],
                                  arg |-> ArgOf(co.code[cursor + 1][1], co.code[cursor + 1][2])])
  BY DEF DecodeArg
<1>2. /\ co' = co /\ consts' = consts /\ names' = names /\ varnames' = varnames
      /\ cellvars' = cellvars /\ freevars' = freevars /\ built' = built /\ phase' = phase
      /\ Unified' = Unified
  BY <1>1 DEF tables, Unified
<1>3. PICK n : n = cursor + 1
  OBVIOUS
<1> DEFINE kind == co.code[n][1]
           at == co.code[n][2]
           i == [kind |-> kind, arg |-> ArgOf(kind, at)]
<1>4. /\ cursor \in Nat /\ Len(instrs) = cursor /\ instrs \in Seq(Instr) /\ n \in 1 .. Len(co.code)
      /\ Len(co.code) \in Nat
  BY <1>1, <1>3, CodeType DEF IInv, Shape, Progress
<1>5. kind \in Kind /\ at \in Nat /\ co.code[n] = <<kind, at>> /\ Refers(co, <<kind, at>>)
  BY <1>4, CodeType DEF IInv, Shape
<1>6. i \in Instr /\ IndexOf(i) = co.code[n] /\ Found(i) /\ Bound(i)
  <2> HIDE DEF kind, at
  <2> QED
    BY <1>1, <1>5, DecodedIs, DecodedIndex DEF IInv
<1>7. instrs' = Append(instrs, i)
  BY <1>1, <1>3
<1> HIDE DEF i, kind, at
<1>8. DOMAIN instrs' = 1 .. n /\ Extends(instrs', instrs) /\ instrs'[n] = i
      /\ DOMAIN instrs = 1 .. n - 1
  BY <1>3, <1>4, <1>6, <1>7, AppendGrows, LenProperties
<1>9. Current /\ built = co
  BY <1>1 DEF Again, Current
<1>10. ASSUME NEW j, Found(j), Bound(j)
       PROVE  IndexOf(j)' = IndexOf(j) /\ Found(j)' /\ Bound(j)'
  <2>1. FindConst(j.arg.is)' = FindConst(j.arg.is)
    BY <1>2, ConstStays
  <2>2. IndexOf(j)' = IndexOf(j)
    BY <1>2, <2>1, IndexStays
  <2>3. Found(j)'
    BY <1>10, <2>1 DEF Found
  <2>4. Bound(j)'
    BY <1>2, <1>10 DEF Bound, Somewhere
  <2> QED
    BY <2>2, <2>3, <2>4
<1>11. \A k \in DOMAIN instrs' :
         built'.code[k] = IndexOf(instrs[k])' /\ Found(instrs[k])' /\ Bound(instrs[k])'
  <2> SUFFICES ASSUME NEW k \in 1 .. n, NEW j, j = instrs'[k]
               PROVE  built.code[k] = IndexOf(j)' /\ Found(j)' /\ Bound(j)'
    BY <1>2, <1>8
  <2>1. built.code[k] = IndexOf(j) /\ Found(j) /\ Bound(j)
    <3>1. CASE k = n
      BY <1>6, <1>8, <1>9, <3>1
    <3>2. CASE k # n
      <4>1. k \in DOMAIN instrs
        BY <1>3, <1>4, <1>8, <3>2
      <4>2. j = instrs[k]
        BY <1>8, <4>1 DEF Extends
      <4> QED
        BY <1>9, <4>1, <4>2 DEF Current
    <3> QED
      BY <3>1, <3>2
  <2> QED
    BY <1>10, <2>1
<1>12. /\ built'.code \in Seq(Kind \X Nat)
       /\ phase' = "decode" => built' = co'
       /\ phase' # "decode" => Len(built'.code) = Len(instrs')
  BY <1>1, <1>2, <1>9 DEF Current
<1>13. built' = [consts |-> consts', names |-> names', varnames |-> varnames', cellvars |-> cellvars',
                 freevars |-> freevars', nlocals |-> Len(varnames'), unified |-> Unified',
                 code |-> built'.code]
  BY <1>2, <1>9 DEF Current
<1> QED
  BY <1>11, <1>12, <1>13 DEF Current

\* What the sweeps would find does not change as long as they add nothing.
LEMMA KnownAlready ==
    ASSUME IInv, Again, ~ edited, InternLocal \/ InternFree \/ IndexConst
    PROVE  UNCHANGED tables
<1>1. phase \in {"intern", "index"} /\ cursor < Len(instrs) /\ IsObject
  BY DEF InternLocal, InternFree, IndexConst, Sweeping
<1>2. Found(instr) /\ Bound(instr) /\ arg.form = "value" /\ TablesOK
  BY <1>1, AtCursor DEF Again, Current, IsObject, IInv, Shape
<1>3. CASE InternLocal
  <2>1. instr.kind = "LOCAL" /\ arg.is \in IF Unified THEN Somewhere ELSE ToSet(varnames)
    BY <1>2, <1>3 DEF InternLocal, Bound, arg
  <2>2. KnownLocal(arg.is)
    <3>1. CASE Unified
      <4> DEFINE c == [varnames |-> varnames, cellvars |-> cellvars, freevars |-> freevars]
      <4>1. Same(c)
        BY DEF Same
      <4> HIDE DEF c
      <4>2. LocalsPlusFind(arg.is) >= 0
        BY <1>2, <2>1, <3>1, <4>1, PlaceIs
      <4> QED
        BY <3>1, <4>2 DEF KnownLocal
    <3>2. CASE ~ Unified
      BY <1>2, <2>1, <3>2, InTable DEF KnownLocal, TablesOK
    <3> QED
      BY <3>1, <3>2
  <2> QED
    BY <1>3, <2>2 DEF InternLocal, tables
<1>4. CASE InternFree
  <2>1. arg.is \in ToSet(cellvars) \cup ToSet(freevars)
    BY <1>2, <1>4 DEF InternFree, Bound, arg
  <2>2. KnownFree(arg.is)
    BY <1>2, <2>1, InTable DEF KnownFree, TablesOK
  <2> QED
    BY <1>4, <2>2 DEF InternFree, tables
<1>5. CASE IndexConst
  <2>1. PICK at : at = FindConst(arg.is)
    OBVIOUS
  <2>2. at \in Int /\ at >= 0
    BY <1>2, <1>5, <2>1, FindConstIs DEF IndexConst, Found, arg, TablesOK
  <2>3. OrAppend(consts, at, arg.is) = consts
    BY <2>2 DEF OrAppend
  <2> QED
    BY <1>5, <2>1, <2>3 DEF IndexConst, tables
<1> QED
  BY <1>3, <1>4, <1>5

\* The second sweep appends what IndexOf says.
LEMMA IndexedGrows ==
    ASSUME IInv, Indexed, Sweeping("index"), UNCHANGED <<varnames, cellvars, freevars>>,
           consts' \in Seq(Object), Extends(consts', consts),
           NEW x \in Kind \X Nat, code' = Append(code, x),
           \A i : i = instr => x = IndexOf(i)' /\ Found(i)'
    PROVE  Indexed'
<1> DEFINE P == Kind \X Nat
<1>1. /\ phase = "index" /\ co' = co /\ instrs' = instrs /\ cursor < Len(instrs)
      /\ cursor' = cursor + 1
  BY DEF Sweeping
<1>2. cursor \in Nat /\ code \in Seq(P) /\ Len(code) = cursor /\ DOMAIN code = 1 .. cursor
  BY <1>1, LenProperties DEF IInv, Shape, Progress
<1>3. Extends(code', code) /\ code'[cursor + 1] = x
  <2>1. x \in P
    OBVIOUS
  <2> HIDE DEF P
  <2> QED
    BY <1>2, <2>1, AppendGrows
<1>4. ASSUME NEW o, FindConst(o) >= 0 PROVE FindConst(o)' = FindConst(o)
  <2>1. PICK s, t, a, b : s = consts /\ t = consts' /\ a = FindConst(o) /\ b = FindConst(o)'
    OBVIOUS
  <2>2. (consts \in Seq(Object) => FirstPlaces)'
    BY FirstIs, PTL
  <2>3. FirstOf(t, o, b)
    BY <2>1, <2>2 DEF FirstPlaces
  <2>4. FirstOf(s, o, a) /\ a >= 0
    BY <1>4, <2>1, FirstIs DEF FirstPlaces, IInv, Shape, TablesOK
  <2>5. /\ DOMAIN s = 1 .. Len(s) /\ DOMAIN t = 1 .. Len(t) /\ Len(s) \in Nat /\ Len(t) \in Nat
        /\ Extends(t, s)
    BY <2>1, LenProperties DEF IInv, Shape, TablesOK
  <2> QED
    BY <2>1, <2>3, <2>4, <2>5, FirstStays
<1>5. ASSUME NEW k \in 1 .. cursor + 1, NEW i, i = instrs[k]
      PROVE  code'[k] = IndexOf(i)' /\ Found(i)'
  <2>1. CASE k = cursor + 1
    BY <1>3, <1>5, <2>1 DEF instr
  <2>2. CASE k # cursor + 1
    <3>1. k \in 1 .. cursor
      BY <1>2, <2>2
    <3>2. code[k] = IndexOf(i) /\ Found(i) /\ code'[k] = code[k]
      BY <1>1, <1>2, <1>3, <1>5, <3>1 DEF Indexed, Extends
    <3>3. i.arg.form = "value" \/ i.arg.form = "index"
      <4>1. i \in Instr
        BY <1>1, <1>2, <1>5, <3>1, LenProperties, ElementOfSeq DEF IInv, Shape
      <4> QED
        BY <4>1 DEF Instr
    <3>4. i.arg.form = "value" /\ i.kind = "CONST" => FindConst(i.arg.is)' = FindConst(i.arg.is)
      BY <1>4, <3>2 DEF Found
    <3>5. IndexOf(i)' = IndexOf(i)
      BY <1>1, <3>3, <3>4, IndexStays
    <3> QED
      BY <3>2, <3>4, <3>5 DEF Found
  <2> QED
    BY <2>1, <2>2
<1> QED
  BY <1>1, <1>5 DEF Indexed

LEMMA SweepIndexed ==
    ASSUME IInv, Indexed, IndexConst \/ IndexVariable \/ KeepIndex
    PROVE  Indexed'
<1>1. /\ Sweeping("index") /\ UNCHANGED <<varnames, cellvars, freevars>> /\ TablesOK /\ co' = co
      /\ phase = "index" /\ cursor < Len(instrs)
  BY DEF IndexConst, IndexVariable, KeepIndex, Sweeping, IInv, Shape, tables
<1>2. instr \in Instr /\ instr.kind \in Kind /\ (arg.form = "index" => arg.is \in Nat)
      /\ (arg.form # "value" => arg.form = "index")
  BY <1>1, AtCursor DEF Instr, arg
<1>3. CASE IndexConst
  <2>1. PICK o, i : o = arg.is /\ i = IndexOr(FindConst(o), consts)
    OBVIOUS
  <2>2. code' = Append(code, <<"CONST", i>>) /\ instr.kind = "CONST" /\ arg.form = "value"
    BY <1>3, <2>1 DEF IndexConst, IsObject
  <2>3. /\ o \in Object /\ i \in Nat /\ consts' \in Seq(Object) /\ Extends(consts', consts)
        /\ i + 1 \in DOMAIN consts' /\ Matches(consts'[i + 1], o)
    BY <1>3, <2>1, ConstIs
  <2>4. FindConst(o)' = i
    <3>1. PICK s, t, a, b : s = consts /\ t = consts' /\ a = FindConst(o) /\ b = FindConst(o)'
      OBVIOUS
    <3>2. (consts \in Seq(Object) => FirstPlaces)'
      BY FirstIs, PTL
    <3>3. FirstOf(t, o, b)
      BY <2>3, <3>1, <3>2 DEF FirstPlaces
    <3>4. FirstOf(s, o, a)
      BY <1>1, <3>1, FirstIs DEF FirstPlaces, TablesOK
    <3>5. /\ DOMAIN s = 1 .. Len(s) /\ DOMAIN t = 1 .. Len(t) /\ Len(s) \in Nat /\ Len(t) \in Nat
          /\ Extends(t, s)
      BY <1>1, <2>3, <3>1, LenProperties DEF TablesOK
    <3>6. i = (IF a < 0 THEN Len(s) ELSE a) /\ t = (IF a < 0 THEN Append(s, o) ELSE s)
      BY <1>3, <2>1, <3>1 DEF IndexConst, IndexOr, OrAppend
    <3>7. CASE a >= 0
      <4>1. b = a
        BY <3>3, <3>4, <3>5, <3>7, FirstStays
      <4>2. a \in Int
        BY <3>4 DEF FirstOf
      <4> QED
        BY <3>1, <3>6, <3>7, <4>1, <4>2
    <3>8. CASE ~ (a >= 0)
      <4>1. a \in Int /\ a < 0 /\ \A k \in 1 .. Len(s) : ~ Matches(s[k], o)
        BY <3>4, <3>5, <3>8 DEF FirstOf
      <4>2. Len(t) = Len(s) + 1 /\ i = Len(s)
        BY <1>1, <2>3, <3>1, <3>6, <4>1, AppendGrows DEF TablesOK
      <4>3. b \in Int /\ b >= 0 /\ b + 1 <= i + 1 /\ b + 1 \in 1 .. Len(t) /\ Matches(t[b + 1], o)
        BY <2>3, <3>1, <3>3, <3>5 DEF FirstOf
      <4>4. ~ (b + 1 \in 1 .. Len(s))
        <5>1. SUFFICES ASSUME b + 1 \in 1 .. Len(s) PROVE FALSE
          OBVIOUS
        <5>2. t[b + 1] = s[b + 1]
          BY <3>5, <5>1 DEF Extends
        <5> QED
          BY <4>1, <4>3, <5>1, <5>2
      <4>5. b = i
        <5>1. PICK n \in Nat : n = Len(s)
          BY <3>5
        <5>2. b \in Int /\ b >= 0 /\ b <= n /\ ~ (b + 1 \in 1 .. n) /\ i = n
          BY <4>2, <4>3, <4>4, <5>1
        <5> QED
          BY <5>2
      <4> QED
        BY <3>1, <4>5
    <3> QED
      BY <3>7, <3>8
  <2>5. <<"CONST", i>> \in Kind \X Nat
    BY <2>3 DEF Kind
  <2>6. ASSUME NEW j, j = instr PROVE <<"CONST", i>> = IndexOf(j)' /\ Found(j)'
    <3>1. j.kind = "CONST" /\ j.arg.form = "value" /\ j.arg.is = o
      BY <2>1, <2>2, <2>6 DEF arg
    <3> QED
      BY <2>3, <2>4, <3>1 DEF IndexOf, Found
  <2> QED
    BY <1>1, <2>2, <2>3, <2>5, <2>6, IndexedGrows
<1>4. ASSUME IndexVariable \/ KeepIndex, NEW x \in Kind \X Nat, code' = Append(code, x),
             x = IndexOf(instr), ~ (instr.kind = "CONST" /\ arg.form = "value")
      PROVE  Indexed'
  <2>1. consts' = consts
    BY <1>4 DEF IndexVariable, KeepIndex, tables
  <2>2. consts' \in Seq(Object) /\ Extends(consts', consts)
    BY <1>1, <2>1 DEF Extends, TablesOK
  <2>3. ASSUME NEW j, j = instr PROVE x = IndexOf(j)' /\ Found(j)'
    <3>1. FindConst(j.arg.is)' = FindConst(j.arg.is)
      BY <2>1, ConstStays
    <3>2. IndexOf(j)' = IndexOf(j)
      BY <1>1, <3>1, IndexStays
    <3> QED
      BY <1>4, <2>3, <3>2 DEF Found, arg
  <2> QED
    BY <1>1, <1>4, <2>2, <2>3, IndexedGrows
<1>5. CASE IndexVariable
  <2>1. PICK i : i = VariableIndex(instr.kind, arg.is)
    OBVIOUS
  <2>2. /\ code' = Append(code, <<instr.kind, i>>) /\ instr.kind \in {"LOCAL", "FREE"}
        /\ arg.form = "value"
    BY <1>5, <2>1 DEF IndexVariable, IsObject
  <2>3. i \in Nat
    BY <1>1, <2>1, <2>2, VariableIs
  <2>4. <<instr.kind, i>> \in Kind \X Nat
    BY <1>2, <2>3
  <2>5. <<instr.kind, i>> = IndexOf(instr)
    BY <2>1, <2>2 DEF IndexOf, arg
  <2> QED
    BY <1>4, <1>5, <2>2, <2>4, <2>5
<1>6. CASE KeepIndex
  <2>1. code' = Append(code, <<instr.kind, arg.is>>) /\ arg.form # "value"
    BY <1>6 DEF KeepIndex, IsObject
  <2>2. arg.form = "index" /\ <<instr.kind, arg.is>> \in Kind \X Nat
    BY <1>2, <2>1
  <2>3. <<instr.kind, arg.is>> = IndexOf(instr)
    BY <2>2 DEF IndexOf, arg
  <2> QED
    BY <1>4, <1>6, <2>1, <2>2, <2>3
<1> QED
  BY <1>3, <1>5, <1>6

LEMMA ReturnIsCurrent ==
    ASSUME IInv, Indexed, Return
    PROVE  Current'
<1>1. /\ phase = "index" /\ cursor = Len(instrs) /\ phase' = "edit" /\ nlocals' = Len(varnames)
      /\ built' = Assembled /\ co' = co /\ consts' = consts /\ names' = names
      /\ varnames' = varnames /\ cellvars' = cellvars /\ freevars' = freevars
      /\ instrs' = instrs /\ code' = code
  BY DEF Return, tables
<1>2. code \in Seq(Kind \X Nat) /\ Len(code) = Len(instrs) /\ DOMAIN instrs = 1 .. Len(instrs)
  BY <1>1, LenProperties DEF IInv, Shape, Progress
<1>3. /\ built' = [consts |-> consts', names |-> names', varnames |-> varnames', cellvars |-> cellvars',
                  freevars |-> freevars', nlocals |-> Len(varnames'), unified |-> Unified',
                  code |-> built'.code]
      /\ built'.code = code
  BY <1>1 DEF Assembled, Unified
<1>4. ASSUME NEW k \in DOMAIN instrs, NEW i, i = instrs[k]
      PROVE  code[k] = IndexOf(i)' /\ Found(i)' /\ Bound(i)'
  <2>1. code[k] = IndexOf(i) /\ Found(i) /\ Bound(i)
    BY <1>1, <1>2, <1>4 DEF Indexed, IInv, Interned
  <2>2. FindConst(i.arg.is)' = FindConst(i.arg.is)
    BY <1>1, ConstStays
  <2>3. IndexOf(i)' = IndexOf(i)
    BY <1>1, <2>2, IndexStays
  <2>4. Found(i)'
    BY <2>1, <2>2 DEF Found
  <2>5. Bound(i)'
    BY <1>1, <2>1 DEF Bound, Somewhere, Unified
  <2> QED
    BY <2>1, <2>3, <2>4, <2>5
<1>5. \A k \in DOMAIN instrs' :
         built'.code[k] = IndexOf(instrs[k])' /\ Found(instrs[k])' /\ Bound(instrs[k])'
  BY <1>1, <1>3, <1>4
<1>6. /\ built'.code \in Seq(Kind \X Nat)
      /\ phase' = "decode" => built' = co'
      /\ phase' # "decode" => Len(built'.code) = Len(instrs')
  BY <1>1, <1>2, <1>3
<1> QED
  BY <1>3, <1>5, <1>6 DEF Current

RebuildInv == IInv /\ Indexed /\ Again

LEMMA RebuildInit == ASSUME Ordinary PROVE Init => RebuildInv
<1> SUFFICES ASSUME Init PROVE RebuildInv
  OBVIOUS
<1>1. IInv /\ Indexed
  BY InitInv DEF Init, Indexed
<1>2. /\ co \in CodeObjects /\ built = co /\ consts = co.consts /\ names = co.names
      /\ varnames = co.varnames /\ cellvars = co.cellvars /\ freevars = co.freevars
      /\ instrs = <<>> /\ phase = "decode"
  BY DEF Init
<1>3. built = [consts |-> consts, names |-> names, varnames |-> varnames, cellvars |-> cellvars,
               freevars |-> freevars, nlocals |-> Len(varnames), unified |-> Unified,
               code |-> built.code]
  BY <1>2 DEF Ordinary, Unified
<1>4. built.code \in Seq(Kind \X Nat)
  BY <1>2, CodeAssumption
<1>5. Current
  BY <1>2, <1>3, <1>4 DEF Current
<1> QED
  BY <1>1, <1>5 DEF RebuildInv, Again

LEMMA IndexedNext ==
    ASSUME IInv, Indexed, [Next]_vars
    PROVE  Indexed'
<1>1. CASE IndexConst \/ IndexVariable \/ KeepIndex
  BY <1>1, SweepIndexed
<1>2. CASE InternDone
  BY <1>2 DEF InternDone, Indexed
<1>3. CASE phase' # "index"
  BY <1>3 DEF Indexed
<1>4. CASE UNCHANGED vars
  <2>1. /\ co' = co /\ consts' = consts /\ varnames' = varnames /\ cellvars' = cellvars
        /\ freevars' = freevars /\ instrs' = instrs /\ code' = code /\ phase' = phase
        /\ cursor' = cursor
    BY <1>4 DEF vars, tables
  <2>2. ASSUME NEW i, Found(i) PROVE IndexOf(i)' = IndexOf(i) /\ Found(i)'
    <3>1. FindConst(i.arg.is)' = FindConst(i.arg.is)
      BY <2>1, ConstStays
    <3>2. IndexOf(i)' = IndexOf(i)
      BY <2>1, <3>1, IndexStays
    <3> QED
      BY <2>2, <3>1, <3>2 DEF Found
  <2>3. SUFFICES ASSUME phase = "index", NEW k \in 1 .. cursor, NEW i, i = instrs[k]
                 PROVE  code[k] = IndexOf(i)' /\ Found(i)'
    BY <2>1 DEF Indexed
  <2>4. code[k] = IndexOf(i) /\ Found(i)
    BY <2>3 DEF Indexed
  <2> QED
    BY <2>2, <2>4
<1>5. \/ IndexConst \/ IndexVariable \/ KeepIndex \/ InternDone \/ UNCHANGED vars \/ phase' # "index"
  <2>1. CASE DecodeArg \/ DecodeDone \/ ToCode \/ ToCodeFails \/ Return
    BY <2>1 DEF DecodeArg, DecodeDone, ToCode, ToCodeFails, Return
  <2>2. CASE Edit
    BY <2>2 DEF Edit, Touch, AddInstr, AddConst, AddVarname, AddName,
         AssignConsts, AssignNames, AssignVarnames, AssignCellvars, AssignFreevars, RemoveInstr
  <2>3. CASE InternLocal \/ InternFree \/ InternNothing
    BY <2>3 DEF InternLocal, InternFree, InternNothing, Sweeping
  <2> QED
    BY <2>1, <2>2, <2>3 DEF Next, Stop
<1> QED
  BY <1>1, <1>2, <1>3, <1>4, <1>5

LEMMA AgainNext ==
    ASSUME Ordinary, IInv, Indexed, Again, [Next]_vars
    PROVE  Again'
<1>1. CASE DecodeArg
  BY <1>1, AgainDecodes
<1>2. CASE Edit
  <2>1. edited' = TRUE
    BY <1>2 DEF Edit, Touch, AddInstr, AddConst, AddVarname, AddName,
         AssignConsts, AssignNames, AssignVarnames, AssignCellvars, AssignFreevars, RemoveInstr
  <2> QED
    BY <2>1 DEF Again
<1>3. CASE Return
  BY <1>3, ReturnIsCurrent DEF Again
<1>4. CASE InternLocal \/ InternFree \/ IndexConst
  <2>1. /\ UNCHANGED <<co, instrs, built, edited>> /\ phase' = phase /\ phase # "decode"
    BY <1>4 DEF InternLocal, InternFree, IndexConst, Sweeping
  <2>2. CASE edited
    BY <2>1, <2>2 DEF Again, IInv, Shape
  <2>3. CASE ~ edited
    <3>1. UNCHANGED tables
      BY <1>4, <2>3, KnownAlready
    <3> QED
      BY <2>1, <3>1, AgainStays
  <2> QED
    BY <2>2, <2>3
<1>5. CASE \/ DecodeDone \/ ToCode \/ InternDone \/ ToCodeFails
           \/ InternNothing \/ IndexVariable \/ KeepIndex \/ UNCHANGED vars
  <2>1. UNCHANGED <<co, tables, instrs, built, edited>>
    <3>1. CASE DecodeDone \/ ToCode \/ InternDone \/ ToCodeFails
      BY <3>1 DEF DecodeDone, ToCode, InternDone, ToCodeFails
    <3>2. CASE InternNothing \/ IndexVariable \/ KeepIndex
      BY <3>2 DEF InternNothing, IndexVariable, KeepIndex, Sweeping, tables
    <3>3. CASE UNCHANGED vars
      BY <3>3 DEF vars
    <3> QED
      BY <1>5, <3>1, <3>2, <3>3
  <2>2. /\ phase' = "decode" => phase = "decode"
        /\ phase = "decode" /\ phase' # "decode" => DecodeDone
    <3>1. CASE DecodeDone \/ ToCode \/ InternDone \/ ToCodeFails
      BY <3>1 DEF DecodeDone, ToCode, InternDone, ToCodeFails
    <3>2. CASE InternNothing \/ IndexVariable \/ KeepIndex
      BY <3>2 DEF InternNothing, IndexVariable, KeepIndex, Sweeping
    <3>3. CASE UNCHANGED vars
      BY <3>3 DEF vars
    <3> QED
      BY <1>5, <3>1, <3>2, <3>3
  <2>3. DecodeDone => Len(instrs) = Len(co.code)
    BY DEF DecodeDone, IInv, Progress
  <2> QED
    BY <2>1, <2>2, <2>3, AgainStays
<1> QED
  BY <1>1, <1>2, <1>3, <1>4, <1>5 DEF Next, Stop

LEMMA RebuildNext == ASSUME Ordinary PROVE RebuildInv /\ [Next]_vars => RebuildInv'
<1> SUFFICES ASSUME RebuildInv, [Next]_vars PROVE RebuildInv'
  OBVIOUS
<1>1. IInv /\ Indexed /\ Again
  BY DEF RebuildInv
<1> QED
  BY <1>1, NextInv, IndexedNext, AgainNext DEF RebuildInv

\* to_code() on what nobody has touched returns the code object it returned last
\* time, or that from_code() was given, whatever calls have failed in between
\* (README.md:378-380).
THEOREM RebuildsTheSameHolds ==
    ASSUME Ordinary
    PROVE  Spec => RebuildsTheSame
<1>1. ASSUME RebuildInv, [Next]_vars PROVE [Return /\ ~ edited => built' = built]_vars
  <2> SUFFICES ASSUME Return, ~ edited PROVE built' = built
    OBVIOUS
  <2>1. IInv /\ Indexed /\ Current
    BY <1>1 DEF RebuildInv, Again
  <2>2. /\ phase = "index" /\ cursor = Len(instrs) /\ nlocals' = Len(varnames) /\ built' = Assembled
    BY DEF Return
  <2>3. code = built.code
    <3> DEFINE P == Kind \X Nat
    <3>1. /\ code \in Seq(P) /\ built.code \in Seq(P) /\ Len(code) = Len(instrs)
          /\ Len(built.code) = Len(instrs)
      BY <2>1, <2>2 DEF IInv, Shape, Progress, Current
    <3>2. DOMAIN instrs = 1 .. Len(instrs)
      BY <2>1, LenProperties DEF IInv, Shape
    <3>3. \A k \in 1 .. Len(instrs) : code[k] = built.code[k]
      BY <2>1, <2>2, <3>2 DEF Indexed, Current
    <3> HIDE DEF P
    <3> QED
      BY <3>1, <3>3, SeqEqual
  <2>4. built = [consts |-> consts, names |-> names, varnames |-> varnames, cellvars |-> cellvars,
                 freevars |-> freevars, nlocals |-> Len(varnames), unified |-> Unified,
                 code |-> built.code]
    BY <2>1 DEF Current
  <2>5. Assembled = [consts |-> consts, names |-> names, varnames |-> varnames, cellvars |-> cellvars,
                     freevars |-> freevars, nlocals |-> Len(varnames), unified |-> Unified,
                     code |-> built.code]
    BY <2>2, <2>3 DEF Assembled
  <2> QED
    BY <2>2, <2>4, <2>5
<1>2. RebuildInv /\ [Next]_vars => RebuildInv'
  BY RebuildNext
<1> QED
  BY <1>1, <1>2, RebuildInit, PTL DEF Spec, RebuildsTheSame
=============================================================================
