-------------------------- MODULE Assembler_proofs --------------------------
(***************************************************************************)
(* For every source, however long: it is accepted exactly when it follows  *)
(* the grammar, it binds when its blocks are given what they need and, if  *)
(* nested, can be assembled, and its Bytecodes are what its lines say.     *)
(***************************************************************************)
EXTENDS Assembler, FiniteSetTheorems, SequenceTheorems, WellFoundedInduction, TLAPS

-----------------------------------------------------------------------------
(***************************************************************************)
(* Numbers and sets of lines.                                              *)
(***************************************************************************)
LEMMA LeastLine ==
    ASSUME NEW S \in SUBSET Nat, S # {}
    PROVE  \E m \in S : \A k \in S : m <= k
<1>1. PICK m \in S : \A k \in S : <<k, m>> \notin OpToRel(<, Nat)
  BY NatLessThanWellFounded, WFMin
<1>2. \A k \in S : ~ (k < m)
  BY <1>1 DEF OpToRel
<1> QED BY <1>2

LEMMA MinIs ==
    ASSUME NEW S \in SUBSET Nat, S # {}
    PROVE  Min(S) \in S /\ \A k \in S : Min(S) <= k
<1>1. \E m \in S : \A k \in S : m <= k
  BY LeastLine
<1> QED BY <1>1 DEF Min

LEMMA MaxIs ==
    ASSUME NEW n \in Nat, NEW S \in SUBSET (0 .. n), S # {}
    PROVE  Max(S) \in S /\ \A k \in S : k <= Max(S)
<1> DEFINE T == {n - k : k \in S}
<1>1. T \in SUBSET Nat /\ T # {}
  <2>1. \A k \in S : k \in 0 .. n
    OBVIOUS
  <2>2. \A k \in S : n - k \in Nat
    BY <2>1
  <2> QED BY <2>2
<1>2. PICK t \in T : \A u \in T : t <= u
  BY <1>1, LeastLine
<1>3. PICK m \in S : t = n - m
  OBVIOUS
<1>4. ASSUME NEW k \in S PROVE k <= m
  <2>1. n - m <= n - k
    BY <1>2, <1>3
  <2> QED BY <2>1
<1>5. m \in S /\ \A k \in S : m >= k
  BY <1>4
<1>6. Max(S) \in S /\ \A k \in S : Max(S) >= k
  BY <1>5 DEF Max
<1> QED BY <1>6

\* A set of lines, of those up to n.
LineSet(S, n) == n \in Nat /\ S \subseteq 1 .. n

LEMMA LineSetFinite ==
    ASSUME NEW n, NEW S, LineSet(S, n)
    PROVE  IsFiniteSet(S) /\ Cardinality(S) \in Nat
<1>1. IsFiniteSet(1 .. n) /\ S \in SUBSET (1 .. n)
  BY FS_Interval DEF LineSet
<1>2. IsFiniteSet(S)
  BY <1>1, FS_Subset
<1> QED BY <1>2, FS_CardinalityType

\* How many of S are before i.
Rank(S, i) == Cardinality({j \in S : j < i})

LEMMA RankType ==
    ASSUME NEW n, NEW S, LineSet(S, n), NEW i
    PROVE  Rank(S, i) \in 0 .. Cardinality(S)
<1> DEFINE U == {j \in S : j < i}
<1>1. U \in SUBSET S
  OBVIOUS
<1>2. IsFiniteSet(S) /\ Cardinality(S) \in Nat
  BY LineSetFinite
<1> HIDE DEF U
<1>3. IsFiniteSet(U) /\ Cardinality(U) <= Cardinality(S)
  BY <1>1, <1>2, FS_Subset
<1>4. Cardinality(U) \in Nat
  BY <1>3, FS_CardinalityType
<1> QED BY <1>2, <1>3, <1>4 DEF Rank, U

LEMMA RankGrows ==
    ASSUME NEW n, NEW S, LineSet(S, n), NEW i \in S, NEW k \in Int, i < k
    PROVE  Rank(S, i) < Rank(S, k)
<1> DEFINE A == {j \in S : j < i}
           B == {j \in S : j < k}
<1>0. S \subseteq Int
  BY DEF LineSet
<1>1. A \in SUBSET B /\ i \in B /\ i \notin A /\ B \in SUBSET S
  <2>1. \A j \in S : j < i => j < k
    BY <1>0
  <2>2. ~ (i < i) /\ i < k
    BY <1>0
  <2> QED BY <2>1, <2>2
<1>2. Rank(S, i) = Cardinality(A) /\ Rank(S, k) = Cardinality(B)
  BY DEF Rank
<1> HIDE DEF A, B
<1>3. IsFiniteSet(S)
  BY LineSetFinite
<1>4. IsFiniteSet(B)
  BY <1>1, <1>3, FS_Subset
<1>5. IsFiniteSet(A) /\ Cardinality(A) <= Cardinality(B) /\ Cardinality(B) # Cardinality(A)
  BY <1>1, <1>4, FS_Subset
<1>6. Cardinality(A) \in Nat /\ Cardinality(B) \in Nat
  BY <1>4, <1>5, FS_CardinalityType
<1> QED BY <1>2, <1>5, <1>6

\* Each of S has a number of its own, and every number is of one of them.
LEMMA RankOf ==
    ASSUME NEW n, NEW S, LineSet(S, n)
    PROVE  /\ \A i \in S : Rank(S, i) \in 0 .. Cardinality(S) - 1
           /\ \A i, j \in S : Rank(S, i) = Rank(S, j) => i = j
           /\ \A r \in 0 .. Cardinality(S) - 1 : \E i \in S : Rank(S, i) = r
<1> DEFINE c == Cardinality(S)
           T == 0 .. c - 1
           f == [i \in S |-> Rank(S, i)]
<1>1. IsFiniteSet(S) /\ c \in Nat /\ S \subseteq Nat
  <2>1. IsFiniteSet(S) /\ c \in Nat
    BY LineSetFinite
  <2>2. S \subseteq Nat
    BY DEF LineSet
  <2> QED BY <2>1, <2>2
<1>2. ASSUME NEW i \in S PROVE Rank(S, i) \in T
  <2>1. Rank(S, i) \in 0 .. c
    BY RankType
  <2> DEFINE U == {j \in S : j < i}
  <2>2. U \in SUBSET S /\ i \notin U /\ Rank(S, i) = Cardinality(U)
    BY <1>1 DEF Rank
  <2> HIDE DEF U
  <2>3. Cardinality(U) # c
    BY <1>1, <2>2, FS_Subset
  <2> HIDE DEF c
  <2> QED BY <1>1, <2>1, <2>2, <2>3
<1>3. ASSUME NEW i \in S, NEW j \in S, i # j PROVE Rank(S, i) # Rank(S, j)
  <2>1. i \in Int /\ j \in Int /\ (i < j \/ j < i)
    BY <1>1, <1>3
  <2>2. Rank(S, i) \in Int /\ Rank(S, j) \in Int
    BY <1>2
  <2>3. CASE i < j
    <3>1. Rank(S, i) < Rank(S, j)
      BY <2>1, <2>3, RankGrows
    <3> QED BY <2>2, <3>1
  <2>4. CASE j < i
    <3>1. Rank(S, j) < Rank(S, i)
      BY <2>1, <2>4, RankGrows
    <3> QED BY <2>2, <3>1
  <2> QED BY <2>1, <2>3, <2>4
<1>4. IsFiniteSet(T) /\ Cardinality(T) = c
  <2> HIDE DEF c
  <2> QED BY <1>1, FS_Interval
<1> HIDE DEF T, c
<1>5. f \in Injection(S, T)
  <2>1. f \in [S -> T] /\ \A i, j \in S : f[i] = f[j] => i = j
    BY <1>2, <1>3
  <2> HIDE DEF f
  <2> QED BY <2>1 DEF Injection, IsInjective
<1>6. f \in Surjection(S, T)
  <2> HIDE DEF f
  <2> QED BY <1>4, <1>5, FS_Injection DEF c
<1>7. ASSUME NEW r \in T PROVE \E i \in S : Rank(S, i) = r
  <2>1. \E i \in S : f[i] = r
    <3> HIDE DEF f
    <3> QED BY <1>6 DEF Surjection
  <2> QED BY <2>1
<1> QED BY <1>2, <1>3, <1>7 DEF T, c

\* One more line.
LEMMA RankNext ==
    ASSUME NEW n, NEW S, LineSet(S, n)
    PROVE  /\ LineSet(S, n + 1) /\ LineSet(S \cup {n + 1}, n + 1)
           /\ n + 1 \notin S
           /\ Cardinality(S \cup {n + 1}) = Cardinality(S) + 1
           /\ Rank(S, n + 1) = Cardinality(S) /\ Rank(S \cup {n + 1}, n + 1) = Cardinality(S)
           /\ \A i \in 0 .. n : Rank(S \cup {n + 1}, i) = Rank(S, i)
<1>1. n \in Nat /\ S \subseteq 1 .. n /\ n + 1 \notin S
  BY DEF LineSet
<1>2. LineSet(S, n + 1) /\ LineSet(S \cup {n + 1}, n + 1)
  BY <1>1 DEF LineSet
<1>3. Cardinality(S \cup {n + 1}) = Cardinality(S) + 1
  <2>1. IsFiniteSet(S)
    BY LineSetFinite
  <2> QED BY <1>1, <2>1, FS_AddElement
<1>4. {j \in S : j < n + 1} = S /\ {j \in S \cup {n + 1} : j < n + 1} = S
  <2>1. \A j \in S : j < n + 1
    BY <1>1
  <2>2. ~ (n + 1 < n + 1)
    BY <1>1
  <2> QED BY <2>1, <2>2
<1>5. ASSUME NEW i \in 0 .. n
      PROVE  Rank(S \cup {n + 1}, i) = Rank(S, i)
  <2>1. {j \in S \cup {n + 1} : j < i} = {j \in S : j < i}
    BY <1>1
  <2> QED BY <2>1 DEF Rank
<1>6. Rank(S, n + 1) = Cardinality(S) /\ Rank(S \cup {n + 1}, n + 1) = Cardinality(S)
  BY <1>4 DEF Rank
<1> QED BY <1>1, <1>2, <1>3, <1>5, <1>6

-----------------------------------------------------------------------------
(***************************************************************************)
(* A block and the lines that are its own: L its labels, I its             *)
(* instructions, T and D the beginnings and the ends of its try blocks.    *)
(***************************************************************************)
Ofs == {l.of : l \in Line}
LabelT == [ident : Ofs, index : Nat]
RegionT == [start : Nat, stop : Nat, handler : Ofs, lasti : BOOLEAN]
OpenT == [handler : Ofs, start : Nat, lasti : BOOLEAN]
InstrT == [by : {"nothing", "label", "bind", "code"}, of : Ofs, ends : BOOLEAN, lineno : Nat]
BlockT ==
    [header : {Module} \cup Line, labels : Seq(LabelT), ref_labels : SUBSET Ofs,
     exc_entries : Seq(RegionT), tb : {<<>>} \cup {<<t>> : t \in OpenT}, instrs : Seq(InstrT),
     codes : UNION {[D -> Nat] : D \in SUBSET Ofs}]

NamesAt(r, S) == {r[i].of : i \in S}
Jumps(r, I) == {i \in I : r[i].by = "label"}

LabelsMirrored(labels, r, L, I) ==
    /\ Len(labels) = Cardinality(L)
    /\ \A i \in L : labels[Rank(L, i) + 1] = [ident |-> r[i].of, index |-> Rank(I, i)]
    /\ \A i, j \in L : r[i].of = r[j].of => i = j

InstrsMirrored(instrs, r, I) ==
    /\ Len(instrs) = Cardinality(I)
    /\ \A i \in I : instrs[Rank(I, i) + 1] = [by |-> r[i].by, of |-> r[i].of, ends |-> r[i].ends, lineno |-> i]

RegionsMirrored(exc_entries, tb, r, I, T, D) ==
    /\ Len(exc_entries) = Cardinality(D)
    /\ Cardinality(T) = Cardinality(D) + (IF tb = <<>> THEN 0 ELSE 1)
    /\ \A i \in T :
          /\ Rank(T, i) < Cardinality(D) =>
                /\ exc_entries[Rank(T, i) + 1].start = Rank(I, i)
                /\ exc_entries[Rank(T, i) + 1].handler = r[i].of
                /\ exc_entries[Rank(T, i) + 1].lasti = r[i].lasti
          /\ Rank(T, i) = Cardinality(D) =>
                tb = <<[handler |-> r[i].of, start |-> Rank(I, i), lasti |-> r[i].lasti]>>
    /\ \A j \in D : exc_entries[Rank(D, j) + 1].stop = Rank(I, j)

RefsMirrored(ref_labels, r, L, I, T) ==
    ref_labels = NamesAt(r, Jumps(r, I) \cup T) \ NamesAt(r, L)

\* r, and r with one more line.
Longer(r, s, n, l) ==
    /\ \A i \in 1 .. n : s[i] = r[i]
    /\ s[n + 1] = l

LEMMA NamesNext ==
    ASSUME NEW r, NEW s, NEW n, NEW l, Longer(r, s, n, l), NEW S, LineSet(S, n)
    PROVE  /\ NamesAt(s, S) = NamesAt(r, S)
           /\ NamesAt(s, S \cup {n + 1}) = NamesAt(r, S) \cup {l.of}
<1>1. \A i \in S : s[i] = r[i]
  BY DEF Longer, LineSet
<1>2. s[n + 1] = l
  BY DEF Longer
<1>3. NamesAt(s, S) = NamesAt(r, S)
  BY <1>1 DEF NamesAt
<1> QED BY <1>2, <1>3 DEF NamesAt

LEMMA IdentsAre ==
    ASSUME NEW labels \in Seq(LabelT), NEW r, NEW n, NEW L, NEW I, LineSet(L, n),
           LabelsMirrored(labels, r, L, I)
    PROVE  {labels[k].ident : k \in DOMAIN labels} = NamesAt(r, L)
<1>1. DOMAIN labels = 1 .. Cardinality(L)
  <2>1. DOMAIN labels = 1 .. Len(labels)
    BY LenProperties
  <2> QED BY <2>1 DEF LabelsMirrored
<1>2. Cardinality(L) \in Nat
  BY LineSetFinite
<1>3. ASSUME NEW i \in L
      PROVE  Rank(L, i) + 1 \in DOMAIN labels /\ labels[Rank(L, i) + 1].ident = r[i].of
  <2>1. Rank(L, i) \in 0 .. Cardinality(L) - 1
    BY RankOf
  <2>2. labels[Rank(L, i) + 1] = [ident |-> r[i].of, index |-> Rank(I, i)]
    BY DEF LabelsMirrored
  <2> QED BY <1>1, <1>2, <2>1, <2>2
<1>4. ASSUME NEW k \in DOMAIN labels
      PROVE  \E i \in L : labels[k].ident = r[i].of
  <2>1. k - 1 \in 0 .. Cardinality(L) - 1
    BY <1>1, <1>2
  <2>2. PICK i \in L : Rank(L, i) = k - 1
    BY <2>1, RankOf
  <2>3. Rank(L, i) + 1 = k
    BY <1>1, <1>2, <2>2
  <2> QED BY <1>3, <2>3
<1> QED BY <1>3, <1>4 DEF NamesAt

\* What is mirrored stays so when the next line is of another kind, or of
\* another block.
LEMMA LabelsKeep ==
    ASSUME NEW r, NEW s, NEW n, NEW l, Longer(r, s, n, l),
           NEW L, NEW I, LineSet(L, n), LineSet(I, n),
           NEW labels, LabelsMirrored(labels, r, L, I)
    PROVE  /\ LabelsMirrored(labels, s, L, I)
           /\ LabelsMirrored(labels, s, L, I \cup {n + 1})
<1>1. \A i \in L : s[i] = r[i]
  BY DEF Longer, LineSet
<1>2. \A i \in L : Rank(I \cup {n + 1}, i) = Rank(I, i)
  <2>1. \A i \in 0 .. n : Rank(I \cup {n + 1}, i) = Rank(I, i)
    BY RankNext
  <2>2. L \subseteq 0 .. n
    BY DEF LineSet
  <2> QED BY <2>1, <2>2
<1> QED BY <1>1, <1>2 DEF LabelsMirrored

LEMMA InstrsKeep ==
    ASSUME NEW r, NEW s, NEW n, NEW l, Longer(r, s, n, l), NEW I, LineSet(I, n),
           NEW instrs, InstrsMirrored(instrs, r, I)
    PROVE  InstrsMirrored(instrs, s, I)
<1>1. \A i \in I : s[i] = r[i]
  BY DEF Longer, LineSet
<1> QED BY <1>1 DEF InstrsMirrored

LEMMA RegionsKeep ==
    ASSUME NEW r, NEW s, NEW n, NEW l, Longer(r, s, n, l),
           NEW I, NEW T, NEW D, LineSet(I, n), LineSet(T, n), LineSet(D, n),
           NEW exc, NEW tb, RegionsMirrored(exc, tb, r, I, T, D)
    PROVE  /\ RegionsMirrored(exc, tb, s, I, T, D)
           /\ RegionsMirrored(exc, tb, s, I \cup {n + 1}, T, D)
<1>1. \A i \in T : s[i] = r[i]
  BY DEF Longer, LineSet
<1>2. \A i \in T \cup D : Rank(I \cup {n + 1}, i) = Rank(I, i)
  <2>1. \A i \in 0 .. n : Rank(I \cup {n + 1}, i) = Rank(I, i)
    BY RankNext
  <2>2. T \cup D \subseteq 0 .. n
    BY DEF LineSet
  <2> QED BY <2>1, <2>2
<1>3. RegionsMirrored(exc, tb, s, I, T, D)
  BY <1>1 DEF RegionsMirrored
<1> QED BY <1>2, <1>3 DEF RegionsMirrored

LEMMA RefsKeep ==
    ASSUME NEW r, NEW s, NEW n, NEW l, Longer(r, s, n, l),
           NEW L, NEW I, NEW T, LineSet(L, n), LineSet(I, n), LineSet(T, n),
           NEW refs, RefsMirrored(refs, r, L, I, T)
    PROVE  RefsMirrored(refs, s, L, I, T)
<1>1. \A i \in L \cup I \cup T : s[i] = r[i]
  BY DEF Longer, LineSet
<1> QED BY <1>1 DEF RefsMirrored, NamesAt, Jumps

-----------------------------------------------------------------------------
(***************************************************************************)
(* One more line of the block's own.                                       *)
(***************************************************************************)
LEMMA LabelsNext ==
    ASSUME NEW r, NEW s, NEW n, NEW l \in Line, Longer(r, s, n, l),
           NEW L, NEW I, LineSet(L, n), LineSet(I, n),
           NEW labels \in Seq(LabelT), LabelsMirrored(labels, r, L, I), l.of \notin NamesAt(r, L)
    PROVE  LabelsMirrored(Append(labels, [ident |-> l.of, index |-> Cardinality(I)]), s, L \cup {n + 1}, I)
<1> DEFINE new == [ident |-> l.of, index |-> Cardinality(I)]
           M == L \cup {n + 1}
           c == Cardinality(L)
<1>1. c \in Nat /\ Cardinality(I) \in Nat
  BY LineSetFinite
<1>2. new \in LabelT
  BY <1>1 DEF LabelT, Ofs
<1>3. Len(labels) = c
  BY DEF LabelsMirrored
<1>4. /\ Len(Append(labels, new)) = c + 1
      /\ \A k \in 1 .. c : Append(labels, new)[k] = labels[k]
      /\ Append(labels, new)[c + 1] = new
  <2> HIDE DEF new
  <2> QED BY <1>2, <1>3, AppendProperties
<1>5. /\ Cardinality(M) = c + 1 /\ Rank(M, n + 1) = c
      /\ \A i \in 0 .. n : Rank(M, i) = Rank(L, i)
      /\ Rank(I, n + 1) = Cardinality(I) /\ n + 1 \notin L
  <2>1. /\ Cardinality(M) = c + 1 /\ Rank(M, n + 1) = c
        /\ \A i \in 0 .. n : Rank(M, i) = Rank(L, i)
    BY RankNext
  <2>2. Rank(I, n + 1) = Cardinality(I) /\ n + 1 \notin L
    BY RankNext
  <2> QED BY <2>1, <2>2
<1>6. s[n + 1].of = l.of /\ \A i \in L : s[i] = r[i] /\ i \in 0 .. n
  BY DEF Longer, LineSet
<1>7. ASSUME NEW i \in M
      PROVE  Append(labels, new)[Rank(M, i) + 1] = [ident |-> s[i].of, index |-> Rank(I, i)]
  <2>1. CASE i = n + 1
    BY <1>4, <1>5, <1>6, <2>1
  <2>2. CASE i \in L
    <3>1. Rank(M, i) = Rank(L, i) /\ s[i] = r[i]
      BY <1>5, <1>6, <2>2
    <3>2. Rank(L, i) \in 0 .. c - 1
      BY <2>2, RankOf
    <3>3. Rank(L, i) + 1 \in 1 .. c
      <4> HIDE DEF c
      <4> QED BY <1>1, <3>2
    <3>4. labels[Rank(L, i) + 1] = [ident |-> r[i].of, index |-> Rank(I, i)]
      BY <2>2 DEF LabelsMirrored
    <3> QED BY <1>4, <3>1, <3>3, <3>4
  <2> QED BY <2>1, <2>2
<1>8. ASSUME NEW i \in M, NEW j \in M, s[i].of = s[j].of PROVE i = j
  <2>1. \A k \in L : s[k].of # l.of
    BY <1>6 DEF NamesAt
  <2>2. \A h, k \in L : s[h].of = s[k].of => h = k
    BY <1>6 DEF LabelsMirrored
  <2> QED BY <1>6, <1>8, <2>1, <2>2
<1>9. Len(Append(labels, new)) = Cardinality(M)
  BY <1>4, <1>5
<1> HIDE DEF M, new
<1>10. LabelsMirrored(Append(labels, new), s, M, I)
  BY <1>7, <1>8, <1>9 DEF LabelsMirrored
<1> QED BY <1>10 DEF M, new

LEMMA InstrsNext ==
    ASSUME NEW r, NEW s, NEW n, NEW l \in Line, Longer(r, s, n, l), NEW I, LineSet(I, n),
           NEW instrs \in Seq(InstrT), InstrsMirrored(instrs, r, I),
           l.by \in {"nothing", "label", "bind", "code"}, l.ends \in BOOLEAN
    PROVE  InstrsMirrored(Append(instrs, [by |-> l.by, of |-> l.of, ends |-> l.ends, lineno |-> n + 1]), s, I \cup {n + 1})
<1> DEFINE new == [by |-> l.by, of |-> l.of, ends |-> l.ends, lineno |-> n + 1]
           M == I \cup {n + 1}
           c == Cardinality(I)
<1>1. c \in Nat /\ n \in Nat
  <2>1. c \in Nat
    BY LineSetFinite
  <2> QED BY <2>1 DEF LineSet
<1>2. new \in InstrT
  BY <1>1 DEF InstrT, Ofs
<1>3. Len(instrs) = c
  BY DEF InstrsMirrored
<1>4. /\ Len(Append(instrs, new)) = c + 1
      /\ \A k \in 1 .. c : Append(instrs, new)[k] = instrs[k]
      /\ Append(instrs, new)[c + 1] = new
  <2> HIDE DEF new
  <2> QED BY <1>2, <1>3, AppendProperties
<1>5. /\ Cardinality(M) = c + 1 /\ Rank(M, n + 1) = c
      /\ \A i \in 0 .. n : Rank(M, i) = Rank(I, i)
  BY RankNext
<1>6. s[n + 1] = l /\ \A i \in I : s[i] = r[i] /\ i \in 0 .. n
  <2>1. I \subseteq 1 .. n
    BY DEF LineSet
  <2>2. s[n + 1] = l /\ \A i \in 1 .. n : s[i] = r[i]
    BY DEF Longer
  <2> QED BY <1>1, <2>1, <2>2
<1>7. ASSUME NEW i \in M
      PROVE  Append(instrs, new)[Rank(M, i) + 1] = [by |-> s[i].by, of |-> s[i].of, ends |-> s[i].ends, lineno |-> i]
  <2>1. CASE i = n + 1
    BY <1>4, <1>5, <1>6, <2>1
  <2>2. CASE i \in I
    <3>1. Rank(M, i) = Rank(I, i) /\ s[i] = r[i]
      BY <1>5, <1>6, <2>2
    <3>2. Rank(I, i) \in 0 .. c - 1
      BY <2>2, RankOf
    <3>3. Rank(I, i) + 1 \in 1 .. c
      <4> HIDE DEF c
      <4> QED BY <1>1, <3>2
    <3>4. instrs[Rank(I, i) + 1] = [by |-> r[i].by, of |-> r[i].of, ends |-> r[i].ends, lineno |-> i]
      BY <2>2 DEF InstrsMirrored
    <3> QED BY <1>4, <3>1, <3>3, <3>4
  <2> QED BY <2>1, <2>2
<1>8. Len(Append(instrs, new)) = Cardinality(M)
  BY <1>4, <1>5
<1> HIDE DEF M, new
<1>9. InstrsMirrored(Append(instrs, new), s, M)
  BY <1>7, <1>8 DEF InstrsMirrored
<1> QED BY <1>9 DEF M, new

\* "try": the region is open.
LEMMA RegionsBegin ==
    ASSUME NEW r, NEW s, NEW n, NEW l \in Line, Longer(r, s, n, l),
           NEW I, NEW T, NEW D, LineSet(I, n), LineSet(T, n), LineSet(D, n),
           NEW exc, RegionsMirrored(exc, <<>>, r, I, T, D)
    PROVE  RegionsMirrored(exc, <<[handler |-> l.of, start |-> Cardinality(I), lasti |-> l.lasti]>>, s, I, T \cup {n + 1}, D)
<1> DEFINE tb == <<[handler |-> l.of, start |-> Cardinality(I), lasti |-> l.lasti]>>
           M == T \cup {n + 1}
           c == Cardinality(D)
<1>1. c \in Nat /\ Cardinality(T) = c
  <2>1. c \in Nat
    BY LineSetFinite
  <2> QED BY <2>1 DEF RegionsMirrored
<1>2. /\ Cardinality(M) = c + 1 /\ Rank(M, n + 1) = c
      /\ \A i \in 0 .. n : Rank(M, i) = Rank(T, i)
      /\ Rank(I, n + 1) = Cardinality(I)
  <2>1. /\ Cardinality(M) = Cardinality(T) + 1 /\ Rank(M, n + 1) = Cardinality(T)
        /\ \A i \in 0 .. n : Rank(M, i) = Rank(T, i)
    BY RankNext
  <2>2. Rank(I, n + 1) = Cardinality(I)
    BY RankNext
  <2> QED BY <1>1, <2>1, <2>2
<1>3. s[n + 1] = l /\ (\A i \in T : s[i] = r[i] /\ i \in 0 .. n) /\ (\A j \in D : s[j] = r[j])
  BY DEF Longer, LineSet
<1>4. tb # <<>>
  OBVIOUS
<1>5. ASSUME NEW i \in M
      PROVE  /\ Rank(M, i) < c =>
                   /\ exc[Rank(M, i) + 1].start = Rank(I, i)
                   /\ exc[Rank(M, i) + 1].handler = s[i].of
                   /\ exc[Rank(M, i) + 1].lasti = s[i].lasti
             /\ Rank(M, i) = c => tb = <<[handler |-> s[i].of, start |-> Rank(I, i), lasti |-> s[i].lasti]>>
  <2>1. CASE i = n + 1
    BY <1>1, <1>2, <1>3, <2>1
  <2>2. CASE i \in T
    <3>1. Rank(M, i) = Rank(T, i) /\ s[i] = r[i]
      BY <1>2, <1>3, <2>2
    <3>2. Rank(T, i) \in 0 .. Cardinality(T) - 1
      BY <2>2, RankOf
    <3>3. Rank(T, i) # c
      BY <1>1, <3>2
    <3> QED BY <2>2, <3>1, <3>3 DEF RegionsMirrored
  <2> QED BY <2>1, <2>2
<1>6. Cardinality(M) = c + 1
  BY <1>2
<1> HIDE DEF M, tb
<1>7. RegionsMirrored(exc, tb, s, I, M, D)
  BY <1>1, <1>4, <1>5, <1>6 DEF RegionsMirrored
<1> QED BY <1>7 DEF M, tb

\* "tried": the region ends before the next instruction.
LEMMA RegionsEnd ==
    ASSUME NEW r, NEW s, NEW n, NEW l \in Line, Longer(r, s, n, l),
           NEW I, NEW T, NEW D, LineSet(I, n), LineSet(T, n), LineSet(D, n),
           NEW exc \in Seq(RegionT), NEW tb \in {<<t>> : t \in OpenT},
           RegionsMirrored(exc, tb, r, I, T, D)
    PROVE  RegionsMirrored(Append(exc, [start |-> tb[1].start, stop |-> Cardinality(I), handler |-> tb[1].handler, lasti |-> tb[1].lasti]),
                           <<>>, s, I, T, D \cup {n + 1})
<1> DEFINE new == [start |-> tb[1].start, stop |-> Cardinality(I), handler |-> tb[1].handler, lasti |-> tb[1].lasti]
           M == D \cup {n + 1}
           c == Cardinality(D)
<1>1. c \in Nat /\ Cardinality(I) \in Nat
  BY LineSetFinite
<1>2. tb # <<>> /\ tb[1] \in OpenT
  OBVIOUS
<1>3. new \in RegionT
  BY <1>1, <1>2 DEF RegionT, OpenT
<1>4. Len(exc) = c /\ Cardinality(T) = c + 1
  BY <1>2 DEF RegionsMirrored
<1>5. /\ Len(Append(exc, new)) = c + 1
      /\ \A k \in 1 .. c : Append(exc, new)[k] = exc[k]
      /\ Append(exc, new)[c + 1] = new
  <2> HIDE DEF new
  <2> QED BY <1>3, <1>4, AppendProperties
<1>6. /\ Cardinality(M) = c + 1 /\ Rank(M, n + 1) = c
      /\ \A i \in 0 .. n : Rank(M, i) = Rank(D, i)
      /\ Rank(I, n + 1) = Cardinality(I)
  <2>1. /\ Cardinality(M) = c + 1 /\ Rank(M, n + 1) = c
        /\ \A i \in 0 .. n : Rank(M, i) = Rank(D, i)
    BY RankNext
  <2>2. Rank(I, n + 1) = Cardinality(I)
    BY RankNext
  <2> QED BY <2>1, <2>2
<1>7. (\A i \in T : s[i] = r[i]) /\ (\A j \in D : s[j] = r[j] /\ j \in 0 .. n)
  BY DEF Longer, LineSet
<1>8. ASSUME NEW i \in T
      PROVE  /\ Rank(T, i) < c + 1 =>
                   /\ Append(exc, new)[Rank(T, i) + 1].start = Rank(I, i)
                   /\ Append(exc, new)[Rank(T, i) + 1].handler = s[i].of
                   /\ Append(exc, new)[Rank(T, i) + 1].lasti = s[i].lasti
             /\ Rank(T, i) = c + 1 => <<>> = <<[handler |-> s[i].of, start |-> Rank(I, i), lasti |-> s[i].lasti]>>
  <2>1. Rank(T, i) \in 0 .. c
    <3>1. Rank(T, i) \in 0 .. Cardinality(T) - 1
      BY RankOf
    <3> QED BY <1>1, <1>4, <3>1
  <2>2. CASE Rank(T, i) < c
    <3>1. Rank(T, i) + 1 \in 1 .. c
      BY <1>1, <2>1, <2>2
    <3>2. /\ exc[Rank(T, i) + 1].start = Rank(I, i) /\ exc[Rank(T, i) + 1].handler = r[i].of
          /\ exc[Rank(T, i) + 1].lasti = r[i].lasti
      BY <2>2 DEF RegionsMirrored
    <3> QED BY <1>1, <1>5, <1>7, <2>2, <3>1, <3>2
  <2>3. CASE Rank(T, i) = c
    <3>1. tb = <<[handler |-> r[i].of, start |-> Rank(I, i), lasti |-> r[i].lasti]>>
      BY <2>3 DEF RegionsMirrored
    <3>2. new.start = Rank(I, i) /\ new.handler = r[i].of /\ new.lasti = r[i].lasti
      BY <3>1
    <3> QED BY <1>1, <1>5, <1>7, <2>3, <3>2
  <2>4. Rank(T, i) < c \/ Rank(T, i) = c
    BY <1>1, <2>1
  <2> QED BY <2>2, <2>3, <2>4
<1>9. ASSUME NEW j \in M PROVE Append(exc, new)[Rank(M, j) + 1].stop = Rank(I, j)
  <2>1. CASE j = n + 1
    BY <1>5, <1>6, <2>1
  <2>2. CASE j \in D
    <3>1. Rank(M, j) = Rank(D, j)
      BY <1>6, <1>7, <2>2
    <3>2. Rank(D, j) \in 0 .. c - 1
      BY <2>2, RankOf
    <3>3. Rank(D, j) + 1 \in 1 .. c
      <4> HIDE DEF c
      <4> QED BY <1>1, <3>2
    <3>4. exc[Rank(D, j) + 1].stop = Rank(I, j)
      BY <2>2 DEF RegionsMirrored
    <3> QED BY <1>5, <3>1, <3>3, <3>4
  <2> QED BY <2>1, <2>2
<1>10. Len(Append(exc, new)) = Cardinality(M) /\ Cardinality(M) = c + 1 /\ Cardinality(T) = c + 1 + 0
  BY <1>1, <1>4, <1>5, <1>6
<1> HIDE DEF M, new, c
<1>11. RegionsMirrored(Append(exc, new), <<>>, s, I, T, M)
  BY <1>8, <1>9, <1>10 DEF RegionsMirrored
<1> QED BY <1>11 DEF M, new

LEMMA RefsDefine ==
    ASSUME NEW r, NEW s, NEW n, NEW l, Longer(r, s, n, l),
           NEW L, NEW I, NEW T, LineSet(L, n), LineSet(I, n), LineSet(T, n),
           NEW refs, RefsMirrored(refs, r, L, I, T)
    PROVE  RefsMirrored(refs \ {l.of}, s, L \cup {n + 1}, I, T)
<1>1. refs = NamesAt(s, Jumps(s, I) \cup T) \ NamesAt(s, L)
  <2>1. RefsMirrored(refs, s, L, I, T)
    BY RefsKeep
  <2> QED BY <2>1 DEF RefsMirrored
<1>2. NamesAt(s, L \cup {n + 1}) = NamesAt(s, L) \cup {l.of}
  BY NamesNext
<1> QED BY <1>1, <1>2 DEF RefsMirrored

\* An instruction or a try that refers to a label, and one that does not.
LEMMA RefsRefer ==
    ASSUME NEW r, NEW s, NEW n, NEW l, Longer(r, s, n, l),
           NEW L, NEW I, NEW T, LineSet(L, n), LineSet(I, n), LineSet(T, n),
           NEW refs, RefsMirrored(refs, r, L, I, T),
           NEW new, new = IF l.of \in NamesAt(r, L) THEN refs ELSE refs \cup {l.of}
    PROVE  /\ l.by = "label" => RefsMirrored(new, s, L, I \cup {n + 1}, T)
           /\ RefsMirrored(new, s, L, I, T \cup {n + 1})
<1>1. refs = NamesAt(s, Jumps(s, I) \cup T) \ NamesAt(s, L)
  <2>1. RefsMirrored(refs, s, L, I, T)
    BY RefsKeep
  <2> QED BY <2>1 DEF RefsMirrored
<1>2. NamesAt(s, L) = NamesAt(r, L) /\ s[n + 1] = l
  <2>1. NamesAt(s, L) = NamesAt(r, L)
    <3>1. \A i \in L : s[i] = r[i]
      BY DEF Longer, LineSet
    <3> QED BY <3>1 DEF NamesAt
  <2> QED BY <2>1 DEF Longer
<1>3. new = (NamesAt(s, Jumps(s, I) \cup T) \cup {l.of}) \ NamesAt(s, L)
  BY <1>1, <1>2
<1>4. NamesAt(s, Jumps(s, I) \cup (T \cup {n + 1})) = NamesAt(s, Jumps(s, I) \cup T) \cup {l.of}
  BY <1>2 DEF NamesAt
<1>5. l.by = "label" =>
         NamesAt(s, Jumps(s, I \cup {n + 1}) \cup T) = NamesAt(s, Jumps(s, I) \cup T) \cup {l.of}
  BY <1>2 DEF NamesAt, Jumps
<1> QED BY <1>3, <1>4, <1>5 DEF RefsMirrored

LEMMA RefsOther ==
    ASSUME NEW r, NEW s, NEW n, NEW l, Longer(r, s, n, l),
           NEW L, NEW I, NEW T, LineSet(L, n), LineSet(I, n), LineSet(T, n),
           NEW refs, RefsMirrored(refs, r, L, I, T), l.by # "label"
    PROVE  RefsMirrored(refs, s, L, I \cup {n + 1}, T)
<1>1. refs = NamesAt(s, Jumps(s, I) \cup T) \ NamesAt(s, L)
  <2>1. RefsMirrored(refs, s, L, I, T)
    BY RefsKeep
  <2> QED BY <2>1 DEF RefsMirrored
<1>2. Jumps(s, I \cup {n + 1}) = Jumps(s, I)
  BY DEF Longer, Jumps
<1> QED BY <1>1, <1>2 DEF RefsMirrored

Mirrored(b, r, L, I, T, D) ==
    /\ LabelsMirrored(b.labels, r, L, I)
    /\ InstrsMirrored(b.instrs, r, I)
    /\ RegionsMirrored(b.exc_entries, b.tb, r, I, T, D)
    /\ RefsMirrored(b.ref_labels, r, L, I, T)

LineSets(n, L, I, T, D) == LineSet(L, n) /\ LineSet(I, n) /\ LineSet(T, n) /\ LineSet(D, n)

LEMMA MirroredIdents ==
    ASSUME NEW b \in BlockT, NEW r, NEW n, NEW L, NEW I, NEW T, NEW D, LineSets(n, L, I, T, D),
           Mirrored(b, r, L, I, T, D)
    PROVE  Idents(b) = NamesAt(r, L) /\ Len(b.instrs) = Cardinality(I)
<1>1. b.labels \in Seq(LabelT) /\ LineSet(L, n) /\ LabelsMirrored(b.labels, r, L, I)
  BY DEF BlockT, LineSets, Mirrored
<1>2. {b.labels[k].ident : k \in DOMAIN b.labels} = NamesAt(r, L)
  BY <1>1, IdentsAre
<1>3. Len(b.instrs) = Cardinality(I)
  BY DEF Mirrored, InstrsMirrored
<1> QED BY <1>2, <1>3 DEF Idents

LEMMA MirroredKeep ==
    ASSUME NEW r, NEW s, NEW n, NEW l, Longer(r, s, n, l),
           NEW b, NEW L, NEW I, NEW T, NEW D, LineSets(n, L, I, T, D), Mirrored(b, r, L, I, T, D)
    PROVE  Mirrored(b, s, L, I, T, D)
<1>1. LineSet(L, n) /\ LineSet(I, n) /\ LineSet(T, n) /\ LineSet(D, n)
  BY DEF LineSets
<1>2. LabelsMirrored(b.labels, s, L, I)
  BY <1>1, LabelsKeep DEF Mirrored
<1>3. InstrsMirrored(b.instrs, s, I)
  BY <1>1, InstrsKeep DEF Mirrored
<1>4. RegionsMirrored(b.exc_entries, b.tb, s, I, T, D)
  BY <1>1, RegionsKeep DEF Mirrored
<1>5. RefsMirrored(b.ref_labels, s, L, I, T)
  BY <1>1, RefsKeep DEF Mirrored
<1> QED BY <1>2, <1>3, <1>4, <1>5 DEF Mirrored

LEMMA MirroredLabel ==
    ASSUME NEW r, NEW s, NEW n, NEW l \in Line, Longer(r, s, n, l),
           NEW b \in BlockT, NEW L, NEW I, NEW T, NEW D, LineSets(n, L, I, T, D),
           Mirrored(b, r, L, I, T, D), l.of \notin Idents(b)
    PROVE  Define(b, l.of) \in BlockT /\ Mirrored(Define(b, l.of), s, L \cup {n + 1}, I, T, D)
<1>1. LineSet(L, n) /\ LineSet(I, n) /\ LineSet(T, n) /\ LineSet(D, n)
  BY DEF LineSets
<1>2. Idents(b) = NamesAt(r, L) /\ Len(b.instrs) = Cardinality(I)
  BY MirroredIdents
<1> DEFINE new == [ident |-> l.of, index |-> Cardinality(I)]
           c == Define(b, l.of)
<1>3. /\ c.labels = Append(b.labels, new) /\ c.ref_labels = b.ref_labels \ {l.of}
      /\ c.instrs = b.instrs /\ c.exc_entries = b.exc_entries /\ c.tb = b.tb
      /\ c.header = b.header /\ c.codes = b.codes
  BY <1>2 DEF Define, BlockT
<1>4. b.labels \in Seq(LabelT)
  BY DEF BlockT
<1>5. LabelsMirrored(c.labels, s, L \cup {n + 1}, I)
  <2>1. LabelsMirrored(b.labels, r, L, I)
    BY DEF Mirrored
  <2>2. LabelsMirrored(Append(b.labels, new), s, L \cup {n + 1}, I)
    BY <1>1, <1>2, <1>4, <2>1, LabelsNext
  <2> QED BY <1>3, <2>2
<1>6. InstrsMirrored(c.instrs, s, I)
  <2>1. InstrsMirrored(b.instrs, r, I)
    BY DEF Mirrored
  <2>2. InstrsMirrored(b.instrs, s, I)
    BY <1>1, <2>1, InstrsKeep
  <2> QED BY <1>3, <2>2
<1>7. RegionsMirrored(c.exc_entries, c.tb, s, I, T, D)
  <2>1. RegionsMirrored(b.exc_entries, b.tb, r, I, T, D)
    BY DEF Mirrored
  <2>2. RegionsMirrored(b.exc_entries, b.tb, s, I, T, D)
    BY <1>1, <2>1, RegionsKeep
  <2> QED BY <1>3, <2>2
<1>8. RefsMirrored(c.ref_labels, s, L \cup {n + 1}, I, T)
  <2>1. RefsMirrored(b.ref_labels, r, L, I, T)
    BY DEF Mirrored
  <2>2. RefsMirrored(b.ref_labels \ {l.of}, s, L \cup {n + 1}, I, T)
    BY <1>1, <2>1, RefsDefine
  <2> QED BY <1>3, <2>2
<1>9. c \in BlockT
  <2>1. Cardinality(I) \in Nat
    BY <1>1, LineSetFinite
  <2>2. new \in LabelT
    BY <2>1 DEF LabelT, Ofs
  <2> HIDE DEF new
  <2>3. Append(b.labels, new) \in Seq(LabelT)
    BY <1>4, <2>2, AppendProperties
  <2> QED BY <1>3, <2>3 DEF BlockT, Define
<1> HIDE DEF c
<1>10. c \in BlockT /\ Mirrored(c, s, L \cup {n + 1}, I, T, D)
  BY <1>5, <1>6, <1>7, <1>8, <1>9 DEF Mirrored
<1> QED BY <1>10 DEF c

Begun(b, l) ==
    [Referring(b, l.of) EXCEPT !.tb = <<[handler |-> l.of, start |-> Len(b.instrs), lasti |-> l.lasti]>>]

Over(b) ==
    [b EXCEPT !.exc_entries = Append(@, [start |-> b.tb[1].start, stop |-> Len(b.instrs),
                                         handler |-> b.tb[1].handler, lasti |-> b.tb[1].lasti]),
              !.tb = <<>>]

Extended(b, l, n) ==
    [(IF l.by = "label" THEN Referring(b, l.of) ELSE b)
        EXCEPT !.instrs = Append(@, [by |-> l.by, of |-> l.of, ends |-> l.ends, lineno |-> n])]

LEMMA ReferringIs ==
    ASSUME NEW b \in BlockT, NEW l \in Line
    PROVE  LET c == Referring(b, l.of)
           IN  /\ c \in BlockT
               /\ c.ref_labels = IF l.of \in Idents(b) THEN b.ref_labels ELSE b.ref_labels \cup {l.of}
               /\ c.labels = b.labels /\ c.instrs = b.instrs /\ c.exc_entries = b.exc_entries
               /\ c.tb = b.tb /\ c.header = b.header /\ c.codes = b.codes
<1>1. b.ref_labels \cup {l.of} \in SUBSET Ofs
  BY DEF BlockT, Ofs
<1> QED BY <1>1 DEF Referring, BlockT

LEMMA MirroredTry ==
    ASSUME NEW r, NEW s, NEW n, NEW l \in Line, Longer(r, s, n, l),
           NEW b \in BlockT, NEW L, NEW I, NEW T, NEW D, LineSets(n, L, I, T, D),
           Mirrored(b, r, L, I, T, D), b.tb = <<>>, l.lasti \in BOOLEAN
    PROVE  Begun(b, l) \in BlockT /\ Mirrored(Begun(b, l), s, L, I, T \cup {n + 1}, D)
<1>1. LineSet(L, n) /\ LineSet(I, n) /\ LineSet(T, n) /\ LineSet(D, n)
  BY DEF LineSets
<1>2. Idents(b) = NamesAt(r, L) /\ Len(b.instrs) = Cardinality(I)
  BY MirroredIdents
<1>3. Cardinality(I) \in Nat
  BY <1>1, LineSetFinite
<1> DEFINE a == Referring(b, l.of)
           tb == <<[handler |-> l.of, start |-> Cardinality(I), lasti |-> l.lasti]>>
           c == Begun(b, l)
<1>4. /\ a \in BlockT
      /\ a.ref_labels = IF l.of \in NamesAt(r, L) THEN b.ref_labels ELSE b.ref_labels \cup {l.of}
      /\ a.labels = b.labels /\ a.instrs = b.instrs /\ a.exc_entries = b.exc_entries
  BY <1>2, ReferringIs
<1>5. c = [a EXCEPT !.tb = tb]
  BY <1>2 DEF Begun
<1>6. [handler |-> l.of, start |-> Cardinality(I), lasti |-> l.lasti] \in OpenT
  BY <1>3 DEF OpenT, Ofs
<1> HIDE DEF a, c
<1>7. c \in BlockT
  BY <1>4, <1>5, <1>6 DEF BlockT
<1>8. /\ c.ref_labels = IF l.of \in NamesAt(r, L) THEN b.ref_labels ELSE b.ref_labels \cup {l.of}
      /\ c.labels = b.labels /\ c.instrs = b.instrs /\ c.exc_entries = b.exc_entries /\ c.tb = tb
  BY <1>4, <1>5 DEF BlockT
<1> HIDE DEF tb
<1>9. LabelsMirrored(c.labels, s, L, I)
  <2>1. LabelsMirrored(b.labels, r, L, I)
    BY DEF Mirrored
  <2>2. LabelsMirrored(b.labels, s, L, I)
    BY <1>1, <2>1, LabelsKeep
  <2> QED BY <1>8, <2>2
<1>10. InstrsMirrored(c.instrs, s, I)
  <2>1. InstrsMirrored(b.instrs, r, I)
    BY DEF Mirrored
  <2>2. InstrsMirrored(b.instrs, s, I)
    BY <1>1, <2>1, InstrsKeep
  <2> QED BY <1>8, <2>2
<1>11. RegionsMirrored(c.exc_entries, c.tb, s, I, T \cup {n + 1}, D)
  <2>1. RegionsMirrored(b.exc_entries, <<>>, r, I, T, D)
    BY DEF Mirrored
  <2>2. RegionsMirrored(b.exc_entries, tb, s, I, T \cup {n + 1}, D)
    BY <1>1, <2>1, RegionsBegin DEF tb
  <2> QED BY <1>8, <2>2
<1>12. RefsMirrored(c.ref_labels, s, L, I, T \cup {n + 1})
  <2>1. RefsMirrored(b.ref_labels, r, L, I, T)
    BY DEF Mirrored
  <2> QED BY <1>1, <1>8, <2>1, RefsRefer
<1>13. Mirrored(c, s, L, I, T \cup {n + 1}, D)
  BY <1>9, <1>10, <1>11, <1>12 DEF Mirrored
<1> QED BY <1>7, <1>13 DEF c

LEMMA MirroredTried ==
    ASSUME NEW r, NEW s, NEW n, NEW l \in Line, Longer(r, s, n, l),
           NEW b \in BlockT, NEW L, NEW I, NEW T, NEW D, LineSets(n, L, I, T, D),
           Mirrored(b, r, L, I, T, D), b.tb # <<>>
    PROVE  Over(b) \in BlockT /\ Mirrored(Over(b), s, L, I, T, D \cup {n + 1})
<1>1. LineSet(L, n) /\ LineSet(I, n) /\ LineSet(T, n) /\ LineSet(D, n)
  BY DEF LineSets
<1>2. Len(b.instrs) = Cardinality(I)
  BY MirroredIdents
<1>3. Cardinality(I) \in Nat
  BY <1>1, LineSetFinite
<1> DEFINE new == [start |-> b.tb[1].start, stop |-> Cardinality(I), handler |-> b.tb[1].handler, lasti |-> b.tb[1].lasti]
           c == Over(b)
<1>4. b.tb \in {<<t>> : t \in OpenT} /\ b.exc_entries \in Seq(RegionT)
  BY DEF BlockT
<1>5. new \in RegionT
  <2>1. b.tb[1] \in OpenT
    BY <1>4
  <2> QED BY <1>3, <2>1 DEF OpenT, RegionT
<1>6. c = [b EXCEPT !.exc_entries = Append(@, new), !.tb = <<>>]
  BY <1>2 DEF Over
<1>7. Append(b.exc_entries, new) \in Seq(RegionT)
  <2> HIDE DEF new
  <2> QED BY <1>4, <1>5, AppendProperties
<1> HIDE DEF new
<1>8. /\ c \in BlockT
      /\ c.labels = b.labels /\ c.instrs = b.instrs /\ c.ref_labels = b.ref_labels
      /\ c.exc_entries = Append(b.exc_entries, new) /\ c.tb = <<>>
  <2> HIDE DEF c
  <2> QED BY <1>6, <1>7 DEF BlockT
<1> HIDE DEF c
<1>9. LabelsMirrored(c.labels, s, L, I)
  <2>1. LabelsMirrored(b.labels, r, L, I)
    BY DEF Mirrored
  <2>2. LabelsMirrored(b.labels, s, L, I)
    BY <1>1, <2>1, LabelsKeep
  <2> QED BY <1>8, <2>2
<1>10. InstrsMirrored(c.instrs, s, I)
  <2>1. InstrsMirrored(b.instrs, r, I)
    BY DEF Mirrored
  <2>2. InstrsMirrored(b.instrs, s, I)
    BY <1>1, <2>1, InstrsKeep
  <2> QED BY <1>8, <2>2
<1>11. RegionsMirrored(c.exc_entries, c.tb, s, I, T, D \cup {n + 1})
  <2>1. RegionsMirrored(b.exc_entries, b.tb, r, I, T, D)
    BY DEF Mirrored
  <2>2. RegionsMirrored(Append(b.exc_entries, new), <<>>, s, I, T, D \cup {n + 1})
    BY <1>1, <1>4, <2>1, RegionsEnd DEF new
  <2> QED BY <1>8, <2>2
<1>12. RefsMirrored(c.ref_labels, s, L, I, T)
  <2>1. RefsMirrored(b.ref_labels, r, L, I, T)
    BY DEF Mirrored
  <2>2. RefsMirrored(b.ref_labels, s, L, I, T)
    BY <1>1, <2>1, RefsKeep
  <2> QED BY <1>8, <2>2
<1>13. Mirrored(c, s, L, I, T, D \cup {n + 1})
  BY <1>9, <1>10, <1>11, <1>12 DEF Mirrored
<1> QED BY <1>8, <1>13 DEF c

LEMMA MirroredInstr ==
    ASSUME NEW r, NEW s, NEW n, NEW l \in Line, Longer(r, s, n, l),
           NEW b \in BlockT, NEW L, NEW I, NEW T, NEW D, LineSets(n, L, I, T, D),
           Mirrored(b, r, L, I, T, D), l.by \in {"nothing", "label", "bind", "code"}, l.ends \in BOOLEAN
    PROVE  /\ Extended(b, l, n + 1) \in BlockT
           /\ Mirrored(Extended(b, l, n + 1), s, L, I \cup {n + 1}, T, D)
<1>1. LineSet(L, n) /\ LineSet(I, n) /\ LineSet(T, n) /\ LineSet(D, n) /\ n + 1 \in Nat
  BY DEF LineSets, LineSet
<1>2. Idents(b) = NamesAt(r, L)
  BY MirroredIdents
<1> DEFINE a == IF l.by = "label" THEN Referring(b, l.of) ELSE b
           new == [by |-> l.by, of |-> l.of, ends |-> l.ends, lineno |-> n + 1]
           c == Extended(b, l, n + 1)
<1>3. /\ a \in BlockT
      /\ a.ref_labels = IF l.by # "label" \/ l.of \in NamesAt(r, L)
                        THEN b.ref_labels ELSE b.ref_labels \cup {l.of}
      /\ a.labels = b.labels /\ a.instrs = b.instrs /\ a.exc_entries = b.exc_entries /\ a.tb = b.tb
  BY <1>2, ReferringIs
<1>4. c = [a EXCEPT !.instrs = Append(@, new)]
  BY DEF Extended
<1>5. new \in InstrT
  BY <1>1 DEF InstrT, Ofs
<1>6. Append(b.instrs, new) \in Seq(InstrT) /\ b.instrs \in Seq(InstrT)
  <2>1. b.instrs \in Seq(InstrT)
    BY DEF BlockT
  <2> HIDE DEF new
  <2> QED BY <1>5, <2>1, AppendProperties
<1> HIDE DEF new, a
<1>7. /\ c \in BlockT
      /\ c.ref_labels = a.ref_labels
      /\ c.labels = b.labels /\ c.instrs = Append(b.instrs, new) /\ c.exc_entries = b.exc_entries
      /\ c.tb = b.tb
  <2> HIDE DEF c
  <2> QED BY <1>3, <1>4, <1>6 DEF BlockT
<1> HIDE DEF c
<1>8. LabelsMirrored(c.labels, s, L, I \cup {n + 1})
  <2>1. LabelsMirrored(b.labels, r, L, I)
    BY DEF Mirrored
  <2>2. LabelsMirrored(b.labels, s, L, I \cup {n + 1})
    BY <1>1, <2>1, LabelsKeep
  <2> QED BY <1>7, <2>2
<1>9. InstrsMirrored(c.instrs, s, I \cup {n + 1})
  <2>1. InstrsMirrored(b.instrs, r, I)
    BY DEF Mirrored
  <2>2. InstrsMirrored(Append(b.instrs, new), s, I \cup {n + 1})
    BY <1>1, <1>6, <2>1, InstrsNext DEF new
  <2> QED BY <1>7, <2>2
<1>10. RegionsMirrored(c.exc_entries, c.tb, s, I \cup {n + 1}, T, D)
  <2>1. RegionsMirrored(b.exc_entries, b.tb, r, I, T, D)
    BY DEF Mirrored
  <2>2. RegionsMirrored(b.exc_entries, b.tb, s, I \cup {n + 1}, T, D)
    BY <1>1, <2>1, RegionsKeep
  <2> QED BY <1>7, <2>2
<1>11. RefsMirrored(c.ref_labels, s, L, I \cup {n + 1}, T)
  <2>1. RefsMirrored(b.ref_labels, r, L, I, T)
    BY DEF Mirrored
  <2>2. CASE l.by = "label"
    <3>1. a.ref_labels = IF l.of \in NamesAt(r, L) THEN b.ref_labels ELSE b.ref_labels \cup {l.of}
      BY <1>3, <2>2
    <3>2. RefsMirrored(a.ref_labels, s, L, I \cup {n + 1}, T)
      BY <1>1, <2>1, <2>2, <3>1, RefsRefer
    <3> QED BY <1>7, <3>2
  <2>3. CASE l.by # "label"
    <3>1. RefsMirrored(b.ref_labels, s, L, I \cup {n + 1}, T)
      BY <1>1, <2>1, <2>3, RefsOther
    <3> QED BY <1>3, <1>7, <2>3, <3>1
  <2> QED BY <2>2, <2>3
<1>12. Mirrored(c, s, L, I \cup {n + 1}, T, D)
  BY <1>8, <1>9, <1>10, <1>11 DEF Mirrored
<1> QED BY <1>7, <1>12 DEF c

LEMMA MirroredNew ==
    ASSUME NEW h \in {Module} \cup Line, NEW r, NEW n \in Nat
    PROVE  Assembly(h) \in BlockT /\ Mirrored(Assembly(h), r, {}, {}, {}, {})
<1>1. Cardinality({}) = 0
  BY FS_EmptySet
<1>2. <<>> \in Seq(LabelT) /\ <<>> \in Seq(RegionT) /\ <<>> \in Seq(InstrT) /\ Len(<<>>) = 0
  BY EmptySeq
<1>3. <<>> \in UNION {[D -> Nat] : D \in SUBSET Ofs}
  <2>1. <<>> \in [{} -> Nat] /\ {} \in SUBSET Ofs
    OBVIOUS
  <2> QED BY <2>1
<1>4. Assembly(h) \in BlockT
  BY <1>2, <1>3 DEF Assembly, BlockT
<1>5. NamesAt(r, Jumps(r, {}) \cup {}) = {} /\ NamesAt(r, {}) = {}
  BY DEF NamesAt, Jumps
<1>6. LabelsMirrored(<<>>, r, {}, {})
  BY <1>1, <1>2 DEF LabelsMirrored
<1>7. InstrsMirrored(<<>>, r, {})
  BY <1>1, <1>2 DEF InstrsMirrored
<1>8. RegionsMirrored(<<>>, <<>>, r, {}, {}, {})
  BY <1>1, <1>2 DEF RegionsMirrored
<1>9. RefsMirrored({}, r, {}, {}, {})
  BY <1>5 DEF RefsMirrored
<1> QED BY <1>4, <1>6, <1>7, <1>8, <1>9 DEF Mirrored, Assembly

-----------------------------------------------------------------------------
(***************************************************************************)
(* The grammar of a source r, and of r with one more line.                 *)
(***************************************************************************)
KindLines(r, kind) == {i \in DOMAIN r : r[i].kind = kind}
DepthAt(r, i) ==
    Cardinality({j \in KindLines(r, "code") : j <= i}) - Cardinality({j \in KindLines(r, "end") : j <= i})
OwnerAt(r, i) ==
    Max({0} \cup {b \in KindLines(r, "code") :
                    b < i /\ \A k \in b .. i - 1 : DepthAt(r, k) >= DepthAt(r, b)})
OwnAt(r, b, kind) == {i \in KindLines(r, kind) : OwnerAt(r, i) = b}
BlocksAt(r) == {0} \cup KindLines(r, "code")

\* A block that has not ended.
StillAt(r, b) == \A k \in b .. Len(r) : DepthAt(r, k) >= DepthAt(r, b)

LEMMA KindLinesIs ==
    ASSUME NEW r \in Seq(Line), NEW kind
    PROVE  LineSet(KindLines(r, kind), Len(r))
<1>1. Len(r) \in Nat /\ DOMAIN r = 1 .. Len(r)
  BY LenProperties
<1> QED BY <1>1 DEF LineSet, KindLines

LEMMA KindLinesNext ==
    ASSUME NEW r \in Seq(Line), NEW l \in Line, NEW kind
    PROVE  KindLines(Append(r, l), kind) =
             KindLines(r, kind) \cup (IF l.kind = kind THEN {Len(r) + 1} ELSE {})
<1> DEFINE n == Len(r)
           s == Append(r, l)
<1>1. /\ n \in Nat /\ DOMAIN r = 1 .. n
      /\ Len(s) = n + 1 /\ s[n + 1] = l
      /\ \A i \in 1 .. n : s[i] = r[i]
  BY LenProperties, AppendProperties
<1>2. DOMAIN s = 1 .. n + 1
  <2>1. s \in Seq(Line)
    BY AppendProperties
  <2> HIDE DEF s
  <2> QED BY <1>1, <2>1, LenProperties
<1> HIDE DEF n, s
<1>3. DOMAIN s = DOMAIN r \cup {n + 1} /\ n + 1 \notin DOMAIN r
  BY <1>1, <1>2
<1>4. KindLines(s, kind) = KindLines(r, kind) \cup (IF l.kind = kind THEN {n + 1} ELSE {})
  BY <1>1, <1>3 DEF KindLines
<1> QED BY <1>4 DEF n, s

LEMMA DepthIs ==
    ASSUME NEW r \in Seq(Line), NEW i
    PROVE  DepthAt(r, i) \in Int
<1> DEFINE U(kind) == {j \in KindLines(r, kind) : j <= i}
<1>1. ASSUME NEW kind PROVE Cardinality(U(kind)) \in Nat
  <2>1. LineSet(KindLines(r, kind), Len(r))
    BY KindLinesIs
  <2>2. IsFiniteSet(KindLines(r, kind)) /\ U(kind) \in SUBSET KindLines(r, kind)
    BY <2>1, LineSetFinite
  <2> HIDE DEF U
  <2>3. IsFiniteSet(U(kind))
    BY <2>2, FS_Subset
  <2> QED BY <2>3, FS_CardinalityType
<1>2. Cardinality(U("code")) \in Nat /\ Cardinality(U("end")) \in Nat
  BY <1>1
<1> QED BY <1>2 DEF DepthAt

LEMMA DepthZero ==
    ASSUME NEW r \in Seq(Line)
    PROVE  DepthAt(r, 0) = 0
<1>1. ASSUME NEW kind PROVE {j \in KindLines(r, kind) : j <= 0} = {}
  <2>1. LineSet(KindLines(r, kind), Len(r))
    BY KindLinesIs
  <2> QED BY <2>1 DEF LineSet
<1>2. Cardinality({}) = 0
  BY FS_EmptySet
<1>3. DepthAt(r, 0) = Cardinality({j \in KindLines(r, "code") : j <= 0})
                        - Cardinality({j \in KindLines(r, "end") : j <= 0})
  BY DEF DepthAt
<1>4. DepthAt(r, 0) = Cardinality({}) - Cardinality({})
  BY <1>1, <1>3, Zenon
<1> QED BY <1>2, <1>4

LEMMA DepthNext ==
    ASSUME NEW r \in Seq(Line), NEW l \in Line
    PROVE  /\ \A i \in 0 .. Len(r) : DepthAt(Append(r, l), i) = DepthAt(r, i)
           /\ DepthAt(Append(r, l), Len(r) + 1) =
                DepthAt(r, Len(r)) + (IF l.kind = "code" THEN 1 ELSE IF l.kind = "end" THEN -1 ELSE 0)
<1> DEFINE n == Len(r)
           s == Append(r, l)
           C(q, kind, i) == Cardinality({j \in KindLines(q, kind) : j <= i})
<1>1. n \in Nat
  BY LenProperties
<1>2. ASSUME NEW kind
      PROVE  /\ \A i \in 0 .. n : C(s, kind, i) = C(r, kind, i)
             /\ C(s, kind, n + 1) = C(r, kind, n) + (IF l.kind = kind THEN 1 ELSE 0)
             /\ C(r, kind, n) \in Nat
  <2> DEFINE K == KindLines(r, kind)
  <2>1. K \subseteq 1 .. n /\ IsFiniteSet(K) /\ Cardinality(K) \in Nat
    <3>1. LineSet(K, n)
      BY KindLinesIs
    <3> QED BY <3>1, LineSetFinite DEF LineSet
  <2>2. KindLines(s, kind) = K \cup (IF l.kind = kind THEN {n + 1} ELSE {})
    BY KindLinesNext
  <2> HIDE DEF K, s
  <2>3. ASSUME NEW i \in 0 .. n PROVE {j \in KindLines(s, kind) : j <= i} = {j \in K : j <= i}
    <3>1. ~ (n + 1 <= i)
      BY <1>1
    <3> QED BY <2>2, <3>1
  <2>4. {j \in KindLines(s, kind) : j <= n + 1} = KindLines(s, kind) /\ {j \in K : j <= n} = K
    <3>1. \A j \in K : j <= n /\ j <= n + 1
      BY <1>1, <2>1
    <3>2. n + 1 <= n + 1
      BY <1>1
    <3> QED BY <2>2, <3>1, <3>2
  <2>5. n + 1 \notin K
    BY <1>1, <2>1
  <2>6. Cardinality(KindLines(s, kind)) = Cardinality(K) + (IF l.kind = kind THEN 1 ELSE 0)
    <3>1. CASE l.kind = kind
      <4>1. KindLines(s, kind) = K \cup {n + 1}
        BY <2>2, <3>1
      <4>2. Cardinality(K \cup {n + 1}) = Cardinality(K) + 1
        BY <2>1, <2>5, FS_AddElement
      <4> QED BY <3>1, <4>1, <4>2
    <3>2. CASE l.kind # kind
      BY <2>1, <2>2, <3>2
    <3> QED BY <3>1, <3>2
  <2> QED BY <2>1, <2>3, <2>4, <2>6 DEF K
<1>3. \A i : DepthAt(r, i) = C(r, "code", i) - C(r, "end", i) /\ DepthAt(s, i) = C(s, "code", i) - C(s, "end", i)
  BY DEF DepthAt
<1> HIDE DEF C, s
<1>4. \A i \in 0 .. n : DepthAt(s, i) = DepthAt(r, i)
  <2>1. \A i \in 0 .. n : C(s, "code", i) = C(r, "code", i) /\ C(s, "end", i) = C(r, "end", i)
    BY <1>2
  <2> QED BY <1>3, <2>1
<1>5. DepthAt(s, n + 1) = DepthAt(r, n) + (IF l.kind = "code" THEN 1 ELSE IF l.kind = "end" THEN -1 ELSE 0)
  <2>1. /\ C(s, "code", n + 1) = C(r, "code", n) + (IF l.kind = "code" THEN 1 ELSE 0)
        /\ C(s, "end", n + 1) = C(r, "end", n) + (IF l.kind = "end" THEN 1 ELSE 0)
        /\ C(r, "code", n) \in Nat /\ C(r, "end", n) \in Nat
    BY <1>2
  <2> QED BY <1>3, <2>1
<1> QED BY <1>4, <1>5 DEF s

LEMMA OwnerIs ==
    ASSUME NEW r \in Seq(Line), NEW i \in 1 .. Len(r) + 1
    PROVE  /\ OwnerAt(r, i) \in BlocksAt(r) /\ OwnerAt(r, i) \in 0 .. i - 1
           /\ \A k \in OwnerAt(r, i) .. i - 1 : OwnerAt(r, i) = 0 \/ DepthAt(r, k) >= DepthAt(r, OwnerAt(r, i))
           /\ \A b \in KindLines(r, "code") :
                 b < i /\ (\A k \in b .. i - 1 : DepthAt(r, k) >= DepthAt(r, b)) => b <= OwnerAt(r, i)
<1> DEFINE n == Len(r)
           S == {b \in KindLines(r, "code") : b < i /\ \A k \in b .. i - 1 : DepthAt(r, k) >= DepthAt(r, b)}
           T == {0} \cup S
<1>1. n \in Nat /\ KindLines(r, "code") \subseteq 1 .. n
  <2>1. LineSet(KindLines(r, "code"), Len(r))
    BY KindLinesIs
  <2> QED BY <2>1 DEF LineSet
<1>2. T \in SUBSET (0 .. n) /\ T # {}
  BY <1>1
<1>3. OwnerAt(r, i) = Max(T)
  BY DEF OwnerAt
<1>4. Max(T) \in T /\ \A b \in T : b <= Max(T)
  <2> HIDE DEF T
  <2> QED BY <1>1, <1>2, MaxIs
<1>5. OwnerAt(r, i) = 0 \/ OwnerAt(r, i) \in S
  BY <1>3, <1>4
<1>6. \A b \in S : b <= OwnerAt(r, i)
  BY <1>3, <1>4
<1>7. OwnerAt(r, i) \in 0 .. i - 1
  BY <1>1, <1>5
<1> QED BY <1>5, <1>6, <1>7 DEF BlocksAt

LEMMA OwnerNext ==
    ASSUME NEW r \in Seq(Line), NEW l \in Line
    PROVE  \A i \in 1 .. Len(r) : OwnerAt(Append(r, l), i) = OwnerAt(r, i)
<1> DEFINE n == Len(r)
           s == Append(r, l)
<1> TAKE i \in 1 .. n
<1>1. n \in Nat /\ KindLines(r, "code") \subseteq 1 .. n
  <2>1. LineSet(KindLines(r, "code"), Len(r))
    BY KindLinesIs
  <2> QED BY <2>1 DEF LineSet
<1>2. \A k \in 0 .. n : DepthAt(s, k) = DepthAt(r, k)
  BY DepthNext
<1>3. KindLines(s, "code") = KindLines(r, "code") \cup (IF l.kind = "code" THEN {n + 1} ELSE {})
  BY KindLinesNext
<1> DEFINE S(q) == {b \in KindLines(q, "code") : b < i /\ \A k \in b .. i - 1 : DepthAt(q, k) >= DepthAt(q, b)}
<1> HIDE DEF s
<1>4. S(s) = S(r)
  <2>1. ~ (n + 1 < i)
    BY <1>1
  <2>2. ASSUME NEW b \in 1 .. n PROVE \A k \in b .. i - 1 : DepthAt(s, k) = DepthAt(r, k)
    BY <1>1, <1>2
  <2>3. \A b \in 1 .. n : DepthAt(s, b) = DepthAt(r, b)
    BY <1>2
  <2>4. ASSUME NEW b \in KindLines(r, "code")
        PROVE  b \in S(s) <=> b \in S(r)
    BY <1>1, <1>3, <2>2, <2>3
  <2>5. \A b \in S(s) : b \in KindLines(r, "code")
    BY <1>3, <2>1
  <2>6. \A b \in S(r) : b \in KindLines(r, "code")
    OBVIOUS
  <2> HIDE DEF S
  <2> QED BY <2>4, <2>5, <2>6
<1>5. OwnerAt(s, i) = OwnerAt(r, i)
  BY <1>4 DEF OwnerAt
<1> QED BY <1>5 DEF s

\* The next line belongs to the last block begun that has not ended.
LEMMA OwnerOfNext ==
    ASSUME NEW r \in Seq(Line), NEW l \in Line,
           NEW top \in BlocksAt(r), StillAt(r, top), \A b \in BlocksAt(r) : StillAt(r, b) => b <= top
    PROVE  OwnerAt(Append(r, l), Len(r) + 1) = top
<1> DEFINE n == Len(r)
           s == Append(r, l)
           T == {0} \cup {b \in KindLines(s, "code") :
                            b < n + 1 /\ \A k \in b .. (n + 1) - 1 : DepthAt(s, k) >= DepthAt(s, b)}
<1>1. n \in Nat /\ KindLines(r, "code") \subseteq 1 .. n
  <2>1. LineSet(KindLines(r, "code"), Len(r))
    BY KindLinesIs
  <2> QED BY <2>1 DEF LineSet
<1>2. \A k \in 0 .. n : DepthAt(s, k) = DepthAt(r, k)
  BY DepthNext
<1>3. KindLines(s, "code") = KindLines(r, "code") \cup (IF l.kind = "code" THEN {n + 1} ELSE {})
  BY KindLinesNext
<1>4. OwnerAt(s, n + 1) = Max(T)
  BY DEF OwnerAt
<1> HIDE DEF s
<1>5. T = {0} \cup {b \in KindLines(r, "code") : StillAt(r, b)}
  <2>1. ASSUME NEW b \in KindLines(r, "code")
        PROVE  b \in T <=> StillAt(r, b)
    <3>1. b \in 1 .. n /\ b < n + 1 /\ (n + 1) - 1 = n /\ b # 0
      BY <1>1
    <3>2. \A k \in b .. n : DepthAt(s, k) = DepthAt(r, k) /\ DepthAt(s, b) = DepthAt(r, b)
      BY <1>2, <3>1
    <3> QED BY <1>3, <3>1, <3>2 DEF StillAt
  <2>2. \A b \in T : b = 0 \/ b \in KindLines(r, "code")
    BY <1>1, <1>3
  <2> QED BY <2>1, <2>2
<1>6. top \in T /\ \A b \in T : b <= top
  <2>1. T \subseteq Nat
    BY <1>1, <1>5
  <2>2. top \in T
    BY <1>5 DEF BlocksAt
  <2>3. ASSUME NEW b \in KindLines(r, "code"), StillAt(r, b) PROVE b <= top
    BY <2>3 DEF BlocksAt
  <2>4. 0 <= top
    <3> HIDE DEF T
    <3> QED BY <2>1, <2>2
  <2> HIDE DEF n
  <2> QED BY <1>5, <2>2, <2>3, <2>4
<1>7. T \in SUBSET (0 .. n) /\ T # {}
  BY <1>1, <1>5
<1> HIDE DEF T
<1>8. Max(T) \in T /\ \A b \in T : b <= Max(T)
  BY <1>1, <1>7, MaxIs
<1>9. Max(T) = top
  <2>1. Max(T) <= top /\ top <= Max(T)
    BY <1>6, <1>8
  <2>2. Max(T) \in Int /\ top \in Int
    <3>1. \A b \in T : b \in Int
      BY <1>1, <1>7
    <3> QED BY <1>6, <1>8, <3>1
  <2> QED BY <2>1, <2>2
<1> QED BY <1>4, <1>9 DEF s

LEMMA OwnNext ==
    ASSUME NEW r \in Seq(Line), NEW l \in Line, NEW b, NEW kind,
           NEW top \in BlocksAt(r), StillAt(r, top), \A c \in BlocksAt(r) : StillAt(r, c) => c <= top
    PROVE  OwnAt(Append(r, l), b, kind) =
             OwnAt(r, b, kind) \cup (IF l.kind = kind /\ b = top THEN {Len(r) + 1} ELSE {})
<1> DEFINE n == Len(r)
           s == Append(r, l)
<1>1. KindLines(s, kind) = KindLines(r, kind) \cup (IF l.kind = kind THEN {n + 1} ELSE {})
  BY KindLinesNext
<1>2. \A i \in 1 .. n : OwnerAt(s, i) = OwnerAt(r, i)
  BY OwnerNext
<1>3. OwnerAt(s, n + 1) = top
  BY OwnerOfNext
<1>4. KindLines(r, kind) \subseteq 1 .. n
  <2>1. LineSet(KindLines(r, kind), Len(r))
    BY KindLinesIs
  <2> QED BY <2>1 DEF LineSet
<1> HIDE DEF s, n
<1>5. OwnAt(s, b, kind) = OwnAt(r, b, kind) \cup (IF l.kind = kind /\ b = top THEN {n + 1} ELSE {})
  BY <1>1, <1>2, <1>3, <1>4 DEF OwnAt
<1> QED BY <1>5 DEF s, n

LEMMA OwnIs ==
    ASSUME NEW r \in Seq(Line), NEW b, NEW kind
    PROVE  LineSet(OwnAt(r, b, kind), Len(r))
<1>1. LineSet(KindLines(r, kind), Len(r))
  BY KindLinesIs
<1> QED BY <1>1 DEF LineSet, OwnAt


LEMMA BlocksAre ==
    ASSUME NEW r \in Seq(Line)
    PROVE  /\ Len(r) \in Nat /\ BlocksAt(r) \subseteq 0 .. Len(r) /\ 0 \in BlocksAt(r)
           /\ DOMAIN r = 1 .. Len(r)
<1>1. LineSet(KindLines(r, "code"), Len(r))
  BY KindLinesIs
<1>2. Len(r) \in Nat /\ DOMAIN r = 1 .. Len(r)
  BY LenProperties
<1> QED BY <1>1, <1>2 DEF LineSet, BlocksAt

LEMMA BlocksNext ==
    ASSUME NEW r \in Seq(Line), NEW l \in Line
    PROVE  BlocksAt(Append(r, l)) = BlocksAt(r) \cup (IF l.kind = "code" THEN {Len(r) + 1} ELSE {})
<1>1. KindLines(Append(r, l), "code") =
        KindLines(r, "code") \cup (IF l.kind = "code" THEN {Len(r) + 1} ELSE {})
  BY KindLinesNext
<1> QED BY <1>1 DEF BlocksAt

LEMMA AppendIs ==
    ASSUME NEW r \in Seq(Line), NEW l \in Line
    PROVE  /\ Append(r, l) \in Seq(Line) /\ Len(Append(r, l)) = Len(r) + 1 /\ Len(r) \in Nat
           /\ Longer(r, Append(r, l), Len(r), l)
<1>1. /\ Append(r, l) \in Seq(Line) /\ Len(Append(r, l)) = Len(r) + 1 /\ Len(r) \in Nat
      /\ Append(r, l)[Len(r) + 1] = l
      /\ \A i \in 1 .. Len(r) : Append(r, l)[i] = r[i]
  BY LenProperties, AppendProperties
<1> QED BY <1>1 DEF Longer

LEMMA StillNext ==
    ASSUME NEW r \in Seq(Line), NEW l \in Line
    PROVE  LET s == Append(r, l)
           IN  /\ \A b \in 0 .. Len(r) :
                    StillAt(s, b) <=> StillAt(r, b) /\ DepthAt(s, Len(r) + 1) >= DepthAt(r, b)
               /\ StillAt(s, Len(r) + 1)
<1> DEFINE n == Len(r)
           s == Append(r, l)
<1>1. n \in Nat /\ Len(s) = n + 1 /\ s \in Seq(Line)
  BY AppendIs
<1>2. \A i \in 0 .. n : DepthAt(s, i) = DepthAt(r, i)
  BY DepthNext
<1>3. \A i : DepthAt(s, i) \in Int
  BY <1>1, DepthIs
<1> HIDE DEF s
<1>4. ASSUME NEW b \in 0 .. n
      PROVE  StillAt(s, b) <=> StillAt(r, b) /\ DepthAt(s, n + 1) >= DepthAt(r, b)
  <2>1. b .. Len(s) = (b .. n) \cup {n + 1} /\ b .. n \subseteq 0 .. n
    BY <1>1
  <2> HIDE DEF n
  <2> QED BY <1>2, <2>1 DEF StillAt, n
<1>5. StillAt(s, n + 1)
  <2>1. \A k \in n + 1 .. Len(s) : k = n + 1
    BY <1>1
  <2>2. DepthAt(s, n + 1) >= DepthAt(s, n + 1)
    BY <1>3
  <2> QED BY <2>1, <2>2 DEF StillAt
<1> QED BY <1>4, <1>5 DEF s

-----------------------------------------------------------------------------
(***************************************************************************)
(* What is known while reading.  h says where the header of each of the m  *)
(* Assemblies is, N which of them are being read.                          *)
(***************************************************************************)
Homes(r, m, h) ==
    /\ m \in Nat \ {0}
    /\ h \in [1 .. m -> BlocksAt(r)]
    /\ h[1] = 0
    /\ \A j, k \in 1 .. m : j < k => h[j] < h[k]
    /\ \A c \in BlocksAt(r) : \E k \in 1 .. m : h[k] = c

Nested(r, m, N, h) ==
    /\ N \in Seq(1 .. m) /\ Len(N) \in Nat \ {0} /\ N[1] = 1
    /\ \A d \in 1 .. Len(N) : StillAt(r, h[N[d]]) /\ DepthAt(r, h[N[d]]) = d - 1
    /\ \A d, e \in 1 .. Len(N) : d < e => h[N[d]] < h[N[e]]
    /\ \A b \in BlocksAt(r) : StillAt(r, b) => \E d \in 1 .. Len(N) : h[N[d]] = b
    /\ DepthAt(r, Len(r)) = Len(N) - 1
    /\ \A i \in 0 .. Len(r) : DepthAt(r, i) >= 0

LEMMA NestedIn ==
    ASSUME NEW r, NEW m, NEW N, NEW h, Nested(r, m, N, h)
    PROVE  N \in Seq(1 .. m) /\ Len(N) \in Nat \ {0} /\ \A d \in 1 .. Len(N) : N[d] \in 1 .. m
<1>1. N \in Seq(1 .. m) /\ Len(N) \in Nat \ {0}
  BY DEF Nested
<1>2. \A d \in 1 .. Len(N) : N[d] \in 1 .. m
  BY <1>1, ElementOfSeq
<1> QED BY <1>1, <1>2

LEMMA TopIs ==
    ASSUME NEW r \in Seq(Line), NEW m, NEW N, NEW h, Homes(r, m, h), Nested(r, m, N, h)
    PROVE  /\ Last(N) \in 1 .. m
           /\ h[Last(N)] \in BlocksAt(r) /\ StillAt(r, h[Last(N)])
           /\ \A b \in BlocksAt(r) : StillAt(r, b) => b <= h[Last(N)]
<1> DEFINE top == h[Last(N)]
<1>1. /\ N \in Seq(1 .. m) /\ Len(N) \in Nat \ {0}
      /\ \A d \in 1 .. Len(N) : StillAt(r, h[N[d]])
      /\ \A d, e \in 1 .. Len(N) : d < e => h[N[d]] < h[N[e]]
      /\ \A b \in BlocksAt(r) : StillAt(r, b) => \E d \in 1 .. Len(N) : h[N[d]] = b
  BY DEF Nested
<1>2. Last(N) = N[Len(N)] /\ Len(N) \in 1 .. Len(N) /\ N[Len(N)] \in 1 .. m
  <2>1. Len(N) \in 1 .. Len(N)
    BY <1>1
  <2>2. \A d \in 1 .. Len(N) : N[d] \in 1 .. m
    BY NestedIn
  <2> QED BY <2>1, <2>2 DEF Last
<1>3. h[Last(N)] \in BlocksAt(r)
  BY <1>2 DEF Homes
<1>4. BlocksAt(r) \subseteq Nat
  BY BlocksAre
<1>5. ASSUME NEW b \in BlocksAt(r), StillAt(r, b) PROVE b <= h[Last(N)]
  <2>1. PICK d \in 1 .. Len(N) : h[N[d]] = b
    BY <1>1, <1>5
  <2>2. CASE d = Len(N)
    BY <1>2, <1>4, <2>1, <2>2
  <2>3. CASE d < Len(N)
    BY <1>1, <1>2, <1>3, <1>4, <2>1, <2>3
  <2> QED BY <1>1, <2>2, <2>3
<1> QED BY <1>1, <1>2, <1>3, <1>5

LEMMA HomesKeep ==
    ASSUME NEW r \in Seq(Line), NEW l \in Line, l.kind # "code", NEW m, NEW h, Homes(r, m, h)
    PROVE  Homes(Append(r, l), m, h)
<1>1. BlocksAt(Append(r, l)) = BlocksAt(r)
  BY BlocksNext
<1> QED BY <1>1 DEF Homes

LEMMA HomesNext ==
    ASSUME NEW r \in Seq(Line), NEW l \in Line, l.kind = "code", NEW m, NEW h, Homes(r, m, h),
           NEW g, g = [k \in 1 .. m + 1 |-> IF k = m + 1 THEN Len(r) + 1 ELSE h[k]]
    PROVE  Homes(Append(r, l), m + 1, g)
<1> DEFINE n == Len(r)
<1>1. BlocksAt(Append(r, l)) = BlocksAt(r) \cup {n + 1}
  BY BlocksNext
<1>2. n \in Nat /\ BlocksAt(r) \subseteq 0 .. n
  BY BlocksAre
<1>3. m \in Nat \ {0} /\ m + 1 \in Nat \ {0} /\ 1 .. m + 1 = (1 .. m) \cup {m + 1} /\ m + 1 \notin 1 .. m
  BY DEF Homes
<1>4. /\ \A k \in 1 .. m : g[k] = h[k] /\ h[k] \in BlocksAt(r)
      /\ g[m + 1] = n + 1
  BY <1>3 DEF Homes
<1>5. g \in [1 .. m + 1 -> BlocksAt(Append(r, l))]
  BY <1>1, <1>3, <1>4
<1>6. g[1] = 0
  BY <1>3, <1>4 DEF Homes
<1>7. ASSUME NEW j \in 1 .. m + 1, NEW k \in 1 .. m + 1, j < k PROVE g[j] < g[k]
  <2>1. j \in 1 .. m
    BY <1>3, <1>7
  <2>2. CASE k = m + 1
    <3>1. g[j] \in 0 .. n
      BY <1>2, <1>4, <2>1
    <3> QED BY <1>2, <1>4, <2>2, <3>1
  <2>3. CASE k \in 1 .. m
    BY <1>4, <1>7, <2>1, <2>3 DEF Homes
  <2> QED BY <1>3, <2>2, <2>3
<1>8. ASSUME NEW c \in BlocksAt(Append(r, l)) PROVE \E k \in 1 .. m + 1 : g[k] = c
  <2>1. CASE c = n + 1
    BY <1>3, <1>4, <2>1
  <2>2. CASE c \in BlocksAt(r)
    <3>1. PICK k \in 1 .. m : h[k] = c
      BY <2>2 DEF Homes
    <3> QED BY <1>3, <1>4, <3>1
  <2> QED BY <1>1, <2>1, <2>2
<1> QED BY <1>3, <1>5, <1>6, <1>7, <1>8 DEF Homes

\* A line that neither begins nor ends a block.
LEMMA NestedKeep ==
    ASSUME NEW r \in Seq(Line), NEW l \in Line, l.kind \notin {"code", "end"},
           NEW m, NEW N, NEW h, Homes(r, m, h), Nested(r, m, N, h)
    PROVE  Nested(Append(r, l), m, N, h)
<1> DEFINE n == Len(r)
           s == Append(r, l)
<1>1. n \in Nat /\ Len(s) = n + 1 /\ BlocksAt(r) \subseteq 0 .. n
  BY AppendIs, BlocksAre
<1>2. BlocksAt(s) = BlocksAt(r)
  BY BlocksNext
<1>3. /\ \A i \in 0 .. n : DepthAt(s, i) = DepthAt(r, i)
      /\ DepthAt(s, n + 1) = DepthAt(r, n)
  <2>1. DepthAt(r, n) \in Int
    BY DepthIs
  <2>2. /\ \A i \in 0 .. n : DepthAt(s, i) = DepthAt(r, i)
        /\ DepthAt(s, n + 1) = DepthAt(r, n) + 0
    BY DepthNext
  <2> QED BY <2>1, <2>2
<1>4. \A b \in 0 .. n : StillAt(s, b) <=> StillAt(r, b) /\ DepthAt(s, n + 1) >= DepthAt(r, b)
  BY StillNext
<1> HIDE DEF s, n
<1>5. \A b \in 0 .. n : StillAt(s, b) <=> StillAt(r, b)
  <2>1. \A b \in 0 .. n : StillAt(r, b) => DepthAt(r, n) >= DepthAt(r, b)
    BY <1>1 DEF StillAt, n
  <2> QED BY <1>3, <1>4, <2>1
<1>6. ASSUME NEW d \in 1 .. Len(N)
      PROVE  h[N[d]] \in 0 .. n
  <2>1. N[d] \in 1 .. m
    BY NestedIn
  <2> QED BY <1>1, <2>1 DEF Homes
<1>7. \A d \in 1 .. Len(N) : StillAt(s, h[N[d]]) /\ DepthAt(s, h[N[d]]) = d - 1
  BY <1>3, <1>5, <1>6 DEF Nested
<1>8. \A b \in BlocksAt(s) : StillAt(s, b) => \E d \in 1 .. Len(N) : h[N[d]] = b
  BY <1>1, <1>2, <1>5 DEF Nested
<1>9. DepthAt(s, Len(s)) = Len(N) - 1
  BY <1>1, <1>3 DEF Nested, n
<1>10. \A i \in 0 .. Len(s) : DepthAt(s, i) >= 0
  <2>1. \A i \in 0 .. n : DepthAt(r, i) >= 0
    BY DEF Nested, n
  <2>2. 0 .. Len(s) = (0 .. n) \cup {n + 1} /\ n \in 0 .. n
    BY <1>1
  <2> QED BY <1>3, <2>1, <2>2
<1>11. Nested(s, m, N, h)
  BY <1>7, <1>8, <1>9, <1>10 DEF Nested
<1> QED BY <1>11 DEF s

LEMMA NestedBegin ==
    ASSUME NEW r \in Seq(Line), NEW l \in Line, l.kind = "code",
           NEW m, NEW N, NEW h, Homes(r, m, h), Nested(r, m, N, h),
           NEW g, g = [k \in 1 .. m + 1 |-> IF k = m + 1 THEN Len(r) + 1 ELSE h[k]]
    PROVE  Nested(Append(r, l), m + 1, Append(N, m + 1), g)
<1> DEFINE n == Len(r)
           s == Append(r, l)
           M == Append(N, m + 1)
           q == Len(N)
<1>1. n \in Nat /\ Len(s) = n + 1 /\ BlocksAt(r) \subseteq 0 .. n
  BY AppendIs, BlocksAre
<1>2. BlocksAt(s) = BlocksAt(r) \cup {n + 1}
  BY BlocksNext
<1>3. /\ \A i \in 0 .. n : DepthAt(s, i) = DepthAt(r, i)
      /\ DepthAt(s, n + 1) = DepthAt(r, n) + 1
  BY DepthNext
<1>4. /\ \A b \in 0 .. n : StillAt(s, b) <=> StillAt(r, b) /\ DepthAt(s, n + 1) >= DepthAt(r, b)
      /\ StillAt(s, n + 1)
  BY StillNext
<1>5. /\ m \in Nat \ {0} /\ N \in Seq(1 .. m) /\ q \in Nat \ {0}
      /\ \A d \in 1 .. q : N[d] \in 1 .. m
  <2>1. m \in Nat \ {0}
    BY DEF Homes
  <2> QED BY <2>1, NestedIn
<1>6. /\ M \in Seq(1 .. m + 1) /\ Len(M) = q + 1 /\ M[q + 1] = m + 1
      /\ \A d \in 1 .. q : M[d] = N[d]
  <2>1. N \in Seq(1 .. m + 1) /\ m + 1 \in 1 .. m + 1
    BY <1>5
  <2> QED BY <2>1, AppendProperties
<1>7. /\ \A d \in 1 .. q : g[M[d]] = h[N[d]] /\ h[N[d]] \in 0 .. n
      /\ g[M[q + 1]] = n + 1
  <2>1. \A k \in 1 .. m : k \in 1 .. m + 1 /\ k # m + 1 /\ h[k] \in 0 .. n
    BY <1>1, <1>5 DEF Homes
  <2>2. m + 1 \in 1 .. m + 1
    BY <1>5
  <2>3. \A d \in 1 .. q : M[d] \in 1 .. m /\ M[d] = N[d]
    BY <1>5, <1>6
  <2> HIDE DEF M, q, n
  <2> QED BY <1>6, <2>1, <2>2, <2>3 DEF n
<1>8. 1 .. Len(M) = (1 .. q) \cup {q + 1}
  BY <1>5, <1>6
<1>9. DepthAt(r, n) = q - 1 /\ DepthAt(s, n + 1) = q
  BY <1>3, <1>5 DEF Nested
<1> HIDE DEF s, n, M, q
<1>10. \A b \in 0 .. n : StillAt(s, b) <=> StillAt(r, b)
  <2>1. \A b \in 0 .. n : StillAt(r, b) => DepthAt(r, n) >= DepthAt(r, b)
    BY <1>1 DEF StillAt, n
  <2>2. \A b : DepthAt(r, b) \in Int
    BY DepthIs
  <2>3. q \in Int
    BY <1>5
  <2> QED BY <1>4, <1>9, <2>1, <2>2, <2>3
<1>11. \A d \in 1 .. Len(M) : StillAt(s, g[M[d]]) /\ DepthAt(s, g[M[d]]) = d - 1
  <2>1. \A d \in 1 .. q : StillAt(s, g[M[d]]) /\ DepthAt(s, g[M[d]]) = d - 1
    BY <1>3, <1>7, <1>10 DEF Nested, q
  <2>2. (q + 1) - 1 = q
    BY <1>5
  <2> QED BY <1>4, <1>7, <1>8, <1>9, <2>1, <2>2
<1>12. \A d, e \in 1 .. Len(M) : d < e => g[M[d]] < g[M[e]]
  <2>1. \A d, e \in 1 .. q : d < e => g[M[d]] < g[M[e]]
    BY <1>7 DEF Nested, q
  <2>2. \A d \in 1 .. q : g[M[d]] < g[M[q + 1]] /\ ~ (q + 1 < d)
    <3>1. \A d \in 1 .. q : ~ (q + 1 < d)
      BY <1>5
    <3>2. \A i \in 0 .. n : i < n + 1
      BY <1>1
    <3>3. \A d \in 1 .. q : g[M[d]] \in 0 .. n
      BY <1>7
    <3> QED BY <1>7, <3>1, <3>2, <3>3
  <2>3. ~ (q + 1 < q + 1)
    BY <1>5
  <2> QED BY <1>8, <2>1, <2>2, <2>3
<1>13. \A b \in BlocksAt(s) : StillAt(s, b) => \E d \in 1 .. Len(M) : g[M[d]] = b
  <2>1. \A b \in BlocksAt(r) : StillAt(r, b) => \E d \in 1 .. q : h[N[d]] = b
    BY DEF Nested, q
  <2>2. \A b \in BlocksAt(r) : StillAt(s, b) => \E d \in 1 .. q : g[M[d]] = b
    BY <1>1, <1>7, <1>10, <2>1
  <2> QED BY <1>2, <1>7, <1>8, <2>2
<1>14. DepthAt(s, Len(s)) = Len(M) - 1
  BY <1>1, <1>5, <1>6, <1>9
<1>15. \A i \in 0 .. Len(s) : DepthAt(s, i) >= 0
  <2>1. \A i \in 0 .. n : DepthAt(r, i) >= 0
    BY DEF Nested, n
  <2>2. 0 .. Len(s) = (0 .. n) \cup {n + 1}
    BY <1>1
  <2>3. q >= 0
    BY <1>5
  <2> QED BY <1>3, <1>9, <2>1, <2>2, <2>3
<1>16. M[1] = 1
  <2>1. 1 \in 1 .. q
    BY <1>5
  <2> QED BY <1>6, <2>1 DEF Nested
<1>17. Len(M) \in Nat \ {0}
  BY <1>5, <1>6
<1>18. Nested(s, m + 1, M, g)
  BY <1>6, <1>11, <1>12, <1>13, <1>14, <1>15, <1>16, <1>17 DEF Nested
<1> QED BY <1>18 DEF s, M

LEMMA FrontIs ==
    ASSUME NEW S, NEW N \in Seq(S), Len(N) \in Nat, Len(N) > 1
    PROVE  /\ Front(N) \in Seq(S) /\ Len(Front(N)) = Len(N) - 1
           /\ \A d \in 1 .. Len(N) - 1 : Front(N)[d] = N[d]
<1>1. Front(N) = SubSeq(N, 1, Len(N) - 1)
  BY DEF Front
<1>2. /\ SubSeq(N, 1, Len(N) - 1) \in Seq(S)
      /\ Len(SubSeq(N, 1, Len(N) - 1)) = Len(N) - 1
      /\ \A d \in 1 .. Len(N) - 1 : SubSeq(N, 1, Len(N) - 1)[d] = N[d]
  BY SubSeqProperties
<1> QED BY <1>1, <1>2

LEMMA NestedEnd ==
    ASSUME NEW r \in Seq(Line), NEW l \in Line, l.kind = "end",
           NEW m, NEW N, NEW h, Homes(r, m, h), Nested(r, m, N, h), Len(N) # 1
    PROVE  /\ Nested(Append(r, l), m, Front(N), h)
           /\ ~ StillAt(Append(r, l), h[Last(N)])
<1> DEFINE n == Len(r)
           s == Append(r, l)
           M == Front(N)
           q == Len(N)
<1>1. n \in Nat /\ Len(s) = n + 1 /\ BlocksAt(r) \subseteq 0 .. n
  BY AppendIs, BlocksAre
<1>2. BlocksAt(s) = BlocksAt(r)
  BY BlocksNext
<1>3. /\ \A i \in 0 .. n : DepthAt(s, i) = DepthAt(r, i)
      /\ DepthAt(s, n + 1) = DepthAt(r, n) - 1
  <2>1. /\ \A i \in 0 .. n : DepthAt(s, i) = DepthAt(r, i)
        /\ DepthAt(s, n + 1) = DepthAt(r, n) + (-1)
    BY DepthNext
  <2>2. DepthAt(r, n) \in Int
    BY DepthIs
  <2> QED BY <2>1, <2>2
<1>4. \A b \in 0 .. n : StillAt(s, b) <=> StillAt(r, b) /\ DepthAt(s, n + 1) >= DepthAt(r, b)
  BY StillNext
<1>5. /\ m \in Nat \ {0} /\ N \in Seq(1 .. m) /\ q \in Nat \ {0} /\ q > 1
      /\ \A d \in 1 .. q : N[d] \in 1 .. m
  <2>1. m \in Nat \ {0}
    BY DEF Homes
  <2>2. N \in Seq(1 .. m) /\ q \in Nat \ {0} /\ \A d \in 1 .. q : N[d] \in 1 .. m
    BY NestedIn
  <2> HIDE DEF q
  <2>3. q # 1
    BY DEF q
  <2> QED BY <2>1, <2>2, <2>3
<1>6. M \in Seq(1 .. m) /\ Len(M) = q - 1 /\ \A d \in 1 .. q - 1 : M[d] = N[d]
  BY <1>5, FrontIs
<1>7. \A d \in 1 .. q : h[N[d]] \in 0 .. n
  BY <1>1, <1>5 DEF Homes
<1>8. 1 .. q = (1 .. Len(M)) \cup {q} /\ 1 .. Len(M) = 1 .. q - 1
  BY <1>5, <1>6
<1>9. DepthAt(r, n) = q - 1 /\ DepthAt(s, n + 1) = q - 2
  BY <1>3, <1>5 DEF Nested
<1>10. Last(N) = N[q]
  BY DEF Last
<1> HIDE DEF s, n, M, q
<1>11. \A d \in 1 .. q : StillAt(r, h[N[d]]) /\ DepthAt(r, h[N[d]]) = d - 1
  BY DEF Nested, q
<1>12. \A d \in 1 .. q : StillAt(s, h[N[d]]) <=> d \in 1 .. q - 1
  <2> TAKE d \in 1 .. q
  <2>1. StillAt(s, h[N[d]]) <=> q - 2 >= d - 1
    BY <1>4, <1>7, <1>9, <1>11
  <2> QED BY <1>5, <2>1
<1>13. ~ StillAt(s, h[Last(N)])
  BY <1>5, <1>10, <1>12
<1>14. \A d \in 1 .. Len(M) : StillAt(s, h[M[d]]) /\ DepthAt(s, h[M[d]]) = d - 1
  BY <1>3, <1>6, <1>7, <1>8, <1>11, <1>12
<1>15. \A d, e \in 1 .. Len(M) : d < e => h[M[d]] < h[M[e]]
  <2>1. \A d, e \in 1 .. q : d < e => h[N[d]] < h[N[e]]
    BY DEF Nested, q
  <2> QED BY <1>6, <1>8, <2>1
<1>16. ASSUME NEW b \in BlocksAt(s), StillAt(s, b) PROVE \E d \in 1 .. Len(M) : h[M[d]] = b
  <2>1. StillAt(r, b)
    BY <1>1, <1>2, <1>4, <1>16
  <2>2. PICK d \in 1 .. q : h[N[d]] = b
    BY <1>2, <2>1 DEF Nested, q
  <2>3. d \in 1 .. q - 1
    BY <1>12, <1>16, <2>2
  <2> QED BY <1>6, <1>8, <2>2, <2>3
<1>17. DepthAt(s, Len(s)) = Len(M) - 1
  BY <1>1, <1>5, <1>6, <1>9
<1>18. \A i \in 0 .. Len(s) : DepthAt(s, i) >= 0
  <2>1. \A i \in 0 .. n : DepthAt(r, i) >= 0
    BY DEF Nested, n
  <2>2. 0 .. Len(s) = (0 .. n) \cup {n + 1}
    BY <1>1
  <2>3. q - 2 >= 0
    BY <1>5
  <2> QED BY <1>3, <1>9, <2>1, <2>2, <2>3
<1>19. M[1] = 1 /\ Len(M) \in Nat \ {0}
  <2>1. 1 \in 1 .. q - 1 /\ q - 1 \in Nat \ {0}
    BY <1>5
  <2> QED BY <1>6, <2>1 DEF Nested
<1>20. Nested(s, m, M, h)
  BY <1>6, <1>14, <1>15, <1>16, <1>17, <1>18, <1>19 DEF Nested
<1> QED BY <1>13, <1>20 DEF s, M

-----------------------------------------------------------------------------
(***************************************************************************)
(* A block and its place in the source.                                    *)
(***************************************************************************)
Opened(T, D, i) == Cardinality({j \in T : j <= i}) - Cardinality({j \in D : j <= i})
HeaderAt(r, c) == IF c = 0 THEN Module ELSE r[c]

CodesMirrored(codes, r, C, h) ==
    /\ DOMAIN codes = NamesAt(r, C)
    /\ \A i, j \in C : r[i].of = r[j].of => i = j
    /\ \A i \in C : codes[r[i].of] \in DOMAIN h /\ h[codes[r[i].of]] = i

OpenMirrored(n, T, D) == \A i \in 1 .. n : Opened(T, D, i) \in {0, 1}

BlockIs(b, r, c, h) ==
    /\ b \in BlockT
    /\ b.header = HeaderAt(r, c)
    /\ Mirrored(b, r, OwnAt(r, c, "label"), OwnAt(r, c, "instr"), OwnAt(r, c, "try"), OwnAt(r, c, "tried"))
    /\ CodesMirrored(b.codes, r, OwnAt(r, c, "code"), h)
    /\ OpenMirrored(Len(r), OwnAt(r, c, "try"), OwnAt(r, c, "tried"))

LEMMA OpenedAll ==
    ASSUME NEW n, NEW T, NEW D, LineSet(T, n), LineSet(D, n)
    PROVE  Opened(T, D, n) = Cardinality(T) - Cardinality(D)
<1>1. (\A j \in T : j <= n) /\ (\A j \in D : j <= n)
  BY DEF LineSet
<1>2. {j \in T : j <= n} = T
  BY <1>1
<1>3. {j \in D : j <= n} = D
  BY <1>1
<1> QED BY <1>2, <1>3, Zenon DEF Opened

\* The tries and the trieds, one of which may be longer by the next line.
LEMMA OpenMirroredNext ==
    ASSUME NEW n, NEW T, NEW D, LineSet(T, n), LineSet(D, n), OpenMirrored(n, T, D),
           NEW U, NEW E, U \in {T, T \cup {n + 1}}, E \in {D, D \cup {n + 1}}, U = T \/ E = D,
           Cardinality(U) - Cardinality(E) \in {0, 1}
    PROVE  OpenMirrored(n + 1, U, E)
<1>1. \A i \in 1 .. n : Opened(U, E, i) = Opened(T, D, i)
  <2> TAKE i \in 1 .. n
  <2>1. ~ (n + 1 <= i)
    BY DEF LineSet
  <2>2. {j \in U : j <= i} = {j \in T : j <= i}
    BY <2>1
  <2>3. {j \in E : j <= i} = {j \in D : j <= i}
    BY <2>1
  <2> QED BY <2>2, <2>3, Zenon DEF Opened
<1>2. LineSet(U, n + 1) /\ LineSet(E, n + 1)
  <2>1. LineSet(T, n + 1) /\ LineSet(T \cup {n + 1}, n + 1)
    BY RankNext
  <2>2. LineSet(D, n + 1) /\ LineSet(D \cup {n + 1}, n + 1)
    BY RankNext
  <2> QED BY <2>1, <2>2
<1>3. Opened(U, E, n + 1) = Cardinality(U) - Cardinality(E)
  BY <1>2, OpenedAll
<1>4. 1 .. n + 1 = (1 .. n) \cup {n + 1}
  BY DEF LineSet
<1> QED BY <1>1, <1>3, <1>4 DEF OpenMirrored

\* The try blocks that are open are as many as tb says.
LEMMA MirroredOpen ==
    ASSUME NEW b, NEW r, NEW n, NEW L, NEW I, NEW T, NEW D, LineSets(n, L, I, T, D),
           Mirrored(b, r, L, I, T, D)
    PROVE  /\ Cardinality(T) - Cardinality(D) = (IF b.tb = <<>> THEN 0 ELSE 1)
           /\ Cardinality(T) \in Nat /\ Cardinality(D) \in Nat
<1>1. Cardinality(T) = Cardinality(D) + (IF b.tb = <<>> THEN 0 ELSE 1)
  BY DEF Mirrored, RegionsMirrored
<1>2. LineSet(T, n) /\ LineSet(D, n)
  BY DEF LineSets
<1>3. Cardinality(T) \in Nat /\ Cardinality(D) \in Nat
  BY <1>2, LineSetFinite
<1> QED BY <1>1, <1>3

LEMMA OwnSets ==
    ASSUME NEW r \in Seq(Line), NEW c
    PROVE  /\ LineSets(Len(r), OwnAt(r, c, "label"), OwnAt(r, c, "instr"), OwnAt(r, c, "try"), OwnAt(r, c, "tried"))
           /\ LineSet(OwnAt(r, c, "code"), Len(r)) /\ LineSet(OwnAt(r, c, "end"), Len(r))
<1>1. \A kind : LineSet(OwnAt(r, c, kind), Len(r))
  BY OwnIs
<1> QED BY <1>1 DEF LineSets

LEMMA CodesKeep ==
    ASSUME NEW r, NEW s, NEW n, NEW l, Longer(r, s, n, l), NEW C, LineSet(C, n),
           NEW h, NEW codes, CodesMirrored(codes, r, C, h),
           NEW g, DOMAIN h \subseteq DOMAIN g, \A k \in DOMAIN h : g[k] = h[k]
    PROVE  CodesMirrored(codes, s, C, g)
<1>1. \A i \in C : s[i] = r[i]
  BY DEF Longer, LineSet
<1>2. NamesAt(s, C) = NamesAt(r, C)
  BY <1>1 DEF NamesAt
<1>3. \A i \in C : codes[r[i].of] \in DOMAIN h /\ h[codes[r[i].of]] = i
  BY DEF CodesMirrored
<1>4. \A i \in C : codes[r[i].of] \in DOMAIN g /\ g[codes[r[i].of]] = i
  BY <1>3
<1> QED BY <1>1, <1>2, <1>4 DEF CodesMirrored

LEMMA HeaderKeep ==
    ASSUME NEW r \in Seq(Line), NEW l \in Line, NEW c \in BlocksAt(r)
    PROVE  HeaderAt(Append(r, l), c) = HeaderAt(r, c)
<1>1. Longer(r, Append(r, l), Len(r), l) /\ Len(r) \in Nat
  BY AppendIs
<1>2. c \in 0 .. Len(r)
  BY BlocksAre
<1>3. c # 0 => Append(r, l)[c] = r[c]
  BY <1>1, <1>2 DEF Longer
<1> QED BY <1>3 DEF HeaderAt

\* A block that the next line is not in, or which the line does not change.
LEMMA BlockKeep ==
    ASSUME NEW r \in Seq(Line), NEW l \in Line, NEW c \in BlocksAt(r), NEW b, NEW h, BlockIs(b, r, c, h),
           \A kind \in {"label", "instr", "try", "tried", "code"} :
               OwnAt(Append(r, l), c, kind) = OwnAt(r, c, kind),
           NEW g, DOMAIN h \subseteq DOMAIN g, \A k \in DOMAIN h : g[k] = h[k]
    PROVE  BlockIs(b, Append(r, l), c, g)
<1> DEFINE s == Append(r, l)
           L == OwnAt(r, c, "label")
           I == OwnAt(r, c, "instr")
           T == OwnAt(r, c, "try")
           D == OwnAt(r, c, "tried")
           C == OwnAt(r, c, "code")
<1>1. Longer(r, s, Len(r), l) /\ Len(s) = Len(r) + 1
  BY AppendIs
<1>2. LineSets(Len(r), L, I, T, D) /\ LineSet(C, Len(r))
  BY OwnSets
<1>3. LineSet(T, Len(r)) /\ LineSet(D, Len(r))
  BY <1>2 DEF LineSets
<1>4. /\ b \in BlockT /\ b.header = HeaderAt(r, c)
      /\ Mirrored(b, r, L, I, T, D) /\ CodesMirrored(b.codes, r, C, h) /\ OpenMirrored(Len(r), T, D)
  BY DEF BlockIs
<1>5. b.header = HeaderAt(s, c)
  BY <1>4, HeaderKeep
<1>6. /\ OwnAt(s, c, "label") = L /\ OwnAt(s, c, "instr") = I /\ OwnAt(s, c, "try") = T
      /\ OwnAt(s, c, "tried") = D /\ OwnAt(s, c, "code") = C
  OBVIOUS
<1> HIDE DEF s, L, I, T, D, C
<1>7. Mirrored(b, s, L, I, T, D)
  BY <1>1, <1>2, <1>4, MirroredKeep
<1>8. CodesMirrored(b.codes, s, C, g)
  BY <1>1, <1>2, <1>4, CodesKeep
<1>9. Cardinality(T) - Cardinality(D) \in {0, 1}
  <2>1. Cardinality(T) - Cardinality(D) = (IF b.tb = <<>> THEN 0 ELSE 1)
    BY <1>2, <1>4, MirroredOpen
  <2> QED BY <2>1
<1>10. OpenMirrored(Len(r) + 1, T, D)
  BY <1>3, <1>4, <1>9, OpenMirroredNext
<1>11. BlockIs(b, s, c, g)
  BY <1>1, <1>4, <1>5, <1>6, <1>7, <1>8, <1>10 DEF BlockIs
<1> QED BY <1>11 DEF s

\* The block that the next line is in, if the line is not a header.
LEMMA BlockGrows ==
    ASSUME NEW r \in Seq(Line), NEW l \in Line, NEW c \in BlocksAt(r), NEW b, NEW h, BlockIs(b, r, c, h),
           l.kind # "code",
           \A kind : OwnAt(Append(r, l), c, kind) =
                       OwnAt(r, c, kind) \cup (IF l.kind = kind THEN {Len(r) + 1} ELSE {}),
           NEW a \in BlockT, a.header = b.header, a.codes = b.codes,
           Mirrored(a, Append(r, l), OwnAt(Append(r, l), c, "label"), OwnAt(Append(r, l), c, "instr"),
                    OwnAt(Append(r, l), c, "try"), OwnAt(Append(r, l), c, "tried"))
    PROVE  BlockIs(a, Append(r, l), c, h)
<1> DEFINE s == Append(r, l)
           n == Len(r)
           T == OwnAt(r, c, "try")
           D == OwnAt(r, c, "tried")
           U == OwnAt(s, c, "try")
           E == OwnAt(s, c, "tried")
           C == OwnAt(r, c, "code")
<1>1. Longer(r, s, n, l) /\ Len(s) = n + 1 /\ s \in Seq(Line)
  BY AppendIs
<1>2. LineSets(n, OwnAt(r, c, "label"), OwnAt(r, c, "instr"), T, D) /\ LineSet(C, n)
  BY OwnSets
<1>3. LineSet(T, n) /\ LineSet(D, n)
  BY <1>2 DEF LineSets
<1>4. b.header = HeaderAt(r, c) /\ CodesMirrored(b.codes, r, C, h) /\ OpenMirrored(n, T, D)
  BY DEF BlockIs
<1>5. a.header = HeaderAt(s, c)
  BY <1>4, HeaderKeep
<1>6. OwnAt(s, c, "code") = C
  OBVIOUS
<1>7. U \in {T, T \cup {n + 1}} /\ E \in {D, D \cup {n + 1}} /\ (U = T \/ E = D)
  <2>1. U = T \cup (IF l.kind = "try" THEN {n + 1} ELSE {})
    OBVIOUS
  <2>2. E = D \cup (IF l.kind = "tried" THEN {n + 1} ELSE {})
    OBVIOUS
  <2> HIDE DEF U, E, T, D, n
  <2> QED BY <2>1, <2>2
<1>8. Cardinality(U) - Cardinality(E) \in {0, 1}
  <2>1. LineSets(n + 1, OwnAt(s, c, "label"), OwnAt(s, c, "instr"), U, E)
    BY <1>1, OwnSets
  <2>2. Mirrored(a, s, OwnAt(s, c, "label"), OwnAt(s, c, "instr"), U, E)
    OBVIOUS
  <2> HIDE DEF U, E, n, s
  <2>3. Cardinality(U) - Cardinality(E) = (IF a.tb = <<>> THEN 0 ELSE 1)
    BY <2>1, <2>2, MirroredOpen
  <2> QED BY <2>3
<1>9. CodesMirrored(a.codes, s, C, h)
  <2>1. a.codes = b.codes /\ DOMAIN h \subseteq DOMAIN h /\ \A k \in DOMAIN h : h[k] = h[k]
    OBVIOUS
  <2> HIDE DEF C, s, n
  <2>2. CodesMirrored(b.codes, s, C, h)
    BY <1>1, <1>2, <1>4, CodesKeep
  <2> QED BY <2>1, <2>2
<1>10. OpenMirrored(n + 1, U, E)
  <2> HIDE DEF U, E, T, D, n
  <2> QED BY <1>3, <1>4, <1>7, <1>8, OpenMirroredNext
<1>11. Mirrored(a, s, OwnAt(s, c, "label"), OwnAt(s, c, "instr"), U, E)
  OBVIOUS
<1> HIDE DEF s, U, E, T, D, C, n
<1>12. BlockIs(a, s, c, h)
  BY <1>1, <1>5, <1>6, <1>9, <1>10, <1>11 DEF BlockIs, U, E
<1> QED BY <1>12 DEF s

\* codes, and codes with one more name.
Adds(new, codes, name, m) ==
    /\ DOMAIN new = DOMAIN codes \cup {name} /\ name \notin DOMAIN codes
    /\ new[name] = m
    /\ \A x \in DOMAIN codes : new[x] = codes[x]

LEMMA CodesNext ==
    ASSUME NEW r, NEW s, NEW n, NEW l, Longer(r, s, n, l), NEW C, LineSet(C, n),
           NEW h, NEW codes, CodesMirrored(codes, r, C, h),
           NEW g, DOMAIN h \subseteq DOMAIN g, \A k \in DOMAIN h : g[k] = h[k],
           NEW m, m \in DOMAIN g, g[m] = n + 1,
           NEW new, Adds(new, codes, l.of, m)
    PROVE  CodesMirrored(new, s, C \cup {n + 1}, g)
<1>3. CodesMirrored(codes, s, C, g)
  BY CodesKeep
<1>4. s[n + 1] = l /\ NamesAt(s, C \cup {n + 1}) = NamesAt(s, C) \cup {l.of}
  BY DEF Longer, NamesAt
<1>5. DOMAIN codes = NamesAt(s, C)
  BY <1>3 DEF CodesMirrored
<1>6. \A i \in C : s[i].of # l.of /\ s[i].of \in DOMAIN codes
  BY <1>5 DEF NamesAt, Adds
<1>7. CodesMirrored(new, s, C \cup {n + 1}, g)
  <2>1. DOMAIN new = NamesAt(s, C \cup {n + 1})
    BY <1>4, <1>5 DEF Adds
  <2>2. \A i, j \in C \cup {n + 1} : s[i].of = s[j].of => i = j
    BY <1>3, <1>4, <1>6 DEF CodesMirrored, Adds
  <2>3. \A i \in C \cup {n + 1} : new[s[i].of] \in DOMAIN g /\ g[new[s[i].of]] = i
    BY <1>3, <1>4, <1>6 DEF CodesMirrored, Adds
  <2> QED BY <2>1, <2>2, <2>3 DEF CodesMirrored
<1> QED BY <1>7

\* The block that the next line, a header, is in.
LEMMA BlockBegins ==
    ASSUME NEW r \in Seq(Line), NEW l \in Line, NEW c \in BlocksAt(r), NEW b, NEW h, BlockIs(b, r, c, h),
           l.kind = "code", l.of \notin DOMAIN b.codes,
           \A kind : OwnAt(Append(r, l), c, kind) =
                       OwnAt(r, c, kind) \cup (IF l.kind = kind THEN {Len(r) + 1} ELSE {}),
           NEW g, DOMAIN h \subseteq DOMAIN g, \A k \in DOMAIN h : g[k] = h[k],
           NEW m \in Nat, m \in DOMAIN g, g[m] = Len(r) + 1
    PROVE  BlockIs(WithCode(b, l.of, m), Append(r, l), c, g)
<1> DEFINE s == Append(r, l)
           n == Len(r)
           L == OwnAt(r, c, "label")
           I == OwnAt(r, c, "instr")
           T == OwnAt(r, c, "try")
           D == OwnAt(r, c, "tried")
           C == OwnAt(r, c, "code")
           codes == [x \in DOMAIN b.codes \cup {l.of} |-> IF x = l.of THEN m ELSE b.codes[x]]
           a == WithCode(b, l.of, m)
<1>1. Longer(r, s, n, l) /\ Len(s) = n + 1
  BY AppendIs
<1>2. LineSets(n, L, I, T, D) /\ LineSet(C, n)
  BY OwnSets
<1>3. LineSet(T, n) /\ LineSet(D, n)
  BY <1>2 DEF LineSets
<1>4. /\ b \in BlockT /\ b.header = HeaderAt(r, c)
      /\ Mirrored(b, r, L, I, T, D) /\ CodesMirrored(b.codes, r, C, h) /\ OpenMirrored(n, T, D)
  BY DEF BlockIs
<1>5. b.header = HeaderAt(s, c)
  BY <1>4, HeaderKeep
<1>6. /\ OwnAt(s, c, "label") = L /\ OwnAt(s, c, "instr") = I /\ OwnAt(s, c, "try") = T
      /\ OwnAt(s, c, "tried") = D /\ OwnAt(s, c, "code") = C \cup {n + 1}
  OBVIOUS
<1> HIDE DEF s, n, L, I, T, D, C
<1>7. Mirrored(b, s, L, I, T, D)
  BY <1>1, <1>2, <1>4, MirroredKeep
<1>8. /\ codes \in UNION {[F -> Nat] : F \in SUBSET Ofs}
      /\ CodesMirrored(codes, s, C \cup {n + 1}, g)
  <2>1. Adds(codes, b.codes, l.of, m)
    BY DEF Adds
  <2>2. codes \in UNION {[F -> Nat] : F \in SUBSET Ofs}
    <3>1. PICK F \in SUBSET Ofs : b.codes \in [F -> Nat]
      BY <1>4 DEF BlockT
    <3>2. F \cup {l.of} \in SUBSET Ofs /\ codes \in [F \cup {l.of} -> Nat]
      BY <3>1 DEF Ofs
    <3> QED BY <3>2
  <2> HIDE DEF codes
  <2>3. /\ Longer(r, s, n, l) /\ LineSet(C, n) /\ CodesMirrored(b.codes, r, C, h)
        /\ m \in DOMAIN g /\ g[m] = n + 1
    BY <1>1, <1>2, <1>4 DEF n
  <2>4. CodesMirrored(codes, s, C \cup {n + 1}, g)
    BY <2>1, <2>3, CodesNext
  <2> QED BY <2>2, <2>4
<1>9. Cardinality(T) - Cardinality(D) \in {0, 1}
  <2>1. Cardinality(T) - Cardinality(D) = (IF b.tb = <<>> THEN 0 ELSE 1)
    BY <1>2, <1>4, MirroredOpen
  <2> QED BY <2>1
<1>10. OpenMirrored(n + 1, T, D)
  BY <1>3, <1>4, <1>9, OpenMirroredNext
<1>11. /\ a \in BlockT /\ a.header = b.header /\ a.codes = codes
       /\ a.labels = b.labels /\ a.ref_labels = b.ref_labels /\ a.exc_entries = b.exc_entries
       /\ a.tb = b.tb /\ a.instrs = b.instrs
  BY <1>4, <1>8 DEF WithCode, BlockT
<1>12. Mirrored(a, s, L, I, T, D)
  BY <1>7, <1>11 DEF Mirrored
<1>13. BlockIs(a, s, c, g)
  BY <1>1, <1>5, <1>6, <1>8, <1>10, <1>11, <1>12 DEF BlockIs
<1> QED BY <1>13 DEF s

\* The block that begins with the next line.
LEMMA BlockNew ==
    ASSUME NEW r \in Seq(Line), NEW l \in Line, l.kind = "code", NEW g
    PROVE  /\ \A kind : OwnAt(Append(r, l), Len(r) + 1, kind) = {}
           /\ BlockIs(Assembly(l), Append(r, l), Len(r) + 1, g)
<1> DEFINE s == Append(r, l)
           n == Len(r)
<1>1. Longer(r, s, n, l) /\ Len(s) = n + 1 /\ s \in Seq(Line) /\ n \in Nat
  BY AppendIs
<1>2. ASSUME NEW kind PROVE OwnAt(s, n + 1, kind) = {}
  <2>1. LineSet(KindLines(s, kind), Len(s))
    BY <1>1, KindLinesIs
  <2>2. ASSUME NEW i \in KindLines(s, kind) PROVE OwnerAt(s, i) # n + 1
    <3>1. i \in 1 .. n + 1
      BY <1>1, <2>1 DEF LineSet
    <3>2. i \in 1 .. Len(s) + 1
      BY <1>1, <3>1
    <3> HIDE DEF s, n
    <3>3. OwnerAt(s, i) \in 0 .. i - 1
      BY <1>1, <3>2, OwnerIs
    <3> QED BY <1>1, <3>1, <3>3
  <2> QED BY <2>2 DEF OwnAt
<1>3. Assembly(l) \in BlockT /\ Mirrored(Assembly(l), s, {}, {}, {}, {})
  BY <1>1, MirroredNew
<1>4. Assembly(l).header = HeaderAt(s, n + 1) /\ Assembly(l).codes = <<>>
  <2>1. n + 1 # 0 /\ s[n + 1] = l
    BY <1>1 DEF Longer
  <2> QED BY <2>1 DEF Assembly, HeaderAt
<1>5. CodesMirrored(<<>>, s, {}, g)
  BY DEF CodesMirrored, NamesAt
<1>6. OpenMirrored(n + 1, {}, {})
  <2>1. Cardinality({}) = 0
    BY FS_EmptySet
  <2>2. ASSUME NEW i PROVE {j \in {} : j <= i} = {}
    OBVIOUS
  <2>3. ASSUME NEW i PROVE Opened({}, {}, i) = 0 - 0
    BY <2>1, <2>2, Zenon DEF Opened
  <2> QED BY <2>3 DEF OpenMirrored
<1> HIDE DEF s, n
<1>7. BlockIs(Assembly(l), s, n + 1, g)
  BY <1>1, <1>2, <1>3, <1>4, <1>5, <1>6 DEF BlockIs
<1> QED BY <1>2, <1>7 DEF s, n

-----------------------------------------------------------------------------
(***************************************************************************)
(* The Assemblies, all together.                                           *)
(***************************************************************************)
Reading(r, B, N, h) ==
    /\ r \in Seq(Line) /\ B \in Seq(BlockT)
    /\ Homes(r, Len(B), h)
    /\ Nested(r, Len(B), N, h)
    /\ \A k \in 1 .. Len(B) :
          /\ BlockIs(B[k], r, h[k], h)
          /\ IF StillAt(r, h[k]) THEN OwnAt(r, h[k], "end") = {} ELSE Valid(B[k])

LEMMA TopNext ==
    ASSUME NEW r \in Seq(Line), NEW l \in Line, NEW m, NEW N, NEW h, Homes(r, m, h), Nested(r, m, N, h),
           NEW c, NEW kind
    PROVE  OwnAt(Append(r, l), c, kind) =
             OwnAt(r, c, kind) \cup (IF l.kind = kind /\ c = h[Last(N)] THEN {Len(r) + 1} ELSE {})
<1>1. /\ h[Last(N)] \in BlocksAt(r) /\ StillAt(r, h[Last(N)])
      /\ \A b \in BlocksAt(r) : StillAt(r, b) => b <= h[Last(N)]
  BY TopIs
<1> QED BY <1>1, OwnNext

LEMMA HomesDiffer ==
    ASSUME NEW r \in Seq(Line), NEW m, NEW h, Homes(r, m, h), NEW j \in 1 .. m, NEW k \in 1 .. m, j # k
    PROVE  h[j] # h[k]
<1>1. m \in Nat /\ h[j] \in BlocksAt(r) /\ h[k] \in BlocksAt(r)
  BY DEF Homes
<1>2. h[j] \in Int /\ h[k] \in Int
  BY <1>1, BlocksAre
<1>3. h[j] < h[k] \/ h[k] < h[j]
  BY <1>1 DEF Homes
<1> QED BY <1>2, <1>3

LEMMA StillKeep ==
    ASSUME NEW r \in Seq(Line), NEW l \in Line, l.kind # "end", NEW b \in BlocksAt(r)
    PROVE  StillAt(Append(r, l), b) <=> StillAt(r, b)
<1> DEFINE n == Len(r)
           s == Append(r, l)
<1>1. b \in 0 .. n /\ n \in Nat
  BY BlocksAre
<1>2. DepthAt(s, n + 1) = DepthAt(r, n) + (IF l.kind = "code" THEN 1 ELSE 0)
  BY DepthNext
<1>3. StillAt(s, b) <=> StillAt(r, b) /\ DepthAt(s, n + 1) >= DepthAt(r, b)
  BY <1>1, StillNext
<1>4. DepthAt(r, b) \in Int /\ DepthAt(r, n) \in Int
  BY DepthIs
<1>5. StillAt(r, b) => DepthAt(r, n) >= DepthAt(r, b)
  BY <1>1 DEF StillAt
<1> HIDE DEF s, n
<1>6. StillAt(s, b) <=> StillAt(r, b)
  BY <1>2, <1>3, <1>4, <1>5
<1> QED BY <1>6 DEF s

LEMMA ReadingTop ==
    ASSUME NEW r, NEW B, NEW N, NEW h, Reading(r, B, N, h)
    PROVE  /\ r \in Seq(Line) /\ Len(B) \in Nat /\ B \in [1 .. Len(B) -> BlockT]
           /\ Last(N) \in 1 .. Len(B)
           /\ h[Last(N)] \in BlocksAt(r) /\ StillAt(r, h[Last(N)])
           /\ BlockIs(B[Last(N)], r, h[Last(N)], h)
           /\ OwnAt(r, h[Last(N)], "end") = {}
           /\ DOMAIN h = 1 .. Len(B)
<1>1. r \in Seq(Line) /\ B \in Seq(BlockT) /\ Homes(r, Len(B), h) /\ Nested(r, Len(B), N, h)
  BY DEF Reading
<1>2. Last(N) \in 1 .. Len(B) /\ h[Last(N)] \in BlocksAt(r) /\ StillAt(r, h[Last(N)])
  BY <1>1, TopIs
<1>3. Len(B) \in Nat /\ B \in [1 .. Len(B) -> BlockT]
  BY <1>1, LenProperties
<1>4. DOMAIN h = 1 .. Len(B)
  BY <1>1 DEF Homes
<1>5. BlockIs(B[Last(N)], r, h[Last(N)], h) /\ OwnAt(r, h[Last(N)], "end") = {}
  BY <1>2 DEF Reading
<1> QED BY <1>1, <1>2, <1>3, <1>4, <1>5

\* A line that is not in the block of Assembly k, or an "end" in it.
LEMMA ReadingOther ==
    ASSUME NEW r, NEW B, NEW N, NEW h, Reading(r, B, N, h), NEW l \in Line,
           NEW k \in 1 .. Len(B), k # Last(N) \/ l.kind = "end",
           NEW g, DOMAIN h \subseteq DOMAIN g, \A j \in DOMAIN h : g[j] = h[j]
    PROVE  BlockIs(B[k], Append(r, l), h[k], g)
<1> DEFINE s == Append(r, l)
           c == h[k]
<1>1. r \in Seq(Line) /\ Homes(r, Len(B), h) /\ Nested(r, Len(B), N, h) /\ BlockIs(B[k], r, c, h)
  BY DEF Reading
<1>2. c \in BlocksAt(r)
  BY <1>1 DEF Homes
<1>3. Last(N) \in 1 .. Len(B)
  BY ReadingTop
<1>4. c # h[Last(N)] \/ l.kind = "end"
  BY <1>1, <1>3, HomesDiffer
<1>5. ASSUME NEW kind \in {"label", "instr", "try", "tried", "code"}
      PROVE  OwnAt(s, c, kind) = OwnAt(r, c, kind)
  <2> HIDE DEF s, c
  <2>1. OwnAt(s, c, kind) =
          OwnAt(r, c, kind) \cup (IF l.kind = kind /\ c = h[Last(N)] THEN {Len(r) + 1} ELSE {})
    BY <1>1, TopNext DEF s
  <2>2. kind # "end"
    OBVIOUS
  <2> QED BY <1>4, <2>1, <2>2
<1> HIDE DEF c
<1>6. BlockIs(B[k], s, c, g)
  BY <1>1, <1>2, <1>5, BlockKeep
<1> QED BY <1>6 DEF c

\* A line of the innermost block's own.
LEMMA ReadingLine ==
    ASSUME NEW r, NEW B, NEW N, NEW h, Reading(r, B, N, h),
           NEW l \in Line, l.kind \notin {"code", "end"},
           NEW a \in BlockT, BlockIs(a, Append(r, l), h[Last(N)], h)
    PROVE  Reading(Append(r, l), [B EXCEPT ![Last(N)] = a], N, h)
<1> DEFINE s == Append(r, l)
           t == Last(N)
           A == [B EXCEPT ![t] = a]
<1>1. /\ r \in Seq(Line) /\ B \in Seq(BlockT) /\ Homes(r, Len(B), h) /\ Nested(r, Len(B), N, h)
      /\ s \in Seq(Line)
  BY AppendIs DEF Reading
<1>2. t \in 1 .. Len(B) /\ h[t] \in BlocksAt(r) /\ StillAt(r, h[t])
  BY ReadingTop
<1>3. /\ A \in Seq(BlockT) /\ Len(A) = Len(B) /\ A[t] = a
      /\ \A k \in 1 .. Len(B) : k # t => A[k] = B[k]
  BY <1>1, <1>2, ExceptSeq
<1>4. Homes(s, Len(B), h)
  BY <1>1, HomesKeep
<1>5. Nested(s, Len(B), N, h)
  BY <1>1, NestedKeep
<1>6. \A k \in 1 .. Len(B) : h[k] \in BlocksAt(r)
  BY <1>1 DEF Homes
<1>7. ASSUME NEW k \in 1 .. Len(B)
      PROVE  BlockIs(A[k], s, h[k], h)
  <2>1. CASE k = t
    BY <1>3, <2>1
  <2>2. CASE k # t
    <3>1. BlockIs(B[k], s, h[k], h)
      BY <2>2, ReadingOther
    <3> QED BY <1>3, <2>2, <3>1
  <2> QED BY <2>1, <2>2
<1>8. ASSUME NEW k \in 1 .. Len(B)
      PROVE  IF StillAt(s, h[k]) THEN OwnAt(s, h[k], "end") = {} ELSE Valid(A[k])
  <2>1. StillAt(s, h[k]) <=> StillAt(r, h[k])
    BY <1>1, <1>6, StillKeep
  <2>2. OwnAt(s, h[k], "end") = OwnAt(r, h[k], "end")
    <3>1. OwnAt(s, h[k], "end") =
            OwnAt(r, h[k], "end") \cup (IF l.kind = "end" /\ h[k] = h[Last(N)] THEN {Len(r) + 1} ELSE {})
      BY <1>1, TopNext
    <3> HIDE DEF s
    <3> QED BY <3>1
  <2>3. k # t => A[k] = B[k]
    BY <1>3
  <2>4. IF StillAt(r, h[k]) THEN OwnAt(r, h[k], "end") = {} ELSE Valid(B[k])
    BY DEF Reading
  <2> HIDE DEF s, t, A
  <2> QED BY <1>2, <2>1, <2>2, <2>3, <2>4
<1> HIDE DEF s, A
<1>9. Reading(s, A, N, h)
  BY <1>1, <1>3, <1>4, <1>5, <1>7, <1>8 DEF Reading
<1> QED BY <1>9 DEF s, A

LEMMA ReadingBegin ==
    ASSUME NEW r, NEW B, NEW N, NEW h, Reading(r, B, N, h), NEW l \in Line, l.kind = "code",
           l.of \notin DOMAIN B[Last(N)].codes,
           NEW g, g = [k \in 1 .. Len(B) + 1 |-> IF k = Len(B) + 1 THEN Len(r) + 1 ELSE h[k]]
    PROVE  Reading(Append(r, l),
                   Append([B EXCEPT ![Last(N)] = WithCode(B[Last(N)], l.of, Len(B) + 1)], Assembly(l)),
                   Append(N, Len(B) + 1), g)
<1> DEFINE s == Append(r, l)
           m == Len(B)
           n == Len(r)
           t == Last(N)
           a == WithCode(B[t], l.of, m + 1)
           A == [B EXCEPT ![t] = a]
           Z == Append(A, Assembly(l))
           M == Append(N, m + 1)
<1>1. /\ r \in Seq(Line) /\ B \in Seq(BlockT) /\ Homes(r, m, h) /\ Nested(r, m, N, h)
      /\ s \in Seq(Line) /\ m \in Nat /\ n \in Nat
  BY AppendIs, LenProperties DEF Reading
<1>2. /\ t \in 1 .. m /\ h[t] \in BlocksAt(r) /\ StillAt(r, h[t]) /\ BlockIs(B[t], r, h[t], h)
      /\ DOMAIN h = 1 .. m
  BY ReadingTop
<1>3. /\ \A k \in 1 .. m : h[k] \in BlocksAt(r)
      /\ BlocksAt(r) \subseteq 0 .. n
  BY <1>1, BlocksAre DEF Homes
<1>4. /\ DOMAIN g = 1 .. m + 1 /\ 1 .. m + 1 = (1 .. m) \cup {m + 1} /\ m + 1 \notin 1 .. m
      /\ \A k \in 1 .. m : g[k] = h[k]
      /\ g[m + 1] = n + 1 /\ m + 1 \in Nat
  BY <1>1
<1>5. Homes(s, m + 1, g)
  BY <1>1, HomesNext
<1>6. Nested(s, m + 1, M, g)
  BY <1>1, NestedBegin
<1>7. ASSUME NEW c, NEW kind
      PROVE  OwnAt(s, c, kind) =
               OwnAt(r, c, kind) \cup (IF l.kind = kind /\ c = h[t] THEN {n + 1} ELSE {})
  BY <1>1, TopNext
<1>8. (\A kind : OwnAt(s, n + 1, kind) = {}) /\ BlockIs(Assembly(l), s, n + 1, g)
  BY <1>1, BlockNew
<1> HIDE DEF s, m, n, t, A, Z, M
<1>9. BlockIs(a, s, h[t], g)
  <2>1. \A kind : OwnAt(s, h[t], kind) = OwnAt(r, h[t], kind) \cup (IF l.kind = kind THEN {n + 1} ELSE {})
    BY <1>7
  <2>2. l.of \notin DOMAIN B[t].codes
    BY DEF t
  <2>3. DOMAIN h \subseteq DOMAIN g /\ \A k \in DOMAIN h : g[k] = h[k]
    BY <1>2, <1>4
  <2>4. m + 1 \in Nat /\ m + 1 \in DOMAIN g /\ g[m + 1] = n + 1
    BY <1>4
  <2> QED BY <1>1, <1>2, <2>1, <2>2, <2>3, <2>4, BlockBegins DEF s, n
<1>10. a \in BlockT /\ Assembly(l) \in BlockT
  BY <1>8, <1>9 DEF BlockIs
<1>11. /\ A \in Seq(BlockT) /\ Len(A) = m /\ A[t] = a
       /\ \A k \in 1 .. m : k # t => A[k] = B[k]
  BY <1>1, <1>2, <1>10, ExceptSeq DEF A, m
<1>12. /\ Z \in Seq(BlockT) /\ Len(Z) = m + 1 /\ Z[m + 1] = Assembly(l)
       /\ \A k \in 1 .. m : Z[k] = A[k]
  BY <1>10, <1>11, AppendProperties DEF Z
<1>13. ASSUME NEW k \in 1 .. m
       PROVE  /\ BlockIs(Z[k], s, g[k], g)
              /\ IF StillAt(s, g[k]) THEN OwnAt(s, g[k], "end") = {} ELSE Valid(Z[k])
  <2>1. g[k] = h[k] /\ h[k] \in BlocksAt(r) /\ Z[k] = A[k]
    BY <1>3, <1>4, <1>12
  <2>2. BlockIs(A[k], s, h[k], g)
    <3>1. CASE k = t
      BY <1>9, <1>11, <3>1
    <3>2. CASE k # t
      <4>1. DOMAIN h \subseteq DOMAIN g /\ \A j \in DOMAIN h : g[j] = h[j]
        BY <1>2, <1>4
      <4>2. BlockIs(B[k], s, h[k], g)
        BY <3>2, <4>1, ReadingOther DEF s, m, t
      <4> QED BY <1>11, <3>2, <4>2
    <3> QED BY <3>1, <3>2
  <2>3. StillAt(s, h[k]) <=> StillAt(r, h[k])
    BY <1>1, <2>1, StillKeep DEF s
  <2>4. OwnAt(s, h[k], "end") = OwnAt(r, h[k], "end")
    <3>1. OwnAt(s, h[k], "end") =
            OwnAt(r, h[k], "end") \cup (IF l.kind = "end" /\ h[k] = h[t] THEN {n + 1} ELSE {})
      BY <1>7
    <3>2. ~ (l.kind = "end")
      OBVIOUS
    <3> QED BY <3>1, <3>2, Zenon
  <2>5. IF StillAt(r, h[k]) THEN OwnAt(r, h[k], "end") = {} ELSE Valid(B[k])
    BY DEF Reading, m
  <2>6. k # t => A[k] = B[k]
    BY <1>11
  <2> QED BY <1>2, <2>1, <2>2, <2>3, <2>4, <2>5, <2>6
<1>14. /\ BlockIs(Z[m + 1], s, g[m + 1], g)
       /\ IF StillAt(s, g[m + 1]) THEN OwnAt(s, g[m + 1], "end") = {} ELSE Valid(Z[m + 1])
  <2>1. StillAt(s, n + 1)
    BY <1>1, StillNext DEF s, n
  <2> QED BY <1>4, <1>8, <1>12, <2>1
<1>15. Reading(s, Z, M, g)
  BY <1>1, <1>4, <1>5, <1>6, <1>12, <1>13, <1>14 DEF Reading
<1> QED BY <1>15 DEF s, m, n, t, a, A, Z, M

LEMMA ReadingEnd ==
    ASSUME NEW r, NEW B, NEW N, NEW h, Reading(r, B, N, h), NEW l \in Line, l.kind = "end",
           Len(N) # 1, Valid(B[Last(N)])
    PROVE  Reading(Append(r, l), B, Front(N), h)
<1> DEFINE s == Append(r, l)
           m == Len(B)
           t == Last(N)
<1>1. /\ r \in Seq(Line) /\ B \in Seq(BlockT) /\ Homes(r, m, h) /\ Nested(r, m, N, h)
      /\ s \in Seq(Line)
  BY AppendIs DEF Reading
<1>2. /\ t \in 1 .. m /\ h[t] \in BlocksAt(r) /\ DOMAIN h = 1 .. m
  BY ReadingTop
<1>3. \A k \in 1 .. m : h[k] \in 0 .. Len(r)
  BY <1>1, BlocksAre DEF Homes
<1>4. Homes(s, m, h)
  BY <1>1, HomesKeep
<1>5. Nested(s, m, Front(N), h) /\ ~ StillAt(s, h[t])
  BY <1>1, NestedEnd
<1>6. ASSUME NEW k \in 1 .. m
      PROVE  /\ BlockIs(B[k], s, h[k], h)
             /\ IF StillAt(s, h[k]) THEN OwnAt(s, h[k], "end") = {} ELSE Valid(B[k])
  <2>1. BlockIs(B[k], s, h[k], h)
    BY ReadingOther
  <2>2. CASE k = t
    BY <1>5, <2>1, <2>2
  <2>3. CASE k # t
    <3>1. h[k] # h[t]
      BY <1>1, <1>2, <2>3, HomesDiffer
    <3>2. OwnAt(s, h[k], "end") =
            OwnAt(r, h[k], "end") \cup (IF l.kind = "end" /\ h[k] = h[Last(N)] THEN {Len(r) + 1} ELSE {})
      BY <1>1, TopNext
    <3>3. OwnAt(s, h[k], "end") = OwnAt(r, h[k], "end")
      <4> HIDE DEF s
      <4> QED BY <3>1, <3>2
    <3>4. IF StillAt(r, h[k]) THEN OwnAt(r, h[k], "end") = {} ELSE Valid(B[k])
      BY DEF Reading
    <3>5. StillAt(s, h[k]) => StillAt(r, h[k])
      BY <1>1, <1>3, StillNext
    <3>6. ~ StillAt(s, h[k]) => ~ StillAt(r, h[k])
      <4>1. ASSUME StillAt(r, h[k]), ~ StillAt(s, h[k]) PROVE FALSE
        <5>1. PICK d \in 1 .. Len(N) : h[N[d]] = h[k]
          BY <1>1, <4>1 DEF Nested, Homes
        <5>2. /\ \A e \in 1 .. Len(N) : N[e] \in 1 .. m
              /\ N \in Seq(1 .. m) /\ Len(N) \in Nat \ {0}
          BY <1>1, NestedIn
        <5>3. N[d] = k
          BY <1>1, <5>1, <5>2, HomesDiffer
        <5>4. d # Len(N)
          BY <2>3, <5>3 DEF Last
        <5>5. d \in 1 .. Len(N) - 1
          BY <5>2, <5>4
        <5>6. Front(N)[d] = N[d] /\ Len(Front(N)) = Len(N) - 1
          BY <5>2, <5>5, FrontIs
        <5>7. StillAt(s, h[Front(N)[d]])
          BY <1>5, <5>5, <5>6 DEF Nested
        <5> QED BY <4>1, <5>3, <5>6, <5>7
      <4> QED BY <4>1
    <3> HIDE DEF s
    <3> QED BY <2>1, <3>3, <3>4, <3>5, <3>6
  <2> QED BY <2>2, <2>3
<1> HIDE DEF s, m, t
<1>7. Reading(s, B, Front(N), h)
  BY <1>1, <1>4, <1>5, <1>6 DEF Reading, m
<1> QED BY <1>7 DEF s

LEMMA ReadingInit ==
    ASSUME NEW h, h = [k \in {1} |-> 0]
    PROVE  Reading(<<>>, <<Assembly(Module)>>, <<1>>, h)
<1> DEFINE r == <<>>
           B == <<Assembly(Module)>>
<1>1. r \in Seq(Line) /\ Len(r) = 0
  BY EmptySeq
<1>2. /\ Assembly(Module) \in BlockT /\ Mirrored(Assembly(Module), r, {}, {}, {}, {})
  BY MirroredNew
<1>3. B \in Seq(BlockT) /\ Len(B) = 1 /\ B[1] = Assembly(Module) /\ 1 .. 1 = {1}
  BY <1>2
<1>4. \A kind : KindLines(r, kind) = {}
  <2>1. ASSUME NEW kind PROVE KindLines(r, kind) = {}
    <3>1. LineSet(KindLines(r, kind), 0)
      BY <1>1, KindLinesIs
    <3> QED BY <3>1 DEF LineSet
  <2> QED BY <2>1
<1> HIDE DEF r, B
<1>5. BlocksAt(r) = {0} /\ \A kind : OwnAt(r, 0, kind) = {}
  BY <1>4 DEF BlocksAt, OwnAt
<1>6. DepthAt(r, 0) = 0
  BY <1>1, DepthZero
<1>7. StillAt(r, 0)
  BY <1>1, <1>6 DEF StillAt
<1>8. Homes(r, 1, h)
  BY <1>3, <1>5 DEF Homes
<1>9. Nested(r, 1, <<1>>, h)
  <2>1. <<1>> \in Seq(1 .. 1) /\ Len(<<1>>) = 1 /\ <<1>>[1] = 1
    BY <1>3
  <2> QED BY <1>1, <1>3, <1>5, <1>6, <1>7, <2>1 DEF Nested
<1>10. BlockIs(Assembly(Module), r, 0, h)
  <2>1. CodesMirrored(<<>>, r, {}, h)
    BY DEF CodesMirrored, NamesAt
  <2>2. OpenMirrored(0, {}, {})
    BY DEF OpenMirrored
  <2>3. Assembly(Module).header = HeaderAt(r, 0) /\ Assembly(Module).codes = <<>>
    BY DEF Assembly, HeaderAt
  <2> QED BY <1>1, <1>2, <1>5, <2>1, <2>2, <2>3 DEF BlockIs
<1>11. Reading(r, B, <<1>>, h)
  BY <1>1, <1>3, <1>5, <1>7, <1>8, <1>9, <1>10 DEF Reading
<1> QED BY <1>11 DEF r, B

-----------------------------------------------------------------------------
(***************************************************************************)
(* What the Assemblies say of the source.                                  *)
(***************************************************************************)
RepeatsAt(r, S) == Cardinality(NamesAt(r, S)) < Cardinality(S)

FlawedAt(r, c) ==
    \/ RepeatsAt(r, OwnAt(r, c, "label")) \/ RepeatsAt(r, OwnAt(r, c, "code"))
    \/ \E i \in DOMAIN r : Opened(OwnAt(r, c, "try"), OwnAt(r, c, "tried"), i) \notin {0, 1}

UnfinishedAt(r, c) ==
    \/ ~ NamesAt(r, Jumps(r, OwnAt(r, c, "instr")) \cup OwnAt(r, c, "try"))
            \subseteq NamesAt(r, OwnAt(r, c, "label"))
    \/ Opened(OwnAt(r, c, "try"), OwnAt(r, c, "tried"), Len(r)) # 0
    \/ HeaderAt(r, c).freevars \cap (HeaderAt(r, c).cellvars \cup HeaderAt(r, c).args) # {}

HopelessAt(r) ==
    \/ \E i \in DOMAIN r : DepthAt(r, i) < 0
    \/ \E c \in BlocksAt(r) : FlawedAt(r, c) \/ (OwnAt(r, c, "end") # {} /\ UnfinishedAt(r, c))

CompleteAt(r) == DepthAt(r, Len(r)) = 0 /\ ~ UnfinishedAt(r, 0)

LEMMA NoRepeats ==
    ASSUME NEW r, NEW n, NEW S, LineSet(S, n), \A i, j \in S : r[i].of = r[j].of => i = j
    PROVE  ~ RepeatsAt(r, S)
<1> DEFINE f == [i \in S |-> r[i].of]
           T == NamesAt(r, S)
<1>1. IsFiniteSet(S) /\ Cardinality(S) \in Nat
  BY LineSetFinite
<1>2. f \in [S -> T] /\ \A x \in T : \E i \in S : f[i] = x
  BY DEF NamesAt
<1>3. \A i, j \in S : f[i] = f[j] => i = j
  OBVIOUS
<1> HIDE DEF f, T
<1>4. f \in Bijection(S, T)
  BY <1>2, <1>3 DEF Bijection, Injection, Surjection, IsInjective
<1>5. Cardinality(S) = Cardinality(T)
  <2>1. ExistsBijection(S, T)
    BY <1>4 DEF ExistsBijection
  <2> QED BY <1>1, <2>1, FS_Bijection
<1> QED BY <1>1, <1>5 DEF RepeatsAt, T

LEMMA NewRepeats ==
    ASSUME NEW r, NEW s, NEW n, NEW l, Longer(r, s, n, l), NEW S, LineSet(S, n), l.of \in NamesAt(r, S)
    PROVE  RepeatsAt(s, S \cup {n + 1})
<1> DEFINE T == NamesAt(r, S)
           f == [i \in S |-> r[i].of]
<1>1. IsFiniteSet(S) /\ Cardinality(S) \in Nat
  BY LineSetFinite
<1>2. f \in [S -> T] /\ \A x \in T : \E i \in S : f[i] = x
  BY DEF NamesAt
<1>3. NamesAt(s, S \cup {n + 1}) = T
  <2>1. NamesAt(s, S \cup {n + 1}) = NamesAt(r, S) \cup {l.of}
    BY NamesNext
  <2> QED BY <2>1
<1>4. Cardinality(S \cup {n + 1}) = Cardinality(S) + 1
  BY RankNext
<1> HIDE DEF f, T
<1>5. f \in Surjection(S, T)
  BY <1>2 DEF Surjection
<1>6. IsFiniteSet(T) /\ Cardinality(T) <= Cardinality(S)
  BY <1>1, <1>5, FS_Surjection
<1>7. Cardinality(T) \in Nat
  BY <1>6, FS_CardinalityType
<1> QED BY <1>1, <1>3, <1>4, <1>6, <1>7 DEF RepeatsAt

\* _validate() of a block says whether its lines leave it finished.
LEMMA ValidIs ==
    ASSUME NEW r \in Seq(Line), NEW c, NEW b, NEW h, BlockIs(b, r, c, h)
    PROVE  Valid(b) <=> ~ UnfinishedAt(r, c)
<1> DEFINE L == OwnAt(r, c, "label")
           I == OwnAt(r, c, "instr")
           T == OwnAt(r, c, "try")
           D == OwnAt(r, c, "tried")
<1>1. LineSets(Len(r), L, I, T, D) /\ Mirrored(b, r, L, I, T, D) /\ b.header = HeaderAt(r, c)
  BY OwnSets DEF BlockIs
<1>2. LineSet(T, Len(r)) /\ LineSet(D, Len(r))
  BY <1>1 DEF LineSets
<1> HIDE DEF L, I, T, D
<1>3. b.ref_labels = {} <=> NamesAt(r, Jumps(r, I) \cup T) \subseteq NamesAt(r, L)
  BY <1>1 DEF Mirrored, RefsMirrored
<1>4. b.tb = <<>> <=> Opened(T, D, Len(r)) = 0
  <2>1. Cardinality(T) - Cardinality(D) = (IF b.tb = <<>> THEN 0 ELSE 1)
    BY <1>1, MirroredOpen
  <2>2. Opened(T, D, Len(r)) = Cardinality(T) - Cardinality(D)
    BY <1>2, OpenedAll
  <2> QED BY <2>1, <2>2
<1>5. HeaderAt(r, c).freevars \cap (HeaderAt(r, c).cellvars \cup HeaderAt(r, c).args) = {} <=>
        b.header.cellvars \cap b.header.freevars = {} /\ b.header.freevars \cap b.header.args = {}
  BY <1>1
<1> QED BY <1>3, <1>4, <1>5 DEF Valid, UnfinishedAt, L, I, T, D

LEMMA BlockNotFlawed ==
    ASSUME NEW r \in Seq(Line), NEW c, NEW b, NEW h, BlockIs(b, r, c, h)
    PROVE  ~ FlawedAt(r, c)
<1>1. ~ RepeatsAt(r, OwnAt(r, c, "label"))
  <2>1. LineSet(OwnAt(r, c, "label"), Len(r))
    BY OwnIs
  <2>2. \A i, j \in OwnAt(r, c, "label") : r[i].of = r[j].of => i = j
    BY DEF BlockIs, Mirrored, LabelsMirrored
  <2> QED BY <2>1, <2>2, NoRepeats
<1>2. ~ RepeatsAt(r, OwnAt(r, c, "code"))
  <2>1. LineSet(OwnAt(r, c, "code"), Len(r))
    BY OwnIs
  <2>2. \A i, j \in OwnAt(r, c, "code") : r[i].of = r[j].of => i = j
    BY DEF BlockIs, CodesMirrored
  <2> QED BY <2>1, <2>2, NoRepeats
<1>3. \A i \in DOMAIN r : Opened(OwnAt(r, c, "try"), OwnAt(r, c, "tried"), i) \in {0, 1}
  <2>1. DOMAIN r = 1 .. Len(r)
    BY LenProperties
  <2> QED BY <2>1 DEF BlockIs, OpenMirrored
<1> QED BY <1>1, <1>2, <1>3 DEF FlawedAt

LEMMA ReadingNotHopeless ==
    ASSUME NEW r, NEW B, NEW N, NEW h, Reading(r, B, N, h)
    PROVE  ~ HopelessAt(r)
<1>1. r \in Seq(Line) /\ Homes(r, Len(B), h) /\ Nested(r, Len(B), N, h)
  BY DEF Reading
<1>2. ASSUME NEW i \in DOMAIN r PROVE ~ (DepthAt(r, i) < 0)
  <2>1. DOMAIN r = 1 .. Len(r) /\ Len(r) \in Nat
    BY <1>1, LenProperties
  <2>2. i \in 0 .. Len(r)
    BY <2>1
  <2>3. DepthAt(r, i) >= 0
    BY <1>1, <2>2 DEF Nested
  <2>4. DepthAt(r, i) \in Int
    BY <1>1, DepthIs
  <2> QED BY <2>3, <2>4
<1>3. ASSUME NEW c \in BlocksAt(r)
      PROVE  ~ FlawedAt(r, c) /\ ~ (OwnAt(r, c, "end") # {} /\ UnfinishedAt(r, c))
  <2>1. PICK k \in 1 .. Len(B) : h[k] = c
    BY <1>1 DEF Homes
  <2>2. BlockIs(B[k], r, c, h)
    BY <2>1 DEF Reading
  <2>3. ~ FlawedAt(r, c)
    BY <1>1, <2>2, BlockNotFlawed
  <2>4. OwnAt(r, c, "end") # {} => Valid(B[k])
    BY <2>1 DEF Reading
  <2>5. Valid(B[k]) <=> ~ UnfinishedAt(r, c)
    BY <1>1, <2>2, ValidIs
  <2> QED BY <2>3, <2>4, <2>5
<1> QED BY <1>2, <1>3 DEF HopelessAt

LEMMA ReadingComplete ==
    ASSUME NEW r, NEW B, NEW N, NEW h, Reading(r, B, N, h)
    PROVE  CompleteAt(r) <=> Len(N) = 1 /\ Valid(B[Last(N)])
<1>1. /\ r \in Seq(Line) /\ Len(N) \in Nat /\ N[1] = 1 /\ h[1] = 0
      /\ DepthAt(r, Len(r)) = Len(N) - 1 /\ Len(B) \in Nat \ {0}
  BY DEF Reading, Nested, Homes
<1>2. BlockIs(B[1], r, 0, h)
  <2>1. 1 \in 1 .. Len(B)
    BY <1>1
  <2> QED BY <1>1, <2>1 DEF Reading
<1>3. Valid(B[1]) <=> ~ UnfinishedAt(r, 0)
  BY <1>1, <1>2, ValidIs
<1>4. Len(N) = 1 => Last(N) = 1
  BY <1>1 DEF Last
<1>5. DepthAt(r, Len(r)) = 0 <=> Len(N) = 1
  BY <1>1
<1> QED BY <1>3, <1>4, <1>5 DEF CompleteAt

\* Lines that raise.
LEMMA ReadingRaises ==
    ASSUME NEW r, NEW B, NEW N, NEW h, Reading(r, B, N, h), NEW l \in Line,
           \/ l.kind = "label" /\ l.of \in Idents(B[Last(N)])
           \/ l.kind = "code" /\ l.of \in DOMAIN B[Last(N)].codes
           \/ l.kind = "try" /\ B[Last(N)].tb # <<>>
           \/ l.kind = "tried" /\ B[Last(N)].tb = <<>>
           \/ l.kind = "end" /\ (Len(N) = 1 \/ ~ Valid(B[Last(N)]))
    PROVE  HopelessAt(Append(r, l))
<1> DEFINE s == Append(r, l)
           n == Len(r)
           c == h[Last(N)]
           b == B[Last(N)]
           L == OwnAt(r, c, "label")
           I == OwnAt(r, c, "instr")
           T == OwnAt(r, c, "try")
           D == OwnAt(r, c, "tried")
           C == OwnAt(r, c, "code")
<1>1. /\ r \in Seq(Line) /\ Homes(r, Len(B), h) /\ Nested(r, Len(B), N, h)
      /\ c \in BlocksAt(r) /\ BlockIs(b, r, c, h) /\ Last(N) \in 1 .. Len(B)
  BY ReadingTop DEF Reading
<1>2. s \in Seq(Line) /\ Longer(r, s, n, l) /\ Len(s) = n + 1 /\ n \in Nat /\ DOMAIN s = 1 .. Len(s)
  <2>1. s \in Seq(Line) /\ Longer(r, s, n, l) /\ Len(s) = n + 1 /\ n \in Nat
    BY <1>1, AppendIs
  <2> QED BY <2>1, LenProperties
<1>3. c \in BlocksAt(s)
  <2>1. BlocksAt(s) = BlocksAt(r) \cup (IF l.kind = "code" THEN {n + 1} ELSE {})
    BY <1>1, BlocksNext
  <2> QED BY <1>1, <2>1
<1>4. ASSUME NEW kind
      PROVE  OwnAt(s, c, kind) = OwnAt(r, c, kind) \cup (IF l.kind = kind THEN {n + 1} ELSE {})
  <2>1. OwnAt(s, c, kind) =
          OwnAt(r, c, kind) \cup (IF l.kind = kind /\ c = h[Last(N)] THEN {n + 1} ELSE {})
    BY <1>1, TopNext
  <2> QED BY <2>1
<1>5. LineSets(n, L, I, T, D) /\ LineSet(C, n) /\ Mirrored(b, r, L, I, T, D) /\ b \in BlockT
  BY <1>1, OwnSets DEF BlockIs
<1>6. LineSet(L, n) /\ LineSet(T, n) /\ LineSet(D, n)
  BY <1>5 DEF LineSets
<1>7. CASE l.kind = "label" /\ l.of \in Idents(b)
  <2>1. Idents(b) = NamesAt(r, L)
    BY <1>5, MirroredIdents
  <2>2. RepeatsAt(s, L \cup {n + 1})
    BY <1>2, <1>6, <1>7, <2>1, NewRepeats
  <2>3. OwnAt(s, c, "label") = L \cup {n + 1}
    BY <1>4, <1>7
  <2> QED BY <1>3, <2>2, <2>3 DEF HopelessAt, FlawedAt
<1>8. CASE l.kind = "code" /\ l.of \in DOMAIN b.codes
  <2>1. DOMAIN b.codes = NamesAt(r, C)
    BY <1>1 DEF BlockIs, CodesMirrored
  <2>2. RepeatsAt(s, C \cup {n + 1})
    BY <1>2, <1>5, <1>8, <2>1, NewRepeats
  <2>3. OwnAt(s, c, "code") = C \cup {n + 1}
    BY <1>4, <1>8
  <2> QED BY <1>3, <2>2, <2>3 DEF HopelessAt, FlawedAt
<1>9. Cardinality(T) - Cardinality(D) = (IF b.tb = <<>> THEN 0 ELSE 1)
      /\ Cardinality(T) \in Nat /\ Cardinality(D) \in Nat
  BY <1>5, MirroredOpen
<1>10. n + 1 \in DOMAIN s
  BY <1>2
<1>11. LineSet(T, n + 1) /\ LineSet(T \cup {n + 1}, n + 1) /\ Cardinality(T \cup {n + 1}) = Cardinality(T) + 1
  BY <1>6, RankNext
<1>12. LineSet(D, n + 1) /\ LineSet(D \cup {n + 1}, n + 1) /\ Cardinality(D \cup {n + 1}) = Cardinality(D) + 1
  BY <1>6, RankNext
<1>13. CASE l.kind = "try" /\ b.tb # <<>>
  <2>1. OwnAt(s, c, "try") = T \cup {n + 1} /\ OwnAt(s, c, "tried") = D
    <3>1. /\ OwnAt(s, c, "try") = T \cup (IF l.kind = "try" THEN {n + 1} ELSE {})
          /\ OwnAt(s, c, "tried") = D \cup (IF l.kind = "tried" THEN {n + 1} ELSE {})
      BY <1>4
    <3> HIDE DEF s, T, D, n
    <3> QED BY <1>13, <3>1
  <2>2. Opened(T \cup {n + 1}, D, n + 1) = Cardinality(T \cup {n + 1}) - Cardinality(D)
    BY <1>11, <1>12, OpenedAll
  <2>3. Opened(T \cup {n + 1}, D, n + 1) \notin {0, 1}
    <3> HIDE DEF s, T, D, n, b
    <3> QED BY <1>9, <1>11, <1>13, <2>2
  <2> QED BY <1>3, <1>10, <2>1, <2>3 DEF HopelessAt, FlawedAt
<1>14. CASE l.kind = "tried" /\ b.tb = <<>>
  <2>1. OwnAt(s, c, "try") = T /\ OwnAt(s, c, "tried") = D \cup {n + 1}
    <3>1. /\ OwnAt(s, c, "try") = T \cup (IF l.kind = "try" THEN {n + 1} ELSE {})
          /\ OwnAt(s, c, "tried") = D \cup (IF l.kind = "tried" THEN {n + 1} ELSE {})
      BY <1>4
    <3> HIDE DEF s, T, D, n
    <3> QED BY <1>14, <3>1
  <2>2. Opened(T, D \cup {n + 1}, n + 1) = Cardinality(T) - Cardinality(D \cup {n + 1})
    BY <1>11, <1>12, OpenedAll
  <2>3. Opened(T, D \cup {n + 1}, n + 1) \notin {0, 1}
    <3> HIDE DEF s, T, D, n, b
    <3> QED BY <1>9, <1>12, <1>14, <2>2
  <2> QED BY <1>3, <1>10, <2>1, <2>3 DEF HopelessAt, FlawedAt
<1>15. CASE l.kind = "end" /\ Len(N) = 1
  <2>1. DepthAt(s, n + 1) = DepthAt(r, n) + (-1)
    BY <1>1, <1>15, DepthNext
  <2>2. DepthAt(r, n) = 0
    BY <1>1, <1>15 DEF Nested
  <2> QED BY <1>10, <2>1, <2>2 DEF HopelessAt
<1>16. CASE l.kind = "end" /\ ~ Valid(b)
  <2>1. BlockIs(b, s, c, h)
    BY <1>1, <1>16, ReadingOther
  <2>2. UnfinishedAt(s, c)
    BY <1>2, <1>16, <2>1, ValidIs
  <2>3. OwnAt(s, c, "end") # {}
    BY <1>4, <1>16
  <2> QED BY <1>3, <2>2, <2>3 DEF HopelessAt
<1> QED BY <1>7, <1>8, <1>13, <1>14, <1>15, <1>16

\* The block that the line is in mirrors it.
LEMMA ReadingGrows ==
    ASSUME NEW r, NEW B, NEW N, NEW h, Reading(r, B, N, h),
           NEW l \in Line, l.kind \notin {"code", "end"},
           NEW L, NEW I, NEW T, NEW D,
           L = OwnAt(r, h[Last(N)], "label") \cup (IF l.kind = "label" THEN {Len(r) + 1} ELSE {}),
           I = OwnAt(r, h[Last(N)], "instr") \cup (IF l.kind = "instr" THEN {Len(r) + 1} ELSE {}),
           T = OwnAt(r, h[Last(N)], "try") \cup (IF l.kind = "try" THEN {Len(r) + 1} ELSE {}),
           D = OwnAt(r, h[Last(N)], "tried") \cup (IF l.kind = "tried" THEN {Len(r) + 1} ELSE {}),
           NEW a \in BlockT, a.header = B[Last(N)].header, a.codes = B[Last(N)].codes,
           Mirrored(a, Append(r, l), L, I, T, D)
    PROVE  Reading(Append(r, l), [B EXCEPT ![Last(N)] = a], N, h)
<1> DEFINE s == Append(r, l)
           c == h[Last(N)]
<1>1. /\ r \in Seq(Line) /\ c \in BlocksAt(r) /\ BlockIs(B[Last(N)], r, c, h)
      /\ Homes(r, Len(B), h) /\ Nested(r, Len(B), N, h)
  BY ReadingTop DEF Reading
<1>2. ASSUME NEW kind
      PROVE  OwnAt(s, c, kind) = OwnAt(r, c, kind) \cup (IF l.kind = kind THEN {Len(r) + 1} ELSE {})
  <2>1. OwnAt(s, c, kind) =
          OwnAt(r, c, kind) \cup (IF l.kind = kind /\ c = h[Last(N)] THEN {Len(r) + 1} ELSE {})
    BY <1>1, TopNext
  <2> QED BY <2>1
<1>3. /\ L = OwnAt(s, c, "label") /\ I = OwnAt(s, c, "instr")
      /\ T = OwnAt(s, c, "try") /\ D = OwnAt(s, c, "tried")
  <2> HIDE DEF s
  <2> QED BY <1>2
<1>4. Mirrored(a, s, OwnAt(s, c, "label"), OwnAt(s, c, "instr"), OwnAt(s, c, "try"), OwnAt(s, c, "tried"))
  <2>1. Mirrored(a, s, L, I, T, D)
    OBVIOUS
  <2> HIDE DEF s, c
  <2> QED BY <1>3, <2>1
<1>5. BlockIs(a, s, c, h)
  <2>1. l.kind # "code" /\ a.header = B[Last(N)].header /\ a.codes = B[Last(N)].codes
    OBVIOUS
  <2> HIDE DEF c
  <2> QED BY <1>1, <1>2, <1>4, <2>1, BlockGrows
<1> QED BY <1>5, ReadingLine

LEMMA ReadingMirrors ==
    ASSUME NEW r, NEW B, NEW N, NEW h, Reading(r, B, N, h), NEW l \in Line,
           NEW L, NEW I, NEW T, NEW D,
           L = OwnAt(r, h[Last(N)], "label"), I = OwnAt(r, h[Last(N)], "instr"),
           T = OwnAt(r, h[Last(N)], "try"), D = OwnAt(r, h[Last(N)], "tried")
    PROVE  /\ Longer(r, Append(r, l), Len(r), l) /\ LineSets(Len(r), L, I, T, D)
           /\ B[Last(N)] \in BlockT /\ Mirrored(B[Last(N)], r, L, I, T, D)
<1>1. r \in Seq(Line) /\ BlockIs(B[Last(N)], r, h[Last(N)], h)
  BY ReadingTop
<1>2. Longer(r, Append(r, l), Len(r), l) /\ LineSets(Len(r), L, I, T, D)
  BY <1>1, AppendIs, OwnSets
<1> QED BY <1>1, <1>2 DEF BlockIs

LEMMA ReadingLabel ==
    ASSUME NEW r, NEW B, NEW N, NEW h, Reading(r, B, N, h),
           NEW l \in Line, l.kind = "label", l.of \notin Idents(B[Last(N)])
    PROVE  Reading(Append(r, l), [B EXCEPT ![Last(N)] = Define(B[Last(N)], l.of)], N, h)
<1> DEFINE L == OwnAt(r, h[Last(N)], "label")
           I == OwnAt(r, h[Last(N)], "instr")
           T == OwnAt(r, h[Last(N)], "try")
           D == OwnAt(r, h[Last(N)], "tried")
           b == B[Last(N)]
           a == Define(b, l.of)
           s == Append(r, l)
<1>1. Longer(r, s, Len(r), l) /\ LineSets(Len(r), L, I, T, D) /\ b \in BlockT /\ Mirrored(b, r, L, I, T, D)
  BY ReadingMirrors
<1> HIDE DEF L, I, T, D, s
<1>2. a \in BlockT /\ Mirrored(a, s, L \cup {Len(r) + 1}, I, T, D)
  BY <1>1, MirroredLabel
<1>3. a.header = b.header /\ a.codes = b.codes
  BY <1>1 DEF Define, BlockT
<1> HIDE DEF a
<1>4. Reading(s, [B EXCEPT ![Last(N)] = a], N, h)
  BY <1>2, <1>3, ReadingGrows DEF L, I, T, D, s
<1> QED BY <1>4 DEF a, s

LEMMA ReadingTry ==
    ASSUME NEW r, NEW B, NEW N, NEW h, Reading(r, B, N, h),
           NEW l \in Line, l.kind = "try", B[Last(N)].tb = <<>>, l.lasti \in BOOLEAN
    PROVE  Reading(Append(r, l), [B EXCEPT ![Last(N)] = Begun(B[Last(N)], l)], N, h)
<1> DEFINE L == OwnAt(r, h[Last(N)], "label")
           I == OwnAt(r, h[Last(N)], "instr")
           T == OwnAt(r, h[Last(N)], "try")
           D == OwnAt(r, h[Last(N)], "tried")
           b == B[Last(N)]
           a == Begun(b, l)
           s == Append(r, l)
<1>1. Longer(r, s, Len(r), l) /\ LineSets(Len(r), L, I, T, D) /\ b \in BlockT /\ Mirrored(b, r, L, I, T, D)
  BY ReadingMirrors
<1> HIDE DEF L, I, T, D, s
<1>2. a \in BlockT /\ Mirrored(a, s, L, I, T \cup {Len(r) + 1}, D)
  BY <1>1, MirroredTry
<1>3. a.header = b.header /\ a.codes = b.codes
  BY <1>1 DEF Begun, Referring, BlockT
<1> HIDE DEF a
<1>4. Reading(s, [B EXCEPT ![Last(N)] = a], N, h)
  BY <1>2, <1>3, ReadingGrows DEF L, I, T, D, s
<1> QED BY <1>4 DEF a, s

LEMMA ReadingTried ==
    ASSUME NEW r, NEW B, NEW N, NEW h, Reading(r, B, N, h),
           NEW l \in Line, l.kind = "tried", B[Last(N)].tb # <<>>
    PROVE  Reading(Append(r, l), [B EXCEPT ![Last(N)] = Over(B[Last(N)])], N, h)
<1> DEFINE L == OwnAt(r, h[Last(N)], "label")
           I == OwnAt(r, h[Last(N)], "instr")
           T == OwnAt(r, h[Last(N)], "try")
           D == OwnAt(r, h[Last(N)], "tried")
           b == B[Last(N)]
           a == Over(b)
           s == Append(r, l)
<1>1. Longer(r, s, Len(r), l) /\ LineSets(Len(r), L, I, T, D) /\ b \in BlockT /\ Mirrored(b, r, L, I, T, D)
  BY ReadingMirrors
<1> HIDE DEF L, I, T, D, s
<1>2. a \in BlockT /\ Mirrored(a, s, L, I, T, D \cup {Len(r) + 1})
  BY <1>1, MirroredTried
<1>3. a.header = b.header /\ a.codes = b.codes
  BY <1>1 DEF Over, BlockT
<1> HIDE DEF a
<1>4. Reading(s, [B EXCEPT ![Last(N)] = a], N, h)
  BY <1>2, <1>3, ReadingGrows DEF L, I, T, D, s
<1> QED BY <1>4 DEF a, s

LEMMA ReadingInstr ==
    ASSUME NEW r, NEW B, NEW N, NEW h, Reading(r, B, N, h),
           NEW l \in Line, l.kind = "instr", l.by \in {"nothing", "label", "bind", "code"}, l.ends \in BOOLEAN
    PROVE  Reading(Append(r, l), [B EXCEPT ![Last(N)] = Extended(B[Last(N)], l, Len(r) + 1)], N, h)
<1> DEFINE L == OwnAt(r, h[Last(N)], "label")
           I == OwnAt(r, h[Last(N)], "instr")
           T == OwnAt(r, h[Last(N)], "try")
           D == OwnAt(r, h[Last(N)], "tried")
           b == B[Last(N)]
           a == Extended(b, l, Len(r) + 1)
           s == Append(r, l)
<1>1. Longer(r, s, Len(r), l) /\ LineSets(Len(r), L, I, T, D) /\ b \in BlockT /\ Mirrored(b, r, L, I, T, D)
  BY ReadingMirrors
<1> HIDE DEF L, I, T, D, s
<1>2. a \in BlockT /\ Mirrored(a, s, L, I \cup {Len(r) + 1}, T, D)
  BY <1>1, MirroredInstr
<1>3. a.header = b.header /\ a.codes = b.codes
  BY <1>1 DEF Extended, Referring, BlockT
<1> HIDE DEF a
<1>4. Reading(s, [B EXCEPT ![Last(N)] = a], N, h)
  BY <1>2, <1>3, ReadingGrows DEF L, I, T, D, s
<1> QED BY <1>4 DEF a, s

-----------------------------------------------------------------------------
(***************************************************************************)
(* The steps of the parser.                                                *)
(***************************************************************************)
CompiledOf(B, k, codes, args, lucky) ==
    IF k # 1 /\ Refused(B[k], k \in lucky) THEN NoCode ELSE Bytecode(B[k], codes, args)

CompileOf(B, args, lucky) ==
    LET code[k \in DOMAIN B] == CompiledOf(B, k, CodesOf(B[k], code), args, lucky)
    IN  code[1]

LEMMA CompileIs ==
    ASSUME NEW args, NEW lucky
    PROVE  Compile(args, lucky) = CompileOf(blocks, args, lucky)
  BY DEF Compile, Compiled, CompileOf, CompiledOf

LEMMA SourceIs ==
    /\ \A b, kind : Own(b, kind) = OwnAt(read, b, kind)
    /\ \A i : Depth(i) = DepthAt(read, i)
    /\ \A i : Owner(i) = OwnerAt(read, i)
    /\ \A kind : Lines(kind) = KindLines(read, kind)
    /\ Blocks = BlocksAt(read)
    /\ \A b : Header(b) = HeaderAt(read, b)
    /\ \A b, i : Open(b, i) = Opened(OwnAt(read, b, "try"), OwnAt(read, b, "tried"), i)
    /\ \A b, by : Instrs(b, by) = {i \in OwnAt(read, b, "instr") : read[i].by = by}
<1>1. ASSUME NEW kind PROVE Lines(kind) = KindLines(read, kind)
  BY DEF Lines, KindLines
<1>2. ASSUME NEW i PROVE Depth(i) = DepthAt(read, i)
  BY <1>1, Zenon DEF Depth, DepthAt
<1>3. ASSUME NEW i PROVE Owner(i) = OwnerAt(read, i)
  <2>1. {b \in Lines("code") : b < i /\ \A k \in b .. i - 1 : Depth(k) >= Depth(b)} =
          {b \in KindLines(read, "code") :
              b < i /\ \A k \in b .. i - 1 : DepthAt(read, k) >= DepthAt(read, b)}
    BY <1>1, <1>2
  <2> QED BY <2>1, Zenon DEF Owner, OwnerAt
<1>4. ASSUME NEW b, NEW kind PROVE Own(b, kind) = OwnAt(read, b, kind)
  BY <1>1, <1>3 DEF Own, OwnAt
<1>5. Blocks = BlocksAt(read)
  BY <1>1 DEF Blocks, BlocksAt
<1>6. ASSUME NEW b PROVE Header(b) = HeaderAt(read, b)
  BY DEF Header, HeaderAt
<1>7. ASSUME NEW b, NEW i
      PROVE  Open(b, i) = Opened(OwnAt(read, b, "try"), OwnAt(read, b, "tried"), i)
  BY <1>4, Zenon DEF Open, Opened
<1>8. ASSUME NEW b, NEW by PROVE Instrs(b, by) = {i \in OwnAt(read, b, "instr") : read[i].by = by}
  BY <1>4 DEF Instrs
<1> QED BY <1>1, <1>2, <1>3, <1>4, <1>5, <1>6, <1>7, <1>8

LEMMA GrammarIs ==
    (Hopeless <=> HopelessAt(read)) /\ (Complete <=> CompleteAt(read))
<1>1. \A S : Named(S) = NamesAt(read, S)
  BY DEF Named, NamesAt
<1>2. \A S : Repeats(S) <=> RepeatsAt(read, S)
  <2>1. ASSUME NEW S PROVE Repeats(S) <=> RepeatsAt(read, S)
    <3>1. Named(S) = NamesAt(read, S)
      BY <1>1
    <3> QED BY <3>1, Zenon DEF Repeats, RepeatsAt
  <2> QED BY <2>1
<1>3. ASSUME NEW b PROVE Flawed(b) <=> FlawedAt(read, b)
  BY <1>2, SourceIs DEF Flawed, FlawedAt
<1>4. ASSUME NEW b PROVE Unfinished(b) <=> UnfinishedAt(read, b)
  <2>1. Instrs(b, "label") = Jumps(read, OwnAt(read, b, "instr"))
    BY SourceIs DEF Jumps
  <2>2. /\ Own(b, "try") = OwnAt(read, b, "try") /\ Own(b, "label") = OwnAt(read, b, "label")
        /\ Header(b) = HeaderAt(read, b)
        /\ Open(b, Len(read)) = Opened(OwnAt(read, b, "try"), OwnAt(read, b, "tried"), Len(read))
    BY SourceIs
  <2>3. /\ Named(Instrs(b, "label") \cup Own(b, "try")) =
             NamesAt(read, Jumps(read, OwnAt(read, b, "instr")) \cup OwnAt(read, b, "try"))
        /\ Named(Own(b, "label")) = NamesAt(read, OwnAt(read, b, "label"))
    BY <1>1, <2>1, <2>2
  <2> QED BY <2>2, <2>3 DEF Unfinished, UnfinishedAt
<1>5. Hopeless <=> HopelessAt(read)
  <2>1. \A i : Depth(i) = DepthAt(read, i)
    BY SourceIs
  <2>2. Blocks = BlocksAt(read) /\ \A b : Own(b, "end") = OwnAt(read, b, "end")
    BY SourceIs
  <2> QED BY <1>3, <1>4, <2>1, <2>2 DEF Hopeless, HopelessAt
<1>6. Complete <=> CompleteAt(read)
  <2>1. Depth(Len(read)) = DepthAt(read, Len(read))
    BY SourceIs
  <2> QED BY <1>4, <2>1 DEF Complete, CompleteAt
<1> QED BY <1>5, <1>6

IsRead == \E h : Reading(read, blocks, nesting, h)

\* The inductive invariant.
ParserInv ==
    /\ outcome = "reading" => IsRead
    /\ outcome \in {"parsed", "bound"} => IsRead /\ CompleteAt(read)
    /\ outcome \notin {"reading", "parsed", "bound"} => HopelessAt(read) \/ (ended /\ ~ CompleteAt(read))
    /\ IF outcome = "bound" THEN bound.code = CompileOf(blocks, bound.args, bound.lucky) ELSE bound = NoBind

Raised == outcome' \notin {"reading", "parsed", "bound"} /\ HopelessAt(read') /\ bound' = bound

LEMMA LabelStep ==
    ASSUME NEW l \in Line, NEW h, Reading(read, blocks, nesting, h), ParseLabel(l)
    PROVE  Raised \/ (IsRead' /\ outcome' = outcome /\ bound' = bound)
<1>1. CASE l.of \in Idents(self)
  <2>1. read' = Append(read, l) /\ outcome' = "SpasmParseError" /\ bound' = bound /\ l.kind = "label"
    BY <1>1 DEF ParseLabel, Reads, Raise
  <2>2. HopelessAt(Append(read, l))
    BY <1>1, <2>1, ReadingRaises DEF self
  <2> QED BY <2>1, <2>2 DEF Raised
<1>2. CASE l.of \notin Idents(self)
  <2>1. /\ read' = Append(read, l) /\ outcome' = outcome /\ bound' = bound /\ l.kind = "label"
        /\ blocks' = [blocks EXCEPT ![Last(nesting)] = Define(self, l.of)] /\ nesting' = nesting
    BY <1>2 DEF ParseLabel, Reads, Update, Proceed
  <2>2. Reading(Append(read, l), [blocks EXCEPT ![Last(nesting)] = Define(self, l.of)], nesting, h)
    BY <1>2, <2>1, ReadingLabel DEF self
  <2> QED BY <2>1, <2>2 DEF IsRead
<1> QED BY <1>1, <1>2

LEMMA TryStep ==
    ASSUME NEW l \in Line, NEW h, Reading(read, blocks, nesting, h), ParseTryBegin(l)
    PROVE  Raised \/ (IsRead' /\ outcome' = outcome /\ bound' = bound)
<1>1. CASE self.tb # <<>>
  <2>1. read' = Append(read, l) /\ outcome' = "SpasmParseError" /\ bound' = bound /\ l.kind = "try"
    BY <1>1 DEF ParseTryBegin, Reads, Raise
  <2>2. HopelessAt(Append(read, l))
    BY <1>1, <2>1, ReadingRaises DEF self
  <2> QED BY <2>1, <2>2 DEF Raised
<1>2. CASE self.tb = <<>>
  <2>1. /\ read' = Append(read, l) /\ outcome' = outcome /\ bound' = bound /\ l.kind = "try"
        /\ blocks' = [blocks EXCEPT ![Last(nesting)] = Begun(self, l)] /\ nesting' = nesting
    BY <1>2 DEF ParseTryBegin, Reads, Update, Proceed, Begun
  <2>2. l.lasti \in BOOLEAN
    BY <2>1, AssemblerAssumption
  <2>3. Reading(Append(read, l), [blocks EXCEPT ![Last(nesting)] = Begun(self, l)], nesting, h)
    BY <1>2, <2>1, <2>2, ReadingTry DEF self
  <2> QED BY <2>1, <2>3 DEF IsRead
<1> QED BY <1>1, <1>2

LEMMA TriedStep ==
    ASSUME NEW l \in Line, NEW h, Reading(read, blocks, nesting, h), ParseTryEnd(l)
    PROVE  Raised \/ (IsRead' /\ outcome' = outcome /\ bound' = bound)
<1>1. CASE self.tb = <<>>
  <2>1. read' = Append(read, l) /\ outcome' = "SpasmParseError" /\ bound' = bound /\ l.kind = "tried"
    BY <1>1 DEF ParseTryEnd, Reads, Raise
  <2>2. HopelessAt(Append(read, l))
    BY <1>1, <2>1, ReadingRaises DEF self
  <2> QED BY <2>1, <2>2 DEF Raised
<1>2. CASE self.tb # <<>>
  <2>1. /\ read' = Append(read, l) /\ outcome' = outcome /\ bound' = bound /\ l.kind = "tried"
        /\ blocks' = [blocks EXCEPT ![Last(nesting)] = Over(self)] /\ nesting' = nesting
    BY <1>2 DEF ParseTryEnd, Reads, Update, Proceed, Over
  <2>2. Reading(Append(read, l), [blocks EXCEPT ![Last(nesting)] = Over(self)], nesting, h)
    BY <1>2, <2>1, ReadingTried DEF self
  <2> QED BY <2>1, <2>2 DEF IsRead
<1> QED BY <1>1, <1>2

LEMMA InstrStep ==
    ASSUME NEW l \in Line, NEW h, Reading(read, blocks, nesting, h), ParseInstruction(l)
    PROVE  IsRead' /\ outcome' = outcome /\ bound' = bound
<1>1. read' = Append(read, l) /\ l.kind = "instr" /\ outcome' = outcome /\ bound' = bound
  BY DEF ParseInstruction, Reads, Proceed
<1>2. Len(read') = Len(read) + 1
  <2>1. read \in Seq(Line)
    BY DEF Reading
  <2> QED BY <1>1, <2>1, AppendIs
<1>3. blocks' = [blocks EXCEPT ![Last(nesting)] = Extended(self, l, Len(read) + 1)] /\ nesting' = nesting
  BY <1>2 DEF ParseInstruction, Update, Extended
<1>4. l.by \in {"nothing", "label", "bind", "code"} /\ l.ends \in BOOLEAN
  BY <1>1, AssemblerAssumption
<1>5. Reading(Append(read, l), [blocks EXCEPT ![Last(nesting)] = Extended(self, l, Len(read) + 1)], nesting, h)
  BY <1>1, <1>4, ReadingInstr DEF self
<1> QED BY <1>1, <1>3, <1>5 DEF IsRead

LEMMA CodeStep ==
    ASSUME NEW l \in Line, NEW h, Reading(read, blocks, nesting, h), CodeBegin(l)
    PROVE  Raised \/ (IsRead' /\ outcome' = outcome /\ bound' = bound)
<1>1. CASE l.of \in DOMAIN self.codes
  <2>1. read' = Append(read, l) /\ outcome' = "ValueError" /\ bound' = bound /\ l.kind = "code"
    BY <1>1 DEF CodeBegin, Reads, Raise
  <2>2. HopelessAt(Append(read, l))
    BY <1>1, <2>1, ReadingRaises DEF self
  <2> QED BY <2>1, <2>2 DEF Raised
<1>2. CASE l.of \notin DOMAIN self.codes
  <2> DEFINE B == Append([blocks EXCEPT ![Last(nesting)] = WithCode(self, l.of, Len(blocks) + 1)], Assembly(l))
             g == [k \in 1 .. Len(blocks) + 1 |-> IF k = Len(blocks) + 1 THEN Len(read) + 1 ELSE h[k]]
  <2>1. /\ read' = Append(read, l) /\ outcome' = outcome /\ bound' = bound /\ l.kind = "code"
        /\ blocks' = B /\ nesting' = Append(nesting, Len(blocks) + 1)
    BY <1>2 DEF CodeBegin, Reads, Proceed
  <2>2. Reading(Append(read, l), B, Append(nesting, Len(blocks) + 1), g)
    BY <1>2, <2>1, ReadingBegin DEF self
  <2> HIDE DEF B, g
  <2> QED BY <2>1, <2>2 DEF IsRead
<1> QED BY <1>1, <1>2

LEMMA EndStep ==
    ASSUME NEW l \in Line, NEW h, Reading(read, blocks, nesting, h), CodeEnd(l)
    PROVE  Raised \/ (IsRead' /\ outcome' = outcome /\ bound' = bound)
<1>1. CASE Len(nesting) = 1 \/ ~ Valid(self)
  <2>1. read' = Append(read, l) /\ outcome' = "ValueError" /\ bound' = bound /\ l.kind = "end"
    BY <1>1 DEF CodeEnd, Reads, Raise
  <2>2. HopelessAt(Append(read, l))
    BY <1>1, <2>1, ReadingRaises DEF self
  <2> QED BY <2>1, <2>2 DEF Raised
<1>2. CASE ~ (Len(nesting) = 1 \/ ~ Valid(self))
  <2>1. /\ read' = Append(read, l) /\ outcome' = outcome /\ bound' = bound /\ l.kind = "end"
        /\ blocks' = blocks /\ nesting' = Front(nesting)
    BY <1>2 DEF CodeEnd, Reads, Proceed
  <2>2. Reading(Append(read, l), blocks, Front(nesting), h)
    BY <1>2, <2>1, ReadingEnd DEF self
  <2> QED BY <2>1, <2>2 DEF IsRead
<1> QED BY <1>1, <1>2

LEMMA LineStep ==
    ASSUME ParserInv, NEW l \in Line,
           \/ ParseLabel(l) \/ ParseTryBegin(l) \/ ParseTryEnd(l)
           \/ ParseInstruction(l) \/ CodeBegin(l) \/ CodeEnd(l)
    PROVE  ParserInv'
<1>1. outcome = "reading"
  BY DEF ParseLabel, ParseTryBegin, ParseTryEnd, ParseInstruction, CodeBegin, CodeEnd, Reads
<1>2. PICK h : Reading(read, blocks, nesting, h)
  BY <1>1 DEF ParserInv, IsRead
<1>3. Raised \/ (IsRead' /\ outcome' = outcome /\ bound' = bound)
  BY <1>2, LabelStep, TryStep, TriedStep, InstrStep, CodeStep, EndStep
<1>4. bound = NoBind
  BY <1>1 DEF ParserInv
<1> QED BY <1>1, <1>3, <1>4 DEF ParserInv, Raised

LEMMA EndOfLinesStep ==
    ASSUME ParserInv, EndOfLines
    PROVE  ParserInv'
<1>1. outcome = "reading" /\ ended' = TRUE /\ read' = read /\ blocks' = blocks /\ nesting' = nesting /\ bound' = bound
  BY DEF EndOfLines
<1>2. PICK h : Reading(read, blocks, nesting, h)
  BY <1>1 DEF ParserInv, IsRead
<1>3. CompleteAt(read) <=> Len(nesting) = 1 /\ Valid(self)
  BY <1>2, ReadingComplete DEF self
<1>4. outcome' = (IF Len(nesting) = 1 /\ Valid(self) THEN "parsed" ELSE "ValueError")
  BY DEF EndOfLines
<1>5. IsRead' /\ bound = NoBind
  BY <1>1, <1>2 DEF IsRead, ParserInv
<1> QED BY <1>1, <1>3, <1>4, <1>5 DEF ParserInv

LEMMA BindStep ==
    ASSUME ParserInv, NEW args, Bind(args)
    PROVE  ParserInv'
<1>1. PICK lucky \in SUBSET Dangling :
          bound' = [args |-> args, lucky |-> lucky, code |-> Compile(args, lucky)]
  BY DEF Bind
<1>2. /\ outcome \in {"parsed", "bound"} /\ outcome' = "bound"
      /\ read' = read /\ ended' = ended /\ blocks' = blocks /\ nesting' = nesting
  BY DEF Bind
<1>3. bound'.code = CompileOf(blocks', bound'.args, bound'.lucky)
  BY <1>1, <1>2, CompileIs
<1>4. IsRead' /\ CompleteAt(read)
  BY <1>2 DEF ParserInv, IsRead
<1> QED BY <1>2, <1>3, <1>4 DEF ParserInv

THEOREM ParserInvHolds == Spec => []ParserInv
<1>1. Init => ParserInv
  <2> SUFFICES ASSUME Init PROVE ParserInv
    OBVIOUS
  <2>1. Reading(<<>>, <<Assembly(Module)>>, <<1>>, [k \in {1} |-> 0])
    BY ReadingInit
  <2> QED BY <2>1 DEF Init, ParserInv, IsRead
<1>2. ParserInv /\ [Next]_vars => ParserInv'
  <2> SUFFICES ASSUME ParserInv, [Next]_vars PROVE ParserInv'
    OBVIOUS
  <2>1. CASE Next
    BY <2>1, LineStep, EndOfLinesStep, BindStep DEF Next
  <2>2. CASE UNCHANGED vars
    BY <2>2 DEF vars, ParserInv, IsRead
  <2> QED BY <2>1, <2>2
<1> QED BY <1>1, <1>2, PTL DEF Spec

\* A source is rejected at the first line that breaks the grammar, what a block lacks
\* being at its end, and every other is accepted: labels, try blocks and
\* code blocks are each kept to their own block (_asm.py:395-468).
THEOREM AcceptsTheGrammarHolds == Spec => []AcceptsTheGrammar
<1>1. ParserInv => AcceptsTheGrammar
  <2> SUFFICES ASSUME ParserInv PROVE AcceptsTheGrammar
    OBVIOUS
  <2>1. IsRead => ~ HopelessAt(read)
    BY ReadingNotHopeless DEF IsRead
  <2> QED BY <2>1, GrammarIs DEF ParserInv, AcceptsTheGrammar
<1> QED BY <1>1, ParserInvHolds, PTL

-----------------------------------------------------------------------------
(***************************************************************************)
(* A source that is read to its end.                                       *)
(***************************************************************************)
Done(r, B, h) ==
    /\ r \in Seq(Line) /\ B \in Seq(BlockT) /\ Homes(r, Len(B), h)
    /\ \A k \in 1 .. Len(B) : BlockIs(B[k], r, h[k], h) /\ Valid(B[k])

LEMMA ReadingDone ==
    ASSUME NEW r, NEW B, NEW N, NEW h, Reading(r, B, N, h), CompleteAt(r)
    PROVE  Done(r, B, h)
<1>1. /\ r \in Seq(Line) /\ B \in Seq(BlockT) /\ Homes(r, Len(B), h) /\ Nested(r, Len(B), N, h)
  BY DEF Reading
<1>2. Len(N) = 1 /\ Valid(B[Last(N)])
  BY ReadingComplete
<1>3. Last(N) = 1 /\ N[1] = 1 /\ Len(B) \in Nat \ {0}
  BY <1>1, <1>2 DEF Last, Nested, Homes
<1>4. ASSUME NEW k \in 1 .. Len(B) PROVE Valid(B[k])
  <2>1. CASE k = 1
    BY <1>2, <1>3, <2>1
  <2>2. CASE k # 1
    <3>1. 1 \in 1 .. Len(B)
      BY <1>3
    <3>2. h[k] # h[1]
      BY <1>1, <2>2, <3>1, HomesDiffer
    <3>3. h[k] \in BlocksAt(r)
      BY <1>1 DEF Homes
    <3>4. ~ StillAt(r, h[k])
      BY <1>1, <1>2, <1>3, <3>2, <3>3 DEF Nested
    <3> QED BY <3>4 DEF Reading
  <2> QED BY <2>1, <2>2
<1>5. \A k \in 1 .. Len(B) : BlockIs(B[k], r, h[k], h)
  BY DEF Reading
<1> QED BY <1>1, <1>4, <1>5 DEF Done

LEMMA DoneIs ==
    ASSUME NEW r, NEW B, NEW h, Done(r, B, h)
    PROVE  /\ r \in Seq(Line) /\ Homes(r, Len(B), h) /\ Len(B) \in Nat \ {0}
           /\ DOMAIN B = 1 .. Len(B) /\ DOMAIN h = 1 .. Len(B) /\ h[1] = 0
           /\ \A k \in 1 .. Len(B) : h[k] \in BlocksAt(r) /\ h[k] \in Nat /\ B[k] \in BlockT
<1>1. r \in Seq(Line) /\ B \in Seq(BlockT) /\ Homes(r, Len(B), h)
  BY DEF Done
<1>2. BlocksAt(r) \subseteq Nat
  BY <1>1, BlocksAre
<1>3. DOMAIN B = 1 .. Len(B) /\ \A k \in 1 .. Len(B) : B[k] \in BlockT
  BY <1>1, LenProperties, ElementOfSeq
<1> QED BY <1>1, <1>2, <1>3 DEF Homes

\* The codes of a block are the Assemblies of those whose headers it has.
LEMMA ChildIs ==
    ASSUME NEW r, NEW B, NEW h, Done(r, B, h), NEW k \in 1 .. Len(B), NEW x \in DOMAIN B[k].codes
    PROVE  /\ B[k].codes[x] \in 1 .. Len(B) /\ k < B[k].codes[x]
           /\ h[B[k].codes[x]] \in OwnAt(r, h[k], "code") /\ r[h[B[k].codes[x]]].of = x
<1> DEFINE j == B[k].codes[x]
<1>1. /\ r \in Seq(Line) /\ Homes(r, Len(B), h) /\ Len(B) \in Nat
      /\ DOMAIN h = 1 .. Len(B) /\ \A i \in 1 .. Len(B) : h[i] \in Nat
  BY DoneIs
<1>2. CodesMirrored(B[k].codes, r, OwnAt(r, h[k], "code"), h)
  BY DEF Done, BlockIs
<1>3. PICK i \in OwnAt(r, h[k], "code") : r[i].of = x
  BY <1>2 DEF CodesMirrored, NamesAt
<1>4. j \in 1 .. Len(B) /\ h[j] = i
  BY <1>1, <1>2, <1>3 DEF CodesMirrored
<1>5. OwnerAt(r, i) = h[k] /\ i \in 1 .. Len(r) /\ Len(r) \in Nat
  <2>1. LineSet(OwnAt(r, h[k], "code"), Len(r))
    BY <1>1, OwnIs
  <2> QED BY <1>3, <2>1 DEF OwnAt, LineSet
<1>6. h[k] < h[j]
  <2>1. i \in 1 .. Len(r) + 1
    BY <1>5
  <2>2. OwnerAt(r, i) \in 0 .. i - 1
    BY <1>1, <2>1, OwnerIs
  <2> QED BY <1>4, <1>5, <2>2
<1>7. k < j
  <2>1. j < k => h[j] < h[k]
    BY <1>1, <1>4 DEF Homes
  <2>2. h[j] \in Nat /\ h[k] \in Nat
    BY <1>1, <1>4
  <2> QED BY <1>1, <1>4, <1>6, <2>1, <2>2
<1> QED BY <1>3, <1>4, <1>7

LEMMA ParentIs ==
    ASSUME NEW r, NEW B, NEW h, Done(r, B, h), NEW j \in 1 .. Len(B), j # 1
    PROVE  \E k \in 1 .. Len(B) :
              /\ h[k] = OwnerAt(r, h[j]) /\ h[k] < h[j] /\ h[j] \in OwnAt(r, h[k], "code")
              /\ r[h[j]].of \in DOMAIN B[k].codes /\ B[k].codes[r[h[j]].of] = j
<1>1. /\ r \in Seq(Line) /\ Homes(r, Len(B), h) /\ Len(B) \in Nat \ {0}
      /\ DOMAIN h = 1 .. Len(B) /\ h[1] = 0 /\ \A i \in 1 .. Len(B) : h[i] \in Nat /\ h[i] \in BlocksAt(r)
  BY DoneIs
<1>2. h[j] # 0
  <2>1. 1 \in 1 .. Len(B)
    BY <1>1
  <2> QED BY <1>1, <2>1, HomesDiffer
<1>3. h[j] \in KindLines(r, "code") /\ h[j] \in 1 .. Len(r) + 1
  <2>1. BlocksAt(r) \subseteq 0 .. Len(r) /\ Len(r) \in Nat
    BY <1>1, BlocksAre
  <2> QED BY <1>1, <1>2, <2>1 DEF BlocksAt
<1>4. OwnerAt(r, h[j]) \in BlocksAt(r) /\ OwnerAt(r, h[j]) \in 0 .. h[j] - 1
  BY <1>1, <1>3, OwnerIs
<1>5. PICK k \in 1 .. Len(B) : h[k] = OwnerAt(r, h[j])
  BY <1>1, <1>4 DEF Homes
<1>6. h[j] \in OwnAt(r, h[k], "code")
  BY <1>3, <1>5 DEF OwnAt
<1>7. CodesMirrored(B[k].codes, r, OwnAt(r, h[k], "code"), h)
  BY DEF Done, BlockIs
<1>8. /\ r[h[j]].of \in DOMAIN B[k].codes
      /\ B[k].codes[r[h[j]].of] \in 1 .. Len(B) /\ h[B[k].codes[r[h[j]].of]] = h[j]
  BY <1>1, <1>6, <1>7 DEF CodesMirrored, NamesAt
<1>9. B[k].codes[r[h[j]].of] = j
  BY <1>1, <1>8, HomesDiffer
<1>10. h[k] < h[j]
  BY <1>1, <1>4, <1>5
<1> QED BY <1>5, <1>6, <1>8, <1>9, <1>10

-----------------------------------------------------------------------------
(***************************************************************************)
(* compile().                                                              *)
(***************************************************************************)
CodeEqn(B, args, lucky, code, k) == code[k] = CompiledOf(B, k, CodesOf(B[k], code), args, lucky)

\* The code object of a block takes those of the blocks in it, which come later.
LEMMA CodeLocal ==
    ASSUME NEW r, NEW B, NEW h, Done(r, B, h), NEW k \in 1 .. Len(B), NEW f, NEW g,
           \A j \in 1 .. Len(B) : k < j => f[j] = g[j]
    PROVE  CodesOf(B[k], f) = CodesOf(B[k], g)
<1>1. \A x \in DOMAIN B[k].codes : B[k].codes[x] \in 1 .. Len(B) /\ k < B[k].codes[x]
  BY ChildIs
<1>2. \A x \in DOMAIN B[k].codes : f[B[k].codes[x]] = g[B[k].codes[x]]
  BY <1>1
<1>3. [c \in DOMAIN B[k].codes |-> f[B[k].codes[c]]] = [c \in DOMAIN B[k].codes |-> g[B[k].codes[c]]]
  BY <1>2
<1> QED BY <1>3, Zenon DEF CodesOf

LEMMA CodeExists ==
    ASSUME NEW r, NEW B, NEW h, Done(r, B, h), NEW args, NEW lucky
    PROVE  \E f : DOMAIN f = 1 .. Len(B) /\ f = [k \in 1 .. Len(B) |-> f[k]]
                  /\ \A k \in 1 .. Len(B) : CodeEqn(B, args, lucky, f, k)
<1> DEFINE m == Len(B)
           P(d) == \E f : /\ DOMAIN f = 1 .. m /\ f = [k \in 1 .. m |-> f[k]]
                          /\ \A k \in 1 .. m : m - d < k => CodeEqn(B, args, lucky, f, k)
           S == {d \in 0 .. m : ~ P(d)}
<1>1. m \in Nat
  BY DoneIs
<1>2. P(0)
  <2> DEFINE f == [k \in 1 .. m |-> 0]
  <2>1. DOMAIN f = 1 .. m /\ f = [k \in 1 .. m |-> f[k]]
    OBVIOUS
  <2>2. \A k \in 1 .. m : ~ (m - 0 < k)
    BY <1>1
  <2> HIDE DEF f, m
  <2> QED BY <2>1, <2>2
<1>3. ASSUME NEW d \in 0 .. m, d # 0, P(d - 1) PROVE P(d)
  <2> DEFINE q == m - (d - 1)
  <2>1. q \in 1 .. m /\ q = m - d + 1
    BY <1>1, <1>3
  <2>2. PICK f : /\ DOMAIN f = 1 .. m /\ f = [k \in 1 .. m |-> f[k]]
                 /\ \A k \in 1 .. m : m - (d - 1) < k => CodeEqn(B, args, lucky, f, k)
    BY <1>3
  <2> DEFINE new == CompiledOf(B, q, CodesOf(B[q], f), args, lucky)
             g == [k \in 1 .. m |-> IF k = q THEN new ELSE f[k]]
  <2> HIDE DEF new, q, m
  <2>3. /\ DOMAIN g = 1 .. m /\ g = [k \in 1 .. m |-> g[k]]
        /\ g[q] = new /\ \A k \in 1 .. m : k # q => g[k] = f[k]
    BY <2>1
  <2> HIDE DEF g
  <2>4. ASSUME NEW k \in 1 .. m, q <= k PROVE CodesOf(B[k], g) = CodesOf(B[k], f)
    <3>1. \A j \in 1 .. m : k < j => j # q
      BY <2>1, <2>4
    <3>2. \A j \in 1 .. Len(B) : k < j => g[j] = f[j]
      BY <2>3, <3>1 DEF m
    <3>3. k \in 1 .. Len(B)
      BY DEF m
    <3> QED BY <3>2, <3>3, CodeLocal
  <2>5. CodeEqn(B, args, lucky, g, q)
    <3>1. CodesOf(B[q], g) = CodesOf(B[q], f)
      BY <2>1, <2>4
    <3> QED BY <2>3, <3>1 DEF CodeEqn, new
  <2>6. ASSUME NEW k \in 1 .. m, q < k PROVE CodeEqn(B, args, lucky, g, k)
    <3>1. q <= k /\ k # q
      BY <2>1, <2>6
    <3>2. CodesOf(B[k], g) = CodesOf(B[k], f) /\ g[k] = f[k]
      BY <2>3, <2>4, <3>1
    <3>3. CodeEqn(B, args, lucky, f, k)
      BY <2>2, <2>6 DEF q
    <3> QED BY <3>2, <3>3 DEF CodeEqn
  <2>7. \A k \in 1 .. m : m - d < k => k = q \/ q < k
    BY <1>1, <2>1
  <2>8. \A k \in 1 .. m : m - d < k => CodeEqn(B, args, lucky, g, k)
    BY <2>5, <2>6, <2>7
  <2> QED BY <2>3, <2>8
<1>4. S = {}
  <2>1. SUFFICES ASSUME S # {} PROVE FALSE
    OBVIOUS
  <2>2. S \in SUBSET Nat
    BY <1>1
  <2> HIDE DEF P
  <2>3. PICK d \in S : \A e \in S : d <= e
    <3> HIDE DEF S
    <3> QED BY <2>1, <2>2, LeastLine
  <2>4. d \in 0 .. m /\ d # 0 /\ ~ P(d)
    BY <1>2, <2>3
  <2>5. d - 1 \in 0 .. m /\ ~ (d <= d - 1)
    BY <1>1, <2>4
  <2>6. P(d - 1)
    BY <2>3, <2>5
  <2> QED BY <1>3, <2>4, <2>6
<1>5. P(m)
  <2>1. m \in 0 .. m
    BY <1>1
  <2> HIDE DEF P, m
  <2> QED BY <1>4, <2>1
<1>6. \A k \in 1 .. m : m - m < k
  BY <1>1
<1> HIDE DEF m
<1> QED BY <1>5, <1>6 DEF m

LEMMA CompileUnfolds ==
    ASSUME NEW r, NEW B, NEW h, Done(r, B, h), NEW args, NEW lucky
    PROVE  \E f : CompileOf(B, args, lucky) = f[1] /\ \A k \in 1 .. Len(B) : CodeEqn(B, args, lucky, f, k)
<1> DEFINE Q(f) == f = [k \in DOMAIN B |-> CompiledOf(B, k, CodesOf(B[k], f), args, lucky)]
           code == CHOOSE f : Q(f)
<1>1. DOMAIN B = 1 .. Len(B)
  BY DoneIs
<1>2. \E f : Q(f)
  <2>1. PICK f : /\ DOMAIN f = 1 .. Len(B) /\ f = [k \in 1 .. Len(B) |-> f[k]]
                 /\ \A k \in 1 .. Len(B) : CodeEqn(B, args, lucky, f, k)
    BY CodeExists
  <2>2. Q(f)
    BY <1>1, <2>1 DEF CodeEqn
  <2> QED BY <2>2
<1>3. Q(code)
  BY <1>2
<1>4. CompileOf(B, args, lucky) = code[1]
  BY DEF CompileOf
<1> HIDE DEF code
<1>5. ASSUME NEW k \in 1 .. Len(B) PROVE CodeEqn(B, args, lucky, code, k)
  BY <1>1, <1>3 DEF CodeEqn
<1> QED BY <1>4, <1>5

-----------------------------------------------------------------------------
(***************************************************************************)
(* Which blocks are bound.                                                 *)
(***************************************************************************)
InstrsBy(r, c, by) == {i \in OwnAt(r, c, "instr") : r[i].by = by}
GivenAt(r, c, args) ==
    /\ NamesAt(r, InstrsBy(r, c, "bind")) \subseteq args
    /\ NamesAt(r, InstrsBy(r, c, "code")) \subseteq NamesAt(r, OwnAt(r, c, "code"))
RefersAt(r, c) == InstrsBy(r, c, "code") # {}
ReachedAt(r, b) ==
    \A c \in BlocksAt(r) : c # 0 /\ c <= b /\ (\A k \in c .. b : DepthAt(r, k) >= DepthAt(r, c)) =>
        RefersAt(r, OwnerAt(r, c))

LEMMA InstrAt ==
    ASSUME NEW instrs \in Seq(InstrT), NEW r, NEW n, NEW I, LineSet(I, n), InstrsMirrored(instrs, r, I)
    PROVE  /\ DOMAIN instrs = 1 .. Cardinality(I) /\ Cardinality(I) \in Nat
           /\ \A i \in I : /\ Rank(I, i) + 1 \in DOMAIN instrs
                           /\ instrs[Rank(I, i) + 1] = [by |-> r[i].by, of |-> r[i].of, ends |-> r[i].ends, lineno |-> i]
           /\ \A k \in DOMAIN instrs : \E i \in I : Rank(I, i) + 1 = k
<1> DEFINE c == Cardinality(I)
<1>1. DOMAIN instrs = 1 .. c /\ c \in Nat
  BY LenProperties, LineSetFinite DEF InstrsMirrored
<1>2. /\ \A i \in I : Rank(I, i) \in 0 .. c - 1
      /\ \A q \in 0 .. c - 1 : \E i \in I : Rank(I, i) = q
  BY RankOf
<1> HIDE DEF c
<1>3. ASSUME NEW i \in I
      PROVE  /\ Rank(I, i) + 1 \in DOMAIN instrs
             /\ instrs[Rank(I, i) + 1] = [by |-> r[i].by, of |-> r[i].of, ends |-> r[i].ends, lineno |-> i]
  BY <1>1, <1>2 DEF InstrsMirrored
<1>4. ASSUME NEW k \in DOMAIN instrs PROVE \E i \in I : Rank(I, i) + 1 = k
  <2>1. k - 1 \in 0 .. c - 1 /\ (k - 1) + 1 = k
    BY <1>1
  <2>2. PICK i \in I : Rank(I, i) = k - 1
    BY <1>2, <2>1
  <2> QED BY <2>1, <2>2
<1> QED BY <1>1, <1>3, <1>4 DEF c

LEMMA NamesOf ==
    ASSUME NEW b \in BlockT, NEW r \in Seq(Line), NEW c, NEW h, BlockIs(b, r, c, h), NEW by
    PROVE  Names(b, by) = NamesAt(r, InstrsBy(r, c, by))
<1> DEFINE I == OwnAt(r, c, "instr")
<1>1. b.instrs \in Seq(InstrT) /\ LineSet(I, Len(r)) /\ InstrsMirrored(b.instrs, r, I)
  BY OwnIs DEF BlockT, BlockIs, Mirrored
<1> HIDE DEF I
<1>2. /\ \A i \in I : /\ Rank(I, i) + 1 \in DOMAIN b.instrs
                      /\ b.instrs[Rank(I, i) + 1] = [by |-> r[i].by, of |-> r[i].of, ends |-> r[i].ends, lineno |-> i]
      /\ \A k \in DOMAIN b.instrs : \E i \in I : Rank(I, i) + 1 = k
  BY <1>1, InstrAt
<1>3. ASSUME NEW i \in I, r[i].by = by
      PROVE  \E k \in DOMAIN b.instrs : b.instrs[k].by = by /\ b.instrs[k].of = r[i].of
  <2>1. /\ Rank(I, i) + 1 \in DOMAIN b.instrs
        /\ b.instrs[Rank(I, i) + 1] = [by |-> r[i].by, of |-> r[i].of, ends |-> r[i].ends, lineno |-> i]
    BY <1>2
  <2>2. b.instrs[Rank(I, i) + 1].by = by /\ b.instrs[Rank(I, i) + 1].of = r[i].of
    BY <1>3, <2>1
  <2> QED BY <2>1, <2>2
<1>4. ASSUME NEW k \in DOMAIN b.instrs, b.instrs[k].by = by
      PROVE  \E i \in I : r[i].by = by /\ b.instrs[k].of = r[i].of
  <2>1. PICK i \in I : Rank(I, i) + 1 = k
    BY <1>2
  <2>2. b.instrs[k] = [by |-> r[i].by, of |-> r[i].of, ends |-> r[i].ends, lineno |-> i]
    BY <1>2, <2>1
  <2> QED BY <1>4, <2>2
<1> QED BY <1>3, <1>4 DEF Names, NamesAt, InstrsBy, I

\* What bind(), and compile() after it, ask of a block.
FineAt(r, B, h, args, lucky, k) ==
    GivenAt(r, h[k], args) /\ (k = 1 \/ ~ Refused(B[k], k \in lucky))

LEMMA MadeIs ==
    ASSUME NEW r, NEW B, NEW h, Done(r, B, h), NEW args, NEW lucky, NEW code, NEW k \in 1 .. Len(B),
           CodeEqn(B, args, lucky, code, k)
    PROVE  /\ code[k] # NoCode => code[k] = Materialise(B[k], CodesOf(B[k], code))
           /\ code[k].made <=> code[k] # NoCode
           /\ code[k].made <=>
                /\ FineAt(r, B, h, args, lucky, k)
                /\ RefersAt(r, h[k]) => \A x \in DOMAIN B[k].codes : code[B[k].codes[x]] # NoCode
<1> DEFINE b == B[k]
           cs == CodesOf(b, code)
<1>1. r \in Seq(Line) /\ b \in BlockT /\ BlockIs(b, r, h[k], h)
  BY DoneIs DEF Done
<1>2. \A by : Names(b, by) = NamesAt(r, InstrsBy(r, h[k], by))
  BY <1>1, NamesOf
<1>3. DOMAIN b.codes = NamesAt(r, OwnAt(r, h[k], "code"))
  BY <1>1 DEF BlockIs, CodesMirrored
<1>4. RefersAt(r, h[k]) <=> Names(b, "code") # {}
  <2>1. Names(b, "code") = NamesAt(r, InstrsBy(r, h[k], "code"))
    BY <1>2
  <2>2. NamesAt(r, InstrsBy(r, h[k], "code")) # {} <=> InstrsBy(r, h[k], "code") # {}
    BY DEF NamesAt
  <2> QED BY <2>1, <2>2 DEF RefersAt
<1>5. ~ NoCode.made /\ Materialise(b, cs).made
  BY DEF NoCode, Materialise
<1> DEFINE fine == k = 1 \/ ~ Refused(B[k], k \in lucky)
           nothing == \/ Missing(b, args) # {}
                      \/ \E c \in DOMAIN cs : cs[c] = NoCode
                      \/ ~ Names(b, "code") \subseteq DOMAIN cs
<1>6. code[k] = IF ~ fine \/ nothing THEN NoCode ELSE Materialise(b, cs)
  <2>1. Bytecode(b, cs, args) = IF nothing THEN NoCode ELSE Materialise(b, cs)
    BY Zenon DEF Bytecode
  <2>2. code[k] = IF k # 1 /\ Refused(B[k], k \in lucky) THEN NoCode ELSE Bytecode(b, cs, args)
    BY Zenon DEF CodeEqn, CompiledOf
  <2> QED BY <2>1, <2>2
<1>10. FineAt(r, B, h, args, lucky, k) <=> GivenAt(r, h[k], args) /\ fine
  BY DEF FineAt
<1> HIDE DEF fine
<1>7. Missing(b, args) = {} <=> NamesAt(r, InstrsBy(r, h[k], "bind")) \subseteq args
  BY <1>2 DEF Missing
<1>8. CASE Names(b, "code") = {}
  <2>1. cs = <<>>
    BY <1>8 DEF CodesOf
  <2>2. DOMAIN cs = {}
    BY <2>1
  <2>3. NamesAt(r, InstrsBy(r, h[k], "code")) = {}
    BY <1>2, <1>8
  <2> HIDE DEF cs, b
  <2> QED BY <1>4, <1>5, <1>6, <1>7, <1>8, <1>10, <2>2, <2>3 DEF GivenAt, cs, b
<1>9. CASE Names(b, "code") # {}
  <2>1. DOMAIN cs = DOMAIN b.codes /\ \A x \in DOMAIN b.codes : cs[x] = code[b.codes[x]]
    BY <1>9 DEF CodesOf
  <2>2. NamesAt(r, InstrsBy(r, h[k], "code")) = Names(b, "code")
    BY <1>2
  <2> HIDE DEF cs, b
  <2> QED BY <1>3, <1>4, <1>5, <1>6, <1>7, <1>9, <1>10, <2>1, <2>2 DEF GivenAt, cs, b
<1> QED BY <1>8, <1>9

\* A header makes the source one deeper.
LEMMA DepthBack ==
    ASSUME NEW r \in Seq(Line), NEW b \in KindLines(r, "code")
    PROVE  DepthAt(r, b) = DepthAt(r, b - 1) + 1
<1> DEFINE C == KindLines(r, "code")
           E == KindLines(r, "end")
           n == Len(r)
<1>1. LineSet(C, n) /\ LineSet(E, n)
  BY KindLinesIs
<1>2. n \in Nat /\ C \subseteq 1 .. n /\ E \subseteq 1 .. n /\ b \in 1 .. n /\ b \notin E
  BY <1>1 DEF LineSet, KindLines
<1>3. {j \in C : j <= b} = {j \in C : j <= b - 1} \cup {b} /\ b \notin {j \in C : j <= b - 1}
  <2>1. b \in C
    OBVIOUS
  <2> HIDE DEF C, E, n
  <2>2. \A j \in C : j <= b <=> j <= b - 1 \/ j = b
    BY <1>2
  <2>3. ~ (b <= b - 1) /\ b <= b
    BY <1>2
  <2> QED BY <2>1, <2>2, <2>3
<1>4. {j \in E : j <= b} = {j \in E : j <= b - 1}
  <2> HIDE DEF C, E, n
  <2>1. \A j \in E : j <= b <=> j <= b - 1
    BY <1>2
  <2> QED BY <2>1
<1>5. IsFiniteSet({j \in C : j <= b - 1})
  <2>1. IsFiniteSet(C) /\ {j \in C : j <= b - 1} \in SUBSET C
    BY <1>1, LineSetFinite
  <2> HIDE DEF C
  <2> QED BY <2>1, FS_Subset
<1>6. Cardinality({j \in C : j <= b}) = Cardinality({j \in C : j <= b - 1}) + 1
  <2> DEFINE U == {j \in C : j <= b - 1}
  <2>1. IsFiniteSet(U) /\ b \notin U
    BY <1>3, <1>5
  <2> HIDE DEF U
  <2>2. Cardinality(U \cup {b}) = Cardinality(U) + 1
    BY <2>1, FS_AddElement
  <2> QED BY <1>3, <2>2, Zenon DEF U
<1>7. Cardinality({j \in E : j <= b}) = Cardinality({j \in E : j <= b - 1})
  BY <1>4, Zenon
<1>8. /\ DepthAt(r, b) = Cardinality({j \in C : j <= b}) - Cardinality({j \in E : j <= b})
      /\ DepthAt(r, b - 1) = Cardinality({j \in C : j <= b - 1}) - Cardinality({j \in E : j <= b - 1})
  BY DEF DepthAt
<1>9. Cardinality({j \in C : j <= b - 1}) \in Int /\ Cardinality({j \in E : j <= b - 1}) \in Int
  <2>1. IsFiniteSet(E) /\ {j \in E : j <= b - 1} \in SUBSET E
    BY <1>1, LineSetFinite
  <2>2. IsFiniteSet({j \in E : j <= b - 1})
    <3> HIDE DEF E
    <3> QED BY <2>1, FS_Subset
  <2> QED BY <1>5, <2>2, FS_CardinalityType
<1> HIDE DEF C, E
<1> QED BY <1>6, <1>7, <1>8, <1>9

\* A block is reached if the one around it is, and refers to a block of its own.
LEMMA ReachedStep ==
    ASSUME NEW r \in Seq(Line), NEW b \in KindLines(r, "code")
    PROVE  ReachedAt(r, b) <=> RefersAt(r, OwnerAt(r, b)) /\ ReachedAt(r, OwnerAt(r, b))
<1> DEFINE o == OwnerAt(r, b)
           Around(c, x) == c <= x /\ \A k \in c .. x : DepthAt(r, k) >= DepthAt(r, c)
<1>1. \A i : DepthAt(r, i) \in Int
  BY DepthIs
<1>2. Len(r) \in Nat /\ BlocksAt(r) \subseteq 0 .. Len(r) /\ b \in 1 .. Len(r) /\ b \in BlocksAt(r)
  <2>1. LineSet(KindLines(r, "code"), Len(r))
    BY KindLinesIs
  <2>2. Len(r) \in Nat /\ BlocksAt(r) \subseteq 0 .. Len(r)
    BY BlocksAre
  <2> QED BY <2>1, <2>2 DEF LineSet, BlocksAt
<1>3. /\ o \in BlocksAt(r) /\ o \in 0 .. b - 1
      /\ \A k \in o .. b - 1 : o = 0 \/ DepthAt(r, k) >= DepthAt(r, o)
      /\ \A c \in KindLines(r, "code") :
            c < b /\ (\A k \in c .. b - 1 : DepthAt(r, k) >= DepthAt(r, c)) => c <= o
  <2>1. b \in 1 .. Len(r) + 1
    BY <1>2
  <2> HIDE DEF o
  <2> QED BY <2>1, OwnerIs DEF o
<1>4. DepthAt(r, b) = DepthAt(r, b - 1) + 1
  BY DepthBack
<1> HIDE DEF o
<1>5. ASSUME NEW c \in BlocksAt(r), c # 0
      PROVE  Around(c, b) <=> c = b \/ Around(c, o)
  <2>1. c \in KindLines(r, "code") /\ c \in 1 .. Len(r)
    BY <1>2, <1>5 DEF BlocksAt
  <2>2. Around(b, b)
    <3>1. \A k \in b .. b : k = b
      BY <1>2
    <3> QED BY <1>1, <1>2, <3>1
  <2>3. ASSUME Around(c, o) PROVE Around(c, b)
    <3>1. o # 0 /\ c <= b /\ c <= o
      BY <1>2, <1>3, <2>1, <2>3
    <3>2. ASSUME NEW k \in c .. b PROVE DepthAt(r, k) >= DepthAt(r, c)
      <4>1. DepthAt(r, o) >= DepthAt(r, c)
        BY <1>2, <1>3, <2>1, <2>3
      <4>2. \A j \in o .. b - 1 : DepthAt(r, j) >= DepthAt(r, c)
        BY <1>1, <1>3, <3>1, <4>1
      <4>3. CASE k <= o
        BY <1>3, <2>1, <2>3, <4>3
      <4>4. CASE k \in o .. b - 1
        BY <4>2, <4>4
      <4>5. CASE k = b
        <5>1. b - 1 \in o .. b - 1
          BY <1>2, <1>3
        <5>2. DepthAt(r, b - 1) >= DepthAt(r, c)
          BY <4>2, <5>1
        <5> QED BY <1>1, <1>4, <4>5, <5>2
      <4>6. k <= o \/ k \in o .. b - 1 \/ k = b
        BY <1>2, <1>3, <2>1
      <4> QED BY <4>3, <4>4, <4>5, <4>6
    <3> QED BY <3>1, <3>2
  <2>4. ASSUME Around(c, b), c # b PROVE Around(c, o)
    <3>1. c < b /\ \A k \in c .. b - 1 : k \in c .. b
      BY <1>2, <2>1, <2>4
    <3>2. c <= o
      BY <1>3, <2>1, <2>4, <3>1
    <3>3. \A k \in c .. o : k \in c .. b
      BY <1>2, <1>3, <2>1
    <3> QED BY <2>4, <3>2, <3>3
  <2> HIDE DEF Around
  <2> QED BY <2>2, <2>3, <2>4
<1>6. \A x : ReachedAt(r, x) <=>
        \A c \in BlocksAt(r) : c # 0 /\ Around(c, x) => RefersAt(r, OwnerAt(r, c))
  BY DEF ReachedAt
<1> HIDE DEF Around
<1>7. b # 0
  BY <1>2
<1>8. ReachedAt(r, b) <=> RefersAt(r, o) /\ ReachedAt(r, o)
  BY <1>2, <1>5, <1>6, <1>7 DEF o
<1> QED BY <1>8 DEF o

LEMMA ReachedModule ==
    ASSUME NEW r \in Seq(Line)
    PROVE  ReachedAt(r, 0)
<1>1. BlocksAt(r) \subseteq Nat
  BY BlocksAre
<1> QED BY <1>1 DEF ReachedAt

LEMMA ReachedChild ==
    ASSUME NEW r, NEW B, NEW h, Done(r, B, h), NEW j \in 1 .. Len(B), j # 1
    PROVE  \E k \in 1 .. Len(B) :
              /\ ReachedAt(r, h[j]) <=> RefersAt(r, h[k]) /\ ReachedAt(r, h[k])
              /\ r[h[j]].of \in DOMAIN B[k].codes /\ B[k].codes[r[h[j]].of] = j
              /\ h[k] < h[j]
<1>1. PICK k \in 1 .. Len(B) :
              /\ h[k] = OwnerAt(r, h[j]) /\ h[k] < h[j] /\ h[j] \in OwnAt(r, h[k], "code")
              /\ r[h[j]].of \in DOMAIN B[k].codes /\ B[k].codes[r[h[j]].of] = j
  BY ParentIs
<1>2. r \in Seq(Line) /\ h[j] \in KindLines(r, "code")
  BY <1>1, DoneIs DEF OwnAt
<1>3. ReachedAt(r, h[j]) <=> RefersAt(r, OwnerAt(r, h[j])) /\ ReachedAt(r, OwnerAt(r, h[j]))
  BY <1>2, ReachedStep
<1> QED BY <1>1, <1>3

LEMMA BindsAt ==
    ASSUME NEW r, NEW B, NEW h, Done(r, B, h), NEW args, NEW lucky, NEW code,
           \A k \in 1 .. Len(B) : CodeEqn(B, args, lucky, code, k)
    PROVE  code[1].made <=>
             \A k \in 1 .. Len(B) : ReachedAt(r, h[k]) => FineAt(r, B, h, args, lucky, k)
<1> DEFINE m == Len(B)
<1>1. /\ r \in Seq(Line) /\ Homes(r, m, h) /\ m \in Nat \ {0} /\ h[1] = 0
      /\ \A k \in 1 .. m : h[k] \in BlocksAt(r) /\ h[k] \in Nat
  BY DoneIs
<1>2. ASSUME NEW k \in 1 .. m
      PROVE  /\ code[k].made <=> code[k] # NoCode
             /\ code[k].made <=>
                  /\ FineAt(r, B, h, args, lucky, k)
                  /\ RefersAt(r, h[k]) => \A x \in DOMAIN B[k].codes : code[B[k].codes[x]] # NoCode
  BY MadeIs
<1>3. ASSUME code[1].made, NEW k \in 1 .. m, ReachedAt(r, h[k]) PROVE code[k].made
  <2> DEFINE S == {c \in Nat : \E j \in 1 .. m : h[j] = c /\ ReachedAt(r, c) /\ ~ code[j].made}
  <2>1. SUFFICES ASSUME ~ code[k].made PROVE FALSE
    OBVIOUS
  <2>2. S # {} /\ S \in SUBSET Nat
    BY <1>1, <1>3, <2>1
  <2>3. PICK c \in S : \A d \in S : c <= d
    <3> HIDE DEF S
    <3> QED BY <2>2, LeastLine
  <2>4. PICK j \in 1 .. m : h[j] = c /\ ReachedAt(r, c) /\ ~ code[j].made
    BY <2>3
  <2>5. j # 1
    BY <1>3, <2>4
  <2>6. PICK i \in 1 .. m :
              /\ ReachedAt(r, h[j]) <=> RefersAt(r, h[i]) /\ ReachedAt(r, h[i])
              /\ r[h[j]].of \in DOMAIN B[i].codes /\ B[i].codes[r[h[j]].of] = j
              /\ h[i] < h[j]
    BY <2>5, ReachedChild
  <2>7. code[i].made
    <3>1. SUFFICES ASSUME ~ code[i].made PROVE FALSE
      OBVIOUS
    <3>2. h[i] \in S
      BY <1>1, <2>4, <2>6, <3>1
    <3>3. h[j] <= h[i] /\ h[i] \in Nat /\ h[j] \in Nat
      BY <1>1, <2>3, <2>4, <3>2
    <3> QED BY <2>6, <3>3
  <2>8. code[j] # NoCode
    BY <1>2, <2>4, <2>6, <2>7
  <2> QED BY <1>2, <2>4, <2>8
<1>4. ASSUME \A j \in 1 .. m : ReachedAt(r, h[j]) => FineAt(r, B, h, args, lucky, j),
             NEW k \in 1 .. m, ReachedAt(r, h[k])
      PROVE  code[k].made
  <2> DEFINE S == {d \in Nat : \E j \in 1 .. m : d = m - j /\ ReachedAt(r, h[j]) /\ ~ code[j].made}
  <2>1. SUFFICES ASSUME ~ code[k].made PROVE FALSE
    OBVIOUS
  <2>2. S # {} /\ S \in SUBSET Nat
    <3>1. m - k \in Nat
      BY <1>1
    <3>2. m - k \in S
      <4> HIDE DEF m
      <4> QED BY <1>4, <2>1, <3>1
    <3> QED BY <3>2
  <2>3. PICK d \in S : \A e \in S : d <= e
    <3> HIDE DEF S
    <3> QED BY <2>2, LeastLine
  <2>4. PICK j \in 1 .. m : d = m - j /\ ReachedAt(r, h[j]) /\ ~ code[j].made
    BY <2>3
  <2>5. FineAt(r, B, h, args, lucky, j)
    BY <1>4, <2>4
  <2>6. RefersAt(r, h[j]) /\ \E x \in DOMAIN B[j].codes : code[B[j].codes[x]] = NoCode
    BY <1>2, <2>4, <2>5
  <2>7. PICK x \in DOMAIN B[j].codes : code[B[j].codes[x]] = NoCode
    BY <2>6
  <2> DEFINE i == B[j].codes[x]
  <2>8. i \in 1 .. m /\ j < i /\ h[i] \in OwnAt(r, h[j], "code")
    BY ChildIs
  <2> HIDE DEF i
  <2>9. ReachedAt(r, h[i])
    <3>1. h[i] \in KindLines(r, "code") /\ OwnerAt(r, h[i]) = h[j]
      BY <2>8 DEF OwnAt
    <3>2. ReachedAt(r, h[i]) <=> RefersAt(r, OwnerAt(r, h[i])) /\ ReachedAt(r, OwnerAt(r, h[i]))
      BY <1>1, <3>1, ReachedStep
    <3> QED BY <2>4, <2>6, <3>1, <3>2
  <2>10. ~ code[i].made
    BY <1>2, <2>7, <2>8 DEF i
  <2>11. m - i \in S
    <3>1. m - i \in Nat
      BY <1>1, <2>8
    <3> QED BY <2>8, <2>9, <2>10, <3>1
  <2>12. m - j <= m - i
    BY <2>3, <2>4, <2>11
  <2> QED BY <1>1, <2>8, <2>12
<1>5. ReachedAt(r, h[1]) /\ 1 \in 1 .. m
  BY <1>1, ReachedModule
<1>6. ASSUME code[1].made, NEW k \in 1 .. m, ReachedAt(r, h[k])
      PROVE  FineAt(r, B, h, args, lucky, k)
  BY <1>2, <1>3, <1>6
<1>7. (\A k \in 1 .. m : ReachedAt(r, h[k]) => FineAt(r, B, h, args, lucky, k)) => code[1].made
  BY <1>4, <1>5
<1>8. code[1].made => \A k \in 1 .. m : ReachedAt(r, h[k]) => FineAt(r, B, h, args, lucky, k)
  BY <1>6
<1>9. code[1].made <=> code[1] # NoCode
  BY <1>2, <1>5
<1> QED BY <1>7, <1>8, <1>9

LEMMA BindingIs ==
    /\ \A b : Reached(b) <=> ReachedAt(read, b)
    /\ \A b : /\ Named(Instrs(b, "bind")) \subseteq bound.args
              /\ Named(Instrs(b, "code")) \subseteq Named(Own(b, "code"))
              <=> GivenAt(read, b, bound.args)
<1>1. \A b, by : Instrs(b, by) = InstrsBy(read, b, by)
  BY SourceIs DEF InstrsBy
<1>2. \A S : Named(S) = NamesAt(read, S)
  BY DEF Named, NamesAt
<1>3. /\ Blocks = BlocksAt(read) /\ \A i : Depth(i) = DepthAt(read, i)
      /\ \A i : Owner(i) = OwnerAt(read, i)
  BY SourceIs
<1>4. ASSUME NEW b PROVE Reached(b) <=> ReachedAt(read, b)
  BY <1>1, <1>3 DEF Reached, ReachedAt, RefersAt
<1>5. ASSUME NEW b
      PROVE  /\ Named(Instrs(b, "bind")) \subseteq bound.args
             /\ Named(Instrs(b, "code")) \subseteq Named(Own(b, "code"))
             <=> GivenAt(read, b, bound.args)
  <2>1. Own(b, "code") = OwnAt(read, b, "code")
    BY SourceIs
  <2> QED BY <1>1, <1>2, <2>1 DEF GivenAt
<1> QED BY <1>4, <1>5

\* What bind() made is told by the blocks that parse() made of the source.
LEMMA BoundIs ==
    ASSUME ParserInv, outcome = "bound"
    PROVE  \E h, code : /\ Done(read, blocks, h) /\ bound.code = code[1]
                        /\ \A k \in 1 .. Len(blocks) : CodeEqn(blocks, bound.args, bound.lucky, code, k)
<1>1. IsRead /\ CompleteAt(read) /\ bound.code = CompileOf(blocks, bound.args, bound.lucky)
  BY DEF ParserInv
<1>2. PICK h : Done(read, blocks, h)
  BY <1>1, ReadingDone DEF IsRead
<1>3. PICK code : /\ CompileOf(blocks, bound.args, bound.lucky) = code[1]
                  /\ \A k \in 1 .. Len(blocks) : CodeEqn(blocks, bound.args, bound.lucky, code, k)
  BY <1>2, CompileUnfolds
<1> QED BY <1>1, <1>2, <1>3

-----------------------------------------------------------------------------
(***************************************************************************)
(* The Bytecode of one block.                                              *)
(***************************************************************************)
LEMMA MadeSeq ==
    ASSUME NEW n \in Nat, NEW f, f = [k \in 1 .. n |-> f[k]]
    PROVE  Len(f) = n /\ DOMAIN f = 1 .. n
<1> DEFINE S == {f[k] : k \in 1 .. n}
<1>1. f \in [1 .. n -> S]
  OBVIOUS
<1> HIDE DEF S
<1>2. f \in Seq(S)
  BY <1>1
<1>3. DOMAIN f = 1 .. n /\ DOMAIN f = 1 .. Len(f) /\ Len(f) \in Nat
  BY <1>1, <1>2, LenProperties
<1> QED BY <1>3

\* A label is where it was put.
LEMMA PlacesIs ==
    ASSUME NEW b, b.instrs \in Seq(InstrT), NEW codes, NEW id \in LabelIds(b), Position(b, id) \in 0 .. Len(b.instrs)
    PROVE  Places(Materialise(b, codes), id) = {Position(b, id)}
<1> DEFINE m == Materialise(b, codes)
           n == Len(b.instrs)
           p == Position(b, id)
<1>1. n \in Nat /\ DOMAIN b.instrs = 1 .. n
  BY LenProperties
<1>2. /\ m.instrs = [k \in 1 .. n |-> m.instrs[k]]
      /\ \A k \in 1 .. n : m.instrs[k].labels = Attached(b, k - 1)
      /\ m.end_labels = Attached(b, n)
  BY <1>1 DEF Materialise
<1> HIDE DEF m, n
<1>3. Len(m.instrs) = n /\ DOMAIN m.instrs = 1 .. n
  BY <1>1, <1>2, MadeSeq
<1>4. \A i : id \in Attached(b, i) <=> p = i
  BY DEF Attached
<1> HIDE DEF p
<1>5. Places(m, id) = {k - 1 : k \in {j \in 1 .. n : p = j - 1}} \cup {k \in {n} : p = k}
  <2>1. {j \in DOMAIN m.instrs : id \in m.instrs[j].labels} = {j \in 1 .. n : p = j - 1}
    BY <1>2, <1>3, <1>4
  <2>2. {k \in {Len(m.instrs)} : id \in m.end_labels} = {k \in {n} : p = k}
    BY <1>2, <1>3, <1>4
  <2> QED BY <2>1, <2>2, Zenon DEF Places
<1>6. p \in 0 .. n
  BY DEF p, n
<1>7. CASE p = n
  <2>1. {j \in 1 .. n : p = j - 1} = {}
    BY <1>1, <1>7
  <2>2. {k \in {n} : p = k} = {p}
    BY <1>7
  <2>3. {k - 1 : k \in {}} = {}
    OBVIOUS
  <2>4. Places(m, id) = {} \cup {p}
    BY <1>5, <2>1, <2>2, <2>3
  <2> QED BY <2>4 DEF m, p
<1>8. CASE p # n
  <2>1. {j \in 1 .. n : p = j - 1} = {p + 1}
    BY <1>1, <1>6, <1>8
  <2>2. {k \in {n} : p = k} = {}
    BY <1>8
  <2>3. {k - 1 : k \in {p + 1}} = {p}
    BY <1>1, <1>6
  <2>4. Places(m, id) = {p} \cup {}
    BY <1>5, <2>1, <2>2, <2>3
  <2> QED BY <2>4 DEF m, p
<1> QED BY <1>7, <1>8

LineOfAt(r, c, kind, name) == CHOOSE i \in OwnAt(r, c, kind) : r[i].of = name

\* The label of a name, if there is one, is where its line is.
LEMMA LabelAt ==
    ASSUME NEW b \in BlockT, NEW r, NEW n, NEW L, NEW I, LineSet(L, n), LineSet(I, n),
           LabelsMirrored(b.labels, r, L, I), InstrsMirrored(b.instrs, r, I),
           NEW name \in NamesAt(r, L)
    PROVE  /\ LabelOf(b, name) \in LabelIds(b)
           /\ Position(b, LabelOf(b, name)) = Rank(I, CHOOSE i \in L : r[i].of = name)
           /\ Position(b, LabelOf(b, name)) \in 0 .. Len(b.instrs)
<1> DEFINE i == CHOOSE x \in L : r[x].of = name
           q == Rank(L, i) + 1
           W == {k \in 1 .. Len(b.labels) : b.labels[k].ident = name}
<1>1. i \in L /\ r[i].of = name
  BY DEF NamesAt
<1> HIDE DEF i
<1>2. b.labels \in Seq(LabelT) /\ b.instrs \in Seq(InstrT)
  BY DEF BlockT
<1>3. Len(b.labels) = Cardinality(L) /\ Cardinality(L) \in Nat /\ DOMAIN b.labels = 1 .. Cardinality(L)
  BY <1>2, LineSetFinite, LenProperties DEF LabelsMirrored
<1>4. /\ \A x \in L : Rank(L, x) \in 0 .. Cardinality(L) - 1
      /\ \A k \in 0 .. Cardinality(L) - 1 : \E x \in L : Rank(L, x) = k
  BY RankOf
<1>5. q \in 1 .. Cardinality(L)
  BY <1>1, <1>3, <1>4
<1>6. b.labels[q] = [ident |-> name, index |-> Rank(I, i)]
  BY <1>1 DEF LabelsMirrored
<1>7. W = {q}
  <2>1. ASSUME NEW k \in W PROVE k = q
    <3>1. k \in 1 .. Cardinality(L) /\ b.labels[k].ident = name
      BY <1>3
    <3>2. k - 1 \in 0 .. Cardinality(L) - 1 /\ (k - 1) + 1 = k
      BY <1>3, <3>1
    <3>3. PICK x \in L : Rank(L, x) = k - 1
      BY <1>4, <3>2
    <3>4. b.labels[k] = [ident |-> r[x].of, index |-> Rank(I, x)]
      BY <3>2, <3>3 DEF LabelsMirrored
    <3>5. x = i
      BY <1>1, <3>1, <3>4 DEF LabelsMirrored
    <3> QED BY <3>2, <3>3, <3>5
  <2>2. q \in W
    BY <1>3, <1>5, <1>6
  <2> HIDE DEF W, q
  <2> QED BY <2>1, <2>2
<1>8. LabelOf(b, name) = <<"label", q>>
  <2>1. SelectInSeq(b.labels, LAMBDA l : l.ident = name) = IF W # {} THEN Min(W) ELSE 0
    BY DEF SelectInSeq
  <2>2. W \in SUBSET Nat /\ W # {}
    BY <1>3, <1>5, <1>7
  <2>3. Min(W) \in W
    <3> HIDE DEF W
    <3> QED BY <2>2, MinIs
  <2>4. Min(W) = q
    <3> HIDE DEF W, q
    <3> QED BY <1>7, <2>3
  <2> HIDE DEF W, q
  <2> QED BY <2>1, <2>2, <2>4 DEF LabelOf
<1> HIDE DEF q, W
<1>9. LabelOf(b, name) \in LabelIds(b)
  BY <1>3, <1>5, <1>8 DEF LabelIds
<1>10. Position(b, LabelOf(b, name)) = Rank(I, i)
  BY <1>6, <1>8 DEF Position
<1>11. Rank(I, i) \in 0 .. Len(b.instrs)
  BY RankType DEF InstrsMirrored
<1> QED BY <1>9, <1>10, <1>11 DEF i

LEMMA LabelPlaced ==
    ASSUME NEW b \in BlockT, NEW r, NEW n, NEW L, NEW I, LineSet(L, n), LineSet(I, n),
           LabelsMirrored(b.labels, r, L, I), InstrsMirrored(b.instrs, r, I),
           NEW name \in NamesAt(r, L), NEW codes
    PROVE  Places(Materialise(b, codes), LabelOf(b, name)) = {Rank(I, CHOOSE i \in L : r[i].of = name)}
<1>1. /\ LabelOf(b, name) \in LabelIds(b)
      /\ Position(b, LabelOf(b, name)) = Rank(I, CHOOSE i \in L : r[i].of = name)
      /\ Position(b, LabelOf(b, name)) \in 0 .. Len(b.instrs)
  BY LabelAt
<1>2. b.instrs \in Seq(InstrT)
  BY DEF BlockT
<1> QED BY <1>1, <1>2, PlacesIs

FcnOn(f, S) == f = [x \in S |-> f[x]]

\* What _materialise() makes of each instruction and each region.
LEMMA MaterialiseIs ==
    ASSUME NEW b, NEW codes, NEW m, m = Materialise(b, codes)
    PROVE  /\ m.made /\ m.header = b.header
           /\ FcnOn(m.instrs, DOMAIN b.instrs) /\ FcnOn(m.exc_entries, DOMAIN b.exc_entries)
           /\ \A x \in DOMAIN b.instrs :
                 /\ m.instrs[x].by = b.instrs[x].by /\ m.instrs[x].lineno = b.instrs[x].lineno
                 /\ b.instrs[x].by = "label" => m.instrs[x].arg = LabelOf(b, b.instrs[x].of)
                 /\ b.instrs[x].by = "code" => m.instrs[x].arg = codes[b.instrs[x].of]
                 /\ b.instrs[x].by \notin {"label", "code"} => m.instrs[x].arg = b.instrs[x].of
           /\ \A q \in DOMAIN b.exc_entries :
                 m.exc_entries[q] = [start |-> <<"start", q>>, stop |-> <<"stop", q>>,
                                     handler |-> LabelOf(b, b.exc_entries[q].handler),
                                     lasti |-> b.exc_entries[q].lasti]
<1> DEFINE arg(i) == CASE i.by = "label" -> LabelOf(b, i.of)
                       [] i.by = "code" -> codes[i.of]
                       [] OTHER -> i.of
           instr(k) == [by |-> b.instrs[k].by, arg |-> arg(b.instrs[k]),
                        lineno |-> b.instrs[k].lineno, labels |-> Attached(b, k - 1)]
           region(k) == [start |-> <<"start", k>>, stop |-> <<"stop", k>>,
                         handler |-> LabelOf(b, b.exc_entries[k].handler),
                         lasti |-> b.exc_entries[k].lasti]
           whole == [made |-> TRUE,
                     instrs |-> [k \in DOMAIN b.instrs |-> instr(k)],
                     end_labels |-> Attached(b, Len(b.instrs)),
                     exc_entries |-> [k \in DOMAIN b.exc_entries |-> region(k)],
                     header |-> b.header]
<1>1. m = whole
  BY DEF Materialise
<1>2. \A i : /\ i.by = "label" => arg(i) = LabelOf(b, i.of)
             /\ i.by = "code" => arg(i) = codes[i.of]
             /\ i.by \notin {"label", "code"} => arg(i) = i.of
  OBVIOUS
<1> HIDE DEF arg
<1>3. \A k : /\ instr(k).by = b.instrs[k].by /\ instr(k).lineno = b.instrs[k].lineno
             /\ instr(k).arg = arg(b.instrs[k])
  OBVIOUS
<1> HIDE DEF instr, region
<1>4. /\ m.made /\ m.header = b.header
      /\ m.instrs = [k \in DOMAIN b.instrs |-> instr(k)]
      /\ m.exc_entries = [k \in DOMAIN b.exc_entries |-> region(k)]
  BY <1>1
<1> HIDE DEF whole
<1>5. \A x \in DOMAIN b.instrs : m.instrs[x] = instr(x)
  BY <1>4
<1>6. \A q \in DOMAIN b.exc_entries : m.exc_entries[q] = region(q)
  BY <1>4
<1>7. FcnOn(m.instrs, DOMAIN b.instrs)
  BY <1>4 DEF FcnOn
<1>8. FcnOn(m.exc_entries, DOMAIN b.exc_entries)
  BY <1>4 DEF FcnOn
<1>9. ASSUME NEW x \in DOMAIN b.instrs
      PROVE  /\ m.instrs[x].by = b.instrs[x].by /\ m.instrs[x].lineno = b.instrs[x].lineno
             /\ b.instrs[x].by = "label" => m.instrs[x].arg = LabelOf(b, b.instrs[x].of)
             /\ b.instrs[x].by = "code" => m.instrs[x].arg = codes[b.instrs[x].of]
             /\ b.instrs[x].by \notin {"label", "code"} => m.instrs[x].arg = b.instrs[x].of
  <2>1. m.instrs[x].by = b.instrs[x].by /\ m.instrs[x].lineno = b.instrs[x].lineno
    BY <1>3, <1>5
  <2>2. m.instrs[x].arg = arg(b.instrs[x])
    BY <1>3, <1>5
  <2> QED BY <1>2, <2>1, <2>2
<1>10. ASSUME NEW q \in DOMAIN b.exc_entries
       PROVE  m.exc_entries[q] = [start |-> <<"start", q>>, stop |-> <<"stop", q>>,
                                  handler |-> LabelOf(b, b.exc_entries[q].handler),
                                  lasti |-> b.exc_entries[q].lasti]
  BY <1>6 DEF region
<1> QED BY <1>4, <1>7, <1>8, <1>9, <1>10

-----------------------------------------------------------------------------
(***************************************************************************)
(* The code objects that are found in one another.                         *)
(***************************************************************************)
Within(outer, r, b) ==
    LET at == {k \in DOMAIN outer.instrs :
                  outer.instrs[k].by = "code" /\ r[outer.instrs[k].lineno].of = r[b].of}
    IN  IF ~ outer.made \/ at = {} THEN NoCode ELSE outer.instrs[Min(at)].arg

OuterEqn(r, top, f, b) == f[b] = IF b = 0 THEN top ELSE Within(f[OwnerAt(r, b)], r, b)
FoundFrom(r, top, f) == \A b \in BlocksAt(r) : OuterEqn(r, top, f, b)
Codes(B, args, lucky, code) == \A k \in 1 .. Len(B) : CodeEqn(B, args, lucky, code, k)

LEMMA OuterExists ==
    ASSUME NEW r \in Seq(Line), NEW top
    PROVE  \E f : f = [b \in BlocksAt(r) |-> f[b]] /\ \A b \in BlocksAt(r) : OuterEqn(r, top, f, b)
<1> DEFINE n == Len(r)
           K == BlocksAt(r)
           P(d) == \E f : f = [b \in K |-> f[b]] /\ \A b \in K : b < d => OuterEqn(r, top, f, b)
           S == {d \in 0 .. n + 1 : ~ P(d)}
<1>1. n \in Nat /\ K \subseteq 0 .. n
  BY BlocksAre
<1>2. P(0)
  <2> DEFINE f == [b \in K |-> 0]
  <2>1. f = [b \in K |-> f[b]]
    OBVIOUS
  <2>2. \A b \in K : ~ (b < 0)
    BY <1>1
  <2> HIDE DEF f, K
  <2> QED BY <2>1, <2>2
<1>3. ASSUME NEW d \in 0 .. n + 1, d # 0, P(d - 1) PROVE P(d)
  <2> DEFINE q == d - 1
  <2>1. PICK f : f = [b \in K |-> f[b]] /\ \A b \in K : b < d - 1 => OuterEqn(r, top, f, b)
    BY <1>3
  <2> DEFINE new == IF q = 0 THEN top ELSE Within(f[OwnerAt(r, q)], r, q)
             g == [b \in K |-> IF b = q THEN new ELSE f[b]]
  <2>2. \A b \in K : b < d => b = q \/ b < d - 1
    BY <1>1
  <2>3. \A b \in K : b # 0 /\ b < d => OwnerAt(r, b) \in K /\ OwnerAt(r, b) # q
    <3> TAKE b \in K
    <3> HAVE b # 0 /\ b < d
    <3>1. b \in 1 .. Len(r) + 1
      BY <1>1
    <3>2. OwnerAt(r, b) \in BlocksAt(r) /\ OwnerAt(r, b) \in 0 .. b - 1
      BY <3>1, OwnerIs
    <3> QED BY <1>1, <3>2
  <2> HIDE DEF new, q, K
  <2>4. g = [b \in K |-> g[b]] /\ (q \in K => g[q] = new) /\ \A b \in K : b # q => g[b] = f[b]
    OBVIOUS
  <2> HIDE DEF g
  <2>5. ASSUME NEW b \in K, b < d PROVE OuterEqn(r, top, g, b)
    <3>1. CASE b = q
      <4>1. b # 0 => g[OwnerAt(r, b)] = f[OwnerAt(r, b)]
        BY <2>3, <2>4, <2>5
      <4>2. g[b] = new
        BY <2>4, <3>1
      <4>3. new = IF b = 0 THEN top ELSE Within(f[OwnerAt(r, b)], r, b)
        BY <3>1, Zenon DEF new
      <4> QED BY <4>1, <4>2, <4>3 DEF OuterEqn
    <3>2. CASE b # q
      <4>1. OuterEqn(r, top, f, b)
        BY <2>1, <2>2, <2>5, <3>2
      <4>2. g[b] = f[b] /\ (b # 0 => g[OwnerAt(r, b)] = f[OwnerAt(r, b)])
        BY <2>3, <2>4, <2>5, <3>2
      <4> QED BY <4>1, <4>2 DEF OuterEqn
    <3> QED BY <3>1, <3>2
  <2> QED BY <2>4, <2>5
<1>4. S = {}
  <2>1. SUFFICES ASSUME S # {} PROVE FALSE
    OBVIOUS
  <2>2. S \in SUBSET Nat
    BY <1>1
  <2> HIDE DEF P
  <2>3. PICK d \in S : \A e \in S : d <= e
    <3> HIDE DEF S
    <3> QED BY <2>1, <2>2, LeastLine
  <2>4. d \in 0 .. n + 1 /\ d # 0 /\ ~ P(d)
    BY <1>2, <2>3
  <2>5. d - 1 \in 0 .. n + 1 /\ ~ (d <= d - 1)
    BY <1>1, <2>4
  <2>6. P(d - 1)
    BY <2>3, <2>5
  <2> QED BY <1>3, <2>4, <2>6
<1>5. P(n + 1)
  <2>1. n + 1 \in 0 .. n + 1
    BY <1>1
  <2> HIDE DEF P, n
  <2> QED BY <1>4, <2>1
<1>6. \A b \in K : b < n + 1
  BY <1>1
<1> HIDE DEF K, n
<1> QED BY <1>5, <1>6 DEF K

LEMMA CodeOfUnfolds ==
    ASSUME read \in Seq(Line)
    PROVE  FoundFrom(read, bound.code, CodeOf)
<1> DEFINE Q(f) == f = [b \in Blocks |->
                          IF b = 0 THEN bound.code
                          ELSE LET outer == f[Owner(b)]
                                   at == {k \in DOMAIN outer.instrs :
                                              outer.instrs[k].by = "code"
                                                /\ read[outer.instrs[k].lineno].of = read[b].of}
                               IN  IF ~ outer.made \/ at = {} THEN NoCode ELSE outer.instrs[Min(at)].arg]
<1>1. Blocks = BlocksAt(read) /\ \A b : Owner(b) = OwnerAt(read, b)
  BY SourceIs
<1>2. ASSUME NEW f
      PROVE  Q(f) <=> f = [b \in BlocksAt(read) |->
                             IF b = 0 THEN bound.code ELSE Within(f[OwnerAt(read, b)], read, b)]
  <2>1. ASSUME NEW b
        PROVE  (LET outer == f[Owner(b)]
                    at == {k \in DOMAIN outer.instrs :
                               outer.instrs[k].by = "code"
                                 /\ read[outer.instrs[k].lineno].of = read[b].of}
                IN  IF ~ outer.made \/ at = {} THEN NoCode ELSE outer.instrs[Min(at)].arg)
               = Within(f[OwnerAt(read, b)], read, b)
    <3>1. Owner(b) = OwnerAt(read, b)
      BY <1>1
    <3> QED BY <3>1, Zenon DEF Within
  <2> QED BY <1>1, <2>1, Zenon
<1>3. \E f : Q(f)
  <2>1. PICK f : f = [b \in BlocksAt(read) |-> f[b]]
                 /\ \A b \in BlocksAt(read) : OuterEqn(read, bound.code, f, b)
    BY OuterExists
  <2>2. f = [b \in BlocksAt(read) |->
                IF b = 0 THEN bound.code ELSE Within(f[OwnerAt(read, b)], read, b)]
    BY <2>1 DEF OuterEqn
  <2> HIDE DEF Q
  <2>3. Q(f)
    BY <1>2, <2>2, Zenon
  <2> QED BY <2>3
<1>4. CodeOf = CHOOSE f : Q(f)
  BY DEF CodeOf
<1> HIDE DEF Q
<1>5. Q(CodeOf)
  BY <1>3, <1>4, Zenon
<1>6. CodeOf = [b \in BlocksAt(read) |->
                  IF b = 0 THEN bound.code ELSE Within(CodeOf[OwnerAt(read, b)], read, b)]
  BY <1>2, <1>5, Zenon
<1> DEFINE F == CodeOf
<1> HIDE DEF F
<1>7. F = [b \in BlocksAt(read) |->
              IF b = 0 THEN bound.code ELSE Within(F[OwnerAt(read, b)], read, b)]
  BY <1>6 DEF F
<1>8. \A b \in BlocksAt(read) : OuterEqn(read, bound.code, F, b)
  BY <1>7 DEF OuterEqn
<1> QED BY <1>8 DEF F, FoundFrom

\* A block of a block is found by the first instruction that names it.
LEMMA ChildCode ==
    ASSUME NEW r, NEW B, NEW h, Done(r, B, h), NEW code, NEW k \in 1 .. Len(B), NEW j \in 1 .. Len(B),
           code[k] = Materialise(B[k], CodesOf(B[k], code)),
           h[j] \in OwnAt(r, h[k], "code")
    PROVE  Within(code[k], r, h[j]) =
             IF \E i \in OwnAt(r, h[k], "instr") : r[i].by = "code" /\ r[i].of = r[h[j]].of
             THEN code[j] ELSE NoCode
<1> DEFINE b == B[k]
           m == code[k]
           I == OwnAt(r, h[k], "instr")
           name == r[h[j]].of
           at == {x \in DOMAIN m.instrs : m.instrs[x].by = "code" /\ r[m.instrs[x].lineno].of = name}
<1>1. /\ r \in Seq(Line) /\ b \in BlockT /\ BlockIs(b, r, h[k], h) /\ Homes(r, Len(B), h)
      /\ DOMAIN h = 1 .. Len(B)
  BY DoneIs DEF Done
<1>2. b.instrs \in Seq(InstrT) /\ LineSet(I, Len(r)) /\ InstrsMirrored(b.instrs, r, I)
  BY <1>1, OwnIs DEF BlockT, BlockIs, Mirrored
<1>3. /\ DOMAIN b.instrs = 1 .. Cardinality(I)
      /\ \A i \in I : /\ Rank(I, i) + 1 \in DOMAIN b.instrs
                      /\ b.instrs[Rank(I, i) + 1] = [by |-> r[i].by, of |-> r[i].of, ends |-> r[i].ends, lineno |-> i]
      /\ \A x \in DOMAIN b.instrs : \E i \in I : Rank(I, i) + 1 = x
  BY <1>2, InstrAt
<1>4. name \in DOMAIN b.codes /\ b.codes[name] = j
  <2>1. CodesMirrored(b.codes, r, OwnAt(r, h[k], "code"), h)
    BY <1>1 DEF BlockIs
  <2>2. name \in DOMAIN b.codes /\ b.codes[name] \in 1 .. Len(B) /\ h[b.codes[name]] = h[j]
    BY <1>1, <2>1 DEF CodesMirrored, NamesAt
  <2> QED BY <1>1, <2>2, HomesDiffer
<1>5. /\ m.made
      /\ DOMAIN m.instrs = DOMAIN b.instrs
      /\ \A x \in DOMAIN b.instrs :
            /\ m.instrs[x].by = b.instrs[x].by /\ m.instrs[x].lineno = b.instrs[x].lineno
            /\ b.instrs[x].by = "code" => m.instrs[x].arg = CodesOf(b, code)[b.instrs[x].of]
  <2> HIDE DEF b, m
  <2>1. m = Materialise(b, CodesOf(b, code))
    BY DEF b, m
  <2>2. m.made /\ FcnOn(m.instrs, DOMAIN b.instrs)
    BY <2>1, MaterialiseIs
  <2>3. DOMAIN m.instrs = DOMAIN b.instrs
    BY <2>2 DEF FcnOn
  <2> QED BY <2>1, <2>2, <2>3, MaterialiseIs
<1> HIDE DEF b, m, I, name
<1>6. ASSUME NEW x \in at
      PROVE  m.instrs[x].arg = code[j] /\ \E i \in I : r[i].by = "code" /\ r[i].of = name
  <2>1. x \in DOMAIN b.instrs /\ b.instrs[x].by = "code" /\ r[b.instrs[x].lineno].of = name
    BY <1>5
  <2>2. PICK i \in I : Rank(I, i) + 1 = x
    BY <1>3, <2>1
  <2>3. b.instrs[x] = [by |-> r[i].by, of |-> r[i].of, ends |-> r[i].ends, lineno |-> i]
    BY <1>3, <2>2
  <2>4. r[i].by = "code" /\ r[i].of = name /\ b.instrs[x].of = name
    BY <2>1, <2>3
  <2>5. Names(b, "code") # {}
    BY <2>1 DEF Names
  <2>6. CodesOf(b, code)[name] = code[b.codes[name]]
    BY <1>4, <2>5 DEF CodesOf
  <2> QED BY <1>4, <1>5, <2>1, <2>4, <2>6
<1>7. ASSUME NEW i \in I, r[i].by = "code", r[i].of = name PROVE at # {}
  <2>1. /\ Rank(I, i) + 1 \in DOMAIN b.instrs
        /\ b.instrs[Rank(I, i) + 1] = [by |-> r[i].by, of |-> r[i].of, ends |-> r[i].ends, lineno |-> i]
    BY <1>3
  <2>2. Rank(I, i) + 1 \in at
    BY <1>5, <1>7, <2>1
  <2> QED BY <2>2
<1>8. Within(m, r, h[j]) = IF ~ m.made \/ at = {} THEN NoCode ELSE m.instrs[Min(at)].arg
  BY DEF Within, name
<1>9. at \in SUBSET Nat
  BY <1>3, <1>5
<1>10. at # {} => Min(at) \in at
  <2> HIDE DEF at
  <2> QED BY <1>9, MinIs
<1>11. Within(m, r, h[j]) =
         IF \E i \in I : r[i].by = "code" /\ r[i].of = name THEN code[j] ELSE NoCode
  <2> HIDE DEF at
  <2> QED BY <1>5, <1>6, <1>7, <1>8, <1>10
<1> QED BY <1>11 DEF m, I, name

LEMMA FoundIs ==
    ASSUME NEW r, NEW B, NEW h, Done(r, B, h), NEW args, NEW lucky, NEW code,
           Codes(B, args, lucky, code), NEW f, FoundFrom(r, code[1], f)
    PROVE  \A k \in 1 .. Len(B) : f[h[k]].made => f[h[k]] = code[k]
<1> DEFINE m == Len(B)
           S == {c \in Nat : \E j \in 1 .. m : h[j] = c /\ f[h[j]].made /\ f[h[j]] # code[j]}
<1>1. /\ r \in Seq(Line) /\ Homes(r, m, h) /\ h[1] = 0
      /\ \A k \in 1 .. m : h[k] \in BlocksAt(r) /\ h[k] \in Nat
  BY DoneIs
<1>2. SUFFICES ASSUME S # {} PROVE FALSE
  BY <1>1
<1>3. PICK c \in S : \A d \in S : c <= d
  <2>1. S \in SUBSET Nat
    OBVIOUS
  <2> HIDE DEF S
  <2> QED BY <1>2, <2>1, LeastLine
<1>4. PICK j \in 1 .. m : h[j] = c /\ f[h[j]].made /\ f[h[j]] # code[j]
  BY <1>3
<1>5. j # 1
  <2>1. OuterEqn(r, code[1], f, h[j])
    BY <1>1 DEF FoundFrom
  <2>2. h[j] = 0 => f[h[j]] = code[1]
    BY <2>1 DEF OuterEqn
  <2> QED BY <1>1, <1>4, <2>2
<1>6. PICK k \in 1 .. m :
          /\ h[k] = OwnerAt(r, h[j]) /\ h[k] < h[j] /\ h[j] \in OwnAt(r, h[k], "code")
          /\ r[h[j]].of \in DOMAIN B[k].codes /\ B[k].codes[r[h[j]].of] = j
  BY <1>5, ParentIs
<1>7. f[h[j]] = Within(f[h[k]], r, h[j])
  <2>1. OuterEqn(r, code[1], f, h[j]) /\ h[j] # 0
    BY <1>1, <1>6 DEF FoundFrom
  <2> QED BY <1>6, <2>1 DEF OuterEqn
<1>8. ~ NoCode.made
  BY DEF NoCode
<1>9. f[h[k]].made
  <2>1. ~ f[h[k]].made => Within(f[h[k]], r, h[j]) = NoCode
    BY Zenon DEF Within
  <2> QED BY <1>4, <1>7, <1>8, <2>1
<1>10. f[h[k]] = code[k]
  <2>1. SUFFICES ASSUME f[h[k]] # code[k] PROVE FALSE
    OBVIOUS
  <2>2. h[k] \in S
    BY <1>1, <1>9, <2>1
  <2>3. h[j] <= h[k] /\ h[k] \in Nat /\ h[j] \in Nat
    BY <1>1, <1>3, <1>4, <2>2
  <2> QED BY <1>6, <2>3
<1>11. code[k] = Materialise(B[k], CodesOf(B[k], code))
  <2>1. CodeEqn(B, args, lucky, code, k)
    BY DEF Codes
  <2>2. /\ code[k] # NoCode => code[k] = Materialise(B[k], CodesOf(B[k], code))
        /\ code[k].made <=> code[k] # NoCode
    BY <2>1, MadeIs
  <2> QED BY <1>9, <1>10, <2>2
<1>12. Within(code[k], r, h[j]) =
         IF \E i \in OwnAt(r, h[k], "instr") : r[i].by = "code" /\ r[i].of = r[h[j]].of
         THEN code[j] ELSE NoCode
  BY <1>6, <1>11, ChildCode
<1> QED BY <1>4, <1>7, <1>8, <1>10, <1>12

-----------------------------------------------------------------------------
(***************************************************************************)
(* What a Bytecode has is what the lines of its block say.                 *)
(***************************************************************************)
InstrAs(m, x, r, c, f, i) ==
    /\ x.lineno = i /\ x.by = r[i].by
    /\ r[i].by = "label" =>
         Places(m, x.arg) = {Rank(OwnAt(r, c, "instr"), LineOfAt(r, c, "label", r[i].of))}
    /\ r[i].by = "code" => x.arg = f[LineOfAt(r, c, "code", r[i].of)]
    /\ r[i].by \notin {"label", "code"} => x.arg = r[i].of

InstrsAt(m, r, c, f) ==
    /\ Len(m.instrs) = Cardinality(OwnAt(r, c, "instr"))
    /\ \A i \in OwnAt(r, c, "instr") :
          InstrAs(m, m.instrs[Rank(OwnAt(r, c, "instr"), i) + 1], r, c, f, i)

RegionsAt(m, r, c) ==
    LET I == OwnAt(r, c, "instr")
        T == OwnAt(r, c, "try")
        D == OwnAt(r, c, "tried")
    IN  /\ Len(m.exc_entries) = Cardinality(T) /\ Len(m.exc_entries) = Cardinality(D)
        /\ \A i \in T, j \in D :
              Rank(T, i) = Rank(D, j) =>
                  LET e == m.exc_entries[Rank(T, i) + 1]
                  IN  /\ Places(m, e.start) = {Rank(I, i)}
                      /\ Places(m, e.stop) = {Rank(I, j)}
                      /\ Places(m, e.handler) = {Rank(I, LineOfAt(r, c, "label", r[i].of))}
                      /\ e.lasti = r[i].lasti

\* A label that a block has a jump or a try to is one of its own.
LEMMA LabelIsOwn ==
    ASSUME NEW r \in Seq(Line), NEW c, NEW b, NEW h, BlockIs(b, r, c, h), Valid(b), NEW codes,
           NEW name \in NamesAt(r, Jumps(r, OwnAt(r, c, "instr")) \cup OwnAt(r, c, "try"))
    PROVE  /\ Places(Materialise(b, codes), LabelOf(b, name)) =
                {Rank(OwnAt(r, c, "instr"), LineOfAt(r, c, "label", name))}
           /\ Position(b, LabelOf(b, name)) =
                Rank(OwnAt(r, c, "instr"), LineOfAt(r, c, "label", name))
<1> DEFINE L == OwnAt(r, c, "label")
           I == OwnAt(r, c, "instr")
           T == OwnAt(r, c, "try")
           D == OwnAt(r, c, "tried")
<1>1. b \in BlockT /\ LineSets(Len(r), L, I, T, D) /\ Mirrored(b, r, L, I, T, D)
  BY OwnSets DEF BlockIs
<1>2. name \in NamesAt(r, Jumps(r, I) \cup T)
  OBVIOUS
<1>3. \A x : LineOfAt(r, c, "label", x) = CHOOSE i \in L : r[i].of = x
  BY DEF LineOfAt
<1> HIDE DEF L, I, T, D
<1>4. /\ LineSet(L, Len(r)) /\ LineSet(I, Len(r))
      /\ LabelsMirrored(b.labels, r, L, I) /\ InstrsMirrored(b.instrs, r, I)
      /\ RefsMirrored(b.ref_labels, r, L, I, T)
  BY <1>1 DEF LineSets, Mirrored
<1>5. name \in NamesAt(r, L)
  BY <1>2, <1>4 DEF RefsMirrored, Valid
<1>6. Places(Materialise(b, codes), LabelOf(b, name)) = {Rank(I, CHOOSE i \in L : r[i].of = name)}
  BY <1>1, <1>4, <1>5, LabelPlaced
<1>7. Position(b, LabelOf(b, name)) = Rank(I, CHOOSE i \in L : r[i].of = name)
  BY <1>1, <1>4, <1>5, LabelAt
<1> QED BY <1>3, <1>6, <1>7 DEF I

\* The Bytecode of the k-th block of a source that was bound.
MadeOf(r, B, h, args, code, f, k) ==
    /\ Done(r, B, h) /\ k \in 1 .. Len(B) /\ GivenAt(r, h[k], args)
    /\ code[k] = Materialise(B[k], CodesOf(B[k], code))
    /\ FoundFrom(r, code[1], f) /\ f[h[k]] = code[k]

LEMMA CodeIsOwn ==
    ASSUME NEW r, NEW B, NEW h, NEW args, NEW code, NEW f, NEW k, MadeOf(r, B, h, args, code, f, k)
    PROVE  \A i \in OwnAt(r, h[k], "instr") :
               r[i].by = "code" => CodesOf(B[k], code)[r[i].of] = f[LineOfAt(r, h[k], "code", r[i].of)]
<1> SUFFICES ASSUME NEW i \in OwnAt(r, h[k], "instr"), r[i].by = "code"
             PROVE  CodesOf(B[k], code)[r[i].of] = f[LineOfAt(r, h[k], "code", r[i].of)]
  OBVIOUS
<1> DEFINE name == r[i].of
           C == OwnAt(r, h[k], "code")
           x == LineOfAt(r, h[k], "code", name)
           j == B[k].codes[name]
<1>0. /\ Done(r, B, h) /\ k \in 1 .. Len(B) /\ GivenAt(r, h[k], args)
      /\ code[k] = Materialise(B[k], CodesOf(B[k], code))
      /\ FoundFrom(r, code[1], f) /\ f[h[k]] = code[k]
  BY DEF MadeOf
<1>1. /\ r \in Seq(Line) /\ Homes(r, Len(B), h) /\ DOMAIN h = 1 .. Len(B)
      /\ B[k] \in BlockT /\ BlockIs(B[k], r, h[k], h)
  BY <1>0, DoneIs DEF Done
<1>2. i \in InstrsBy(r, h[k], "code")
  BY DEF InstrsBy
<1>3. name \in NamesAt(r, InstrsBy(r, h[k], "code")) /\ name \in NamesAt(r, C)
  BY <1>0, <1>2 DEF GivenAt, NamesAt
<1>4. x \in C /\ r[x].of = name
  BY <1>3 DEF NamesAt, LineOfAt
<1>5. CodesMirrored(B[k].codes, r, C, h)
  BY <1>1 DEF BlockIs
<1> HIDE DEF x, C
<1>6. name \in DOMAIN B[k].codes /\ j \in 1 .. Len(B) /\ h[j] = x
  BY <1>1, <1>3, <1>4, <1>5 DEF CodesMirrored
<1>7. Names(B[k], "code") # {}
  <2>1. Names(B[k], "code") = NamesAt(r, InstrsBy(r, h[k], "code"))
    BY <1>1, NamesOf
  <2> QED BY <1>3, <2>1
<1>8. CodesOf(B[k], code)[name] = code[j]
  BY <1>6, <1>7 DEF CodesOf
<1>9. h[j] \in BlocksAt(r) /\ h[j] # 0 /\ OwnerAt(r, h[j]) = h[k] /\ h[j] \in OwnAt(r, h[k], "code")
  <2>1. x \in KindLines(r, "code") /\ OwnerAt(r, x) = h[k]
    BY <1>4 DEF C, OwnAt
  <2>2. x \in 1 .. Len(r)
    BY <1>1, <2>1, LenProperties DEF KindLines
  <2>3. x \in BlocksAt(r)
    BY <2>1 DEF BlocksAt
  <2> QED BY <1>4, <1>6, <2>1, <2>2, <2>3 DEF C
<1>10. f[h[j]] = Within(f[h[k]], r, h[j])
  <2>1. OuterEqn(r, code[1], f, h[j])
    BY <1>0, <1>9 DEF FoundFrom
  <2> QED BY <1>9, <2>1 DEF OuterEqn
<1> HIDE DEF j
<1>11. Within(code[k], r, h[j]) =
         IF \E y \in OwnAt(r, h[k], "instr") : r[y].by = "code" /\ r[y].of = r[h[j]].of
         THEN code[j] ELSE NoCode
  BY <1>0, <1>6, <1>9, ChildCode
<1>12. f[x] = code[j]
  BY <1>0, <1>4, <1>6, <1>10, <1>11
<1> QED BY <1>8, <1>12 DEF x

LEMMA InstrsMade ==
    ASSUME NEW r, NEW B, NEW h, NEW args, NEW code, NEW f, NEW k, MadeOf(r, B, h, args, code, f, k)
    PROVE  InstrsAt(code[k], r, h[k], f)
<1>0. \A i \in OwnAt(r, h[k], "instr") :
          r[i].by = "code" => CodesOf(B[k], code)[r[i].of] = f[LineOfAt(r, h[k], "code", r[i].of)]
  BY CodeIsOwn
<1> DEFINE b == B[k]
           m == code[k]
           c == h[k]
           I == OwnAt(r, c, "instr")
           cs == CodesOf(b, code)
<1>1. r \in Seq(Line) /\ b \in BlockT /\ BlockIs(b, r, c, h) /\ Valid(b)
  BY DoneIs DEF Done, MadeOf
<1>2. b.instrs \in Seq(InstrT) /\ LineSet(I, Len(r)) /\ InstrsMirrored(b.instrs, r, I)
  BY <1>1, OwnIs DEF BlockT, BlockIs, Mirrored
<1>3. m = Materialise(b, cs)
  BY DEF MadeOf
<1>4. \A i \in I : r[i].by = "code" => cs[r[i].of] = f[LineOfAt(r, c, "code", r[i].of)]
  BY <1>0
<1>5. ASSUME NEW i \in I, r[i].by = "label"
      PROVE  Places(m, LabelOf(b, r[i].of)) = {Rank(I, LineOfAt(r, c, "label", r[i].of))}
  <2>1. r[i].of \in NamesAt(r, Jumps(r, OwnAt(r, c, "instr")) \cup OwnAt(r, c, "try"))
    BY <1>5 DEF NamesAt, Jumps
  <2> HIDE DEF b, m, c, cs
  <2> QED BY <1>1, <1>3, <2>1, LabelIsOwn
<1> HIDE DEF b, m, c, cs
<1>6. /\ DOMAIN b.instrs = 1 .. Cardinality(I) /\ Cardinality(I) \in Nat
      /\ \A i \in I : /\ Rank(I, i) + 1 \in DOMAIN b.instrs
                      /\ b.instrs[Rank(I, i) + 1] = [by |-> r[i].by, of |-> r[i].of, ends |-> r[i].ends, lineno |-> i]
  <2> HIDE DEF I
  <2> QED BY <1>2, InstrAt
<1>7. Len(m.instrs) = Cardinality(I)
  <2>1. FcnOn(m.instrs, DOMAIN b.instrs)
    BY <1>3, MaterialiseIs
  <2> DEFINE s == m.instrs
             n == Cardinality(I)
  <2>2. n \in Nat /\ s = [x \in 1 .. n |-> s[x]]
    BY <1>6, <2>1 DEF FcnOn
  <2> HIDE DEF s, n
  <2>3. Len(s) = n
    BY <2>2, MadeSeq
  <2> QED BY <2>3 DEF s, n
<1>8. ASSUME NEW i \in I
      PROVE  InstrAs(m, m.instrs[Rank(I, i) + 1], r, c, f, i)
  <2> DEFINE x == Rank(I, i) + 1
  <2>1. x \in DOMAIN b.instrs /\ b.instrs[x] = [by |-> r[i].by, of |-> r[i].of, ends |-> r[i].ends, lineno |-> i]
    BY <1>6
  <2> HIDE DEF x
  <2>2. b.instrs[x].by = r[i].by /\ b.instrs[x].of = r[i].of /\ b.instrs[x].lineno = i
    BY <2>1
  <2>3. /\ m.instrs[x].by = b.instrs[x].by /\ m.instrs[x].lineno = b.instrs[x].lineno
        /\ b.instrs[x].by = "label" => m.instrs[x].arg = LabelOf(b, b.instrs[x].of)
        /\ b.instrs[x].by = "code" => m.instrs[x].arg = cs[b.instrs[x].of]
        /\ b.instrs[x].by \notin {"label", "code"} => m.instrs[x].arg = b.instrs[x].of
    BY <1>3, <2>1, MaterialiseIs
  <2> QED BY <1>4, <1>5, <2>2, <2>3 DEF InstrAs, x
<1> QED BY <1>7, <1>8 DEF InstrsAt, m, c

LEMMA RegionsMade ==
    ASSUME NEW r \in Seq(Line), NEW c, NEW b, NEW h, BlockIs(b, r, c, h), Valid(b), NEW codes
    PROVE  RegionsAt(Materialise(b, codes), r, c)
<1> DEFINE m == Materialise(b, codes)
           L == OwnAt(r, c, "label")
           I == OwnAt(r, c, "instr")
           T == OwnAt(r, c, "try")
           D == OwnAt(r, c, "tried")
           n == Cardinality(D)
<1>1. b \in BlockT /\ LineSets(Len(r), L, I, T, D) /\ Mirrored(b, r, L, I, T, D)
  BY OwnSets DEF BlockIs
<1>2. /\ LineSet(I, Len(r)) /\ LineSet(T, Len(r)) /\ LineSet(D, Len(r))
      /\ b.exc_entries \in Seq(RegionT) /\ b.instrs \in Seq(InstrT)
      /\ InstrsMirrored(b.instrs, r, I) /\ RegionsMirrored(b.exc_entries, b.tb, r, I, T, D)
  BY <1>1 DEF LineSets, Mirrored, BlockT
<1>3. b.tb = <<>>
  BY DEF Valid
<1>4. \A i \in T : Places(m, LabelOf(b, r[i].of)) = {Rank(I, LineOfAt(r, c, "label", r[i].of))}
  <2> TAKE i \in T
  <2>1. r[i].of \in NamesAt(r, Jumps(r, OwnAt(r, c, "instr")) \cup OwnAt(r, c, "try"))
    BY DEF NamesAt
  <2> QED BY <2>1, LabelIsOwn
<1>5. m = Materialise(b, codes)
  OBVIOUS
<1> HIDE DEF m, L, I, T, D
<1>6. n \in Nat /\ Cardinality(T) = n /\ DOMAIN b.exc_entries = 1 .. n
  BY <1>2, <1>3, LineSetFinite, LenProperties DEF RegionsMirrored
<1>7. Len(m.exc_entries) = n
  <2>1. FcnOn(m.exc_entries, DOMAIN b.exc_entries)
    BY <1>5, MaterialiseIs
  <2> DEFINE s == m.exc_entries
  <2> HIDE DEF n
  <2>2. n \in Nat /\ s = [x \in 1 .. n |-> s[x]]
    BY <1>6, <2>1 DEF FcnOn
  <2> HIDE DEF s
  <2>3. Len(s) = n
    BY <2>2, MadeSeq
  <2> QED BY <2>3 DEF s
<1>8. ASSUME NEW i \in T, NEW j \in D, Rank(T, i) = Rank(D, j)
      PROVE  /\ Places(m, m.exc_entries[Rank(T, i) + 1].start) = {Rank(I, i)}
             /\ Places(m, m.exc_entries[Rank(T, i) + 1].stop) = {Rank(I, j)}
             /\ Places(m, m.exc_entries[Rank(T, i) + 1].handler) =
                  {Rank(I, LineOfAt(r, c, "label", r[i].of))}
             /\ m.exc_entries[Rank(T, i) + 1].lasti = r[i].lasti
  <2> DEFINE q == Rank(T, i) + 1
  <2>1. Rank(T, i) \in 0 .. n - 1
    <3>1. Rank(T, i) \in 0 .. Cardinality(T) - 1
      BY <1>2, RankOf
    <3> QED BY <1>6, <3>1
  <2>2. q \in DOMAIN b.exc_entries /\ Rank(T, i) < n
    BY <1>6, <2>1
  <2>3. /\ b.exc_entries[q].start = Rank(I, i) /\ b.exc_entries[q].handler = r[i].of
        /\ b.exc_entries[q].stop = Rank(I, j) /\ b.exc_entries[q].lasti = r[i].lasti
    BY <1>2, <1>8, <2>2 DEF RegionsMirrored
  <2> HIDE DEF q, n
  <2>4. m.exc_entries[q] = [start |-> <<"start", q>>, stop |-> <<"stop", q>>,
                            handler |-> LabelOf(b, b.exc_entries[q].handler),
                            lasti |-> b.exc_entries[q].lasti]
    BY <1>5, <2>2, MaterialiseIs
  <2>5. <<"start", q>> \in LabelIds(b) /\ <<"stop", q>> \in LabelIds(b)
    BY <2>2 DEF LabelIds
  <2>6. Position(b, <<"start", q>>) = Rank(I, i) /\ Position(b, <<"stop", q>>) = Rank(I, j)
    BY <2>3 DEF Position
  <2>7. Rank(I, i) \in 0 .. Len(b.instrs) /\ Rank(I, j) \in 0 .. Len(b.instrs)
    <3>1. \A x : Rank(I, x) \in 0 .. Cardinality(I)
      BY <1>2, RankType
    <3> QED BY <1>2, <3>1 DEF InstrsMirrored
  <2>8. Places(m, <<"start", q>>) = {Rank(I, i)}
    <3>1. Position(b, <<"start", q>>) \in 0 .. Len(b.instrs)
      BY <2>6, <2>7
    <3> QED BY <1>2, <1>5, <2>5, <2>6, <3>1, PlacesIs
  <2>9. Places(m, <<"stop", q>>) = {Rank(I, j)}
    <3>1. Position(b, <<"stop", q>>) \in 0 .. Len(b.instrs)
      BY <2>6, <2>7
    <3> QED BY <1>2, <1>5, <2>5, <2>6, <3>1, PlacesIs
  <2>10. Places(m, LabelOf(b, b.exc_entries[q].handler)) = {Rank(I, LineOfAt(r, c, "label", r[i].of))}
    BY <1>4, <2>3
  <2>11. /\ m.exc_entries[q].start = <<"start", q>> /\ m.exc_entries[q].stop = <<"stop", q>>
         /\ m.exc_entries[q].handler = LabelOf(b, b.exc_entries[q].handler)
         /\ m.exc_entries[q].lasti = b.exc_entries[q].lasti
    BY <2>4
  <2> QED BY <2>3, <2>8, <2>9, <2>10, <2>11 DEF q
<1>9. Len(m.exc_entries) = Cardinality(T) /\ Len(m.exc_entries) = Cardinality(D)
  BY <1>6, <1>7
<1> QED BY <1>8, <1>9, Zenon DEF RegionsAt, m, I, T, D

LEMMA PlacesAre ==
    /\ \A b, i : Place(b, i) = Rank(OwnAt(read, b, "instr"), i)
    /\ \A b, kind, i : Before(b, kind, i) = Rank(OwnAt(read, b, kind), i)
    /\ \A b, kind, name : LineOf(b, kind, name) = LineOfAt(read, b, kind, name)
    /\ \A b, name : LabelPlace(b, name) = Rank(OwnAt(read, b, "instr"), LineOfAt(read, b, "label", name))
<1>1. \A b, kind : Own(b, kind) = OwnAt(read, b, kind)
  BY SourceIs
<1>2. \A b, kind, i : Before(b, kind, i) = Rank(OwnAt(read, b, kind), i)
  BY <1>1, Zenon DEF Before, Rank
<1>3. \A b, kind, name : LineOf(b, kind, name) = LineOfAt(read, b, kind, name)
  BY <1>1, Zenon DEF LineOf, LineOfAt
<1>4. \A b, i : Place(b, i) = Rank(OwnAt(read, b, "instr"), i)
  BY <1>2 DEF Place
<1> QED BY <1>2, <1>3, <1>4 DEF LabelPlace

LEMMA InstrsAre ==
    ASSUME NEW m, NEW b, InstrsAt(m, read, b, CodeOf)
    PROVE  InstrsAreLines(m, b)
<1> DEFINE I == OwnAt(read, b, "instr")
<1>1. Own(b, "instr") = I
  BY SourceIs
<1>2. \A i : Place(b, i) = Rank(I, i)
  BY PlacesAre
<1>3. \A name : LabelPlace(b, name) = Rank(I, LineOfAt(read, b, "label", name))
  BY PlacesAre
<1>4. \A name : LineOf(b, "code", name) = LineOfAt(read, b, "code", name)
  BY PlacesAre
<1>5. Len(m.instrs) = Cardinality(Own(b, "instr"))
  BY <1>1 DEF InstrsAt
<1> DEFINE Is(x, i) ==
             /\ x.lineno = i /\ x.by = read[i].by
             /\ CASE x.by = "label" -> Places(m, x.arg) = {LabelPlace(b, read[i].of)}
                  [] x.by = "code" -> x.arg = CodeOf[LineOf(b, "code", read[i].of)]
                  [] OTHER -> x.arg = read[i].of
<1>6. ASSUME NEW i \in Own(b, "instr")
      PROVE  Is(m.instrs[Place(b, i) + 1], i)
  <2> DEFINE x == m.instrs[Place(b, i) + 1]
  <2>1. InstrAs(m, m.instrs[Rank(I, i) + 1], read, b, CodeOf, i)
    BY <1>1 DEF InstrsAt
  <2>2. x = m.instrs[Rank(I, i) + 1]
    BY <1>2
  <2> HIDE DEF x
  <2>3. /\ x.lineno = i /\ x.by = read[i].by
        /\ read[i].by = "label" => Places(m, x.arg) = {LabelPlace(b, read[i].of)}
        /\ read[i].by = "code" => x.arg = CodeOf[LineOf(b, "code", read[i].of)]
        /\ read[i].by \notin {"label", "code"} => x.arg = read[i].of
    BY <1>3, <1>4, <2>1, <2>2 DEF InstrAs
  <2>4. "label" # "code"
    OBVIOUS
  <2>5. CASE x.by = "label"
    <3>1. x.by # "code"
      BY <2>4, <2>5
    <3>2. Places(m, x.arg) = {LabelPlace(b, read[i].of)}
      BY <2>3, <2>5
    <3> QED BY <2>3, <2>5, <3>1, <3>2 DEF x
  <2>6. CASE x.by = "code"
    <3>1. x.by # "label"
      BY <2>4, <2>6
    <3>2. x.arg = CodeOf[LineOf(b, "code", read[i].of)]
      BY <2>3, <2>6
    <3> QED BY <2>3, <2>6, <3>1, <3>2 DEF x
  <2>7. CASE x.by # "label" /\ x.by # "code"
    <3>1. x.arg = read[i].of
      BY <2>3, <2>7
    <3> QED BY <2>3, <2>7, <3>1 DEF x
  <2> QED BY <2>5, <2>6, <2>7
<1> QED BY <1>5, <1>6, Zenon DEF InstrsAreLines

LEMMA RegionsAre ==
    ASSUME NEW m, NEW b, RegionsAt(m, read, b)
    PROVE  RegionsAreTries(m, b)
<1> DEFINE I == OwnAt(read, b, "instr")
           T == OwnAt(read, b, "try")
           D == OwnAt(read, b, "tried")
<1>1. Own(b, "try") = T /\ Own(b, "tried") = D
  BY SourceIs
<1>2. \A i : Place(b, i) = Rank(I, i)
  BY PlacesAre
<1>3. \A name : LabelPlace(b, name) = Rank(I, LineOfAt(read, b, "label", name))
  BY PlacesAre
<1>4. \A i : Before(b, "try", i) = Rank(T, i) /\ Before(b, "tried", i) = Rank(D, i)
  BY PlacesAre
<1>5. /\ Len(m.exc_entries) = Cardinality(T) /\ Len(m.exc_entries) = Cardinality(D)
      /\ \A i \in T, j \in D :
            Rank(T, i) = Rank(D, j) =>
                /\ Places(m, m.exc_entries[Rank(T, i) + 1].start) = {Rank(I, i)}
                /\ Places(m, m.exc_entries[Rank(T, i) + 1].stop) = {Rank(I, j)}
                /\ Places(m, m.exc_entries[Rank(T, i) + 1].handler) =
                     {Rank(I, LineOfAt(read, b, "label", read[i].of))}
                /\ m.exc_entries[Rank(T, i) + 1].lasti = read[i].lasti
  BY Zenon DEF RegionsAt
<1> HIDE DEF I, T, D
<1>6. ASSUME NEW i \in T, NEW j \in D, Before(b, "try", i) = Before(b, "tried", j)
      PROVE  /\ Places(m, m.exc_entries[Before(b, "try", i) + 1].start) = {Place(b, i)}
             /\ Places(m, m.exc_entries[Before(b, "try", i) + 1].stop) = {Place(b, j)}
             /\ Places(m, m.exc_entries[Before(b, "try", i) + 1].handler) = {LabelPlace(b, read[i].of)}
             /\ m.exc_entries[Before(b, "try", i) + 1].lasti = read[i].lasti
  <2>1. Rank(T, i) = Rank(D, j) /\ Before(b, "try", i) = Rank(T, i)
    BY <1>4, <1>6
  <2>2. /\ Places(m, m.exc_entries[Rank(T, i) + 1].start) = {Rank(I, i)}
        /\ Places(m, m.exc_entries[Rank(T, i) + 1].stop) = {Rank(I, j)}
        /\ Places(m, m.exc_entries[Rank(T, i) + 1].handler) =
             {Rank(I, LineOfAt(read, b, "label", read[i].of))}
        /\ m.exc_entries[Rank(T, i) + 1].lasti = read[i].lasti
    BY <1>5, <2>1
  <2>3. /\ Place(b, i) = Rank(I, i) /\ Place(b, j) = Rank(I, j)
        /\ LabelPlace(b, read[i].of) = Rank(I, LineOfAt(read, b, "label", read[i].of))
    BY <1>2, <1>3
  <2> QED BY <2>1, <2>2, <2>3, Zenon
<1> QED BY <1>1, <1>5, <1>6, Zenon DEF RegionsAreTries

\* The Bytecode of each block is made of its own lines, each label is where its
\* line is, and a region is from its try to its tried (_asm.py:512-566).
THEOREM CodeIsTheSourceHolds == Spec => []CodeIsTheSource
<1>1. ParserInv => CodeIsTheSource
  <2> SUFFICES ASSUME ParserInv, bound.code.made, NEW b \in Blocks, CodeOf[b].made
               PROVE  /\ CodeOf[b].header = Header(b)
                      /\ InstrsAreLines(CodeOf[b], b)
                      /\ RegionsAreTries(CodeOf[b], b)
    BY DEF CodeIsTheSource
  <2>1. outcome = "bound"
    <3>1. ~ NoBind.code.made
      BY DEF NoBind, NoCode
    <3> QED BY <3>1 DEF ParserInv
  <2>2. PICK h, code : /\ Done(read, blocks, h) /\ bound.code = code[1]
                       /\ \A k \in 1 .. Len(blocks) : CodeEqn(blocks, bound.args, bound.lucky, code, k)
    BY <2>1, BoundIs
  <2> DEFINE f == CodeOf
             args == bound.args
             lucky == bound.lucky
             n == Len(blocks)
  <2>3. /\ read \in Seq(Line) /\ Homes(read, n, h) /\ h[1] = 0
        /\ \A k \in 1 .. n : h[k] \in BlocksAt(read)
    BY <2>2, DoneIs
  <2>4. FoundFrom(read, code[1], CodeOf)
    BY <2>2, <2>3, CodeOfUnfolds
  <2>5. PICK k \in 1 .. n : h[k] = b
    <3>1. b \in BlocksAt(read)
      BY SourceIs
    <3> QED BY <2>3, <3>1 DEF Homes
  <2>6. CodeOf[b] = code[k]
    <3>1. FoundFrom(read, code[1], f)
      BY <2>4
    <3> HIDE DEF f
    <3>2. Codes(blocks, args, lucky, code)
      BY <2>2 DEF Codes
    <3> HIDE DEF n, args, lucky
    <3>3. \A j \in 1 .. Len(blocks) : f[h[j]].made => f[h[j]] = code[j]
      BY <2>2, <3>1, <3>2, FoundIs
    <3> QED BY <2>5, <3>3 DEF n, f
  <2>7. code[k] = Materialise(blocks[k], CodesOf(blocks[k], code)) /\ GivenAt(read, b, bound.args)
    <3>1. CodeEqn(blocks, bound.args, bound.lucky, code, k)
      BY <2>2
    <3>2. /\ code[k] # NoCode => code[k] = Materialise(blocks[k], CodesOf(blocks[k], code))
          /\ code[k].made <=> code[k] # NoCode
          /\ code[k].made => GivenAt(read, h[k], bound.args)
      BY <2>2, <3>1, MadeIs DEF FineAt
    <3> QED BY <2>5, <2>6, <3>2
  <2>8. BlockIs(blocks[k], read, b, h) /\ Valid(blocks[k])
    BY <2>2, <2>5 DEF Done
  <2>9. CodeOf[b].header = Header(b)
    <3>1. blocks[k].header = HeaderAt(read, b) /\ Header(b) = HeaderAt(read, b)
      BY <2>8, SourceIs DEF BlockIs
    <3>2. code[k].header = blocks[k].header
      BY <2>7, MaterialiseIs
    <3> QED BY <2>6, <3>1, <3>2
  <2>10. InstrsAreLines(CodeOf[b], b)
    <3>1. InstrsAt(code[k], read, h[k], CodeOf)
      <4>1. MadeOf(read, blocks, h, bound.args, code, CodeOf, k)
        BY <2>2, <2>4, <2>5, <2>6, <2>7 DEF MadeOf
      <4> QED BY <4>1, InstrsMade
    <3>2. InstrsAt(CodeOf[b], read, b, CodeOf)
      BY <2>5, <2>6, <3>1
    <3> QED BY <3>2, InstrsAre
  <2>11. RegionsAreTries(CodeOf[b], b)
    <3>1. RegionsAt(Materialise(blocks[k], CodesOf(blocks[k], code)), read, b)
      BY <2>3, <2>8, RegionsMade
    <3>2. RegionsAt(CodeOf[b], read, b)
      BY <2>6, <2>7, <3>1
    <3> QED BY <3>2, RegionsAre
  <2> QED BY <2>9, <2>10, <2>11
<1> QED BY <1>1, ParserInvHolds, PTL

-----------------------------------------------------------------------------
(***************************************************************************)
(* Where control gets to in a block, and what bind() refuses.              *)
(***************************************************************************)
LeadsAt(r, c, S) ==
    /\ 0 \in S
    /\ \A i \in OwnAt(r, c, "instr") : Rank(OwnAt(r, c, "instr"), i) \in S =>
          /\ r[i].by = "label" => Rank(OwnAt(r, c, "instr"), LineOfAt(r, c, "label", r[i].of)) \in S
          /\ ~ r[i].ends => Rank(OwnAt(r, c, "instr"), i) + 1 \in S

LengthAt(r, c) == Cardinality(OwnAt(r, c, "instr"))
WalkedAt(r, c) ==
    {p \in 0 .. LengthAt(r, c) - 1 : \A S \in SUBSET (0 .. LengthAt(r, c)) : LeadsAt(r, c, S) => p \in S}

StartsIn(r, c, W) == \A i \in OwnAt(r, c, "try") : Rank(OwnAt(r, c, "instr"), i) \in W
EnteredAt(r, c) == StartsIn(r, c, WalkedAt(r, c))
EnterableAt(r, c) == StartsIn(r, c, WalkedAt(r, c) \cup {LengthAt(r, c)})

LEMMA FlowsIs ==
    ASSUME NEW r \in Seq(Line), NEW c, NEW b, NEW h, BlockIs(b, r, c, h), Valid(b), NEW S
    PROVE  Flows(b, S) <=> LeadsAt(r, c, S)
<1> DEFINE I == OwnAt(r, c, "instr")
           To(i) == Rank(I, LineOfAt(r, c, "label", r[i].of))
<1>1. b.instrs \in Seq(InstrT) /\ LineSet(I, Len(r)) /\ InstrsMirrored(b.instrs, r, I)
  BY OwnIs DEF BlockT, BlockIs, Mirrored
<1>2. \A i \in I : r[i].by = "label" => Position(b, LabelOf(b, r[i].of)) = To(i)
  <2> SUFFICES ASSUME NEW i \in I, r[i].by = "label" PROVE Position(b, LabelOf(b, r[i].of)) = To(i)
    OBVIOUS
  <2>1. r[i].of \in NamesAt(r, Jumps(r, OwnAt(r, c, "instr")) \cup OwnAt(r, c, "try"))
    BY DEF NamesAt, Jumps
  <2> QED BY <2>1, LabelIsOwn
<1>3. LeadsAt(r, c, S) <=>
        /\ 0 \in S
        /\ \A i \in I : Rank(I, i) \in S =>
              (r[i].by = "label" => To(i) \in S) /\ (~ r[i].ends => Rank(I, i) + 1 \in S)
  BY DEF LeadsAt
<1> HIDE DEF I, To
<1>4. /\ DOMAIN b.instrs = 1 .. Cardinality(I) /\ Cardinality(I) \in Nat
      /\ \A i \in I : /\ Rank(I, i) + 1 \in DOMAIN b.instrs
                      /\ b.instrs[Rank(I, i) + 1] = [by |-> r[i].by, of |-> r[i].of, ends |-> r[i].ends, lineno |-> i]
      /\ \A k \in DOMAIN b.instrs : \E i \in I : Rank(I, i) + 1 = k
  BY <1>1, InstrAt
<1>5. \A i \in I : Rank(I, i) \in Nat
  BY <1>1, RankOf, LineSetFinite
<1> DEFINE Goes(k) == /\ b.instrs[k].by = "label" => Position(b, LabelOf(b, b.instrs[k].of)) \in S
                      /\ ~ b.instrs[k].ends => k \in S
           Leads1(i) == (r[i].by = "label" => To(i) \in S) /\ (~ r[i].ends => Rank(I, i) + 1 \in S)
<1>6. ASSUME NEW i \in I PROVE Goes(Rank(I, i) + 1) <=> Leads1(i)
  <2> DEFINE x == b.instrs[Rank(I, i) + 1]
  <2>1. x = [by |-> r[i].by, of |-> r[i].of, ends |-> r[i].ends, lineno |-> i]
    BY <1>4
  <2> HIDE DEF x
  <2>2. x.by = r[i].by /\ x.of = r[i].of
    BY <2>1
  <2>3. x.ends = r[i].ends
    BY <2>1, Zenon
  <2>4. (x.by = "label" => Position(b, LabelOf(b, x.of)) \in S) <=> (r[i].by = "label" => To(i) \in S)
    BY <1>2, <2>2
  <2>5. (~ x.ends => Rank(I, i) + 1 \in S) <=> (~ r[i].ends => Rank(I, i) + 1 \in S)
    BY <2>3, Zenon
  <2> QED BY <2>4, <2>5, Zenon DEF x
<1>7. Flows(b, S) <=> 0 \in S /\ \A k \in DOMAIN b.instrs : k - 1 \in S => Goes(k)
  BY Zenon DEF Flows
<1>8. LeadsAt(r, c, S) <=> 0 \in S /\ \A i \in I : Rank(I, i) \in S => Leads1(i)
  BY <1>3, Zenon
<1> HIDE DEF Goes, Leads1
<1>9. \A i \in I : (Rank(I, i) + 1) - 1 = Rank(I, i)
  BY <1>5
<1>10. ASSUME \A k \in DOMAIN b.instrs : k - 1 \in S => Goes(k), NEW i \in I, Rank(I, i) \in S
       PROVE  Leads1(i)
  <2>1. Rank(I, i) + 1 \in DOMAIN b.instrs /\ (Rank(I, i) + 1) - 1 = Rank(I, i)
    BY <1>4, <1>9
  <2>2. Goes(Rank(I, i) + 1)
    BY <1>10, <2>1
  <2> QED BY <1>6, <2>2
<1>11. ASSUME \A i \in I : Rank(I, i) \in S => Leads1(i), NEW k \in DOMAIN b.instrs, k - 1 \in S
       PROVE  Goes(k)
  <2>1. PICK i \in I : Rank(I, i) + 1 = k
    BY <1>4
  <2>2. Rank(I, i) \in S
    BY <1>9, <1>11, <2>1
  <2>3. Leads1(i)
    BY <1>11, <2>2
  <2> QED BY <1>6, <2>1, <2>3
<1> QED BY <1>7, <1>8, <1>10, <1>11

LEMMA ReachableIs ==
    ASSUME NEW r \in Seq(Line), NEW c, NEW b, NEW h, BlockIs(b, r, c, h), Valid(b)
    PROVE  Reachable(b) = WalkedAt(r, c) /\ Len(b.instrs) = LengthAt(r, c)
<1>1. Len(b.instrs) = LengthAt(r, c)
  BY DEF BlockIs, Mirrored, InstrsMirrored, LengthAt
<1>2. \A S : Flows(b, S) <=> LeadsAt(r, c, S)
  BY FlowsIs
<1> QED BY <1>1, <1>2, Zenon DEF Reachable, WalkedAt

\* The regions of a block begin where its try lines are.
LEMMA StartsAre ==
    ASSUME NEW r \in Seq(Line), NEW c, NEW b, NEW h, BlockIs(b, r, c, h), Valid(b), NEW W
    PROVE  (\A k \in DOMAIN b.exc_entries : b.exc_entries[k].start \in W) <=> StartsIn(r, c, W)
<1> DEFINE L == OwnAt(r, c, "label")
           I == OwnAt(r, c, "instr")
           T == OwnAt(r, c, "try")
           D == OwnAt(r, c, "tried")
           n == Cardinality(T)
<1>1. b \in BlockT /\ LineSets(Len(r), L, I, T, D) /\ Mirrored(b, r, L, I, T, D)
  BY OwnSets DEF BlockIs
<1>2. /\ LineSet(T, Len(r)) /\ LineSet(D, Len(r)) /\ b.exc_entries \in Seq(RegionT)
      /\ RegionsMirrored(b.exc_entries, <<>>, r, I, T, D)
  BY <1>1 DEF LineSets, Mirrored, BlockT, Valid
<1>3. StartsIn(r, c, W) <=> \A i \in T : Rank(I, i) \in W
  BY DEF StartsIn
<1> HIDE DEF L, I, T, D
<1>4. n \in Nat /\ Cardinality(D) = n /\ DOMAIN b.exc_entries = 1 .. n
  BY <1>2, LineSetFinite, LenProperties DEF RegionsMirrored
<1>5. /\ \A i \in T : Rank(T, i) \in 0 .. n - 1
      /\ \A k \in 0 .. n - 1 : \E i \in T : Rank(T, i) = k
  BY <1>2, RankOf
<1>6. \A i \in T : Rank(T, i) < n => b.exc_entries[Rank(T, i) + 1].start = Rank(I, i)
  BY <1>2, <1>4 DEF RegionsMirrored
<1> HIDE DEF n
<1>7. \A i \in T : /\ Rank(T, i) + 1 \in DOMAIN b.exc_entries
                   /\ b.exc_entries[Rank(T, i) + 1].start = Rank(I, i)
  BY <1>4, <1>5, <1>6
<1>8. ASSUME NEW k \in DOMAIN b.exc_entries PROVE \E i \in T : b.exc_entries[k].start = Rank(I, i)
  <2>1. k - 1 \in 0 .. n - 1 /\ (k - 1) + 1 = k
    BY <1>4
  <2>2. PICK i \in T : Rank(T, i) = k - 1
    BY <1>5, <2>1
  <2> QED BY <1>7, <2>1, <2>2
<1> QED BY <1>3, <1>7, <1>8

LEMMA RefusedIs ==
    ASSUME NEW r \in Seq(Line), NEW c, NEW b, NEW h, BlockIs(b, r, c, h), Valid(b), NEW lucky
    PROVE  /\ ~ Refused(b, lucky) => EnterableAt(r, c)
           /\ EnteredAt(r, c) => ~ Refused(b, lucky)
<1> DEFINE In(W) == \A k \in DOMAIN b.exc_entries : b.exc_entries[k].start \in W
           n == Len(b.instrs)
           R == Reachable(b)
<1>1. \A W : In(W) <=> StartsIn(r, c, W)
  BY StartsAre
<1>2. R = WalkedAt(r, c) /\ n = LengthAt(r, c)
  BY ReachableIs
<1>3. ~ Refused(b, lucky) <=> In(R \cup (IF lucky THEN {n} ELSE {}))
  BY Zenon DEF Refused
<1> HIDE DEF R, n
<1>4. In(R \cup (IF lucky THEN {n} ELSE {})) => In(R \cup {n})
  OBVIOUS
<1>5. In(R) => In(R \cup (IF lucky THEN {n} ELSE {}))
  OBVIOUS
<1> HIDE DEF In
<1> QED BY <1>1, <1>2, <1>3, <1>4, <1>5 DEF EnterableAt, EnteredAt

LEMMA WalkIs ==
    ASSUME NEW b
    PROVE  /\ Entered(b) <=> EnteredAt(read, b)
           /\ Enterable(b) <=> EnterableAt(read, b)
<1> DEFINE I == OwnAt(read, b, "instr")
<1>1. Own(b, "instr") = I /\ Own(b, "try") = OwnAt(read, b, "try")
  BY SourceIs
<1>2. \A i : Place(b, i) = Rank(I, i)
  BY PlacesAre
<1>3. \A name : LabelPlace(b, name) = Rank(I, LineOfAt(read, b, "label", name))
  BY PlacesAre
<1>4. Length(b) = LengthAt(read, b)
  BY <1>1, Zenon DEF Length, LengthAt
<1>5. ASSUME NEW S PROVE Leads(b, S) <=> LeadsAt(read, b, S)
  <2>1. Leads(b, S) <=>
          /\ 0 \in S
          /\ \A i \in I : Rank(I, i) \in S =>
                /\ read[i].by = "label" => Rank(I, LineOfAt(read, b, "label", read[i].of)) \in S
                /\ ~ read[i].ends => Rank(I, i) + 1 \in S
    BY <1>1, <1>2, <1>3, Zenon DEF Leads
  <2> QED BY <2>1, Zenon DEF LeadsAt
<1>6. Walked(b) = WalkedAt(read, b)
  BY <1>4, <1>5, Zenon DEF Walked, WalkedAt
<1> QED BY <1>1, <1>2, <1>4, <1>6, Zenon DEF Entered, Enterable, EnteredAt, EnterableAt, StartsIn

\* bind() succeeds when every block that it goes through is given its arguments and
\* has the blocks it refers to, and those it assembles are entered from their start
\* wherever they protect something; it raises when one is not, but for a region at
\* the very end of a block, and never over a label (_asm.py:568-597,
\* stackdepth.cpp:346-354).
THEOREM BindsWhatIsGivenHolds == Spec => []BindsWhatIsGiven
<1>1. ParserInv => BindsWhatIsGiven
  <2> SUFFICES ASSUME ParserInv, outcome = "bound"
               PROVE  /\ bound.code.made =>
                            \A b \in Blocks : Reached(b) => Given(b) /\ (b # 0 => Enterable(b))
                      /\ (\A b \in Blocks : Reached(b) => Given(b) /\ (b # 0 => Entered(b))) =>
                            bound.code.made
    BY Zenon DEF BindsWhatIsGiven
  <2>1. PICK h, code : /\ Done(read, blocks, h) /\ bound.code = code[1]
                       /\ \A k \in 1 .. Len(blocks) : CodeEqn(blocks, bound.args, bound.lucky, code, k)
    BY BoundIs
  <2> DEFINE n == Len(blocks)
             Fine(k) == FineAt(read, blocks, h, bound.args, bound.lucky, k)
             Whole(b) == Given(b) /\ (b # 0 => Entered(b))
             Sound(b) == Given(b) /\ (b # 0 => Enterable(b))
  <2>2. code[1].made <=> \A k \in 1 .. n : ReachedAt(read, h[k]) => Fine(k)
    BY <2>1, BindsAt
  <2>3. /\ read \in Seq(Line) /\ Homes(read, n, h) /\ n \in Nat \ {0} /\ h[1] = 0
        /\ \A k \in 1 .. n : h[k] \in BlocksAt(read)
    BY <2>1, DoneIs
  <2>4. \A b : Reached(b) <=> ReachedAt(read, b)
    BY BindingIs
  <2>5. ASSUME NEW k \in 1 .. n
        PROVE  (Fine(k) => Sound(h[k])) /\ (Whole(h[k]) => Fine(k))
    <3>1. Given(h[k]) <=> GivenAt(read, h[k], bound.args)
      BY BindingIs DEF Given
    <3>2. k = 1 <=> h[k] = 0
      <4>1. 1 \in 1 .. n
        BY <2>3
      <4>2. k # 1 => h[k] # h[1]
        BY <2>3, <4>1, HomesDiffer
      <4> QED BY <2>3, <4>2
    <3>3. BlockIs(blocks[k], read, h[k], h) /\ Valid(blocks[k])
      BY <2>1 DEF Done
    <3>4. /\ ~ Refused(blocks[k], k \in bound.lucky) => EnterableAt(read, h[k])
          /\ EnteredAt(read, h[k]) => ~ Refused(blocks[k], k \in bound.lucky)
      BY <2>3, <3>3, RefusedIs
    <3>5. (Entered(h[k]) <=> EnteredAt(read, h[k])) /\ (Enterable(h[k]) <=> EnterableAt(read, h[k]))
      BY WalkIs
    <3>6. Fine(k) <=> GivenAt(read, h[k], bound.args) /\ (k = 1 \/ ~ Refused(blocks[k], k \in bound.lucky))
      BY Zenon DEF FineAt
    <3> QED BY <3>1, <3>2, <3>4, <3>5, <3>6, Zenon
  <2> HIDE DEF Fine, Whole, Sound
  <2>6. Blocks = BlocksAt(read)
    BY SourceIs
  <2>7. ASSUME code[1].made, NEW b \in Blocks, Reached(b) PROVE Sound(b)
    <3>1. PICK k \in 1 .. n : h[k] = b
      BY <2>3, <2>6 DEF Homes
    <3>2. Fine(k)
      BY <2>2, <2>4, <2>7, <3>1
    <3> QED BY <2>5, <3>1, <3>2
  <2>8. ASSUME \A b \in Blocks : Reached(b) => Whole(b), NEW k \in 1 .. n, ReachedAt(read, h[k])
        PROVE  Fine(k)
    <3>1. h[k] \in Blocks /\ Reached(h[k])
      BY <2>3, <2>4, <2>6, <2>8
    <3> QED BY <2>5, <2>8, <3>1
  <2>9. bound.code.made <=> code[1].made
    BY <2>1
  <2>10. bound.code.made => \A b \in Blocks : Reached(b) => Sound(b)
    BY <2>7, <2>9
  <2>11. (\A b \in Blocks : Reached(b) => Whole(b)) => bound.code.made
    BY <2>2, <2>8, <2>9
  <2> QED BY <2>10, <2>11 DEF Sound, Whole
<1> QED BY <1>1, ParserInvHolds, PTL
=============================================================================
