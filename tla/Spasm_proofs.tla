---------------------------- MODULE Spasm_proofs ----------------------------
(***************************************************************************)
(* The two components that are written in Python (src/spasm) and change    *)
(* what is there already: the inliner, and the build backend.              *)
(***************************************************************************)
EXTENDS Inliner, WheelBuild, SequenceTheorems, WellFoundedInduction, TLAPS

LEMMA LeastNumber ==
    ASSUME NEW S \in SUBSET Nat, S # {}
    PROVE  \E m \in S : \A k \in S : m <= k
<1>1. PICK m \in S : \A k \in S : <<k, m>> \notin OpToRel(<, Nat)
  BY NatLessThanWellFounded, WFMin
<1>2. \A k \in S : ~ (k < m)
  BY <1>1 DEF OpToRel
<1> QED BY <1>2

-----------------------------------------------------------------------------
(***************************************************************************)
(* Sequences of sequences.                                                 *)
(***************************************************************************)
LEMMA MapSeq ==
    ASSUME NEW N \in Nat, NEW S, NEW f, f = [k \in 1 .. N |-> f[k]],
           \A k \in 1 .. N : f[k] \in S
    PROVE  f \in Seq(S) /\ Len(f) = N /\ DOMAIN f = 1 .. N
<1>1. f \in [1 .. N -> S]
  OBVIOUS
<1>2. f \in Seq(S)
  BY <1>1, SeqDef
<1> QED BY <1>1, <1>2, LenProperties

\* u is s and then t.
Joins(u, s, t) ==
    /\ Len(u) = Len(s) + Len(t)
    /\ \A k \in 1 .. Len(s) : u[k] = s[k]
    /\ \A k \in 1 .. Len(t) : u[Len(s) + k] = t[k]
    /\ \A k \in 1 .. Len(s) + Len(t) :
          k \in 1 .. Len(s) \/ \E j \in 1 .. Len(t) : k = Len(s) + j

LEMMA ConcatElements ==
    ASSUME NEW S, NEW s \in Seq(S), NEW t \in Seq(S)
    PROVE  s \o t \in Seq(S) /\ Joins(s \o t, s, t)
<1>1. s \o t \in Seq(S) /\ Len(s \o t) = Len(s) + Len(t)
      /\ \A k \in 1 .. Len(s) + Len(t) :
            (s \o t)[k] = IF k <= Len(s) THEN s[k] ELSE t[k - Len(s)]
  BY ConcatProperties
<1>2. Len(s) \in Nat /\ Len(t) \in Nat
  BY LenProperties
<1>3. \A k \in 1 .. Len(s) : (s \o t)[k] = s[k]
  BY <1>1, <1>2
<1>4. \A k \in 1 .. Len(t) : (s \o t)[Len(s) + k] = t[k]
  <2> TAKE k \in 1 .. Len(t)
  <2>1. Len(s) + k \in 1 .. Len(s) + Len(t) /\ ~ (Len(s) + k <= Len(s))
        /\ Len(s) + k - Len(s) = k
    BY <1>2
  <2> QED BY <1>1, <2>1
<1>5. ASSUME NEW k \in 1 .. Len(s) + Len(t), k \notin 1 .. Len(s)
      PROVE  \E j \in 1 .. Len(t) : k = Len(s) + j
  <2>1. k - Len(s) \in 1 .. Len(t) /\ k = Len(s) + (k - Len(s))
    BY <1>2, <1>5
  <2> QED BY <2>1
<1> QED BY <1>1, <1>3, <1>4, <1>5 DEF Joins

\* f is a table of the prefixes of the sequences ss, each appended to the last.
Flattens(f, ss, m) ==
    /\ f[1] = ss[1]
    /\ \A k \in 2 .. m : f[k] = f[k - 1] \o ss[k]

LEMMA FlattensExists ==
    ASSUME NEW N \in Nat \ {0}, NEW ss
    PROVE  \E f : f = [k \in 1 .. N |-> f[k]] /\ Flattens(f, ss, N)
<1> DEFINE P(m) == \E f : f = [k \in 1 .. N |-> f[k]] /\ Flattens(f, ss, m)
           S == {m \in 1 .. N : ~ P(m)}
<1>1. P(1)
  <2> DEFINE f == [k \in 1 .. N |-> ss[1]]
  <2>1. f = [k \in 1 .. N |-> f[k]] /\ f[1] = ss[1]
    OBVIOUS
  <2> HIDE DEF f
  <2> QED BY <2>1 DEF Flattens
<1>2. ASSUME NEW m \in 2 .. N, P(m - 1) PROVE P(m)
  <2>1. PICK f : f = [k \in 1 .. N |-> f[k]] /\ Flattens(f, ss, m - 1)
    BY <1>2
  <2> DEFINE new == f[m - 1] \o ss[m]
             g == [k \in 1 .. N |-> IF k = m THEN new ELSE f[k]]
  <2> HIDE DEF new
  <2>2. /\ g = [k \in 1 .. N |-> g[k]] /\ g[m] = new
        /\ \A k \in 1 .. N : k # m => g[k] = f[k]
    OBVIOUS
  <2> HIDE DEF g
  <2>3. g[1] = ss[1]
    BY <2>1, <2>2 DEF Flattens
  <2>4. ASSUME NEW k \in 2 .. m PROVE g[k] = g[k - 1] \o ss[k]
    <3>1. k - 1 \in 1 .. N /\ k - 1 # m /\ k \in 1 .. N
      OBVIOUS
    <3>2. g[k - 1] = f[k - 1]
      BY <2>2, <3>1
    <3>3. CASE k = m
      BY <2>2, <3>2, <3>3 DEF new
    <3>4. CASE k # m
      <4>1. k \in 2 .. m - 1
        BY <3>4
      <4> QED BY <2>1, <2>2, <3>1, <3>2, <3>4, <4>1 DEF Flattens
    <3> QED BY <3>3, <3>4
  <2>5. Flattens(g, ss, m)
    BY <2>3, <2>4 DEF Flattens
  <2> QED BY <2>2, <2>5
<1>3. S = {}
  <2> SUFFICES ASSUME S # {} PROVE FALSE
    OBVIOUS
  <2>1. S \in SUBSET Nat
    OBVIOUS
  <2> HIDE DEF P
  <2>2. PICK m \in S : \A k \in S : m <= k
    <3> HIDE DEF S
    <3> QED BY <2>1, LeastNumber
  <2>3. m \in 2 .. N /\ ~ P(m)
    BY <1>1, <2>2
  <2>4. m - 1 \in 1 .. N /\ ~ (m <= m - 1)
    BY <2>3
  <2>5. P(m - 1)
    BY <2>2, <2>4
  <2> QED BY <1>2, <2>3, <2>5
<1>4. P(N)
  <2> HIDE DEF P
  <2> QED BY <1>3
<1> QED BY <1>4

LEMMA FlattenUnfolds ==
    ASSUME NEW ss, NEW N \in Nat \ {0}, Len(ss) = N
    PROVE  \E f : FlattenSeq(ss) = f[N] /\ Flattens(f, ss, N)
<1> DEFINE Q(f) == f = [i_1 \in 1 .. Len(ss) |-> IF i_1 = 1 THEN ss[i_1] ELSE f[i_1 - 1] \o ss[i_1]]
           f == CHOOSE f : Q(f)
<1>1. \E g : Q(g)
  <2>1. PICK g : g = [k \in 1 .. N |-> g[k]] /\ Flattens(g, ss, N)
    BY FlattensExists
  <2>2. ASSUME NEW k \in 1 .. N PROVE g[k] = IF k = 1 THEN ss[k] ELSE g[k - 1] \o ss[k]
    <3>1. k = 1 \/ k \in 2 .. N
      OBVIOUS
    <3> QED BY <2>1, <3>1 DEF Flattens
  <2>3. Q(g)
    BY <2>1, <2>2
  <2> QED BY <2>3
<1>2. Q(f)
  BY <1>1
<1>3. FlattenSeq(ss) = f[N]
  BY DEF FlattenSeq
<1> HIDE DEF f
<1>4. \A k \in 1 .. N : f[k] = IF k = 1 THEN ss[k] ELSE f[k - 1] \o ss[k]
  BY <1>2
<1>5. f[1] = ss[1] /\ \A k \in 2 .. N : f[k] = f[k - 1] \o ss[k]
  <2>1. f[1] = ss[1]
    BY <1>4
  <2>2. ASSUME NEW k \in 2 .. N PROVE f[k] = f[k - 1] \o ss[k]
    <3>1. k \in 1 .. N /\ k # 1
      OBVIOUS
    <3> QED BY <1>4, <3>1
  <2> QED BY <2>1, <2>2
<1> QED BY <1>3, <1>5 DEF Flattens

\* What holds of the first sequence, and is kept by appending the next, holds of all.
LEMMA FlattenInduction ==
    ASSUME NEW ss, NEW N \in Nat \ {0}, Len(ss) = N, NEW G,
           <<1, ss[1]>> \in G,
           \A k \in 2 .. N : \A s : <<k - 1, s>> \in G => <<k, s \o ss[k]>> \in G
    PROVE  <<N, FlattenSeq(ss)>> \in G
<1>1. PICK f : FlattenSeq(ss) = f[N] /\ Flattens(f, ss, N)
  BY FlattenUnfolds
<1> DEFINE S == {m \in 1 .. N : <<m, f[m]>> \notin G}
<1>2. S = {}
  <2> SUFFICES ASSUME S # {} PROVE FALSE
    OBVIOUS
  <2>1. S \in SUBSET Nat
    OBVIOUS
  <2>2. PICK m \in S : \A k \in S : m <= k
    <3> HIDE DEF S
    <3> QED BY <2>1, LeastNumber
  <2>3. f[1] = ss[1]
    BY <1>1 DEF Flattens
  <2>4. m \in 2 .. N /\ <<m, f[m]>> \notin G
    BY <2>2, <2>3
  <2>5. m - 1 \in 1 .. N /\ ~ (m <= m - 1)
    BY <2>4
  <2>6. <<m - 1, f[m - 1]>> \in G
    BY <2>2, <2>5
  <2>7. f[m] = f[m - 1] \o ss[m]
    BY <1>1, <2>4 DEF Flattens
  <2> QED BY <2>4, <2>6, <2>7
<1>3. N \in 1 .. N
  OBVIOUS
<1> QED BY <1>1, <1>2, <1>3

\* The elements of s come from the first N sequences of ss.
ComeFrom(s, ss, N) ==
    \A j \in 1 .. Len(s) : \E k \in 1 .. N : \E h \in 1 .. Len(ss[k]) : s[j] = ss[k][h]

LEMMA FlattenElements ==
    ASSUME NEW N \in Nat, NEW S, NEW ss \in [1 .. N -> Seq(S)]
    PROVE  /\ FlattenSeq(ss) \in Seq(S)
           /\ ComeFrom(FlattenSeq(ss), ss, N)
           /\ (\E k \in 1 .. N : ss[k] # <<>>) => FlattenSeq(ss) # <<>>
<1> DEFINE From(s) == ComeFrom(s, ss, N)
           Filled(m, s) == (\E k \in 1 .. m : ss[k] # <<>>) => s # <<>>
           G == {x \in (1 .. N) \X Seq(S) : From(x[2]) /\ Filled(x[1], x[2])}
<1>0. ss \in Seq(Seq(S)) /\ Len(ss) = N
  <2>1. ss \in Seq(Seq(S))
    BY SeqDef
  <2> QED BY <2>1, LenProperties
<1>1. CASE N = 0
  <2>1. FlattenSeq(ss) = ss
    BY <1>0, <1>1 DEF FlattenSeq
  <2>2. ss = <<>>
    BY <1>0, <1>1, EmptySeq
  <2> QED BY <1>1, <2>1, <2>2, EmptySeq DEF ComeFrom
<1>2. CASE N # 0
  <2>1. <<1, ss[1]>> \in G
    <3>1. ss[1] \in Seq(S) /\ 1 \in 1 .. N
      BY <1>2
    <3>2. From(ss[1]) /\ Filled(1, ss[1])
      BY <3>1 DEF ComeFrom
    <3> HIDE DEF From, Filled
    <3> QED BY <3>1, <3>2
  <2>2. ASSUME NEW m \in 2 .. N, NEW s, <<m - 1, s>> \in G PROVE <<m, s \o ss[m]>> \in G
    <3>1. s \in Seq(S) /\ From(s) /\ Filled(m - 1, s) /\ ss[m] \in Seq(S) /\ m \in 1 .. N
      BY <2>2
    <3> DEFINE t == s \o ss[m]
    <3>0. t \in Seq(S) /\ Joins(t, s, ss[m])
      BY <3>1, ConcatElements
    <3> HIDE DEF t
    <3>2. /\ t \in Seq(S) /\ Len(t) = Len(s) + Len(ss[m])
          /\ \A k \in 1 .. Len(s) : t[k] = s[k]
          /\ \A k \in 1 .. Len(ss[m]) : t[Len(s) + k] = ss[m][k]
          /\ \A k \in 1 .. Len(s) + Len(ss[m]) :
                k \in 1 .. Len(s) \/ \E j \in 1 .. Len(ss[m]) : k = Len(s) + j
      BY <3>0 DEF Joins
    <3>3. From(t)
      <4> USE DEF ComeFrom
      <4> TAKE j \in 1 .. Len(t)
      <4>1. CASE j \in 1 .. Len(s)
        BY <3>1, <3>2, <4>1
      <4>2. CASE j \notin 1 .. Len(s)
        <5>1. PICK h \in 1 .. Len(ss[m]) : j = Len(s) + h
          BY <3>2, <4>2
        <5> QED BY <3>1, <3>2, <5>1
      <4> QED BY <4>1, <4>2
    <3>4. Filled(m, t)
      <4> SUFFICES ASSUME NEW k \in 1 .. m, ss[k] # <<>> PROVE t # <<>>
        OBVIOUS
      <4>1. Len(s) \in Nat /\ Len(ss[m]) \in Nat
        BY <3>1, LenProperties
      <4>2. CASE k = m
        <5>1. Len(ss[m]) # 0
          BY <3>1, <4>2, EmptySeq
        <5>2. Len(t) # 0
          BY <3>2, <4>1, <5>1
        <5> QED BY <5>2, EmptySeq
      <4>3. CASE k # m
        <5>1. s # <<>>
          BY <3>1, <4>3
        <5>2. Len(s) # 0
          BY <3>1, <5>1, EmptySeq
        <5>3. Len(t) # 0
          BY <3>2, <4>1, <5>2
        <5> QED BY <5>3, EmptySeq
      <4> QED BY <4>2, <4>3
    <3> HIDE DEF From, Filled
    <3> QED BY <3>1, <3>2, <3>3, <3>4 DEF t
  <2> HIDE DEF G
  <2>3. <<N, FlattenSeq(ss)>> \in G
    BY <1>0, <1>2, <2>1, <2>2, FlattenInduction
  <2> USE DEF G
  <2>4. FlattenSeq(ss) \in Seq(S) /\ From(FlattenSeq(ss)) /\ Filled(N, FlattenSeq(ss))
    BY <2>3
  <2> QED BY <2>4
<1> QED BY <1>1, <1>2

-----------------------------------------------------------------------------
(***************************************************************************)
(* Labels in a sequence of instructions.                                   *)
(***************************************************************************)
HasLabel(s, l) == \E k \in 1 .. Len(s) : l \in s[k].labels

OneHasLabel(s, l) ==
    \E k \in 1 .. Len(s) :
        /\ l \in s[k].labels
        /\ \A j \in 1 .. Len(s) : l \in s[j].labels => j = k

LEMMA ConcatLabels ==
    ASSUME NEW s \in Seq(Instruction), NEW t \in Seq(Instruction), NEW l
    PROVE  /\ ~ HasLabel(s, l) /\ ~ HasLabel(t, l) => ~ HasLabel(s \o t, l)
           /\ OneHasLabel(s, l) /\ ~ HasLabel(t, l) => OneHasLabel(s \o t, l)
           /\ ~ HasLabel(s, l) /\ OneHasLabel(t, l) => OneHasLabel(s \o t, l)
<1> DEFINE u == s \o t
<1>0. Joins(u, s, t)
  BY ConcatElements
<1> HIDE DEF u
<1>1. /\ Len(u) = Len(s) + Len(t)
      /\ \A k \in 1 .. Len(s) : u[k] = s[k]
      /\ \A k \in 1 .. Len(t) : u[Len(s) + k] = t[k]
      /\ \A k \in 1 .. Len(s) + Len(t) :
            k \in 1 .. Len(s) \/ \E j \in 1 .. Len(t) : k = Len(s) + j
  BY <1>0 DEF Joins
<1>2. Len(s) \in Nat /\ Len(t) \in Nat
  BY LenProperties
<1>3. \A k \in 1 .. Len(u) : l \in u[k].labels =>
          \/ k \in 1 .. Len(s) /\ l \in s[k].labels
          \/ \E j \in 1 .. Len(t) : k = Len(s) + j /\ l \in t[j].labels
  <2> SUFFICES ASSUME NEW k \in 1 .. Len(u), l \in u[k].labels, k \notin 1 .. Len(s)
               PROVE  \E j \in 1 .. Len(t) : k = Len(s) + j /\ l \in t[j].labels
    BY <1>1
  <2>1. PICK j \in 1 .. Len(t) : k = Len(s) + j
    BY <1>1
  <2> QED BY <1>1, <2>1
<1>4. ~ HasLabel(s, l) /\ ~ HasLabel(t, l) => ~ HasLabel(u, l)
  BY <1>3 DEF HasLabel
<1>5. ASSUME OneHasLabel(s, l), ~ HasLabel(t, l) PROVE OneHasLabel(u, l)
  <2>1. PICK k \in 1 .. Len(s) : /\ l \in s[k].labels
                                 /\ \A j \in 1 .. Len(s) : l \in s[j].labels => j = k
    BY <1>5 DEF OneHasLabel
  <2>2. k \in 1 .. Len(u) /\ l \in u[k].labels
    BY <1>1, <1>2, <2>1
  <2>3. \A j \in 1 .. Len(u) : l \in u[j].labels => j = k
    BY <1>3, <1>5, <2>1 DEF HasLabel
  <2> QED BY <2>2, <2>3 DEF OneHasLabel
<1>6. ASSUME ~ HasLabel(s, l), OneHasLabel(t, l) PROVE OneHasLabel(u, l)
  <2>1. PICK k \in 1 .. Len(t) : /\ l \in t[k].labels
                                 /\ \A j \in 1 .. Len(t) : l \in t[j].labels => j = k
    BY <1>6 DEF OneHasLabel
  <2>2. Len(s) + k \in 1 .. Len(u) /\ l \in u[Len(s) + k].labels
    BY <1>1, <1>2, <2>1
  <2>3. \A j \in 1 .. Len(u) : l \in u[j].labels => j = Len(s) + k
    BY <1>3, <1>6, <2>1 DEF HasLabel
  <2> QED BY <2>2, <2>3 DEF OneHasLabel
<1> QED BY <1>4, <1>5, <1>6 DEF u

LEMMA FlattenLabels ==
    ASSUME NEW N \in Nat, NEW ss \in [1 .. N -> Seq(Instruction)], NEW l
    PROVE  /\ (\A k \in 1 .. N : ~ HasLabel(ss[k], l)) => ~ HasLabel(FlattenSeq(ss), l)
           /\ \A q \in 1 .. N :
                 OneHasLabel(ss[q], l) /\ (\A k \in 1 .. N : k # q => ~ HasLabel(ss[k], l))
                     => OneHasLabel(FlattenSeq(ss), l)
<1>1. ComeFrom(FlattenSeq(ss), ss, N)
  BY FlattenElements
<1>2. (\A k \in 1 .. N : ~ HasLabel(ss[k], l)) => ~ HasLabel(FlattenSeq(ss), l)
  BY <1>1 DEF HasLabel, ComeFrom
<1>3. ASSUME NEW q \in 1 .. N, OneHasLabel(ss[q], l),
             \A k \in 1 .. N : k # q => ~ HasLabel(ss[k], l)
      PROVE  OneHasLabel(FlattenSeq(ss), l)
  <2> DEFINE Good(m, s) == IF m < q THEN ~ HasLabel(s, l) ELSE OneHasLabel(s, l)
             G == {x \in (1 .. N) \X Seq(Instruction) : Good(x[1], x[2])}
  <2>0. Len(ss) = N
    <3>1. ss \in Seq(Seq(Instruction))
      BY SeqDef
    <3> QED BY <3>1, LenProperties
  <2>1. <<1, ss[1]>> \in G
    <3>1. ss[1] \in Seq(Instruction) /\ 1 \in 1 .. N
      OBVIOUS
    <3>2. Good(1, ss[1])
      BY <1>3, <3>1
    <3> HIDE DEF Good
    <3> QED BY <3>1, <3>2
  <2>2. ASSUME NEW m \in 2 .. N, NEW s, <<m - 1, s>> \in G PROVE <<m, s \o ss[m]>> \in G
    <3>1. s \in Seq(Instruction) /\ Good(m - 1, s) /\ ss[m] \in Seq(Instruction) /\ m \in 1 .. N
      BY <2>2
    <3>2. s \o ss[m] \in Seq(Instruction)
      BY <3>1, ConcatElements
    <3>3. Good(m, s \o ss[m])
      <4>1. CASE m < q
        <5>1. ~ HasLabel(s, l) /\ ~ HasLabel(ss[m], l)
          BY <1>3, <3>1, <4>1
        <5>2. ~ HasLabel(s \o ss[m], l)
          BY <3>1, <5>1, ConcatLabels
        <5> QED BY <4>1, <5>2
      <4>2. CASE m = q
        <5>1. ~ HasLabel(s, l) /\ OneHasLabel(ss[m], l)
          BY <1>3, <3>1, <4>2
        <5>2. OneHasLabel(s \o ss[m], l)
          BY <3>1, <5>1, ConcatLabels
        <5> QED BY <4>2, <5>2
      <4>3. CASE m > q
        <5>1. OneHasLabel(s, l) /\ ~ HasLabel(ss[m], l)
          BY <1>3, <3>1, <4>3
        <5>2. OneHasLabel(s \o ss[m], l)
          BY <3>1, <5>1, ConcatLabels
        <5> QED BY <4>3, <5>2
      <4> QED BY <4>1, <4>2, <4>3
    <3> HIDE DEF Good
    <3> QED BY <3>1, <3>2, <3>3
  <2> HIDE DEF G
  <2>3. <<N, FlattenSeq(ss)>> \in G
    <3>1. N \in Nat \ {0}
      BY <1>3
    <3> QED BY <2>0, <2>1, <2>2, <3>1, FlattenInduction
  <2> USE DEF G
  <2>4. Good(N, FlattenSeq(ss))
    BY <2>3
  <2> QED BY <2>4
<1> QED BY <1>2, <1>3

-----------------------------------------------------------------------------
(***************************************************************************)
(* What a splice is made of.                                               *)
(***************************************************************************)
LEMMA WithLabelsIs ==
    ASSUME NEW s \in Seq(Instruction), NEW ls \in SUBSET Names
    PROVE  /\ WithLabels(s, ls) \in Seq(Instruction)
           /\ Len(WithLabels(s, ls)) = Len(s)
           /\ \A k \in 1 .. Len(s) :
                 /\ WithLabels(s, ls)[k].op = s[k].op /\ WithLabels(s, ls)[k].arg = s[k].arg
                 /\ WithLabels(s, ls)[k].labels =
                       IF k = 1 THEN s[k].labels \cup ls ELSE s[k].labels
<1> DEFINE t == WithLabels(s, ls)
<1>0. Len(s) \in Nat /\ DOMAIN s = 1 .. Len(s) /\ \A k \in 1 .. Len(s) : s[k] \in Instruction
  BY LenProperties
<1>1. CASE s = <<>>
  <2>1. t = s /\ Len(s) = 0
    BY <1>1, EmptySeq DEF WithLabels
  <2> QED BY <2>1
<1>2. CASE s # <<>>
  <2>1. t = [s EXCEPT ![1] = [s[1] EXCEPT !.labels = s[1].labels \cup ls]]
    BY <1>2 DEF WithLabels
  <2> DEFINE x == [s[1] EXCEPT !.labels = s[1].labels \cup ls]
  <2>2. 1 \in 1 .. Len(s)
    BY <1>0, <1>2, EmptySeq
  <2>3. s[1] \in Instruction
    BY <1>0, <2>2
  <2>4. x \in Instruction /\ x.op = s[1].op /\ x.arg = s[1].arg /\ x.labels = s[1].labels \cup ls
    BY <2>3 DEF Instruction
  <2> HIDE DEF x
  <2>5. t = [k \in 1 .. Len(s) |-> IF k = 1 THEN x ELSE s[k]]
    BY <1>0, <2>1 DEF x
  <2> HIDE DEF t
  <2>6. t[1] = x /\ \A k \in 1 .. Len(s) : k # 1 => t[k] = s[k]
    BY <2>2, <2>5
  <2>7. t = [k \in 1 .. Len(s) |-> t[k]]
    BY <2>5
  <2>8. \A k \in 1 .. Len(s) : t[k] \in Instruction
    BY <1>0, <2>4, <2>6
  <2>9. t \in Seq(Instruction) /\ Len(t) = Len(s)
    BY <1>0, <2>7, <2>8, MapSeq
  <2> QED BY <2>4, <2>6, <2>9 DEF t
<1> QED BY <1>1, <1>2

SpliceType ==
    /\ prog \in Programs
    /\ instrs \in Seq(Instruction) /\ new_instrs \in Seq(Instruction)
    /\ i \in 1 .. Len(instrs) + 1
    /\ splices \in Nat /\ splice_id \in Nat

\* The assumptions, of the callee in hand.
CalleeType ==
    /\ callee.instrs \in Seq(Instruction) /\ callee.varnames \in Seq(Names)
    /\ \A k \in DOMAIN callee.instrs : callee.instrs[k].op \in PairedOps =>
          /\ (callee.instrs[k].arg[1] \div 16) + 1 \in DOMAIN callee.varnames
          /\ (callee.instrs[k].arg[1] % 16) + 1 \in DOMAIN callee.varnames
    /\ \A k \in DOMAIN callee.instrs : callee.instrs[k].labels \subseteq {Own} \X STRING
    /\ Targets(callee.instrs) \subseteq {Own} \X STRING
    /\ \A j, k \in DOMAIN callee.varnames : callee.varnames[j] = callee.varnames[k] => j = k
    /\ callee.argcount \in 0 .. Len(callee.varnames)

CalleeLabels ==
    /\ callee.instrs # <<>> /\ callee.instrs[Len(callee.instrs)].op # "RESUME"
    /\ \A l \in Targets(callee.instrs) : OnePlace(callee.instrs, {}, l)
    /\ \A k \in DOMAIN callee.instrs : <<Own, "end">> \notin callee.instrs[k].labels

LEMMA CalleeIs ==
    ASSUME SpliceType, NEW e, IsSpliced(e)
    PROVE  CalleeType /\ CalleeLabels
<1>1. PICK f \in DOMAIN prog.callees : ResolveGlobal(instrs[i].arg[2]) = Func(f)
  BY DEF IsSpliced, EligibleCallee, IsFunc
<1>2. callee = prog.callees[f]
  BY <1>1 DEF callee, Func
<1>3. prog \in Programs
  BY DEF SpliceType
<1>4. CalleeType
  BY <1>2, <1>3, ProgramAssumption DEF CalleeType, IsCode
<1>5. CalleeLabels
  BY <1>2, <1>3, LabelAssumption DEF CalleeLabels
<1> QED BY <1>4, <1>5

\* Pushes without labels, of the call from i to e.
ArgsType(args) ==
    /\ args \in Seq(Instruction)
    /\ \A k \in 1 .. Len(args) : /\ args[k].labels = {}
                                 /\ args[k].op \in SimpleArgOps \cup PairedArgOps
    /\ Len(ArgSources(args)) = callee.argcount

LEMMA ArgsAre ==
    ASSUME SpliceType, NEW e \in i + 1 .. Len(instrs), IsSpliced(e)
    PROVE  /\ ArgsType(Between(i, e))
           /\ i \in DOMAIN instrs /\ instrs[i].op = "LOAD_GLOBAL"
           /\ instrs[e].op = "CALL" /\ instrs[e].labels = {}
           /\ \A k \in i + 1 .. e - 1 :
                 instrs[k].labels = {} /\ instrs[k].op \in SimpleArgOps \cup PairedArgOps
<1> DEFINE args == Between(i, e)
<1>0. /\ instrs \in Seq(Instruction) /\ Len(instrs) \in Nat /\ DOMAIN instrs = 1 .. Len(instrs)
      /\ i \in Nat /\ i >= 1
  BY LenProperties DEF SpliceType
<1>1. /\ args \in Seq(Instruction)
      /\ Len(args) = e - 1 - i
      /\ \A k \in 1 .. Len(args) : args[k] = instrs[i + k]
  <2>1. args = SubSeq(instrs, i + 1, e - 1) /\ i + 1 \in 1 .. Len(instrs) + 1
        /\ e - 1 \in i .. Len(instrs)
    BY <1>0 DEF Between
  <2> HIDE DEF args
  <2>2. /\ args \in Seq(Instruction)
        /\ Len(args) = IF i + 1 <= e - 1 THEN e - 1 - (i + 1) + 1 ELSE 0
        /\ \A k \in 1 .. e - 1 - (i + 1) + 1 : args[k] = instrs[i + 1 + k - 1]
    BY <1>0, <2>1, SubSeqProperties
  <2>3. Len(args) = e - 1 - i
    BY <1>0, <2>2
  <2>4. ASSUME NEW k \in 1 .. Len(args) PROVE args[k] = instrs[i + k]
    <3>1. k \in 1 .. e - 1 - (i + 1) + 1 /\ i + 1 + k - 1 = i + k
      BY <1>0, <2>3
    <3> QED BY <2>2, <3>1
  <2> QED BY <2>2, <2>3, <2>4
<1>2. /\ IsArgRun(args) /\ instrs[i].op = "LOAD_GLOBAL"
      /\ instrs[e].op = "CALL" /\ instrs[e].labels = {}
      /\ instrs[e].arg[1] = Len(ArgSources(args))
      /\ callee.argcount = instrs[e].arg[1]
  BY DEF IsSpliced, MatchCallSite, EligibleCallee
<1> HIDE DEF args
<1>3. \A k \in 1 .. Len(args) : /\ args[k].labels = {}
                                /\ args[k].op \in SimpleArgOps \cup PairedArgOps
  BY <1>1, <1>2, LenProperties DEF IsArgRun
<1>4. ArgsType(args)
  BY <1>1, <1>2, <1>3 DEF ArgsType
<1>5. ASSUME NEW k \in i + 1 .. e - 1
      PROVE  instrs[k].labels = {} /\ instrs[k].op \in SimpleArgOps \cup PairedArgOps
  <2>1. k - i \in 1 .. Len(args) /\ i + (k - i) = k
    BY <1>0, <1>1
  <2>2. args[k - i] = instrs[k]
    BY <1>1, <2>1
  <2> QED BY <1>3, <2>1, <2>2
<1>6. i \in DOMAIN instrs
  BY <1>0
<1> QED BY <1>2, <1>4, <1>5, <1>6 DEF args

\* The one instruction that pushes an argument is a load of the caller's.
LEMMA SourcesAre ==
    ASSUME NEW args, ArgsType(args)
    PROVE  \A j \in 1 .. callee.argcount :
              \A x \in ArgSources(args)[j] : x \in Instruction /\ x.op \in SimpleArgOps
<1> DEFINE N == Len(args)
           Loads == {x \in Instruction : x.op \in SimpleArgOps}
           ss == [k \in DOMAIN args |-> SourcesOf(args[k])]
<1>1. N \in Nat /\ DOMAIN args = 1 .. N /\ \A k \in 1 .. N : args[k] \in Instruction
  BY LenProperties DEF ArgsType
<1>2. ASSUME NEW k \in 1 .. N PROVE SourcesOf(args[k]) \in Seq(SUBSET Loads)
  <2>1. CASE args[k].op \in PairedArgOps
    BY <2>1 DEF SourcesOf
  <2>2. CASE args[k].op \notin PairedArgOps
    <3>1. args[k] \in Loads
      BY <1>1, <2>2 DEF ArgsType
    <3> HIDE DEF Loads
    <3> QED BY <2>2, <3>1 DEF SourcesOf
  <2> QED BY <2>1, <2>2
<1> HIDE DEF Loads
<1>3. ss \in [1 .. N -> Seq(SUBSET Loads)]
  BY <1>1, <1>2
<1>4. FlattenSeq(ss) \in Seq(SUBSET Loads)
  <2> HIDE DEF ss, N
  <2> QED BY <1>1, <1>3, FlattenElements
<1>5. ArgSources(args) = FlattenSeq(ss)
  BY DEF ArgSources
<1>6. \A j \in 1 .. callee.argcount : ArgSources(args)[j] \in SUBSET Loads
  BY <1>4, <1>5, LenProperties DEF ArgsType
<1> QED BY <1>6 DEF Loads

LEMMA IndexIs ==
    ASSUME CalleeType, NEW v, IsParam(v)
    PROVE  IndexOf(v) \in 1 .. callee.argcount /\ callee.varnames[IndexOf(v)] = v
<1>1. PICK k \in 1 .. callee.argcount : callee.varnames[k] = v
  BY DEF IsParam, Param
<1>2. k \in DOMAIN callee.varnames
  BY LenProperties DEF CalleeType
<1>3. IndexOf(v) \in DOMAIN callee.varnames /\ callee.varnames[IndexOf(v)] = v
  BY <1>1, <1>2 DEF IndexOf
<1>4. IndexOf(v) = k
  BY <1>1, <1>2, <1>3 DEF CalleeType
<1> QED BY <1>3, <1>4

\* An instruction that carries no label and does not jump.
Inert(x) == x \in Instruction /\ x.labels = {} /\ x.op \notin JumpOps

LEMMA LocalAccessInert ==
    ASSUME SpliceType, CalleeType, NEW args, ArgsType(args),
           NEW op \in LocalOps, NEW v \in Names
    PROVE  Inert(LocalAccess(op, v, args))
<1>1. Renamed(v) \in Names
  BY DEF Renamed, Names, SpliceType
<1>2. op \in Ops /\ op \notin JumpOps
  BY DEF Ops, LocalOps, JumpOps
<1>3. Inert(Instr(op, Renamed(v)))
  BY <1>1, <1>2 DEF Inert, Instr, Instruction
<1>4. ASSUME Propagated(v, args)
      PROVE  LET load == CHOOSE x \in ArgSources(args)[IndexOf(v)] : TRUE
             IN  Inert(Instr(load.op, load.arg))
  <2> DEFINE load == CHOOSE x \in ArgSources(args)[IndexOf(v)] : TRUE
  <2>1. IsParam(v) /\ ArgSources(args)[IndexOf(v)] # {}
    BY <1>4 DEF Propagated
  <2>2. load \in ArgSources(args)[IndexOf(v)]
    BY <2>1
  <2> HIDE DEF load
  <2>3. load \in Instruction /\ load.op \in SimpleArgOps
    BY <2>1, <2>2, IndexIs, SourcesAre
  <2>4. load.op \in Ops /\ load.op \notin JumpOps /\ load.arg \in Names
    BY <2>3 DEF Instruction, SimpleArgOps, JumpOps
  <2>5. Inert(Instr(load.op, load.arg))
    BY <2>4 DEF Inert, Instr, Instruction
  <2> QED BY <2>5 DEF load
<1> QED BY <1>3, <1>4 DEF LocalAccess

\* An instruction of the callee becomes instructions without labels; what jumps goes
\* to the end of the splice, or to where the callee's jump goes.
Becomes(x, s) ==
    /\ s \in Seq(Instruction)
    /\ x.op = "RESUME" <=> s = <<>>
    /\ \A h \in 1 .. Len(s) :
          /\ s[h].labels = {}
          /\ s[h].op \in JumpOps =>
                s[h].arg = EndLabel \/ (x.op \in JumpOps /\ s[h].arg = Mapped(x.arg))

LEMMA OneInert ==
    ASSUME NEW x, x.op # "RESUME", NEW y \in Instruction, y.labels = {},
           y.op \in JumpOps =>
                y.arg = EndLabel \/ (x.op \in JumpOps /\ y.arg = Mapped(x.arg))
    PROVE  Becomes(x, <<y>>)
<1>1. <<y>> \in Seq(Instruction) /\ <<y>> # <<>> /\ Len(<<y>>) = 1 /\ <<y>>[1] = y
  OBVIOUS
<1>2. \A h \in 1 .. Len(<<y>>) : h = 1
  OBVIOUS
<1> QED BY <1>1, <1>2 DEF Becomes

LEMMA TwoInert ==
    ASSUME NEW x, x.op # "RESUME", NEW s, s = [h \in 1 .. 2 |-> s[h]],
           \A h \in 1 .. 2 :
              /\ s[h] \in Instruction /\ s[h].labels = {}
              /\ s[h].op \in JumpOps => s[h].arg = EndLabel
    PROVE  Becomes(x, s)
<1>1. s \in Seq(Instruction) /\ Len(s) = 2
  BY MapSeq
<1>2. s # <<>>
  BY <1>1, EmptySeq
<1> QED BY <1>1, <1>2 DEF Becomes

LEMMA MappedType ==
    ASSUME SpliceType
    PROVE  EndLabel \in Names /\ \A l \in Names : Mapped(l) \in Names
<1>1. splices \in Int
  BY DEF SpliceType
<1>2. ASSUME NEW l \in Names PROVE Mapped(l) \in Names
  BY <1>1 DEF Mapped, Names
<1>3. EndLabel \in Names
  BY <1>1, EndAssumption DEF EndLabel, Names
<1> QED BY <1>2, <1>3

LEMMA SplicedBecomes ==
    ASSUME SpliceType, CalleeType, NEW args, ArgsType(args),
           NEW k \in DOMAIN callee.instrs
    PROVE  Becomes(callee.instrs[k], Spliced(callee.instrs[k], args))
<1> DEFINE x == callee.instrs[k]
           s == Spliced(x, args)
<1>1. x \in Instruction
  BY LenProperties DEF CalleeType
<1>2. x.op \in Ops /\ x.arg \in Names
  BY <1>1 DEF Instruction
<1>3. x.op \in PairedOps => /\ (x.arg[1] \div 16) + 1 \in DOMAIN callee.varnames
                            /\ (x.arg[1] % 16) + 1 \in DOMAIN callee.varnames
  BY DEF CalleeType
<1> HIDE DEF x
\* The cases exclude one another.
<1>11. /\ "RESUME" \notin PairedOps \cup LocalOps \cup JumpOps
       /\ "RETURN_CONST" \notin PairedOps \cup LocalOps \cup JumpOps
       /\ "RETURN_VALUE" \notin PairedOps \cup LocalOps \cup JumpOps
       /\ PairedOps \cap LocalOps = {} /\ PairedOps \cap JumpOps = {}
       /\ LocalOps \cap JumpOps = {}
  BY DEF PairedOps, LocalOps, JumpOps
<1>4. CASE x.op = "RESUME"
  <2>1. s = <<>>
    BY <1>4, <1>11, Zenon DEF Spliced
  <2> QED BY <1>4, <2>1, EmptySeq DEF Becomes, x
<1>5. CASE x.op \in PairedOps
  <2> DEFINE v(h) == HalfNames(x.arg, callee.varnames)[h]
             o(h) == Halves(x.op)[h]
  <2>1. s = [h \in 1 .. 2 |-> LocalAccess(o(h), v(h), args)]
    BY <1>5, <1>11, Zenon DEF Spliced
  <2>2. \A h \in 1 .. 2 : v(h) \in Names
    <3>1. \A j \in DOMAIN callee.varnames : callee.varnames[j] \in Names
      BY LenProperties DEF CalleeType
    <3>2. v(1) \in Names /\ v(2) \in Names
      BY <1>3, <1>5, <3>1 DEF HalfNames
    <3> QED BY <3>2
  <2>3. \A h \in 1 .. 2 : o(h) \in LocalOps
    <3>1. o(1) \in LocalOps /\ o(2) \in LocalOps
      BY <1>5 DEF PairedOps, Halves, LocalOps
    <3> QED BY <3>1
  <2> HIDE DEF v, o
  <2>4. \A h \in 1 .. 2 : Inert(LocalAccess(o(h), v(h), args))
    BY <2>2, <2>3, LocalAccessInert
  <2> HIDE DEF s
  <2>5. s = [h \in 1 .. 2 |-> s[h]] /\ \A h \in 1 .. 2 : s[h] = LocalAccess(o(h), v(h), args)
    BY <2>1
  <2>6. \A h \in 1 .. 2 : s[h] \in Instruction /\ s[h].labels = {} /\ s[h].op \notin JumpOps
    BY <2>4, <2>5 DEF Inert
  <2>7. x.op # "RESUME"
    BY <1>5 DEF PairedOps
  <2>8. Becomes(x, s)
    BY <2>5, <2>6, <2>7, TwoInert
  <2> QED BY <2>8 DEF x, s
<1>6. CASE x.op = "RETURN_CONST"
  <2> DEFINE y == Instr("LOAD_CONST", x.arg)
             z == Instr("JUMP", EndLabel)
  <2>1. s = <<y, z>>
    BY <1>6, <1>11, Zenon DEF Spliced
  <2>2. y \in Instruction /\ y.labels = {} /\ y.op \notin JumpOps
    BY <1>2 DEF Instr, Instruction, Ops, JumpOps
  <2>3. z \in Instruction /\ z.labels = {} /\ z.arg = EndLabel
    BY MappedType DEF Instr, Instruction, Ops, JumpOps
  <2> HIDE DEF y, z, s
  <2>4. s = [h \in 1 .. 2 |-> s[h]] /\ s[1] = y /\ s[2] = z
    BY <2>1
  <2>5. \A h \in 1 .. 2 : s[h] \in {y, z}
    BY <2>4
  <2>6. Becomes(x, s)
    BY <1>6, <2>2, <2>3, <2>4, <2>5, TwoInert
  <2> QED BY <2>6 DEF x, s
<1>7. CASE x.op = "RETURN_VALUE"
  <2> DEFINE z == Instr("JUMP", EndLabel)
  <2>1. s = <<z>>
    BY <1>7, <1>11, Zenon DEF Spliced
  <2>2. z \in Instruction /\ z.labels = {} /\ z.arg = EndLabel
    BY MappedType DEF Instr, Instruction, Ops, JumpOps
  <2> HIDE DEF z, s
  <2>3. Becomes(x, s)
    BY <1>7, <2>1, <2>2, OneInert
  <2> QED BY <2>3 DEF x, s
<1>8. CASE x.op \in LocalOps
  <2> DEFINE y == LocalAccess(x.op, x.arg, args)
  <2>1. s = <<y>>
    BY <1>8, <1>11, Zenon DEF Spliced
  <2>2. Inert(y)
    BY <1>2, <1>8, LocalAccessInert
  <2> HIDE DEF y, s
  <2>3. Becomes(x, s)
    BY <1>8, <1>11, <2>1, <2>2, OneInert DEF Inert
  <2> QED BY <2>3 DEF x, s
<1>9. CASE x.op \in JumpOps
  <2> DEFINE y == Instr(x.op, Mapped(x.arg))
  <2>1. s = <<y>>
    BY <1>9, <1>11, Zenon DEF Spliced
  <2>2. y \in Instruction /\ y.labels = {} /\ y.arg = Mapped(x.arg)
    BY <1>2, MappedType DEF Instr, Instruction
  <2> HIDE DEF y, s
  <2>3. Becomes(x, s)
    BY <1>9, <1>11, <2>1, <2>2, OneInert
  <2> QED BY <2>3 DEF x, s
<1>10. CASE x.op \notin PairedOps \cup LocalOps \cup JumpOps
                        \cup {"RESUME", "RETURN_CONST", "RETURN_VALUE"}
  <2> DEFINE y == Instr(x.op, x.arg)
  <2>1. s = <<y>>
    BY <1>10, Zenon DEF Spliced
  <2>2. y \in Instruction /\ y.labels = {} /\ y.op = x.op
    BY <1>2 DEF Instr, Instruction
  <2> HIDE DEF y, s
  <2>3. Becomes(x, s)
    BY <1>10, <2>1, <2>2, OneInert
  <2> QED BY <2>3 DEF x, s
<1> QED BY <1>4, <1>5, <1>6, <1>7, <1>8, <1>9, <1>10

-----------------------------------------------------------------------------
(***************************************************************************)
(* Where the labels of the callee go.                                      *)
(***************************************************************************)
IsResume(m) == callee.instrs[m].op = "RESUME"

\* Nothing but RESUME from q to k.
Carried(q, k) == q <= k /\ \A m \in q .. k - 1 : IsResume(m)

LEMMA LabelsForIs ==
    ASSUME SpliceType, CalleeType, CalleeLabels, NEW k \in DOMAIN callee.instrs
    PROVE  /\ LabelsFor(k) \in SUBSET Names
           /\ \A y \in LabelsFor(k) :
                 \E j \in DOMAIN callee.instrs : \E l \in callee.instrs[j].labels :
                    y = Mapped(l) /\ Carried(j, k)
           /\ \A j \in DOMAIN callee.instrs : \A l \in callee.instrs[j].labels :
                 Carried(j, k) => Mapped(l) \in LabelsFor(k)
           /\ \A y \in LabelsFor(k) : y[1] = splices /\ y # EndLabel
<1> DEFINE N == Len(callee.instrs)
           C == {j \in 1 .. k : \A m \in j .. k - 1 : callee.instrs[m].op = "RESUME"}
           U == UNION {callee.instrs[j].labels : j \in C}
<1>1. N \in Nat /\ DOMAIN callee.instrs = 1 .. N /\ k \in 1 .. N
  BY LenProperties DEF CalleeType
<1>2. LabelsFor(k) = {Mapped(l) : l \in U}
  BY DEF LabelsFor
<1>3. \A l \in U : \E j \in 1 .. N : l \in callee.instrs[j].labels /\ Carried(j, k)
  BY <1>1 DEF Carried, IsResume
<1>4. ASSUME NEW j \in 1 .. N, NEW l \in callee.instrs[j].labels, Carried(j, k)
      PROVE  l \in U
  <2>1. j \in C
    BY <1>1, <1>4 DEF Carried, IsResume
  <2> HIDE DEF C
  <2> QED BY <2>1
<1> HIDE DEF U, N
<1>5. \A l \in U : l \in {Own} \X STRING /\ l # <<Own, "end">>
  BY <1>1, <1>3 DEF CalleeType, CalleeLabels
<1>6. \A l \in U : l \in Names
  BY <1>5 DEF Names, Own
<1>7. \A l \in U : Mapped(l) \in Names
  BY <1>6, MappedType
<1>8. \A l \in U : Mapped(l)[1] = splices /\ Mapped(l) # EndLabel
  <2> TAKE l \in U
  <2>1. l[2] # "end"
    BY <1>5
  <2> QED BY <2>1 DEF Mapped, EndLabel
<1>9. LabelsFor(k) \in SUBSET Names
  BY <1>2, <1>7
<1>10. \A y \in LabelsFor(k) : y[1] = splices /\ y # EndLabel
  BY <1>2, <1>8
<1>11. \A y \in LabelsFor(k) :
          \E j \in DOMAIN callee.instrs : \E l \in callee.instrs[j].labels :
             y = Mapped(l) /\ Carried(j, k)
  BY <1>1, <1>2, <1>3
<1>12. \A j \in DOMAIN callee.instrs : \A l \in callee.instrs[j].labels :
          Carried(j, k) => Mapped(l) \in LabelsFor(k)
  BY <1>1, <1>2, <1>4
<1> QED BY <1>9, <1>10, <1>11, <1>12

\* The label of a jump of the callee goes to one instruction that is not a RESUME.
LEMMA LabelGoes ==
    ASSUME SpliceType, CalleeType, CalleeLabels, NEW l \in Targets(callee.instrs)
    PROVE  \E r \in DOMAIN callee.instrs :
              /\ ~ IsResume(r) /\ Mapped(l) \in LabelsFor(r)
              /\ \A k \in DOMAIN callee.instrs :
                    Mapped(l) \in LabelsFor(k) /\ ~ IsResume(k) => k = r
<1> DEFINE N == Len(callee.instrs)
<1>1. N \in Nat /\ DOMAIN callee.instrs = 1 .. N /\ N # 0
  BY LenProperties, EmptySeq DEF CalleeType, CalleeLabels
<1>2. PICK q \in Places(callee.instrs, {}, l) : Places(callee.instrs, {}, l) = {q}
  BY DEF CalleeLabels, OnePlace
<1>3. q \in 1 .. N /\ l \in callee.instrs[q].labels
      /\ \A j \in 1 .. N : l \in callee.instrs[j].labels => j = q
  <2>1. q \in 1 .. N + 1 /\ l \in IF q \in 1 .. N THEN callee.instrs[q].labels ELSE {}
    BY <1>1, <1>2 DEF Places
  <2>2. ASSUME NEW j \in 1 .. N, l \in callee.instrs[j].labels PROVE j = q
    <3>1. j \in Places(callee.instrs, {}, l)
      BY <1>1, <2>2 DEF Places
    <3> QED BY <1>2, <3>1
  <2> QED BY <2>1, <2>2
<1>4. ~ IsResume(N)
  BY DEF CalleeLabels, IsResume
<1> HIDE DEF N
<1> DEFINE R == {k \in q .. N : ~ IsResume(k)}
<1>5. R \in SUBSET Nat /\ R # {}
  <2>1. N \in R
    BY <1>1, <1>3, <1>4
  <2>2. \A k \in R : k \in Nat
    BY <1>1, <1>3
  <2> QED BY <2>1, <2>2
<1>6. PICK r \in R : \A k \in R : r <= k
  <2> HIDE DEF R
  <2> QED BY <1>5, LeastNumber
<1>7. r \in 1 .. N /\ q <= r /\ ~ IsResume(r)
  BY <1>1, <1>3
<1>8. Carried(q, r)
  <2> SUFFICES ASSUME NEW m \in q .. r - 1 PROVE IsResume(m)
    BY <1>7 DEF Carried
  <2>1. m \in q .. N /\ ~ (r <= m)
    BY <1>1, <1>3, <1>7
  <2> QED BY <1>6, <2>1
<1>9. Mapped(l) \in LabelsFor(r)
  BY <1>1, <1>3, <1>7, <1>8, LabelsForIs
<1>10. ASSUME NEW k \in 1 .. N, Mapped(l) \in LabelsFor(k), ~ IsResume(k) PROVE k = r
  <2>1. PICK j \in 1 .. N : \E x \in callee.instrs[j].labels : Mapped(l) = Mapped(x) /\ Carried(j, k)
    BY <1>1, <1>10, LabelsForIs
  <2>2. PICK x \in callee.instrs[j].labels : Mapped(l) = Mapped(x) /\ Carried(j, k)
    BY <2>1
  <2>3. x \in {Own} \X STRING /\ l \in {Own} \X STRING
    BY <1>1, <2>1, <2>2 DEF CalleeType
  <2>4. x[2] = l[2]
    BY <2>2 DEF Mapped
  <2>5. x = l
    BY <2>3, <2>4
  <2>6. j = q
    BY <1>3, <2>2, <2>5
  <2>7. Carried(q, k)
    BY <2>2, <2>6
  <2>8. k \in R
    BY <1>1, <1>3, <1>10, <2>7 DEF Carried
  <2>9. r <= k
    BY <1>6, <2>8
  <2>10. ~ (r \in q .. k - 1)
    BY <1>7, <2>7 DEF Carried
  <2> QED BY <1>1, <1>3, <1>7, <2>9, <2>10
<1> QED BY <1>1, <1>7, <1>9, <1>10

-----------------------------------------------------------------------------
(***************************************************************************)
(* The splice.                                                             *)
(***************************************************************************)
\* Its labels are new, and each of its jumps goes to one place in it, or to its end.
IsSplice(s) ==
    /\ s \in Seq(Instruction) /\ s # <<>>
    /\ \A k \in 1 .. Len(s) : \A y \in s[k].labels : y[1] = splices /\ y # EndLabel
    /\ \A k \in 1 .. Len(s) : s[k].op \in JumpOps =>
          s[k].arg = EndLabel \/ (s[k].arg[1] = splices /\ OneHasLabel(s, s[k].arg))

LEMMA BodyIs ==
    ASSUME SpliceType, CalleeType, CalleeLabels, NEW args, ArgsType(args)
    PROVE  IsSplice(Body(args))
<1> DEFINE N == Len(callee.instrs)
           new(k) == Spliced(callee.instrs[k], args)
           part(k) == WithLabels(new(k), LabelsFor(k))
           ss == [k \in DOMAIN callee.instrs |-> part(k)]
           B == FlattenSeq(ss)
<1>1. N \in Nat /\ DOMAIN callee.instrs = 1 .. N /\ N # 0
  BY LenProperties, EmptySeq DEF CalleeType, CalleeLabels
<1>2. Body(args) = B
  BY DEF Body
<1>3. \A k \in 1 .. N : Becomes(callee.instrs[k], new(k))
  BY <1>1, SplicedBecomes
<1> HIDE DEF new, N
<1>4. ASSUME NEW k \in 1 .. N
      PROVE  /\ new(k) \in Seq(Instruction) /\ part(k) \in Seq(Instruction)
             /\ Len(part(k)) = Len(new(k)) /\ Len(new(k)) \in Nat
             /\ Len(new(k)) = 0 <=> IsResume(k)
             /\ \A h \in 1 .. Len(new(k)) :
                   /\ part(k)[h].op = new(k)[h].op /\ part(k)[h].arg = new(k)[h].arg
                   /\ part(k)[h].labels = IF h = 1 THEN LabelsFor(k) ELSE {}
  <2>1. new(k) \in Seq(Instruction) /\ (IsResume(k) <=> new(k) = <<>>)
        /\ \A h \in 1 .. Len(new(k)) : new(k)[h].labels = {}
    BY <1>3 DEF Becomes, IsResume
  <2>2. Len(new(k)) \in Nat /\ (Len(new(k)) = 0 <=> IsResume(k))
    BY <2>1, LenProperties, EmptySeq
  <2>3. LabelsFor(k) \in SUBSET Names
    BY <1>1, LabelsForIs
  <2>4. /\ part(k) \in Seq(Instruction) /\ Len(part(k)) = Len(new(k))
        /\ \A h \in 1 .. Len(new(k)) :
              /\ part(k)[h].op = new(k)[h].op /\ part(k)[h].arg = new(k)[h].arg
              /\ part(k)[h].labels =
                    IF h = 1 THEN new(k)[h].labels \cup LabelsFor(k) ELSE new(k)[h].labels
    BY <2>1, <2>3, WithLabelsIs
  <2> HIDE DEF part
  <2> QED BY <2>1, <2>2, <2>4
<1> HIDE DEF part
<1>5. /\ ss \in [1 .. N -> Seq(Instruction)]
      /\ \A k \in 1 .. N : ss[k] = part(k)
  BY <1>1, <1>4
<1> HIDE DEF ss
<1>6. B \in Seq(Instruction) /\ ComeFrom(B, ss, N)
      /\ ((\E k \in 1 .. N : ss[k] # <<>>) => B # <<>>)
  BY <1>1, <1>5, FlattenElements
<1>7. B # <<>>
  <2>1. ~ IsResume(N) /\ N \in 1 .. N
    BY <1>1 DEF CalleeLabels, IsResume, N
  <2>2. Len(ss[N]) # 0
    BY <1>4, <1>5, <2>1
  <2>3. ss[N] # <<>>
    BY <2>2, EmptySeq
  <2> QED BY <1>6, <2>1, <2>3
<1>8. ASSUME NEW j \in 1 .. Len(B)
      PROVE  \E k \in 1 .. N : \E h \in 1 .. Len(new(k)) : B[j] = part(k)[h]
  <2>1. PICK k \in 1 .. N : \E h \in 1 .. Len(ss[k]) : B[j] = ss[k][h]
    BY <1>6, <1>8 DEF ComeFrom
  <2> QED BY <1>4, <1>5, <2>1
<1>9. ASSUME NEW j \in 1 .. Len(B), NEW y \in B[j].labels
      PROVE  y[1] = splices /\ y # EndLabel
  <2>1. PICK k \in 1 .. N : \E h \in 1 .. Len(new(k)) : B[j] = part(k)[h]
    BY <1>8
  <2>2. y \in LabelsFor(k)
    BY <1>4, <1>9, <2>1
  <2> QED BY <1>1, <2>2, LabelsForIs
<1>10. ASSUME NEW l \in Targets(callee.instrs) PROVE OneHasLabel(B, Mapped(l))
  <2>1. PICK r \in 1 .. N : /\ ~ IsResume(r) /\ Mapped(l) \in LabelsFor(r)
                            /\ \A k \in 1 .. N :
                                  Mapped(l) \in LabelsFor(k) /\ ~ IsResume(k) => k = r
    BY <1>1, LabelGoes
  <2>2. OneHasLabel(ss[r], Mapped(l))
    <3>1. 1 \in 1 .. Len(new(r)) /\ part(r)[1].labels = LabelsFor(r)
      BY <1>4, <2>1
    <3>2. \A h \in 1 .. Len(new(r)) : Mapped(l) \in part(r)[h].labels => h = 1
      BY <1>4
    <3> QED BY <1>4, <1>5, <2>1, <3>1, <3>2 DEF OneHasLabel
  <2>3. ASSUME NEW k \in 1 .. N, k # r PROVE ~ HasLabel(ss[k], Mapped(l))
    <3> SUFFICES ASSUME NEW h \in 1 .. Len(new(k)), Mapped(l) \in part(k)[h].labels
                 PROVE  FALSE
      BY <1>4, <1>5 DEF HasLabel
    <3>1. Len(new(k)) # 0 /\ Mapped(l) \in LabelsFor(k)
      BY <1>4
    <3> QED BY <1>4, <2>1, <2>3, <3>1
  <2> QED BY <1>1, <1>5, <2>2, <2>3, FlattenLabels
<1>11. ASSUME NEW j \in 1 .. Len(B), B[j].op \in JumpOps
       PROVE  B[j].arg = EndLabel \/ (B[j].arg[1] = splices /\ OneHasLabel(B, B[j].arg))
  <2>1. PICK k \in 1 .. N : \E h \in 1 .. Len(new(k)) : B[j] = part(k)[h]
    BY <1>8
  <2>2. PICK h \in 1 .. Len(new(k)) : B[j].op = new(k)[h].op /\ B[j].arg = new(k)[h].arg
    BY <1>4, <2>1
  <2>3. \/ B[j].arg = EndLabel
        \/ callee.instrs[k].op \in JumpOps /\ B[j].arg = Mapped(callee.instrs[k].arg)
    BY <1>3, <1>11, <2>2 DEF Becomes
  <2>4. CASE callee.instrs[k].op \in JumpOps /\ B[j].arg = Mapped(callee.instrs[k].arg)
    <3>1. callee.instrs[k].arg \in Targets(callee.instrs)
      BY <1>1, <2>4 DEF Targets
    <3>2. Mapped(callee.instrs[k].arg)[1] = splices
      BY DEF Mapped
    <3> QED BY <1>10, <2>4, <3>1, <3>2
  <2> QED BY <2>3, <2>4
<1> QED BY <1>2, <1>6, <1>7, <1>9, <1>11 DEF IsSplice

-----------------------------------------------------------------------------
(***************************************************************************)
(* The pushes that are kept and the stores, before the body.               *)
(***************************************************************************)
AllInert(s) == s \in Seq(Instruction) /\ \A k \in 1 .. Len(s) : Inert(s[k])

LEMMA FlattenInert ==
    ASSUME NEW N \in Nat, NEW f, f = [k \in 1 .. N |-> f[k]], \A k \in 1 .. N : AllInert(f[k])
    PROVE  AllInert(FlattenSeq(f))
<1>1. f \in [1 .. N -> Seq(Instruction)]
  BY DEF AllInert
<1>2. FlattenSeq(f) \in Seq(Instruction) /\ ComeFrom(FlattenSeq(f), f, N)
  BY <1>1, FlattenElements
<1>3. \A j \in 1 .. Len(FlattenSeq(f)) : Inert(FlattenSeq(f)[j])
  BY <1>2 DEF ComeFrom, AllInert
<1> QED BY <1>2, <1>3 DEF AllInert

LEMMA NoneInert == AllInert(<<>>)
  BY EmptySeq DEF AllInert

LEMMA SingleInert ==
    ASSUME NEW x, Inert(x)
    PROVE  AllInert(<<x>>)
<1>1. <<x>> \in Seq(Instruction) /\ Len(<<x>>) = 1 /\ <<x>>[1] = x
  BY DEF Inert
<1>2. \A k \in 1 .. Len(<<x>>) : <<x>>[k] = x
  BY <1>1
<1> QED BY <1>1, <1>2 DEF AllInert

LEMMA KeptPushesInert ==
    ASSUME NEW args, ArgsType(args)
    PROVE  AllInert(KeptPushes(args))
<1> DEFINE f == [k \in DOMAIN args |->
                    IF args[k].op \in PairedArgOps \/ ~ Propagated(Param(Slot(args, k)), args)
                    THEN <<args[k]>> ELSE <<>>]
           N == Len(args)
<1>1. N \in Nat /\ DOMAIN args = 1 .. N /\ \A k \in 1 .. N : args[k] \in Instruction
  BY LenProperties DEF ArgsType
<1>2. ASSUME NEW k \in 1 .. N PROVE Inert(args[k])
  <2>1. args[k].labels = {} /\ args[k].op \in SimpleArgOps \cup PairedArgOps
    BY DEF ArgsType
  <2> QED BY <1>1, <2>1 DEF Inert, SimpleArgOps, PairedArgOps, JumpOps
<1>3. \A k \in 1 .. N : f[k] = <<args[k]>> \/ f[k] = <<>>
  BY <1>1
<1>4. f = [k \in 1 .. N |-> f[k]]
  BY <1>1
<1>5. KeptPushes(args) = FlattenSeq(f)
  BY DEF KeptPushes
<1> HIDE DEF f, N
<1>6. \A k \in 1 .. N : AllInert(f[k])
  BY <1>2, <1>3, NoneInert, SingleInert
<1> QED BY <1>1, <1>4, <1>5, <1>6, FlattenInert

LEMMA ArgStoresInert ==
    ASSUME SpliceType, CalleeType, NEW args
    PROVE  AllInert(ArgStores(args))
<1> DEFINE v(k) == Param(callee.argcount + 1 - k)
           f == [k \in 1 .. callee.argcount |->
                    IF Propagated(v(k), args) THEN <<>> ELSE <<Instr("STORE_FAST", Renamed(v(k)))>>]
           N == callee.argcount
<1>1. N \in Nat /\ N <= Len(callee.varnames) /\ DOMAIN callee.varnames = 1 .. Len(callee.varnames)
      /\ \A k \in DOMAIN callee.varnames : callee.varnames[k] \in Names
  BY LenProperties DEF CalleeType
<1>2. ASSUME NEW k \in 1 .. N PROVE Inert(Instr("STORE_FAST", Renamed(v(k))))
  <2>1. N + 1 - k \in DOMAIN callee.varnames
    BY <1>1, LenProperties DEF CalleeType
  <2>2. v(k) \in Names
    BY <1>1, <2>1 DEF Param
  <2> HIDE DEF v
  <2>3. Renamed(v(k)) \in Names
    BY <2>2 DEF Renamed, Names, SpliceType
  <2> QED BY <2>3 DEF Inert, Instr, Instruction, Ops, LocalOps, JumpOps
<1> DEFINE st(k) == Instr("STORE_FAST", Renamed(v(k)))
<1>3. \A k \in 1 .. N : f[k] = <<st(k)>> \/ f[k] = <<>>
  OBVIOUS
<1>4. f = [k \in 1 .. N |-> f[k]]
  OBVIOUS
<1>5. ArgStores(args) = FlattenSeq(f)
  BY DEF ArgStores
<1>7. \A k \in 1 .. N : Inert(st(k))
  BY <1>2
<1> HIDE DEF f, N, st
<1>6. \A k \in 1 .. N : AllInert(f[k])
  BY <1>3, <1>7, NoneInert, SingleInert
<1> QED BY <1>1, <1>4, <1>5, <1>6, FlattenInert

LEMMA InertConcat ==
    ASSUME NEW s, AllInert(s), NEW t, IsSplice(t)
    PROVE  IsSplice(s \o t)
<1> DEFINE u == s \o t
<1>1. s \in Seq(Instruction) /\ t \in Seq(Instruction) /\ Len(s) \in Nat /\ Len(t) \in Nat
  BY LenProperties DEF AllInert, IsSplice
<1>0. u \in Seq(Instruction) /\ Joins(u, s, t)
  BY <1>1, ConcatElements
<1>2. /\ u \in Seq(Instruction) /\ Len(u) = Len(s) + Len(t)
      /\ \A k \in 1 .. Len(s) : u[k] = s[k]
      /\ \A k \in 1 .. Len(t) : u[Len(s) + k] = t[k]
      /\ \A k \in 1 .. Len(s) + Len(t) :
            k \in 1 .. Len(s) \/ \E j \in 1 .. Len(t) : k = Len(s) + j
  BY <1>0 DEF Joins
<1>3. \A l : ~ HasLabel(s, l)
  BY DEF AllInert, Inert, HasLabel
<1>4. \A l : OneHasLabel(t, l) => OneHasLabel(u, l)
  BY <1>1, <1>3, ConcatLabels
<1> HIDE DEF u
<1>5. u # <<>>
  <2>1. Len(t) # 0
    BY <1>1, EmptySeq DEF IsSplice
  <2>2. Len(u) # 0
    BY <1>1, <1>2, <2>1
  <2> QED BY <2>2, EmptySeq
<1>6. ASSUME NEW k \in 1 .. Len(u)
      PROVE  \/ Inert(u[k])
             \/ \E j \in 1 .. Len(t) : u[k] = t[j]
  <2>1. CASE k \in 1 .. Len(s)
    BY <1>2, <2>1 DEF AllInert
  <2>2. CASE k \notin 1 .. Len(s)
    BY <1>2, <2>2
  <2> QED BY <2>1, <2>2
<1>7. \A k \in 1 .. Len(u) : \A y \in u[k].labels : y[1] = splices /\ y # EndLabel
  BY <1>6 DEF Inert, IsSplice
<1>8. ASSUME NEW k \in 1 .. Len(u), u[k].op \in JumpOps
      PROVE  u[k].arg = EndLabel \/ (u[k].arg[1] = splices /\ OneHasLabel(u, u[k].arg))
  <2>1. PICK j \in 1 .. Len(t) : u[k] = t[j]
    BY <1>6, <1>8 DEF Inert
  <2> QED BY <1>4, <1>8, <2>1 DEF IsSplice
<1> QED BY <1>2, <1>5, <1>7, <1>8 DEF IsSplice, u

LEMMA SpliceIs ==
    ASSUME SpliceType, NEW e \in i + 1 .. Len(instrs), IsSpliced(e)
    PROVE  IsSplice(Splice(Between(i, e)))
<1> DEFINE args == Between(i, e)
<1>1. CalleeType /\ CalleeLabels /\ ArgsType(args)
  BY CalleeIs, ArgsAre
<1> HIDE DEF args
<1>2. IsSplice(Body(args))
  BY <1>1, BodyIs
<1>3. AllInert(KeptPushes(args)) /\ AllInert(ArgStores(args))
  BY <1>1, KeptPushesInert, ArgStoresInert
<1>4. IsSplice(ArgStores(args) \o Body(args))
  BY <1>2, <1>3, InertConcat
<1>5. IsSplice(KeptPushes(args) \o (ArgStores(args) \o Body(args)))
  BY <1>3, <1>4, InertConcat
<1>6. (KeptPushes(args) \o ArgStores(args)) \o Body(args)
      = KeptPushes(args) \o (ArgStores(args) \o Body(args))
  BY <1>2, <1>3, ConcatAssociative DEF AllInert, IsSplice
<1>7. Splice(args) = (KeptPushes(args) \o ArgStores(args)) \o Body(args)
  BY DEF Splice
<1> QED BY <1>5, <1>6, <1>7 DEF args

-----------------------------------------------------------------------------
(***************************************************************************)
(* Where a label is while inline() is at work: at an instruction that is   *)
(* done, at one that is still to come, with those that wait, or at the end.*)
(***************************************************************************)
HasFrom(s, q, l) == \E k \in q .. Len(s) : l \in s[k].labels

SingleFrom(s, q, l) ==
    \E k \in q .. Len(s) :
        /\ l \in s[k].labels
        /\ \A j \in q .. Len(s) : l \in s[j].labels => j = k

Placed(new, code, at, wait, end, l) ==
    \/ OneHasLabel(new, l) /\ ~ HasFrom(code, at, l) /\ l \notin wait /\ l \notin end
    \/ ~ HasLabel(new, l) /\ SingleFrom(code, at, l) /\ l \notin wait /\ l \notin end
    \/ ~ HasLabel(new, l) /\ ~ HasFrom(code, at, l) /\ l \in wait /\ l \notin end
    \/ ~ HasLabel(new, l) /\ ~ HasFrom(code, at, l) /\ l \notin wait /\ l \in end

\* l is what a jump of code goes to, from instruction at on.
JumpsTo(code, at, l) == \E k \in at .. Len(code) : code[k].op \in JumpOps /\ l = code[k].arg

Referred(l) ==
    \/ JumpsTo(new_instrs, 1, l)
    \/ JumpsTo(instrs, i, l)
    \/ l \in Bounds(prog.caller.exc)

\* The labels of the first n splices, and of the load.
OldNames(n) == {l \in Names : l[1] < n}

LabelsIn(s, S) == \A k \in 1 .. Len(s) : s[k].labels \subseteq S

Splicing ==
    /\ SpliceType
    /\ LabelsIn(new_instrs, OldNames(splices)) /\ LabelsIn(instrs, OldNames(splices))
    /\ pending_labels \cup end_labels \subseteq OldNames(splices)
    /\ \A l : Referred(l) =>
          /\ l \in OldNames(splices)
          /\ Placed(new_instrs, instrs, i, pending_labels, end_labels, l)

LabelInv == (phase = "splice" => Splicing) /\ NoLabelLost

-----------------------------------------------------------------------------
LEMMA NamesFirst ==
    ASSUME NEW l \in Names
    PROVE  l[1] \in Int
  BY DEF Names

\* New labels at the first instruction.
LEMMA WithLabelsPlaces ==
    ASSUME NEW s \in Seq(Instruction), s # <<>>, NEW ls \in SUBSET Names, NEW l
    PROVE  /\ l \notin ls => /\ HasLabel(WithLabels(s, ls), l) <=> HasLabel(s, l)
                             /\ OneHasLabel(s, l) => OneHasLabel(WithLabels(s, ls), l)
           /\ l \in ls /\ ~ HasLabel(s, l) => OneHasLabel(WithLabels(s, ls), l)
<1> DEFINE t == WithLabels(s, ls)
<1>1. /\ Len(t) = Len(s)
      /\ \A k \in 1 .. Len(s) : t[k].labels = IF k = 1 THEN s[k].labels \cup ls ELSE s[k].labels
  BY WithLabelsIs
<1> HIDE DEF t
<1>2. Len(s) \in Nat /\ Len(s) # 0
  BY LenProperties, EmptySeq
<1>3. 1 \in 1 .. Len(s)
  BY <1>2
<1>4. ASSUME l \notin ls PROVE \A k \in 1 .. Len(s) : l \in t[k].labels <=> l \in s[k].labels
  BY <1>1, <1>4
<1>5. ASSUME l \notin ls
      PROVE  (HasLabel(t, l) <=> HasLabel(s, l)) /\ (OneHasLabel(s, l) => OneHasLabel(t, l))
  BY <1>1, <1>4, <1>5 DEF HasLabel, OneHasLabel
<1>6. ASSUME l \in ls, ~ HasLabel(s, l) PROVE OneHasLabel(t, l)
  <2>1. \A k \in 1 .. Len(s) : l \in t[k].labels <=> k = 1
    BY <1>1, <1>6 DEF HasLabel
  <2> QED BY <1>1, <1>3, <2>1 DEF OneHasLabel
<1> QED BY <1>5, <1>6 DEF t

\* A label that has one place keeps it when what comes next is done: code from at to
\* below next becomes more, and its labels and those that wait go to the first of more.
LEMMA PlacedOn ==
    ASSUME NEW new \in Seq(Instruction), NEW code \in Seq(Instruction),
           NEW at \in 1 .. Len(code), NEW next \in at + 1 .. Len(code) + 1,
           NEW wait \in SUBSET Names, NEW wait2, NEW end, NEW l,
           NEW s \in Seq(Instruction), s # <<>>,
           \A k \in at + 1 .. next - 1 : l \notin code[k].labels,
           ~ HasLabel(s, l), l \notin wait2,
           Placed(new, code, at, wait, end, l)
    PROVE  Placed(new \o WithLabels(s, wait \cup code[at].labels), code, next, wait2, end, l)
<1> DEFINE ls == wait \cup code[at].labels
           more == WithLabels(s, ls)
<1>0. Len(code) \in Nat /\ code[at] \in Instruction
  BY LenProperties
<1>9. code[at].labels \in SUBSET Names
  BY <1>0 DEF Instruction
<1>1. ls \in SUBSET Names
  BY <1>9
<1> HIDE DEF ls
<1>2. more \in Seq(Instruction)
  BY <1>1, WithLabelsIs
<1>3. /\ l \notin ls => ~ HasLabel(more, l)
      /\ l \in ls => OneHasLabel(more, l)
  BY <1>1, WithLabelsPlaces
<1> HIDE DEF more
<1>4. /\ ~ HasLabel(new, l) /\ ~ HasLabel(more, l) => ~ HasLabel(new \o more, l)
      /\ OneHasLabel(new, l) /\ ~ HasLabel(more, l) => OneHasLabel(new \o more, l)
      /\ ~ HasLabel(new, l) /\ OneHasLabel(more, l) => OneHasLabel(new \o more, l)
  BY <1>2, ConcatLabels
<1>5. ~ HasFrom(code, at, l) => l \notin code[at].labels /\ ~ HasFrom(code, next, l)
  BY <1>0 DEF HasFrom
<1>6. ASSUME SingleFrom(code, at, l)
      PROVE  \/ l \in code[at].labels /\ ~ HasFrom(code, next, l)
             \/ l \notin code[at].labels /\ SingleFrom(code, next, l)
  <2>1. PICK k \in at .. Len(code) : /\ l \in code[k].labels
                                     /\ \A j \in at .. Len(code) : l \in code[j].labels => j = k
    BY <1>6 DEF SingleFrom
  <2>2. CASE k = at
    BY <1>0, <2>1, <2>2 DEF HasFrom
  <2>3. CASE k # at
    <3>1. k \in next .. Len(code)
      BY <1>0, <2>1, <2>3
    <3>2. l \notin code[at].labels
      BY <1>0, <2>1, <2>3
    <3>3. \A j \in next .. Len(code) : l \in code[j].labels => j = k
      BY <1>0, <2>1
    <3> QED BY <2>1, <3>1, <3>2, <3>3 DEF SingleFrom
  <2> QED BY <2>2, <2>3
<1>7. l \in ls <=> l \in wait \/ l \in code[at].labels
  BY DEF ls
<1>8. Placed(new \o more, code, next, wait2, end, l)
  BY <1>3, <1>4, <1>5, <1>6, <1>7 DEF Placed
<1> QED BY <1>8 DEF more, ls

-----------------------------------------------------------------------------
LEMMA JumpsConcat ==
    ASSUME NEW s \in Seq(Instruction), NEW t \in Seq(Instruction), NEW l,
           JumpsTo(s \o t, 1, l)
    PROVE  JumpsTo(s, 1, l) \/ JumpsTo(t, 1, l)
<1>0. Joins(s \o t, s, t)
  BY ConcatElements
<1>1. /\ Len(s \o t) = Len(s) + Len(t)
      /\ \A k \in 1 .. Len(s) : (s \o t)[k] = s[k]
      /\ \A k \in 1 .. Len(t) : (s \o t)[Len(s) + k] = t[k]
      /\ \A k \in 1 .. Len(s) + Len(t) :
            k \in 1 .. Len(s) \/ \E j \in 1 .. Len(t) : k = Len(s) + j
  BY <1>0 DEF Joins
<1>2. PICK k \in 1 .. Len(s \o t) : (s \o t)[k].op \in JumpOps /\ l = (s \o t)[k].arg
  BY DEF JumpsTo
<1>3. CASE k \in 1 .. Len(s)
  BY <1>1, <1>2, <1>3 DEF JumpsTo
<1>4. CASE k \notin 1 .. Len(s)
  <2>1. PICK j \in 1 .. Len(t) : k = Len(s) + j
    BY <1>1, <1>4
  <2> QED BY <1>1, <1>2, <2>1 DEF JumpsTo
<1> QED BY <1>3, <1>4

LEMMA JumpsWithLabels ==
    ASSUME NEW s \in Seq(Instruction), NEW ls \in SUBSET Names, NEW l,
           JumpsTo(WithLabels(s, ls), 1, l)
    PROVE  JumpsTo(s, 1, l)
<1>1. /\ Len(WithLabels(s, ls)) = Len(s)
      /\ \A k \in 1 .. Len(s) : /\ WithLabels(s, ls)[k].op = s[k].op
                                /\ WithLabels(s, ls)[k].arg = s[k].arg
  BY WithLabelsIs
<1> QED BY <1>1 DEF JumpsTo

LEMMA ConcatLabelsIn ==
    ASSUME NEW s \in Seq(Instruction), NEW t \in Seq(Instruction)
    PROVE  \A S : LabelsIn(s, S) /\ LabelsIn(t, S) => LabelsIn(s \o t, S)
<1>0. Joins(s \o t, s, t)
  BY ConcatElements
<1>1. /\ Len(s \o t) = Len(s) + Len(t)
      /\ \A k \in 1 .. Len(s) : (s \o t)[k] = s[k]
      /\ \A k \in 1 .. Len(t) : (s \o t)[Len(s) + k] = t[k]
      /\ \A k \in 1 .. Len(s) + Len(t) :
            k \in 1 .. Len(s) \/ \E j \in 1 .. Len(t) : k = Len(s) + j
  BY <1>0 DEF Joins
<1>2. ASSUME NEW S, LabelsIn(s, S), LabelsIn(t, S),
             NEW k \in 1 .. Len(s \o t)
      PROVE  (s \o t)[k].labels \subseteq S
  <2>1. CASE k \in 1 .. Len(s)
    BY <1>1, <1>2, <2>1 DEF LabelsIn
  <2>2. CASE k \notin 1 .. Len(s)
    <3>1. PICK j \in 1 .. Len(t) : k = Len(s) + j
      BY <1>1, <2>2
    <3> QED BY <1>1, <1>2, <3>1 DEF LabelsIn
  <2> QED BY <2>1, <2>2
<1> QED BY <1>2 DEF LabelsIn

\* An instruction with more labels is a sequence of one with them.
LEMMA KeptIs ==
    ASSUME NEW x \in Instruction, NEW ls \in SUBSET Names
    PROVE  /\ <<[x EXCEPT !.labels = @ \cup ls]>> = WithLabels(<<Instr(x.op, x.arg)>>, ls \cup x.labels)
           /\ <<Instr(x.op, x.arg)>> \in Seq(Instruction) /\ <<Instr(x.op, x.arg)>> # <<>>
           /\ \A l : ~ HasLabel(<<Instr(x.op, x.arg)>>, l)
<1> DEFINE b == Instr(x.op, x.arg)
           y == [x EXCEPT !.labels = @ \cup ls]
           z == [b EXCEPT !.labels = @ \cup (ls \cup x.labels)]
<1>1. x = [op |-> x.op, arg |-> x.arg, labels |-> x.labels]
  BY DEF Instruction
<1>2. b \in Instruction /\ b.labels = {} /\ b.op = x.op /\ b.arg = x.arg
  BY DEF Instruction, Instr
<1>3. y = [op |-> x.op, arg |-> x.arg, labels |-> x.labels \cup ls]
  BY DEF Instruction
<1>4. z = [op |-> x.op, arg |-> x.arg, labels |-> {} \cup (ls \cup x.labels)]
  BY DEF Instr
<1>5. y = z
  BY <1>3, <1>4
<1> HIDE DEF b
<1>6. <<b>> # <<>> /\ <<b>> \in Seq(Instruction) /\ Len(<<b>>) = 1 /\ <<b>>[1] = b
  BY <1>2
<1>7. WithLabels(<<b>>, ls \cup x.labels) = [<<b>> EXCEPT ![1] = z]
  BY <1>6 DEF WithLabels
<1> HIDE DEF z
<1>8. [<<b>> EXCEPT ![1] = z] = <<z>>
  OBVIOUS
<1>9. \A l : ~ HasLabel(<<b>>, l)
  <2> SUFFICES ASSUME NEW l, NEW k \in 1 .. 1, l \in <<b>>[k].labels PROVE FALSE
    BY <1>6 DEF HasLabel
  <2> QED BY <1>2, <1>6
<1> QED BY <1>5, <1>6, <1>7, <1>8, <1>9 DEF b

-----------------------------------------------------------------------------
(***************************************************************************)
(* The steps of inline().                                                  *)
(***************************************************************************)
\* The instructions from i to below next become s; wait are the labels that wait
\* then, and n the splices there have been.
Moves(next, s, wait, n) ==
    /\ new_instrs' = new_instrs \o WithLabels(s, pending_labels \cup instrs[i].labels)
    /\ i' = next /\ pending_labels' = wait /\ splices' = n /\ splice_id' \in Nat
    /\ instrs' = instrs /\ end_labels' = end_labels /\ prog' = prog

Fresh(n) == OldNames(n) \ OldNames(splices)

\* What jumps goes where a jump of the load goes, or to a label that is new.
GoodJumps(s, wait, n) ==
    \A l : JumpsTo(s, 1, l) =>
        \/ JumpsTo(instrs, i, l)
        \/ l \in Fresh(n) /\ l \in wait /\ ~ HasLabel(s, l)
        \/ l \in Fresh(n) /\ l \notin wait /\ OneHasLabel(s, l)

GoodMove(next, s, wait, n) ==
    /\ i \in 1 .. Len(instrs) /\ next \in i + 1 .. Len(instrs) + 1
    /\ \A k \in i + 1 .. next - 1 : instrs[k].labels = {}
    /\ s \in Seq(Instruction) /\ s # <<>>
    /\ n \in {splices, splices + 1}
    /\ LabelsIn(s, Fresh(n)) /\ wait \subseteq Fresh(n)
    /\ GoodJumps(s, wait, n)

LEMMA OldNamesGrow ==
    ASSUME SpliceType, NEW n \in {splices, splices + 1}
    PROVE  OldNames(splices) \subseteq OldNames(n) /\ OldNames(n) \subseteq Names
           /\ Fresh(n) \subseteq OldNames(n)
<1>1. splices \in Nat /\ splices <= n /\ n \in Nat
  BY DEF SpliceType
<1>2. \A l \in Names : l[1] < splices => l[1] < n
  BY <1>1, NamesFirst
<1> QED BY <1>2 DEF OldNames, Fresh

LEMMA MoveRefers ==
    ASSUME Splicing, NEW next, NEW s, NEW wait, NEW n,
           GoodMove(next, s, wait, n), Moves(next, s, wait, n), NEW l, Referred(l)'
    PROVE  Referred(l) \/ JumpsTo(s, 1, l)
<1> DEFINE ls == pending_labels \cup instrs[i].labels
           more == WithLabels(s, ls)
<1>0. /\ s \in Seq(Instruction) /\ new_instrs \in Seq(Instruction) /\ instrs \in Seq(Instruction)
      /\ i \in 1 .. Len(instrs) /\ next \in i + 1 .. Len(instrs) + 1 /\ Len(instrs) \in Nat
  BY LenProperties DEF GoodMove, Splicing, SpliceType
<1>1. ls \in SUBSET Names
  <2>1. instrs[i] \in Instruction
    BY <1>0, LenProperties
  <2>2. instrs[i].labels \in SUBSET Names
    BY <2>1 DEF Instruction
  <2> QED BY <2>2 DEF Splicing, OldNames
<1>2. new_instrs' = new_instrs \o more /\ instrs' = instrs /\ i' = next /\ prog' = prog
  BY DEF Moves
<1> HIDE DEF ls
<1>3. more \in Seq(Instruction)
  BY <1>0, <1>1, WithLabelsIs
<1> HIDE DEF more
<1>4. JumpsTo(new_instrs \o more, 1, l) \/ JumpsTo(instrs, next, l) \/ l \in Bounds(prog.caller.exc)
  BY <1>2 DEF Referred
<1>5. CASE JumpsTo(new_instrs \o more, 1, l)
  <2>1. JumpsTo(new_instrs, 1, l) \/ JumpsTo(more, 1, l)
    BY <1>0, <1>3, <1>5, JumpsConcat
  <2>2. JumpsTo(more, 1, l) => JumpsTo(s, 1, l)
    BY <1>0, <1>1, JumpsWithLabels DEF more
  <2> QED BY <2>1, <2>2 DEF Referred
<1>6. CASE JumpsTo(instrs, next, l)
  <2>1. JumpsTo(instrs, i, l)
    BY <1>0, <1>6 DEF JumpsTo
  <2> QED BY <2>1 DEF Referred
<1> QED BY <1>4, <1>5, <1>6 DEF Referred

LEMMA MoveKeeps ==
    ASSUME Splicing, NEW next, NEW s, NEW wait, NEW n,
           GoodMove(next, s, wait, n), Moves(next, s, wait, n)
    PROVE  Splicing'
<1> DEFINE ls == pending_labels \cup instrs[i].labels
           more == WithLabels(s, ls)
<1>0. /\ s \in Seq(Instruction) /\ new_instrs \in Seq(Instruction) /\ instrs \in Seq(Instruction)
      /\ i \in 1 .. Len(instrs) /\ next \in i + 1 .. Len(instrs) + 1 /\ Len(instrs) \in Nat
      /\ s # <<>> /\ n \in {splices, splices + 1} /\ SpliceType
  BY LenProperties DEF GoodMove, Splicing, SpliceType
<1>1. /\ OldNames(splices) \subseteq OldNames(n) /\ OldNames(n) \subseteq Names
      /\ Fresh(n) \subseteq OldNames(n) /\ Fresh(n) \cap OldNames(splices) = {}
  BY <1>0, OldNamesGrow DEF Fresh
<1>2. instrs[i].labels \subseteq OldNames(splices) /\ pending_labels \subseteq OldNames(splices)
  BY <1>0 DEF Splicing, LabelsIn
<1>3. ls \in SUBSET Names /\ ls \subseteq OldNames(splices)
  BY <1>1, <1>2
<1>4. /\ new_instrs' = new_instrs \o more /\ instrs' = instrs /\ i' = next /\ prog' = prog
      /\ pending_labels' = wait /\ end_labels' = end_labels /\ splices' = n /\ splice_id' \in Nat
  BY DEF Moves
<1>5. \A l : Referred(l)' => Referred(l) \/ JumpsTo(s, 1, l)
  BY MoveRefers
<1>6. LabelsIn(s, Fresh(n)) /\ wait \subseteq Fresh(n) /\ GoodJumps(s, wait, n)
      /\ \A k \in i + 1 .. next - 1 : instrs[k].labels = {}
  BY DEF GoodMove
<1>7. /\ LabelsIn(new_instrs, OldNames(splices)) /\ LabelsIn(instrs, OldNames(splices))
      /\ end_labels \subseteq OldNames(splices)
      /\ \A l : Referred(l) => /\ l \in OldNames(splices)
                               /\ Placed(new_instrs, instrs, i, pending_labels, end_labels, l)
  BY DEF Splicing
<1> HIDE DEF ls
<1>8. more \in Seq(Instruction)
  BY <1>0, <1>3, WithLabelsIs
<1>9. \A l \in OldNames(splices) : ~ HasLabel(s, l)
  BY <1>1, <1>6 DEF HasLabel, LabelsIn
<1>10. LabelsIn(more, OldNames(n))
  <2>0. /\ Len(more) = Len(s)
        /\ \A k \in 1 .. Len(s) :
              more[k].labels = IF k = 1 THEN s[k].labels \cup ls ELSE s[k].labels
    BY <1>0, <1>3, WithLabelsIs
  <2> HIDE DEF more
  <2>1. /\ Len(more) = Len(s)
        /\ \A k \in 1 .. Len(s) : more[k].labels \subseteq s[k].labels \cup ls
    BY <2>0
  <2> QED BY <1>1, <1>3, <1>6, <2>1 DEF LabelsIn
<1> HIDE DEF more
<1>11. LabelsIn(new_instrs \o more, OldNames(n))
  <2>1. LabelsIn(new_instrs, OldNames(n))
    BY <1>1, <1>7 DEF LabelsIn
  <2> QED BY <1>0, <1>8, <1>10, <2>1, ConcatLabelsIn
<1>12. LabelsIn(instrs, OldNames(n)) /\ wait \cup end_labels \subseteq OldNames(n)
  BY <1>1, <1>6, <1>7 DEF LabelsIn
<1>13. SpliceType'
  <2>1. new_instrs \o more \in Seq(Instruction)
    BY <1>0, <1>8, ConcatElements
  <2>2. n \in Nat /\ next \in 1 .. Len(instrs) + 1 /\ prog \in Programs
    BY <1>0 DEF SpliceType
  <2> QED BY <1>0, <1>4, <2>1, <2>2 DEF SpliceType
\* A label that was in use.
<1>14. ASSUME NEW l, Referred(l)
       PROVE  l \in OldNames(n) /\ Placed(new_instrs \o more, instrs, next, wait, end_labels, l)
  <2>1. l \in OldNames(splices) /\ Placed(new_instrs, instrs, i, pending_labels, end_labels, l)
    BY <1>7, <1>14
  <2>2. ~ HasLabel(s, l) /\ l \notin wait /\ pending_labels \in SUBSET Names
        /\ \A k \in i + 1 .. next - 1 : l \notin instrs[k].labels
    BY <1>1, <1>2, <1>6, <1>9, <2>1
  <2>3. Placed(new_instrs \o WithLabels(s, pending_labels \cup instrs[i].labels),
               instrs, next, wait, end_labels, l)
    BY <1>0, <2>1, <2>2, PlacedOn
  <2> QED BY <1>1, <2>1, <2>3 DEF more, ls
\* A label of the new splice.
<1>15. ASSUME NEW l \in Fresh(n), (l \in wait /\ ~ HasLabel(s, l)) \/ (l \notin wait /\ OneHasLabel(s, l))
       PROVE  l \in OldNames(n) /\ Placed(new_instrs \o more, instrs, next, wait, end_labels, l)
  <2>1. /\ ~ HasLabel(new_instrs, l) /\ ~ HasFrom(instrs, next, l) /\ l \notin ls /\ l \notin end_labels
        /\ l \in OldNames(n)
    <3>1. l \notin OldNames(splices) /\ l \in OldNames(n)
      BY <1>1
    <3>2. \A k \in next .. Len(instrs) : k \in 1 .. Len(instrs)
      BY <1>0
    <3> QED BY <1>3, <1>7, <3>1, <3>2 DEF HasLabel, HasFrom, LabelsIn
  <2>2. /\ HasLabel(more, l) <=> HasLabel(s, l)
        /\ OneHasLabel(s, l) => OneHasLabel(more, l)
    BY <1>0, <1>3, <2>1, WithLabelsPlaces DEF more
  <2>3. /\ ~ HasLabel(more, l) => ~ HasLabel(new_instrs \o more, l)
        /\ OneHasLabel(more, l) => OneHasLabel(new_instrs \o more, l)
    BY <1>0, <1>8, <2>1, ConcatLabels
  <2> QED BY <1>15, <2>1, <2>2, <2>3 DEF Placed
<1>16. ASSUME NEW l, Referred(l)'
       PROVE  l \in OldNames(n) /\ Placed(new_instrs \o more, instrs, next, wait, end_labels, l)
  <2>1. CASE Referred(l)
    BY <1>14, <2>1
  <2>2. CASE ~ Referred(l)
    <3>1. JumpsTo(s, 1, l) /\ ~ JumpsTo(instrs, i, l)
      BY <1>5, <1>16, <2>2 DEF Referred
    <3>2. /\ l \in Fresh(n)
          /\ (l \in wait /\ ~ HasLabel(s, l)) \/ (l \notin wait /\ OneHasLabel(s, l))
      BY <1>6, <3>1 DEF GoodJumps
    <3> HIDE DEF Fresh
    <3> QED BY <1>15, <3>2
  <2> QED BY <2>1, <2>2
<1>17. \A l : Referred(l)' =>
          /\ l \in OldNames(splices')
          /\ Placed(new_instrs', instrs', i', pending_labels', end_labels', l)
  BY <1>4, <1>16
<1>18. /\ LabelsIn(new_instrs', OldNames(splices')) /\ LabelsIn(instrs', OldNames(splices'))
       /\ pending_labels' \cup end_labels' \subseteq OldNames(splices')
  BY <1>4, <1>11, <1>12
<1> QED BY <1>13, <1>17, <1>18 DEF Splicing

LEMMA KeepStep ==
    ASSUME Splicing, KeepInstr
    PROVE  Splicing'
<1> DEFINE x == instrs[i]
           s == <<Instr(x.op, x.arg)>>
<1>0. /\ instrs \in Seq(Instruction) /\ new_instrs \in Seq(Instruction)
      /\ Len(instrs) \in Nat /\ DOMAIN instrs = 1 .. Len(instrs)
      /\ i \in 1 .. Len(instrs) /\ SpliceType
  <2>1. instrs \in Seq(Instruction) /\ new_instrs \in Seq(Instruction) /\ SpliceType
    BY DEF Splicing, SpliceType
  <2>2. Len(instrs) \in Nat /\ DOMAIN instrs = 1 .. Len(instrs)
    BY <2>1, LenProperties
  <2> QED BY <2>1, <2>2 DEF KeepInstr
<1>1. x \in Instruction
  BY <1>0, LenProperties
<1>2. pending_labels \in SUBSET Names
  BY DEF Splicing, OldNames
<1>3. /\ new_instrs' = Append(new_instrs, [x EXCEPT !.labels = @ \cup pending_labels])
      /\ pending_labels' = {} /\ i' = i + 1
      /\ prog' = prog /\ instrs' = instrs /\ splice_id' = splice_id
      /\ end_labels' = end_labels /\ splices' = splices
  BY DEF KeepInstr
<1> HIDE DEF x
<1>4. /\ <<[x EXCEPT !.labels = @ \cup pending_labels]>> = WithLabels(s, pending_labels \cup x.labels)
      /\ s \in Seq(Instruction) /\ s # <<>> /\ \A l : ~ HasLabel(s, l)
  BY <1>1, <1>2, KeptIs
<1>5. [x EXCEPT !.labels = @ \cup pending_labels] \in Instruction
  BY <1>1, <1>2 DEF Instruction
<1>6. new_instrs' = new_instrs \o WithLabels(s, pending_labels \cup x.labels)
  BY <1>0, <1>3, <1>4, <1>5, AppendIsConcat
<1>7. Len(s) = 1 /\ s[1].op = x.op /\ s[1].arg = x.arg /\ s[1].labels = {}
  BY DEF Instr
<1> HIDE DEF s
<1>8. GoodJumps(s, {}, splices)
  <2> SUFFICES ASSUME NEW l, JumpsTo(s, 1, l) PROVE JumpsTo(instrs, i, l)
    BY DEF GoodJumps
  <2>1. x.op \in JumpOps /\ l = x.arg
    BY <1>7 DEF JumpsTo
  <2> QED BY <1>0, <2>1 DEF JumpsTo, x
<1>9. LabelsIn(s, Fresh(splices))
  BY <1>7 DEF LabelsIn
<1>10. GoodMove(i + 1, s, {}, splices)
  BY <1>0, <1>4, <1>8, <1>9 DEF GoodMove
<1>11. Moves(i + 1, s, {}, splices)
  BY <1>0, <1>3, <1>6 DEF Moves, SpliceType, x
<1> QED BY <1>10, <1>11, MoveKeeps

LEMMA EndLabelFresh ==
    ASSUME SpliceType
    PROVE  /\ EndLabel \in Fresh(splices + 1)
           /\ \A l \in Names : l[1] = splices => l \in Fresh(splices + 1)
<1>1. splices \in Nat /\ splices < splices + 1 /\ ~ (splices < splices)
  BY DEF SpliceType
<1>2. \A l \in Names : l[1] = splices => l \in Fresh(splices + 1)
  BY <1>1 DEF Fresh, OldNames
<1>3. EndLabel \in Names /\ EndLabel[1] = splices
  BY MappedType DEF EndLabel
<1> QED BY <1>2, <1>3

LEMMA SpliceStep ==
    ASSUME Splicing, SpliceCall
    PROVE  Splicing'
<1>1. SpliceType
  BY DEF Splicing
<1>2. PICK e \in i + 1 .. Len(instrs) :
         /\ IsSpliced(e)
         /\ new_instrs' = new_instrs \o WithLabels(Splice(Between(i, e)), HeadLabels(i))
         /\ i' = e + 1
  BY DEF SpliceCall
<1> DEFINE s == Splice(Between(i, e))
           n == splices + 1
<1>3. IsSplice(s)
  BY <1>1, <1>2, SpliceIs
<1>4. /\ i \in 1 .. Len(instrs) /\ e + 1 \in i + 1 .. Len(instrs) + 1
      /\ \A k \in i + 1 .. e : instrs[k].labels = {}
  <2>1. /\ i \in DOMAIN instrs /\ instrs[e].labels = {}
        /\ \A k \in i + 1 .. e - 1 : instrs[k].labels = {}
    BY <1>1, <1>2, ArgsAre
  <2>2. DOMAIN instrs = 1 .. Len(instrs) /\ Len(instrs) \in Nat
    BY <1>1, LenProperties DEF SpliceType
  <2> QED BY <1>2, <2>1, <2>2
<1>5. new_instrs' = new_instrs \o WithLabels(s, pending_labels \cup instrs[i].labels)
  BY <1>2 DEF HeadLabels
<1>6. /\ pending_labels' = {EndLabel} /\ splices' = n /\ splice_id' = splice_id + 1
      /\ instrs' = instrs /\ end_labels' = end_labels /\ prog' = prog
  BY DEF SpliceCall
<1>7. i' = e + 1
  BY <1>2
<1> HIDE DEF s
<1>8. Moves(e + 1, s, {EndLabel}, n)
  BY <1>1, <1>5, <1>6, <1>7 DEF Moves, SpliceType
<1>9. /\ s \in Seq(Instruction) /\ s # <<>>
      /\ \A k \in 1 .. Len(s) : \A y \in s[k].labels : y[1] = splices /\ y # EndLabel
      /\ \A k \in 1 .. Len(s) : s[k].op \in JumpOps =>
            s[k].arg = EndLabel \/ (s[k].arg[1] = splices /\ OneHasLabel(s, s[k].arg))
  BY <1>3 DEF IsSplice
<1>10. \A k \in 1 .. Len(s) : s[k] \in Instruction
  BY <1>9, LenProperties
<1>11. \A k \in 1 .. Len(s) : s[k].labels \subseteq Names /\ s[k].arg \in Names
  BY <1>10 DEF Instruction
<1>12. LabelsIn(s, Fresh(n))
  BY <1>1, <1>9, <1>11, EndLabelFresh DEF LabelsIn
<1>13. ~ HasLabel(s, EndLabel)
  BY <1>9 DEF HasLabel
<1>14. GoodJumps(s, {EndLabel}, n)
  <2> SUFFICES ASSUME NEW l, JumpsTo(s, 1, l)
               PROVE  \/ l \in Fresh(n) /\ l \in {EndLabel} /\ ~ HasLabel(s, l)
                      \/ l \in Fresh(n) /\ l \notin {EndLabel} /\ OneHasLabel(s, l)
    BY DEF GoodJumps
  <2>1. PICK k \in 1 .. Len(s) : s[k].op \in JumpOps /\ l = s[k].arg
    BY DEF JumpsTo
  <2>2. l = EndLabel \/ (l[1] = splices /\ OneHasLabel(s, l) /\ l \in Names)
    BY <1>9, <1>11, <2>1
  <2>3. OneHasLabel(s, l) => l # EndLabel
    BY <1>13 DEF OneHasLabel, HasLabel
  <2> QED BY <1>1, <1>13, <2>2, <2>3, EndLabelFresh
<1>15. GoodMove(e + 1, s, {EndLabel}, n)
  <2>1. \A k \in i + 1 .. e + 1 - 1 : instrs[k].labels = {}
    BY <1>2, <1>4
  <2>2. {EndLabel} \subseteq Fresh(n) /\ n \in {splices, splices + 1}
    BY <1>1, EndLabelFresh
  <2> HIDE DEF n
  <2> QED BY <1>4, <1>9, <1>12, <1>14, <2>1, <2>2 DEF GoodMove
<1> QED BY <1>8, <1>15, MoveKeeps

\* When inline() is over, every reference has a place in the new code or at its end.
LEMMA OverPlaces ==
    ASSUME Splicing, Inlined, NEW l,
           JumpsTo(new_instrs, 1, l) \/ l \in Bounds(prog.caller.exc)
    PROVE  /\ l \in OldNames(splices)
           /\ \/ OneHasLabel(new_instrs, l) /\ l \notin end_labels'
              \/ ~ HasLabel(new_instrs, l) /\ l \in end_labels'
<1>1. l \in OldNames(splices) /\ Placed(new_instrs, instrs, i, pending_labels, end_labels, l)
  BY DEF Splicing, Referred
<1>2. /\ instrs \in Seq(Instruction) /\ i \in 1 .. Len(instrs) + 1
      /\ i \notin DOMAIN instrs /\ end_labels' = pending_labels \cup end_labels
  BY DEF Splicing, SpliceType, Inlined
<1>3. ~ \E k \in i .. Len(instrs) : TRUE
  <2>1. Len(instrs) \in Nat /\ DOMAIN instrs = 1 .. Len(instrs)
    BY <1>2, LenProperties
  <2> QED BY <1>2, <2>1
<1>4. ~ HasFrom(instrs, i, l) /\ ~ SingleFrom(instrs, i, l)
  BY <1>3 DEF HasFrom, SingleFrom
<1> QED BY <1>1, <1>2, <1>4 DEF Placed

LEMMA AgainStep ==
    ASSUME Splicing, Again
    PROVE  Splicing'
<1>1. /\ instrs' = new_instrs /\ new_instrs' = <<>> /\ i' = 1 /\ splice_id' = 0
      /\ pending_labels' = {} /\ end_labels' = pending_labels \cup end_labels
      /\ prog' = prog /\ splices' = splices /\ Inlined
  BY DEF Again, Inlined
<1>2. /\ new_instrs \in Seq(Instruction) /\ prog \in Programs /\ splices \in Nat
      /\ LabelsIn(new_instrs, OldNames(splices))
      /\ pending_labels \cup end_labels \subseteq OldNames(splices)
  BY DEF Splicing, SpliceType
<1>3. SpliceType'
  <2>1. Len(new_instrs) \in Nat /\ <<>> \in Seq(Instruction)
    BY <1>2, LenProperties
  <2> QED BY <1>1, <1>2, <2>1 DEF SpliceType
<1>4. Len(<<>>) = 0
  OBVIOUS
<1>5. /\ LabelsIn(<<>>, OldNames(splices)) /\ \A l : ~ HasLabel(<<>>, l)
      /\ \A l : ~ JumpsTo(<<>>, 1, l)
  BY <1>4 DEF LabelsIn, HasLabel, JumpsTo
<1>6. ASSUME NEW l, Referred(l)'
      PROVE  l \in OldNames(splices) /\ Placed(<<>>, new_instrs, 1, {}, end_labels', l)
  <2>1. JumpsTo(new_instrs, 1, l) \/ l \in Bounds(prog.caller.exc)
    BY <1>1, <1>5, <1>6 DEF Referred
  <2>2. /\ l \in OldNames(splices)
        /\ \/ OneHasLabel(new_instrs, l) /\ l \notin end_labels'
           \/ ~ HasLabel(new_instrs, l) /\ l \in end_labels'
    BY <1>1, <2>1, OverPlaces
  <2>3. /\ OneHasLabel(new_instrs, l) => SingleFrom(new_instrs, 1, l)
        /\ ~ HasLabel(new_instrs, l) => ~ HasFrom(new_instrs, 1, l)
    BY DEF OneHasLabel, SingleFrom, HasLabel, HasFrom
  <2> QED BY <1>5, <2>2, <2>3 DEF Placed
<1>7. \A l : Referred(l)' =>
         /\ l \in OldNames(splices')
         /\ Placed(new_instrs', instrs', i', pending_labels', end_labels', l)
  BY <1>1, <1>6
<1>8. /\ LabelsIn(new_instrs', OldNames(splices')) /\ LabelsIn(instrs', OldNames(splices'))
      /\ pending_labels' \cup end_labels' \subseteq OldNames(splices')
  BY <1>1, <1>2, <1>5
<1> QED BY <1>3, <1>7, <1>8 DEF Splicing

\* The one instruction that has a label, or the end, is its one place.
LEMMA PlaceIs ==
    ASSUME NEW s \in Seq(Instruction), NEW end, NEW l,
           \/ OneHasLabel(s, l) /\ l \notin end
           \/ ~ HasLabel(s, l) /\ l \in end
    PROVE  OnePlace(s, end, l)
<1>1. Len(s) \in Nat /\ DOMAIN s = 1 .. Len(s)
  BY LenProperties
<1>2. /\ \A k \in 1 .. Len(s) : k \in Places(s, end, l) <=> l \in s[k].labels
      /\ Len(s) + 1 \in Places(s, end, l) <=> l \in end
      /\ \A k \in Places(s, end, l) : k \in 1 .. Len(s) \/ k = Len(s) + 1
  BY <1>1 DEF Places
<1>3. CASE OneHasLabel(s, l) /\ l \notin end
  <2>1. PICK k \in 1 .. Len(s) : /\ l \in s[k].labels
                                 /\ \A j \in 1 .. Len(s) : l \in s[j].labels => j = k
    BY <1>3 DEF OneHasLabel
  <2>2. k \in Places(s, end, l) /\ \A j \in Places(s, end, l) : j = k
    BY <1>2, <1>3, <2>1
  <2>3. Places(s, end, l) = {k}
    BY <2>2
  <2> QED BY <2>2, <2>3 DEF OnePlace
<1>4. CASE ~ HasLabel(s, l) /\ l \in end
  <2> DEFINE k == Len(s) + 1
  <2>1. k \in Places(s, end, l) /\ \A j \in Places(s, end, l) : j = k
    BY <1>2, <1>4 DEF HasLabel
  <2> HIDE DEF k
  <2>2. Places(s, end, l) = {k}
    BY <2>1
  <2> QED BY <2>1, <2>2 DEF OnePlace
<1> QED BY <1>3, <1>4

LEMMA CompareStep ==
    ASSUME Splicing, Compare
    PROVE  NoLabelLost'
<1>1. /\ Inlined /\ new_instrs' = new_instrs /\ prog' = prog
  BY DEF Compare
<1>2. new_instrs \in Seq(Instruction)
  BY DEF Splicing, SpliceType
<1>3. Len(new_instrs) \in Nat /\ DOMAIN new_instrs = 1 .. Len(new_instrs)
  BY <1>2, LenProperties
<1>4. ASSUME NEW l \in Targets(new_instrs) \cup Bounds(prog.caller.exc)
      PROVE  OnePlace(new_instrs, end_labels', l)
  <2>1. JumpsTo(new_instrs, 1, l) \/ l \in Bounds(prog.caller.exc)
    BY <1>3 DEF Targets, JumpsTo
  <2>2. \/ OneHasLabel(new_instrs, l) /\ l \notin end_labels'
        \/ ~ HasLabel(new_instrs, l) /\ l \in end_labels'
    BY <1>1, <2>1, OverPlaces
  <2> QED BY <1>2, <2>2, PlaceIs
<1> QED BY <1>1, <1>4 DEF NoLabelLost

-----------------------------------------------------------------------------
LEMMA InitSplicing ==
    ASSUME Init
    PROVE  Splicing
<1>1. /\ prog \in Programs /\ instrs = prog.caller.instrs /\ i = 1 /\ new_instrs = <<>>
      /\ pending_labels = {} /\ splice_id = 0 /\ splices = 0
      /\ end_labels = prog.caller.end_labels
  BY DEF Init
<1>2. /\ IsCode(prog.caller)
      /\ prog.caller.end_labels \subseteq {Own} \X STRING
      /\ Bounds(prog.caller.exc) \subseteq {Own} \X STRING
  BY <1>1, ProgramAssumption
<1>3. /\ instrs \in Seq(Instruction)
      /\ \A k \in DOMAIN instrs : instrs[k].labels \subseteq {Own} \X STRING
      /\ Targets(instrs) \subseteq {Own} \X STRING
  BY <1>1, <1>2 DEF IsCode
<1>4. \A l \in Targets(instrs) \cup Bounds(prog.caller.exc) : OnePlace(instrs, end_labels, l)
  BY <1>1, LabelAssumption
<1>5. {Own} \X STRING \subseteq OldNames(0)
  BY DEF OldNames, Names, Own
<1>6. Len(instrs) \in Nat /\ DOMAIN instrs = 1 .. Len(instrs)
  BY <1>3, LenProperties
<1>7. SpliceType
  <2>1. <<>> \in Seq(Instruction) /\ 1 \in 1 .. Len(instrs) + 1
    BY <1>6
  <2> QED BY <1>1, <1>3, <2>1 DEF SpliceType
<1>8. Len(<<>>) = 0
  OBVIOUS
<1>9. /\ LabelsIn(<<>>, OldNames(0)) /\ LabelsIn(instrs, OldNames(0))
      /\ {} \cup end_labels \subseteq OldNames(0)
  BY <1>1, <1>2, <1>3, <1>5, <1>6, <1>8 DEF LabelsIn
<1>10. ASSUME NEW l, Referred(l)
       PROVE  l \in OldNames(0) /\ Placed(<<>>, instrs, 1, {}, end_labels, l)
  <2>1. l \in Targets(instrs) \cup Bounds(prog.caller.exc)
    BY <1>1, <1>6, <1>8, <1>10 DEF Referred, JumpsTo, Targets
  <2>2. l \in OldNames(0)
    BY <1>2, <1>3, <1>5, <2>1
  <2>3. ~ HasLabel(<<>>, l)
    BY <1>8 DEF HasLabel
  <2>4. PICK q \in Places(instrs, end_labels, l) : Places(instrs, end_labels, l) = {q}
    BY <1>4, <2>1 DEF OnePlace
  <2>5. /\ \A k \in 1 .. Len(instrs) : k \in Places(instrs, end_labels, l) <=> l \in instrs[k].labels
        /\ Len(instrs) + 1 \in Places(instrs, end_labels, l) <=> l \in end_labels
        /\ q \in 1 .. Len(instrs) \/ q = Len(instrs) + 1
    BY <1>6 DEF Places
  <2>6. CASE q \in 1 .. Len(instrs)
    <3>1. l \in instrs[q].labels /\ \A j \in 1 .. Len(instrs) : l \in instrs[j].labels => j = q
      BY <2>4, <2>5, <2>6
    <3>2. SingleFrom(instrs, 1, l)
      BY <2>6, <3>1 DEF SingleFrom
    <3>3. l \notin end_labels
      <4>1. Len(instrs) + 1 # q
        BY <1>6, <2>6
      <4> QED BY <2>4, <2>5, <4>1
    <3> QED BY <2>2, <2>3, <3>2, <3>3 DEF Placed
  <2>7. CASE q = Len(instrs) + 1
    <3>1. l \in end_labels
      BY <2>4, <2>5, <2>7
    <3>2. ~ HasFrom(instrs, 1, l)
      <4> SUFFICES ASSUME NEW k \in 1 .. Len(instrs), l \in instrs[k].labels PROVE FALSE
        BY DEF HasFrom
      <4>1. k = q
        BY <2>4, <2>5
      <4> QED BY <1>6, <2>7, <4>1
    <3> QED BY <2>2, <2>3, <3>1, <3>2 DEF Placed
  <2> QED BY <2>5, <2>6, <2>7
<1> QED BY <1>1, <1>7, <1>9, <1>10 DEF Splicing

\* The run leaves the code alone.
Runs ==
    \/ Execute \/ Jump \/ Call \/ Return \/ Raise \/ GiveUp \/ Done

LEMMA RunKeeps ==
    ASSUME Runs \/ UNCHANGED vars
    PROVE  /\ prog' = prog /\ inlining' = inlining
           /\ phase' = phase \/ phase # "splice"
           /\ phase' = "splice" => phase = "splice"
<1>1. NextRun => phase' # "splice"
  BY DEF NextRun
<1>2. Running => phase # "splice"
  BY DEF Running
<1>3. CASE UNCHANGED vars
  BY <1>3 DEF vars
<1>4. CASE Execute
  BY <1>2, <1>4 DEF Execute
<1>5. CASE Jump
  BY <1>2, <1>5 DEF Jump
<1>6. CASE Call
  BY <1>2, <1>6 DEF Call
<1>7. CASE Return
  BY <1>1, <1>2, <1>7 DEF Return
<1>8. CASE Raise
  BY <1>1, <1>2, <1>8 DEF Raise
<1>9. CASE GiveUp
  BY <1>1, <1>9 DEF GiveUp
<1>10. CASE Done
  BY <1>10 DEF Done, vars
<1> QED BY <1>3, <1>4, <1>5, <1>6, <1>7, <1>8, <1>9, <1>10 DEF Runs

LEMMA LabelInvStep ==
    ASSUME LabelInv, [Next]_vars
    PROVE  LabelInv'
<1>1. ASSUME phase = "splice" PROVE Splicing
  BY <1>1 DEF LabelInv
<1>2. CASE KeepInstr
  <2>1. phase = "splice" /\ phase' = phase
    BY <1>2 DEF KeepInstr
  <2>2. Splicing'
    BY <1>1, <1>2, <2>1, KeepStep
  <2> QED BY <2>1, <2>2 DEF LabelInv, NoLabelLost
<1>3. CASE SpliceCall
  <2>1. phase = "splice" /\ phase' = phase
    BY <1>3 DEF SpliceCall
  <2>2. Splicing'
    BY <1>1, <1>3, <2>1, SpliceStep
  <2> QED BY <2>1, <2>2 DEF LabelInv, NoLabelLost
<1>4. CASE Again
  <2>1. phase = "splice" /\ phase' = phase
    BY <1>4 DEF Again, Inlined
  <2>2. Splicing'
    BY <1>1, <1>4, <2>1, AgainStep
  <2> QED BY <2>1, <2>2 DEF LabelInv, NoLabelLost
<1>5. CASE Compare
  <2>1. phase = "splice" /\ phase' = "original"
    BY <1>5 DEF Compare, Inlined
  <2>2. NoLabelLost'
    BY <1>1, <1>5, <2>1, CompareStep
  <2> QED BY <2>1, <2>2 DEF LabelInv
<1>6. CASE Runs \/ UNCHANGED vars
  <2>1. /\ prog' = prog /\ inlining' = inlining
        /\ phase' = phase \/ phase # "splice"
        /\ phase' = "splice" => phase = "splice"
    BY <1>6, RunKeeps
  <2>2. /\ instrs' = instrs /\ i' = i /\ new_instrs' = new_instrs
        /\ pending_labels' = pending_labels /\ splice_id' = splice_id
        /\ end_labels' = end_labels /\ splices' = splices
    BY <2>1 DEF inlining
  <2>3. NoLabelLost'
    <3> SUFFICES ASSUME phase' # "splice"
                 PROVE  \A l \in Targets(new_instrs) \cup Bounds(prog.caller.exc) :
                           OnePlace(new_instrs, end_labels, l)
      BY <2>1, <2>2 DEF NoLabelLost
    <3>1. phase # "splice"
      BY <2>1
    <3> QED BY <3>1 DEF LabelInv, NoLabelLost
  <2>4. Splicing => Splicing'
    BY <2>1, <2>2 DEF Splicing, SpliceType, Referred
  <2> QED BY <1>1, <2>1, <2>3, <2>4 DEF LabelInv
<1> QED BY <1>2, <1>3, <1>4, <1>5, <1>6 DEF Next, Runs

\* inline() loses none of the labels that jumps and protected regions refer to, for
\* every caller, whatever it calls and however often it is inlined: each label has
\* the one place it stands for.
THEOREM NoLabelLostHolds == Spec => []NoLabelLost
<1>1. Init => LabelInv
  <2>1. Init => Splicing
    BY InitSplicing
  <2>2. Init => NoLabelLost
    BY DEF Init, NoLabelLost
  <2> QED BY <2>1, <2>2 DEF LabelInv
<1>2. LabelInv /\ [Next]_vars => LabelInv'
  BY LabelInvStep
<1>3. LabelInv => NoLabelLost
  BY DEF LabelInv
<1> QED BY <1>1, <1>2, <1>3, PTL DEF Spec

-----------------------------------------------------------------------------
(***************************************************************************)
(* The build backend: whatever crashes, fails to compile or is edited, and *)
(* whatever the other backend's wheel holds, what the wheel directory has. *)
(***************************************************************************)
\* The two wheels of a version: as the other backend makes it, and compiled.
InnerOf(v) == InnerWheel(inner, v)
CompiledOf(v) == Reworked(InnerOf(v))

Size == Len(inner.members)

\* A sequence is known by its domain.
LEMMA LenOfMap ==
    ASSUME NEW N \in Nat, NEW f, f = [k \in 1 .. N |-> f[k]]
    PROVE  /\ f \in Seq({f[k] : k \in 1 .. N})
           /\ Len(f) = N
<1>1. f \in [1 .. N -> {f[k] : k \in 1 .. N}]
  OBVIOUS
<1>2. f \in Seq({f[k] : k \in 1 .. N})
  BY <1>1, SeqDef
<1> QED
  BY <1>1, <1>2, LenProperties

-----------------------------------------------------------------------------
(***************************************************************************)
(* What the wheels hold, member by member.                                 *)
(***************************************************************************)
LEMMA MembersType ==
    ASSUME inner \in Inner
    PROVE  /\ Size \in Nat /\ DOMAIN inner.members = 1 .. Size
           /\ \A k \in 1 .. Size : inner.members[k] \in InnerMember
           /\ \A g, j \in 1 .. Size :
                 /\ inner.members[g].stem = inner.members[j].stem
                 /\ inner.members[g].suffix = inner.members[j].suffix
                 => g = j
<1>1. inner.members \in Seq(InnerMember)
  BY WheelBuildAssumption
<1>2. Size \in Nat /\ DOMAIN inner.members = 1 .. Size
  BY <1>1, LenProperties DEF Size
<1>3. \A k \in 1 .. Size : inner.members[k] \in InnerMember
  BY <1>1, <1>2, LenProperties DEF Size
<1>4. \A g, j \in DOMAIN inner.members :
          g # j => <<inner.members[g].stem, inner.members[g].suffix>>
                     # <<inner.members[j].stem, inner.members[j].suffix>>
  BY WheelBuildAssumption
<1> QED
  BY <1>2, <1>3, <1>4

LEMMA Unsuffixed ==
    ASSUME NEW m, NEW stem, NEW data, m = Member(stem, "", data)
    PROVE  /\ m.stem = stem /\ m.suffix = "" /\ m.data = data
           /\ Is(m, stem)
<1>1. m.stem = stem
  BY DEF Member
<1>2. m.suffix = ""
  BY Zenon DEF Member
<1>3. m.data = data
  BY DEF Member
<1> QED
  BY <1>1, <1>2, <1>3 DEF Is

\* The member that Data() chooses is the one there is.
Holder(stem) == CHOOSE k \in 1 .. Size : Is(inner.members[k], stem)
LEMMA HolderUnique ==
    ASSUME inner \in Inner, NEW stem
    PROVE  \A k \in 1 .. Size : Is(inner.members[k], stem) => k = Holder(stem)
BY MembersType DEF Is, Holder

InnerData(k, v) ==
    IF Is(inner.members[k], "WHEEL") THEN <<"tag", inner.tag>> ELSE <<"source", v>>

\* RECORD does not count itself.
LEMMA RecordOfRecorded ==
    ASSUME NEW N \in Nat, NEW w, w = [k \in 1 .. N |-> w[k]]
    PROVE  /\ DOMAIN Recorded(w) = 1 .. N
           /\ \A k \in 1 .. N :
                 /\ Recorded(w)[k].stem = w[k].stem \/ Is(w[k], "RECORD")
                 /\ Is(Recorded(w)[k], "RECORD") <=> Is(w[k], "RECORD")
                 /\ Is(w[k], "RECORD") => Recorded(w)[k].data = Record(w)
                 /\ ~ Is(w[k], "RECORD") => Recorded(w)[k] = w[k]
           /\ Record(Recorded(w)) = Record(w)
BY DEF Recorded, Record, Is, Member

\* The two members that build_wheel() looks for are found where they are.
LEMMA DataIs ==
    ASSUME inner \in Inner, NEW stem, Has(stem),
           NEW w, DOMAIN w = 1 .. Size,
           \A k \in 1 .. Size : Is(w[k], stem) <=> Is(inner.members[k], stem)
    PROVE  /\ Holder(stem) \in 1 .. Size
           /\ Is(inner.members[Holder(stem)], stem)
           /\ Data(w, stem) = w[Holder(stem)].data
<1>1. PICK h \in 1 .. Size : Is(inner.members[h], stem)
  BY MembersType DEF Has
<1>2. h = Holder(stem)
  BY <1>1, HolderUnique
<1> DEFINE c == CHOOSE k \in DOMAIN w : Is(w[k], stem)
<1>3. c \in 1 .. Size /\ Is(w[c], stem)
  BY <1>1
<1>4. c = Holder(stem)
  BY <1>3, HolderUnique
<1> QED
  BY <1>1, <1>2, <1>4 DEF Data

\* A wheel that has been recorded is whole.
LEMMA RecordedIsWhole ==
    ASSUME inner \in Inner, NEW w, w = [k \in 1 .. Size |-> w[k]],
           \A k \in 1 .. Size : Is(w[k], "RECORD") <=> Is(inner.members[k], "RECORD")
    PROVE  Whole(Recorded(w))
<1>0. Size \in Nat
  BY MembersType
<1> DEFINE r == Recorded(w)
<1>1. /\ DOMAIN r = 1 .. Size
      /\ \A k \in 1 .. Size :
            /\ Is(r[k], "RECORD") <=> Is(w[k], "RECORD")
            /\ Is(w[k], "RECORD") => r[k].data = Record(w)
      /\ Record(r) = Record(w)
  BY <1>0, RecordOfRecorded
<1>2. r = [k \in 1 .. Size |-> r[k]]
  BY <1>1 DEF Recorded
<1>3. Len(r) = Size
  BY <1>0, <1>2, LenOfMap
<1>4. ASSUME Has("RECORD") PROVE Data(r, "RECORD") = Record(r)
  <2> HIDE DEF r
  <2>1. /\ Holder("RECORD") \in 1 .. Size
        /\ Is(inner.members[Holder("RECORD")], "RECORD")
        /\ Data(r, "RECORD") = r[Holder("RECORD")].data
    BY <1>1, <1>4, DataIs
  <2> QED
    BY <1>1, <2>1
<1> QED
  BY <1>3, <1>4 DEF Whole, Size

\* A member of the other backend's wheel.
LEMMA InnerMembers ==
    ASSUME inner \in Inner, NEW v
    PROVE  /\ InnerOf(v) = [k \in 1 .. Size |-> InnerOf(v)[k]]
           /\ \A k \in 1 .. Size :
                 LET m == inner.members[k]
                 IN  /\ InnerOf(v)[k].stem = m.stem /\ InnerOf(v)[k].suffix = m.suffix
                     /\ Is(m, "WHEEL") => InnerOf(v)[k].data = <<"tag", inner.tag>>
                     /\ ~ Is(m, "WHEEL") /\ ~ Is(m, "RECORD") =>
                           InnerOf(v)[k] = Member(m.stem, m.suffix, <<"source", v>>)
           /\ Whole(InnerOf(v))
<1> DEFINE bare == [k \in 1 .. Size |->
                      Member(inner.members[k].stem, inner.members[k].suffix, InnerData(k, v))]
<1>1. /\ Size \in Nat /\ DOMAIN inner.members = 1 .. Size
      /\ \A k \in 1 .. Size : inner.members[k] \in InnerMember
  BY MembersType
<1>2. InnerOf(v) = Recorded(bare)
  BY <1>1 DEF InnerOf, InnerWheel, InnerData
<1>3. \A k \in 1 .. Size :
         /\ bare[k].stem = inner.members[k].stem
         /\ bare[k].suffix = inner.members[k].suffix
         /\ bare[k].data = InnerData(k, v)
         /\ Is(bare[k], "RECORD") <=> Is(inner.members[k], "RECORD")
  BY DEF Member, Is
<1>4. Whole(InnerOf(v))
  <2>1. bare = [k \in 1 .. Size |-> bare[k]]
    OBVIOUS
  <2> HIDE DEF bare
  <2> QED
    BY <1>2, <1>3, <2>1, RecordedIsWhole
<1>5. Recorded(bare) = [k \in 1 .. Size |->
          IF Is(bare[k], "RECORD") THEN Member("RECORD", "", Record(bare)) ELSE bare[k]]
  BY DEF Recorded
<1>6. InnerOf(v) = [k \in 1 .. Size |-> InnerOf(v)[k]]
  <2> HIDE DEF bare
  <2> QED
    BY <1>2, <1>5
<1>7. ASSUME NEW k \in 1 .. Size
      PROVE  LET m == inner.members[k]
             IN  /\ InnerOf(v)[k].stem = m.stem /\ InnerOf(v)[k].suffix = m.suffix
                 /\ Is(m, "WHEEL") => InnerOf(v)[k].data = <<"tag", inner.tag>>
                 /\ ~ Is(m, "WHEEL") /\ ~ Is(m, "RECORD") =>
                       InnerOf(v)[k] = Member(m.stem, m.suffix, <<"source", v>>)
  <2>1. bare[k] = Member(inner.members[k].stem, inner.members[k].suffix, InnerData(k, v))
    OBVIOUS
  <2>2. InnerOf(v)[k] = IF Is(inner.members[k], "RECORD") THEN Member("RECORD", "", Record(bare)) ELSE bare[k]
    <3> HIDE DEF bare
    <3> QED
      BY <1>2, <1>3, <1>5
  <2> HIDE DEF bare
  <2> DEFINE m == inner.members[k]
  <2>3. CASE Is(m, "RECORD")
    <3>1. m.stem = "RECORD" /\ m.suffix = ""
      BY <2>3 DEF Is
    <3>2. ~ Is(m, "WHEEL")
      BY <3>1 DEF Is
    <3>3. InnerOf(v)[k] = Member("RECORD", "", Record(bare))
      BY <2>2, <2>3
    <3>4. InnerOf(v)[k].stem = "RECORD" /\ InnerOf(v)[k].suffix = ""
      BY <3>3, Unsuffixed
    <3> QED
      BY <2>3, <3>1, <3>2, <3>4
  <2>4. CASE ~ Is(m, "RECORD")
    <3>1. InnerOf(v)[k] = Member(m.stem, m.suffix, InnerData(k, v))
      BY <2>1, <2>2, <2>4
    <3>2. Is(m, "WHEEL") => InnerData(k, v) = <<"tag", inner.tag>>
      BY DEF InnerData
    <3>3. ~ Is(m, "WHEEL") => InnerData(k, v) = <<"source", v>>
      BY DEF InnerData
    <3>4. /\ InnerOf(v)[k].stem = m.stem /\ InnerOf(v)[k].suffix = m.suffix
          /\ InnerOf(v)[k].data = InnerData(k, v)
      BY <3>1 DEF Member
    <3> QED
      BY <2>4, <3>1, <3>2, <3>3, <3>4
  <2> QED
    BY <2>3, <2>4
<1> QED
  BY <1>4, <1>6, <1>7


\* A member of the compiled wheel.
LEMMA CompiledMembers ==
    ASSUME inner \in Inner, NEW v
    PROVE  /\ CompiledOf(v) = [k \in 1 .. Size |-> CompiledOf(v)[k]]
           /\ \A k \in 1 .. Size :
                 LET m == inner.members[k]
                 IN  /\ \A stem : Is(CompiledOf(v)[k], stem) <=> Is(m, stem)
                     /\ Is(m, "WHEEL") => CompiledOf(v)[k].data = <<"tag", Tag>>
                     /\ ~ Is(m, "WHEEL") /\ ~ Is(m, "RECORD") =>
                           CompiledOf(v)[k] =
                             IF Selected(m) THEN Member(m.stem, ".pyc", <<"compiled", v>>)
                             ELSE Member(m.stem, m.suffix, <<"source", v>>)
           /\ Whole(CompiledOf(v))
<1> DEFINE g == InnerOf(v)
           c == Compiled(g)
           t == Retagged(c)
<1>1. /\ Size \in Nat /\ DOMAIN inner.members = 1 .. Size
      /\ \A k \in 1 .. Size : inner.members[k] \in InnerMember
  BY MembersType
<1>2. /\ DOMAIN g = 1 .. Size
      /\ \A k \in 1 .. Size :
            LET m == inner.members[k]
            IN  /\ g[k].stem = m.stem /\ g[k].suffix = m.suffix
                /\ ~ Is(m, "WHEEL") /\ ~ Is(m, "RECORD") =>
                      g[k] = Member(m.stem, m.suffix, <<"source", v>>)
  <2> HIDE DEF g
  <2>1. g = [k \in 1 .. Size |-> g[k]]
    BY InnerMembers DEF g
  <2>2. DOMAIN g = 1 .. Size
    BY <2>1
  <2> QED
    BY <2>2, InnerMembers DEF g
<1>3. /\ c = [k \in 1 .. Size |-> c[k]]
      /\ \A k \in 1 .. Size :
            c[k] = IF Selected(inner.members[k])
                   THEN Member(g[k].stem, ".pyc", <<"compiled", g[k].data[2]>>) ELSE g[k]
  <2> HIDE DEF g
  <2> QED
    BY <1>2 DEF Compiled
<1>4. /\ t = [k \in 1 .. Size |-> t[k]]
      /\ \A k \in 1 .. Size :
            t[k] = IF Is(c[k], "WHEEL") THEN Member("WHEEL", "", <<"tag", Tag>>) ELSE c[k]
  <2>1. DOMAIN c = 1 .. Size
    <3> HIDE DEF c
    <3> QED BY <1>3
  <2> HIDE DEF c
  <2> QED
    BY <2>1 DEF Retagged
<1> HIDE DEF g, c, t
<1>5. ASSUME NEW k \in 1 .. Size
      PROVE  LET m == inner.members[k]
             IN  /\ \A stem : Is(c[k], stem) <=> Is(m, stem)
                 /\ ~ Is(m, "WHEEL") /\ ~ Is(m, "RECORD") =>
                       c[k] = IF Selected(m) THEN Member(m.stem, ".pyc", <<"compiled", v>>)
                              ELSE Member(m.stem, m.suffix, <<"source", v>>)
  <2> DEFINE m == inner.members[k]
  <2>1. CASE Selected(m)
    <3>1. c[k] = Member(g[k].stem, ".pyc", <<"compiled", g[k].data[2]>>)
      BY <1>3, <2>1
    <3>2. \A stem : ~ Is(m, stem)
      BY <2>1 DEF Selected, Is
    <3>3. g[k].data = <<"source", v>> /\ g[k].stem = m.stem
      BY <1>2, <3>2 DEF Member
    <3>4. c[k] = Member(m.stem, ".pyc", <<"compiled", v>>)
      BY <3>1, <3>3
    <3>5. \A stem : ~ Is(c[k], stem)
      BY <3>4 DEF Is, Member
    <3> QED
      BY <2>1, <3>2, <3>4, <3>5
  <2>2. CASE ~ Selected(m)
    <3>1. c[k] = g[k]
      BY <1>3, <2>2
    <3>2. \A stem : Is(c[k], stem) <=> Is(m, stem)
      BY <1>2, <3>1 DEF Is
    <3> QED
      BY <1>2, <2>2, <3>1, <3>2
  <2> QED
    BY <2>1, <2>2
<1>6. ASSUME NEW k \in 1 .. Size
      PROVE  LET m == inner.members[k]
             IN  /\ \A stem : Is(t[k], stem) <=> Is(m, stem)
                 /\ Is(m, "WHEEL") => t[k].data = <<"tag", Tag>>
                 /\ ~ Is(m, "WHEEL") => t[k] = c[k]
  <2> DEFINE m == inner.members[k]
  <2>1. Is(c[k], "WHEEL") <=> Is(m, "WHEEL")
    BY <1>5
  <2>2. CASE Is(m, "WHEEL")
    <3> DEFINE data == <<"tag", Tag>>
    <3>1. t[k] = Member("WHEEL", "", data)
      BY <1>4, <2>1, <2>2
    <3> HIDE DEF data
    <3>2. t[k].stem = "WHEEL" /\ t[k].suffix = ""
      BY <3>1, Unsuffixed
    <3>5. t[k].data = data
      BY <3>1, Unsuffixed
    <3>3. m.stem = "WHEEL" /\ m.suffix = ""
      BY <2>2 DEF Is
    <3>4. \A stem : Is(t[k], stem) <=> Is(m, stem)
      BY <3>2, <3>3 DEF Is
    <3> QED
      BY <2>2, <3>4, <3>5 DEF data
  <2>3. CASE ~ Is(m, "WHEEL")
    <3>1. t[k] = c[k]
      BY <1>4, <2>1, <2>3
    <3> QED
      BY <1>5, <2>3, <3>1
  <2> QED
    BY <2>2, <2>3
<1>7. CompiledOf(v) = Recorded(t)
  BY DEF CompiledOf, Reworked, g, c, t
<1>8. Whole(CompiledOf(v))
  BY <1>4, <1>6, <1>7, RecordedIsWhole
<1>9. CompiledOf(v) = [k \in 1 .. Size |-> CompiledOf(v)[k]]
  <2>1. Recorded(t) = [k \in 1 .. Size |->
            IF Is(t[k], "RECORD") THEN Member("RECORD", "", Record(t)) ELSE t[k]]
    BY <1>4 DEF Recorded
  <2> QED
    BY <1>7, <2>1
<1>10. ASSUME NEW k \in 1 .. Size
       PROVE  LET m == inner.members[k]
              IN  /\ \A stem : Is(CompiledOf(v)[k], stem) <=> Is(m, stem)
                  /\ ~ Is(m, "RECORD") => CompiledOf(v)[k] = t[k]
  <2> DEFINE m == inner.members[k]
  <2>1. CompiledOf(v)[k] = IF Is(t[k], "RECORD") THEN Member("RECORD", "", Record(t)) ELSE t[k]
    <3>1. DOMAIN t = 1 .. Size
      BY <1>4
    <3> QED
      BY <1>7, <3>1 DEF Recorded
  <2>2. CASE Is(m, "RECORD")
    <3>1. CompiledOf(v)[k] = Member("RECORD", "", Record(t))
      BY <1>6, <2>1, <2>2
    <3>2. CompiledOf(v)[k].stem = "RECORD" /\ CompiledOf(v)[k].suffix = ""
      BY <3>1, Unsuffixed
    <3>3. m.stem = "RECORD" /\ m.suffix = ""
      BY <2>2 DEF Is
    <3>4. \A stem : Is(CompiledOf(v)[k], stem) <=> Is(m, stem)
      BY <3>2, <3>3 DEF Is
    <3> QED
      BY <2>2, <3>4
  <2>3. CASE ~ Is(m, "RECORD")
    <3>1. CompiledOf(v)[k] = t[k]
      BY <1>6, <2>1, <2>3
    <3> QED
      BY <1>6, <2>3, <3>1
  <2> QED
    BY <2>2, <2>3
<1>11. \A k \in 1 .. Size : Is(inner.members[k], "WHEEL") => ~ Is(inner.members[k], "RECORD")
  BY DEF Is
<1> QED
  BY <1>5, <1>6, <1>8, <1>9, <1>10, <1>11

-----------------------------------------------------------------------------
(***************************************************************************)
(* The inductive invariant.                                                *)
(***************************************************************************)
Versions == 0 .. source.version

WheelTypeOK ==
    /\ inner \in Inner
    /\ source.version \in Nat /\ of \in Versions /\ built \in Versions
    /\ pc \in {"idle", "rework", "fail", "write", "replace", "return"}
    /\ DOMAIN dir \subseteq {wheel_path, final_path, tmp_path}

\* Whose wheel a file is depends on its name.
FilesAreWheels ==
    \A n \in DOMAIN dir \ {tmp_path} : \E v \in Versions :
        \/ n = wheel_path /\ dir[n] = InnerOf(v)
        \/ n = final_path /\ dir[n] = CompiledOf(v)

\* What the build in hand has done so far.
UnderWay ==
    /\ pc \in {"rework", "fail"} => wheel = InnerOf(of) /\ wheel_path \in DOMAIN dir
    /\ pc = "write" =>
          /\ wheel = CompiledOf(of) /\ {wheel_path, tmp_path} \subseteq DOMAIN dir
          /\ Written \in 0 .. Len(wheel) /\ dir[tmp_path] = SubSeq(wheel, 1, Written)
    /\ pc = "replace" =>
          /\ wheel = CompiledOf(of) /\ tmp_path \in DOMAIN dir /\ dir[tmp_path] = wheel
          /\ wheel_path = final_path \/ wheel_path \notin DOMAIN dir
    /\ pc = "return" => DOMAIN dir = {final_path} /\ dir[final_path] = CompiledOf(of)

\* A file that holds everything, under whatever name.
SomeWheel == \E n \in DOMAIN dir, v \in Versions : dir[n] \in {InnerOf(v), CompiledOf(v)}

WheelInv == WheelTypeOK /\ FilesAreWheels /\ UnderWay /\ (pc # "idle" \/ built > 0 => SomeWheel)


\* A build does not change what the other backend's wheel would hold.
LEMMA SameWheels ==
    ASSUME inner' = inner
    PROVE  /\ \A v : InnerOf(v)' = InnerOf(v) /\ CompiledOf(v)' = CompiledOf(v)
           /\ wheel_path' = wheel_path /\ final_path' = final_path /\ tmp_path' = tmp_path
<1>1. \A v : InnerOf(v)' = InnerOf(v)
  BY DEF InnerOf
<1>2. \A w : Compiled(w)' = Compiled(w)
  BY DEF Compiled
<1>3. \A v : CompiledOf(v)' = CompiledOf(v)
  BY <1>1, <1>2 DEF CompiledOf, Reworked
<1>4. wheel_path' = wheel_path /\ tmp_path' = tmp_path
  BY DEF wheel_path, tmp_path
<1>5. final_path' = final_path
  BY <1>4 DEF final_path, HasWheel, Has
<1> QED
  BY <1>1, <1>3, <1>4, <1>5

LEMMA Paths ==
    wheel_path # tmp_path /\ final_path # tmp_path
BY DEF wheel_path, final_path, tmp_path, WheelName

LEMMA CompiledIsSeq ==
    ASSUME inner \in Inner, NEW v
    PROVE  /\ CompiledOf(v) \in Seq({CompiledOf(v)[k] : k \in 1 .. Size})
           /\ Len(CompiledOf(v)) = Size /\ Size \in Nat
<1>1. CompiledOf(v) = [k \in 1 .. Size |-> CompiledOf(v)[k]] /\ Size \in Nat
  BY CompiledMembers, MembersType
<1> DEFINE w == CompiledOf(v)
<1> HIDE DEF w
<1>2. w \in Seq({w[k] : k \in 1 .. Size}) /\ Len(w) = Size
  BY <1>1, LenOfMap DEF w
<1> QED
  BY <1>1, <1>2 DEF w

\* Files that are wheels before and after a step that touches one name.
LEMMA OtherFilesKept ==
    ASSUME FilesAreWheels, inner' = inner, Versions \subseteq Versions',
           \A n \in DOMAIN dir' \ {tmp_path} :
              \/ n \in DOMAIN dir /\ dir'[n] = dir[n]
              \/ \E v \in Versions' :
                    \/ n = wheel_path /\ dir'[n] = InnerOf(v)
                    \/ n = final_path /\ dir'[n] = CompiledOf(v)
    PROVE  FilesAreWheels'
<1>1. ASSUME NEW n \in DOMAIN dir' \ {tmp_path}
      PROVE  \E v \in Versions' :
                \/ n = wheel_path /\ dir'[n] = InnerOf(v)
                \/ n = final_path /\ dir'[n] = CompiledOf(v)
  BY DEF FilesAreWheels
<1> QED
  BY <1>1, SameWheels DEF FilesAreWheels

LEMMA FileOfWheel ==
    ASSUME FilesAreWheels', inner' = inner, NEW n \in DOMAIN dir', n # tmp_path
    PROVE  SomeWheel'
BY SameWheels DEF FilesAreWheels, SomeWheel

LEMMA InitWheelInv == BuildInit => WheelInv
<1> SUFFICES ASSUME BuildInit PROVE WheelInv
  OBVIOUS
<1>1. DOMAIN dir = {}
  BY DEF BuildInit
<1> QED
  BY <1>1 DEF BuildInit, WheelInv, WheelTypeOK, Versions, FilesAreWheels, UnderWay

LEMMA NextWheelInv == WheelInv /\ [BuildNext]_buildVars => WheelInv'
<1> SUFFICES ASSUME WheelInv, [BuildNext]_buildVars PROVE WheelInv'
  OBVIOUS
<1> USE DEF WheelInv
<1>0. /\ inner' = inner
      /\ \A v : InnerOf(v)' = InnerOf(v) /\ CompiledOf(v)' = CompiledOf(v)
      /\ wheel_path' = wheel_path /\ final_path' = final_path /\ tmp_path' = tmp_path
  <2>1. inner' = inner
    BY DEF BuildNext, Build, EditSource, BuildInner, Rework, Fail, WriteMember, Unlink, Replace,
           ReturnWheel, Crash, buildVars
  <2> QED
    BY <2>1, SameWheels
<1>1. ASSUME NEW ok \in BOOLEAN, EditSource(ok) PROVE WheelInv'
  <2>1. /\ Versions \subseteq Versions' /\ source.version' \in Nat
        /\ UNCHANGED <<dir, pc, wheel, of, built>>
    BY <1>1 DEF EditSource, WheelTypeOK, Versions
  <2>2. WheelTypeOK'
    BY <1>0, <2>1 DEF WheelTypeOK
  <2>3. FilesAreWheels'
    BY <1>0, <2>1, OtherFilesKept
  <2>4. UnderWay'
    BY <1>0, <2>1 DEF UnderWay, Written
  <2>5. SomeWheel => SomeWheel'
    BY <1>0, <2>1 DEF SomeWheel
  <2> QED
    BY <2>1, <2>2, <2>3, <2>4, <2>5
<1>2. ASSUME BuildInner PROVE WheelInv'
  <2>1. /\ wheel' = InnerOf(source.version) /\ of' = source.version
        /\ DOMAIN dir' = DOMAIN dir \cup {wheel_path}
        /\ dir'[wheel_path] = wheel'
        /\ \A n \in DOMAIN dir : n # wheel_path => dir'[n] = dir[n]
        /\ pc' \in {"rework", "fail"}
        /\ UNCHANGED <<source, built>>
    BY <1>2 DEF BuildInner, InnerOf, Put
  <2>2. source.version \in Versions /\ Versions' = Versions
    BY <2>1 DEF WheelTypeOK, Versions
  <2>3. WheelTypeOK'
    BY <1>0, <2>1, <2>2 DEF WheelTypeOK
  <2>4. FilesAreWheels'
    BY <1>0, <2>1, <2>2, OtherFilesKept
  <2>5. UnderWay'
    BY <1>0, <2>1 DEF UnderWay
  <2>6. SomeWheel'
    BY <1>0, <2>1, <2>2 DEF SomeWheel
  <2> QED
    BY <2>3, <2>4, <2>5, <2>6
<1>3. ASSUME Rework PROVE WheelInv'
  <2>1. /\ wheel' = CompiledOf(of) /\ wheel_path \in DOMAIN dir
        /\ DOMAIN dir' = DOMAIN dir \cup {tmp_path}
        /\ dir'[tmp_path] = <<>>
        /\ \A n \in DOMAIN dir : n # tmp_path => dir'[n] = dir[n]
        /\ pc' = "write"
        /\ UNCHANGED <<source, built, of>>
    BY <1>3 DEF Rework, CompiledOf, UnderWay, MayOpen, Put
  <2>2. WheelTypeOK' /\ Versions' = Versions
    BY <1>0, <2>1 DEF WheelTypeOK, Versions
  <2>3. FilesAreWheels'
    BY <1>0, <2>1, <2>2, OtherFilesKept
  <2>4. UnderWay'
    <3>1. /\ CompiledOf(of) \in Seq({CompiledOf(of)[k] : k \in 1 .. Size})
          /\ Len(CompiledOf(of)) = Size /\ Size \in Nat
      BY CompiledIsSeq DEF WheelTypeOK
    <3>2. Written' = 0
      BY <1>0, <2>1 DEF Written
    <3>3. SubSeq(CompiledOf(of), 1, 0) = <<>>
      BY <3>1, SubSeqEmpty
    <3> QED
      BY <1>0, <2>1, <3>1, <3>2, <3>3 DEF UnderWay
  <2>5. SomeWheel'
    BY <1>0, <2>1, <2>3, Paths, FileOfWheel
  <2> QED
    BY <2>2, <2>3, <2>4, <2>5
<1>4. ASSUME Fail PROVE WheelInv'
  <2>1. pc = "fail" /\ pc' = "idle" /\ UNCHANGED <<source, dir, of, built>>
    BY <1>4 DEF Fail
  <2>2. WheelTypeOK' /\ Versions' = Versions
    BY <1>0, <2>1 DEF WheelTypeOK, Versions
  <2>3. FilesAreWheels'
    BY <1>0, <2>1, <2>2, OtherFilesKept
  <2>4. UnderWay' /\ SomeWheel'
    BY <1>0, <2>1, <2>2 DEF UnderWay, SomeWheel
  <2> QED
    BY <2>2, <2>3, <2>4
<1>5. ASSUME WriteMember PROVE WheelInv'
  <2> DEFINE w == CompiledOf(of)
             n == Written
  <2>1. /\ pc = "write" /\ pc' = "write" /\ wheel = w /\ wheel' = w
        /\ {wheel_path, tmp_path} \subseteq DOMAIN dir
        /\ n \in 0 .. Len(w) /\ n < Len(w) /\ dir[tmp_path] = SubSeq(w, 1, n)
        /\ DOMAIN dir' = DOMAIN dir
        /\ dir'[tmp_path] = Append(SubSeq(w, 1, n), w[n + 1])
        /\ \A m \in DOMAIN dir : m # tmp_path => dir'[m] = dir[m]
        /\ UNCHANGED <<source, built, of>>
    BY <1>5 DEF WriteMember, UnderWay, Put
  <2>2. WheelTypeOK' /\ Versions' = Versions
    BY <1>0, <2>1 DEF WheelTypeOK, Versions
  <2>3. FilesAreWheels'
    BY <1>0, <2>1, <2>2, OtherFilesKept
  <2>4. dir'[tmp_path] = SubSeq(w, 1, n + 1) /\ Len(dir'[tmp_path]) = n + 1 /\ n + 1 \in 0 .. Len(w)
    <3>1. w \in Seq({w[k] : k \in 1 .. Size}) /\ Len(w) \in Nat
      BY CompiledIsSeq DEF WheelTypeOK
    <3> HIDE DEF w, n
    <3>2. SubSeq(w, 1, n + 1) = Append(SubSeq(w, 1, n), w[n + 1])
      BY <2>1, <3>1
    <3>3. Len(SubSeq(w, 1, n + 1)) = n + 1
      BY <2>1, <3>1, SubSeqProperties
    <3> QED
      BY <2>1, <3>1, <3>2, <3>3
  <2>5. UnderWay'
    BY <1>0, <2>1, <2>4 DEF UnderWay, Written
  <2>6. SomeWheel'
    BY <1>0, <2>1, <2>3, Paths, FileOfWheel
  <2> QED
    BY <2>2, <2>3, <2>5, <2>6
<1>6. ASSUME Unlink PROVE WheelInv'
  <2> DEFINE w == CompiledOf(of)
  <2>1. /\ wheel = w /\ wheel' = w /\ pc' = "replace" /\ UNCHANGED <<source, built, of>>
        /\ tmp_path \in DOMAIN dir /\ dir[tmp_path] = SubSeq(w, 1, Len(w))
    BY <1>6 DEF Unlink, UnderWay, AllWritten
  <2>2. /\ DOMAIN dir' = DOMAIN dir \ (IF wheel_path = final_path THEN {} ELSE {wheel_path})
        /\ \A m \in DOMAIN dir' : dir'[m] = dir[m]
    BY <1>6 DEF Unlink, Without
  <2>3. WheelTypeOK' /\ Versions' = Versions
    BY <1>0, <2>1, <2>2 DEF WheelTypeOK, Versions
  <2>4. FilesAreWheels'
    BY <1>0, <2>1, <2>2, <2>3, OtherFilesKept
  <2>5. dir[tmp_path] = w
    <3>1. w \in Seq({w[k] : k \in 1 .. Size})
      BY CompiledIsSeq DEF WheelTypeOK
    <3> HIDE DEF w
    <3> QED
      BY <2>1, <3>1, SubSeqFull
  <2>6. tmp_path \in DOMAIN dir' /\ dir'[tmp_path] = w
    BY <2>1, <2>2, <2>5, Paths
  <2>7. UnderWay'
    BY <1>0, <2>1, <2>2, <2>6 DEF UnderWay
  <2>8. SomeWheel'
    BY <1>0, <2>1, <2>3, <2>6 DEF SomeWheel, WheelTypeOK
  <2> QED
    BY <2>3, <2>4, <2>7, <2>8
<1>7. ASSUME Replace PROVE WheelInv'
  <2> DEFINE w == CompiledOf(of)
  <2>1. /\ dir[tmp_path] = w /\ pc' = "return" /\ UNCHANGED <<source, built, of>>
        /\ wheel_path = final_path \/ wheel_path \notin DOMAIN dir
        /\ DOMAIN dir' = (DOMAIN dir \ {tmp_path}) \cup {final_path}
        /\ dir'[final_path] = dir[tmp_path]
    BY <1>7 DEF Replace, UnderWay
  <2>2. DOMAIN dir' = {final_path} /\ dir'[final_path] = w
    BY <2>1, Paths DEF WheelTypeOK
  <2>3. WheelTypeOK' /\ Versions' = Versions
    BY <1>0, <2>1, <2>2 DEF WheelTypeOK, Versions
  <2>4. FilesAreWheels'
    BY <1>0, <2>1, <2>2, <2>3, OtherFilesKept DEF WheelTypeOK
  <2>5. UnderWay' /\ SomeWheel'
    BY <1>0, <2>1, <2>2, <2>3 DEF UnderWay, SomeWheel, WheelTypeOK
  <2> QED
    BY <2>3, <2>4, <2>5
<1>8. ASSUME ReturnWheel \/ Crash PROVE WheelInv'
  <2>1. /\ pc # "idle" /\ pc' = "idle" /\ built' \in {built, of}
        /\ UNCHANGED <<source, dir, of>>
    BY <1>8 DEF ReturnWheel, Crash
  <2>2. WheelTypeOK' /\ Versions' = Versions
    BY <1>0, <2>1 DEF WheelTypeOK, Versions
  <2>3. FilesAreWheels'
    BY <1>0, <2>1, <2>2, OtherFilesKept
  <2>4. UnderWay' /\ SomeWheel'
    BY <1>0, <2>1, <2>2 DEF UnderWay, SomeWheel
  <2> QED
    BY <2>2, <2>3, <2>4
<1>9. CASE UNCHANGED buildVars
  <2>1. UNCHANGED <<source, dir, pc, wheel, of, built>>
    BY <1>9 DEF buildVars
  <2>2. WheelTypeOK' /\ Versions' = Versions
    BY <1>0, <2>1 DEF WheelTypeOK, Versions
  <2>3. FilesAreWheels'
    BY <1>0, <2>1, <2>2, OtherFilesKept
  <2>4. UnderWay'
    BY <1>0, <2>1 DEF UnderWay, Written
  <2>5. SomeWheel => SomeWheel'
    BY <1>0, <2>1, <2>2 DEF SomeWheel
  <2> QED
    BY <2>1, <2>2, <2>3, <2>4, <2>5
<1> QED
  BY <1>1, <1>2, <1>3, <1>4, <1>5, <1>6, <1>7, <1>8, <1>9 DEF BuildNext, Build

-----------------------------------------------------------------------------
(***************************************************************************)
(* The properties.                                                         *)
(***************************************************************************)
LEMMA WheelInvHolds == BuildSpec => []WheelInv
<1> QED
  BY InitWheelInv, NextWheelInv, PTL DEF BuildSpec

\* The tag that a wheel is found to have is the one that it was given.
LEMMA TagIs ==
    ASSUME inner \in Inner, HasWheel, NEW v
    PROVE  /\ Data(InnerOf(v), "WHEEL") = <<"tag", inner.tag>>
           /\ Data(CompiledOf(v), "WHEEL") = <<"tag", Tag>>
<1> DEFINE g == InnerOf(v)
           c == CompiledOf(v)
<1>1. DOMAIN g = 1 .. Size /\ DOMAIN c = 1 .. Size
  <2>1. g = [k \in 1 .. Size |-> g[k]] /\ c = [k \in 1 .. Size |-> c[k]]
    BY InnerMembers, CompiledMembers
  <2> HIDE DEF g, c
  <2> QED
    BY <2>1
<1>2. ASSUME NEW k \in 1 .. Size
      PROVE  /\ Is(g[k], "WHEEL") <=> Is(inner.members[k], "WHEEL")
             /\ Is(c[k], "WHEEL") <=> Is(inner.members[k], "WHEEL")
             /\ Is(inner.members[k], "WHEEL") =>
                   g[k].data = <<"tag", inner.tag>> /\ c[k].data = <<"tag", Tag>>
  <2>1. g[k].stem = inner.members[k].stem /\ g[k].suffix = inner.members[k].suffix
    BY InnerMembers
  <2>2. Is(g[k], "WHEEL") <=> Is(inner.members[k], "WHEEL")
    BY <2>1 DEF Is
  <2> QED
    BY <2>2, InnerMembers, CompiledMembers
<1> HIDE DEF g, c
<1>3. /\ Holder("WHEEL") \in 1 .. Size /\ Is(inner.members[Holder("WHEEL")], "WHEEL")
      /\ Data(g, "WHEEL") = g[Holder("WHEEL")].data
      /\ Data(c, "WHEEL") = c[Holder("WHEEL")].data
  BY <1>1, <1>2, DataIs DEF HasWheel
<1> QED
  BY <1>2, <1>3 DEF g, c

\* Compiled members for the selected sources, and the others as they were.
LEMMA CompiledHolds ==
    ASSUME inner \in Inner, NEW v
    PROVE  Holds(CompiledOf(v), v)
<1> DEFINE w == CompiledOf(v)
<1>1. DOMAIN inner.members = 1 .. Size /\ Len(w) = Size
  BY MembersType, CompiledIsSeq
<1>2. ASSUME NEW k \in 1 .. Size,
             ~ Is(inner.members[k], "WHEEL"), ~ Is(inner.members[k], "RECORD")
      PROVE  w[k] = IF Selected(inner.members[k])
                    THEN Member(inner.members[k].stem, ".pyc", <<"compiled", v>>)
                    ELSE Member(inner.members[k].stem, inner.members[k].suffix, <<"source", v>>)
  BY <1>2, CompiledMembers
<1>3. \A k \in 1 .. Size : Contains(w, w[k])
  BY <1>1 DEF Contains
<1> HIDE DEF w
<1>4. ASSUME NEW k \in 1 .. Size,
             ~ Is(inner.members[k], "WHEEL"), ~ Is(inner.members[k], "RECORD")
      PROVE  IF Selected(inner.members[k])
             THEN Contains(w, Member(inner.members[k].stem, ".pyc", <<"compiled", v>>))
             ELSE Contains(w, Member(inner.members[k].stem, inner.members[k].suffix, <<"source", v>>))
  BY <1>2, <1>3, <1>4
<1> QED
  BY <1>1, <1>4 DEF Holds, w

LEMMA WheelInvImplies ==
    ASSUME WheelInv
    PROVE  WheelsAreWhole /\ ReturnsTheWheel /\ NothingIsLost
<1> USE DEF WheelInv, WheelTypeOK
<1>1. \A v : Whole(InnerOf(v)) /\ Whole(CompiledOf(v))
  BY InnerMembers, CompiledMembers
<1>2. ASSUME NEW n \in DOMAIN dir \ {tmp_path}
      PROVE  Whole(dir[n]) /\ (HasWheel => Data(dir[n], "WHEEL") = <<"tag", n[1]>>)
  <2>1. PICK v \in Versions : \/ n = wheel_path /\ dir[n] = InnerOf(v)
                              \/ n = final_path /\ dir[n] = CompiledOf(v)
    BY DEF FilesAreWheels
  <2>2. Whole(dir[n])
    BY <1>1, <2>1
  <2>3. ASSUME HasWheel PROVE Data(dir[n], "WHEEL") = <<"tag", n[1]>>
    <3>1. wheel_path[1] = inner.tag /\ final_path[1] = Tag
      BY <2>3 DEF wheel_path, final_path, WheelName
    <3> QED
      BY <2>1, <2>3, <3>1, TagIs
  <2> QED
    BY <2>2, <2>3
<1>3. ReturnsTheWheel
  BY CompiledHolds DEF ReturnsTheWheel, UnderWay
<1>4. NothingIsLost
  <2>1. SomeWheel => \E n \in DOMAIN dir : Whole(dir[n])
    BY <1>1 DEF SomeWheel
  <2> QED
    BY <2>1 DEF NothingIsLost
<1> QED
  BY <1>2, <1>3, <1>4 DEF WheelsAreWhole

\* Whatever the other backend's wheel holds, and however often a build crashes
\* between two file operations of build_wheel(), or starts again on what the last
\* one has left: a file under the name of a wheel is complete, its RECORD is of
\* what is in it, and its WHEEL has the tag of its name (buildbackend.py:124-170).
THEOREM WheelsAreWholeHolds == BuildSpec => []WheelsAreWhole
<1> QED
  BY WheelInvHolds, WheelInvImplies, PTL

\* When build_wheel() returns, what it names is the only file, and is the wheel of
\* the sources as they were when it began, edits and crashes or not.
THEOREM ReturnsTheWheelHolds == BuildSpec => []ReturnsTheWheel
<1> QED
  BY WheelInvHolds, WheelInvImplies, PTL

\* The other backend's wheel is unlinked only when the compiled one is complete.
THEOREM NothingIsLostHolds == BuildSpec => []NothingIsLost
<1> QED
  BY WheelInvHolds, WheelInvImplies, PTL

=============================================================================
