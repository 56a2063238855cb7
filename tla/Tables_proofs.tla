---------------------------- MODULE Tables_proofs ----------------------------
(***************************************************************************)
(* Proofs about the tables of to_code() and from_code(), for any number of *)
(* instructions and entries, of any location, offset and depth, and varint *)
(* groups of any size.                                                     *)
(***************************************************************************)
EXTENDS Tables, SequenceTheorems, WellFoundedInduction, TLAPS

-----------------------------------------------------------------------------
(***************************************************************************)
(* One entry: what is written of a location is read as that location, and  *)
(* what the pairs of a range add up to; with the facts about sequences of  *)
(* bytes that the proofs about all the tables rest on.                     *)
(***************************************************************************)
LEMMA LeastMember ==
    ASSUME NEW S \in SUBSET Nat, S # {}
    PROVE  \E m \in S : \A k \in S : m <= k
<1>1. PICK m \in S : \A k \in S : <<k, m>> \notin OpToRel(<, Nat)
  BY NatLessThanWellFounded, WFMin
<1>2. \A k \in S : ~ (k < m)
  BY <1>1 DEF OpToRel
<1> QED BY <1>2

\* The value at x of a recursion that goes on at next[x], outside of B.
Step(g, B, base, head, next, x) == IF x \in B THEN base[x] ELSE head[x] \o g[next[x]]

\* It goes on at something smaller.
Descends(D, B, next, m) ==
    /\ m \in [D -> Nat]
    /\ \A x \in D \ B : next[x] \in D /\ m[next[x]] < m[x]

Recursion(f, D, B, base, head, next) == f = [x \in D |-> Step(f, B, base, head, next, x)]

LEMMA RecursionExists ==
    ASSUME NEW D, NEW B, NEW base, NEW head, NEW next, NEW m, Descends(D, B, next, m)
    PROVE  \E f : Recursion(f, D, B, base, head, next)
<1> m \in [D -> Nat] /\ \A x \in D \ B : next[x] \in D /\ m[next[x]] < m[x]
  BY DEF Descends
<1> DEFINE V(g, x) == Step(g, B, base, head, next, x)
           Upto(g, n) == \A x \in D : m[x] <= n => g[x] = V(g, x)
<1>0. \A g, h, x : (x \in D \ B => g[next[x]] = h[next[x]]) /\ x \in D => V(g, x) = V(h, x)
  BY DEF Step
<1> HIDE DEF V
<1>1. \A n \in Nat : \E g : Upto(g, n)
  <2> DEFINE C == {n \in Nat : ~ \E g : Upto(g, n)}
  <2> SUFFICES ASSUME C # {} PROVE FALSE
    OBVIOUS
  <2>1. PICK k \in C : \A j \in C : k <= j
    BY LeastMember
  <2>2. PICK g : k = 0 \/ Upto(g, k - 1)
    <3>1. k # 0 => k - 1 \in Nat /\ k - 1 \notin C
      BY <2>1
    <3> QED BY <3>1
  <2> DEFINE h == [x \in D |-> IF m[x] = k THEN V(g, x) ELSE g[x]]
  <2>3. ASSUME NEW x \in D, m[x] <= k PROVE h[x] = V(h, x)
    <3>1. x \in D \ B => h[next[x]] = g[next[x]]
      <4> HAVE x \in D \ B
      <4>1. next[x] \in D /\ m[next[x]] # k
        BY <2>3
      <4> QED BY <4>1
    <3>2. V(h, x) = V(g, x)
      BY <1>0, <3>1
    <3>3. CASE m[x] = k
      BY <3>2, <3>3
    <3>4. CASE m[x] # k
      <4>1. k # 0 /\ m[x] <= k - 1
        BY <2>3, <3>4
      <4>2. g[x] = V(g, x)
        BY <2>2, <4>1
      <4> QED BY <3>2, <3>4, <4>2
    <3> QED BY <3>3, <3>4
  <2>4. Upto(h, k)
    BY <2>3
  <2> QED BY <2>4
<1>2. ASSUME NEW n \in Nat, NEW l \in Nat, NEW g, NEW h, Upto(g, n), Upto(h, l)
      PROVE  \A x \in D : m[x] <= n /\ m[x] <= l => g[x] = h[x]
  <2> DEFINE C == {k \in Nat : \E x \in D : m[x] = k /\ k <= n /\ k <= l /\ g[x] # h[x]}
  <2>1. C = {}
    <3> SUFFICES ASSUME C # {} PROVE FALSE
      OBVIOUS
    <3>1. PICK k \in C : \A j \in C : k <= j
      BY LeastMember
    <3>2. PICK x \in D : m[x] = k /\ k <= n /\ k <= l /\ g[x] # h[x]
      OBVIOUS
    <3>3. g[x] = V(g, x) /\ h[x] = V(h, x)
      BY <1>2, <3>2
    <3>4. x \in D \ B => g[next[x]] = h[next[x]]
      <4> HAVE x \in D \ B
      <4> PICK j \in Nat : j = m[next[x]]
        OBVIOUS
      <4>1. next[x] \in D /\ j < k /\ j <= n /\ j <= l /\ ~ (k <= j)
        BY <3>2
      <4>2. j \notin C
        BY <3>1, <4>1
      <4> QED BY <4>1, <4>2
    <3>5. V(g, x) = V(h, x)
      BY <1>0, <3>4
    <3> QED BY <3>2, <3>3, <3>5
  <2>2. ASSUME NEW x \in D, m[x] <= n, m[x] <= l PROVE g[x] = h[x]
    <3>1. m[x] \in Nat /\ m[x] \notin C
      BY <2>1
    <3> QED BY <2>2, <3>1
  <2> QED BY <2>2
<1> DEFINE pick(x) == CHOOSE g : Upto(g, m[x])
           f == [x \in D |-> pick(x)[x]]
<1>3. \A x \in D : Upto(pick(x), m[x])
  <2> TAKE x \in D
  <2>1. m[x] \in Nat
    OBVIOUS
  <2>2. \E g : Upto(g, m[x])
    BY <1>1, <2>1
  <2> HIDE DEF Upto
  <2> QED BY <2>2
<1> HIDE DEF pick
<1>4. ASSUME NEW x \in D PROVE f[x] = V(f, x)
  <2>1. f[x] = V(pick(x), x)
    BY <1>3
  <2>2. x \in D \ B => f[next[x]] = pick(x)[next[x]]
    <3> HAVE x \in D \ B
    <3> PICK y \in D : y = next[x] /\ m[y] < m[x]
      OBVIOUS
    <3>1. m[y] \in Nat /\ m[x] \in Nat /\ m[y] <= m[x] /\ m[y] <= m[y]
      OBVIOUS
    <3>2. Upto(pick(x), m[x]) /\ Upto(pick(y), m[y])
      BY <1>3
    <3>3. f[y] = pick(y)[y]
      OBVIOUS
    <3> HIDE DEF f, Upto
    <3>4. pick(y)[y] = pick(x)[y]
      BY <1>2, <3>1, <3>2
    <3> QED BY <3>3, <3>4
  <2>3. V(f, x) = V(pick(x), x)
    <3> HIDE DEF f
    <3> QED BY <1>0, <2>2
  <2> QED BY <2>1, <2>3
<1>5. f = [x \in D |-> Step(f, B, base, head, next, x)]
  <2> USE DEF V
  <2> QED BY <1>4
<1> HIDE DEF f
<1> QED BY <1>5 DEF Recursion

LEMMA MinIs ==
    ASSUME NEW S \in SUBSET Int, NEW m \in S, \A x \in S : m <= x
    PROVE  Min(S) = m
<1> DEFINE c == CHOOSE x \in S : \A y \in S : x <= y
<1>1. c \in S /\ \A y \in S : c <= y
  OBVIOUS
<1> HIDE DEF c
<1>2. c \in Int /\ m \in Int /\ c <= m /\ m <= c
  BY <1>1
<1>3. c = m
  BY <1>2
<1> QED BY <1>3, Zenon DEF Min, c

-----------------------------------------------------------------------------
(***************************************************************************)
(* Sequences in sequences.                                                 *)
(***************************************************************************)
LEMMA ConcatIs ==
    ASSUME NEW S, NEW s \in Seq(S), NEW t \in Seq(S)
    PROVE  /\ s \o t \in Seq(S)
           /\ Len(s) \in Nat /\ Len(t) \in Nat /\ Len(s \o t) = Len(s) + Len(t)
           /\ \A k \in 1 .. Len(s) : (s \o t)[k] = s[k]
           /\ \A k \in 1 .. Len(t) : (s \o t)[Len(s) + k] = t[k]
<1>1. /\ s \o t \in Seq(S) /\ Len(s \o t) = Len(s) + Len(t)
      /\ \A k \in 1 .. Len(s) + Len(t) :
            (s \o t)[k] = IF k <= Len(s) THEN s[k] ELSE t[k - Len(s)]
  BY ConcatProperties
<1>2. Len(s) \in Nat /\ Len(t) \in Nat
  OBVIOUS
<1> PICK m : m = Len(s)
  OBVIOUS
<1> PICK n : n = Len(t)
  OBVIOUS
<1> PICK u : u = s \o t
  OBVIOUS
<1>3. ASSUME NEW k \in 1 .. n PROVE u[m + k] = t[k]
  <2>1. m + k \in 1 .. m + n /\ ~ (m + k <= m) /\ (m + k) - m = k
    BY <1>2
  <2> QED BY <1>1, <2>1
<1>4. ASSUME NEW k \in 1 .. m PROVE u[k] = s[k]
  <2>1. k \in 1 .. m + n /\ k <= m
    BY <1>2
  <2> QED BY <1>1, <2>1
<1> QED BY <1>1, <1>2, <1>3, <1>4

\* From position q on, the bytes b start with the bytes s.
Holds(b, q, s) ==
    /\ q \in Nat \ {0} /\ q + Len(s) - 1 <= Len(b)
    /\ \A k \in 1 .. Len(s) : b[q + k - 1] = s[k]

LEMMA HoldsParts ==
    ASSUME NEW S, NEW bs, NEW pos, NEW s \in Seq(S), NEW t \in Seq(S), Holds(bs, pos, s \o t),
           Len(bs) \in Nat
    PROVE  Holds(bs, pos, s) /\ Holds(bs, pos + Len(s), t)
<1> PICK m : m = Len(s)
  OBVIOUS
<1> PICK n : n = Len(t)
  OBVIOUS
<1> PICK u : u = s \o t
  OBVIOUS
<1>1. /\ m \in Nat /\ n \in Nat /\ Len(u) = m + n
      /\ \A k \in 1 .. m : u[k] = s[k]
      /\ \A k \in 1 .. n : u[m + k] = t[k]
  BY ConcatIs
<1>2. /\ pos \in Nat /\ pos > 0 /\ pos + (m + n) - 1 <= Len(bs)
      /\ \A k \in 1 .. m + n : bs[pos + k - 1] = u[k]
  BY <1>1 DEF Holds
<1>3. Holds(bs, pos, s)
  <2>1. ASSUME NEW k \in 1 .. m PROVE bs[pos + k - 1] = s[k]
    <3>1. k \in 1 .. m + n
      BY <1>1
    <3> QED BY <1>1, <1>2, <3>1
  <2>2. pos + m - 1 <= Len(bs)
    BY <1>1, <1>2
  <2> QED BY <1>2, <2>1, <2>2 DEF Holds
<1>4. Holds(bs, pos + m, t)
  <2>1. ASSUME NEW k \in 1 .. n PROVE bs[pos + m + k - 1] = t[k]
    <3>1. m + k \in 1 .. m + n /\ pos + (m + k) - 1 = pos + m + k - 1
      BY <1>1, <1>2
    <3>2. bs[pos + (m + k) - 1] = u[m + k]
      BY <1>2, <3>1
    <3> QED BY <1>1, <3>1, <3>2
  <2>2. pos + m \in Nat \ {0} /\ pos + m + n - 1 <= Len(bs)
    BY <1>1, <1>2
  <2> QED BY <2>1, <2>2 DEF Holds
<1> QED BY <1>1, <1>3, <1>4

LEMMA HoldsLonger ==
    ASSUME NEW t, NEW u, NEW q, NEW s, Holds(t, q, s),
           Len(t) \in Nat, Len(u) \in Nat, Len(s) \in Nat, Len(t) <= Len(u),
           \A k \in 1 .. Len(t) : u[k] = t[k]
    PROVE  Holds(u, q, s)
<1> PICK n : n = Len(t)
  OBVIOUS
<1> PICK m : m = Len(s)
  OBVIOUS
<1>1. q \in Nat \ {0} /\ q + m - 1 <= n /\ n \in Nat /\ m \in Nat
  BY DEF Holds
<1>2. ASSUME NEW k \in 1 .. m PROVE u[q + k - 1] = s[k]
  <2>1. q + k - 1 \in 1 .. n
    BY <1>1
  <2> QED BY <2>1 DEF Holds
<1>3. q + m - 1 <= Len(u)
  BY <1>1
<1> QED BY <1>1, <1>2, <1>3 DEF Holds

LEMMA HoldsAt ==
    ASSUME NEW b, NEW q, NEW s, Holds(b, q, s), Len(s) \in Nat,
           NEW x \in Nat, ~ (x < q), x < q + Len(s)
    PROVE  \E o \in 1 .. Len(s) : q + o - 1 = x /\ b[x] = s[o]
<1> PICK n : n = Len(s)
  OBVIOUS
<1> PICK o : o = x - q + 1
  OBVIOUS
<1>1. q \in Nat \ {0}
  BY DEF Holds
<1>2. o \in 1 .. n /\ q + o - 1 = x
  BY <1>1
<1>3. b[q + o - 1] = s[o]
  BY <1>2 DEF Holds
<1> QED BY <1>2, <1>3

-----------------------------------------------------------------------------
(***************************************************************************)
(* Varints, the least significant group first.                             *)
(***************************************************************************)
Byte == 0 .. 255

LEMMA SixBits ==
    ASSUME NEW v \in Nat
    PROVE  /\ v \div 64 \in Nat /\ v % 64 \in 0 .. 63
           /\ v = 64 * (v \div 64) + (v % 64)
           /\ v \div 64 <= v
           /\ v > 0 => v \div 64 < v
  OBVIOUS

Written(g, v) == IF v < 64 THEN <<v>> ELSE <<LowGroup(v)>> \o g[v \div 64]

LEMMA WriteVarintIs == \A v \in Nat : WriteVarint[v] = Written(WriteVarint, v)
<1> DEFINE base == [v \in Nat |-> <<v>>]
           head == [v \in Nat |-> <<LowGroup(v)>>]
           next == [v \in Nat |-> v \div 64]
           size == [v \in Nat |-> v]
<1>1. Descends(Nat, 0 .. 63, next, size)
  <2>1. size \in [Nat -> Nat]
    OBVIOUS
  <2>2. ASSUME NEW v \in Nat \ (0 .. 63) PROVE next[v] \in Nat /\ size[next[v]] < size[v]
    <3>1. v \div 64 \in Nat /\ v \div 64 < v
      OBVIOUS
    <3> QED BY <3>1
  <2> HIDE DEF next, size
  <2> QED BY <2>1, <2>2 DEF Descends
<1>2. \A g : \A v \in Nat : Step(g, 0 .. 63, base, head, next, v)
                          = IF v < 64 THEN <<v>> ELSE <<LowGroup(v)>> \o g[v \div 64]
  <2>1. \A v \in Nat : v \in 0 .. 63 <=> v < 64
    OBVIOUS
  <2>2. \A v \in Nat : base[v] = <<v>> /\ head[v] = <<LowGroup(v)>> /\ next[v] = v \div 64
    OBVIOUS
  <2> HIDE DEF base, head, next
  <2> QED BY <2>1, <2>2, Zenon DEF Step
<1> HIDE DEF base, head, next, size
<1>3. PICK f : Recursion(f, Nat, 0 .. 63, base, head, next)
  BY <1>1, RecursionExists
<1>4. f = [v \in Nat |-> IF v < 64 THEN <<v>> ELSE <<LowGroup(v)>> \o f[v \div 64]]
  BY <1>2, <1>3 DEF Recursion
<1>5. \E e : e = [v \in Nat |-> IF v < 64 THEN <<v>> ELSE <<LowGroup(v)>> \o e[v \div 64]]
  BY <1>4
<1>6. WriteVarint = [v \in Nat |-> IF v < 64 THEN <<v>> ELSE <<LowGroup(v)>> \o WriteVarint[v \div 64]]
  BY <1>5 DEF WriteVarint
<1> QED BY <1>6 DEF Written

\* Bytes that read_varint() reads as one varint, and no further.
Stops(s) ==
    /\ s \in Seq(0 .. 127) /\ Len(s) \in Nat /\ Len(s) >= 1
    /\ \A k \in 1 .. Len(s) : Continues(s[k]) <=> k # Len(s)

LEMMA GroupBits ==
    /\ \A v \in Nat : /\ LowGroup(v) \in 0 .. 127 /\ Continues(LowGroup(v))
                      /\ LowGroup(v) % 64 = v % 64
    /\ \A v \in 0 .. 63 : ~ Continues(v) /\ v % 64 = v
  BY DEF LowGroup, Continues

\* A byte in front of a sequence.
LEMMA ConsIs ==
    ASSUME NEW S, NEW x \in S, NEW t \in Seq(S), NEW u, u = <<x>> \o t
    PROVE  /\ u \in Seq(S) /\ Len(t) \in Nat /\ Len(u) = Len(t) + 1 /\ u[1] = x
           /\ \A k \in 2 .. Len(t) + 1 : u[k] = t[k - 1]
<1>1. <<x>> \in Seq(S) /\ Len(<<x>>) = 1 /\ <<x>>[1] = x
  OBVIOUS
<1>2. /\ u \in Seq(S) /\ Len(t) \in Nat /\ Len(u) = 1 + Len(t)
      /\ \A k \in 1 .. 1 : u[k] = <<x>>[k]
      /\ \A k \in 1 .. Len(t) : u[1 + k] = t[k]
  BY <1>1, ConcatIs
<1> PICK n : n = Len(t)
  OBVIOUS
<1>3. ASSUME NEW k \in 2 .. n + 1 PROVE u[k] = t[k - 1]
  <2>1. k - 1 \in 1 .. n /\ 1 + (k - 1) = k
    BY <1>2
  <2> QED BY <1>2, <2>1
<1> QED BY <1>1, <1>2, <1>3

LEMMA VarintStops == \A v \in Nat : Stops(WriteVarint[v])
<1> DEFINE B == {v \in Nat : ~ Stops(WriteVarint[v])}
<1> SUFFICES ASSUME B # {} PROVE FALSE
  OBVIOUS
<1>1. PICK v \in B : \A k \in B : v <= k
  BY LeastMember
<1> PICK s : s = WriteVarint[v]
  OBVIOUS
<1>2. v \in Nat /\ ~ Stops(s)
  OBVIOUS
<1>3. s = IF v < 64 THEN <<v>> ELSE <<LowGroup(v)>> \o WriteVarint[v \div 64]
  BY <1>2, WriteVarintIs DEF Written
<1>4. CASE v < 64
  <2>1. s = <<v>> /\ v \in 0 .. 63 /\ v \in 0 .. 127
    BY <1>2, <1>3, <1>4
  <2>2. s \in Seq(0 .. 127) /\ Len(s) = 1 /\ s[1] = v
    BY <2>1
  <2>3. ~ Continues(v)
    BY <2>1, GroupBits
  <2>4. \A k \in 1 .. Len(s) : k = Len(s) /\ ~ Continues(s[k])
    BY <2>2, <2>3
  <2>5. Stops(s)
    BY <2>2, <2>4 DEF Stops
  <2> QED BY <1>2, <2>5
<1>5. CASE ~ (v < 64)
  <2> PICK q : q = v \div 64
    OBVIOUS
  <2> PICK t : t = WriteVarint[q]
    OBVIOUS
  <2>1. q \in Nat /\ q < v
    BY <1>2, <1>5
  <2>2. Stops(t)
    <3>1. ~ (v <= q)
      BY <1>2, <2>1
    <3> QED BY <1>1, <2>1, <3>1
  <2>3. s = <<LowGroup(v)>> \o t
    BY <1>3, <1>5
  <2> PICK n : n = Len(t)
    OBVIOUS
  <2>4. n \in Nat /\ n >= 1 /\ t \in Seq(0 .. 127) /\ \A k \in 1 .. n : Continues(t[k]) <=> k # n
    BY <2>2 DEF Stops
  <2>5. LowGroup(v) \in 0 .. 127 /\ Continues(LowGroup(v))
    BY <1>2, GroupBits
  <2>6. s \in Seq(0 .. 127) /\ Len(s) = n + 1 /\ s[1] = LowGroup(v)
        /\ \A k \in 2 .. n + 1 : s[k] = t[k - 1]
    BY <2>3, <2>4, <2>5, ConsIs
  <2>7. ASSUME NEW k \in 1 .. n + 1 PROVE Continues(s[k]) <=> k # n + 1
    <3>1. CASE k = 1
      BY <2>4, <2>5, <2>6, <3>1
    <3>2. CASE k # 1
      <4>1. k \in 2 .. n + 1 /\ k - 1 \in 1 .. n /\ (k - 1 = n <=> k = n + 1)
        BY <2>4, <3>2
      <4> QED BY <2>4, <2>6, <4>1
    <3> QED BY <3>1, <3>2
  <2> HIDE DEF B
  <2> QED BY <1>2, <2>4, <2>6, <2>7 DEF Stops
<1> QED BY <1>4, <1>5

\* u is what the n bytes of d from q on add up to, from each of them.
Adds(u, q, n, d) ==
    /\ u[q + n] = 0
    /\ \A x \in q .. q + n - 1 : u[x] = (d[x] % 64) + 64 * u[x + 1]

Matches(d, q, t) == \A k \in 1 .. Len(t) : d[q + k - 1] = t[k]

SumsTo(t, v) ==
    \A q \in Nat : \A u : \A d : Adds(u, q, Len(t), d) /\ Matches(d, q, t) => u[q] = v

\* w is x and then z.
Conses(w, x, z) == /\ Len(z) \in Nat /\ Len(w) = Len(z) + 1 /\ w[1] = x
                   /\ \A k \in 2 .. Len(z) + 1 : w[k] = z[k - 1]

LEMMA SumsToMore ==
    ASSUME NEW z, NEW y \in Nat, SumsTo(z, y), NEW e \in 0 .. 127, NEW w, Conses(w, e, z),
           NEW v, v = (e % 64) + 64 * y
    PROVE  SumsTo(w, v)
<1> PICK h \in Nat : h = Len(z)
  BY DEF Conses
<1>0. w[1] = e /\ Len(w) = h + 1 /\ \A k \in 2 .. h + 1 : w[k] = z[k - 1]
  BY DEF Conses
<1> SUFFICES ASSUME NEW n \in Nat, NEW q \in Nat, NEW u, NEW d, n = h + 1, Adds(u, q, n, d),
                    \A k \in 1 .. n : d[q + k - 1] = w[k]
             PROVE  u[q] = (e % 64) + 64 * y
  BY <1>0 DEF SumsTo, Matches
<1>1. q + n = (q + 1) + h
  OBVIOUS
<1>2. Adds(u, q + 1, h, d)
  <2>1. u[(q + 1) + h] = 0
    BY <1>1 DEF Adds
  <2>2. \A x \in q + 1 .. (q + 1) + h - 1 : x \in q .. q + n - 1
    OBVIOUS
  <2> QED BY <2>1, <2>2 DEF Adds
<1>3. ASSUME NEW k \in 1 .. h PROVE d[(q + 1) + k - 1] = z[k]
  <2>1. k + 1 \in 1 .. n /\ k + 1 \in 2 .. h + 1 /\ (q + 1) + k - 1 = q + (k + 1) - 1
        /\ (k + 1) - 1 = k
    OBVIOUS
  <2>2. d[q + (k + 1) - 1] = w[k + 1] /\ w[k + 1] = z[k]
    BY <1>0, <2>1
  <2> QED BY <2>1, <2>2
<1>4. u[q + 1] = y
  <2>1. q + 1 \in Nat
    OBVIOUS
  <2>2. Adds(u, q + 1, Len(z), d) /\ Matches(d, q + 1, z)
    BY <1>2, <1>3 DEF Matches
  <2> QED BY <2>1, <2>2 DEF SumsTo
<1>5. d[q] = e
  <2>1. 1 \in 1 .. n /\ q + 1 - 1 = q
    OBVIOUS
  <2> QED BY <1>0, <2>1
<1>6. u[q] = (d[q] % 64) + 64 * u[q + 1]
  <2>1. q \in q .. q + n - 1
    OBVIOUS
  <2> QED BY <2>1 DEF Adds
<1> QED BY <1>4, <1>5, <1>6

LEMMA VarintSums == \A v \in Nat : SumsTo(WriteVarint[v], v)
<1> DEFINE B == {v \in Nat : ~ SumsTo(WriteVarint[v], v)}
<1> SUFFICES ASSUME B # {} PROVE FALSE
  OBVIOUS
<1>1. PICK v \in B : \A k \in B : v <= k
  BY LeastMember
<1>2. v \in Nat /\ ~ SumsTo(WriteVarint[v], v)
  OBVIOUS
<1>3. WriteVarint[v] = IF v < 64 THEN <<v>> ELSE <<LowGroup(v)>> \o WriteVarint[v \div 64]
  BY <1>2, WriteVarintIs DEF Written
<1>4. CASE v < 64
  <2>1. WriteVarint[v] = <<v>>
    BY <1>3, <1>4
  <2>2. SumsTo(<<v>>, v)
    <3> SUFFICES ASSUME NEW q \in Nat, NEW u, NEW d, Adds(u, q, 1, d),
                        \A k \in 1 .. 1 : d[q + k - 1] = <<v>>[k]
                 PROVE  u[q] = v
      BY DEF SumsTo, Matches
    <3>1. q \in q .. q + 1 - 1 /\ d[q + 1 - 1] = v /\ q + 1 - 1 = q
      OBVIOUS
    <3>2. d[q] = v
      BY <3>1
    <3>3. u[q] = (v % 64) + 64 * 0
      BY <3>1, <3>2 DEF Adds
    <3> QED BY <1>2, <1>4, <3>3
  <2> QED BY <1>2, <2>1, <2>2
<1>5. CASE ~ (v < 64)
  <2> PICK r : r = v \div 64
    OBVIOUS
  <2> PICK t : t = WriteVarint[r]
    OBVIOUS
  <2>1. r \in Nat /\ r < v /\ v = (v % 64) + 64 * r
    BY <1>2, <1>5, SixBits
  <2>2. LowGroup(v) % 64 = v % 64 /\ LowGroup(v) \in 0 .. 127
    BY <1>2, GroupBits
  <2>3. SumsTo(t, r) /\ Stops(t)
    <3>1. ~ (v <= r)
      BY <1>2, <2>1
    <3>2. r \notin B
      BY <1>1, <3>1
    <3> QED BY <2>1, <3>2, VarintStops
  <2>4. t \in Seq(0 .. 127) /\ Len(t) \in Nat
    BY <2>3 DEF Stops
  <2> PICK s : s = <<LowGroup(v)>> \o t
    OBVIOUS
  <2>5. Conses(s, LowGroup(v), t)
    BY <2>2, <2>4, ConsIs DEF Conses
  <2>6. SumsTo(s, v)
    BY <2>1, <2>2, <2>3, <2>5, SumsToMore
  <2>7. s = WriteVarint[v]
    BY <1>3, <1>5
  <2> QED BY <1>2, <2>6, <2>7
<1> QED BY <1>4, <1>5
\* What read_varint() has of the low parts d, from each byte to byte l.
Downs(u, l, n, d) ==
    u = [x \in l + 1 - n .. l + 1 |-> IF x > l THEN 0 ELSE d[x] + 64 * u[x + 1]]

LEMMA DownExists ==
    ASSUME NEW l \in Nat, NEW d
    PROVE  \A n \in Nat : \E u : Downs(u, l, n, d)
<1> DEFINE B == {n \in Nat : ~ \E u : Downs(u, l, n, d)}
<1> SUFFICES ASSUME B # {} PROVE FALSE
  OBVIOUS
<1>1. PICK m \in B : \A k \in B : m <= k
  BY LeastMember
<1>2. m \in Nat /\ ~ (\E u : Downs(u, l, m, d))
  OBVIOUS
<1>3. CASE m = 0
  <2> DEFINE u == [x \in l + 1 - 0 .. l + 1 |-> 0]
  <2>1. \A x \in l + 1 - 0 .. l + 1 : x > l
    OBVIOUS
  <2>2. Downs(u, l, 0, d)
    BY <2>1 DEF Downs
  <2> QED BY <1>2, <1>3, <2>2
<1>4. CASE m > 0
  <2>1. m - 1 \in Nat /\ ~ (m <= m - 1)
    BY <1>2, <1>4
  <2>2. PICK w : Downs(w, l, m - 1, d)
    BY <1>1, <2>1
  <2> PICK a : a = l + 1 - m
    OBVIOUS
  <2>3. a \in Int /\ l + 1 - (m - 1) = a + 1 /\ a <= l
    BY <1>2, <1>4
  <2>4. w = [x \in a + 1 .. l + 1 |-> IF x > l THEN 0 ELSE d[x] + 64 * w[x + 1]]
    BY <2>2, <2>3 DEF Downs
  <2> DEFINE u == [x \in a .. l + 1 |-> IF x = a THEN d[a] + 64 * w[a + 1] ELSE w[x]]
  <2>5. ASSUME NEW x \in a .. l + 1
        PROVE  u[x] = IF x > l THEN 0 ELSE d[x] + 64 * u[x + 1]
    <3>1. x <= l => x + 1 \in a .. l + 1 /\ x + 1 # a /\ u[x + 1] = w[x + 1]
      BY <2>3
    <3>2. x # a => x \in a + 1 .. l + 1
      BY <2>3
    <3> QED BY <2>3, <2>4, <3>1, <3>2
  <2>6. Downs(u, l, m, d)
    BY <2>5 DEF Downs
  <2> QED BY <1>2, <2>6
<1> QED BY <1>2, <1>3, <1>4

LEMMA ContinuesTo ==
    ASSUME NEW d, NEW w, NEW e \in Nat \ {0}, Matches(d, e, w), Stops(w)
    PROVE  \E l \in Nat : e <= l /\ e + Len(w) = l + 1 /\ \A x \in e .. l : Continues(d[x]) <=> x # l
<1>0. PICK m \in Nat : /\ m = Len(w) /\ m >= 1
                       /\ \A k \in 1 .. m : d[e + k - 1] = w[k]
                       /\ \A k \in 1 .. m : Continues(w[k]) <=> k # m
  BY DEF Matches, Stops
<1>1. PICK l \in Int : l = e + m - 1
  BY <1>0
<1>2. l \in Nat /\ e <= l /\ e + m = l + 1
  BY <1>0, <1>1
<1>3. ASSUME NEW x \in e .. l PROVE Continues(d[x]) <=> x # l
  <2> PICK k \in Int : k = x - e + 1
    OBVIOUS
  <2>1. k \in 1 .. m /\ e + k - 1 = x /\ (k # m <=> x # l)
    BY <1>0, <1>1
  <2>2. d[x] = w[k]
    BY <1>0, <2>1
  <2> QED BY <1>0, <2>1, <2>2
<1> QED BY <1>0, <1>2, <1>3

LEMMA ReadsTo ==
    ASSUME NEW b, Len(b) \in Nat, NEW q \in Nat \ {0}, NEW last \in Nat,
           q <= last, last <= Len(b),
           \A x \in q .. last : Continues(b[x]) <=> x # last,
           NEW v \in Nat, NEW s, SumsTo(s, v), Len(s) \in Nat, q + Len(s) = last + 1,
           Matches(b, q, s)
    PROVE  ReadVarint(b, q) = [val |-> Signed(v), next |-> last + 1]
<1> PICK L \in Nat : L = Len(b)
  OBVIOUS
<1> PICK n \in Nat : n = Len(s)
  OBVIOUS
<1>2. q \in Nat /\ last \in Nat /\ n \in Nat /\ q + n - 1 = last
  OBVIOUS
<1>3. q <= last /\ last <= L /\ \A x \in q .. last : Continues(b[x]) <=> x # last
  OBVIOUS
<1> DEFINE Ends == {x \in q .. L : ~ Continues(b[x])} \cup {L}
           Is(u) == u = [x \in q .. last + 1 |-> IF x > last THEN 0 ELSE (b[x] % 64) + 64 * u[x + 1]]
<1>5. Min(Ends) = last
  <2>1. last \in Ends
    BY <1>2, <1>3
  <2>2. ASSUME NEW x \in Ends PROVE last <= x
    <3>1. x = L \/ (x \in q .. L /\ ~ Continues(b[x]))
      OBVIOUS
    <3>2. x \in q .. L /\ x < last => x \in q .. last
      BY <1>2
    <3> HIDE DEF Ends
    <3> QED BY <1>2, <1>3, <3>1, <3>2
  <2>3. Ends \in SUBSET Int
    BY <1>2
  <2> HIDE DEF Ends
  <2> QED BY <2>1, <2>2, <2>3, MinIs
<1>6. ReadVarint(b, q) = [val |-> Signed((CHOOSE u : Is(u))[q]), next |-> last + 1]
  BY <1>5, Zenon DEF ReadVarint
<1>7. \E u : Is(u)
  <2> DEFINE low == [x \in q .. last |-> b[x] % 64]
  <2>1. PICK u : Downs(u, last, n, low)
    <3> HIDE DEF low
    <3> QED BY <1>2, DownExists
  <2>2. last + 1 - n = q
    BY <1>2, <1>3
  <2>3. u = [x \in q .. last + 1 |-> IF x > last THEN 0 ELSE low[x] + 64 * u[x + 1]]
    BY <2>1, <2>2 DEF Downs
  <2>4. ASSUME NEW x \in q .. last + 1
        PROVE  (IF x > last THEN 0 ELSE low[x] + 64 * u[x + 1])
                  = IF x > last THEN 0 ELSE (b[x] % 64) + 64 * u[x + 1]
    <3>1. ~ (x > last) => x \in q .. last
      BY <1>2, <1>3
    <3>2. x \in q .. last => low[x] = b[x] % 64
      OBVIOUS
    <3> HIDE DEF low
    <3> QED BY <3>1, <3>2
  <2> HIDE DEF low
  <2>5. Is(u)
    BY <2>3, <2>4
  <2> QED BY <2>5
<1>8. ASSUME NEW u, Is(u) PROVE u[q] = v
  <2>1. \A x \in q .. last + 1 : u[x] = IF x > last THEN 0 ELSE (b[x] % 64) + 64 * u[x + 1]
    BY <1>8
  <2>2. q + n = last + 1 /\ q + n - 1 = last
    BY <1>2, <1>3
  <2>3. u[last + 1] = 0
    BY <1>2, <1>3, <2>1
  <2>4. \A x \in q .. last : x \in q .. last + 1 /\ ~ (x > last)
    BY <1>2, <1>3
  <2>5. Adds(u, q, Len(s), b)
    BY <2>1, <2>2, <2>3, <2>4 DEF Adds
  <2>6. Matches(b, q, s)
    OBVIOUS
  <2> QED BY <1>2, <2>5, <2>6 DEF SumsTo
<1> HIDE DEF Is
<1>9. (CHOOSE u : Is(u))[q] = v
  BY <1>7, <1>8
<1> QED BY <1>6, <1>9

\* Where a varint lies in a table, that varint is read, and no byte more.
LEMMA ReadVarintIs ==
    ASSUME NEW b \in Seq(Byte), NEW q \in Nat \ {0}, NEW v \in Nat, NEW s, s = WriteVarint[v],
           Holds(b, q, s)
    PROVE  ReadVarint(b, q) = [val |-> Signed(v), next |-> q + Len(s)]
<1>1. Stops(s) /\ SumsTo(s, v) /\ Matches(b, q, s) /\ q + Len(s) - 1 <= Len(b)
  BY VarintStops, VarintSums DEF Holds, Matches
<1>2. Len(s) \in Nat /\ Len(b) \in Nat
  BY <1>1, LenProperties DEF Stops
<1>3. PICK last \in Nat : q <= last /\ q + Len(s) = last + 1
                           /\ \A x \in q .. last : Continues(b[x]) <=> x # last
  BY <1>1, ContinuesTo
<1>4. last <= Len(b)
  BY <1>1, <1>2, <1>3
<1>5. ReadVarint(b, q) = [val |-> Signed(v), next |-> last + 1]
  BY <1>1, <1>2, <1>3, <1>4, ReadsTo
<1> QED BY <1>3, <1>5
LEMMA LimitType == /\ IntModulus \in Nat /\ IntModulus > 0 /\ Limit \in Nat
                   /\ 4 * Limit <= IntModulus
<1>1. IntModulus \in Nat /\ IntModulus > 0
  BY IntModulusAssumption
<1>2. \A m \in Nat : m \div 4 \in Nat /\ 4 * (m \div 4) <= m
  OBVIOUS
<1> QED BY <1>1, <1>2 DEF Limit

LEMMA UnsignedIs ==
    ASSUME NEW v \in Int, -2 * Limit <= v, v < 2 * Limit
    PROVE  Unsigned(v) \in Nat /\ Signed(Unsigned(v)) = v
<1>1. CASE v >= 0
  <2>1. Unsigned(v) = v
    BY <1>1, LimitType DEF Unsigned
  <2> QED BY <1>1, <2>1, LimitType DEF Signed
<1>2. CASE v < 0
  <2>1. Unsigned(v) = v + IntModulus
    BY <1>2, LimitType DEF Unsigned
  <2> QED BY <1>2, <2>1, LimitType DEF Signed
<1> QED BY <1>1, <1>2

\* b has a varint of v from q to r.
HasUnsigned(b, q, r, v) ==
    /\ v \in Int /\ -2 * Limit <= v /\ v < 2 * Limit
    /\ Holds(b, q, WriteVarint[Unsigned(v)]) /\ r = q + Len(WriteVarint[Unsigned(v)])

HasSigned(b, q, r, v) ==
    /\ v \in Int /\ -Limit < v /\ v < Limit
    /\ Holds(b, q, WriteSigned(v)) /\ r = q + Len(WriteSigned(v))

LEMMA ReadsUnsigned ==
    ASSUME NEW b \in Seq(Byte), NEW q \in Nat \ {0}, NEW r, NEW v, HasUnsigned(b, q, r, v)
    PROVE  ReadVarint(b, q).val = v /\ ReadVarint(b, q).next = r
<1>1. Unsigned(v) \in Nat /\ Signed(Unsigned(v)) = v
  BY UnsignedIs DEF HasUnsigned
<1>2. PICK x, s : x \in Nat /\ x = Unsigned(v) /\ s = WriteVarint[x]
  BY <1>1
<1>3. Holds(b, q, s) /\ r = q + Len(s)
  BY <1>2 DEF HasUnsigned
<1>4. ReadVarint(b, q) = [val |-> Signed(x), next |-> q + Len(s)]
  BY <1>2, <1>3, ReadVarintIs
<1> QED BY <1>1, <1>2, <1>3, <1>4

LEMMA ReadsSigned ==
    ASSUME NEW b \in Seq(Byte), NEW q \in Nat \ {0}, NEW r, NEW v, HasSigned(b, q, r, v)
    PROVE  ReadSigned(b, q).val = v /\ ReadSigned(b, q).next = r
<1>0. PICK s : /\ s = WriteSigned(v) /\ Holds(b, q, s) /\ r = q + Len(s)
               /\ v \in Int /\ -Limit < v /\ v < Limit
  BY DEF HasSigned
<1>x. PICK x : x = IF v < 0 THEN 1 - 2 * v ELSE 2 * v
  OBVIOUS
<1>1. x \in Nat /\ 2 * x < IntModulus
  BY <1>0, <1>x, LimitType
<1>2. s = WriteVarint[x]
  BY <1>0, <1>x DEF WriteSigned
<1>3. ReadVarint(b, q) = [val |-> Signed(x), next |-> q + Len(s)]
  BY <1>0, <1>1, <1>2, ReadVarintIs
<1>4. Signed(x) = x
  BY <1>1, LimitType DEF Signed
<1>5. (IF x % 2 = 1 THEN -(x \div 2) ELSE x \div 2) = v
  <2>1. \A y \in Nat : (2 * y) % 2 = 0 /\ (2 * y) \div 2 = y /\ (1 + 2 * y) % 2 = 1 /\ (1 + 2 * y) \div 2 = y
    OBVIOUS
  <2>2. CASE v >= 0
    <3>1. v \in Nat /\ x = 2 * v
      BY <1>0, <1>x, <2>2
    <3> QED BY <2>1, <3>1
  <2>3. CASE v < 0
    <3>1. PICK y \in Nat : y = -v
      BY <1>0, <2>3
    <3>2. x = 1 + 2 * y /\ v = -y
      BY <1>0, <1>x, <2>3, <3>1
    <3> QED BY <2>1, <3>1, <3>2
  <2> QED BY <1>0, <2>2, <2>3
<1> QED BY <1>0, <1>3, <1>4, <1>5 DEF ReadSigned

-----------------------------------------------------------------------------
(***************************************************************************)
(* Entries.                                                                *)
(***************************************************************************)
LEMMA HeaderIs ==
    ASSUME NEW c \in 0 .. 15, NEW r \in 1 .. 8, NEW h, h = Header(c, r)
    PROVE  h \in MSB .. 255 /\ (h \div 8) % 16 = c /\ (h % 8) + 1 = r
<1>1. h = 128 + c * 8 + (r - 1) /\ MSB = 128
  BY DEF Header, MSB
<1> QED BY <1>1

Location(line, end, from, to) ==
    [lineno |-> line, end_lineno |-> end, col_offset |-> from, end_col |-> to]

\* What an entry keeps of a location.
Kept(loc) ==
    IF loc.lineno < 0 THEN NoLocation
    ELSE IF loc.col_offset < 0 THEN OnLine(loc.lineno, -1, -1) ELSE loc

\* What the interpreter's scan has of the entry at q.
Moves(b, q, loc, prev) ==
    /\ LineDeltaAt(b, q) \in Int /\ LineAfter(loc, prev) = prev + LineDeltaAt(b, q)
    /\ CodeAt(b, q) = NONE <=> loc.lineno < 0

LEMMA LineDeltaIs ==
    ASSUME NEW b, NEW q
    PROVE  /\ CodeAt(b, q) \in {13, 14} => LineDeltaAt(b, q) = ReadSigned(b, q + 1).val
           /\ CodeAt(b, q) \in 10 .. 12 => LineDeltaAt(b, q) = CodeAt(b, q) - 10
           /\ CodeAt(b, q) \in 0 .. 9 \cup {15} => LineDeltaAt(b, q) = 0
BY DEF LineDeltaAt, LONG, NO_COLUMNS, ONE_LINE

\* At q, in n bytes, b says that run words are at loc.
Says(b, q, loc, run, prev, n) ==
    /\ LengthAt(b, q) = run
    /\ ReadLocation(b, q, prev).loc = Kept(loc)
    /\ ReadLocation(b, q, prev).lineno = LineAfter(loc, prev)
    /\ ReadLocation(b, q, prev).next = q + n
    /\ Moves(b, q, loc, prev)

LEMMA HeaderAt ==
    ASSUME NEW b, NEW q, NEW c \in 0 .. 15, NEW run \in 1 .. 8, b[q] = Header(c, run)
    PROVE  LengthAt(b, q) = run /\ CodeAt(b, q) = c
<1> PICK h : h = Header(c, run)
  OBVIOUS
<1>1. (h \div 8) % 16 = c /\ (h % 8) + 1 = run
  BY HeaderIs
<1> QED BY <1>1 DEF LengthAt, CodeAt

LEMMA NoneIs ==
    ASSUME NEW b, NEW q, NEW prev \in Int, NEW run \in 1 .. 8, b[q] = Header(NONE, run),
           NEW loc, loc.lineno < 0
    PROVE  Says(b, q, loc, run, prev, 1)
<1>1. LengthAt(b, q) = run /\ CodeAt(b, q) = 15
  BY HeaderAt DEF NONE
<1>2. ReadLocation(b, q, prev) = [loc |-> NoLocation, lineno |-> prev, next |-> q + 1]
  BY <1>1 DEF ReadLocation, NONE, LONG, NO_COLUMNS, ONE_LINE
<1>3. Moves(b, q, loc, prev)
  <2>1. LineDeltaAt(b, q) = 0
    BY <1>1, LineDeltaIs
  <2> QED BY <1>1, <2>1 DEF Moves, LineAfter, NONE
<1> QED BY <1>1, <1>2, <1>3 DEF Says, Kept, LineAfter

LEMMA NoColumnsIs ==
    ASSUME NEW b \in Seq(Byte), NEW q \in Nat \ {0}, NEW run \in 1 .. 8,
           NEW prev \in 0 .. Limit - 1, NEW line \in 0 .. Limit - 1, NEW loc,
           loc.lineno = line, loc.col_offset < 0, b[q] = Header(NO_COLUMNS, run),
           NEW s, s = WriteSigned(line - prev), Holds(b, q + 1, s), NEW m \in Nat, Len(s) = m
    PROVE  Says(b, q, loc, run, prev, 1 + m)
<1>1. LengthAt(b, q) = run /\ CodeAt(b, q) = 13
  <2>1. 13 \in 0 .. 15 /\ b[q] = Header(13, run)
    BY DEF NO_COLUMNS
  <2> QED BY <2>1, HeaderAt
<1>2. Limit \in Nat
  BY LimitType
<1> PICK v \in Int : v = line - prev /\ prev + v = line /\ -Limit < v /\ v < Limit
  BY <1>2
<1> PICK d : d = ReadSigned(b, q + 1)
  OBVIOUS
<1>3. d.val = v /\ d.next = q + 1 + m
  <2> PICK q1 \in Nat \ {0} : q1 = q + 1
    OBVIOUS
  <2>1. HasSigned(b, q1, q1 + m, v)
    BY DEF HasSigned
  <2> QED BY <2>1, ReadsSigned
<1>4. ReadLocation(b, q, prev) = [loc |-> OnLine(prev + d.val, -1, -1), lineno |-> prev + d.val,
                                 next |-> d.next]
  BY <1>1 DEF ReadLocation, NONE, LONG, NO_COLUMNS, ONE_LINE
<1>5. q + 1 + m = q + (1 + m) /\ ~ (line < 0)
  BY <1>2
<1>6. Moves(b, q, loc, prev)
  <2>1. LineDeltaAt(b, q) = v
    BY <1>1, <1>3, LineDeltaIs
  <2> QED BY <1>1, <1>5, <2>1 DEF Moves, LineAfter, NONE
<1> QED BY <1>1, <1>3, <1>4, <1>5, <1>6 DEF Says, Kept, LineAfter

LEMMA OneLineIs ==
    ASSUME NEW b, NEW q, NEW run \in 1 .. 8, NEW line \in Nat, NEW prev \in Nat,
           NEW c \in 0 .. 127, NEW d \in 0 .. 127, NEW loc, loc = Location(line, line, c, d),
           line - prev \in 0 .. 2,
           b[q] = Header(ONE_LINE + (line - prev), run), b[q + 1] = c, b[q + 2] = d
    PROVE  Says(b, q, loc, run, prev, 3)
<1> PICK delta \in 0 .. 2 : delta = line - prev
  OBVIOUS
<1>1. LengthAt(b, q) = run /\ CodeAt(b, q) = 10 + delta
  <2>1. 10 + delta \in 0 .. 15 /\ ONE_LINE + (line - prev) = 10 + delta
    BY DEF ONE_LINE
  <2> QED BY <2>1, HeaderAt
<1>2. ReadLocation(b, q, prev) = [loc |-> OnLine(prev + (10 + delta) - 10, b[q + 1], b[q + 2]),
                                 lineno |-> prev + (10 + delta) - 10, next |-> q + 3]
  BY <1>1 DEF ReadLocation, NONE, LONG, NO_COLUMNS, ONE_LINE
<1>3. prev + (10 + delta) - 10 = line /\ ~ (line < 0) /\ ~ (c < 0)
  OBVIOUS
<1>4. Moves(b, q, loc, prev)
  <2>1. LineDeltaAt(b, q) = (10 + delta) - 10
    BY <1>1, LineDeltaIs
  <2>2. LineDeltaAt(b, q) = delta /\ loc.lineno = line
    BY <2>1 DEF Location
  <2> QED BY <1>1, <1>3, <2>2 DEF Moves, LineAfter, NONE
<1> QED BY <1>1, <1>2, <1>3, <1>4 DEF Says, Kept, LineAfter, OnLine, Location

\* An entry of the short form, as it is read and as it is written.
ShortAt(b, q, prev) ==
    LET col == CodeAt(b, q) * 8 + b[q + 1] \div 16
    IN  [loc |-> OnLine(prev, col, col + (b[q + 1] % 16)), lineno |-> prev, next |-> q + 2]

LEMMA ShortValue ==
    ASSUME NEW b, NEW q, NEW prev, CodeAt(b, q) \in 0 .. 9
    PROVE  ReadLocation(b, q, prev) = ShortAt(b, q, prev)
BY DEF ReadLocation, ShortAt, NONE, LONG, NO_COLUMNS, ONE_LINE

HasShort(b, q, run, c, w) == b[q] = Header(c \div 8, run) /\ b[q + 1] = (c % 8) * 16 + w

LEMMA ShortIs ==
    ASSUME NEW b, NEW q, NEW run \in 1 .. 8, NEW line \in Nat,
           NEW c \in 0 .. 79, NEW w \in 0 .. 15, NEW d, d = c + w,
           NEW loc, loc = Location(line, line, c, d), HasShort(b, q, run, c, w)
    PROVE  Says(b, q, loc, run, line, 2)
<1>0. PICK x : x = b[q + 1]
  OBVIOUS
<1>1. PICK h \in 0 .. 9, l \in 0 .. 7 : c = 8 * h + l /\ b[q] = Header(h, run) /\ x = l * 16 + w
  <2>1. \A y \in 0 .. 79 : y \div 8 \in 0 .. 9 /\ y % 8 \in 0 .. 7 /\ y = 8 * (y \div 8) + (y % 8)
    OBVIOUS
  <2>2. PICK h \in 0 .. 9, l \in 0 .. 7 : h = c \div 8 /\ l = c % 8 /\ c = 8 * h + l
    BY <2>1
  <2> QED BY <1>0, <2>2 DEF HasShort
<1>2. LengthAt(b, q) = run /\ CodeAt(b, q) = h
  <2>1. h \in 0 .. 15
    OBVIOUS
  <2> QED BY <1>1, <2>1, HeaderAt
<1>3. x \div 16 = l /\ x % 16 = w
  <2>1. \A y \in 0 .. 7, z \in 0 .. 15 : (y * 16 + z) \div 16 = y /\ (y * 16 + z) % 16 = z
    OBVIOUS
  <2> QED BY <1>1, <2>1
<1>x. PICK col : col = h * 8 + x \div 16
  OBVIOUS
<1>4. ReadLocation(b, q, line) = [loc |-> OnLine(line, col, col + (x % 16)), lineno |-> line,
                                  next |-> q + 2]
  <2>1. CodeAt(b, q) \in 0 .. 9
    BY <1>2
  <2>2. ReadLocation(b, q, line) = ShortAt(b, q, line)
    BY <2>1, ShortValue
  <2>3. CodeAt(b, q) * 8 + b[q + 1] \div 16 = col /\ b[q + 1] = x
    BY <1>0, <1>2, <1>x
  <2> QED BY <2>2, <2>3 DEF ShortAt
<1>5. col = c /\ col + (x % 16) = d /\ ~ (line < 0) /\ ~ (c < 0)
  <2>1. col = h * 8 + l /\ c = 8 * h + l
    BY <1>1, <1>3, <1>x
  <2> QED BY <1>3, <2>1
<1>6. Moves(b, q, loc, line)
  <2>1. LineDeltaAt(b, q) = 0 /\ loc.lineno = line
    BY <1>2, LineDeltaIs DEF Location
  <2> QED BY <1>2, <1>5, <2>1 DEF Moves, LineAfter, NONE
<1> QED BY <1>2, <1>4, <1>5, <1>6 DEF Says, Kept, LineAfter, OnLine, Location

LEMMA LongValue ==
    ASSUME NEW b, NEW q, NEW prev, CodeAt(b, q) = 14,
           NEW r1, r1 = ReadSigned(b, q + 1), NEW r2, r2 = ReadVarint(b, r1.next),
           NEW r3, r3 = ReadVarint(b, r2.next), NEW r4, r4 = ReadVarint(b, r3.next)
    PROVE  ReadLocation(b, q, prev) =
              [loc |-> Location(prev + r1.val, prev + r1.val + r2.val, r3.val - 1, r4.val - 1),
               lineno |-> prev + r1.val, next |-> r4.next]
BY DEF ReadLocation, NONE, LONG, NO_COLUMNS, ONE_LINE, Location

LEMMA LongIs ==
    ASSUME NEW b \in Seq(Byte), NEW q \in Nat \ {0}, NEW run \in 1 .. 8, b[q] = Header(LONG, run),
           NEW line \in 0 .. Limit - 1, NEW e \in Field, NEW c \in 0 .. Limit - 1, NEW d \in Field,
           NEW prev \in 0 .. Limit - 1, NEW loc, loc = Location(line, e, c, d),
           NEW q1 \in Nat \ {0}, NEW q2 \in Nat \ {0}, NEW q3 \in Nat \ {0}, NEW q4 \in Nat \ {0},
           NEW q5, q1 = q + 1, HasSigned(b, q1, q2, line - prev), HasUnsigned(b, q2, q3, e - line),
           HasUnsigned(b, q3, q4, c + 1), HasUnsigned(b, q4, q5, d + 1),
           NEW n, q5 = q + n
    PROVE  Says(b, q, loc, run, prev, n)
<1>1. ReadSigned(b, q1).val = line - prev /\ ReadSigned(b, q1).next = q2
  BY ReadsSigned
<1>2. ReadVarint(b, q2).val = e - line /\ ReadVarint(b, q2).next = q3
  BY ReadsUnsigned
<1>3. ReadVarint(b, q3).val = c + 1 /\ ReadVarint(b, q3).next = q4
  BY ReadsUnsigned
<1>4. ReadVarint(b, q4).val = d + 1 /\ ReadVarint(b, q4).next = q5
  BY ReadsUnsigned
<1>5. Limit \in Nat
  BY LimitType
<1>6. /\ prev + (line - prev) = line /\ line + (e - line) = e /\ c + 1 - 1 = c /\ d + 1 - 1 = d
      /\ ~ (line < 0) /\ ~ (c < 0)
  BY <1>5 DEF Field
<1>7. LengthAt(b, q) = run /\ CodeAt(b, q) = 14
  <2>1. 14 \in 0 .. 15 /\ b[q] = Header(14, run)
    BY DEF LONG
  <2> QED BY <2>1, HeaderAt
<1> PICK r1 : r1 = ReadSigned(b, q + 1)
  OBVIOUS
<1> PICK r2 : r2 = ReadVarint(b, r1.next)
  OBVIOUS
<1> PICK r3 : r3 = ReadVarint(b, r2.next)
  OBVIOUS
<1> PICK r4 : r4 = ReadVarint(b, r3.next)
  OBVIOUS
<1>8. ReadLocation(b, q, prev) =
         [loc |-> Location(prev + r1.val, prev + r1.val + r2.val, r3.val - 1, r4.val - 1),
          lineno |-> prev + r1.val, next |-> r4.next]
  BY <1>7, LongValue
<1>9. /\ r1.val = line - prev /\ r2.val = e - line /\ r3.val = c + 1 /\ r4.val = d + 1
      /\ r4.next = q5
  BY <1>1, <1>2, <1>3, <1>4
<1>10. ReadLocation(b, q, prev) = [loc |-> loc, lineno |-> line, next |-> q5]
  <2>1. prev + r1.val = line /\ r3.val - 1 = c /\ r4.val - 1 = d
    BY <1>5, <1>6, <1>9 DEF Field
  <2>2. prev + r1.val + r2.val = e
    BY <1>6, <1>9, <2>1
  <2> QED BY <1>8, <1>9, <2>1, <2>2
<1>11. Kept(loc) = loc /\ LineAfter(loc, prev) = line
  BY <1>6 DEF Kept, LineAfter, Location
<1>12. Moves(b, q, loc, prev)
  <2>1. LineDeltaAt(b, q) = line - prev /\ loc.lineno = line
    BY <1>7, <1>9, LineDeltaIs DEF Location
  <2>2. line - prev \in Int /\ prev + (line - prev) = line
    BY <1>5
  <2> QED BY <1>6, <1>7, <1>11, <2>1, <2>2 DEF Moves, NONE
<1> QED BY <1>7, <1>10, <1>11, <1>12 DEF Says

LEMMA HeaderType ==
    ASSUME NEW c \in 0 .. 15, NEW run \in 1 .. 8
    PROVE  Header(c, run) \in Byte
<1> PICK h : h = Header(c, run)
  OBVIOUS
<1>1. h \in MSB .. 255
  BY HeaderIs
<1> QED BY <1>1 DEF MSB, Byte

LEMMA HeaderSeq ==
    ASSUME NEW c \in 0 .. 15, NEW run \in 1 .. 8, NEW h, h = <<Header(c, run)>>
    PROVE  h \in Seq(Byte) /\ Len(h) = 1 /\ h[1] = Header(c, run)
BY HeaderType

LEMMA TwoParts ==
    ASSUME NEW S, NEW s \in Seq(S), NEW t \in Seq(S), NEW u, u = s \o t
    PROVE  u \in Seq(S) /\ Len(u) = Len(s) + Len(t) /\ Len(s) \in Nat /\ Len(t) \in Nat
BY ConcatIs

LEMMA HoldsTwo ==
    ASSUME NEW S, NEW s \in Seq(S), NEW t \in Seq(S), NEW u, u = s \o t,
           NEW b \in Seq(S), NEW q, Holds(b, q, u)
    PROVE  Holds(b, q, s) /\ Holds(b, q + Len(s), t)
BY HoldsParts

\* Where s stands, its parts stand one after the other.
Split(S, h, t1, t2, t3, t4, s) ==
    \A b \in Seq(S) : \A q \in Nat \ {0} : Holds(b, q, s) =>
        \E q1, q2, q3, q4 \in Nat \ {0} :
           /\ q1 = q + Len(h) /\ Holds(b, q, h)
           /\ q2 = q1 + Len(t1) /\ Holds(b, q1, t1)
           /\ q3 = q2 + Len(t2) /\ Holds(b, q2, t2)
           /\ q4 = q3 + Len(t3) /\ Holds(b, q3, t3)
           /\ q4 + Len(t4) = q + Len(s) /\ Holds(b, q4, t4)

LEMMA FiveParts ==
    ASSUME NEW S, NEW h \in Seq(S), NEW t1 \in Seq(S), NEW t2 \in Seq(S), NEW t3 \in Seq(S),
           NEW t4 \in Seq(S), NEW s, s = h \o t1 \o t2 \o t3 \o t4
    PROVE  /\ s \in Seq(S)
           /\ Len(s) \in Nat /\ Len(s) >= Len(h)
           /\ Split(S, h, t1, t2, t3, t4, s)
<1> PICK s1 : s1 = h \o t1
  OBVIOUS
<1> PICK s2 : s2 = s1 \o t2
  OBVIOUS
<1> PICK s3 : s3 = s2 \o t3
  OBVIOUS
<1>1. s1 \in Seq(S) /\ Len(s1) = Len(h) + Len(t1) /\ Len(t1) \in Nat /\ Len(h) \in Nat
  BY TwoParts
<1>2. s2 \in Seq(S) /\ Len(s2) = Len(s1) + Len(t2) /\ Len(t2) \in Nat
  BY <1>1, TwoParts
<1>3. s3 \in Seq(S) /\ Len(s3) = Len(s2) + Len(t3) /\ Len(t3) \in Nat
  BY <1>2, TwoParts
<1>4. s \in Seq(S) /\ Len(s) = Len(s3) + Len(t4) /\ Len(t4) \in Nat
  BY <1>3, TwoParts
<1>5. ASSUME NEW b \in Seq(S), NEW q \in Nat \ {0}, Holds(b, q, s)
      PROVE  \E q1, q2, q3, q4 \in Nat \ {0} :
                    /\ q1 = q + Len(h) /\ Holds(b, q, h)
                    /\ q2 = q1 + Len(t1) /\ Holds(b, q1, t1)
                    /\ q3 = q2 + Len(t2) /\ Holds(b, q2, t2)
                    /\ q4 = q3 + Len(t3) /\ Holds(b, q3, t3)
                    /\ q4 + Len(t4) = q + Len(s) /\ Holds(b, q4, t4)
  <2>1. Holds(b, q, s3) /\ Holds(b, q + Len(s3), t4)
    <3>1. s = s3 \o t4
      OBVIOUS
    <3> QED BY <1>3, <1>5, <3>1, HoldsTwo
  <2>2. Holds(b, q, s2) /\ Holds(b, q + Len(s2), t3)
    BY <1>2, <2>1, HoldsTwo
  <2>3. Holds(b, q, s1) /\ Holds(b, q + Len(s1), t2)
    BY <1>1, <2>2, HoldsTwo
  <2>4. Holds(b, q, h) /\ Holds(b, q + Len(h), t1)
    BY <2>3, HoldsTwo
  <2>5. PICK q1 \in Nat \ {0} : q1 = q + Len(h)
    BY <1>1
  <2>6. PICK q2 \in Nat \ {0} : q2 = q + Len(s1) /\ q2 = q1 + Len(t1)
    BY <1>1, <2>5
  <2>7. PICK q3 \in Nat \ {0} : q3 = q + Len(s2) /\ q3 = q2 + Len(t2)
    BY <1>1, <1>2, <2>6
  <2>8. PICK q4 \in Nat \ {0} : q4 = q + Len(s3) /\ q4 = q3 + Len(t3)
    BY <1>1, <1>2, <1>3, <2>7
  <2>9. q4 + Len(t4) = q + Len(s)
    BY <1>1, <1>2, <1>3, <1>4, <2>8
  <2> QED BY <2>1, <2>2, <2>3, <2>4, <2>5, <2>6, <2>7, <2>8, <2>9
<1>6. Len(s) \in Nat /\ Len(s) >= Len(h)
  BY <1>1, <1>2, <1>3, <1>4
<1> QED BY <1>4, <1>5, <1>6 DEF Split

LEMMA VarintType ==
    ASSUME NEW v \in Nat
    PROVE  /\ WriteVarint[v] \in Seq(Byte) /\ Len(WriteVarint[v]) \in Nat \ {0}
           /\ WriteVarint[v] \in Seq(0 .. 127)
<1> PICK s : s = WriteVarint[v]
  OBVIOUS
<1>1. s \in Seq(0 .. 127) /\ Len(s) \in Nat /\ Len(s) >= 1
  BY VarintStops DEF Stops
<1>2. s \in Seq(Byte)
  BY <1>1 DEF Byte
<1> QED BY <1>1, <1>2

LEMMA UnsignedType ==
    ASSUME NEW v \in Int, -2 * Limit <= v, v < 2 * Limit
    PROVE  /\ WriteVarint[Unsigned(v)] \in Seq(Byte) /\ Len(WriteVarint[Unsigned(v)]) \in Nat \ {0}
           /\ WriteVarint[Unsigned(v)] \in Seq(0 .. 127)
<1> PICK x \in Nat : x = Unsigned(v)
  BY UnsignedIs
<1> QED BY VarintType

LEMMA SignedType ==
    ASSUME NEW v \in Int
    PROVE  /\ WriteSigned(v) \in Seq(Byte) /\ Len(WriteSigned(v)) \in Nat \ {0}
           /\ WriteSigned(v) \in Seq(0 .. 127)
<1> PICK x \in Nat : x = IF v < 0 THEN 1 - 2 * v ELSE 2 * v
  OBVIOUS
<1>1. WriteSigned(v) = WriteVarint[x]
  BY DEF WriteSigned
<1> QED BY <1>1, VarintType

\* The first byte has the marker, and no other.
OneMark(s) == s[1] >= MSB /\ \A k \in 2 .. Len(s) : s[k] < MSB

LEMMA HeaderMark ==
    ASSUME NEW c \in 0 .. 15, NEW run \in 1 .. 8, NEW s, s = <<Header(c, run)>>
    PROVE  OneMark(s)
<1> PICK h : h = Header(c, run)
  OBVIOUS
<1>1. h \in MSB .. 255
  BY HeaderIs
<1>2. h >= MSB
  BY <1>1 DEF MSB
<1> QED BY <1>2 DEF OneMark

LEMMA MarkMore ==
    ASSUME NEW s \in Seq(Byte), OneMark(s), Len(s) \in Nat \ {0}, NEW t \in Seq(0 .. 127),
           NEW u, u = s \o t
    PROVE  u \in Seq(Byte) /\ OneMark(u) /\ Len(u) \in Nat \ {0}
<1>1. t \in Seq(Byte)
  BY DEF Byte
<1> PICK m \in Nat \ {0} : m = Len(s)
  OBVIOUS
<1> PICK n : n = Len(t)
  OBVIOUS
<1>2. /\ u \in Seq(Byte) /\ n \in Nat /\ Len(u) = m + n
      /\ \A k \in 1 .. m : u[k] = s[k]
      /\ \A k \in 1 .. n : u[m + k] = t[k]
  BY <1>1, ConcatIs
<1>3. u[1] >= MSB
  <2>1. 1 \in 1 .. m
    OBVIOUS
  <2> QED BY <1>2, <2>1 DEF OneMark
<1>4. ASSUME NEW k \in 2 .. m + n PROVE u[k] < MSB
  <2>1. CASE k <= m
    <3>1. k \in 2 .. m /\ k \in 1 .. m
      BY <2>1
    <3> QED BY <1>2, <3>1 DEF OneMark
  <2>2. CASE k > m
    <3>1. PICK o \in 1 .. n : m + o = k
      <4>1. k - m \in 1 .. n /\ m + (k - m) = k
        BY <1>2, <2>2
      <4> QED BY <4>1
    <3>2. PICK y \in 0 .. 127 : y = t[o]
      BY <1>2, <3>1, ElementOfSeq
    <3>3. u[k] = y
      BY <1>2, <3>1, <3>2
    <3> QED BY <3>3 DEF MSB
  <2> QED BY <1>2, <2>1, <2>2
<1>5. m + n \in Nat \ {0}
  BY <1>2
<1> QED BY <1>2, <1>3, <1>4, <1>5 DEF OneMark

\* The bytes s are an entry of run words at loc, wherever they stand.
Entry(loc, run, prev, s) ==
    /\ s \in Seq(Byte) /\ Len(s) \in Nat \ {0} /\ OneMark(s)
    /\ \A b \in Seq(Byte) : \A q \in Nat \ {0} :
          Holds(b, q, s) => Says(b, q, loc, run, prev, Len(s))

LEMMA NoneWritten ==
    ASSUME NEW run \in 1 .. 8, NEW prev \in Int, NEW loc, loc.lineno < 0,
           NEW s, s = <<Header(NONE, run)>>
    PROVE  Entry(loc, run, prev, s)
<1>1. s \in Seq(Byte) /\ Len(s) = 1 /\ OneMark(s)
  <2>1. NONE \in 0 .. 15
    BY DEF NONE
  <2>2. OneMark(s)
    BY <2>1, HeaderMark
  <2> QED BY <2>1, <2>2, HeaderSeq
<1>2. ASSUME NEW b \in Seq(Byte), NEW q \in Nat \ {0}, Holds(b, q, s)
      PROVE  Says(b, q, loc, run, prev, 1)
  <2>1. b[q] = Header(NONE, run)
    BY <1>1, <1>2 DEF Holds
  <2> QED BY <2>1, NoneIs
<1> QED BY <1>1, <1>2 DEF Entry

LEMMA NoColumnsWritten ==
    ASSUME NEW run \in 1 .. 8, NEW prev \in 0 .. Limit - 1, NEW line \in 0 .. Limit - 1,
           NEW loc, loc.lineno = line, loc.col_offset < 0,
           NEW s, s = <<Header(NO_COLUMNS, run)>> \o WriteSigned(line - prev)
    PROVE  Entry(loc, run, prev, s)
<1> PICK h \in Seq(Byte) : h = <<Header(NO_COLUMNS, run)>> /\ Len(h) = 1 /\ OneMark(h)
  <2>1. NO_COLUMNS \in 0 .. 15
    BY DEF NO_COLUMNS
  <2> QED BY <2>1, HeaderSeq, HeaderMark
<1> PICK v \in Int : v = line - prev
  BY LimitType
<1> PICK t \in Seq(Byte) : t = WriteSigned(v) /\ t \in Seq(0 .. 127)
  BY SignedType
<1>1. s \in Seq(Byte) /\ Len(s) = 1 + Len(t) /\ Len(t) \in Nat
  BY ConcatIs
<1>3. OneMark(s)
  <2>1. s = h \o t /\ Len(h) \in Nat \ {0}
    OBVIOUS
  <2> QED BY <2>1, MarkMore
<1>2. ASSUME NEW b \in Seq(Byte), NEW q \in Nat \ {0}, Holds(b, q, s)
      PROVE  Says(b, q, loc, run, prev, Len(s))
  <2>1. Holds(b, q, h) /\ Holds(b, q + 1, t)
    <3>1. s = h \o t
      OBVIOUS
    <3>2. Holds(b, q, h) /\ Holds(b, q + Len(h), t)
      BY <1>2, <3>1, HoldsTwo
    <3> QED BY <3>2
  <2>2. b[q] = Header(NO_COLUMNS, run)
    BY <2>1 DEF Holds
  <2> QED BY <1>1, <2>1, <2>2, NoColumnsIs
<1> QED BY <1>1, <1>2, <1>3 DEF Entry

LEMMA OneLineWritten ==
    ASSUME NEW run \in 1 .. 8, NEW line \in Nat, NEW prev \in Nat, line - prev \in 0 .. 2,
           NEW c \in 0 .. 127, NEW d \in 0 .. 127, NEW loc, loc = Location(line, line, c, d),
           NEW s, s = <<Header(ONE_LINE + (line - prev), run), c, d>>
    PROVE  Entry(loc, run, prev, s)
<1>1. s \in Seq(Byte) /\ Len(s) = 3
  <2>1. ONE_LINE + (line - prev) \in 0 .. 15
    BY DEF ONE_LINE
  <2>2. Header(ONE_LINE + (line - prev), run) \in Byte
    BY <2>1, HeaderType
  <2>3. c \in Byte /\ d \in Byte
    BY DEF Byte
  <2> QED BY <2>2, <2>3
<1>3. OneMark(s)
  <2> PICK code \in 0 .. 15 : code = ONE_LINE + (line - prev)
    BY DEF ONE_LINE
  <2> PICK h : h = Header(code, run)
    OBVIOUS
  <2>1. h \in MSB .. 255
    BY HeaderIs
  <2>2. s = <<h, c, d>>
    OBVIOUS
  <2> QED BY <1>1, <2>1, <2>2 DEF OneMark, MSB
<1>2. ASSUME NEW b \in Seq(Byte), NEW q \in Nat \ {0}, Holds(b, q, s)
      PROVE  Says(b, q, loc, run, prev, 3)
  <2>1. \A k \in 1 .. 3 : b[q + k - 1] = s[k]
    BY <1>1, <1>2 DEF Holds
  <2>2. b[q] = s[1] /\ b[q + 1] = s[2] /\ b[q + 2] = s[3]
    <3>1. q + 1 - 1 = q /\ q + 2 - 1 = q + 1 /\ q + 3 - 1 = q + 2
      OBVIOUS
    <3> QED BY <2>1, <3>1
  <2> QED BY <2>2, OneLineIs
<1> QED BY <1>1, <1>2, <1>3 DEF Entry

LEMMA ShortWritten ==
    ASSUME NEW run \in 1 .. 8, NEW line \in Nat, NEW c \in 0 .. 79, NEW w \in 0 .. 15,
           NEW d, d = c + w, NEW loc, loc = Location(line, line, c, d),
           NEW s, s = <<Header(c \div 8, run), (c % 8) * 16 + w>>
    PROVE  Entry(loc, run, line, s)
<1>1. s \in Seq(Byte) /\ Len(s) = 2
  <2>1. \A x \in 0 .. 79 : x \div 8 \in 0 .. 15 /\ x % 8 \in 0 .. 7
    OBVIOUS
  <2>2. Header(c \div 8, run) \in Byte
    BY <2>1, HeaderType
  <2>3. (c % 8) * 16 + w \in Byte
    <3> PICK l \in 0 .. 7 : l = c % 8
      BY <2>1
    <3> QED BY DEF Byte
  <2> QED BY <2>2, <2>3
<1>3. OneMark(s)
  <2>1. \A x \in 0 .. 79 : x \div 8 \in 0 .. 15 /\ x % 8 \in 0 .. 7
    OBVIOUS
  <2> PICK code \in 0 .. 15 : code = c \div 8
    BY <2>1
  <2> PICK h : h = Header(code, run)
    OBVIOUS
  <2>2. h \in MSB .. 255
    BY HeaderIs
  <2> PICK l \in 0 .. 7 : l = c % 8
    BY <2>1
  <2>3. s = <<h, l * 16 + w>>
    OBVIOUS
  <2> QED BY <1>1, <2>2, <2>3 DEF OneMark, MSB
<1>2. ASSUME NEW b \in Seq(Byte), NEW q \in Nat \ {0}, Holds(b, q, s)
      PROVE  Says(b, q, loc, run, line, 2)
  <2>1. \A k \in 1 .. 2 : b[q + k - 1] = s[k]
    BY <1>1, <1>2 DEF Holds
  <2>2. b[q] = s[1] /\ b[q + 1] = s[2]
    <3>1. q + 1 - 1 = q /\ q + 2 - 1 = q + 1
      OBVIOUS
    <3> QED BY <2>1, <3>1
  <2>3. HasShort(b, q, run, c, w)
    BY <2>2 DEF HasShort
  <2> QED BY <2>3, ShortIs
<1> QED BY <1>1, <1>2, <1>3 DEF Entry

LEMMA LongWritten ==
    ASSUME NEW run \in 1 .. 8, NEW line \in 0 .. Limit - 1, NEW e \in Field,
           NEW c \in 0 .. Limit - 1, NEW d \in Field,
           NEW prev \in 0 .. Limit - 1, NEW loc, loc = Location(line, e, c, d),
           NEW z, z = <<Header(LONG, run)>> \o WriteSigned(line - prev)
                         \o WriteVarint[Unsigned(e - line)] \o WriteVarint[Unsigned(c + 1)]
                         \o WriteVarint[Unsigned(d + 1)]
    PROVE  Entry(loc, run, prev, z)
<1>1. Limit \in Nat
  BY LimitType
<1>9. PICK h \in Seq(Byte) : /\ h = <<Header(LONG, run)>> /\ Len(h) = 1 /\ h[1] = Header(LONG, run)
                             /\ OneMark(h)
  <2>1. LONG \in 0 .. 15
    BY DEF LONG
  <2> QED BY <2>1, HeaderSeq, HeaderMark
<1>2. PICK x1 \in Int : x1 = line - prev /\ -Limit < x1 /\ x1 < Limit
  BY <1>1
<1>3. PICK x2 \in Int : x2 = e - line /\ -2 * Limit <= x2 /\ x2 < 2 * Limit
  BY <1>1 DEF Field
<1>4. PICK x3 \in Int : x3 = c + 1 /\ -2 * Limit <= x3 /\ x3 < 2 * Limit
  BY <1>1
<1>5. PICK x4 \in Int : x4 = d + 1 /\ -2 * Limit <= x4 /\ x4 < 2 * Limit
  BY <1>1 DEF Field
<1>6. PICK t1 \in Seq(Byte) : t1 = WriteSigned(x1) /\ t1 \in Seq(0 .. 127)
  BY SignedType
<1>7. PICK t2 \in Seq(Byte), t3 \in Seq(Byte), t4 \in Seq(Byte) :
         /\ t2 = WriteVarint[Unsigned(x2)] /\ t3 = WriteVarint[Unsigned(x3)]
         /\ t4 = WriteVarint[Unsigned(x4)]
         /\ t2 \in Seq(0 .. 127) /\ t3 \in Seq(0 .. 127) /\ t4 \in Seq(0 .. 127)
  BY <1>3, <1>4, <1>5, UnsignedType
<1>8. PICK s : s = h \o t1 \o t2 \o t3 \o t4
  OBVIOUS
<1>12. s = z
  BY <1>2, <1>3, <1>4, <1>5, <1>6, <1>7, <1>8, <1>9
<1>10. /\ s \in Seq(Byte) /\ Len(s) \in Nat \ {0}
       /\ Split(Byte, h, t1, t2, t3, t4, s)
  <2>1. s \in Seq(Byte) /\ Len(s) \in Nat /\ Len(s) >= Len(h) /\ Split(Byte, h, t1, t2, t3, t4, s)
    BY <1>8, FiveParts
  <2>2. Len(s) \in Nat \ {0}
    BY <1>9, <2>1
  <2> QED BY <2>1, <2>2
<1>13. OneMark(s)
  <2>1. PICK s1 : /\ s1 = h \o t1
                  /\ s1 \in Seq(Byte) /\ OneMark(s1) /\ Len(s1) \in Nat \ {0}
    <3>1. Len(h) \in Nat \ {0}
      BY <1>9
    <3> QED BY <1>6, <1>9, <3>1, MarkMore
  <2>2. PICK s2 : /\ s2 = s1 \o t2
                  /\ s2 \in Seq(Byte) /\ OneMark(s2) /\ Len(s2) \in Nat \ {0}
    BY <1>7, <2>1, MarkMore
  <2>3. PICK s3 : /\ s3 = s2 \o t3
                  /\ s3 \in Seq(Byte) /\ OneMark(s3) /\ Len(s3) \in Nat \ {0}
    BY <1>7, <2>2, MarkMore
  <2>4. s = s3 \o t4
    BY <1>8, <2>1, <2>2, <2>3
  <2> QED BY <1>7, <2>3, <2>4, MarkMore
<1>11. ASSUME NEW b \in Seq(Byte), NEW q \in Nat \ {0}, Holds(b, q, s)
       PROVE  Says(b, q, loc, run, prev, Len(s))
  <2>1. PICK q1, q2, q3, q4 \in Nat \ {0} :
                    /\ q1 = q + 1 /\ Holds(b, q, h)
                    /\ q2 = q1 + Len(t1) /\ Holds(b, q1, t1)
                    /\ q3 = q2 + Len(t2) /\ Holds(b, q2, t2)
                    /\ q4 = q3 + Len(t3) /\ Holds(b, q3, t3)
                    /\ q4 + Len(t4) = q + Len(s) /\ Holds(b, q4, t4)
    <3>1. Len(h) = 1
      BY <1>9
    <3> QED BY <1>10, <1>11, <3>1 DEF Split
  <2>2. HasSigned(b, q1, q2, x1)
    BY <1>2, <1>6, <2>1 DEF HasSigned
  <2>3. HasUnsigned(b, q2, q3, x2)
    BY <1>3, <1>7, <2>1 DEF HasUnsigned
  <2>4. HasUnsigned(b, q3, q4, x3)
    BY <1>4, <1>7, <2>1 DEF HasUnsigned
  <2>5. HasUnsigned(b, q4, q4 + Len(t4), x4)
    BY <1>5, <1>7, <2>1 DEF HasUnsigned
  <2>6. b[q] = Header(LONG, run)
    <3>1. q + 1 - 1 = q
      OBVIOUS
    <3> QED BY <1>9, <2>1, <3>1 DEF Holds
  <2> QED BY <1>2, <1>3, <1>4, <1>5, <2>1, <2>2, <2>3, <2>4, <2>5, <2>6, LongIs
<1> QED BY <1>10, <1>11, <1>12, <1>13 DEF Entry

LEMMA WriteLocationIs ==
    ASSUME NEW run \in 1 .. 8, NEW line \in Field, NEW e \in Field, NEW c \in Field,
           NEW d \in Field, NEW prev \in 0 .. Limit - 1, NEW loc, loc = Location(line, e, c, d)
    PROVE  Entry(loc, run, prev, WriteLocation(loc, run, prev))
<1>1. Limit \in Nat
  BY LimitType
<1> PICK s : s = WriteLocation(loc, run, prev)
  OBVIOUS
<1>2. /\ loc.lineno = line /\ loc.end_lineno = e /\ loc.col_offset = c /\ loc.end_col = d
  BY DEF Location
<1>3. line \in Int /\ e \in Int /\ c \in Int /\ d \in Int /\ prev \in Int
  BY <1>1 DEF Field
<1>4. CASE line < 0
  <2>1. s = <<Header(NONE, run)>>
    BY <1>2, <1>3, <1>4 DEF WriteLocation
  <2> QED BY <1>2, <1>4, <2>1, NoneWritten
<1>5. CASE line >= 0 /\ c < 0
  <2>1. s = <<Header(NO_COLUMNS, run)>> \o WriteSigned(line - prev)
    BY <1>2, <1>3, <1>5 DEF WriteLocation
  <2>2. line \in 0 .. Limit - 1
    BY <1>1, <1>3, <1>5 DEF Field
  <2> QED BY <1>2, <1>5, <2>1, <2>2, NoColumnsWritten
<1>6. CASE line >= 0 /\ c >= 0
  <2>1. s = IF line = e /\ FitsShort(loc, prev) THEN Short(loc, run)
            ELSE IF line = e /\ FitsOneLine(loc, prev) THEN OneLine(loc, run, prev)
            ELSE Long(loc, run, prev)
    BY <1>2, <1>3, <1>6 DEF WriteLocation
  <2>2. line \in 0 .. Limit - 1 /\ c \in 0 .. Limit - 1 /\ line \in Nat /\ prev \in Nat
    BY <1>1, <1>3, <1>6 DEF Field
  <2>3. CASE line = e /\ FitsShort(loc, prev)
    <3> PICK w \in 0 .. 15 : w = d - c /\ d = c + w
      BY <1>2, <1>3, <2>3 DEF FitsShort
    <3>1. c \in 0 .. 79 /\ line = prev
      BY <1>2, <1>3, <1>6, <2>3 DEF FitsShort
    <3>2. s = <<Header(c \div 8, run), (c % 8) * 16 + w>>
      BY <1>2, <2>1, <2>3 DEF Short
    <3>3. loc = Location(line, line, c, d)
      BY <2>3
    <3> QED BY <2>2, <3>1, <3>2, <3>3, ShortWritten
  <2>4. CASE ~ (line = e /\ FitsShort(loc, prev)) /\ line = e /\ FitsOneLine(loc, prev)
    <3>1. c \in 0 .. 127 /\ d \in 0 .. 127 /\ line - prev \in 0 .. 2
      BY <1>2, <2>4 DEF FitsOneLine
    <3>2. s = <<Header(ONE_LINE + (line - prev), run), c, d>>
      BY <1>2, <2>1, <2>4 DEF OneLine
    <3>3. loc = Location(line, line, c, d)
      BY <2>4
    <3> QED BY <2>2, <3>1, <3>2, <3>3, OneLineWritten
  <2>5. CASE ~ (line = e /\ FitsShort(loc, prev)) /\ ~ (line = e /\ FitsOneLine(loc, prev))
    <3>1. s = <<Header(LONG, run)>> \o WriteSigned(line - prev)
                 \o WriteVarint[Unsigned(e - line)] \o WriteVarint[Unsigned(c + 1)]
                 \o WriteVarint[Unsigned(d + 1)]
      BY <1>2, <2>1, <2>5 DEF Long
    <3> QED BY <2>2, <3>1, LongWritten
  <2> QED BY <2>3, <2>4, <2>5
<1> QED BY <1>3, <1>4, <1>5, <1>6

-----------------------------------------------------------------------------
(***************************************************************************)
(* The chunks of a span and of a line delta.                               *)
(***************************************************************************)
LEMMA PairType == SpanMax \in Nat /\ SpanMax > 0 /\ DeltaMax \in Nat /\ DeltaMax > 0
BY PairAssumption

Spanned(g, b) == IF b > SpanMax THEN <<SpanMax>> \o g[b - SpanMax] ELSE <<b>>

LEMMA SpanChunksIs == \A b \in Nat : SpanChunks[b] = Spanned(SpanChunks, b)
<1> DEFINE base == [b \in Nat |-> <<b>>]
           head == [b \in Nat |-> <<SpanMax>>]
           next == [b \in Nat |-> b - SpanMax]
           size == [b \in Nat |-> b]
<1>1. Descends(Nat, 0 .. SpanMax, next, size)
  <2>1. size \in [Nat -> Nat]
    OBVIOUS
  <2>2. ASSUME NEW b \in Nat \ (0 .. SpanMax) PROVE next[b] \in Nat /\ size[next[b]] < size[b]
    <3>1. b - SpanMax \in Nat /\ b - SpanMax < b
      BY PairType
    <3> QED BY <3>1
  <2> HIDE DEF next, size
  <2> QED BY <2>1, <2>2 DEF Descends
<1>2. \A g : \A b \in Nat : Step(g, 0 .. SpanMax, base, head, next, b)
                          = IF b > SpanMax THEN <<SpanMax>> \o g[b - SpanMax] ELSE <<b>>
  <2>1. \A b \in Nat : b \in 0 .. SpanMax <=> ~ (b > SpanMax)
    BY PairType
  <2>2. \A b \in Nat : base[b] = <<b>> /\ head[b] = <<SpanMax>> /\ next[b] = b - SpanMax
    OBVIOUS
  <2> HIDE DEF base, head, next
  <2> QED BY <2>1, <2>2, Zenon DEF Step
<1> HIDE DEF base, head, next, size
<1>3. PICK f : Recursion(f, Nat, 0 .. SpanMax, base, head, next)
  BY <1>1, RecursionExists
<1>4. f = [b \in Nat |-> IF b > SpanMax THEN <<SpanMax>> \o f[b - SpanMax] ELSE <<b>>]
  BY <1>2, <1>3 DEF Recursion
<1>5. \E e : e = [b \in Nat |-> IF b > SpanMax THEN <<SpanMax>> \o e[b - SpanMax] ELSE <<b>>]
  BY <1>4
<1>6. SpanChunks = [b \in Nat |-> IF b > SpanMax THEN <<SpanMax>> \o SpanChunks[b - SpanMax] ELSE <<b>>]
  BY <1>5 DEF SpanChunks
<1> QED BY <1>6 DEF Spanned

Chunked(g, d) ==
    IF d > DeltaMax THEN <<DeltaMax>> \o g[d - DeltaMax]
    ELSE IF d < -DeltaMax THEN <<LeastChunk>> \o g[d - LeastChunk]
    ELSE <<d>>

LEMMA LineChunksIs == \A d \in Int : LineChunks[d] = Chunked(LineChunks, d)
<1> DEFINE base == [d \in Int |-> <<d>>]
           head == [d \in Int |-> IF d > DeltaMax THEN <<DeltaMax>> ELSE <<LeastChunk>>]
           next == [d \in Int |-> IF d > DeltaMax THEN d - DeltaMax ELSE d - LeastChunk]
           size == [d \in Int |-> IF d < 0 THEN -d ELSE d]
           B == -DeltaMax .. DeltaMax
<1>1. Descends(Int, B, next, size)
  <2>1. size \in [Int -> Nat]
    OBVIOUS
  <2>2. ASSUME NEW d \in Int \ B PROVE next[d] \in Int /\ size[next[d]] < size[d]
    <3>0. LeastChunk = -DeltaMax /\ DeltaMax \in Nat /\ DeltaMax > 0
      BY PairType DEF LeastChunk
    <3> PICK e : e = IF d > DeltaMax THEN d - DeltaMax ELSE d - LeastChunk
      OBVIOUS
    <3>3. e \in Int
      BY <3>0
    <3>1. (IF e < 0 THEN -e ELSE e) < (IF d < 0 THEN -d ELSE d)
      BY <3>0, <3>3
    <3>2. next[d] = e
      OBVIOUS
    <3> QED BY <3>1, <3>2, <3>3
  <2> HIDE DEF next, size
  <2> QED BY <2>1, <2>2 DEF Descends
<1>2. \A g : \A d \in Int : Step(g, B, base, head, next, d)
           = IF d > DeltaMax THEN <<DeltaMax>> \o g[d - DeltaMax]
             ELSE IF d < -DeltaMax THEN <<LeastChunk>> \o g[d - LeastChunk]
             ELSE <<d>>
  <2>1. \A d \in Int : d \in B <=> ~ (d > DeltaMax) /\ ~ (d < -DeltaMax)
    BY PairType
  <2>2. \A d \in Int : /\ base[d] = <<d>>
                       /\ head[d] = IF d > DeltaMax THEN <<DeltaMax>> ELSE <<LeastChunk>>
                       /\ next[d] = IF d > DeltaMax THEN d - DeltaMax ELSE d - LeastChunk
    OBVIOUS
  <2> HIDE DEF base, head, next, B
  <2> QED BY <2>1, <2>2, Zenon DEF Step
<1> HIDE DEF base, head, next, size, B
<1>3. PICK f : Recursion(f, Int, B, base, head, next)
  BY <1>1, RecursionExists
<1>4. f = [d \in Int |->
             IF d > DeltaMax THEN <<DeltaMax>> \o f[d - DeltaMax]
             ELSE IF d < -DeltaMax THEN <<LeastChunk>> \o f[d - LeastChunk]
             ELSE <<d>>]
  BY <1>2, <1>3 DEF Recursion
<1>5. \E e : e = [d \in Int |->
             IF d > DeltaMax THEN <<DeltaMax>> \o e[d - DeltaMax]
             ELSE IF d < -DeltaMax THEN <<LeastChunk>> \o e[d - LeastChunk]
             ELSE <<d>>]
  BY <1>4
<1>6. LineChunks = [d \in Int |->
             IF d > DeltaMax THEN <<DeltaMax>> \o LineChunks[d - DeltaMax]
             ELSE IF d < -DeltaMax THEN <<LeastChunk>> \o LineChunks[d - LeastChunk]
             ELSE <<d>>]
  BY <1>5 DEF LineChunks
<1> QED BY <1>6 DEF Chunked

\* From a, the numbers in s lead to b, and before each of them the sum is in S.
RunsBy(s, f, a, b, S) ==
    /\ Len(s) \in Nat /\ f \in [1 .. Len(s) + 1 -> Int] /\ f[1] = a /\ f[Len(s) + 1] = b
    /\ \A k \in 1 .. Len(s) : f[k + 1] = f[k] + s[k] /\ f[k] \in S

Runs(s, a, b, S) == \E f : RunsBy(s, f, a, b, S)

LEMMA RunsOne ==
    ASSUME NEW x \in Int, NEW S, NEW a \in Int, a \in S, NEW b, b = a + x, NEW s, s = <<x>>
    PROVE  Runs(s, a, b, S)
<1> DEFINE f == [k \in 1 .. 2 |-> IF k = 1 THEN a ELSE b]
<1>1. Len(s) = 1 /\ s[1] = x
  OBVIOUS
<1>2. f \in [1 .. 1 + 1 -> Int] /\ f[1] = a /\ f[1 + 1] = b
  OBVIOUS
<1> HIDE DEF f
<1>3. \A k \in 1 .. 1 : f[k + 1] = f[k] + s[k] /\ f[k] \in S
  BY <1>1, <1>2
<1> QED BY <1>1, <1>2, <1>3 DEF Runs, RunsBy

LEMMA RunsCons ==
    ASSUME NEW T, NEW x \in T, NEW t \in Seq(T), NEW S, NEW a \in Int, a \in S, x \in Int,
           NEW c, c = a + x, NEW b, Runs(t, c, b, S), NEW u, u = <<x>> \o t
    PROVE  Runs(u, a, b, S)
<1> PICK n : n = Len(t)
  OBVIOUS
<1>1. PICK f : RunsBy(t, f, c, b, S)
  BY DEF Runs
<1>2. /\ n \in Nat /\ f \in [1 .. n + 1 -> Int] /\ f[1] = c /\ f[n + 1] = b
      /\ \A k \in 1 .. n : f[k + 1] = f[k] + t[k] /\ f[k] \in S
  BY <1>1 DEF RunsBy
<1>3. Len(u) = n + 1 /\ u[1] = x /\ \A k \in 2 .. n + 1 : u[k] = t[k - 1]
  BY ConsIs
<1> DEFINE g == [k \in 1 .. (n + 1) + 1 |-> IF k = 1 THEN a ELSE f[k - 1]]
<1>4. g \in [1 .. (n + 1) + 1 -> Int] /\ g[1] = a /\ g[(n + 1) + 1] = b
  <2>1. \A k \in 1 .. (n + 1) + 1 : k # 1 => k - 1 \in 1 .. n + 1
    BY <1>2
  <2>2. 1 \in 1 .. (n + 1) + 1 /\ (n + 1) + 1 \in 1 .. (n + 1) + 1 /\ (n + 1) + 1 # 1
        /\ (n + 1) + 1 - 1 = n + 1
    BY <1>2
  <2> QED BY <1>2, <2>1, <2>2
<1>5. \A k \in 2 .. (n + 1) + 1 : g[k] = f[k - 1]
  OBVIOUS
<1> HIDE DEF g
<1>6. ASSUME NEW k \in 1 .. n + 1 PROVE g[k + 1] = g[k] + u[k] /\ g[k] \in S
  <2>1. CASE k = 1
    <3>1. g[2] = f[1]
      <4>1. 2 \in 2 .. (n + 1) + 1 /\ 2 - 1 = 1
        BY <1>2
      <4> QED BY <1>5, <4>1
    <3>2. k + 1 = 2
      BY <2>1
    <3> QED BY <1>2, <1>3, <1>4, <2>1, <3>1, <3>2
  <2>2. CASE k # 1
    <3> PICK j \in 1 .. n : j = k - 1 /\ j + 1 = k
      BY <1>2, <2>2
    <3>1. k \in 2 .. (n + 1) + 1 /\ k + 1 \in 2 .. (n + 1) + 1 /\ k + 1 - 1 = j + 1 /\ k \in 2 .. n + 1
      BY <1>2, <2>2
    <3>2. g[k] = f[j] /\ g[k + 1] = f[j + 1] /\ u[k] = t[j]
      BY <1>3, <1>5, <3>1
    <3> QED BY <1>2, <3>2
  <2> QED BY <2>1, <2>2
<1>7. Len(u) \in Nat /\ Len(u) + 1 = (n + 1) + 1
  BY <1>2, <1>3
<1>8. RunsBy(u, g, a, b, S)
  BY <1>3, <1>4, <1>6, <1>7 DEF RunsBy
<1> QED BY <1>8 DEF Runs

\* The chunks of a span cover all of it, and each starts inside of it.
SpanRuns(b) ==
    /\ SpanChunks[b] \in Seq(0 .. SpanMax) /\ Len(SpanChunks[b]) \in Nat \ {0}
    /\ \A a, top \in Nat : top = a + b => Runs(SpanChunks[b], a, top, 0 .. top - 1)

LEMMA SpanChunksRun == \A b \in Nat \ {0} : SpanRuns(b)
<1> DEFINE B == {b \in Nat \ {0} : ~ SpanRuns(b)}
<1> SUFFICES ASSUME B # {} PROVE FALSE
  OBVIOUS
<1>1. PICK b \in B : \A k \in B : b <= k
  <2>1. B \in SUBSET Nat
    OBVIOUS
  <2> HIDE DEF B
  <2> QED BY <2>1, LeastMember
<1>2. b \in Nat /\ b > 0 /\ ~ SpanRuns(b)
  OBVIOUS
<1> PICK s : s = SpanChunks[b]
  OBVIOUS
<1>3. s = IF b > SpanMax THEN <<SpanMax>> \o SpanChunks[b - SpanMax] ELSE <<b>>
  BY <1>2, SpanChunksIs DEF Spanned
<1>4. CASE ~ (b > SpanMax)
  <2>1. s = <<b>> /\ b \in 0 .. SpanMax
    BY <1>2, <1>3, <1>4, PairType
  <2>2. s \in Seq(0 .. SpanMax) /\ Len(s) \in Nat \ {0}
    BY <2>1
  <2>3. ASSUME NEW a \in Nat, NEW top \in Nat, top = a + b PROVE Runs(s, a, top, 0 .. top - 1)
    <3>1. a \in 0 .. top - 1
      BY <1>2, <2>3
    <3> PICK S : S = 0 .. top - 1
      OBVIOUS
    <3>2. a \in S /\ b \in Int /\ a \in Int
      BY <1>2, <3>1
    <3>3. Runs(s, a, top, S)
      BY <2>1, <2>3, <3>2, RunsOne
    <3> QED BY <3>3
  <2> HIDE DEF B
  <2> QED BY <1>2, <2>2, <2>3 DEF SpanRuns
<1>5. CASE b > SpanMax
  <2>1. SpanMax \in Nat /\ SpanMax > 0
    BY PairType
  <2> PICK r : r = b - SpanMax
    OBVIOUS
  <2> PICK t : t = SpanChunks[r]
    OBVIOUS
  <2>2. r \in Nat \ {0} /\ ~ (b <= r)
    BY <1>2, <1>5, <2>1
  <2>3. SpanRuns(r)
    BY <1>1, <2>2
  <2> HIDE DEF B
  <2>4. t \in Seq(0 .. SpanMax) /\ s = <<SpanMax>> \o t /\ SpanMax \in 0 .. SpanMax
    BY <1>3, <1>5, <2>1, <2>3 DEF SpanRuns
  <2>5. s \in Seq(0 .. SpanMax) /\ Len(s) \in Nat \ {0}
    <3>1. s \in Seq(0 .. SpanMax) /\ Len(t) \in Nat /\ Len(s) = Len(t) + 1
      BY <2>4, ConsIs
    <3> QED BY <3>1
  <2>6. ASSUME NEW a \in Nat, NEW top \in Nat, top = a + b PROVE Runs(s, a, top, 0 .. top - 1)
    <3> PICK c \in Nat : c = a + SpanMax
      BY <2>1
    <3>1. top = c + r /\ a \in 0 .. top - 1
      BY <1>2, <2>1, <2>2, <2>6
    <3> PICK S : S = 0 .. top - 1
      OBVIOUS
    <3>2. Runs(t, c, top, S)
      BY <2>3, <3>1 DEF SpanRuns
    <3>3. a \in S /\ a \in Int /\ SpanMax \in Int
      BY <2>1, <3>1
    <3>4. Runs(s, a, top, S)
      BY <2>4, <3>2, <3>3, RunsCons
    <3> QED BY <3>4
  <2> QED BY <1>2, <2>5, <2>6 DEF SpanRuns
<1> QED BY <1>4, <1>5

\* The chunks of a line delta add up to it, and none is NoLine.
DeltaRuns(d) ==
    /\ LineChunks[d] \in Seq(-DeltaMax .. DeltaMax) /\ Len(LineChunks[d]) \in Nat \ {0}
    /\ \A a, b \in Int : b = a + d => Runs(LineChunks[d], a, b, Int)

Size(d) == IF d < 0 THEN -d ELSE d

LEMMA LineChunksRun == \A d \in Int : DeltaRuns(d)
<1> DEFINE B == {n \in Nat : \E d \in Int : Size(d) = n /\ ~ DeltaRuns(d)}
<1>1. B = {}
  <2> SUFFICES ASSUME B # {} PROVE FALSE
    OBVIOUS
  <2>1. PICK n \in B : \A k \in B : n <= k
    BY LeastMember
  <2>2. PICK d \in Int : Size(d) = n /\ ~ DeltaRuns(d)
    OBVIOUS
  <2>3. DeltaMax \in Nat /\ DeltaMax > 0 /\ LeastChunk = -DeltaMax
    BY PairType DEF LeastChunk
  <2> PICK T : T = -DeltaMax .. DeltaMax
    OBVIOUS
  <2>0. T \in SUBSET Int
    BY <2>3
  <2> PICK s : s = LineChunks[d]
    OBVIOUS
  <2>4. s = IF d > DeltaMax THEN <<DeltaMax>> \o LineChunks[d - DeltaMax]
            ELSE IF d < -DeltaMax THEN <<LeastChunk>> \o LineChunks[d - LeastChunk]
            ELSE <<d>>
    BY LineChunksIs DEF Chunked
  <2>5. CASE ~ (d > DeltaMax) /\ ~ (d < -DeltaMax)
    <3>1. s = <<d>> /\ d \in T
      BY <2>3, <2>4, <2>5
    <3>2. s \in Seq(T) /\ Len(s) \in Nat \ {0}
      BY <3>1
    <3>3. ASSUME NEW a \in Int, NEW b \in Int, b = a + d PROVE Runs(s, a, b, Int)
      BY <3>1, <3>3, RunsOne
    <3> HIDE DEF B
    <3> QED BY <2>2, <3>2, <3>3 DEF DeltaRuns
  <2>6. ASSUME NEW x \in T, NEW r \in Int, r = d - x, Size(r) < Size(d), s = <<x>> \o LineChunks[r]
        PROVE  FALSE
    <3> PICK t : t = LineChunks[r]
      OBVIOUS
    <3>1. Size(r) \in Nat /\ ~ (n <= Size(r))
      BY <2>2, <2>6 DEF Size
    <3>2. DeltaRuns(r)
      <4>1. Size(r) \notin B
        BY <2>1, <3>1
      <4> QED BY <3>1, <4>1
    <3> HIDE DEF B
    <3>3. t \in Seq(T) /\ s = <<x>> \o t /\ x \in Int
      BY <2>0, <2>6, <3>2 DEF DeltaRuns
    <3>4. s \in Seq(T) /\ Len(s) \in Nat \ {0}
      <4>1. s \in Seq(T) /\ Len(t) \in Nat /\ Len(s) = Len(t) + 1
        BY <3>3, ConsIs
      <4> QED BY <4>1
    <3>5. ASSUME NEW a \in Int, NEW b \in Int, b = a + d PROVE Runs(s, a, b, Int)
      <4> PICK c \in Int : c = a + x
        BY <3>3
      <4>1. b = c + r
        BY <2>6, <3>3, <3>5
      <4>2. Runs(t, c, b, Int)
        BY <3>2, <4>1 DEF DeltaRuns
      <4> QED BY <3>3, <4>2, RunsCons
    <3> QED BY <2>2, <3>4, <3>5 DEF DeltaRuns
  <2>7. CASE d > DeltaMax
    <3> PICK r \in Int : r = d - DeltaMax
      BY <2>3
    <3>1. Size(r) < Size(d) /\ DeltaMax \in T
      BY <2>3, <2>7 DEF Size
    <3> QED BY <2>4, <2>6, <2>7, <3>1
  <2>8. CASE ~ (d > DeltaMax) /\ d < -DeltaMax
    <3> PICK r \in Int : r = d - LeastChunk
      BY <2>3
    <3>1. Size(r) < Size(d) /\ LeastChunk \in T
      BY <2>3, <2>8 DEF Size
    <3> QED BY <2>4, <2>6, <2>8, <3>1
  <2> QED BY <2>5, <2>7, <2>8
<1>2. ASSUME NEW d \in Int PROVE DeltaRuns(d)
  <2>1. Size(d) \in Nat /\ Size(d) \notin B
    BY <1>1 DEF Size
  <2> QED BY <2>1
<1> QED BY <1>2

-----------------------------------------------------------------------------
(***************************************************************************)
(* The pairs of a range.                                                   *)
(***************************************************************************)
Pairs == (0 .. SpanMax) \X (NoLine .. DeltaMax)

\* s is the pairs of a range of span bytes at line, after one at prev.  Pair o
\* starts at byte off[o] of the range, with the running line at ln[o]; pairs before
\* d only move the line, and from d on every pair leaves it where it should be.
RangeOf(s, line, prev, span, d, off, ln) ==
    /\ s \in Seq(Pairs) /\ Len(s) \in Nat /\ d \in 1 .. Len(s)
    /\ off \in [1 .. Len(s) + 1 -> Nat] /\ ln \in [1 .. Len(s) + 1 -> Int]
    /\ off[1] = 0 /\ ln[1] = prev
    /\ off[Len(s) + 1] = span /\ ln[Len(s) + 1] = LineAfterRange(line, prev)
    /\ \A o \in 1 .. Len(s) :
          /\ off[o + 1] = off[o] + s[o][1] /\ off[o] < span
          /\ ln[o + 1] = IF s[o][2] = NoLine THEN ln[o] ELSE ln[o] + s[o][2]
          /\ o <= d => off[o] = 0
          /\ o >= d => /\ s[o][2] = NoLine <=> line < 0
                       /\ ln[o + 1] = LineAfterRange(line, prev)

Pieces(deltas, spans, cont) ==
    [k \in 1 .. Len(deltas) - 1 |-> <<0, deltas[k]>>]
      \o <<<<spans[1], deltas[Len(deltas)]>>>>
      \o [k \in 1 .. Len(spans) - 1 |-> <<spans[k + 1], cont>>]

\* u is the m elements of s and then the n elements of t.
Joins(u, s, m, t, n) ==
    /\ Len(u) = m + n
    /\ \A k \in 1 .. m : u[k] = s[k]
    /\ \A k \in 1 .. n : u[m + k] = t[k]

LEMMA ConcatAt ==
    ASSUME NEW S, NEW s \in Seq(S), NEW t \in Seq(S), NEW m, m = Len(s), NEW n, n = Len(t),
           NEW u, u = s \o t
    PROVE  u \in Seq(S) /\ Joins(u, s, m, t, n)
BY ConcatIs DEF Joins

PiecesIn(s, deltas, d, spans, m, cont) ==
    /\ s \in Seq(Pairs) /\ Len(s) = d + m - 1
    /\ \A o \in 1 .. d + m - 1 :
          s[o] = <<IF o < d THEN 0 ELSE spans[o - d + 1], IF o <= d THEN deltas[o] ELSE cont>>

LEMMA PiecesAre ==
    ASSUME NEW deltas \in Seq(NoLine .. DeltaMax), NEW spans \in Seq(0 .. SpanMax),
           NEW d \in Nat \ {0}, NEW m \in Nat \ {0}, d = Len(deltas), m = Len(spans),
           NEW cont \in NoLine .. DeltaMax, NEW s, s = Pieces(deltas, spans, cont)
    PROVE  PiecesIn(s, deltas, d, spans, m, cont)
<1>10. PICK a : a = [k \in 1 .. d - 1 |-> <<0, deltas[k]>>]
  OBVIOUS
<1>11. PICK b : b = <<<<spans[1], deltas[d]>>>>
  OBVIOUS
<1>12. PICK c : c = [k \in 1 .. m - 1 |-> <<spans[k + 1], cont>>]
  OBVIOUS
<1>0. /\ SpanMax \in Nat /\ 0 \in 0 .. SpanMax
      /\ \A k \in 1 .. d : deltas[k] \in NoLine .. DeltaMax
      /\ \A k \in 1 .. m : spans[k] \in 0 .. SpanMax
  <2>1. \A k \in 1 .. d : deltas[k] \in NoLine .. DeltaMax
    BY ElementOfSeq
  <2>2. \A k \in 1 .. m : spans[k] \in 0 .. SpanMax
    BY ElementOfSeq
  <2> QED BY <2>1, <2>2, PairType
<1>1. a \in Seq(Pairs) /\ Len(a) = d - 1
  <2>1. \A k \in 1 .. d - 1 : <<0, deltas[k]>> \in Pairs
    BY <1>0 DEF Pairs
  <2>2. d - 1 \in Nat
    OBVIOUS
  <2> QED BY <1>10, <2>1, <2>2
<1>2. b \in Seq(Pairs) /\ Len(b) = 1 /\ b[1] = <<spans[1], deltas[d]>>
  <2>1. <<spans[1], deltas[d]>> \in Pairs
    BY <1>0 DEF Pairs
  <2> QED BY <1>11, <2>1
<1>3. c \in Seq(Pairs) /\ Len(c) = m - 1
  <2>1. \A k \in 1 .. m - 1 : <<spans[k + 1], cont>> \in Pairs
    BY <1>0 DEF Pairs
  <2>2. m - 1 \in Nat
    OBVIOUS
  <2> QED BY <1>12, <2>1, <2>2
<1>13. PICK ab : ab = a \o b
  OBVIOUS
<1>4. /\ ab \in Seq(Pairs) /\ Len(ab) = d
      /\ \A k \in 1 .. d - 1 : ab[k] = a[k]
      /\ ab[d] = <<spans[1], deltas[d]>>
  <2> PICK x : x = d - 1
    OBVIOUS
  <2> PICK y : y = 1
    OBVIOUS
  <2>1. /\ ab \in Seq(Pairs) /\ Len(ab) = x + y
        /\ \A k \in 1 .. x : ab[k] = a[k]
        /\ \A k \in 1 .. y : ab[x + k] = b[k]
    <3>1. x = Len(a) /\ y = Len(b)
      BY <1>1, <1>2
    <3>2. ab \in Seq(Pairs) /\ Joins(ab, a, x, b, y)
      BY <1>1, <1>2, <1>13, <3>1, ConcatAt
    <3> QED BY <3>2 DEF Joins
  <2>2. ab[(d - 1) + 1] = b[1]
    BY <2>1
  <2>3. (d - 1) + 1 = d
    OBVIOUS
  <2> QED BY <1>1, <1>2, <2>1, <2>2, <2>3
<1>5. s = ab \o c
  BY <1>10, <1>11, <1>12, <1>13 DEF Pieces
<1>6. /\ s \in Seq(Pairs) /\ Len(s) = d + (m - 1)
      /\ \A k \in 1 .. d : s[k] = ab[k]
      /\ \A k \in 1 .. m - 1 : s[d + k] = c[k]
  <2>1. PICK y : y = Len(c)
    OBVIOUS
  <2>2. d = Len(ab)
    BY <1>4
  <2>3. /\ s \in Seq(Pairs) /\ Len(s) = d + y
        /\ \A k \in 1 .. d : s[k] = ab[k]
        /\ \A k \in 1 .. y : s[d + k] = c[k]
    <3>1. s \in Seq(Pairs) /\ Joins(s, ab, d, c, y)
      BY <1>3, <1>4, <1>5, <2>1, <2>2, ConcatAt
    <3> QED BY <3>1 DEF Joins
  <2> QED BY <1>3, <2>1, <2>3
<1>7. ASSUME NEW o \in 1 .. d + m - 1
      PROVE  s[o] = <<IF o < d THEN 0 ELSE spans[o - d + 1], IF o <= d THEN deltas[o] ELSE cont>>
  <2>1. CASE o < d
    <3>1. o \in 1 .. d - 1 /\ o \in 1 .. d /\ o <= d
      BY <2>1
    <3>2. s[o] = a[o] /\ a[o] = <<0, deltas[o]>>
      BY <1>10, <1>4, <1>6, <3>1
    <3> QED BY <2>1, <3>1, <3>2
  <2>2. CASE o = d
    <3>1. s[o] = <<spans[1], deltas[d]>> /\ o - d + 1 = 1 /\ o <= d /\ ~ (o < d)
      BY <1>4, <1>6, <2>2
    <3> QED BY <2>2, <3>1
  <2>3. CASE o > d
    <3>3. o - d \in 1 .. m - 1 /\ d + (o - d) = o
      BY <2>3
    <3> PICK k : k = o - d
      OBVIOUS
    <3>1. s[o] = c[k] /\ c[k] = <<spans[k + 1], cont>>
      BY <1>6, <1>12, <3>3
    <3>2. o - d + 1 = k + 1 /\ ~ (o < d) /\ ~ (o <= d)
      BY <2>3
    <3> QED BY <3>1, <3>2
  <2> QED BY <2>1, <2>2, <2>3
<1>8. Len(s) = d + m - 1
  BY <1>6
<1> QED BY <1>6, <1>7, <1>8 DEF PiecesIn

\* The d deltas lead from prev to line, through lf.
DeltasOf(deltas, d, lf, line, prev) ==
    /\ deltas \in Seq(NoLine .. DeltaMax) /\ d \in Nat \ {0} /\ d = Len(deltas)
    /\ deltas[d] = NoLine <=> line < 0
    /\ lf \in [1 .. d + 1 -> Int] /\ lf[1] = prev /\ lf[d + 1] = LineAfterRange(line, prev)
    /\ \A k \in 1 .. d : lf[k + 1] = IF deltas[k] = NoLine THEN lf[k] ELSE lf[k] + deltas[k]

\* The m spans cover the span, through sf.
SpansOf(spans, m, sf, span) ==
    /\ spans \in Seq(0 .. SpanMax) /\ m \in Nat \ {0} /\ m = Len(spans)
    /\ sf \in [1 .. m + 1 -> Int] /\ sf[1] = 0 /\ sf[m + 1] = span
    /\ \A k \in 1 .. m : sf[k + 1] = sf[k] + spans[k] /\ sf[k] \in 0 .. span - 1

LEMMA RangePieces ==
    ASSUME NEW deltas, NEW spans, NEW d, NEW m, NEW lf, NEW sf, NEW line, NEW prev,
           NEW span \in Nat \ {0}, NEW cont \in {0, NoLine}, cont = NoLine <=> line < 0,
           DeltasOf(deltas, d, lf, line, prev), SpansOf(spans, m, sf, span),
           NEW s, s = Pieces(deltas, spans, cont)
    PROVE  \E off, ln : RangeOf(s, line, prev, span, d, off, ln)
<1> PICK after : after = LineAfterRange(line, prev)
  OBVIOUS
<1>9. /\ deltas[d] = NoLine <=> line < 0
      /\ lf \in [1 .. d + 1 -> Int] /\ lf[1] = prev /\ lf[d + 1] = after
      /\ \A k \in 1 .. d : lf[k + 1] = IF deltas[k] = NoLine THEN lf[k] ELSE lf[k] + deltas[k]
  BY DEF DeltasOf
<1>10. /\ sf \in [1 .. m + 1 -> Int] /\ sf[1] = 0 /\ sf[m + 1] = span
       /\ \A k \in 1 .. m : sf[k + 1] = sf[k] + spans[k] /\ sf[k] \in 0 .. span - 1
  BY DEF SpansOf
<1> d \in Nat \ {0} /\ m \in Nat \ {0}
  BY DEF DeltasOf, SpansOf
<1>11. after \in Int
  <2>1. d + 1 \in 1 .. d + 1
    OBVIOUS
  <2> QED BY <1>9, <2>1
<1>1. PICK n \in Nat \ {0} : n = d + m - 1
  OBVIOUS
<1>0. cont \in NoLine .. DeltaMax /\ NoLine \in Int
  BY PairType DEF NoLine
<1>2. /\ s \in Seq(Pairs) /\ Len(s) = n
      /\ \A o \in 1 .. n :
            s[o] = <<IF o < d THEN 0 ELSE spans[o - d + 1], IF o <= d THEN deltas[o] ELSE cont>>
  <2>1. d = Len(deltas) /\ deltas \in Seq(NoLine .. DeltaMax)
    BY DEF DeltasOf
  <2>2. m = Len(spans) /\ spans \in Seq(0 .. SpanMax)
    BY DEF SpansOf
  <2>3. /\ s \in Seq(Pairs) /\ Len(s) = d + m - 1
        /\ \A o \in 1 .. d + m - 1 :
            s[o] = <<IF o < d THEN 0 ELSE spans[o - d + 1], IF o <= d THEN deltas[o] ELSE cont>>
    <3>1. PiecesIn(s, deltas, d, spans, m, cont)
      BY <1>0, <2>1, <2>2, PiecesAre
    <3> QED BY <3>1 DEF PiecesIn
  <2> QED BY <1>1, <2>3
<1> DEFINE off == [o \in 1 .. n + 1 |-> IF o <= d THEN 0 ELSE sf[o - d + 1]]
           ln == [o \in 1 .. n + 1 |-> IF o <= d THEN lf[o] ELSE after]
<1>3. \A o \in 1 .. n + 1 : o > d => o - d + 1 \in 2 .. m + 1
  BY <1>1
<1>4. /\ off \in [1 .. n + 1 -> Nat] /\ off[1] = 0 /\ off[n + 1] = span
      /\ \A o \in 1 .. d : off[o] = 0
      /\ \A o \in 1 .. n + 1 : o >= d => off[o] = sf[o - d + 1]
  <2>1. \A k \in 1 .. m + 1 : sf[k] \in Nat
    <3>1. \A k \in 1 .. m + 1 : k \in 1 .. m \/ k = m + 1
      OBVIOUS
    <3> QED BY <1>10, <3>1
  <2>2. off \in [1 .. n + 1 -> Nat]
    BY <1>3, <2>1
  <2>3. 1 \in 1 .. n + 1 /\ 1 <= d /\ n + 1 \in 1 .. n + 1 /\ n + 1 > d /\ (n + 1) - d + 1 = m + 1
    BY <1>1
  <2>4. \A o \in 1 .. d : o \in 1 .. n + 1 /\ o <= d
    BY <1>1
  <2>5. ASSUME NEW o \in 1 .. n + 1, o >= d PROVE off[o] = sf[o - d + 1]
    <3>1. CASE o = d
      <4>1. o - d + 1 = 1
        BY <3>1
      <4>2. off[o] = 0
        BY <2>4, <3>1
      <4> QED BY <1>10, <4>1, <4>2
    <3>2. CASE o # d
      <4>1. ~ (o <= d)
        BY <2>5, <3>2
      <4> QED BY <4>1
    <3> QED BY <3>1, <3>2
  <2> QED BY <1>10, <2>2, <2>3, <2>4, <2>5
<1>5. /\ ln \in [1 .. n + 1 -> Int] /\ ln[1] = prev /\ ln[n + 1] = after
      /\ \A o \in 1 .. d + 1 : ln[o] = lf[o]
      /\ \A o \in 1 .. n + 1 : o > d => ln[o] = after
  <2>1. \A o \in 1 .. n + 1 : o <= d => o \in 1 .. d + 1
    BY <1>1
  <2>2. ln \in [1 .. n + 1 -> Int]
    BY <1>9, <1>11, <2>1
  <2>3. 1 \in 1 .. n + 1 /\ 1 <= d /\ n + 1 \in 1 .. n + 1 /\ ~ (n + 1 <= d)
    BY <1>1
  <2>4. \A o \in 1 .. d + 1 : o \in 1 .. n + 1 /\ (o <= d \/ o = d + 1) /\ ~ (d + 1 <= d)
    BY <1>1
  <2>5. \A o \in 1 .. n + 1 : o > d => ~ (o <= d)
    OBVIOUS
  <2> QED BY <1>9, <2>2, <2>3, <2>4, <2>5
<1> HIDE DEF off, ln
<1>6. ASSUME NEW o \in 1 .. n
      PROVE  /\ off[o + 1] = off[o] + s[o][1] /\ off[o] < span
             /\ ln[o + 1] = IF s[o][2] = NoLine THEN ln[o] ELSE ln[o] + s[o][2]
             /\ o <= d => off[o] = 0
             /\ o >= d => /\ s[o][2] = NoLine <=> line < 0
                          /\ ln[o + 1] = after
  <2>1. s[o][1] = (IF o < d THEN 0 ELSE spans[o - d + 1]) /\ s[o][2] = (IF o <= d THEN deltas[o] ELSE cont)
    BY <1>2
  <2>2. CASE o < d
    <3>1. o \in 1 .. d /\ o + 1 \in 1 .. d /\ o \in 1 .. d + 1 /\ o + 1 \in 1 .. d + 1 /\ ~ (o >= d)
      BY <2>2
    <3>2. off[o] = 0 /\ off[o + 1] = 0 /\ ln[o] = lf[o] /\ ln[o + 1] = lf[o + 1]
      BY <1>4, <1>5, <3>1
    <3>3. s[o][1] = 0 /\ s[o][2] = deltas[o]
      BY <2>1, <2>2
    <3> QED BY <1>9, <3>1, <3>2, <3>3
  <2>3. CASE o >= d
    <3>1. PICK k \in 1 .. m : k = o - d + 1
      <4>1. o <= d + m - 1 /\ o \in Int
        BY <1>1
      <4>2. o - d + 1 \in 1 .. m
        BY <2>3, <4>1
      <4> QED BY <4>2
    <3>2. o \in 1 .. n + 1 /\ o + 1 \in 1 .. n + 1 /\ o + 1 > d /\ o + 1 >= d
          /\ (o + 1) - d + 1 = k + 1 /\ ~ (o < d)
      BY <2>3, <3>1
    <3>3. off[o] = sf[k] /\ off[o + 1] = sf[k + 1] /\ ln[o + 1] = after /\ s[o][1] = spans[k]
      BY <1>4, <1>5, <2>1, <2>3, <3>1, <3>2
    <3>4. off[o + 1] = off[o] + s[o][1] /\ off[o] < span
      BY <1>10, <3>1, <3>3
    <3>5. CASE o = d
      <4>1. s[o][2] = deltas[d] /\ ln[o] = lf[d] /\ ln[o + 1] = lf[d + 1]
        <5>1. o <= d /\ d \in 1 .. d + 1
          BY <3>5
        <5> QED BY <1>5, <2>1, <3>3, <3>5, <5>1
      <4>2. off[o] = 0
        BY <1>4, <3>5
      <4>3. d \in 1 .. d
        OBVIOUS
      <4> QED BY <1>9, <3>3, <3>4, <4>1, <4>2, <4>3
    <3>6. CASE o # d
      <4>1. ~ (o <= d) /\ o > d
        BY <2>3, <3>6
      <4>2. s[o][2] = cont /\ ln[o] = after
        BY <1>5, <2>1, <3>2, <4>1
      <4>3. ln[o + 1] = IF s[o][2] = NoLine THEN ln[o] ELSE ln[o] + s[o][2]
        BY <1>11, <3>3, <4>2
      <4> QED BY <3>3, <3>4, <4>1, <4>2, <4>3
    <3> QED BY <3>5, <3>6
  <2> QED BY <2>2, <2>3
<1>7. d \in 1 .. n
  BY <1>1
<1>8. RangeOf(s, line, prev, span, d, off, ln)
  BY <1>2, <1>4, <1>5, <1>6, <1>7 DEF RangeOf
<1> QED BY <1>8

LEMMA SingleIs ==
    ASSUME NEW S, NEW x \in S, NEW s, s = <<x>>
    PROVE  s \in Seq(S) /\ Len(s) = 1 /\ s[1] = x
OBVIOUS

LEMMA WriteRangeIs ==
    ASSUME NEW line \in Int, NEW prev \in Int, NEW span \in Nat \ {0}
    PROVE  \E d, off, ln : RangeOf(WriteRange(line, prev, span), line, prev, span, d, off, ln)
<1> PICK spans : spans = SpanChunks[span]
  OBVIOUS
<1> PICK deltas : deltas = IF line < 0 THEN <<NoLine>> ELSE LineChunks[line - prev]
  OBVIOUS
<1> PICK cont : cont = Continuation(line)
  OBVIOUS
<1> PICK s : s = WriteRange(line, prev, span)
  OBVIOUS
<1>1. s = Pieces(deltas, spans, cont)
  BY DEF WriteRange, Pieces
<1>2. DeltaMax \in Nat /\ DeltaMax > 0 /\ NoLine = -DeltaMax - 1
  BY PairType DEF NoLine
<1>3. cont \in {0, NoLine} /\ (cont = NoLine <=> line < 0)
  BY <1>2 DEF Continuation
<1>4. SpanRuns(span)
  BY SpanChunksRun
<1>5. PICK m \in Nat \ {0} : m = Len(spans)
  BY <1>4 DEF SpanRuns
<1>6. spans \in Seq(0 .. SpanMax)
  BY <1>4 DEF SpanRuns
<1>7. PICK sf : RunsBy(spans, sf, 0, span, 0 .. span - 1)
  BY <1>4 DEF SpanRuns, Runs
<1>8. SpansOf(spans, m, sf, span)
  BY <1>5, <1>6, <1>7 DEF RunsBy, SpansOf
<1>9. \E d, lf : DeltasOf(deltas, d, lf, line, prev)
  <2>1. CASE line < 0
    <3>1. deltas = <<NoLine>> /\ LineAfterRange(line, prev) = prev
      BY <2>1 DEF LineAfterRange
    <3>2. NoLine \in NoLine .. DeltaMax
      BY <1>2
    <3> DEFINE lf == [k \in 1 .. 2 |-> prev]
    <3>3. /\ lf \in [1 .. 1 + 1 -> Int] /\ lf[1] = prev /\ lf[1 + 1] = prev
          /\ \A k \in 1 .. 1 : lf[k + 1] = lf[k]
      OBVIOUS
    <3> HIDE DEF lf
    <3>4. deltas \in Seq(NoLine .. DeltaMax) /\ Len(deltas) = 1 /\ deltas[1] = NoLine
      BY <3>1, <3>2, SingleIs
    <3>5. DeltasOf(deltas, 1, lf, line, prev)
      BY <2>1, <3>1, <3>3, <3>4 DEF DeltasOf
    <3> QED BY <3>5
  <2>2. CASE ~ (line < 0)
    <3> PICK v \in Int : v = line - prev /\ line = prev + v
      OBVIOUS
    <3>1. deltas = LineChunks[v] /\ LineAfterRange(line, prev) = line
      BY <2>2 DEF LineAfterRange
    <3>2. DeltaRuns(v)
      BY LineChunksRun
    <3>3. deltas \in Seq(-DeltaMax .. DeltaMax) /\ Len(deltas) \in Nat \ {0}
      BY <3>1, <3>2 DEF DeltaRuns
    <3>4. PICK lf : RunsBy(deltas, lf, prev, line, Int)
      BY <3>1, <3>2 DEF DeltaRuns, Runs
    <3>9. PICK d \in Nat \ {0} : d = Len(deltas)
      BY <3>3
    <3>5. /\ lf \in [1 .. d + 1 -> Int] /\ lf[1] = prev /\ lf[d + 1] = line
          /\ \A k \in 1 .. d : lf[k + 1] = lf[k] + deltas[k]
      BY <3>4, <3>9 DEF RunsBy
    <3>6. \A k \in 1 .. d : deltas[k] # NoLine
      <4>1. \A k \in 1 .. d : deltas[k] \in -DeltaMax .. DeltaMax
        BY <3>3, <3>9, ElementOfSeq
      <4> QED BY <1>2, <4>1
    <3>7. deltas \in Seq(NoLine .. DeltaMax)
      <4>1. \A k \in 1 .. d : deltas[k] \in NoLine .. DeltaMax
        <5>1. \A k \in 1 .. d : deltas[k] \in -DeltaMax .. DeltaMax
          BY <3>3, <3>9, ElementOfSeq
        <5> QED BY <1>2, <5>1
      <4>2. deltas = [k \in 1 .. d |-> deltas[k]] /\ d \in Nat
        BY <3>3, <3>9
      <4> HIDE <3>1
      <4>3. [k \in 1 .. d |-> deltas[k]] \in Seq(NoLine .. DeltaMax)
        BY <4>1, <4>2
      <4> QED BY <4>2, <4>3
    <3>8. d \in 1 .. d
      BY <3>9
    <3>10. deltas[d] # NoLine
      BY <3>6, <3>8
    <3>11. DeltasOf(deltas, d, lf, line, prev)
      BY <2>2, <3>1, <3>5, <3>6, <3>7, <3>9, <3>10 DEF DeltasOf
    <3> QED BY <3>11
  <2> QED BY <2>1, <2>2
<1>10. PICK d, lf : DeltasOf(deltas, d, lf, line, prev)
  BY <1>9
<1>11. \E off, ln : RangeOf(s, line, prev, span, d, off, ln)
  BY <1>1, <1>3, <1>8, <1>10, RangePieces
<1> QED BY <1>11

-----------------------------------------------------------------------------
(***************************************************************************)
(* What the interpreter adds up as it scans a table.                       *)
(***************************************************************************)
LEMMA SumIs ==
    ASSUME NEW f, NEW n \in Nat, NEW g, g[0] = 0, \A k \in 1 .. n : g[k] = g[k - 1] + f[k]
    PROVE  SumTo(f, n) = g[n]
<1> DEFINE Is(s) == s = [k \in 0 .. n |-> IF k = 0 THEN 0 ELSE s[k - 1] + f[k]]
           h == [k \in 0 .. n |-> g[k]]
<1>1. Is(h)
  <2>1. ASSUME NEW k \in 0 .. n PROVE h[k] = IF k = 0 THEN 0 ELSE h[k - 1] + f[k]
    <3>1. k # 0 => k \in 1 .. n /\ k - 1 \in 0 .. n
      OBVIOUS
    <3> QED BY <3>1
  <2> QED BY <2>1
<1>2. SumTo(f, n) = (CHOOSE s : Is(s))[n]
  BY Zenon DEF SumTo
<1>3. ASSUME NEW s, Is(s) PROVE s[n] = g[n]
  <2>1. \A k \in 0 .. n : s[k] = IF k = 0 THEN 0 ELSE s[k - 1] + f[k]
    BY <1>3
  <2> DEFINE B == {k \in 0 .. n : s[k] # g[k]}
  <2>2. B = {}
    <3> SUFFICES ASSUME B # {} PROVE FALSE
      OBVIOUS
    <3>1. PICK m \in B : \A k \in B : m <= k
      <4>1. B \in SUBSET Nat
        OBVIOUS
      <4> QED BY <4>1, LeastMember
    <3>2. m \in 0 .. n /\ s[m] # g[m]
      OBVIOUS
    <3>3. m # 0
      BY <2>1, <3>2
    <3>4. m \in 1 .. n /\ m - 1 \in 0 .. n /\ ~ (m <= m - 1)
      BY <3>2, <3>3
    <3>5. s[m - 1] = g[m - 1]
      BY <3>1, <3>4
    <3>6. s[m] = s[m - 1] + f[m] /\ g[m] = g[m - 1] + f[m]
      BY <2>1, <3>3, <3>4
    <3> QED BY <3>2, <3>5, <3>6
  <2>3. n \in 0 .. n
    OBVIOUS
  <2> HIDE DEF B
  <2>4. n \notin B
    BY <2>2
  <2> QED BY <2>3, <2>4 DEF B
<1> HIDE DEF Is, h
<1> QED BY <1>1, <1>2, <1>3

\* f never goes down.
Ascends(f, n) == f \in [1 .. n + 1 -> Int] /\ \A k \in 1 .. n : f[k] <= f[k + 1]

LEMMA AscendsTo ==
    ASSUME NEW n \in Nat, NEW f, Ascends(f, n), NEW a \in 1 .. n + 1
    PROVE  \A b \in a .. n + 1 : f[a] <= f[b]
<1>0. /\ \A k \in 1 .. n + 1 : f[k] \in Int
      /\ \A k \in 1 .. n : f[k] <= f[k + 1]
  BY DEF Ascends
<1> DEFINE B == {b \in a .. n + 1 : ~ (f[a] <= f[b])}
<1> SUFFICES ASSUME B # {} PROVE FALSE
  OBVIOUS
<1>1. PICK m \in B : \A k \in B : m <= k
  <2>1. B \in SUBSET Nat
    OBVIOUS
  <2> QED BY <2>1, LeastMember
<1>2. m \in a .. n + 1 /\ ~ (f[a] <= f[m])
  OBVIOUS
<1>3. m # a
  BY <1>0, <1>2
<1>4. PICK l \in 1 .. n : l = m - 1 /\ l + 1 = m /\ l \in a .. n + 1 /\ ~ (m <= l)
  BY <1>2, <1>3
<1>5. f[a] <= f[l]
  BY <1>1, <1>4
<1>6. f[l] <= f[m] /\ f[l] \in Int /\ f[m] \in Int /\ f[a] \in Int
  BY <1>0, <1>2, <1>4
<1> QED BY <1>2, <1>5, <1>6

\* A number between the ends is in one step, and no other.
LEMMA StepOf ==
    ASSUME NEW n \in Nat, NEW f, Ascends(f, n), NEW x \in Int, f[1] <= x, x < f[n + 1]
    PROVE  \E k \in 1 .. n : f[k] <= x /\ x < f[k + 1]
<1>0. \A k \in 1 .. n + 1 : f[k] \in Int
  BY DEF Ascends
<1> DEFINE B == {k \in 1 .. n + 1 : x < f[k]}
<1>1. PICK m \in B : \A k \in B : m <= k
  <2>1. B \in SUBSET Nat
    OBVIOUS
  <2>2. n + 1 \in B
    OBVIOUS
  <2> HIDE DEF B
  <2> QED BY <2>1, <2>2, LeastMember
<1>2. m \in 1 .. n + 1 /\ x < f[m]
  OBVIOUS
<1>3. m # 1
  BY <1>0, <1>2
<1>4. PICK l \in 1 .. n : l = m - 1 /\ l + 1 = m /\ l \in 1 .. n + 1 /\ ~ (m <= l)
  BY <1>2, <1>3
<1>5. ~ (x < f[l])
  BY <1>1, <1>4
<1> QED BY <1>0, <1>2, <1>4, <1>5

LEMMA OneStep ==
    ASSUME NEW n \in Nat, NEW f, Ascends(f, n), NEW x \in Int,
           NEW k \in 1 .. n, f[k] <= x, x < f[k + 1],
           NEW m \in 1 .. n, f[m] <= x, x < f[m + 1]
    PROVE  k = m
<1>0. \A j \in 1 .. n + 1 : f[j] \in Int
  BY DEF Ascends
<1>1. ASSUME NEW a \in 1 .. n, NEW b \in 1 .. n, a < b, f[b] <= x, x < f[a + 1] PROVE FALSE
  <2>1. a + 1 \in 1 .. n + 1 /\ b \in a + 1 .. n + 1 /\ b \in 1 .. n + 1
    BY <1>1
  <2>2. f[a + 1] <= f[b]
    BY <2>1, AscendsTo
  <2> QED BY <1>0, <1>1, <2>1, <2>2
<1>2. k < m \/ m < k \/ k = m
  OBVIOUS
<1> QED BY <1>1, <1>2

\* Entries are at pos[1], pos[2] and so on, and f is the step of val at each of them
\* and nothing between: then it adds up to val.
Steps(f, n, pos, val) ==
    /\ Ascends(pos, n) /\ pos[1] = 1 /\ \A k \in 1 .. n : pos[k] < pos[k + 1]
    /\ val \in [1 .. n + 1 -> Int]
    /\ \A k \in 1 .. n : f[pos[k]] = val[k + 1] - val[k]
    /\ \A k \in 1 .. n : \A x \in pos[k] + 1 .. pos[k + 1] - 1 : f[x] = 0

LEMMA StepsSum ==
    ASSUME NEW n \in Nat, NEW f, NEW pos, NEW val, Steps(f, n, pos, val),
           NEW k \in 1 .. n, NEW x \in Nat, pos[k] <= x, x < pos[k + 1]
    PROVE  SumTo(f, x) = val[k + 1] - val[1]
<1>1. /\ Ascends(pos, n) /\ pos[1] = 1 /\ \A j \in 1 .. n : pos[j] < pos[j + 1]
      /\ \A j \in 1 .. n + 1 : pos[j] \in Int /\ val[j] \in Int
      /\ \A j \in 1 .. n : f[pos[j]] = val[j + 1] - val[j]
      /\ \A j \in 1 .. n : \A y \in pos[j] + 1 .. pos[j + 1] - 1 : f[y] = 0
  BY DEF Steps, Ascends
<1> DEFINE Of(y) == CHOOSE j \in 1 .. n : pos[j] <= y /\ y < pos[j + 1]
           g == [y \in 0 .. x |-> IF y = 0 THEN 0 ELSE val[Of(y) + 1] - val[1]]
<1>2. ASSUME NEW y \in 1 .. x
      PROVE  Of(y) \in 1 .. n /\ pos[Of(y)] <= y /\ y < pos[Of(y) + 1]
  <2>1. pos[1] <= y /\ y < pos[n + 1]
    <3>1. k + 1 \in 1 .. n + 1 /\ n + 1 \in k + 1 .. n + 1
      OBVIOUS
    <3>2. pos[k + 1] <= pos[n + 1]
      BY <1>1, <3>1, AscendsTo
    <3>3. pos[k + 1] \in Int /\ pos[n + 1] \in Int
      BY <1>1, <3>1
    <3> QED BY <1>1, <3>2, <3>3
  <2>2. \E j \in 1 .. n : pos[j] <= y /\ y < pos[j + 1]
    BY <1>1, <2>1, StepOf
  <2> QED BY <2>2
<1>3. ASSUME NEW y \in 1 .. x, NEW j \in 1 .. n, pos[j] <= y, y < pos[j + 1] PROVE Of(y) = j
  BY <1>1, <1>2, <1>3, OneStep
<1> HIDE DEF Of
<1>4. ASSUME NEW y \in 1 .. x PROVE g[y] = g[y - 1] + f[y]
  <2>1. PICK j \in 1 .. n : j = Of(y) /\ pos[j] <= y /\ y < pos[j + 1]
    BY <1>2
  <2>2. y # 0 /\ y \in 0 .. x /\ y - 1 \in 0 .. x
    OBVIOUS
  <2>3. g[y] = val[j + 1] - val[1]
    BY <2>1, <2>2
  <2>4. pos[j] \in Int /\ pos[j + 1] \in Int /\ val[j] \in Int /\ val[j + 1] \in Int /\ val[1] \in Int
    <3>1. j \in 1 .. n + 1 /\ j + 1 \in 1 .. n + 1 /\ 1 \in 1 .. n + 1
      OBVIOUS
    <3> QED BY <1>1, <3>1
  <2>5. CASE y = pos[j]
    <3>1. f[y] = val[j + 1] - val[j]
      BY <1>1, <2>5
    <3>2. g[y - 1] = val[j] - val[1]
      <4>1. CASE j = 1
        <5>1. y - 1 = 0
          BY <1>1, <2>5, <4>1
        <5>2. g[0] = 0
          BY <2>2
        <5> QED BY <2>4, <4>1, <5>1, <5>2
      <4>2. CASE j # 1
        <5>1. PICK l \in 1 .. n : l + 1 = j
          BY <4>2
        <5>2. pos[l] < pos[j] /\ pos[l] \in Int /\ pos[1] <= pos[l]
          <6>1. l \in 1 .. n + 1 /\ 1 \in 1 .. n + 1 /\ l \in 1 .. n + 1
            OBVIOUS
          <6> QED BY <1>1, <5>1, <6>1, AscendsTo
        <5>3. pos[l] <= y - 1 /\ y - 1 < pos[l + 1] /\ y - 1 \in 1 .. x
          BY <1>1, <2>4, <2>5, <5>1, <5>2
        <5>4. Of(y - 1) = l
          BY <1>3, <5>3
        <5>5. y - 1 # 0
          BY <5>3
        <5> QED BY <2>2, <5>1, <5>4, <5>5
      <4> QED BY <4>1, <4>2
    <3> QED BY <2>3, <2>4, <3>1, <3>2
  <2>6. CASE y # pos[j]
    <3>1. y \in pos[j] + 1 .. pos[j + 1] - 1
      BY <2>1, <2>4, <2>6
    <3>2. f[y] = 0
      BY <1>1, <3>1
    <3>3. pos[j] >= 1
      <4>1. 1 \in 1 .. n + 1 /\ j \in 1 .. n + 1
        OBVIOUS
      <4>2. pos[1] <= pos[j]
        BY <1>1, <4>1, AscendsTo
      <4> QED BY <1>1, <2>4, <4>2
    <3>4. pos[j] <= y - 1 /\ y - 1 < pos[j + 1] /\ y - 1 \in 1 .. x
      BY <2>1, <2>4, <3>1, <3>3
    <3>5. Of(y - 1) = j
      BY <1>3, <3>4
    <3>6. y - 1 # 0
      BY <3>4
    <3>7. g[y - 1] = val[j + 1] - val[1]
      BY <2>2, <3>5, <3>6
    <3> QED BY <2>3, <2>4, <3>2, <3>7
  <2> QED BY <2>5, <2>6
<1>5. g[0] = 0
  OBVIOUS
<1>6. g[x] = val[k + 1] - val[1]
  <2>1. x \in 1 .. x /\ x # 0
    <3>1. 1 \in 1 .. n + 1 /\ k \in 1 .. n + 1
      OBVIOUS
    <3>2. pos[1] <= pos[k]
      BY <1>1, <3>1, AscendsTo
    <3> QED BY <1>1, <3>1, <3>2
  <2>2. Of(x) = k
    BY <1>3, <2>1
  <2> QED BY <2>1, <2>2
<1> HIDE DEF g
<1> QED BY <1>4, <1>5, <1>6, SumIs

-----------------------------------------------------------------------------
(***************************************************************************)
(* Division by the number of a group's values.                             *)
(***************************************************************************)
LEMMA GroupType == Group \in Nat /\ Group > 1 /\ WordModulus \in Nat /\ WordModulus > 0
  BY VarintAssumption

LEMMA Division ==
    ASSUME NEW v \in Nat
    PROVE  /\ v \div Group \in Nat /\ v % Group \in 0 .. Group - 1
           /\ v = Group * (v \div Group) + (v % Group)
           /\ v \div Group <= v
           /\ v > 0 => v \div Group < v
<1>1. v \div Group \in Int /\ v % Group \in 0 .. Group - 1
      /\ v = Group * (v \div Group) + (v % Group)
  BY GroupType
<1> DEFINE q == v \div Group
           r == v % Group
<1>2. q \in Int /\ r \in 0 .. Group - 1 /\ v = Group * q + r
  BY <1>1
<1> HIDE DEF q, r
<1>3. q >= 0
  <2> SUFFICES ASSUME q < 0 PROVE FALSE
    BY <1>2
  <2>1. Group * q <= Group * (-1)
    BY <1>2, GroupType
  <2> QED BY <1>2, <2>1, GroupType
<1>4. Group * q >= 2 * q
  BY <1>2, <1>3, GroupType
<1>5. q <= v /\ (v > 0 => q < v)
  <2> PICK a : a = Group * q
    OBVIOUS
  <2>1. a \in Int /\ a >= 2 * q /\ v = a + r
    BY <1>2, <1>4, GroupType
  <2> QED BY <1>2, <1>3, <2>1, GroupType
<1> QED BY <1>1, <1>2, <1>3, <1>5 DEF q, r

\* A byte is a group and two flags.
LEMMA ByteParts ==
    ASSUME NEW d \in 0 .. Group - 1, NEW c \in 0 .. 1, NEW f \in 0 .. 1
    PROVE  LET b == d + c * Group + f * StartFlag
           IN  /\ b \in 0 .. 4 * Group - 1
               /\ b % Group = d
               /\ (b \div More) % 2 = c
               /\ b >= StartFlag <=> f = 1
<1> DEFINE b == d + c * Group + f * StartFlag
           q == c + 2 * f
<1>1. b = d + q * Group /\ q \in 0 .. 3 /\ q % 2 = c
  BY GroupType DEF StartFlag
<1>2. b % Group = d /\ b \div Group = q
  <2>1. q = 0 \/ q = 1 \/ q = 2 \/ q = 3
    BY <1>1
  <2>2. \A k \in 0 .. 3 : (d + k * Group) % Group = d /\ (d + k * Group) \div Group = k
    BY GroupType
  <2> QED BY <1>1, <2>2
<1>3. b \in 0 .. 4 * Group - 1 /\ (b >= 2 * Group <=> f = 1)
  BY GroupType DEF StartFlag
<1> QED BY <1>1, <1>2, <1>3 DEF More, StartFlag

-----------------------------------------------------------------------------
(***************************************************************************)
(* The groups of a value.                                                  *)
(***************************************************************************)
Grouped(g, v) == IF v < Group THEN <<v>> ELSE g[v \div Group] \o <<v % Group>>

LEMMA GroupsIs == \A v \in Nat : Groups[v] = Grouped(Groups, v)
<1> DEFINE Upto(g, n) == \A v \in 0 .. n : g[v] = Grouped(g, v)
<1>1. \A n \in Nat : \E g : Upto(g, n)
  <2> DEFINE B == {n \in Nat : ~ \E g : Upto(g, n)}
  <2> SUFFICES ASSUME B # {} PROVE FALSE
    OBVIOUS
  <2>1. PICK m \in B : \A k \in B : m <= k
    BY LeastMember
  <2>2. \E g : Upto(g, m)
    <3>1. CASE m = 0
      <4> DEFINE g == [v \in 0 .. 0 |-> <<0>>]
      <4>0. \A v \in 0 .. 0 : v = 0 /\ v < Group
        BY GroupType
      <4>1. Upto(g, 0)
        BY <4>0, Zenon DEF Grouped
      <4> QED BY <3>1, <4>1
    <3>2. CASE m # 0
      <4>1. m - 1 \in Nat /\ m - 1 \notin B
        BY <2>1, <3>2
      <4>2. PICK g : Upto(g, m - 1)
        BY <4>1
      <4> DEFINE h == [v \in 0 .. m |-> IF v = m THEN Grouped(g, m) ELSE g[v]]
      <4>3. ASSUME NEW v \in 0 .. m PROVE h[v] = Grouped(h, v)
        <5>1. v >= Group => v \div Group \in 0 .. m - 1
          BY Division, GroupType
        <5>2. v >= Group => h[v \div Group] = g[v \div Group]
          BY <5>1
        <5>3. Grouped(h, v) = Grouped(g, v)
          BY <5>2, GroupType DEF Grouped
        <5>4. v # m => v \in 0 .. m - 1
          OBVIOUS
        <5>5. v # m => g[v] = Grouped(g, v)
          BY <4>2, <5>4
        <5> QED BY <5>3, <5>5
      <4>4. Upto(h, m)
        BY <4>3
      <4> QED BY <4>4
    <3> QED BY <3>1, <3>2
  <2> QED BY <2>1, <2>2
<1>2. \A n, m \in Nat : \A g, h :
        Upto(g, n) /\ Upto(h, m) => \A v \in 0 .. n : v <= m => g[v] = h[v]
  <2> TAKE n, m \in Nat
  <2> TAKE g, h
  <2> HAVE Upto(g, n) /\ Upto(h, m)
  <2> DEFINE B == {v \in 0 .. n : v <= m /\ g[v] # h[v]}
  <2> SUFFICES ASSUME B # {} PROVE FALSE
    OBVIOUS
  <2>0. B \in SUBSET Nat
    OBVIOUS
  <2>1. PICK b \in B : \A k \in B : b <= k
    BY <2>0, LeastMember
  <2>2. b \in 0 .. n /\ b \in 0 .. m /\ b \in Nat
    OBVIOUS
  <2>3. g[b] = Grouped(g, b) /\ h[b] = Grouped(h, b)
    BY <2>2
  <2>4. b >= Group => b \div Group \in 0 .. n /\ b \div Group <= m /\ ~ (b <= b \div Group)
    BY <2>2, Division, GroupType
  <2>5. b >= Group => g[b \div Group] = h[b \div Group]
    BY <2>1, <2>4
  <2> QED BY <2>2, <2>3, <2>5, GroupType DEF Grouped
<1> DEFINE pick(v) == CHOOSE g : Upto(g, v)
           f == [v \in Nat |-> pick(v)[v]]
<1>3. \A v \in Nat : Upto(pick(v), v)
  BY <1>1
<1> HIDE DEF pick
<1>4. ASSUME NEW v \in Nat PROVE f[v] = Grouped(f, v)
  <2>1. f[v] = Grouped(pick(v), v)
    BY <1>3
  <2>2. v >= Group => f[v \div Group] = pick(v)[v \div Group]
    <3> HAVE v >= Group
    <3>1. v \div Group \in Nat /\ v \div Group <= v
      BY Division
    <3>2. v \div Group \in 0 .. v /\ v \div Group \in 0 .. v \div Group
      BY <3>1
    <3>3. f[v \div Group] = pick(v \div Group)[v \div Group]
      BY <3>1
    <3> HIDE DEF f, Upto
    <3> QED BY <1>2, <1>3, <3>1, <3>2, <3>3
  <2> QED BY <2>1, <2>2, GroupType DEF Grouped
<1>5. f = [v \in Nat |-> IF v < Group THEN <<v>> ELSE f[v \div Group] \o <<v % Group>>]
  BY <1>4 DEF Grouped
<1> HIDE DEF f
<1>6. \E e : e = [v \in Nat |-> IF v < Group THEN <<v>> ELSE e[v \div Group] \o <<v % Group>>]
  BY <1>5
<1>7. Groups = [v \in Nat |-> IF v < Group THEN <<v>> ELSE Groups[v \div Group] \o <<v % Group>>]
  BY <1>6 DEF Groups
<1> QED BY <1>7 DEF Grouped

\* f folds the groups g from the first, as read_varint() does.
Folds(f, g) ==
    /\ f[1] = g[1]
    /\ \A k \in 2 .. Len(g) : f[k] = g[k] + Group * f[k - 1]

\* The groups of a value fold to it.
LEMMA GroupsFold ==
    \A v \in Nat : /\ Groups[v] \in Seq(0 .. Group - 1)
                   /\ Len(Groups[v]) \in Nat /\ Len(Groups[v]) >= 1
                   /\ \A f : Folds(f, Groups[v]) => f[Len(Groups[v])] = v
<1> DEFINE Good(v) == /\ Groups[v] \in Seq(0 .. Group - 1)
                      /\ Len(Groups[v]) \in Nat /\ Len(Groups[v]) >= 1
                      /\ \A f : Folds(f, Groups[v]) => f[Len(Groups[v])] = v
           B == {v \in Nat : ~ Good(v)}
<1> SUFFICES ASSUME B # {} PROVE FALSE
  OBVIOUS
<1>1. PICK v \in B : \A k \in B : v <= k
  BY LeastMember
<1>0. v \in Nat /\ ~ Good(v)
  OBVIOUS
<1>4. \A q \in Nat : q < v => Good(q)
  BY <1>0, <1>1
<1> HIDE DEF Good, B
<1>2. CASE v < Group
  <2>0. Groups[v] = Grouped(Groups, v)
    BY <1>0, GroupsIs
  <2>1. Groups[v] = <<v>> /\ v \in 0 .. Group - 1
    BY <1>0, <1>2, <2>0, GroupType DEF Grouped
  <2>2. <<v>> \in Seq(0 .. Group - 1) /\ Len(<<v>>) = 1 /\ <<v>>[1] = v
    BY <2>1
  <2>3. Good(v)
    <3>1. Len(Groups[v]) = 1 /\ Groups[v][1] = v
      BY <2>1, <2>2
    <3> QED BY <2>1, <2>2, <3>1 DEF Good, Folds
  <2> QED BY <1>0, <2>3
<1>3. CASE v >= Group
  <2> PICK q : q = v \div Group
    OBVIOUS
  <2> PICK r : r = v % Group
    OBVIOUS
  <2> PICK h : h = Groups[q]
    OBVIOUS
  <2>1. q \in Nat /\ q < v /\ r \in 0 .. Group - 1 /\ v = Group * q + r
    BY <1>0, <1>3, Division, GroupType
  <2>2. Good(q)
    BY <1>4, <2>1
  <2>3. Groups[v] = h \o <<r>>
    <3>1. Groups[v] = Grouped(Groups, v) /\ ~ (v < Group)
      BY <1>0, <1>3, GroupsIs, GroupType
    <3> QED BY <3>1, Zenon DEF Grouped
  <2>4. h \in Seq(0 .. Group - 1) /\ <<r>> \in Seq(0 .. Group - 1) /\ Len(<<r>>) = 1 /\ <<r>>[1] = r
    BY <2>1, <2>2 DEF Good
  <2> PICK n : n = Len(h)
    OBVIOUS
  <2> PICK g : g = h \o <<r>>
    OBVIOUS
  <2>5. n \in Nat /\ n >= 1 /\ \A f : Folds(f, h) => f[n] = q
    BY <2>2 DEF Good
  <2>6. /\ g \in Seq(0 .. Group - 1) /\ Len(g) = n + 1
        /\ \A k \in 1 .. n : g[k] = h[k]
        /\ g[n + 1] = r
    <3>1. 1 \in 1 .. Len(<<r>>)
      BY <2>4
    <3> QED BY <2>4, <3>1, ConcatIs
  <2>7. ASSUME NEW f, Folds(f, g) PROVE f[n + 1] = v
    <3>1. f[1] = g[1] /\ \A k \in 2 .. n + 1 : f[k] = g[k] + Group * f[k - 1]
      BY <2>6, <2>7 DEF Folds
    <3>2. Folds(f, h)
      <4>1. f[1] = h[1]
        BY <2>5, <2>6, <3>1
      <4>2. ASSUME NEW k \in 2 .. n PROVE f[k] = h[k] + Group * f[k - 1]
        <5>1. k \in 2 .. n + 1 /\ k \in 1 .. n
          BY <2>5
        <5> QED BY <2>6, <3>1, <5>1
      <4> QED BY <4>1, <4>2 DEF Folds
    <3>3. n + 1 \in 2 .. n + 1 /\ n + 1 - 1 = n
      BY <2>5
    <3> PICK m : m = n + 1
      OBVIOUS
    <3>6. n \in Nat /\ n >= 1
      BY <2>5
    <3>7. m \in 2 .. m /\ m - 1 = n
      BY <3>6
    <3>4. f[m] = g[m] + Group * f[m - 1] /\ m - 1 = n /\ g[m] = r
      BY <2>6, <3>1, <3>7
    <3>5. f[n + 1] = r + Group * q
      BY <2>5, <3>2, <3>4
    <3> QED BY <2>1, <3>5, GroupType
  <2>8. Groups[v] = g /\ Len(g) \in Nat /\ Len(g) >= 1
    BY <2>3, <2>5, <2>6
  <2>9. Good(v)
    BY <2>6, <2>7, <2>8 DEF Good
  <2> QED BY <1>0, <2>9
<1> QED BY <1>0, <1>2, <1>3, GroupType

LEMMA GroupIn ==
    ASSUME NEW v \in Nat, NEW k \in 1 .. Len(Groups[v])
    PROVE  Groups[v][k] \in 0 .. Group - 1
  BY GroupsFold, ElementOfSeq

-----------------------------------------------------------------------------
(***************************************************************************)
(* A varint, written and read.                                             *)
(***************************************************************************)
Bytes == 0 .. 4 * Group - 1

\* The bytes w hold the groups g.
Varint(w, g, flag) ==
    /\ w \in Seq(Bytes) /\ Len(w) = Len(g)
    /\ \A k \in 1 .. Len(g) : /\ w[k] % Group = g[k]
                              /\ (w[k] \div More) % 2 = IF k < Len(g) THEN 1 ELSE 0
                              /\ w[k] >= StartFlag <=> k = 1 /\ flag = StartFlag

LEMMA WriteBigIs ==
    ASSUME NEW v \in Nat, NEW flag \in {0, StartFlag}
    PROVE  Varint(WriteBig(v, flag), Groups[v], flag)
<1> PICK g : g = Groups[v]
  OBVIOUS
<1> PICK n : n = Len(g)
  OBVIOUS
<1>1. g \in Seq(0 .. Group - 1) /\ n \in Nat /\ n >= 1
  BY GroupsFold
<1> DEFINE at(k) == g[k] + (IF k < n THEN 1 ELSE 0) * Group
                      + (IF k = 1 /\ flag = StartFlag THEN 1 ELSE 0) * StartFlag
           w == [k \in 1 .. n |-> at(k)]
<1>0. \A k \in 1 .. n : g[k] \in 0 .. Group - 1
  BY <1>1, ElementOfSeq
<1>2. ASSUME NEW k \in 1 .. n
      PROVE  /\ at(k) = MostFirst(g, k) + (IF k < n THEN More ELSE 0) + FlagFirst(k, n, flag)
             /\ at(k) \in Bytes
             /\ at(k) % Group = g[k]
             /\ (at(k) \div More) % 2 = IF k < n THEN 1 ELSE 0
             /\ at(k) >= StartFlag <=> k = 1 /\ flag = StartFlag
  <2> DEFINE c == IF k < n THEN 1 ELSE 0
             f == IF k = 1 /\ flag = StartFlag THEN 1 ELSE 0
  <2>0. g[k] \in 0 .. Group - 1
    BY <1>0
  <2>1. g[k] \in 0 .. Group - 1 /\ c \in 0 .. 1 /\ f \in 0 .. 1
    BY <2>0
  <2>2. /\ c * Group = IF k < n THEN More ELSE 0
        /\ f * StartFlag = FlagFirst(k, n, flag)
    BY GroupType DEF More, StartFlag, FlagFirst
  <2>3. g[k] = MostFirst(g, k)
    BY DEF MostFirst
  <2> HIDE DEF c, f
  <2>4. LET b == g[k] + c * Group + f * StartFlag
        IN  /\ b \in 0 .. 4 * Group - 1
            /\ b % Group = g[k]
            /\ (b \div More) % 2 = c
            /\ b >= StartFlag <=> f = 1
    BY <2>1, ByteParts
  <2>5. at(k) = g[k] + c * Group + f * StartFlag
    BY DEF c, f
  <2>6. (c = IF k < n THEN 1 ELSE 0) /\ (f = 1 <=> k = 1 /\ flag = StartFlag)
    BY DEF c, f
  <2> HIDE DEF at
  <2> QED BY <2>2, <2>3, <2>4, <2>5, <2>6 DEF Bytes
<1>3. WriteBig(v, flag) = w
  BY <1>2 DEF WriteBig
<1> HIDE DEF at
<1>4. w \in Seq(Bytes) /\ Len(w) = n
  <2>1. w \in [1 .. n -> Bytes]
    BY <1>2
  <2>2. w \in Seq(Bytes)
    BY <1>1, <2>1, SeqDef
  <2> QED BY <1>1, <2>2, LenProperties
<1>5. \A k \in 1 .. n : w[k] = at(k)
  OBVIOUS
<1> HIDE DEF w
<1> QED BY <1>2, <1>3, <1>4, <1>5 DEF Varint

\* What read_varint() has after each byte, of the low parts d.
ValIs(u, p0, l, d) == u = [q \in p0 .. l |-> d[q] + IF q = p0 THEN 0 ELSE Group * u[q - 1]]

LEMMA ValExists ==
    ASSUME NEW p0 \in Nat, NEW d
    PROVE  \A n \in Nat : \E u : ValIs(u, p0, p0 + n, d)
<1> USE DEF ValIs
<1> DEFINE Is(u, n) == ValIs(u, p0, p0 + n, d)
           B == {n \in Nat : ~ \E u : Is(u, n)}
<1> SUFFICES ASSUME B # {} PROVE FALSE
  OBVIOUS
<1>1. PICK m \in B : \A k \in B : m <= k
  BY LeastMember
<1>2. m \in Nat /\ ~ (\E u : Is(u, m)) /\ (m > 0 => \E u : Is(u, m - 1))
  <2>1. m \in Nat /\ ~ (\E u : Is(u, m))
    OBVIOUS
  <2>2. m > 0 => m - 1 \in Nat /\ ~ (m <= m - 1)
    BY <2>1
  <2>3. m > 0 => m - 1 \notin B
    BY <1>1, <2>2
  <2> QED BY <2>1, <2>2, <2>3
<1>3. CASE m = 0
  <2> DEFINE u == [q \in p0 .. p0 + 0 |-> d[q] + 0]
  <2>1. \A q \in p0 .. p0 + 0 : q = p0
    OBVIOUS
  <2>2. Is(u, 0)
    BY <2>1, Zenon
  <2> QED BY <1>2, <1>3, <2>2
<1>4. CASE m > 0
  <2>1. PICK w : Is(w, m - 1)
    BY <1>2, <1>4
  <2> PICK l : l = p0 + m
    OBVIOUS
  <2> DEFINE u == [q \in p0 .. l |-> IF q = l THEN d[l] + Group * w[l - 1] ELSE w[q]]
  <2>2. /\ l \in Nat /\ p0 < l /\ p0 + (m - 1) = l - 1
        /\ \A q \in p0 .. l : q # l => q \in p0 .. l - 1
        /\ \A q \in p0 .. l : q # p0 => q - 1 \in p0 .. l /\ q - 1 # l
    BY <1>2, <1>4
  <2>3. ASSUME NEW q \in p0 .. l
        PROVE  u[q] = d[q] + IF q = p0 THEN 0 ELSE Group * u[q - 1]
    <3>1. q # p0 => u[q - 1] = w[q - 1]
      BY <2>2
    <3>2. q # l => w[q] = d[q] + IF q = p0 THEN 0 ELSE Group * w[q - 1]
      <4>1. w = [j \in p0 .. l - 1 |-> d[j] + IF j = p0 THEN 0 ELSE Group * w[j - 1]]
        BY <2>1, <2>2
      <4> QED BY <2>2, <4>1
    <3> QED BY <2>2, <3>1, <3>2
  <2>4. Is(u, m)
    BY <2>3
  <2> QED BY <1>2, <2>4
<1> QED BY <1>2, <1>3, <1>4

LEMMA ReadBigIs ==
    ASSUME NEW b \in Seq(Bytes), NEW q, NEW v \in Nat, NEW flag \in {0, StartFlag},
           Holds(b, q, WriteBig(v, flag))
    PROVE  ReadBig(b, q) = [val |-> v, next |-> q + Len(WriteBig(v, flag))]
<1> PICK g : g = Groups[v]
  OBVIOUS
<1> PICK n : n = Len(g)
  OBVIOUS
<1> PICK w : w = WriteBig(v, flag)
  OBVIOUS
<1> PICK last : last = q + n - 1
  OBVIOUS
<1>1. n \in Nat /\ n >= 1
  BY GroupsFold
<1>2. /\ Len(w) = n
      /\ \A k \in 1 .. n : /\ w[k] % Group = g[k]
                           /\ (w[k] \div More) % 2 = IF k < n THEN 1 ELSE 0
  <2>1. Varint(w, g, flag)
    BY WriteBigIs
  <2> QED BY <2>1 DEF Varint
<1>3. /\ q \in Nat /\ q > 0 /\ last \in Nat /\ q <= last /\ last <= Len(b) /\ Len(b) \in Nat
      /\ last = q + (n - 1)
  BY <1>1, <1>2 DEF Holds
<1>4. ASSUME NEW j \in q .. last
      PROVE  /\ j - q + 1 \in 1 .. n
             /\ b[j] % Group = g[j - q + 1]
             /\ (b[j] \div More) % 2 = IF j < last THEN 1 ELSE 0
  <2> PICK k : k = j - q + 1
    OBVIOUS
  <2>1. k \in 1 .. n /\ q + k - 1 = j /\ (k < n <=> j < last)
    BY <1>1, <1>3
  <2>2. b[q + k - 1] = w[k]
    BY <1>2, <2>1 DEF Holds
  <2> QED BY <1>2, <2>1, <2>2
<1> DEFINE Ends == {j \in q .. Len(b) : (b[j] \div More) % 2 = 0}
           Is(u) == u = [j \in q .. last |-> (b[j] % Group) + IF j = q THEN 0 ELSE Group * u[j - 1]]
<1>5. Min(Ends) = last
  <2>1. last \in Ends
    BY <1>3, <1>4
  <2>2. ASSUME NEW j \in Ends PROVE last <= j
    <3>1. j \in Nat /\ q <= j /\ (b[j] \div More) % 2 = 0
      BY <1>3
    <3>2. j < last => j \in q .. last
      BY <1>3, <3>1
    <3>3. j < last => (b[j] \div More) % 2 = 1
      BY <1>4, <3>2
    <3> HIDE DEF Ends
    <3> QED BY <1>3, <3>1, <3>3
  <2>3. Ends \in SUBSET Int
    OBVIOUS
  <2> HIDE DEF Ends
  <2> QED BY <2>1, <2>2, <2>3, MinIs
<1>6. ReadBig(b, q) = [val |-> (CHOOSE u : Is(u))[last], next |-> last + 1]
  BY <1>5, Zenon DEF ReadBig
<1>7. \E u : Is(u)
  <2> DEFINE low == [j \in q .. last |-> b[j] % Group]
  <2>1. PICK u : ValIs(u, q, last, low)
    <3>1. n - 1 \in Nat
      BY <1>1
    <3> HIDE DEF low
    <3> QED BY <1>3, <3>1, ValExists
  <2>2. Is(u)
    BY <2>1 DEF ValIs
  <2> QED BY <2>2
<1>8. ASSUME NEW u, Is(u) PROVE u[last] = v
  <2> DEFINE f == [k \in 1 .. n |-> u[q + k - 1]]
  <2>1. \A j \in q .. last : u[j] = (b[j] % Group) + IF j = q THEN 0 ELSE Group * u[j - 1]
    BY <1>8
  <2>2. \A k \in 1 .. n : g[k] \in Int
    BY GroupIn
  <2>3. f[1] = g[1]
    <3>1. f[1] = u[q] /\ q \in q .. last /\ q - q + 1 = 1 /\ 1 \in 1 .. n
      BY <1>1, <1>3
    <3>2. u[q] = (b[q] % Group) + 0 /\ b[q] % Group = g[1]
      BY <1>4, <2>1, <3>1
    <3> QED BY <2>2, <3>1, <3>2
  <2>4. ASSUME NEW k \in 2 .. n PROVE f[k] = g[k] + Group * f[k - 1]
    <3> PICK j : j = q + k - 1
      OBVIOUS
    <3>1. /\ j \in q .. last /\ j # q /\ j - q + 1 = k /\ q + (k - 1) - 1 = j - 1
          /\ k \in 1 .. n /\ k - 1 \in 1 .. n
      BY <1>1, <1>3
    <3>2. f[k] = u[j] /\ f[k - 1] = u[j - 1]
      BY <3>1
    <3>3. u[j] = (b[j] % Group) + Group * u[j - 1] /\ b[j] % Group = g[k]
      BY <1>4, <2>1, <3>1
    <3> QED BY <3>2, <3>3
  <2>5. Folds(f, g)
    BY <2>3, <2>4 DEF Folds
  <2>6. f[n] = u[last] /\ n \in 1 .. n
    BY <1>1, <1>3
  <2> HIDE DEF f, Is
  <2> QED BY <2>5, <2>6, GroupsFold
<1> HIDE DEF Is
<1>9. (CHOOSE u : Is(u))[last] = v
  BY <1>7, <1>8
<1> QED BY <1>1, <1>2, <1>3, <1>6, <1>9

-----------------------------------------------------------------------------
(***************************************************************************)
(* An entry, written and read.                                             *)
(***************************************************************************)
\* Bytes whose first one, and no other, starts an entry; and bytes none of which does.
Marked(s) ==
    s \in Seq(Bytes) /\ Len(s) > 0 /\ \A k \in 1 .. Len(s) : s[k] >= StartFlag <=> k = 1
Unmarked(s) ==
    s \in Seq(Bytes) /\ Len(s) > 0 /\ \A k \in 1 .. Len(s) : ~ (s[k] >= StartFlag)

LEMMA MarkedBig ==
    ASSUME NEW v \in Nat
    PROVE  Marked(WriteBig(v, StartFlag)) /\ Unmarked(WriteBig(v, 0))
<1>1. Len(Groups[v]) \in Nat /\ Len(Groups[v]) >= 1
  BY GroupsFold
<1>2. Marked(WriteBig(v, StartFlag))
  <2>1. Varint(WriteBig(v, StartFlag), Groups[v], StartFlag)
    BY WriteBigIs
  <2> QED BY <1>1, <2>1 DEF Varint, Marked
<1>3. Unmarked(WriteBig(v, 0))
  <2>1. Varint(WriteBig(v, 0), Groups[v], 0)
    BY WriteBigIs
  <2>2. StartFlag # 0
    BY GroupType DEF StartFlag
  <2> QED BY <1>1, <2>1, <2>2 DEF Varint, Unmarked
<1> QED BY <1>2, <1>3

LEMMA MarkedConcat ==
    ASSUME NEW s, NEW t, Marked(s), Unmarked(t)
    PROVE  Marked(s \o t)
<1> PICK m : m = Len(s)
  OBVIOUS
<1> PICK n : n = Len(t)
  OBVIOUS
<1> PICK u : u = s \o t
  OBVIOUS
<1>1. /\ m \in Nat /\ n \in Nat /\ m > 0 /\ n > 0
      /\ \A k \in 1 .. m : s[k] >= StartFlag <=> k = 1
      /\ \A k \in 1 .. n : ~ (t[k] >= StartFlag)
  BY DEF Marked, Unmarked
<1>2. /\ u \in Seq(Bytes) /\ Len(u) = m + n
      /\ \A k \in 1 .. m : u[k] = s[k]
      /\ \A k \in 1 .. n : u[m + k] = t[k]
  BY ConcatIs DEF Marked, Unmarked
<1>3. ASSUME NEW k \in 1 .. m + n PROVE u[k] >= StartFlag <=> k = 1
  <2>1. CASE k <= m
    BY <1>1, <1>2, <2>1
  <2>2. CASE k > m
    <3>1. k - m \in 1 .. n /\ m + (k - m) = k /\ k # 1
      BY <1>1, <2>2
    <3>2. u[m + (k - m)] = t[k - m] /\ ~ (t[k - m] >= StartFlag)
      BY <1>1, <1>2, <3>1
    <3> QED BY <3>1, <3>2
  <2> QED BY <1>1, <2>1, <2>2
<1>4. m + n > 0
  BY <1>1
<1> QED BY <1>2, <1>3, <1>4 DEF Marked

\* A size is the distance from the start to the stop, around WordModulus.
LEMMA Around ==
    ASSUME NEW x \in 0 .. WordModulus - 1, NEW y \in 0 .. WordModulus - 1
    PROVE  (y - x) % WordModulus \in Nat /\ (x + ((y - x) % WordModulus)) % WordModulus = y
<1>1. CASE x <= y
  <2>1. (y - x) % WordModulus = y - x
    BY <1>1, GroupType
  <2>2. x + (y - x) = y /\ y % WordModulus = y /\ y - x \in Nat
    BY <1>1, GroupType
  <2> QED BY <2>1, <2>2
<1>2. CASE x > y
  <2>1. (y - x) % WordModulus = y - x + WordModulus
    BY <1>2, GroupType
  <2>2. x + (y - x + WordModulus) = WordModulus + y /\ (WordModulus + y) % WordModulus = y
        /\ y - x + WordModulus \in Nat
    BY <1>2, GroupType
  <2> QED BY <2>1, <2>2
<1> QED BY <1>1, <1>2, GroupType

LEMMA FourParts ==
    ASSUME NEW a \in Seq(Bytes), NEW b \in Seq(Bytes), NEW c \in Seq(Bytes), NEW d \in Seq(Bytes)
    PROVE  /\ Len(a \o b) = Len(a) + Len(b)
           /\ Len((a \o b) \o c) = Len(a) + Len(b) + Len(c)
           /\ Len(((a \o b) \o c) \o d) = Len(a) + Len(b) + Len(c) + Len(d)
<1>1. a \o b \in Seq(Bytes) /\ Len(a \o b) = Len(a) + Len(b)
  BY ConcatProperties
<1>2. (a \o b) \o c \in Seq(Bytes) /\ Len((a \o b) \o c) = Len(a \o b) + Len(c)
  BY <1>1, ConcatProperties
<1>3. Len(((a \o b) \o c) \o d) = Len((a \o b) \o c) + Len(d)
  BY <1>2, ConcatProperties
<1> QED BY <1>1, <1>2, <1>3

\* What is written of an entry is read as that entry.
LEMMA EntryIs ==
    ASSUME NEW e \in Entries
    PROVE  /\ Marked(WriteEntry(e))
           /\ \A b \in Seq(Bytes) : \A q : Holds(b, q, WriteEntry(e)) =>
                 ReadEntry(b, q) = [entry |-> e, next |-> q + Len(WriteEntry(e))]
<1> PICK size : size = (e.stop - e.start) % WordModulus
  OBVIOUS
<1> PICK dl : dl = 2 * e.depth + e.lasti
  OBVIOUS
<1>1. /\ e = [start |-> e.start, stop |-> e.stop, handler |-> e.handler, depth |-> e.depth,
              lasti |-> e.lasti]
      /\ e.start \in 0 .. WordModulus - 1 /\ e.stop \in 0 .. WordModulus - 1
      /\ e.handler \in 0 .. WordModulus - 1 /\ e.depth \in Nat /\ e.lasti \in 0 .. 1
  BY DEF Entries
<1>2. e.start \in Nat /\ e.handler \in Nat
  BY <1>1, GroupType
<1>3. size \in Nat /\ (e.start + size) % WordModulus = e.stop
  BY <1>1, Around
<1>4. dl \in Nat /\ dl \div 2 = e.depth /\ dl % 2 = e.lasti
  <2>1. \A n \in Nat : \A c \in 0 .. 1 :
           2 * n + c \in Nat /\ (2 * n + c) \div 2 = n /\ (2 * n + c) % 2 = c
    OBVIOUS
  <2> QED BY <1>1, <2>1
<1> PICK s1 : s1 = WriteBig(e.start, StartFlag)
  OBVIOUS
<1> PICK s2 : s2 = WriteBig(size, 0)
  OBVIOUS
<1> PICK s3 : s3 = WriteBig(e.handler, 0)
  OBVIOUS
<1> PICK s4 : s4 = WriteBig(dl, 0)
  OBVIOUS
<1>5. Marked(s1) /\ Unmarked(s2) /\ Unmarked(s3) /\ Unmarked(s4)
  BY <1>2, <1>3, <1>4, MarkedBig
<1>6. WriteEntry(e) = ((s1 \o s2) \o s3) \o s4
  BY Zenon DEF WriteEntry
<1>7. Marked(s1 \o s2) /\ Marked((s1 \o s2) \o s3) /\ Marked(((s1 \o s2) \o s3) \o s4)
  <2>1. Marked(s1 \o s2)
    BY <1>5, MarkedConcat
  <2>2. Marked((s1 \o s2) \o s3)
    BY <1>5, <2>1, MarkedConcat
  <2> QED BY <1>5, <2>1, <2>2, MarkedConcat
<1>8. ASSUME NEW b \in Seq(Bytes), NEW q, Holds(b, q, WriteEntry(e))
      PROVE  ReadEntry(b, q) = [entry |-> e, next |-> q + Len(WriteEntry(e))]
  <2>1. Len(b) \in Nat
    BY LenProperties
  <2> PICK n1 : n1 = Len(s1)
    OBVIOUS
  <2> PICK n2 : n2 = Len(s2)
    OBVIOUS
  <2> PICK n3 : n3 = Len(s3)
    OBVIOUS
  <2> PICK n4 : n4 = Len(s4)
    OBVIOUS
  <2>2. /\ s1 \in Seq(Bytes) /\ s2 \in Seq(Bytes) /\ s3 \in Seq(Bytes) /\ s4 \in Seq(Bytes)
        /\ s1 \o s2 \in Seq(Bytes) /\ (s1 \o s2) \o s3 \in Seq(Bytes)
        /\ n1 \in Nat /\ n2 \in Nat /\ n3 \in Nat /\ n4 \in Nat
        /\ n2 > 0 /\ n3 > 0 /\ n4 > 0
    BY <1>5, <1>7 DEF Marked, Unmarked
  <2> PICK u2 : u2 = s1 \o s2
    OBVIOUS
  <2> PICK u3 : u3 = (s1 \o s2) \o s3
    OBVIOUS
  <2> PICK w : w = ((s1 \o s2) \o s3) \o s4
    OBVIOUS
  <2>3. /\ w = WriteEntry(e) /\ w = u3 \o s4 /\ u3 = u2 \o s3
        /\ u2 \in Seq(Bytes) /\ u3 \in Seq(Bytes)
    BY <1>6, <2>2, Zenon
  <2>4. Len(w) = n1 + n2 + n3 + n4 /\ Len(u3) = n1 + n2 + n3 /\ Len(u2) = n1 + n2
    BY <2>2, FourParts
  <2>5. /\ Holds(b, q, s1) /\ Holds(b, q + n1, s2) /\ Holds(b, q + (n1 + n2), s3)
        /\ Holds(b, q + (n1 + n2 + n3), s4)
    <3>1. Holds(b, q, u3 \o s4)
      BY <1>8, <2>3
    <3>2. Holds(b, q, u3) /\ Holds(b, q + Len(u3), s4)
      BY <2>1, <2>2, <2>3, <3>1, HoldsParts
    <3>3. Holds(b, q, u2) /\ Holds(b, q + Len(u2), s3)
      <4>1. Holds(b, q, u2 \o s3)
        BY <2>3, <3>2
      <4> QED BY <2>1, <2>2, <2>3, <4>1, HoldsParts
    <3>4. Holds(b, q, s1) /\ Holds(b, q + Len(s1), s2)
      <4>1. Holds(b, q, s1 \o s2)
        BY <3>3
      <4> QED BY <2>1, <2>2, <4>1, HoldsParts
    <3> QED BY <2>4, <3>2, <3>3, <3>4
  <2>6. q \in Nat
    BY <1>8 DEF Holds
  <2>7. ReadBig(b, q) = [val |-> e.start, next |-> q + n1]
    BY <1>2, <2>5, ReadBigIs
  <2>8. ReadBig(b, q + n1) = [val |-> size, next |-> q + n1 + n2]
    BY <1>3, <2>5, ReadBigIs
  <2>9. ReadBig(b, q + n1 + n2) = [val |-> e.handler, next |-> q + n1 + n2 + n3]
    <3>1. q + (n1 + n2) = q + n1 + n2
      BY <2>2, <2>6
    <3>2. Holds(b, q + n1 + n2, s3)
      BY <2>5, <3>1
    <3> QED BY <1>2, <3>2, ReadBigIs
  <2>10. ReadBig(b, q + n1 + n2 + n3) = [val |-> dl, next |-> q + n1 + n2 + n3 + n4]
    <3>1. q + (n1 + n2 + n3) = q + n1 + n2 + n3
      BY <2>2, <2>6
    <3>2. Holds(b, q + n1 + n2 + n3, s4)
      BY <2>5, <3>1
    <3> QED BY <1>4, <3>2, ReadBigIs
  <2>11. q + Len(WriteEntry(e)) = q + n1 + n2 + n3 + n4
    <3>1. Len(WriteEntry(e)) = n1 + n2 + n3 + n4
      BY <2>3, <2>4
    <3> QED BY <2>2, <2>6, <3>1
  <2>12. ReadEntry(b, q) =
           [entry |-> [start |-> e.start, stop |-> (e.start + size) % WordModulus,
                       handler |-> e.handler, depth |-> dl \div 2, lasti |-> dl % 2],
            next |-> q + n1 + n2 + n3 + n4]
    BY <2>7, <2>8, <2>9, <2>10 DEF ReadEntry
  <2> QED BY <1>1, <1>3, <1>4, <2>11, <2>12
<1> QED BY <1>6, <1>7, <1>8

-----------------------------------------------------------------------------
(***************************************************************************)
(* A table: t is the first n of the entries es, with entry k at pos[k].    *)
(***************************************************************************)
Laid(t, es, n, pos) ==
    /\ t \in Seq(Bytes)
    /\ pos \in [1 .. n + 1 -> Nat \ {0}]
    /\ pos[1] = 1 /\ pos[n + 1] = Len(t) + 1
    /\ \A k \in 1 .. n : /\ pos[k + 1] = pos[k] + Len(WriteEntry(es[k]))
                         /\ Holds(t, pos[k], WriteEntry(es[k]))

LEMMA LaidNone == \A es : Laid(<<>>, es, 0, [k \in 1 .. 1 |-> 1])
<1> TAKE es
<1>1. <<>> \in Seq(Bytes) /\ Len(<<>>) = 0
  OBVIOUS
<1>2. \A k \in 1 .. 0 : FALSE
  OBVIOUS
<1>3. [k \in 1 .. 1 |-> 1] \in [1 .. 0 + 1 -> Nat \ {0}] /\ [k \in 1 .. 1 |-> 1][1] = 1
      /\ [k \in 1 .. 1 |-> 1][0 + 1] = 0 + 1
  OBVIOUS
<1> QED BY <1>1, <1>2, <1>3 DEF Laid

LEMMA LaidMore ==
    ASSUME NEW t, NEW es \in Seq(Entries), NEW n \in Nat, NEW pos, Laid(t, es, n, pos),
           n + 1 \in DOMAIN es
    PROVE  \E f : Laid(t \o WriteEntry(es[n + 1]), es, n + 1, f)
<1> PICK w : w = WriteEntry(es[n + 1])
  OBVIOUS
<1> PICK l : l = Len(w)
  OBVIOUS
<1> PICK L : L = Len(t)
  OBVIOUS
<1> PICK u : u = t \o w
  OBVIOUS
<1>1. es[n + 1] \in Entries
  BY ElementOfSeq, LenProperties
<1>2. w \in Seq(Bytes) /\ l \in Nat /\ l > 0
  BY <1>1, EntryIs DEF Marked
<1>3. /\ t \in Seq(Bytes) /\ pos \in [1 .. n + 1 -> Nat \ {0}]
      /\ pos[1] = 1 /\ pos[n + 1] = L + 1
      /\ \A k \in 1 .. n : /\ pos[k + 1] = pos[k] + Len(WriteEntry(es[k]))
                           /\ Holds(t, pos[k], WriteEntry(es[k]))
  BY DEF Laid
<1>4. /\ u \in Seq(Bytes) /\ L \in Nat /\ Len(u) = L + l
      /\ \A k \in 1 .. L : u[k] = t[k]
      /\ \A k \in 1 .. l : u[L + k] = w[k]
  BY <1>2, <1>3, ConcatIs
<1> DEFINE f == [k \in 1 .. n + 2 |-> IF k <= n + 1 THEN pos[k] ELSE L + 1 + l]
<1>5. /\ f \in [1 .. (n + 1) + 1 -> Nat \ {0}] /\ f[1] = 1
      /\ f[(n + 1) + 1] = Len(u) + 1
      /\ \A k \in 1 .. n + 1 : f[k] = pos[k]
      /\ f[n + 2] = L + 1 + l
  <2>1. /\ n + 2 \in 1 .. n + 2 /\ ~ (n + 2 <= n + 1) /\ (n + 1) + 1 = n + 2
        /\ 1 \in 1 .. n + 1 /\ \A k \in 1 .. n + 1 : k \in 1 .. n + 2 /\ k <= n + 1
    OBVIOUS
  <2>2. L + 1 + l \in Nat \ {0} /\ L + 1 + l = (L + l) + 1
    BY <1>2, <1>4
  <2>3. \A k \in 1 .. n + 2 : k <= n + 1 => pos[k] \in Nat \ {0}
    BY <1>3
  <2> QED BY <1>3, <1>4, <2>1, <2>2, <2>3
<1>6. ASSUME NEW k \in 1 .. n
      PROVE  f[k + 1] = f[k] + Len(WriteEntry(es[k])) /\ Holds(u, f[k], WriteEntry(es[k]))
  <2> PICK s : s = WriteEntry(es[k])
    OBVIOUS
  <2>1. k \in 1 .. n + 1 /\ k + 1 \in 1 .. n + 1
    OBVIOUS
  <2>2. f[k] = pos[k] /\ f[k + 1] = pos[k + 1]
    BY <1>5, <2>1
  <2>3. es[k] \in Entries
    BY ElementOfSeq, LenProperties
  <2>4. Len(s) \in Nat /\ Holds(t, pos[k], s)
    BY <1>3, <2>3, EntryIs DEF Marked
  <2>5. Len(t) \in Nat /\ Len(u) \in Nat /\ Len(t) <= Len(u)
    BY <1>2, <1>4
  <2>6. Holds(u, pos[k], s)
    BY <1>4, <2>4, <2>5, HoldsLonger
  <2> QED BY <1>3, <2>2, <2>6
<1>7. /\ f[(n + 1) + 1] = f[n + 1] + Len(WriteEntry(es[n + 1]))
      /\ Holds(u, f[n + 1], WriteEntry(es[n + 1]))
  <2>1. f[n + 1] = L + 1 /\ f[(n + 1) + 1] = L + 1 + l
    BY <1>3, <1>5
  <2>2. ASSUME NEW j \in 1 .. l PROVE u[L + 1 + j - 1] = w[j]
    <3>1. L + 1 + j - 1 = L + j
      BY <1>4
    <3> QED BY <1>4, <3>1
  <2>3. L + 1 \in Nat \ {0} /\ L + 1 + l - 1 <= Len(u)
    BY <1>2, <1>4
  <2>4. Holds(u, L + 1, w)
    BY <2>2, <2>3 DEF Holds
  <2> QED BY <2>1, <2>4
<1>8. \A k \in 1 .. n + 1 : k \in 1 .. n \/ k = n + 1
  OBVIOUS
<1> HIDE DEF f
<1>9. Laid(u, es, n + 1, f)
  BY <1>4, <1>5, <1>6, <1>7, <1>8 DEF Laid
<1> QED BY <1>9

\* The entries follow one another, and each comes back.
LEMMA EntryBytes ==
    ASSUME NEW b, NEW xs \in Seq(Entries), NEW l \in Nat, l <= Len(xs), NEW q,
           Laid(b, xs, l, q), NEW m \in 1 .. l, NEW s, s = WriteEntry(xs[m])
    PROVE  /\ xs[m] \in Entries
           /\ b \in Seq(Bytes) /\ Holds(b, q[m], s) /\ q[m + 1] = q[m] + Len(s)
           /\ q[m] \in Nat /\ Len(b) \in Nat
           /\ Len(s) \in Nat /\ Len(s) > 0
<1>1. xs[m] \in Entries
  <2>1. m \in 1 .. Len(xs)
    BY LenProperties
  <2> QED BY <2>1, ElementOfSeq
<1>2. /\ b \in Seq(Bytes) /\ Holds(b, q[m], s) /\ q[m + 1] = q[m] + Len(s)
      /\ q[m] \in Nat /\ Len(b) \in Nat
  BY DEF Laid
<1>3. Len(s) \in Nat /\ Len(s) > 0
  BY <1>1, EntryIs DEF Marked
<1> QED BY <1>1, <1>2, <1>3

LEMMA EntryWidth ==
    ASSUME NEW b, NEW xs \in Seq(Entries), NEW l \in Nat, l <= Len(xs), NEW q,
           Laid(b, xs, l, q), NEW m \in 1 .. l
    PROVE  q[m] <= Len(b) /\ q[m] < q[m + 1]
<1> PICK s : s = WriteEntry(xs[m])
  OBVIOUS
<1>1. /\ Holds(b, q[m], s) /\ q[m + 1] = q[m] + Len(s)
      /\ q[m] \in Nat /\ Len(b) \in Nat /\ Len(s) \in Nat /\ Len(s) > 0
  BY EntryBytes
<1>2. q[m] + Len(s) - 1 <= Len(b)
  BY <1>1 DEF Holds
<1> QED BY <1>1, <1>2

LEMMA EntryAt ==
    ASSUME NEW b, NEW xs \in Seq(Entries), NEW l \in Nat, l <= Len(xs), NEW q,
           Laid(b, xs, l, q), NEW m \in 1 .. l, NEW v, v = ReadEntry(b, q[m])
    PROVE  xs[m] \in Entries /\ v.entry = xs[m] /\ v.next = q[m + 1]
<1> PICK s : s = WriteEntry(xs[m])
  OBVIOUS
<1>1. /\ xs[m] \in Entries /\ b \in Seq(Bytes) /\ Holds(b, q[m], s)
      /\ q[m + 1] = q[m] + Len(s) /\ q[m] \in Nat /\ Len(b) \in Nat
  BY EntryBytes
<1>2. v = [entry |-> xs[m], next |-> q[m] + Len(s)]
  BY <1>1, EntryIs
<1> QED BY <1>1, <1>2

LEMMA LaidFacts ==
    ASSUME NEW t, NEW es \in Seq(Entries), NEW n \in Nat, n <= Len(es), NEW pos,
           Laid(t, es, n, pos)
    PROVE  /\ Len(t) \in Nat
           /\ \A k \in 1 .. n + 1 : pos[k] \in Nat /\ pos[k] > 0
           /\ \A k \in 1 .. n : /\ es[k] \in Entries
                                /\ pos[k] <= Len(t) /\ pos[k] < pos[k + 1]
                                /\ ReadEntry(t, pos[k]).entry = es[k]
<1>1. Len(t) \in Nat /\ \A k \in 1 .. n + 1 : pos[k] \in Nat /\ pos[k] > 0
  BY DEF Laid
<1>2. ASSUME NEW k \in 1 .. n
      PROVE  /\ es[k] \in Entries /\ pos[k] <= Len(t) /\ pos[k] < pos[k + 1]
             /\ ReadEntry(t, pos[k]).entry = es[k]
  <2> PICK v : v = ReadEntry(t, pos[k])
    OBVIOUS
  <2>1. es[k] \in Entries /\ v.entry = es[k]
    BY EntryAt
  <2>2. pos[k] <= Len(t) /\ pos[k] < pos[k + 1]
    BY EntryWidth
  <2> QED BY <2>1, <2>2
<1> QED BY <1>1, <1>2

\* Later entries are further on, and the marks are where the entries start.
LEMMA MarksAre ==
    ASSUME NEW t, NEW es \in Seq(Entries), NEW N \in Nat, N = Len(es), NEW pos, Laid(t, es, N, pos)
    PROVE  /\ \A a, b \in 1 .. N : a < b => pos[a] < pos[b]
           /\ \A k \in 1 .. N : pos[k] \in Marks(t)
           /\ \A x \in Marks(t) : \E k \in 1 .. N : x = pos[k]
<1>1. N \in Nat /\ N <= Len(es)
  OBVIOUS
<1>2. /\ Len(t) \in Nat
      /\ \A k \in 1 .. N + 1 : pos[k] \in Nat /\ pos[k] > 0
      /\ \A k \in 1 .. N : es[k] \in Entries /\ pos[k] <= Len(t) /\ pos[k] < pos[k + 1]
  BY <1>1, LaidFacts
<1>3. ASSUME NEW a \in 1 .. N PROVE \A b \in 1 .. N : a < b => pos[a] < pos[b]
  <2> DEFINE B == {b \in 1 .. N : a < b /\ ~ (pos[a] < pos[b])}
  <2> SUFFICES ASSUME B # {} PROVE FALSE
    OBVIOUS
  <2>0. B \in SUBSET Nat
    BY <1>1
  <2>1. PICK m \in B : \A k \in B : m <= k
    BY <2>0, LeastMember
  <2>2. m \in 1 .. N /\ a < m /\ ~ (pos[a] < pos[m])
    OBVIOUS
  <2>3. m - 1 \in 1 .. N /\ m - 1 + 1 = m /\ a <= m - 1 /\ ~ (m <= m - 1)
    BY <1>1, <2>2
  <2>4. m - 1 \notin B
    BY <2>1, <2>3
  <2>5. a = m - 1 \/ pos[a] < pos[m - 1]
    BY <2>3, <2>4
  <2>6. pos[m - 1] < pos[m] /\ pos[m - 1] \in Nat /\ pos[m] \in Nat /\ pos[a] \in Nat
    <3>1. a \in 1 .. N + 1 /\ m \in 1 .. N + 1 /\ m - 1 \in 1 .. N + 1
      BY <1>1, <2>2, <2>3
    <3> QED BY <1>2, <2>3, <3>1
  <2> QED BY <2>2, <2>5, <2>6
<1>4. ASSUME NEW k \in 1 .. N PROVE pos[k] \in Marks(t)
  <2> PICK s : s = WriteEntry(es[k])
    OBVIOUS
  <2>1. Marked(s)
    BY <1>2, EntryIs
  <2>2. Holds(t, pos[k], s) /\ pos[k] \in Nat /\ pos[k] > 0 /\ pos[k] <= Len(t)
    <3>1. k \in 1 .. N + 1
      BY <1>1
    <3> QED BY <1>2, <3>1 DEF Laid
  <2>3. Len(s) \in Nat /\ Len(s) > 0 /\ s[1] >= StartFlag
    <3>1. Len(s) \in Nat /\ Len(s) > 0
      BY <2>1 DEF Marked
    <3>2. 1 \in 1 .. Len(s)
      BY <3>1
    <3> QED BY <2>1, <3>1, <3>2 DEF Marked
  <2>4. t[pos[k]] = s[1]
    <3>1. 1 \in 1 .. Len(s) /\ pos[k] + 1 - 1 = pos[k]
      BY <2>2, <2>3
    <3>2. t[pos[k] + 1 - 1] = s[1]
      BY <2>2, <3>1 DEF Holds
    <3> QED BY <3>1, <3>2
  <2>5. pos[k] \in 1 .. Len(t)
    BY <1>2, <2>2
  <2> QED BY <2>3, <2>4, <2>5 DEF Marks
<1>5. ASSUME NEW x \in Marks(t) PROVE \E k \in 1 .. N : x = pos[k]
  <2>1. x \in 1 .. Len(t) /\ t[x] >= StartFlag /\ x \in Nat
    BY <1>2 DEF Marks
  <2> DEFINE B == {k \in 1 .. N + 1 : x < pos[k]}
  <2>2. N + 1 \in B
    <3>1. pos[N + 1] = Len(t) + 1
      BY DEF Laid
    <3> QED BY <1>1, <1>2, <2>1, <3>1
  <2>3. PICK m \in B : \A k \in B : m <= k
    <3>1. B \in SUBSET Nat
      BY <1>1
    <3> QED BY <2>2, <3>1, LeastMember
  <2>4. m \in 1 .. N + 1 /\ x < pos[m]
    OBVIOUS
  <2>5. m # 1
    <3>1. pos[1] = 1
      BY DEF Laid
    <3> QED BY <2>1, <2>4, <3>1
  <2> PICK k : k = m - 1
    OBVIOUS
  <2>6. k \in 1 .. N /\ k + 1 = m /\ k \in 1 .. N + 1 /\ ~ (m <= k)
    BY <1>1, <2>4, <2>5
  <2>7. ~ (x < pos[k])
    BY <2>3, <2>6
  <2> PICK s : s = WriteEntry(es[k])
    OBVIOUS
  <2>8. Marked(s) /\ Holds(t, pos[k], s) /\ pos[k + 1] = pos[k] + Len(s) /\ pos[k] \in Nat
    BY <1>2, <2>6, EntryIs DEF Laid
  <2>9. Len(s) \in Nat /\ x < pos[k] + Len(s)
    BY <2>4, <2>6, <2>8 DEF Marked
  <2>10. PICK o \in 1 .. Len(s) : pos[k] + o - 1 = x /\ t[x] = s[o]
    <3>1. /\ Holds(t, pos[k], s) /\ Len(s) \in Nat
          /\ x \in Nat /\ ~ (x < pos[k]) /\ x < pos[k] + Len(s)
      BY <2>1, <2>7, <2>8, <2>9
    <3> HIDE DEF B
    <3> QED BY <3>1, HoldsAt
  <2>11. o = 1
    BY <2>1, <2>8, <2>9, <2>10 DEF Marked
  <2>12. x = pos[k]
    BY <2>1, <2>8, <2>10, <2>11
  <2> QED BY <2>6, <2>12
<1> QED BY <1>3, <1>4, <1>5

\* The interpreter finds the first of the sorted entries that covers the word.
LEMMA FoundIs ==
    ASSUME NEW t, NEW es \in Seq(Entries), NEW N \in Nat, N = Len(es), NEW pos, Laid(t, es, N, pos),
           \A a, b \in DOMAIN es : a <= b => es[a].start <= es[b].start,
           NEW w \in Int
    PROVE  LET covering == {e \in DOMAIN es : w \in es[e].start .. es[e].stop - 1}
           IN  Found(t, w) = IF covering = {} THEN <<>> ELSE <<es[Min(covering)]>>
<1>1. N \in Nat /\ DOMAIN es = 1 .. N /\ N <= Len(es)
  BY LenProperties
<1>2. /\ Len(t) \in Nat
      /\ \A k \in 1 .. N : pos[k] \in Nat
      /\ \A k \in 1 .. N : es[k] \in Entries /\ ReadEntry(t, pos[k]).entry = es[k]
  <2>1. /\ Len(t) \in Nat /\ \A k \in 1 .. N + 1 : pos[k] \in Nat /\ pos[k] > 0
        /\ \A k \in 1 .. N : /\ es[k] \in Entries
                             /\ ReadEntry(t, pos[k]).entry = es[k]
    BY <1>1, LaidFacts
  <2>2. \A k \in 1 .. N : k \in 1 .. N + 1
    OBVIOUS
  <2> QED BY <2>1, <2>2
<1>3. /\ \A a, b \in 1 .. N : a < b => pos[a] < pos[b]
      /\ \A k \in 1 .. N : pos[k] \in Marks(t)
      /\ \A x \in Marks(t) : \E k \in 1 .. N : x = pos[k]
  BY MarksAre
<1>4. \A k \in 1 .. N : es[k].start \in Int /\ es[k].stop \in Int
  BY <1>2, GroupType DEF Entries
<1> DEFINE covering == {e \in DOMAIN es : w \in es[e].start .. es[e].stop - 1}
           entry(x) == ReadEntry(t, x).entry
           until == {x \in Marks(t) : \A y \in Marks(t) : y <= x => entry(y).start <= w}
           hits == {x \in until : w < entry(x).stop}
<1>5. Found(t, w) = IF hits = {} THEN <<>> ELSE <<entry(Min(hits))>>
  BY Zenon DEF Found
<1>6. \A k \in 1 .. N : k \in covering <=> es[k].start <= w /\ w < es[k].stop
  BY <1>1, <1>4
<1>7. ASSUME NEW k \in 1 .. N PROVE pos[k] \in hits <=> k \in covering
  <2>1. pos[k] \in Marks(t) /\ entry(pos[k]) = es[k]
    BY <1>2, <1>3
  <2>2. pos[k] \in until => es[k].start <= w
    BY <1>2, <2>1
  <2>3. ASSUME es[k].start <= w PROVE pos[k] \in until
    <3> SUFFICES ASSUME NEW y \in Marks(t), y <= pos[k] PROVE entry(y).start <= w
      BY <2>1
    <3>1. PICK j \in 1 .. N : y = pos[j]
      BY <1>3
    <3>2. j <= k
      <4>1. ~ (k < j)
        BY <1>2, <1>3, <3>1
      <4> QED BY <4>1, <1>1
    <3>3. es[j].start <= es[k].start
      BY <1>1, <3>2
    <3>4. entry(y) = es[j]
      BY <1>2, <3>1
    <3> QED BY <1>4, <2>3, <3>3, <3>4
  <2> HIDE DEF until, entry, covering
  <2>4. pos[k] \in hits <=> pos[k] \in until /\ w < es[k].stop
    BY <2>1
  <2> QED BY <1>6, <2>2, <2>3, <2>4
<1>8. \A x \in hits : \E k \in 1 .. N : x = pos[k]
  BY <1>3
<1>9. hits \in SUBSET Int /\ covering \in SUBSET Int /\ covering \subseteq 1 .. N
  <2>1. hits \in SUBSET Int
    BY <1>2, <1>8
  <2> QED BY <1>1, <2>1
<1> HIDE DEF hits, until, covering
<1>10. CASE covering = {}
  BY <1>5, <1>7, <1>8, <1>10 DEF covering
<1>11. CASE covering # {}
  <2>1. PICK m \in covering : \A k \in covering : m <= k
    <3>1. covering \in SUBSET Nat
      BY <1>1, <1>9
    <3> QED BY <1>11, <3>1, LeastMember
  <2>2. m \in 1 .. N
    BY <1>9
  <2>3. Min(covering) = m
    BY <1>9, <2>1, MinIs
  <2>4. pos[m] \in hits
    BY <1>7, <2>2
  <2>5. ASSUME NEW x \in hits PROVE pos[m] <= x
    <3>1. PICK k \in 1 .. N : x = pos[k]
      BY <1>8
    <3>2. k \in covering
      BY <1>7, <3>1
    <3>3. m <= k
      BY <2>1, <3>2
    <3>4. m = k \/ pos[m] < pos[k]
      BY <1>3, <2>2, <3>3
    <3> QED BY <1>2, <2>2, <3>1, <3>4
  <2>6. Min(hits) = pos[m]
    BY <1>9, <2>4, <2>5, MinIs
  <2>7. entry(pos[m]) = es[m]
    BY <1>2, <2>2
  <2>8. Found(t, w) = <<es[m]>>
    <3> HIDE DEF entry
    <3> QED BY <1>5, <2>4, <2>6, <2>7
  <2> QED BY <1>11, <2>3, <2>8 DEF covering
<1> QED BY <1>10, <1>11

-----------------------------------------------------------------------------
(***************************************************************************)
(* The words of the code are a sequence.                                   *)
(***************************************************************************)
Flattens(f, s, n) == f = [k \in 1 .. n |-> IF k = 1 THEN s[k] ELSE f[k - 1] \o s[k]]

LEMMA FlattenExists ==
    ASSUME NEW s
    PROVE  \A n \in Nat : \E f : Flattens(f, s, n)
<1> DEFINE B == {n \in Nat : ~ \E f : Flattens(f, s, n)}
<1> SUFFICES ASSUME B # {} PROVE FALSE
  OBVIOUS
<1>1. PICK m \in B : \A k \in B : m <= k
  BY LeastMember
<1>2. m \in Nat /\ ~ (\E f : Flattens(f, s, m))
  OBVIOUS
<1>3. CASE m = 0
  <2> DEFINE f == [k \in 1 .. 0 |-> s[k]]
  <2>1. \A k \in 1 .. 0 : FALSE
    OBVIOUS
  <2>2. Flattens(f, s, 0)
    BY <2>1 DEF Flattens
  <2> QED BY <1>2, <1>3, <2>2
<1>4. CASE m > 0
  <2>1. m - 1 \in Nat /\ ~ (m <= m - 1)
    BY <1>2, <1>4
  <2>2. m - 1 \notin B
    BY <1>1, <2>1
  <2>3. PICK g : Flattens(g, s, m - 1)
    BY <2>1, <2>2
  <2> DEFINE f == [k \in 1 .. m |-> IF k = m THEN (IF k = 1 THEN s[k] ELSE g[k - 1] \o s[k])
                                             ELSE g[k]]
  <2>4. /\ \A k \in 1 .. m : k # m => k \in 1 .. m - 1
        /\ \A k \in 1 .. m : k # 1 => k - 1 \in 1 .. m /\ k - 1 # m
    BY <1>2, <1>4
  <2>5. ASSUME NEW k \in 1 .. m
        PROVE  f[k] = IF k = 1 THEN s[k] ELSE f[k - 1] \o s[k]
    <3>1. k # 1 => f[k - 1] = g[k - 1]
      BY <2>4
    <3>2. k # m => g[k] = IF k = 1 THEN s[k] ELSE g[k - 1] \o s[k]
      BY <2>3, <2>4 DEF Flattens
    <3> QED BY <3>1, <3>2
  <2>6. Flattens(f, s, m)
    BY <2>5 DEF Flattens
  <2> QED BY <1>2, <2>6
<1> QED BY <1>2, <1>3, <1>4

LEMMA FlattenType ==
    ASSUME NEW S, NEW s \in Seq(Seq(S))
    PROVE  FlattenSeq(s) \in Seq(S)
<1> PICK n : n = Len(s)
  OBVIOUS
<1>1. n \in Nat /\ \A k \in 1 .. n : s[k] \in Seq(S)
  BY ElementOfSeq, LenProperties
<1>2. CASE n = 0
  <2>1. s = <<>>
    BY <1>2, EmptySeq
  <2>2. FlattenSeq(s) = s
    BY <1>2 DEF FlattenSeq
  <2>3. <<>> \in Seq(S)
    OBVIOUS
  <2> QED BY <2>1, <2>2, <2>3
<1>3. CASE n # 0
  <2>1. FlattenSeq(s) = (CHOOSE f : Flattens(f, s, n))[n]
    BY <1>3, Zenon DEF FlattenSeq, Flattens
  <2>2. PICK f : Flattens(f, s, n) /\ FlattenSeq(s) = f[n]
    BY <1>1, <2>1, FlattenExists
  <2>3. \A k \in 1 .. n : f[k] \in Seq(S)
    <3> DEFINE B == {k \in 1 .. n : f[k] \notin Seq(S)}
    <3> SUFFICES ASSUME B # {} PROVE FALSE
      OBVIOUS
    <3>1. PICK m \in B : \A k \in B : m <= k
      <4>1. B \in SUBSET Nat
        BY <1>1
      <4> QED BY <4>1, LeastMember
    <3>2. m \in 1 .. n /\ f[m] \notin Seq(S)
      OBVIOUS
    <3>3. f[m] = IF m = 1 THEN s[m] ELSE f[m - 1] \o s[m]
      BY <2>2, <3>2 DEF Flattens
    <3>4. m # 1 => m - 1 \in 1 .. n /\ ~ (m <= m - 1)
      BY <1>1, <3>2
    <3>5. m # 1 => f[m - 1] \in Seq(S)
      BY <3>1, <3>4
    <3>6. m # 1 => f[m - 1] \o s[m] \in Seq(S)
      BY <1>1, <3>2, <3>5, ConcatProperties
    <3> QED BY <1>1, <3>2, <3>3, <3>6
  <2>4. n \in 1 .. n
    BY <1>1, <1>3
  <2> QED BY <2>2, <2>3, <2>4
<1> QED BY <1>2, <1>3

LEMMA MapIsSeq ==
    ASSUME NEW S, NEW n \in Nat, NEW f, f = [k \in 1 .. n |-> f[k]],
           \A k \in 1 .. n : f[k] \in S
    PROVE  f \in Seq(S) /\ Len(f) = n
<1>1. f \in [1 .. n -> S]
  OBVIOUS
<1>2. f \in Seq(S)
  BY <1>1, SeqDef
<1> QED BY <1>1, <1>2, LenProperties

Word == [slot : Nat, logical : BOOLEAN, loc : Locations]
SlotRec == [loc : Locations, n_extended : 0 .. 3, ncache : Nat]

LEMMA JobType ==
    ASSUME NEW j \in Jobs
    PROVE  /\ j.slots \in Seq(SlotRec) /\ j.exc \in Seq(Entries)
           /\ j.old => j.exc = <<>>
  BY JobAssumption DEF SlotRec

LEMMA WordsType ==
    ASSUME NEW j \in Jobs
    PROVE  FlattenSeq([k \in DOMAIN j.slots |-> WordsOf(j, k)]) \in Seq(Word)
<1> PICK n : n = Len(j.slots)
  OBVIOUS
<1>1. n \in Nat /\ DOMAIN j.slots = 1 .. n /\ \A k \in 1 .. n : j.slots[k] \in SlotRec
  BY JobType, LenProperties, ElementOfSeq
<1>2. ASSUME NEW k \in 1 .. n PROVE WordsOf(j, k) \in Seq(Word)
  <2> PICK s : s = j.slots[k]
    OBVIOUS
  <2> PICK m : m = s.n_extended + 1 + s.ncache
    OBVIOUS
  <2>1. s \in SlotRec
    BY <1>1
  <2>2. m \in Nat /\ s.loc \in Locations /\ k \in Nat
    BY <1>1, <2>1 DEF SlotRec
  <2> DEFINE f == [w \in 1 .. m |-> [slot |-> k, logical |-> w = s.n_extended + 1, loc |-> s.loc]]
  <2>3. \A w \in 1 .. m : f[w] \in Word
    BY <2>2 DEF Word
  <2>4. f = [w \in 1 .. m |-> f[w]]
    OBVIOUS
  <2>5. WordsOf(j, k) = f
    BY DEF WordsOf
  <2> HIDE DEF f
  <2>6. f \in Seq(Word)
    BY <2>2, <2>3, <2>4, MapIsSeq
  <2> QED BY <2>5, <2>6
<1> DEFINE g == [k \in 1 .. n |-> WordsOf(j, k)]
<1>3. g = [k \in 1 .. n |-> g[k]] /\ \A k \in 1 .. n : g[k] \in Seq(Word)
  BY <1>2
<1> HIDE DEF g
<1>4. g \in Seq(Seq(Word))
  BY <1>1, <1>3, MapIsSeq
<1> QED BY <1>1, <1>4, FlattenType DEF g

-----------------------------------------------------------------------------
(***************************************************************************)
(* The invariant of the exception table.                                   *)
(***************************************************************************)
Reads == {"read_locations", "read_ranges", "read_entries"}

\* The first n entries, read.
ReadSoFar(n) == /\ excs \in Seq(Entries) /\ Len(excs) = n
                /\ \A k \in 1 .. n : excs[k] = job.exc[k]

EntriesInv ==
    /\ job \in Jobs
    /\ words \in Seq(Word)
    /\ stage \in {"write_locations", "write_ranges", "write_entries", "done"} \cup Reads
    /\ stage \in {"write_locations", "write_ranges"} => exctable = <<>>
    /\ stage = "write_entries" => /\ i \in 1 .. Len(job.exc) + 1
                                  /\ \E pos : Laid(exctable, job.exc, i - 1, pos)
    /\ stage \in {"read_locations", "read_entries"} =>
          \E pos : /\ Laid(exctable, job.exc, Len(job.exc), pos)
                   /\ stage = "read_entries" =>
                         \E k \in 1 .. Len(job.exc) + 1 : p = pos[k] /\ ReadSoFar(k - 1)
    /\ stage = "read_ranges" => job.old
    /\ stage \notin {"read_entries", "done"} => excs = <<>>
    /\ stage = "done" => excs = job.exc

LEMMA EntriesInit == Init => EntriesInv
<1> SUFFICES ASSUME Init PROVE EntriesInv
  OBVIOUS
<1>1. job \in Jobs /\ stage \in {"write_locations", "write_ranges"} /\ exctable = <<>> /\ excs = <<>>
  BY DEF Init
<1>2. words \in Seq(Word)
  BY WordsType DEF Init
<1> QED BY <1>1, <1>2 DEF EntriesInv

LEMMA EntriesStep == EntriesInv /\ [Next]_vars => EntriesInv'
<1> SUFFICES ASSUME EntriesInv, [Next]_vars PROVE EntriesInv'
  OBVIOUS
<1> PICK N : N = Len(job.exc)
  OBVIOUS
<1>0. /\ job \in Jobs /\ words \in Seq(Word) /\ job.exc \in Seq(Entries) /\ N \in Nat
      /\ DOMAIN job.exc = 1 .. N /\ (job.old => job.exc = <<>>)
  BY JobType, LenProperties DEF EntriesInv
<1>1. CASE EncodeLocation \/ EncodeRange
  <2>1. /\ stage \in {"write_locations", "write_ranges"}
        /\ UNCHANGED <<job, words, stage, exctable, excs>>
    BY <1>1 DEF EncodeLocation, EncodeRange, Decoding
  <2> QED BY <1>0, <2>1 DEF EntriesInv
<1>2. CASE LinesDone
  <2>1. /\ stage \in {"write_locations", "write_ranges"} /\ stage' = "write_entries" /\ i' = 1
        /\ UNCHANGED <<job, words, exctable, excs>>
    BY <1>2 DEF LinesDone, Decoding
  <2>2. exctable' = <<>> /\ excs' = <<>>
    BY <2>1 DEF EntriesInv
  <2>3. \E pos : Laid(exctable', job'.exc, i' - 1, pos)
    <3>1. i' - 1 = 0
      BY <2>1
    <3> QED BY <2>2, <3>1, LaidNone
  <2>4. i' \in 1 .. Len(job'.exc) + 1
    BY <1>0, <2>1
  <2> QED BY <1>0, <2>1, <2>2, <2>3, <2>4 DEF EntriesInv
<1>3. CASE EncodeEntry
  <2>1. /\ stage = "write_entries" /\ i \in 1 .. N /\ i' = i + 1
        /\ exctable' = exctable \o WriteEntry(job.exc[i])
        /\ UNCHANGED <<job, words, stage, excs>>
    BY <1>0, <1>3 DEF EncodeEntry, Decoding
  <2>2. PICK pos : Laid(exctable, job.exc, i - 1, pos)
    BY <2>1 DEF EntriesInv
  <2>3. \E pos2 : Laid(exctable', job'.exc, i' - 1, pos2)
    <3> PICK m : m = i - 1
      OBVIOUS
    <3>1. m \in Nat /\ m + 1 = i /\ m + 1 \in DOMAIN job.exc /\ i' - 1 = m + 1
      BY <1>0, <2>1
    <3> QED BY <1>0, <2>1, <2>2, <3>1, LaidMore
  <2>4. i' \in 1 .. Len(job'.exc) + 1
    BY <1>0, <2>1
  <2>5. excs' = <<>>
    BY <2>1 DEF EntriesInv
  <2> QED BY <1>0, <2>1, <2>3, <2>4, <2>5 DEF EntriesInv
<1>4. CASE Encoded
  <2>1. /\ stage = "write_entries" /\ i \notin 1 .. N
        /\ stage' = IF job.old THEN "read_ranges" ELSE "read_locations"
        /\ UNCHANGED <<job, words, exctable, excs>>
    BY <1>0, <1>4 DEF Encoded, Encoding, Decoding
  <2>2. i - 1 = N
    BY <1>0, <2>1 DEF EntriesInv
  <2>3. \E pos : Laid(exctable', job'.exc, Len(job'.exc), pos)
    BY <2>1, <2>2 DEF EntriesInv
  <2>4. excs' = <<>>
    BY <2>1 DEF EntriesInv
  <2> QED BY <1>0, <2>1, <2>3, <2>4 DEF EntriesInv, Reads
<1>5. CASE DecodeLocation
  <2>1. /\ stage = "read_locations" /\ UNCHANGED <<job, words, stage, exctable, excs>>
    BY <1>5 DEF DecodeLocation, Encoding
  <2> QED BY <1>0, <2>1 DEF EntriesInv
<1>6. CASE LocationsDone
  <2>1. /\ stage = "read_locations" /\ stage' = "read_entries" /\ p' = 1
        /\ UNCHANGED <<job, words, exctable, excs>>
    BY <1>6 DEF LocationsDone, Encoding
  <2>2. excs' = <<>>
    BY <2>1 DEF EntriesInv
  <2>3. PICK pos : Laid(exctable', job'.exc, Len(job'.exc), pos)
    BY <2>1 DEF EntriesInv
  <2>4. p' = pos[1] /\ 1 \in 1 .. Len(job'.exc) + 1
    BY <1>0, <2>1, <2>3 DEF Laid
  <2>5. ReadSoFar(1 - 1)'
    BY <2>2 DEF ReadSoFar
  <2> QED BY <1>0, <2>1, <2>3, <2>4, <2>5 DEF EntriesInv, Reads
<1>7. CASE DecodeRange
  <2>1. /\ stage = "read_ranges" /\ UNCHANGED <<job, words, stage, exctable, excs>>
    BY <1>7 DEF DecodeRange, Encoding
  <2> QED BY <1>0, <2>1 DEF EntriesInv
<1>8. CASE ForwardFill
  <2>1. /\ stage = "read_ranges" /\ stage' = "done" /\ UNCHANGED <<job, words, exctable, excs>>
    BY <1>8 DEF ForwardFill, Encoding
  <2>2. excs' = job'.exc
    BY <1>0, <2>1 DEF EntriesInv
  <2> QED BY <1>0, <2>1, <2>2 DEF EntriesInv
<1>9. CASE DecodeEntry
  <2> PICK e : e = ReadEntry(exctable, p)
    OBVIOUS
  <2>1. /\ stage = "read_entries" /\ p <= Len(exctable) /\ excs' = Append(excs, e.entry)
        /\ p' = e.next /\ UNCHANGED <<job, words, stage, exctable>>
    BY <1>9 DEF DecodeEntry, Encoding
  <2>2. PICK pos : /\ Laid(exctable, job.exc, N, pos)
                   /\ \E k \in 1 .. N + 1 : p = pos[k] /\ ReadSoFar(k - 1)
    BY <2>1 DEF EntriesInv
  <2>3. PICK k \in 1 .. N + 1 : p = pos[k] /\ ReadSoFar(k - 1)
    BY <2>2
  <2>4. /\ Len(exctable) \in Nat /\ pos[N + 1] = Len(exctable) + 1
        /\ k \in 1 .. N => job.exc[k] \in Entries /\ e.entry = job.exc[k] /\ e.next = pos[k + 1]
    <3>1. Len(job.exc) = N /\ N <= Len(job.exc)
      BY <1>0
    <3>2. pos[N + 1] = Len(exctable) + 1
      BY <2>2 DEF Laid
    <3>3. Len(exctable) \in Nat
      BY <1>0, <2>2, <3>1, LaidFacts
    <3>4. k \in 1 .. N => job.exc[k] \in Entries /\ e.entry = job.exc[k] /\ e.next = pos[k + 1]
      <4> HAVE k \in 1 .. N
      <4>1. e = ReadEntry(exctable, pos[k])
        BY <2>3
      <4>2. Laid(exctable, job.exc, N, pos) /\ N <= Len(job.exc) /\ job.exc \in Seq(Entries) /\ N \in Nat
        BY <1>0, <2>2, <3>1
      <4> QED BY <4>1, <4>2, EntryAt
    <3> QED BY <3>2, <3>3, <3>4
  <2>5. k \in 1 .. N /\ k + 1 \in 1 .. N + 1 /\ (k + 1) - 1 = k /\ k - 1 \in Nat /\ k - 1 + 1 = k
    <3>1. k # N + 1
      BY <2>1, <2>3, <2>4
    <3> QED BY <1>0, <3>1
  <2>6. e.entry = job.exc[k] /\ e.next = pos[k + 1] /\ job.exc[k] \in Entries
    BY <2>3, <2>4, <2>5
  <2>7. ReadSoFar(k)'
    <3>1. excs \in Seq(Entries) /\ Len(excs) = k - 1 /\ \A j \in 1 .. k - 1 : excs[j] = job.exc[j]
      BY <2>3 DEF ReadSoFar
    <3>2. /\ excs' \in Seq(Entries) /\ Len(excs') = k /\ excs'[k] = job.exc[k]
          /\ \A j \in 1 .. k - 1 : excs'[j] = excs[j]
      <4>1. excs' = Append(excs, job.exc[k]) /\ job.exc[k] \in Entries
        BY <2>1, <2>6
      <4> QED BY <2>5, <3>1, <4>1, AppendProperties
    <3>3. \A j \in 1 .. k : j \in 1 .. k - 1 \/ j = k
      BY <2>5
    <3> QED BY <2>1, <3>1, <3>2, <3>3 DEF ReadSoFar
  <2>8. p' = pos[k + 1] /\ ReadSoFar((k + 1) - 1)'
    BY <2>1, <2>5, <2>6, <2>7
  <2>9. Len(job'.exc) = N /\ Laid(exctable', job'.exc, Len(job'.exc), pos)
    BY <2>1, <2>2
  <2> QED BY <1>0, <2>1, <2>5, <2>8, <2>9 DEF EntriesInv
<1>10. CASE Decoded
  <2>1. /\ stage = "read_entries" /\ p > Len(exctable) /\ stage' = "done"
        /\ UNCHANGED <<job, words, exctable, excs>>
    BY <1>10 DEF Decoded, Encoding, Decoding
  <2>2. PICK pos : /\ Laid(exctable, job.exc, N, pos)
                   /\ \E k \in 1 .. N + 1 : p = pos[k] /\ ReadSoFar(k - 1)
    BY <2>1 DEF EntriesInv
  <2>3. PICK k \in 1 .. N + 1 : p = pos[k] /\ ReadSoFar(k - 1)
    BY <2>2
  <2>4. k = N + 1
    <3>1. Len(job.exc) = N /\ N <= Len(job.exc)
      BY <1>0
    <3>2. k \in 1 .. N => pos[k] <= Len(exctable) /\ pos[k] \in Nat /\ Len(exctable) \in Nat
      BY <1>0, <2>2, <3>1, LaidFacts
    <3> QED BY <1>0, <2>1, <2>3, <3>2
  <2>5. excs = job.exc
    <3>1. k - 1 = N
      BY <1>0, <2>4
    <3>2. excs \in Seq(Entries) /\ Len(excs) = N /\ \A j \in 1 .. N : excs[j] = job.exc[j]
      BY <2>3, <3>1 DEF ReadSoFar
    <3> QED BY <1>0, <3>2, SeqEqual
  <2> QED BY <1>0, <2>1, <2>5 DEF EntriesInv
<1>11. CASE Returned \/ UNCHANGED vars
  BY <1>11 DEF EntriesInv, ReadSoFar, Returned, vars
<1> QED BY <1>1, <1>2, <1>3, <1>4, <1>5, <1>6, <1>7, <1>8, <1>9, <1>10, <1>11 DEF Next

LEMMA EntriesInvHolds == Spec => []EntriesInv
  BY EntriesInit, EntriesStep, PTL DEF Spec

\* Whatever exception table Bytecode.to_code() writes, from_code() reads the entries
\* that were written, in order, and neither fewer nor more.
THEOREM EntriesKeptHolds == Spec => []EntriesKept
<1>1. EntriesInv => EntriesKept
  BY DEF EntriesInv, EntriesKept
<1> QED BY <1>1, EntriesInvHolds, PTL

\* At every word, the interpreter's linear search of a sorted table, which looks at
\* marked bytes only and stops at the first entry that starts behind the word, finds
\* the first entry that covers it, or none where none does: in a table that is short
\* enough for it to search from the start.
THEOREM HandlerFoundHolds == Spec => []HandlerFound
<1>1. EntriesInv => HandlerFound
  <2> SUFFICES ASSUME EntriesInv, stage = "read_entries", Sorted,
                      NEW w \in 0 .. Len(words) - 1
               PROVE  Found(exctable, w) = IF Covering(w) = {} THEN <<>>
                                           ELSE <<job.exc[Min(Covering(w))]>>
    BY DEF HandlerFound
  <2>1. w \in Int /\ Len(job.exc) \in Nat /\ job.exc \in Seq(Entries)
    BY JobType, LenProperties DEF EntriesInv
  <2>2. PICK pos : Laid(exctable, job.exc, Len(job.exc), pos)
    BY DEF EntriesInv
  <2> QED BY <2>1, <2>2, FoundIs DEF Sorted, Covering
<1> QED BY <1>1, EntriesInvHolds, PTL

-----------------------------------------------------------------------------
(***************************************************************************)
(* The words of the code, slot by slot.                                    *)
(***************************************************************************)
\* The words f of slot k, and the words ws of the first n slots.
SlotWords(f, slots, k) ==
    /\ f \in Seq(Word) /\ Len(f) \in Nat \ {0}
    /\ \A w \in 1 .. Len(f) : f[w].slot = k /\ f[w].loc = slots[k].loc
    /\ \E w \in 1 .. Len(f) : f[w].logical

WordsFor(ws, slots, n) ==
    /\ ws \in Seq(Word) /\ Len(ws) \in Nat /\ Len(ws) >= n
    /\ \A w \in 1 .. Len(ws) : ws[w].slot \in 1 .. n /\ ws[w].loc = slots[ws[w].slot].loc
    /\ \A k \in 1 .. n : \E w \in 1 .. Len(ws) : ws[w].slot = k /\ ws[w].logical
    /\ n > 0 => ws[1].slot = 1 /\ ws[Len(ws)].slot = n
    /\ \A k \in 2 .. n : \E w \in 2 .. Len(ws) : ws[w].slot = k /\ ws[w - 1].slot = k - 1

LEMMA WordsOfIs ==
    ASSUME NEW j \in Jobs, NEW k \in DOMAIN j.slots
    PROVE  SlotWords(WordsOf(j, k), j.slots, k)
<1>1. PICK x \in Nat, c \in Nat : x = j.slots[k].n_extended /\ c = j.slots[k].ncache
  <2>1. j.slots[k] \in SlotRec
    BY JobType, ElementOfSeq, LenProperties
  <2> QED BY <2>1 DEF SlotRec
<1>2. k \in Nat /\ j.slots[k].loc \in Locations
  <2>1. j.slots[k] \in SlotRec /\ k \in Nat
    BY JobType, ElementOfSeq, LenProperties
  <2> QED BY <2>1 DEF SlotRec
<1>3. PICK m \in Nat : m = x + 1 + c
  BY <1>1
<1> DEFINE f == [w \in 1 .. m |-> [slot |-> k, logical |-> w = x + 1, loc |-> j.slots[k].loc]]
<1>4. WordsOf(j, k) = f
  BY <1>1, <1>3, Zenon DEF WordsOf
<1>5. \A w \in 1 .. m : f[w] \in Word
  BY <1>2 DEF Word
<1>6. f = [w \in 1 .. m |-> f[w]]
  OBVIOUS
<1>7. \A w \in 1 .. m : f[w].slot = k /\ f[w].loc = j.slots[k].loc /\ f[w].logical = (w = x + 1)
  OBVIOUS
<1> HIDE DEF f
<1>8. f \in Seq(Word) /\ Len(f) = m
  BY <1>5, <1>6, MapIsSeq
<1>9. x + 1 \in 1 .. m /\ m \in Nat \ {0}
  BY <1>1, <1>3
<1> QED BY <1>4, <1>7, <1>8, <1>9 DEF SlotWords

LEMMA WordsMore ==
    ASSUME NEW slots, NEW n \in Nat, NEW ws, WordsFor(ws, slots, n), NEW f,
           SlotWords(f, slots, n + 1), NEW u, u = ws \o f
    PROVE  WordsFor(u, slots, n + 1)
<1>1. PICK a \in Nat, b \in Nat \ {0} : a = Len(ws) /\ b = Len(f)
  BY DEF WordsFor, SlotWords
<1>2. u \in Seq(Word) /\ Joins(u, ws, a, f, b)
  BY <1>1, ConcatAt DEF WordsFor, SlotWords
<1>3. /\ Len(u) = a + b /\ a >= n
      /\ \A w \in 1 .. a : u[w] = ws[w]
      /\ \A w \in 1 .. b : u[a + w] = f[w]
  BY <1>1, <1>2 DEF Joins, WordsFor
<1>4. \A w \in 1 .. a : /\ u[w].slot \in 1 .. n /\ u[w].loc = slots[u[w].slot].loc
  BY <1>1, <1>3 DEF WordsFor
<1>5. \A w \in a + 1 .. a + b : u[w].slot = n + 1 /\ u[w].loc = slots[n + 1].loc
  <2> SUFFICES ASSUME NEW w \in a + 1 .. a + b PROVE u[w].slot = n + 1 /\ u[w].loc = slots[n + 1].loc
    OBVIOUS
  <2>1. PICK v \in 1 .. b : w = a + v
    BY <1>1
  <2> QED BY <1>1, <1>3, <2>1 DEF SlotWords
<1>51. /\ \A k \in 1 .. n : \E w \in 1 .. a : ws[w].slot = k /\ ws[w].logical
       /\ \A k \in 2 .. n : \E w \in 2 .. a : ws[w].slot = k /\ ws[w - 1].slot = k - 1
       /\ n > 0 => ws[1].slot = 1 /\ ws[a].slot = n
  BY <1>1 DEF WordsFor
<1>6. \A w \in 1 .. a + b : w \in 1 .. a \/ w \in a + 1 .. a + b
  OBVIOUS
<1>7. \A w \in 1 .. Len(u) : u[w].slot \in 1 .. n + 1 /\ u[w].loc = slots[u[w].slot].loc
  BY <1>3, <1>4, <1>5, <1>6
<1>8. ASSUME NEW k \in 1 .. n + 1 PROVE \E w \in 1 .. Len(u) : u[w].slot = k /\ u[w].logical
  <2>1. CASE k <= n
    <3>1. PICK w \in 1 .. a : ws[w].slot = k /\ ws[w].logical
      <4>1. k \in 1 .. n
        BY <2>1
      <4> QED BY <1>51, <4>1
    <3>2. w \in 1 .. Len(u) /\ u[w] = ws[w]
      BY <1>3
    <3> QED BY <3>1, <3>2
  <2>2. CASE k = n + 1
    <3>1. PICK w \in 1 .. b : f[w].logical
      BY <1>1 DEF SlotWords
    <3>2. a + w \in a + 1 .. a + b /\ a + w \in 1 .. Len(u)
      BY <1>3
    <3>3. u[a + w].slot = n + 1 /\ u[a + w] = f[w]
      BY <1>3, <1>5, <3>2
    <3> QED BY <2>2, <3>1, <3>2, <3>3
  <2>3. k <= n \/ k = n + 1
    OBVIOUS
  <2> QED BY <2>1, <2>2, <2>3
<1>9. u[1].slot = 1 /\ u[Len(u)].slot = n + 1
  <2>1. CASE n = 0
    <3>1. a = 0
      <4>1. \A w \in 1 .. a : u[w].slot \in 1 .. 0
        BY <1>4, <2>1
      <4>2. a > 0 => 1 \in 1 .. a
        OBVIOUS
      <4> QED BY <4>1, <4>2
    <3>2. 1 \in a + 1 .. a + b /\ Len(u) \in a + 1 .. a + b
      BY <1>3, <3>1
    <3> QED BY <1>5, <2>1, <3>2
  <2>2. CASE n > 0
    <3>1. 1 \in 1 .. a /\ a + b \in a + 1 .. a + b
      BY <1>3, <2>2
    <3>2. u[1] = ws[1] /\ ws[1].slot = 1
      BY <1>3, <1>51, <2>2, <3>1
    <3> QED BY <1>3, <1>5, <3>1, <3>2
  <2>3. n = 0 \/ n > 0
    OBVIOUS
  <2> QED BY <2>1, <2>2, <2>3
<1>10. ASSUME NEW k \in 2 .. n + 1
       PROVE  \E w \in 2 .. Len(u) : u[w].slot = k /\ u[w - 1].slot = k - 1
  <2>1. CASE k <= n
    <3>1. PICK w \in 2 .. a : ws[w].slot = k /\ ws[w - 1].slot = k - 1
      <4>1. k \in 2 .. n
        BY <2>1
      <4> QED BY <1>51, <4>1
    <3>2. w \in 2 .. Len(u) /\ w \in 1 .. a /\ w - 1 \in 1 .. a
      BY <1>3
    <3>3. u[w] = ws[w] /\ u[w - 1] = ws[w - 1]
      BY <1>3, <3>2
    <3> QED BY <3>1, <3>2, <3>3
  <2>2. CASE k = n + 1
    <3>1. n > 0 /\ k - 1 = n
      BY <2>2
    <3>2. a \in 1 .. a /\ a + 1 \in a + 1 .. a + b /\ a + 1 \in 2 .. Len(u) /\ (a + 1) - 1 = a
      BY <1>3, <3>1
    <3>3. u[a].slot = n
      BY <1>1, <1>3, <3>1, <3>2 DEF WordsFor
    <3>4. u[a + 1].slot = n + 1
      BY <1>5, <3>2
    <3> QED BY <2>2, <3>1, <3>2, <3>3, <3>4
  <2> QED BY <2>1, <2>2
<1>11. Len(u) \in Nat /\ Len(u) >= n + 1
  BY <1>3
<1> QED BY <1>2, <1>7, <1>8, <1>9, <1>10, <1>11 DEF WordsFor

LEMMA WordsNone == \A slots : WordsFor(<<>>, slots, 0)
<1>1. <<>> \in Seq(Word) /\ Len(<<>>) = 0
  OBVIOUS
<1>2. (\A k \in 1 .. 0 : FALSE) /\ (\A k \in 2 .. 0 : FALSE)
  OBVIOUS
<1> QED BY <1>1, <1>2 DEF WordsFor

LEMMA WordsAre ==
    ASSUME NEW j \in Jobs
    PROVE  WordsFor(FlattenSeq([k \in DOMAIN j.slots |-> WordsOf(j, k)]), j.slots, Len(j.slots))
<1>1. PICK n \in Nat : n = Len(j.slots)
  BY JobType, LenProperties
<1>2. DOMAIN j.slots = 1 .. n
  BY <1>1, JobType, LenProperties
<1> DEFINE s == [k \in 1 .. n |-> WordsOf(j, k)]
<1>3. \A k \in 1 .. n : s[k] = WordsOf(j, k)
  OBVIOUS
<1>4. s = [k \in 1 .. n |-> s[k]]
  OBVIOUS
<1>5. \A k \in 1 .. n : SlotWords(s[k], j.slots, k)
  BY <1>2, <1>3, WordsOfIs
<1> HIDE DEF s
<1>6. Len(s) = n
  <2>1. \A k \in 1 .. n : s[k] \in Seq(Word)
    BY <1>5 DEF SlotWords
  <2> QED BY <1>4, <2>1, MapIsSeq
<1>7. FlattenSeq([k \in DOMAIN j.slots |-> WordsOf(j, k)]) = FlattenSeq(s)
  BY <1>2 DEF s
<1>8. CASE n = 0
  <2>1. s = <<>>
    <3>1. s \in Seq(Word)
      <4>1. \A k \in 1 .. n : s[k] \in Word
        BY <1>8
      <4> QED BY <1>4, <4>1, MapIsSeq
    <3> QED BY <1>6, <1>8, <3>1, EmptySeq
  <2>2. FlattenSeq(s) = s
    BY <1>6, <1>8 DEF FlattenSeq
  <2> QED BY <1>1, <1>7, <1>8, <2>1, <2>2, WordsNone
<1>9. CASE n # 0
  <2>1. FlattenSeq(s) = (CHOOSE f : Flattens(f, s, n))[n]
    BY <1>6, <1>9, Zenon DEF FlattenSeq, Flattens
  <2>2. PICK f : Flattens(f, s, n) /\ FlattenSeq(s) = f[n]
    BY <2>1, FlattenExists
  <2> DEFINE B == {k \in 1 .. n : ~ WordsFor(f[k], j.slots, k)}
  <2>3. B = {}
    <3> SUFFICES ASSUME B # {} PROVE FALSE
      OBVIOUS
    <3>1. PICK m \in B : \A k \in B : m <= k
      <4>1. B \in SUBSET Nat
        OBVIOUS
      <4> QED BY <4>1, LeastMember
    <3>2. m \in 1 .. n /\ ~ WordsFor(f[m], j.slots, m)
      OBVIOUS
    <3>3. f[m] = IF m = 1 THEN s[m] ELSE f[m - 1] \o s[m]
      BY <2>2, <3>2 DEF Flattens
    <3>4. PICK l \in Nat : l = m - 1
      BY <3>2
    <3>5. SlotWords(s[m], j.slots, m) /\ l + 1 = m
      BY <1>5, <3>2, <3>4
    <3>6. CASE m = 1
      <4>1. WordsFor(<<>>, j.slots, 0)
        BY WordsNone
      <4>2. s[m] = <<>> \o s[m]
        <5>1. s[m] \in Seq(Word)
          BY <3>5 DEF SlotWords
        <5> QED BY <5>1, ConcatEmptySeq
      <4>3. WordsFor(s[m], j.slots, 0 + 1)
        <5>1. SlotWords(s[m], j.slots, 0 + 1)
          BY <3>5, <3>6
        <5>2. 0 \in Nat
          OBVIOUS
        <5> QED BY <4>1, <4>2, <5>1, <5>2, WordsMore
      <4> QED BY <3>2, <3>3, <3>6, <4>3
    <3>7. CASE m # 1
      <4>1. l \in 1 .. n /\ ~ (m <= l)
        BY <3>2, <3>4, <3>7
      <4>2. WordsFor(f[l], j.slots, l)
        BY <3>1, <4>1
      <4>3. WordsFor(f[l] \o s[m], j.slots, l + 1)
        BY <3>5, <4>2, WordsMore
      <4> QED BY <3>2, <3>3, <3>4, <3>5, <3>7, <4>3
    <3> QED BY <3>6, <3>7
  <2>4. n \in 1 .. n
    BY <1>9
  <2> QED BY <1>1, <1>7, <2>2, <2>3, <2>4
<1> QED BY <1>8, <1>9

-----------------------------------------------------------------------------
(***************************************************************************)
(* A location table: entry k covers the words from at[k] to the one before *)
(* at[k + 1], is at pos[k] and leaves the running line at ln[k + 1].       *)
(***************************************************************************)
Covers(t, ws, a, b, q, r, l, m) ==
    /\ b - a \in 1 .. 8 /\ b - 1 <= Len(ws)
    /\ \A v \in a .. b - 1 : ws[v].loc = ws[a].loc
    /\ m = LineAfter(ws[a].loc, l)
    /\ \E s : Entry(ws[a].loc, b - a, l, s) /\ Holds(t, q, s) /\ r = q + Len(s)

Located(t, ws, first, n, at, pos, ln) ==
    /\ t \in Seq(Byte) /\ Len(t) \in Nat /\ n \in Nat
    /\ at \in [1 .. n + 1 -> Nat \ {0}] /\ at[1] = 1
    /\ pos \in [1 .. n + 1 -> Nat \ {0}] /\ pos[1] = 1 /\ pos[n + 1] = Len(t) + 1
    /\ ln \in [1 .. n + 1 -> 0 .. Limit - 1] /\ ln[1] = first
    /\ \A k \in 1 .. n : Covers(t, ws, at[k], at[k + 1], pos[k], pos[k + 1], ln[k], ln[k + 1])

\* The words before top are written, and the running line is line.
LocatedTo(t, ws, first, top, line) ==
    \E n, at, pos, ln : /\ Located(t, ws, first, n, at, pos, ln)
                        /\ at[n + 1] = top /\ ln[n + 1] = line

LEMMA LocatedNone ==
    ASSUME NEW ws, NEW first \in 0 .. Limit - 1
    PROVE  LocatedTo(<<>>, ws, first, 1, first)
<1> DEFINE one == [k \in 1 .. 0 + 1 |-> 1]
           lf == [k \in 1 .. 0 + 1 |-> first]
<1>1. <<>> \in Seq(Byte) /\ Len(<<>>) = 0 /\ 1 \in 1 .. 0 + 1
  OBVIOUS
<1>2. one \in [1 .. 0 + 1 -> Nat \ {0}] /\ lf \in [1 .. 0 + 1 -> 0 .. Limit - 1]
  OBVIOUS
<1>3. one[1] = 1 /\ one[0 + 1] = 1 /\ lf[1] = first /\ lf[0 + 1] = first
  OBVIOUS
<1>4. \A k \in 1 .. 0 : FALSE
  OBVIOUS
<1> HIDE DEF one, lf
<1>5. Located(<<>>, ws, first, 0, one, one, lf)
  BY <1>1, <1>2, <1>3, <1>4 DEF Located
<1> QED BY <1>3, <1>5 DEF LocatedTo

LEMMA CoversLonger ==
    ASSUME NEW t \in Seq(Byte), NEW s \in Seq(Byte), NEW u, u = t \o s,
           NEW ws, NEW a, NEW b, NEW q, NEW r, NEW l, NEW m, Covers(t, ws, a, b, q, r, l, m)
    PROVE  Covers(u, ws, a, b, q, r, l, m)
<1>1. PICK z : Entry(ws[a].loc, b - a, l, z) /\ Holds(t, q, z) /\ r = q + Len(z)
  BY DEF Covers
<1>2. /\ Len(t) \in Nat /\ Len(u) \in Nat /\ Len(t) <= Len(u)
      /\ \A k \in 1 .. Len(t) : u[k] = t[k]
  <2>1. /\ Len(t) \in Nat /\ Len(s) \in Nat /\ Len(u) = Len(t) + Len(s)
        /\ \A k \in 1 .. Len(t) : u[k] = t[k]
    BY ConcatIs
  <2> QED BY <2>1
<1>3. Len(z) \in Nat
  BY <1>1 DEF Entry
<1>4. Holds(u, q, z)
  BY <1>1, <1>2, <1>3, HoldsLonger
<1> QED BY <1>1, <1>4 DEF Covers

LEMMA LocatedMore ==
    ASSUME NEW ws, NEW first, NEW t, NEW a, NEW l, LocatedTo(t, ws, first, a, l),
           NEW b, NEW m \in 0 .. Limit - 1, NEW s, Entry(ws[a].loc, b - a, l, s),
           b - a \in 1 .. 8, b - 1 <= Len(ws), \A v \in a .. b - 1 : ws[v].loc = ws[a].loc,
           m = LineAfter(ws[a].loc, l), NEW u, u = t \o s, b \in Nat
    PROVE  LocatedTo(u, ws, first, b, m)
<1>1. PICK n, at, pos, ln : /\ Located(t, ws, first, n, at, pos, ln)
                            /\ at[n + 1] = a /\ ln[n + 1] = l
  BY DEF LocatedTo
<1>2. /\ t \in Seq(Byte) /\ Len(t) \in Nat /\ n \in Nat
      /\ at \in [1 .. n + 1 -> Nat \ {0}] /\ at[1] = 1
      /\ pos \in [1 .. n + 1 -> Nat \ {0}] /\ pos[1] = 1 /\ pos[n + 1] = Len(t) + 1
      /\ ln \in [1 .. n + 1 -> 0 .. Limit - 1] /\ ln[1] = first
      /\ \A k \in 1 .. n : Covers(t, ws, at[k], at[k + 1], pos[k], pos[k + 1], ln[k], ln[k + 1])
  BY <1>1 DEF Located
<1>3. s \in Seq(Byte) /\ Len(s) \in Nat \ {0}
  BY DEF Entry
<1>4. u \in Seq(Byte) /\ Len(u) = Len(t) + Len(s) /\ \A k \in 1 .. Len(s) : u[Len(t) + k] = s[k]
  BY <1>2, <1>3, ConcatIs
<1> DEFINE n2 == n + 1
           at2 == [k \in 1 .. n2 + 1 |-> IF k = n2 + 1 THEN b ELSE at[k]]
           pos2 == [k \in 1 .. n2 + 1 |-> IF k = n2 + 1 THEN Len(u) + 1 ELSE pos[k]]
           ln2 == [k \in 1 .. n2 + 1 |-> IF k = n2 + 1 THEN m ELSE ln[k]]
<1>5. /\ \A k \in 1 .. n + 1 : k \in 1 .. n2 + 1 /\ k # n2 + 1
      /\ n2 + 1 \in 1 .. n2 + 1 /\ n2 \in Nat
      /\ \A k \in 1 .. n2 : k \in 1 .. n + 1 /\ ((k \in 1 .. n /\ k + 1 \in 1 .. n + 1) \/ k = n + 1)
      /\ \A k \in 1 .. n2 + 1 : k \in 1 .. n + 1 \/ k = n2 + 1
  BY <1>2
<1>6. at2[n2 + 1] = b /\ pos2[n2 + 1] = Len(u) + 1 /\ ln2[n2 + 1] = m
  BY <1>5
<1>7. \A k \in 1 .. n + 1 : at2[k] = at[k] /\ pos2[k] = pos[k] /\ ln2[k] = ln[k]
  BY <1>5
<1>8. b \in Nat \ {0} /\ Len(u) + 1 \in Nat \ {0}
  <2>1. a \in Nat \ {0}
    BY <1>1, <1>2
  <2> QED BY <1>2, <1>3, <1>4, <2>1
<1>9. /\ at2 \in [1 .. n2 + 1 -> Nat \ {0}] /\ pos2 \in [1 .. n2 + 1 -> Nat \ {0}]
      /\ ln2 \in [1 .. n2 + 1 -> 0 .. Limit - 1]
  BY <1>2, <1>5, <1>8
<1>10. 1 \in 1 .. n + 1 /\ n + 1 \in 1 .. n + 1
  BY <1>2
<1> HIDE DEF at2, pos2, ln2
<1>11. Holds(u, pos[n + 1], s)
  BY <1>2, <1>3, <1>4 DEF Holds
<1>12. Covers(u, ws, a, b, pos[n + 1], Len(u) + 1, l, m)
  <2>1. Len(u) + 1 = pos[n + 1] + Len(s)
    BY <1>2, <1>3, <1>4
  <2> QED BY <1>11, <2>1 DEF Covers
<1>13. ASSUME NEW k \in 1 .. n2
       PROVE  Covers(u, ws, at2[k], at2[k + 1], pos2[k], pos2[k + 1], ln2[k], ln2[k + 1])
  <2>1. CASE k \in 1 .. n /\ k + 1 \in 1 .. n + 1
    <3>1. Covers(t, ws, at[k], at[k + 1], pos[k], pos[k + 1], ln[k], ln[k + 1])
      BY <1>2, <2>1
    <3>2. Covers(u, ws, at[k], at[k + 1], pos[k], pos[k + 1], ln[k], ln[k + 1])
      BY <1>2, <1>3, <3>1, CoversLonger
    <3> QED BY <1>5, <1>7, <2>1, <3>2
  <2>2. CASE k = n + 1
    <3>1. at2[k] = a /\ pos2[k] = pos[n + 1] /\ ln2[k] = l
      BY <1>1, <1>7, <1>10, <2>2
    <3> QED BY <1>6, <1>12, <2>2, <3>1
  <2> QED BY <1>5, <2>1, <2>2
<1>14. Len(u) \in Nat
  BY <1>2, <1>3, <1>4
<1>15. Located(u, ws, first, n2, at2, pos2, ln2)
  <2>1. at2[1] = 1 /\ pos2[1] = 1 /\ ln2[1] = first
    BY <1>2, <1>7, <1>10
  <2> QED BY <1>4, <1>5, <1>6, <1>9, <1>13, <1>14, <2>1 DEF Located
<1> QED BY <1>6, <1>15 DEF LocatedTo

\* What the decoder finds at entry k.
LEMMA LocatedAt ==
    ASSUME NEW t, NEW ws, NEW first, NEW n, NEW at, NEW pos, NEW ln,
           Located(t, ws, first, n, at, pos, ln), NEW k \in 1 .. n
    PROVE  /\ pos[k] <= Len(t) /\ LengthAt(t, pos[k]) = at[k + 1] - at[k]
           /\ ReadLocation(t, pos[k], ln[k]).loc = Kept(ws[at[k]].loc)
           /\ ReadLocation(t, pos[k], ln[k]).lineno = ln[k + 1]
           /\ ReadLocation(t, pos[k], ln[k]).next = pos[k + 1]
<1>1. /\ t \in Seq(Byte) /\ Len(t) \in Nat /\ pos[k] \in Nat \ {0}
      /\ Covers(t, ws, at[k], at[k + 1], pos[k], pos[k + 1], ln[k], ln[k + 1])
  BY DEF Located
<1>2. ln[k + 1] = LineAfter(ws[at[k]].loc, ln[k])
  BY <1>1 DEF Covers
<1>3. PICK s : /\ Entry(ws[at[k]].loc, at[k + 1] - at[k], ln[k], s) /\ Holds(t, pos[k], s)
               /\ pos[k + 1] = pos[k] + Len(s)
  BY <1>1 DEF Covers
<1>4. Says(t, pos[k], ws[at[k]].loc, at[k + 1] - at[k], ln[k], Len(s))
  BY <1>1, <1>3 DEF Entry
<1>5. pos[k] <= Len(t)
  <2>1. Len(s) \in Nat \ {0}
    BY <1>3 DEF Entry
  <2>2. pos[k] + Len(s) - 1 <= Len(t)
    BY <1>3 DEF Holds
  <2> QED BY <1>1, <2>1, <2>2
<1> QED BY <1>2, <1>3, <1>4, <1>5 DEF Says

\* A run is at most eight words of one location.
LEMMA RunIs ==
    ASSUME words \in Seq(Word), NEW w \in DOMAIN words
    PROVE  /\ w \in Nat \ {0} /\ Run(w) \in 1 .. 8 /\ w + Run(w) - 1 <= Len(words)
           /\ \A v \in w .. w + Run(w) - 1 : words[v].loc = words[w].loc
<1>1. PICK n \in Nat : n = Len(words) /\ DOMAIN words = 1 .. n
  BY LenProperties
<1>2. w \in Nat /\ 1 <= w /\ w <= n
  BY <1>1
<1> DEFINE S == {r \in 1 .. 8 : r = 8 \/ w + r \notin 1 .. n \/ words[w].loc # words[w + r].loc}
<1>3. PICK m \in S : \A r \in S : m <= r
  <2>1. 8 \in S /\ S \in SUBSET Nat
    OBVIOUS
  <2> HIDE DEF S
  <2> QED BY <2>1, LeastMember
<1>4. m \in 1 .. 8 /\ (m = 8 \/ w + m \notin 1 .. n \/ words[w].loc # words[w + m].loc)
  OBVIOUS
<1>5. ASSUME NEW r \in 1 .. m - 1 PROVE w + r \in 1 .. n /\ words[w].loc = words[w + r].loc
  <2>1. r \in 1 .. 8 /\ ~ (m <= r)
    BY <1>4
  <2>2. r \notin S
    BY <1>3, <2>1
  <2> QED BY <2>1, <2>2
<1> HIDE DEF S
<1>6. w + m - 1 \in 1 .. n
  <2>1. CASE m = 1
    BY <1>2, <2>1
  <2>2. CASE m # 1
    <3>1. m - 1 \in 1 .. m - 1 /\ w + (m - 1) = w + m - 1
      BY <1>2, <1>4, <2>2
    <3> QED BY <1>5, <3>1
  <2> QED BY <2>1, <2>2
<1>7. ASSUME NEW v \in w .. w + m - 1 PROVE words[w].loc = words[v].loc
  <2>1. CASE v # w
    <3>1. v - w \in 1 .. m - 1 /\ w + (v - w) = v
      BY <1>2, <1>4, <2>1
    <3> QED BY <1>5, <3>1
  <2> QED BY <2>1
<1> DEFINE Q(r) == /\ w + r - 1 \in 1 .. n
                   /\ \A v \in w .. w + r - 1 : words[w].loc = words[v].loc
                   /\ r = 8 \/ w + r \notin 1 .. n \/ ~ (words[w].loc = words[w + r].loc)
<1>8. Run(w) = CHOOSE r \in 1 .. 8 : Q(r)
  BY <1>1 DEF Run, MaxRun, Words, SameEntry
<1>9. \E r \in 1 .. 8 : Q(r)
  BY <1>4, <1>6, <1>7
<1> HIDE DEF Q
<1>10. Run(w) \in 1 .. 8 /\ Q(Run(w))
  BY <1>8, <1>9
<1>11. Run(w) \in 1 .. 8 /\ w + Run(w) - 1 \in 1 .. n
       /\ \A v \in w .. w + Run(w) - 1 : words[w].loc = words[v].loc
  BY <1>10 DEF Q
<1> QED BY <1>1, <1>2, <1>11

LEMMA LocationParts ==
    ASSUME NEW loc \in Locations
    PROVE  /\ loc = Location(loc.lineno, loc.end_lineno, loc.col_offset, loc.end_col)
           /\ loc.lineno \in Field /\ loc.end_lineno \in Field
           /\ loc.col_offset \in Field /\ loc.end_col \in Field
  BY DEF Locations, Location

LEMMA LineAfterIs ==
    ASSUME NEW loc \in Locations, NEW l \in 0 .. Limit - 1
    PROVE  LineAfter(loc, l) \in 0 .. Limit - 1
<1>1. loc.lineno \in Field /\ Limit \in Nat
  BY LocationParts, LimitType
<1> QED BY <1>1 DEF LineAfter, Field

LEMMA WriteIs ==
    ASSUME NEW loc \in Locations, NEW run \in 1 .. 8, NEW l \in 0 .. Limit - 1
    PROVE  Entry(loc, run, l, WriteLocation(loc, run, l))
  BY LocationParts, WriteLocationIs

\* EncodeLocation adds an entry.
LEMMA RunWritten ==
    ASSUME words \in Seq(Word), NEW w \in DOMAIN words, NEW first, NEW t, NEW l \in 0 .. Limit - 1,
           LocatedTo(t, words, first, w, l),
           NEW u, u = t \o WriteLocation(words[w].loc, Run(w), l)
    PROVE  /\ LocatedTo(u, words, first, w + Run(w), LineAfter(words[w].loc, l))
           /\ LineAfter(words[w].loc, l) \in 0 .. Limit - 1
           /\ w + Run(w) \in 1 .. Len(words) + 1
<1>1. /\ w \in Nat \ {0} /\ Run(w) \in 1 .. 8 /\ w + Run(w) - 1 <= Len(words)
      /\ \A v \in w .. w + Run(w) - 1 : words[v].loc = words[w].loc
  BY RunIs
<1>2. PICK r \in 1 .. 8 : r = Run(w)
  BY <1>1
<1>3. words[w].loc \in Locations
  <2>1. words[w] \in Word
    BY ElementOfSeq, LenProperties
  <2> QED BY <2>1 DEF Word
<1>4. LineAfter(words[w].loc, l) \in 0 .. Limit - 1
  BY <1>3, LineAfterIs
<1>5. PICK b \in Nat : b = w + r
  BY <1>1
<1>6. b - w = r /\ b - 1 = w + r - 1 /\ Len(words) \in Nat
  BY <1>1, <1>5, LenProperties
<1>7. Entry(words[w].loc, b - w, l, WriteLocation(words[w].loc, r, l))
  BY <1>3, <1>6, WriteIs
<1>8. b - w \in 1 .. 8 /\ b - 1 <= Len(words) /\ \A v \in w .. b - 1 : words[v].loc = words[w].loc
  BY <1>1, <1>2, <1>6
<1>9. LocatedTo(u, words, first, b, LineAfter(words[w].loc, l))
  BY <1>2, <1>4, <1>7, <1>8, LocatedMore
<1>10. w + Run(w) = b /\ b \in 1 .. Len(words) + 1
  <2>1. w \in Nat \ {0} /\ r \in 1 .. 8 /\ b = w + r /\ Len(words) \in Nat /\ b - 1 <= Len(words)
    BY <1>1, <1>5, <1>6, <1>8
  <2>2. w + Run(w) = b
    BY <1>2, <1>5
  <2>3. b \in 1 .. Len(words) + 1
    BY <2>1
  <2> QED BY <2>2, <2>3
<1> QED BY <1>4, <1>9, <1>10

\* The instructions among the words that are read have their locations.
ReadBefore ==
    \A w \in Words : w <= unit /\ words[w].logical => locs[words[w].slot] = Kept(words[w].loc)

AllKept == \A k \in Instrs : locs[k] = WhatIsLeft(job.slots[k].loc)

LEMMA LeftIs ==
    ASSUME NEW loc \in Locations
    PROVE  /\ ~ job.old => WhatIsLeft(loc) = Kept(loc)
           /\ job.old => WhatIsLeft(loc) =
                 [NoLocation EXCEPT !.lineno = IF loc.lineno < 0 THEN -1 ELSE loc.lineno]
<1>1. loc.lineno \in Int /\ loc.col_offset \in Int
  BY LocationParts, LimitType DEF Field
<1>2. ~ job.old => WhatIsLeft(loc) = Kept(loc)
  BY <1>1 DEF WhatIsLeft, Loses, Kept
<1>3. CASE job.old /\ loc.lineno < 0
  <2>1. WhatIsLeft(loc) = NoLocation
    BY <1>1, <1>3 DEF WhatIsLeft, Loses
  <2>2. NoLocation = [NoLocation EXCEPT !.lineno = -1]
    BY DEF NoLocation
  <2> QED BY <1>3, <2>1, <2>2
<1>4. CASE job.old /\ ~ (loc.lineno < 0)
  <2>1. loc.lineno >= 0
    BY <1>1, <1>4
  <2>2. WhatIsLeft(loc) = [NoLocation EXCEPT !.lineno = loc.lineno]
    BY <1>4, <2>1 DEF WhatIsLeft, Loses, OnlyLine
  <2> QED BY <1>4, <2>2
<1> QED BY <1>2, <1>3, <1>4

\* What the words of a job are.
Code == job \in Jobs /\ WordsFor(words, job.slots, Len(job.slots))

LEMMA CodeIs ==
    ASSUME Code
    PROVE  /\ words \in Seq(Word) /\ Len(words) \in Nat /\ Words = 1 .. Len(words)
           /\ Len(job.slots) \in Nat /\ Instrs = 1 .. Len(job.slots)
           /\ \A w \in Words : /\ words[w].slot \in Instrs /\ words[w].loc \in Locations
                               /\ words[w].loc = job.slots[words[w].slot].loc
           /\ \A k \in Instrs : \E w \in Words : words[w].slot = k /\ words[w].logical
           /\ \A k \in Instrs : job.slots[k].loc \in Locations
           /\ job.firstlineno \in 0 .. Limit - 1
<1>1. Len(job.slots) \in Nat /\ Instrs = 1 .. Len(job.slots)
  BY JobType, LenProperties DEF Code, Instrs
<1>2. words \in Seq(Word) /\ Len(words) \in Nat /\ Words = 1 .. Len(words)
  BY LenProperties DEF Code, WordsFor, Words
<1>3. \A w \in Words : words[w].loc \in Locations
  <2>1. \A w \in Words : words[w] \in Word
    BY <1>2, ElementOfSeq
  <2> QED BY <2>1 DEF Word
<1>4. /\ \A w \in Words : words[w].slot \in Instrs /\ words[w].loc = job.slots[words[w].slot].loc
      /\ \A k \in Instrs : \E w \in Words : words[w].slot = k /\ words[w].logical
  BY <1>1, <1>2 DEF Code, WordsFor
<1>5. \A k \in Instrs : job.slots[k].loc \in Locations
  <2>1. \A k \in Instrs : job.slots[k] \in SlotRec
    BY <1>1, JobType, ElementOfSeq DEF Code
  <2> QED BY <2>1 DEF SlotRec
<1>6. job.firstlineno \in 0 .. Limit - 1
  BY JobAssumption DEF Code
<1> QED BY <1>1, <1>2, <1>3, <1>4, <1>5, <1>6

LEMMA AllRead ==
    ASSUME Code, ~ job.old, ReadBefore, \A w \in Words : Logical(w) => w <= unit
    PROVE  AllKept
<1> SUFFICES ASSUME NEW k \in Instrs PROVE locs[k] = WhatIsLeft(job.slots[k].loc)
  BY DEF AllKept
<1>1. PICK w \in Words : words[w].slot = k /\ words[w].logical
  BY CodeIs
<1>2. words[w].loc \in Locations /\ words[w].loc = job.slots[k].loc
  BY <1>1, CodeIs
<1>3. w <= unit
  BY <1>1 DEF Logical
<1>4. locs[k] = Kept(words[w].loc)
  BY <1>1, <1>3 DEF ReadBefore
<1> QED BY <1>2, <1>4, LeftIs

\* DecodeLocation reads an entry.
LEMMA EntryRead ==
    ASSUME Code, NEW n, NEW at, NEW pos, NEW ln,
           Located(lines, words, job.firstlineno, n, at, pos, ln), NEW k \in 1 .. n,
           p = pos[k], unit = at[k] - 1, lineno = ln[k], ReadBefore, DecodeLocation
    PROVE  /\ p' = pos[k + 1] /\ unit' = at[k + 1] - 1 /\ lineno' = ln[k + 1]
           /\ ReadBefore'
<1> DEFINE entry == ReadLocation(lines, p, lineno)
           length == LengthAt(lines, p)
<1>1. /\ length = at[k + 1] - at[k] /\ entry.loc = Kept(words[at[k]].loc)
      /\ entry.lineno = ln[k + 1] /\ entry.next = pos[k + 1]
  BY LocatedAt
<1>2. /\ locs' = [m \in Instrs |->
                      IF \E w \in unit + 1 .. unit + length : Logical(w) /\ InstrAt(w) = m
                      THEN entry.loc ELSE locs[m]]
      /\ lineno' = entry.lineno /\ unit' = unit + length /\ p' = entry.next
      /\ UNCHANGED <<job, words>>
  BY DEF DecodeLocation
<1> HIDE DEF entry, length
<1>3. n \in Nat /\ k \in 1 .. n + 1 /\ k + 1 \in 1 .. n + 1
  BY DEF Located
<1>4. PICK a \in Nat, b \in Nat : a = at[k] /\ b = at[k + 1]
  BY <1>3 DEF Located
<1>5. /\ b - 1 <= Len(words) /\ \A v \in a .. b - 1 : words[v].loc = words[a].loc
  BY <1>4 DEF Located, Covers
<1>6. length = b - a /\ unit = a - 1
  BY <1>1, <1>4
<1>7. unit' = b - 1
  BY <1>2, <1>6
<1>8. ASSUME NEW w \in Words, w <= b - 1, words[w].logical
      PROVE  locs'[words[w].slot] = Kept(words[w].loc)
  <2>1. PICK m \in Instrs : m = words[w].slot
    BY CodeIs
  <2>2. unit + 1 .. unit + length = a .. b - 1
    BY <1>6
  <2>3. locs'[m] = IF \E v \in a .. b - 1 : Logical(v) /\ InstrAt(v) = m THEN entry.loc ELSE locs[m]
    BY <1>2, <2>1, <2>2
  <2>4. CASE \E v \in a .. b - 1 : Logical(v) /\ InstrAt(v) = m
    <3>1. PICK v \in a .. b - 1 : v \in Words /\ words[v].slot = m
      BY <2>4 DEF Logical, InstrAt
    <3>2. words[v].loc = words[w].loc
      <4>1. words[v].loc = job.slots[m].loc
        BY <3>1, CodeIs
      <4>2. words[w].loc = job.slots[m].loc
        BY <2>1, CodeIs
      <4> QED BY <4>1, <4>2
    <3>3. words[v].loc = words[a].loc
      BY <1>5
    <3> QED BY <1>1, <1>4, <2>1, <2>3, <2>4, <3>2, <3>3
  <2>5. CASE ~ \E v \in a .. b - 1 : Logical(v) /\ InstrAt(v) = m
    <3>1. Logical(w) /\ InstrAt(w) = m
      BY <1>8, <2>1 DEF Logical, InstrAt
    <3>2. w \in Nat
      BY CodeIs
    <3>3. w <= unit
      BY <1>6, <1>8, <2>5, <3>1, <3>2
    <3>4. locs[m] = Kept(words[w].loc)
      BY <1>8, <2>1, <3>3 DEF ReadBefore
    <3> QED BY <2>1, <2>3, <2>5, <3>4
  <2> QED BY <2>4, <2>5
<1>9. ReadBefore'
  BY <1>2, <1>7, <1>8 DEF ReadBefore, Words
<1> QED BY <1>1, <1>2, <1>4, <1>7, <1>9

-----------------------------------------------------------------------------
(***************************************************************************)
(* A table of pairs: pair x starts at byte u[x] and at line l[x].          *)
(***************************************************************************)
Breaks(ws) == {w \in 1 .. Len(ws) : w = 1 \/ ws[w].loc.lineno # ws[w - 1].loc.lineno}

\* The line a table gives a word.
LineOf(word) == IF word.loc.lineno < 0 THEN -1 ELSE word.loc.lineno

WordAt(b) == b \div 2 + 1

\* A pair tells the line of its word, or the next pair is about the same word.
Tells(t, ws, x, u, l) ==
    (IF t[x][2] = NoLine THEN -1 ELSE l[x + 1]) = LineOf(ws[WordAt(u[x])])

PairIs(t, ws, x, u, l) ==
    /\ u[x + 1] = u[x] + t[x][1]
    /\ l[x + 1] = IF t[x][2] = NoLine THEN l[x] ELSE l[x] + t[x][2]
    /\ WordAt(u[x]) \in 1 .. Len(ws)
    /\ Tells(t, ws, x, u, l) \/ (x < Len(t) /\ u[x + 1] = u[x])

Ranged(t, ws, first, top, line, u, l) ==
    /\ t \in Seq(Pairs) /\ Len(t) \in Nat
    /\ u \in [1 .. Len(t) + 1 -> Nat] /\ u[1] = 0 /\ u[Len(t) + 1] = (top - 1) * 2
    /\ l \in [1 .. Len(t) + 1 -> Int] /\ l[1] = first /\ l[Len(t) + 1] = line
    /\ \A x \in 1 .. Len(t) : PairIs(t, ws, x, u, l)
    /\ \A w \in Breaks(ws) : w < top => \E x \in 1 .. Len(t) : u[x] = (w - 1) * 2

LEMMA WordAtIs ==
    /\ \A w \in Nat \ {0} : WordAt((w - 1) * 2) = w
    /\ \A a, b \in Nat \ {0} : \A o \in Nat :
          o < (b - a) * 2 => WordAt((a - 1) * 2 + o) \in a .. b - 1
<1>1. \A v \in Nat : (v * 2) \div 2 = v
  OBVIOUS
<1>2. \A v, o \in Nat : (v * 2 + o) \div 2 = v + (o \div 2)
  OBVIOUS
<1>3. \A o \in Nat : o \div 2 \in Nat /\ (o \div 2) * 2 <= o
  OBVIOUS
<1>4. ASSUME NEW w \in Nat \ {0} PROVE WordAt((w - 1) * 2) = w
  <2>1. w - 1 \in Nat /\ (w - 1) + 1 = w
    OBVIOUS
  <2> QED BY <1>1, <2>1 DEF WordAt
<1>5. ASSUME NEW a \in Nat \ {0}, NEW b \in Nat \ {0}, NEW o \in Nat, o < (b - a) * 2
      PROVE  WordAt((a - 1) * 2 + o) \in a .. b - 1
  <2>1. a - 1 \in Nat
    OBVIOUS
  <2>2. PICK h \in Nat : h = o \div 2 /\ h * 2 <= o
    BY <1>3
  <2>3. WordAt((a - 1) * 2 + o) = (a - 1) + h + 1
    BY <1>2, <2>1, <2>2 DEF WordAt
  <2>4. h < b - a
    BY <1>5, <2>2
  <2> QED BY <2>3, <2>4
<1> QED BY <1>4, <1>5

\* Between two breakpoints the line does not change.
LEMMA SameLine ==
    ASSUME NEW ws, Len(ws) \in Nat, NEW a \in 1 .. Len(ws), NEW b \in Nat, b - 1 <= Len(ws),
           \A w \in a + 1 .. b - 1 : w \notin Breaks(ws)
    PROVE  \A w \in a .. b - 1 : ws[w].loc.lineno = ws[a].loc.lineno
<1> DEFINE B == {w \in a .. b - 1 : ws[w].loc.lineno # ws[a].loc.lineno}
<1> SUFFICES ASSUME B # {} PROVE FALSE
  OBVIOUS
<1>1. PICK m \in B : \A w \in B : m <= w
  <2>1. B \in SUBSET Nat
    OBVIOUS
  <2> QED BY <2>1, LeastMember
<1>2. m \in a .. b - 1 /\ ws[m].loc.lineno # ws[a].loc.lineno
  OBVIOUS
<1>3. m \in a + 1 .. b - 1 /\ m - 1 \in a .. b - 1 /\ ~ (m <= m - 1) /\ m \in 1 .. Len(ws)
  BY <1>2
<1>4. m - 1 \notin B
  BY <1>1, <1>3
<1>5. ws[m - 1].loc.lineno = ws[a].loc.lineno
  BY <1>3, <1>4
<1>6. m \in Breaks(ws)
  BY <1>2, <1>3, <1>5 DEF Breaks
<1> QED BY <1>3, <1>6

\* The pairs s of a range go on where the table t ends.
LEMMA RangedMore ==
    ASSUME NEW ws, Len(ws) \in Nat, NEW first, NEW t, NEW a \in Breaks(ws), NEW prev, NEW u, NEW l,
           Ranged(t, ws, first, a, prev, u, l),
           NEW b \in a + 1 .. Len(ws) + 1, \A w \in a + 1 .. b - 1 : w \notin Breaks(ws),
           NEW line \in Int, line = ws[a].loc.lineno,
           NEW s, NEW d, NEW off, NEW lf, RangeOf(s, line, prev, (b - a) * 2, d, off, lf),
           NEW v, v = t \o s
    PROVE  \E u2, l2 : Ranged(v, ws, first, b, LineAfterRange(line, prev), u2, l2)
<1>1. PICK N \in Nat, M \in Nat : N = Len(t) /\ M = Len(s)
  BY DEF Ranged, RangeOf
<1>2. /\ t \in Seq(Pairs)
      /\ u \in [1 .. N + 1 -> Nat] /\ u[1] = 0 /\ u[N + 1] = (a - 1) * 2
      /\ l \in [1 .. N + 1 -> Int] /\ l[1] = first /\ l[N + 1] = prev
      /\ \A x \in 1 .. N : PairIs(t, ws, x, u, l)
      /\ \A w \in Breaks(ws) : w < a => \E x \in 1 .. N : u[x] = (w - 1) * 2
  BY <1>1 DEF Ranged
<1>3. /\ s \in Seq(Pairs) /\ d \in 1 .. M
      /\ off \in [1 .. M + 1 -> Nat] /\ lf \in [1 .. M + 1 -> Int]
      /\ off[1] = 0 /\ lf[1] = prev
      /\ off[M + 1] = (b - a) * 2 /\ lf[M + 1] = LineAfterRange(line, prev)
      /\ \A o \in 1 .. M :
          /\ off[o + 1] = off[o] + s[o][1] /\ off[o] < (b - a) * 2
          /\ lf[o + 1] = IF s[o][2] = NoLine THEN lf[o] ELSE lf[o] + s[o][2]
          /\ o <= d => off[o] = 0
          /\ o >= d => /\ s[o][2] = NoLine <=> line < 0
                       /\ lf[o + 1] = LineAfterRange(line, prev)
  BY <1>1 DEF RangeOf
<1>4. v \in Seq(Pairs) /\ Joins(v, t, N, s, M)
  BY <1>1, <1>2, <1>3, ConcatAt
<1>5. /\ Len(v) = N + M /\ \A x \in 1 .. N : v[x] = t[x]
      /\ \A o \in 1 .. M : v[N + o] = s[o]
  BY <1>4 DEF Joins
<1>6. a \in Nat \ {0} /\ b \in Nat \ {0} /\ a \in 1 .. Len(ws) /\ b - 1 <= Len(ws) /\ a < b
  BY DEF Breaks
<1>7. PICK base \in Nat : base = (a - 1) * 2
  BY <1>6
<1> DEFINE u2 == [x \in 1 .. N + M + 1 |-> IF x <= N THEN u[x] ELSE base + off[x - N]]
           l2 == [x \in 1 .. N + M + 1 |-> IF x <= N THEN l[x] ELSE lf[x - N]]
<1>8. M >= 1 /\ 1 \in 1 .. M
  BY <1>3
<1>9. ASSUME NEW o \in 1 .. M + 1 PROVE u2[N + o] = base + off[o] /\ l2[N + o] = lf[o]
  <2>1. N + o \in 1 .. N + M + 1 /\ ~ (N + o <= N) /\ (N + o) - N = o
    OBVIOUS
  <2> QED BY <2>1
<1>10. ASSUME NEW x \in 1 .. N + 1 PROVE u2[x] = u[x] /\ l2[x] = l[x]
  <2>1. CASE x <= N
    <3>1. x \in 1 .. N + M + 1
      OBVIOUS
    <3> QED BY <2>1, <3>1
  <2>2. CASE x = N + 1
    <3>1. u2[N + 1] = base + off[1] /\ l2[N + 1] = lf[1]
      <4>1. 1 \in 1 .. M + 1
        BY <1>8
      <4> QED BY <1>9, <4>1
    <3> QED BY <1>2, <1>3, <1>7, <2>2, <3>1
  <2>3. x <= N \/ x = N + 1
    OBVIOUS
  <2> QED BY <2>1, <2>2, <2>3
<1>11. u2 \in [1 .. N + M + 1 -> Nat] /\ l2 \in [1 .. N + M + 1 -> Int]
  <2>1. ASSUME NEW x \in 1 .. N + M + 1, ~ (x <= N)
        PROVE  base + off[x - N] \in Nat /\ lf[x - N] \in Int
    <3>1. x - N \in 1 .. M + 1
      BY <2>1
    <3>2. off[x - N] \in Nat /\ lf[x - N] \in Int
      BY <1>3, <3>1
    <3> QED BY <3>2
  <2>2. ASSUME NEW x \in 1 .. N + M + 1, x <= N
        PROVE  u[x] \in Nat /\ l[x] \in Int
    <3>1. x \in 1 .. N + 1
      BY <2>2
    <3> QED BY <1>2, <3>1
  <2> QED BY <2>1, <2>2
<1> HIDE DEF u2, l2
<1>12. ASSUME NEW x \in 1 .. N PROVE PairIs(v, ws, x, u2, l2)
  <2>1. x \in 1 .. N + 1 /\ x + 1 \in 1 .. N + 1 /\ (x < N => x < N + M)
    OBVIOUS
  <2>2. u2[x] = u[x] /\ u2[x + 1] = u[x + 1] /\ l2[x] = l[x] /\ l2[x + 1] = l[x + 1] /\ v[x] = t[x]
    BY <1>5, <1>10, <2>1
  <2>3. PairIs(t, ws, x, u, l)
    BY <1>2
  <2> QED BY <1>1, <1>5, <2>1, <2>2, <2>3 DEF PairIs, Tells
<1>13. ASSUME NEW o \in 1 .. M PROVE PairIs(v, ws, N + o, u2, l2)
  <2>1. PICK x \in Nat : x = N + o
    OBVIOUS
  <2>2. o \in 1 .. M + 1 /\ o + 1 \in 1 .. M + 1 /\ N + (o + 1) = x + 1
    BY <2>1
  <2>3. /\ u2[x] = base + off[o] /\ u2[x + 1] = base + off[o + 1]
        /\ l2[x] = lf[o] /\ l2[x + 1] = lf[o + 1] /\ v[x] = s[o]
    BY <1>5, <1>9, <2>1, <2>2
  <2>4. /\ off[o + 1] = off[o] + s[o][1] /\ off[o] < (b - a) * 2
        /\ lf[o + 1] = IF s[o][2] = NoLine THEN lf[o] ELSE lf[o] + s[o][2]
        /\ o <= d => off[o] = 0
        /\ o >= d => /\ s[o][2] = NoLine <=> line < 0
                     /\ lf[o + 1] = LineAfterRange(line, prev)
    BY <1>3
  <2>5. WordAt(u2[x]) \in a .. b - 1 /\ off[o] \in Nat /\ off[o + 1] \in Nat /\ s[o][1] \in Int
    <3>1. off[o] \in Nat /\ off[o + 1] \in Nat
      BY <1>3, <2>2
    <3>2. s[o] \in Pairs
      BY <1>1, <1>3, ElementOfSeq
    <3>3. WordAt((a - 1) * 2 + off[o]) \in a .. b - 1
      BY <1>6, <2>4, <3>1, WordAtIs
    <3>4. s[o][1] \in Int
      BY <3>2, PairType DEF Pairs
    <3> QED BY <1>7, <2>3, <3>1, <3>3, <3>4
  <2>6. u2[x + 1] = u2[x] + v[x][1]
    BY <2>3, <2>4, <2>5
  <2>7. l2[x + 1] = IF v[x][2] = NoLine THEN l2[x] ELSE l2[x] + v[x][2]
    BY <2>3, <2>4
  <2>8. WordAt(u2[x]) \in 1 .. Len(ws)
    BY <1>6, <2>5
  <2>9. Tells(v, ws, x, u2, l2) \/ (x < Len(v) /\ u2[x + 1] = u2[x])
    <3>1. CASE o < d
      <4>1. o + 1 <= d /\ o <= d /\ o + 1 \in 1 .. M
        BY <1>3, <3>1
      <4>2. off[o] = 0 /\ off[o + 1] = 0
        BY <1>3, <2>4, <4>1
      <4>3. x < Len(v)
        BY <1>5, <2>1, <4>1
      <4> QED BY <2>3, <4>2, <4>3
    <3>2. CASE o >= d
      <4>1. ws[WordAt(u2[x])].loc.lineno = line
        <5>1. \A w \in a .. b - 1 : ws[w].loc.lineno = ws[a].loc.lineno
          BY <1>6, SameLine
        <5> QED BY <2>5, <5>1
      <4>2. LineOf(ws[WordAt(u2[x])]) = IF line < 0 THEN -1 ELSE line
        BY <4>1 DEF LineOf
      <4>3. v[x][2] = NoLine <=> line < 0
        BY <2>3, <2>4, <3>2
      <4>4. l2[x + 1] = LineAfterRange(line, prev)
        BY <2>3, <2>4, <3>2
      <4> QED BY <4>2, <4>3, <4>4 DEF Tells, LineAfterRange
    <3>3. o < d \/ o >= d
      BY <1>3
    <3> QED BY <3>1, <3>2, <3>3
  <2> QED BY <2>1, <2>6, <2>7, <2>8, <2>9 DEF PairIs
<1>14. ASSUME NEW x \in 1 .. N + M PROVE PairIs(v, ws, x, u2, l2)
  <2>1. CASE x <= N
    BY <1>12, <2>1
  <2>2. CASE x > N
    <3>1. x - N \in 1 .. M /\ N + (x - N) = x
      BY <2>2
    <3> QED BY <1>13, <3>1
  <2> QED BY <2>1, <2>2
<1>15. ASSUME NEW w \in Breaks(ws), w < b PROVE \E x \in 1 .. N + M : u2[x] = (w - 1) * 2
  <2>1. w \in Nat
    BY DEF Breaks
  <2>2. CASE w < a
    <3>1. PICK x \in 1 .. N : u[x] = (w - 1) * 2
      BY <1>2, <2>2
    <3>2. x \in 1 .. N + 1 /\ x \in 1 .. N + M
      OBVIOUS
    <3>3. u2[x] = u[x]
      BY <1>10, <3>2
    <3> QED BY <3>1, <3>2, <3>3
  <2>3. CASE w = a
    <3>1. N + 1 \in 1 .. N + M /\ N + 1 \in 1 .. N + 1
      BY <1>8
    <3>2. u2[N + 1] = (w - 1) * 2
      BY <1>2, <1>10, <2>3, <3>1
    <3> QED BY <3>1, <3>2
  <2>4. ~ (w > a)
    <3>1. w > a => w \in a + 1 .. b - 1
      BY <1>6, <1>15, <2>1
    <3> QED BY <3>1
  <2> QED BY <1>6, <2>1, <2>2, <2>3, <2>4
<1>16. u2[1] = 0 /\ l2[1] = first
  <2>1. 1 \in 1 .. N + 1
    OBVIOUS
  <2> QED BY <1>2, <1>10, <2>1
<1>17. u2[N + M + 1] = (b - 1) * 2 /\ l2[N + M + 1] = LineAfterRange(line, prev)
  <2>1. M + 1 \in 1 .. M + 1 /\ N + (M + 1) = N + M + 1
    OBVIOUS
  <2>2. u2[N + M + 1] = base + (b - a) * 2 /\ l2[N + M + 1] = LineAfterRange(line, prev)
    BY <1>3, <1>9, <2>1
  <2>3. base + (b - a) * 2 = (b - 1) * 2
    BY <1>6, <1>7
  <2> QED BY <2>2, <2>3
<1>18. Ranged(v, ws, first, b, LineAfterRange(line, prev), u2, l2)
  <2>1. Len(v) \in Nat
    BY <1>5
  <2> QED BY <1>4, <1>5, <1>11, <1>14, <1>15, <1>16, <1>17, <2>1 DEF Ranged
<1> QED BY <1>18

\* The words before top are written, and the running line is line.
RangesTo(t, ws, first, top, line) == \E u, l : Ranged(t, ws, first, top, line, u, l)

LEMMA RangesNone ==
    ASSUME NEW ws, NEW first \in Int
    PROVE  RangesTo(<<>>, ws, first, 1, first)
<1> DEFINE u == [x \in 1 .. 0 + 1 |-> 0]
           l == [x \in 1 .. 0 + 1 |-> first]
<1>1. <<>> \in Seq(Pairs) /\ Len(<<>>) = 0 /\ (1 - 1) * 2 = 0
  OBVIOUS
<1>2. u \in [1 .. 0 + 1 -> Nat] /\ l \in [1 .. 0 + 1 -> Int]
  OBVIOUS
<1>3. u[1] = 0 /\ u[0 + 1] = 0 /\ l[1] = first /\ l[0 + 1] = first
  OBVIOUS
<1>4. (\A x \in 1 .. 0 : FALSE) /\ \A w \in Breaks(ws) : ~ (w < 1)
  BY DEF Breaks
<1> HIDE DEF u, l
<1>5. Ranged(<<>>, ws, first, 1, first, u, l)
  BY <1>1, <1>2, <1>3, <1>4 DEF Ranged
<1> QED BY <1>5 DEF RangesTo

\* EncodeRange adds the pairs of a range.
LEMMA RangeWritten ==
    ASSUME Code, i \in Breaks(words), cur \in Int, RangesTo(lines, words, job.firstlineno, i, cur),
           EncodeRange
    PROVE  /\ RangesTo(lines', words, job.firstlineno, i', cur')
           /\ cur' \in Int /\ i' \in Breaks(words) \cup {Len(words) + 1}
<1>1. /\ words \in Seq(Word) /\ Len(words) \in Nat /\ Words = 1 .. Len(words)
      /\ \A w \in Words : words[w].loc \in Locations
  BY CodeIs
<1>2. Breakpoints = Breaks(words)
  BY <1>1 DEF Breakpoints, Breaks
<1> DEFINE S == {w \in Breakpoints : w > i} \cup {Len(words) + 1}
<1>3. PICK line \in Int, b \in S : /\ line = words[i].loc.lineno /\ b = Min(S)
                                   /\ \A w \in S : b <= w
  <2>1. S \in SUBSET Nat
    BY <1>1, <1>2 DEF Breaks
  <2>2. Len(words) + 1 \in S
    OBVIOUS
  <2> HIDE DEF S
  <2>3. PICK b \in S : \A w \in S : b <= w
    BY <2>1, <2>2, LeastMember
  <2>4. S \in SUBSET Int
    BY <2>1
  <2>5. b = Min(S)
    BY <2>3, <2>4, MinIs
  <2>6. i \in Words
    BY <1>1 DEF Breaks
  <2>7. words[i].loc.lineno \in Int
    <3>1. words[i].loc.lineno \in Field /\ Limit \in Nat
      BY <1>1, <2>6, LocationParts, LimitType
    <3> QED BY <3>1 DEF Field
  <2> QED BY <2>3, <2>5, <2>7
<1>4. i \in 1 .. Len(words) /\ b \in i + 1 .. Len(words) + 1
  <2>1. i \in 1 .. Len(words)
    BY DEF Breaks
  <2>2. (b \in Breaks(words) /\ b > i) \/ b = Len(words) + 1
    BY <1>2
  <2>3. (b \in 1 .. Len(words) /\ b > i) \/ b = Len(words) + 1
    BY <2>2 DEF Breaks
  <2> QED BY <1>1, <2>1, <2>3
<1>5. ASSUME NEW w \in i + 1 .. b - 1 PROVE w \notin Breaks(words)
  <2>1. w > i /\ ~ (b <= w)
    BY <1>4
  <2>2. w \notin S
    BY <1>3, <2>1
  <2> QED BY <1>2, <2>1, <2>2
<1>6. /\ lines' = lines \o WriteRange(line, cur, (b - i) * 2)
      /\ cur' = LineAfterRange(line, cur) /\ i' = b
  <2>1. /\ lines' = lines \o WriteRange(words[i].loc.lineno, cur, (Min(S) - i) * 2)
        /\ cur' = LineAfterRange(words[i].loc.lineno, cur) /\ i' = Min(S)
    BY <1>2 DEF EncodeRange, INSTR_BYTES
  <2> QED BY <1>3, <2>1
<1>7. b \in Breaks(words) \cup {Len(words) + 1}
  BY <1>2
<1> HIDE DEF S
<1>8. PICK u, l : Ranged(lines, words, job.firstlineno, i, cur, u, l)
  BY DEF RangesTo
<1>9. (b - i) * 2 \in Nat \ {0}
  BY <1>4
<1>10. PICK d, off, lf : RangeOf(WriteRange(line, cur, (b - i) * 2), line, cur, (b - i) * 2, d, off, lf)
  BY <1>9, WriteRangeIs
<1>11. \E u2, l2 : Ranged(lines', words, job.firstlineno, b, LineAfterRange(line, cur), u2, l2)
  BY <1>1, <1>3, <1>4, <1>5, <1>6, <1>8, <1>10, RangedMore
<1>12. RangesTo(lines', words, job.firstlineno, i', cur')
  BY <1>6, <1>11 DEF RangesTo
<1>13. cur' \in Int
  BY <1>3, <1>6 DEF LineAfterRange
<1> QED BY <1>6, <1>7, <1>12, <1>13

\* The pairs before p are read.

Told(m) == locs[m] = WhatIsLeft(job.slots[m].loc)

PairsRead(u, l) ==
    /\ p \in 1 .. Len(lines) + 1 /\ unit = u[p] /\ lineno = l[p]
    /\ locs = [k \in Instrs |-> OnlyLine(locs[k].lineno)]
    /\ mentioned = {InstrAt(WordAt(u[x])) : x \in 1 .. p - 1}
    /\ \A m \in mentioned : Told(m) \/ (p <= Len(lines) /\ InstrAt(WordAt(u[p])) = m)

\* DecodeRange reads a pair.
LEMMA PairRead ==
    ASSUME Code, job.old, NEW top, NEW line, NEW u, NEW l,
           Ranged(lines, words, job.firstlineno, top, line, u, l), PairsRead(u, l), DecodeRange
    PROVE  PairsRead(u, l)'
<1>1. PICK N \in Nat : N = Len(lines)
  BY DEF Ranged
<1>2. /\ p \in 1 .. N /\ p \in 1 .. N + 1 /\ p + 1 \in 1 .. N + 1
      /\ unit = u[p] /\ lineno = l[p]
      /\ u \in [1 .. N + 1 -> Nat] /\ l \in [1 .. N + 1 -> Int]
      /\ PairIs(lines, words, p, u, l)
  <2>1. p \in 1 .. N + 1 /\ p <= N
    BY <1>1 DEF PairsRead, DecodeRange
  <2>2. p \in 1 .. N /\ p + 1 \in 1 .. N + 1
    BY <2>1
  <2> QED BY <1>1, <2>1, <2>2 DEF PairsRead, Ranged
<1>3. PICK m : m = InstrAt(WordAt(u[p]))
  OBVIOUS
<1>4. WordAt(u[p]) \in Words /\ m \in Instrs
      /\ words[WordAt(u[p])].loc = job.slots[m].loc /\ job.slots[m].loc \in Locations
  <2>1. WordAt(u[p]) \in Words
    BY <1>2, CodeIs DEF PairIs
  <2> QED BY <1>3, <2>1, CodeIs DEF InstrAt
<1> DEFINE delta == lines[p][2]
           y == IF delta = NoLine THEN -1 ELSE lineno'
<1>5. /\ lineno' = IF delta = NoLine THEN lineno ELSE lineno + delta
      /\ unit' = unit + lines[p][1] /\ p' = p + 1 /\ UNCHANGED <<job, words, lines>>
  BY DEF DecodeRange, Encoding
<1>6. locs' = [locs EXCEPT ![m].lineno = y] /\ mentioned' = mentioned \cup {m}
  <2>1. unit \div INSTR_BYTES + 1 = WordAt(u[p])
    BY <1>2 DEF WordAt, INSTR_BYTES
  <2> QED BY <1>3, <1>4, <2>1 DEF DecodeRange
<1>7. unit' = u[p'] /\ lineno' = l[p']
  BY <1>2, <1>5 DEF PairIs
<1>8. /\ locs' = [k \in Instrs |-> OnlyLine(locs'[k].lineno)]
      /\ locs'[m] = OnlyLine(y) /\ \A k \in Instrs : k # m => locs'[k] = locs[k]
  <2>1. locs = [k \in Instrs |-> OnlyLine(locs[k].lineno)]
    BY DEF PairsRead
  <2>2. locs' = [k \in Instrs |-> IF k = m THEN [locs[m] EXCEPT !.lineno = y] ELSE locs[k]]
    BY <1>4, <1>6, <2>1
  <2>3. \A x, z : [OnlyLine(x) EXCEPT !.lineno = z] = OnlyLine(z) /\ OnlyLine(z).lineno = z
    BY DEF OnlyLine, NoLocation
  <2>4. locs[m] = OnlyLine(locs[m].lineno)
    BY <1>4, <2>1
  <2>5. [locs[m] EXCEPT !.lineno = y] = OnlyLine(y)
    BY <2>3, <2>4
  <2>6. locs'[m] = OnlyLine(y) /\ \A k \in Instrs : k # m => locs'[k] = locs[k]
    BY <1>4, <2>2, <2>5
  <2>7. \A k \in Instrs : locs'[k] = OnlyLine(locs'[k].lineno)
    BY <2>1, <2>3, <2>6
  <2> QED BY <2>2, <2>6, <2>7
<1>10. Told(m)' \/ (p' <= N /\ InstrAt(WordAt(u[p'])) = m)
  <2>1. CASE Tells(lines, words, p, u, l)
    <3>1. y = LineOf(words[WordAt(u[p])])
      BY <1>5, <1>7, <2>1 DEF Tells
    <3>2. WhatIsLeft(job.slots[m].loc) = OnlyLine(y)
      BY <1>4, <3>1, LeftIs DEF OnlyLine, LineOf
    <3>3. WhatIsLeft(job.slots[m].loc)' = WhatIsLeft(job.slots[m].loc)
      BY <1>5 DEF WhatIsLeft, Loses
    <3> QED BY <1>5, <1>8, <3>2, <3>3 DEF Told
  <2>2. CASE p < N /\ u[p + 1] = u[p]
    BY <1>2, <1>3, <1>5, <2>2
  <2> QED BY <1>1, <1>2, <2>1, <2>2 DEF PairIs
<1>11. mentioned' = {InstrAt(WordAt(u[x])) : x \in 1 .. p' - 1}
  <2>1. mentioned = {InstrAt(WordAt(u[x])) : x \in 1 .. p - 1}
    BY DEF PairsRead
  <2>2. 1 .. p' - 1 = (1 .. p - 1) \cup {p}
    BY <1>2, <1>5
  <2> QED BY <1>3, <1>6, <2>1, <2>2
<1>12. ASSUME NEW k \in mentioned'
       PROVE  Told(k)' \/ (p' <= N /\ InstrAt(WordAt(u[p'])) = k)
  <2>1. CASE k = m
    BY <1>10, <2>1
  <2>2. CASE k # m
    <3>1. k \in mentioned
      BY <1>6, <2>2
    <3>2. Told(k)
      BY <1>3, <2>2, <3>1 DEF PairsRead
    <3>3. k \in Instrs
      <4>1. PICK x \in 1 .. p - 1 : k = InstrAt(WordAt(u[x]))
        BY <3>1 DEF PairsRead
      <4>2. x \in 1 .. Len(lines)
        BY <1>1, <1>2
      <4>3. WordAt(u[x]) \in Words
        BY <4>2, CodeIs DEF Ranged, PairIs
      <4> QED BY <4>1, <4>3, CodeIs DEF InstrAt
    <3>4. locs'[k] = locs[k]
      BY <1>8, <2>2, <3>3
    <3>5. WhatIsLeft(job.slots[k].loc)' = WhatIsLeft(job.slots[k].loc)
      BY <1>5 DEF WhatIsLeft, Loses
    <3> QED BY <1>5, <3>2, <3>4, <3>5 DEF Told
  <2> QED BY <2>1, <2>2
<1>13. p' \in 1 .. Len(lines') + 1
  BY <1>1, <1>2, <1>5
<1>14. \A w : InstrAt(w)' = InstrAt(w)
  BY <1>5 DEF InstrAt
<1>15. Instrs' = Instrs
  BY <1>5 DEF Instrs
<1> HIDE DEF delta, y
<1> QED BY <1>1, <1>5, <1>7, <1>8, <1>11, <1>12, <1>13, <1>14, <1>15 DEF PairsRead

LEMMA MaxIs ==
    ASSUME NEW S \in SUBSET Nat, S # {}, NEW k \in Nat, \A x \in S : x <= k
    PROVE  Max(S) \in S /\ \A x \in S : x <= Max(S)
<1> DEFINE D == {k - x : x \in S}
<1>1. PICK e \in D : \A y \in D : e <= y
  <2>1. D \in SUBSET Nat
    OBVIOUS
  <2>2. D # {}
    OBVIOUS
  <2> HIDE DEF D
  <2> QED BY <2>1, <2>2, LeastMember
<1>2. PICK m \in S : e = k - m
  OBVIOUS
<1>3. ASSUME NEW x \in S PROVE m >= x
  <2>1. k - x \in D
    OBVIOUS
  <2>2. e <= k - x
    BY <1>1, <2>1
  <2> QED BY <1>2, <2>2
<1>4. \A x \in S : Max(S) >= x
  BY <1>3 DEF Max
<1>5. Max(S) \in S
  BY <1>3 DEF Max
<1> QED BY <1>4, <1>5

\* The first word of an instruction whose line is not that of the one before is
\* where the line changes.
LEMMA ChangeIs ==
    ASSUME Code, NEW k \in Instrs
    PROVE  /\ k = 1 => \E w \in Breaks(words) : InstrAt(w) = k
           /\ k # 1 /\ job.slots[k].loc.lineno # job.slots[k - 1].loc.lineno =>
                 \E w \in Breaks(words) : InstrAt(w) = k
<1>1. /\ Len(words) \in Nat /\ Words = 1 .. Len(words) /\ Len(job.slots) \in Nat
      /\ Instrs = 1 .. Len(job.slots)
      /\ \A w \in Words : words[w].loc = job.slots[words[w].slot].loc
  BY CodeIs
<1>2. CASE k = 1
  <2>1. words[1].slot = 1 /\ Len(words) >= 1
    <3>1. Len(job.slots) >= 1
      BY <1>1, <1>2
    <3> QED BY <1>1, <3>1 DEF Code, WordsFor
  <2>2. 1 \in Breaks(words)
    BY <1>1, <2>1 DEF Breaks
  <2> QED BY <1>2, <2>1, <2>2 DEF InstrAt
<1>3. ASSUME k # 1, job.slots[k].loc.lineno # job.slots[k - 1].loc.lineno
      PROVE  \E w \in Breaks(words) : InstrAt(w) = k
  <2>1. k \in 2 .. Len(job.slots)
    BY <1>1, <1>3
  <2>2. PICK w \in 2 .. Len(words) : words[w].slot = k /\ words[w - 1].slot = k - 1
    BY <2>1 DEF Code, WordsFor
  <2>3. w \in Words /\ w - 1 \in Words
    BY <1>1
  <2>4. words[w].loc = job.slots[k].loc /\ words[w - 1].loc = job.slots[k - 1].loc
    BY <1>1, <2>2, <2>3
  <2>5. w \in Breaks(words)
    BY <1>1, <1>3, <2>3, <2>4 DEF Breaks
  <2> QED BY <2>2, <2>5 DEF InstrAt
<1> QED BY <1>2, <1>3

\* The instruction whose line ForwardFill takes has the line of the one that takes it.
LEMMA FilledFrom ==
    ASSUME Code, mentioned \subseteq Instrs, \A w \in Breaks(words) : InstrAt(w) \in mentioned,
           NEW k \in Instrs
    PROVE  /\ NamedBefore(k) \in mentioned /\ NamedBefore(k) \in Instrs
           /\ job.slots[NamedBefore(k)].loc.lineno = job.slots[k].loc.lineno
<1>1. Len(job.slots) \in Nat /\ Instrs = 1 .. Len(job.slots) /\ k \in Nat /\ 1 <= k
  BY CodeIs
<1>2. 1 \in Instrs /\ 1 \in mentioned
  <2>1. 1 \in Instrs
    BY <1>1
  <2>2. \E w \in Breaks(words) : InstrAt(w) = 1
    BY <2>1, ChangeIs
  <2> QED BY <2>1, <2>2
<1> DEFINE S == {m \in mentioned : m <= k} \cup {1}
<1>3. Max(S) \in S /\ \A x \in S : x <= Max(S)
  <2>1. \A x \in S : x \in Nat /\ x <= k
    BY <1>1
  <2>2. 1 \in S
    OBVIOUS
  <2> HIDE DEF S
  <2>3. S \in SUBSET Nat /\ S # {}
    BY <2>1, <2>2
  <2> QED BY <1>1, <2>1, <2>3, MaxIs
<1>4. PICK m \in Instrs : m = Max(S) /\ m \in mentioned /\ m <= k /\ \A x \in S : x <= m
  BY <1>1, <1>2, <1>3
<1>5. NamedBefore(k) = m
  BY <1>4 DEF NamedBefore
<1> DEFINE B == {j \in m .. k : job.slots[j].loc.lineno # job.slots[m].loc.lineno}
<1>6. job.slots[m].loc.lineno = job.slots[k].loc.lineno
  <2>0. k \in m .. k
    BY <1>1, <1>4
  <2> SUFFICES ASSUME B # {} PROVE FALSE
    BY <2>0
  <2>1. PICK j \in B : \A x \in B : j <= x
    <3>1. B \in SUBSET Nat
      BY <1>1
    <3> QED BY <3>1, LeastMember
  <2>2. j \in m .. k /\ job.slots[j].loc.lineno # job.slots[m].loc.lineno
    OBVIOUS
  <2>3. j # m /\ m \in Nat \ {0} /\ j \in Nat
    BY <1>1, <2>2
  <2>4. j - 1 \in m .. k /\ ~ (j <= j - 1) /\ j \in Instrs /\ j # 1 /\ ~ (j <= m)
    BY <1>1, <2>2, <2>3
  <2>5. j - 1 \notin B
    BY <2>1, <2>4
  <2>6. job.slots[j - 1].loc.lineno = job.slots[m].loc.lineno
    BY <2>4, <2>5
  <2>7. \E w \in Breaks(words) : InstrAt(w) = j
    BY <2>2, <2>4, <2>6, ChangeIs
  <2>8. j \in S
    BY <2>2, <2>7
  <2> QED BY <1>4, <2>4, <2>8
<1> QED BY <1>4, <1>5, <1>6

\* ForwardFill gives every instruction its line.
LEMMA FilledForward ==
    ASSUME Code, job.old, NEW line, NEW u, NEW l,
           Ranged(lines, words, job.firstlineno, Len(words) + 1, line, u, l), PairsRead(u, l),
           ForwardFill
    PROVE  AllKept'
<1>1. PICK N \in Nat : N = Len(lines)
  BY DEF Ranged
<1>2. p \in 1 .. N + 1 /\ p > N /\ p = N + 1 /\ 1 .. p - 1 = 1 .. N /\ ~ (p <= N)
  <2>1. p \in 1 .. N + 1 /\ p > N
    BY <1>1 DEF PairsRead, ForwardFill
  <2> QED BY <2>1
<1>3. \A m \in mentioned : Told(m)
  BY <1>1, <1>2 DEF PairsRead
<1>4. mentioned = {InstrAt(WordAt(u[x])) : x \in 1 .. N}
  BY <1>2 DEF PairsRead
<1>5. mentioned \subseteq Instrs
  <2>1. \A x \in 1 .. N : WordAt(u[x]) \in Words
    BY <1>1, CodeIs DEF Ranged, PairIs
  <2>2. \A w \in Words : InstrAt(w) \in Instrs
    BY CodeIs DEF InstrAt
  <2> QED BY <1>4, <2>1, <2>2
<1>6. ASSUME NEW w \in Breaks(words) PROVE InstrAt(w) \in mentioned
  <2>1. w \in 1 .. Len(words) /\ Len(words) \in Nat
    BY CodeIs DEF Breaks
  <2>2. w \in Nat \ {0} /\ w < Len(words) + 1
    BY <2>1
  <2>3. PICK x \in 1 .. N : u[x] = (w - 1) * 2
    BY <1>1, <2>2 DEF Ranged
  <2>4. WordAt(u[x]) = w
    BY <2>2, <2>3, WordAtIs
  <2> QED BY <1>4, <2>4
<1>7. locs' = [k \in Instrs |-> locs[NamedBefore(k)]] /\ UNCHANGED <<job, words>>
  BY DEF ForwardFill
<1>8. ASSUME NEW k \in Instrs PROVE locs'[k] = WhatIsLeft(job.slots[k].loc)
  <2>1. PICK m \in Instrs : /\ m = NamedBefore(k) /\ m \in mentioned
                            /\ job.slots[m].loc.lineno = job.slots[k].loc.lineno
    BY <1>5, <1>6, FilledFrom
  <2>2. locs'[k] = WhatIsLeft(job.slots[m].loc)
    BY <1>3, <1>7, <2>1 DEF Told
  <2>3. \A x \in Instrs : job.slots[x].loc \in Locations
    BY CodeIs
  <2>4. WhatIsLeft(job.slots[m].loc) = WhatIsLeft(job.slots[k].loc)
    BY <2>1, <2>3, LeftIs
  <2> QED BY <2>2, <2>4
<1>9. \A loc : WhatIsLeft(loc)' = WhatIsLeft(loc)
  BY <1>7 DEF WhatIsLeft, Loses
<1> QED BY <1>7, <1>8, <1>9 DEF AllKept, Instrs

-----------------------------------------------------------------------------
(***************************************************************************)
(* The invariant of the line tables.                                       *)
(***************************************************************************)
Writes == {"write_locations", "write_ranges", "write_entries"}

Fresh ==
    /\ p = 1 /\ unit = 0 /\ lineno = job.firstlineno /\ mentioned = {}
    /\ job.old => locs = [k \in Instrs |-> OnlyLine(locs[k].lineno)]

AllWritten(line) ==
    IF job.old THEN RangesTo(lines, words, job.firstlineno, Len(words) + 1, line)
               ELSE LocatedTo(lines, words, job.firstlineno, Len(words) + 1, line)

\* The entries, or pairs, before p are read.
EntriesRead ==
    \E n, at, pos, ln :
       /\ Located(lines, words, job.firstlineno, n, at, pos, ln) /\ at[n + 1] = Len(words) + 1
       /\ \E k \in 1 .. n + 1 : p = pos[k] /\ unit = at[k] - 1 /\ lineno = ln[k]
       /\ ReadBefore

RangesRead ==
    \E line, u, l : /\ Ranged(lines, words, job.firstlineno, Len(words) + 1, line, u, l)
                    /\ PairsRead(u, l)

LocationsInv ==
    /\ Code
    /\ stage \in Writes \cup Reads \cup {"done"}
    /\ stage \in {"write_locations", "read_locations", "read_entries"} => ~ job.old
    /\ stage \in {"write_ranges", "read_ranges"} => job.old
    /\ stage = "write_locations" =>
          /\ i \in 1 .. Len(words) + 1 /\ cur \in 0 .. Limit - 1
          /\ LocatedTo(lines, words, job.firstlineno, i, cur)
    /\ stage = "write_ranges" =>
          /\ i \in Breaks(words) \cup {Len(words) + 1} /\ cur \in Int
          /\ RangesTo(lines, words, job.firstlineno, i, cur)
    /\ stage = "write_entries" => \E line : AllWritten(line)
    /\ stage \in Writes => Fresh
    /\ stage = "read_locations" => EntriesRead
    /\ stage = "read_ranges" => RangesRead
    /\ stage \in {"read_entries", "done"} => AllKept

LEMMA LocationsInit == Init => LocationsInv
<1> SUFFICES ASSUME Init PROVE LocationsInv
  OBVIOUS
<1>1. Code
  BY WordsAre DEF Init, Code
<1>2. /\ stage = IF job.old THEN "write_ranges" ELSE "write_locations"
      /\ i = 1 /\ cur = job.firstlineno /\ lines = <<>>
      /\ p = 1 /\ unit = 0 /\ lineno = job.firstlineno /\ mentioned = {}
  BY DEF Init
<1>3. job.old => locs = [k \in Instrs |-> OnlyLine(locs[k].lineno)]
  <2> HAVE job.old
  <2>1. locs = [k \in Instrs |-> OnlyLine(job.firstlineno)]
    BY DEF Init, OnlyLine
  <2>2. OnlyLine(job.firstlineno).lineno = job.firstlineno
    BY DEF OnlyLine, NoLocation
  <2> QED BY <2>1, <2>2
<1>4. /\ job.firstlineno \in 0 .. Limit - 1 /\ job.firstlineno \in Int
      /\ Len(words) \in Nat /\ 1 \in 1 .. Len(words) + 1
      /\ 1 \in Breaks(words) \cup {Len(words) + 1}
  <2>1. job.firstlineno \in 0 .. Limit - 1 /\ Len(words) \in Nat /\ Limit \in Nat
    BY <1>1, CodeIs, LimitType
  <2>2. 1 \in Breaks(words) \cup {Len(words) + 1}
    <3>1. CASE Len(words) = 0
      BY <3>1
    <3>2. CASE Len(words) # 0
      <4>1. 1 \in 1 .. Len(words)
        BY <2>1, <3>2
      <4> QED BY <4>1 DEF Breaks
    <3> QED BY <3>1, <3>2
  <2> QED BY <2>1, <2>2
<1>5. LocatedTo(lines, words, job.firstlineno, i, cur)
  BY <1>2, <1>4, LocatedNone
<1>6. RangesTo(lines, words, job.firstlineno, i, cur)
  BY <1>2, <1>4, RangesNone
<1>7. Fresh
  BY <1>2, <1>3 DEF Fresh
<1> QED BY <1>1, <1>2, <1>4, <1>5, <1>6, <1>7 DEF LocationsInv, Writes, Reads

LEMMA LocationsStep == LocationsInv /\ [Next]_vars => LocationsInv'
<1> SUFFICES ASSUME LocationsInv, [Next]_vars PROVE LocationsInv'
  OBVIOUS
<1>0. /\ Code /\ words \in Seq(Word) /\ Len(words) \in Nat /\ Words = 1 .. Len(words)
      /\ job.firstlineno \in 0 .. Limit - 1
  BY CodeIs DEF LocationsInv
<1>a. UNCHANGED <<job, words>> => Code'
  BY <1>0 DEF Code
<1>b. UNCHANGED <<job, words, locs>> => (AllKept => AllKept')
  BY DEF AllKept, WhatIsLeft, Loses, Instrs
<1>c. UNCHANGED <<job, words, Decoding>> => (Fresh => Fresh')
  BY DEF Fresh, Decoding, Instrs
<1>1. CASE EncodeLocation
  <2>1. /\ stage = "write_locations" /\ i \in DOMAIN words
        /\ lines' = lines \o WriteLocation(words[i].loc, Run(i), cur)
        /\ cur' = LineAfter(words[i].loc, cur) /\ i' = i + Run(i)
        /\ UNCHANGED <<job, words, stage, Decoding>>
    BY <1>1 DEF EncodeLocation, Words
  <2>2. ~ job.old /\ cur \in 0 .. Limit - 1 /\ LocatedTo(lines, words, job.firstlineno, i, cur) /\ Fresh
    BY <2>1 DEF LocationsInv, Writes
  <2>3. /\ LocatedTo(lines', words, job.firstlineno, i', cur')
        /\ cur' \in 0 .. Limit - 1 /\ i' \in 1 .. Len(words) + 1
    BY <1>0, <2>1, <2>2, RunWritten
  <2> QED BY <1>a, <1>c, <2>1, <2>2, <2>3 DEF LocationsInv, Writes
<1>2. CASE EncodeRange
  <2>1. /\ stage = "write_ranges" /\ i \in Words /\ UNCHANGED <<job, words, stage, Decoding>>
    BY <1>2 DEF EncodeRange
  <2>2. /\ job.old /\ i \in Breaks(words) /\ cur \in Int /\ Fresh
        /\ RangesTo(lines, words, job.firstlineno, i, cur)
    <3>1. i \in Breaks(words) \cup {Len(words) + 1} /\ i # Len(words) + 1
      BY <1>0, <2>1 DEF LocationsInv
    <3> QED BY <2>1, <3>1 DEF LocationsInv, Writes
  <2>3. /\ RangesTo(lines', words, job.firstlineno, i', cur')
        /\ cur' \in Int /\ i' \in Breaks(words) \cup {Len(words) + 1}
    BY <1>0, <1>2, <2>2, RangeWritten
  <2> QED BY <1>a, <1>c, <2>1, <2>2, <2>3 DEF LocationsInv, Writes
<1>3. CASE LinesDone
  <2>1. /\ stage \in {"write_locations", "write_ranges"} /\ i \notin Words
        /\ stage' = "write_entries" /\ UNCHANGED <<job, words, lines, Decoding>>
    BY <1>3 DEF LinesDone
  <2>2. Fresh
    BY <2>1 DEF LocationsInv, Writes
  <2>3. PICK line : line = cur
    OBVIOUS
  <2>4. AllWritten(line)
    <3>1. i = Len(words) + 1
      <4>1. i \in 1 .. Len(words) + 1 \/ i \in Breaks(words) \cup {Len(words) + 1}
        BY <2>1 DEF LocationsInv
      <4>2. Breaks(words) \subseteq 1 .. Len(words)
        BY DEF Breaks
      <4> QED BY <1>0, <2>1, <4>1, <4>2
    <3> QED BY <2>1, <2>3, <3>1 DEF LocationsInv, AllWritten
  <2>5. AllWritten(line)'
    BY <2>1, <2>4 DEF AllWritten
  <2>6. Fresh'
    BY <1>c, <2>1, <2>2
  <2> QED BY <1>a, <2>1, <2>5, <2>6 DEF LocationsInv, Writes, Reads
<1>4. CASE EncodeEntry
  <2>1. stage = "write_entries" /\ UNCHANGED <<job, words, stage, lines, Decoding>>
    BY <1>4 DEF EncodeEntry
  <2>2. PICK line : AllWritten(line)
    BY <2>1 DEF LocationsInv
  <2>3. AllWritten(line)'
    BY <2>1, <2>2 DEF AllWritten
  <2>4. Fresh'
    BY <1>c, <2>1 DEF LocationsInv, Writes
  <2> QED BY <1>a, <2>1, <2>3, <2>4 DEF LocationsInv, Writes, Reads
<1>5. CASE Encoded
  <2>1. /\ stage = "write_entries" /\ stage' = IF job.old THEN "read_ranges" ELSE "read_locations"
        /\ UNCHANGED <<job, words, lines, Decoding>>
    BY <1>5 DEF Encoded, Encoding
  <2>2. PICK line : AllWritten(line)
    BY <2>1 DEF LocationsInv
  <2>3. /\ p = 1 /\ unit = 0 /\ lineno = job.firstlineno /\ mentioned = {}
        /\ job.old => locs = [k \in Instrs |-> OnlyLine(locs[k].lineno)]
    BY <2>1 DEF LocationsInv, Writes, Fresh
  <2>4. UNCHANGED <<p, unit, lineno, locs, mentioned>>
    BY <2>1 DEF Decoding
  <2>5. CASE job.old
    <3>1. PICK u, l : Ranged(lines, words, job.firstlineno, Len(words) + 1, line, u, l)
      BY <2>2, <2>5 DEF AllWritten, RangesTo
    <3>2. u[1] = 0 /\ l[1] = job.firstlineno /\ Len(lines) \in Nat
      BY <3>1 DEF Ranged
    <3>3. 1 \in 1 .. Len(lines) + 1 /\ 1 .. 1 - 1 = {}
      BY <3>2
    <3>4. PairsRead(u, l)
      BY <2>3, <2>5, <3>2, <3>3 DEF PairsRead
    <3>5. PairsRead(u, l)'
      BY <2>1, <3>4 DEF PairsRead, Decoding, Instrs, InstrAt, Told, WhatIsLeft, Loses
    <3>6. RangesRead'
      BY <2>1, <3>1, <3>5 DEF RangesRead
    <3> QED BY <1>a, <2>1, <2>5, <3>6 DEF LocationsInv, Writes, Reads
  <2>6. CASE ~ job.old
    <3>1. PICK n, at, pos, ln : /\ Located(lines, words, job.firstlineno, n, at, pos, ln)
                               /\ at[n + 1] = Len(words) + 1
      BY <2>2, <2>6 DEF AllWritten, LocatedTo
    <3>2. n \in Nat /\ at[1] = 1 /\ pos[1] = 1 /\ ln[1] = job.firstlineno
      BY <3>1 DEF Located
    <3>3. 1 \in 1 .. n + 1 /\ p = pos[1] /\ unit = at[1] - 1 /\ lineno = ln[1]
      BY <2>3, <3>2
    <3>4. ReadBefore
      BY <1>0, <2>3 DEF ReadBefore
    <3>5. EntriesRead
      BY <3>1, <3>3, <3>4 DEF EntriesRead
    <3>6. EntriesRead'
      BY <2>1, <3>5 DEF EntriesRead, ReadBefore, Decoding, Words
    <3> QED BY <1>a, <2>1, <2>6, <3>6 DEF LocationsInv, Writes, Reads
  <2> QED BY <2>5, <2>6
<1>6. CASE DecodeLocation
  <2>1. /\ stage = "read_locations" /\ p <= Len(lines) /\ UNCHANGED <<job, words, stage, lines>>
    BY <1>6 DEF DecodeLocation, MoreLocations, Encoding
  <2>2. ~ job.old /\ EntriesRead
    BY <2>1 DEF LocationsInv
  <2>3. PICK n, at, pos, ln : /\ Located(lines, words, job.firstlineno, n, at, pos, ln)
                             /\ at[n + 1] = Len(words) + 1
                             /\ \E k \in 1 .. n + 1 : p = pos[k] /\ unit = at[k] - 1 /\ lineno = ln[k]
                             /\ ReadBefore
    BY <2>2 DEF EntriesRead
  <2>4. PICK k \in 1 .. n + 1 : p = pos[k] /\ unit = at[k] - 1 /\ lineno = ln[k]
    BY <2>3
  <2>5. n \in Nat /\ pos[n + 1] = Len(lines) + 1 /\ Len(lines) \in Nat
    BY <2>3 DEF Located
  <2>6. k \in 1 .. n /\ k + 1 \in 1 .. n + 1
    BY <2>1, <2>4, <2>5
  <2>7. /\ p' = pos[k + 1] /\ unit' = at[k + 1] - 1 /\ lineno' = ln[k + 1] /\ ReadBefore'
    BY <1>0, <1>6, <2>3, <2>4, <2>6, EntryRead
  <2>8. EntriesRead'
    BY <2>1, <2>3, <2>6, <2>7 DEF EntriesRead
  <2> QED BY <1>a, <2>1, <2>2, <2>8 DEF LocationsInv, Writes, Reads
<1>7. CASE LocationsDone
  <2>1. /\ stage = "read_locations" /\ ~ MoreLocations /\ stage' = "read_entries"
        /\ UNCHANGED <<job, words, locs>>
    BY <1>7 DEF LocationsDone
  <2>2. ~ job.old /\ EntriesRead
    BY <2>1 DEF LocationsInv
  <2>3. PICK n, at, pos, ln : /\ Located(lines, words, job.firstlineno, n, at, pos, ln)
                             /\ at[n + 1] = Len(words) + 1
                             /\ \E k \in 1 .. n + 1 : p = pos[k] /\ unit = at[k] - 1 /\ lineno = ln[k]
                             /\ ReadBefore
    BY <2>2 DEF EntriesRead
  <2>4. PICK k \in 1 .. n + 1 : p = pos[k] /\ unit = at[k] - 1 /\ lineno = ln[k]
    BY <2>3
  <2>5. ASSUME NEW w \in Words, Logical(w) PROVE w <= unit
    <3>1. CASE p <= Len(lines)
      <4>1. ~ (unit < w) /\ w \in Nat
        BY <1>0, <2>1, <2>5, <3>1 DEF MoreLocations
      <4>2. unit \in Int
        BY <2>3, <2>4 DEF Located
      <4> QED BY <4>1, <4>2
    <3>2. CASE ~ (p <= Len(lines))
      <4>1. k = n + 1
        <5>1. k \in 1 .. n => pos[k] <= Len(lines)
          BY <2>3, LocatedAt
        <5>2. n \in Nat
          BY <2>3 DEF Located
        <5> QED BY <2>4, <3>2, <5>1, <5>2
      <4>2. unit = Len(words)
        BY <1>0, <2>3, <2>4, <4>1
      <4> QED BY <1>0, <4>2
    <3> QED BY <3>1, <3>2
  <2>6. AllKept
    BY <1>0, <2>2, <2>3, <2>5, AllRead
  <2> QED BY <1>a, <1>b, <2>1, <2>2, <2>6 DEF LocationsInv, Writes, Reads
<1>8. CASE DecodeRange
  <2>1. /\ stage = "read_ranges" /\ UNCHANGED <<job, words, stage, lines>>
    BY <1>8 DEF DecodeRange, Encoding
  <2>2. job.old /\ RangesRead
    BY <2>1 DEF LocationsInv
  <2>3. PICK line, u, l : /\ Ranged(lines, words, job.firstlineno, Len(words) + 1, line, u, l)
                         /\ PairsRead(u, l)
    BY <2>2 DEF RangesRead
  <2>4. PairsRead(u, l)'
    BY <1>0, <1>8, <2>2, <2>3, PairRead
  <2>5. RangesRead'
    BY <2>1, <2>3, <2>4 DEF RangesRead
  <2> QED BY <1>a, <2>1, <2>2, <2>5 DEF LocationsInv, Writes, Reads
<1>9. CASE ForwardFill
  <2>1. /\ stage = "read_ranges" /\ stage' = "done" /\ UNCHANGED <<job, words>>
    BY <1>9 DEF ForwardFill
  <2>2. job.old /\ RangesRead
    BY <2>1 DEF LocationsInv
  <2>3. AllKept'
    BY <1>0, <1>9, <2>2, FilledForward DEF RangesRead
  <2> QED BY <1>a, <2>1, <2>3 DEF LocationsInv, Writes, Reads
<1>10. CASE DecodeEntry \/ Decoded
  <2>1. /\ stage = "read_entries" /\ stage' \in {"read_entries", "done"}
        /\ UNCHANGED <<job, words, locs>>
    BY <1>10 DEF DecodeEntry, Decoded, Decoding
  <2>2. ~ job.old /\ AllKept
    BY <2>1 DEF LocationsInv
  <2> QED BY <1>a, <1>b, <2>1, <2>2 DEF LocationsInv, Writes, Reads
<1>11. CASE Returned \/ UNCHANGED vars
  <2>1. UNCHANGED vars
    BY <1>11 DEF Returned
  <2>2. UNCHANGED <<job, words, stage, i, cur, lines, p, unit, lineno, locs, mentioned, Decoding>>
    BY <2>1 DEF vars, Decoding
  <2>3. (RangesRead => RangesRead') /\ (EntriesRead => EntriesRead')
    BY <2>2 DEF RangesRead, EntriesRead, ReadBefore, Words, PairsRead, Instrs, InstrAt, Told, WhatIsLeft, Loses
  <2>4. (\E line : AllWritten(line)) => \E line : AllWritten(line)'
    BY <2>2 DEF AllWritten
  <2> QED BY <1>a, <1>b, <1>c, <2>2, <2>3, <2>4 DEF LocationsInv
<1> QED BY <1>1, <1>2, <1>3, <1>4, <1>5, <1>6, <1>7, <1>8, <1>9, <1>10, <1>11 DEF Next

LEMMA LocationsInvHolds == Spec => []LocationsInv
  BY LocationsInit, LocationsStep, PTL DEF Spec

\* Every instruction comes back with the location it had, apart from exactly what
\* Loses names (linetable.cpp:408-413 is one of its cases, where the table could hold
\* more): with either format, any number of instructions, prefixes and CACHE words,
\* and lines and columns of any size the encoders' differences of two can tell.
THEOREM LocationsKeptHolds == Spec => []LocationsKept
<1>1. LocationsInv => LocationsKept
  BY DEF LocationsInv, LocationsKept, AllKept
<1> QED BY <1>1, LocationsInvHolds, PTL

-----------------------------------------------------------------------------
(***************************************************************************)
(* The types, which follow from what the tables hold.                      *)
(***************************************************************************)
LinesAreBytes ==
    IF job.old THEN \A k \in DOMAIN lines : /\ lines[k][1] \in 0 .. SpanMax
                                            /\ lines[k][2] \in NoLine .. DeltaMax
               ELSE \A k \in DOMAIN lines : lines[k] \in 0 .. 255

EntriesAreBytes == \A k \in DOMAIN exctable : exctable[k] \in 0 .. 4 * Group - 1

LEMMA LinesWritten ==
    LocationsInv /\ stage \in {"write_locations", "write_ranges"} => LinesAreBytes
<1> SUFFICES ASSUME LocationsInv, stage \in {"write_locations", "write_ranges"}
             PROVE  LinesAreBytes
  OBVIOUS
<1>1. CASE stage = "write_locations"
  <2>1. ~ job.old /\ LocatedTo(lines, words, job.firstlineno, i, cur)
    BY <1>1 DEF LocationsInv
  <2>2. lines \in Seq(Byte)
    BY <2>1 DEF LocatedTo, Located
  <2>3. \A k \in DOMAIN lines : lines[k] \in Byte
    BY <2>2, ElementOfSeq, LenProperties
  <2> QED BY <2>1, <2>3 DEF LinesAreBytes, Byte
<1>2. CASE stage = "write_ranges"
  <2>1. job.old /\ RangesTo(lines, words, job.firstlineno, i, cur)
    BY <1>2 DEF LocationsInv
  <2>2. lines \in Seq(Pairs)
    BY <2>1 DEF RangesTo, Ranged
  <2>3. \A k \in DOMAIN lines : lines[k] \in Pairs
    BY <2>2, ElementOfSeq, LenProperties
  <2> QED BY <2>1, <2>3 DEF LinesAreBytes, Pairs
<1> QED BY <1>1, <1>2

LEMMA EntriesWritten ==
    EntriesInv /\ stage = "write_entries" => EntriesAreBytes /\ i \in Nat
<1> SUFFICES ASSUME EntriesInv, stage = "write_entries" PROVE EntriesAreBytes /\ i \in Nat
  OBVIOUS
<1>1. PICK pos : Laid(exctable, job.exc, i - 1, pos)
  BY DEF EntriesInv
<1>2. exctable \in Seq(Bytes)
  BY <1>1 DEF Laid
<1>3. \A k \in DOMAIN exctable : exctable[k] \in Bytes
  BY <1>2, ElementOfSeq, LenProperties
<1>4. i \in Nat
  BY DEF EntriesInv
<1> QED BY <1>3, <1>4 DEF EntriesAreBytes, Bytes

LEMMA PositionRead ==
    LocationsInv /\ stage \in {"read_locations", "read_ranges"} =>
           /\ p \in Nat /\ unit \in Nat /\ lineno \in Int
           /\ stage = "read_ranges" => DOMAIN locs = Instrs /\ mentioned \subseteq Instrs
<1> SUFFICES ASSUME LocationsInv, stage \in {"read_locations", "read_ranges"}
             PROVE  /\ p \in Nat /\ unit \in Nat /\ lineno \in Int
                    /\ stage = "read_ranges" => DOMAIN locs = Instrs /\ mentioned \subseteq Instrs
  OBVIOUS
<1>1. CASE stage = "read_locations"
  <2>1. PICK n, at, pos, ln : /\ Located(lines, words, job.firstlineno, n, at, pos, ln)
                             /\ \E k \in 1 .. n + 1 : p = pos[k] /\ unit = at[k] - 1 /\ lineno = ln[k]
    BY <1>1 DEF LocationsInv, EntriesRead
  <2>2. PICK k \in 1 .. n + 1 : p = pos[k] /\ unit = at[k] - 1 /\ lineno = ln[k]
    BY <2>1
  <2>3. p \in Nat /\ at[k] \in Nat \ {0} /\ ln[k] \in 0 .. Limit - 1 /\ Limit \in Nat
    BY <2>1, <2>2, LimitType DEF Located
  <2> QED BY <1>1, <2>2, <2>3
<1>2. CASE stage = "read_ranges"
  <2>1. PICK line, u, l : /\ Ranged(lines, words, job.firstlineno, Len(words) + 1, line, u, l)
                         /\ PairsRead(u, l)
    BY <1>2 DEF LocationsInv, RangesRead
  <2>2. PICK N \in Nat : N = Len(lines)
    BY <2>1 DEF Ranged
  <2>3. /\ p \in 1 .. N + 1 /\ unit = u[p] /\ lineno = l[p]
        /\ u \in [1 .. N + 1 -> Nat] /\ l \in [1 .. N + 1 -> Int]
    BY <2>1, <2>2 DEF Ranged, PairsRead
  <2>4. p \in Nat /\ unit \in Nat /\ lineno \in Int
    BY <2>3
  <2>5. DOMAIN locs = Instrs
    BY <2>1 DEF PairsRead
  <2>6. mentioned \subseteq Instrs
    <3>1. Code
      BY DEF LocationsInv
    <3>2. \A x \in 1 .. p - 1 : x \in 1 .. N
      BY <2>3
    <3>3. \A x \in 1 .. N : WordAt(u[x]) \in Words
      BY <2>1, <2>2, <3>1, CodeIs DEF Ranged, PairIs
    <3>4. \A w \in Words : InstrAt(w) \in Instrs
      BY <3>1, CodeIs DEF InstrAt
    <3> QED BY <2>1, <3>2, <3>3, <3>4 DEF PairsRead
  <2> QED BY <2>4, <2>5, <2>6
<1> QED BY <1>1, <1>2

LEMMA EntryPosition ==
    EntriesInv /\ stage = "read_entries" => p \in Nat
<1> SUFFICES ASSUME EntriesInv, stage = "read_entries" PROVE p \in Nat
  OBVIOUS
<1>1. PICK pos : /\ Laid(exctable, job.exc, Len(job.exc), pos)
                 /\ \E k \in 1 .. Len(job.exc) + 1 : p = pos[k]
  BY DEF EntriesInv
<1> QED BY <1>1 DEF Laid

LEMMA TypesInit == Init => TypeOK
<1> SUFFICES ASSUME Init PROVE TypeOK
  OBVIOUS
<1>1. Code /\ job.firstlineno \in 0 .. Limit - 1 /\ Limit \in Nat
  BY LocationsInit, CodeIs, LimitType DEF LocationsInv
<1>2. DOMAIN lines = {} /\ DOMAIN exctable = {} /\ DOMAIN locs = Instrs
  BY DEF Init
<1> QED BY <1>1, <1>2 DEF Init, TypeOK

LEMMA TypesStep == TypeOK /\ LocationsInv /\ LocationsInv' /\ EntriesInv /\ EntriesInv' /\ [Next]_vars => TypeOK'
<1> SUFFICES ASSUME TypeOK, LocationsInv, LocationsInv', EntriesInv, EntriesInv', [Next]_vars
             PROVE  TypeOK'
  OBVIOUS
<1> DEFINE Position == p \in Nat /\ unit \in Nat /\ lineno \in Int
           Result == DOMAIN locs = Instrs /\ mentioned \subseteq Instrs
           Place == i \in Nat /\ cur \in Nat
<1>1. TypeOK <=> /\ stage \in {"write_locations", "write_ranges", "write_entries", "read_locations",
                               "read_ranges", "read_entries", "done"}
                 /\ Place /\ Position /\ LinesAreBytes /\ EntriesAreBytes /\ Result
  BY DEF TypeOK, LinesAreBytes, EntriesAreBytes
<1>2. TypeOK' <=> /\ stage' \in {"write_locations", "write_ranges", "write_entries", "read_locations",
                                "read_ranges", "read_entries", "done"}
                  /\ Place' /\ Position' /\ LinesAreBytes' /\ EntriesAreBytes' /\ Result'
  BY DEF TypeOK, LinesAreBytes, EntriesAreBytes
<1>3. stage' \in {"write_locations", "write_ranges", "write_entries", "read_locations",
                  "read_ranges", "read_entries", "done"}
  BY DEF LocationsInv, Writes, Reads
<1>a. (LocationsInv /\ stage \in {"write_locations", "write_ranges"} => LinesAreBytes)'
  BY LinesWritten, PTL
<1>b. (EntriesInv /\ stage = "write_entries" => EntriesAreBytes /\ i \in Nat)'
  BY EntriesWritten, PTL
<1>c. (LocationsInv /\ stage \in {"read_locations", "read_ranges"} =>
           /\ p \in Nat /\ unit \in Nat /\ lineno \in Int
           /\ stage = "read_ranges" => DOMAIN locs = Instrs /\ mentioned \subseteq Instrs)'
  BY PositionRead, PTL
<1>d. (EntriesInv /\ stage = "read_entries" => p \in Nat)'
  BY EntryPosition, PTL
<1>4. UNCHANGED <<job, lines>> => (LinesAreBytes => LinesAreBytes')
  BY DEF LinesAreBytes
<1>5. UNCHANGED exctable => (EntriesAreBytes => EntriesAreBytes')
  BY DEF EntriesAreBytes
<1>6. UNCHANGED <<job, locs, mentioned>> => (Result => Result')
  BY DEF Instrs
<1>7. CASE EncodeLocation \/ EncodeRange
  <2>1. /\ stage' \in {"write_locations", "write_ranges"}
        /\ UNCHANGED <<job, exctable, p, unit, lineno, locs, mentioned>>
    BY <1>7 DEF EncodeLocation, EncodeRange, Decoding
  <2>2. LinesAreBytes'
    BY <1>a, <2>1
  <2>3. Place'
    <3>1. CASE EncodeLocation
      <4>1. i' \in 1 .. Len(words') + 1 /\ cur' \in 0 .. Limit - 1
        BY <3>1 DEF EncodeLocation, LocationsInv
      <4> QED BY <4>1, LimitType
    <3>2. CASE EncodeRange
      <4>1. i' \in Breaks(words') \cup {Len(words') + 1} /\ Len(words') \in Nat
        <5>1. Code'
          BY DEF LocationsInv
        <5>2. Len(words') \in Nat
          BY <5>1 DEF Code, WordsFor
        <5> QED BY <3>2, <5>2 DEF EncodeRange, LocationsInv
      <4>2. i' \in Nat
        BY <4>1 DEF Breaks
      <4>3. cur' = IF i \in Breakpoints THEN LineAfterRange(words[i].loc.lineno, cur) ELSE cur
        BY <3>2 DEF EncodeRange
      <4>4. words[i].loc.lineno \in Int
        <5>1. words[i].loc \in Locations
          BY <3>2, CodeIs DEF EncodeRange, LocationsInv
        <5>2. words[i].loc.lineno \in Field /\ Limit \in Nat
          BY <5>1, LocationParts, LimitType
        <5> QED BY <5>2 DEF Field
      <4>5. cur' \in Nat
        BY <1>1, <4>3, <4>4 DEF LineAfterRange
      <4> QED BY <4>2, <4>5
    <3> QED BY <1>7, <3>1, <3>2
  <2> QED BY <1>1, <1>2, <1>3, <1>5, <1>6, <2>1, <2>2, <2>3
<1>8. CASE LinesDone \/ Encoded
  <2>1. /\ i' \in {i, 1}
        /\ UNCHANGED <<job, cur, lines, exctable, p, unit, lineno, locs, mentioned>>
    BY <1>8 DEF LinesDone, Encoded, Encoding, Decoding
  <2> QED BY <1>1, <1>2, <1>3, <1>4, <1>5, <1>6, <2>1
<1>9. CASE EncodeEntry
  <2>1. /\ stage' = "write_entries" /\ UNCHANGED <<job, cur, lines, p, unit, lineno, locs, mentioned>>
    BY <1>9 DEF EncodeEntry, Decoding
  <2>2. EntriesAreBytes' /\ i' \in Nat
    BY <1>b, <2>1
  <2> QED BY <1>1, <1>2, <1>3, <1>4, <1>6, <2>1, <2>2
<1>10. CASE DecodeLocation
  <2>1. /\ stage' = "read_locations" /\ UNCHANGED <<job, i, cur, lines, exctable, mentioned>>
        /\ DOMAIN locs' = Instrs
    BY <1>10 DEF DecodeLocation, Encoding
  <2>2. Position'
    BY <1>c, <2>1
  <2>3. Result'
    BY <1>1, <2>1 DEF Instrs
  <2> QED BY <1>1, <1>2, <1>3, <1>4, <1>5, <2>1, <2>2, <2>3
<1>11. CASE DecodeRange
  <2>1. /\ stage' = "read_ranges" /\ UNCHANGED <<job, i, cur, lines, exctable>>
    BY <1>11 DEF DecodeRange, Encoding
  <2>2. Position' /\ Result'
    BY <1>c, <2>1
  <2> QED BY <1>1, <1>2, <1>3, <1>4, <1>5, <2>1, <2>2
<1>12. CASE LocationsDone \/ Decoded
  <2>1. /\ p' \in {p, 1} /\ UNCHANGED <<job, i, cur, lines, exctable, unit, lineno, locs, mentioned>>
    BY <1>12 DEF LocationsDone, Decoded, Encoding, Decoding
  <2> QED BY <1>1, <1>2, <1>3, <1>4, <1>5, <1>6, <2>1
<1>13. CASE ForwardFill
  <2>1. /\ UNCHANGED <<job, i, cur, lines, exctable, p, unit, lineno, mentioned>>
        /\ DOMAIN locs' = Instrs
    BY <1>13 DEF ForwardFill, Encoding
  <2>2. Result'
    BY <1>1, <2>1 DEF Instrs
  <2> QED BY <1>1, <1>2, <1>3, <1>4, <1>5, <2>1, <2>2
<1>14. CASE DecodeEntry
  <2>1. /\ stage' = "read_entries"
        /\ UNCHANGED <<job, i, cur, lines, exctable, unit, lineno, locs, mentioned>>
    BY <1>14 DEF DecodeEntry, Encoding
  <2>2. p' \in Nat
    BY <1>d, <2>1
  <2> QED BY <1>1, <1>2, <1>3, <1>4, <1>5, <1>6, <2>1, <2>2
<1>15. CASE Returned \/ UNCHANGED vars
  <2>1. UNCHANGED <<job, i, cur, lines, exctable, p, unit, lineno, locs, mentioned>>
    BY <1>15 DEF Returned, vars
  <2> QED BY <1>1, <1>2, <1>3, <1>4, <1>5, <1>6, <2>1
<1> QED BY <1>7, <1>8, <1>9, <1>10, <1>11, <1>12, <1>13, <1>14, <1>15 DEF Next

\* What the encoders write are bytes, whatever the lines, columns, offsets and depths
\* are, and the decoders stay at positions of the tables.
THEOREM TypeCorrect == Spec => []TypeOK
  BY TypesInit, TypesStep, LocationsInvHolds, EntriesInvHolds, PTL DEF Spec

-----------------------------------------------------------------------------
(***************************************************************************)
(* What the interpreter makes of the table.                                *)
(***************************************************************************)
LEMMA EntryMarks ==
    ASSUME NEW t, NEW ws, NEW first, NEW n, NEW at, NEW pos, NEW ln,
           Located(t, ws, first, n, at, pos, ln), NEW k \in 1 .. n
    PROVE  /\ pos[k] < pos[k + 1] /\ at[k] < at[k + 1]
           /\ pos[k] \in 1 .. Len(t) /\ t[pos[k]] >= MSB
           /\ \A x \in pos[k] + 1 .. pos[k + 1] - 1 : ~ (t[x] >= MSB)
           /\ LengthAt(t, pos[k]) = at[k + 1] - at[k]
           /\ Moves(t, pos[k], ws[at[k]].loc, ln[k])
           /\ ln[k + 1] = LineAfter(ws[at[k]].loc, ln[k])
           /\ \A v \in at[k] .. at[k + 1] - 1 : ws[v].loc = ws[at[k]].loc
<1>1. /\ t \in Seq(Byte) /\ Len(t) \in Nat /\ k \in 1 .. n + 1 /\ k + 1 \in 1 .. n + 1
      /\ \A j \in 1 .. n + 1 : pos[j] \in Nat \ {0} /\ at[j] \in Nat \ {0}
      /\ Covers(t, ws, at[k], at[k + 1], pos[k], pos[k + 1], ln[k], ln[k + 1])
  BY DEF Located
<1>2. PICK s : /\ Entry(ws[at[k]].loc, at[k + 1] - at[k], ln[k], s) /\ Holds(t, pos[k], s)
               /\ pos[k + 1] = pos[k] + Len(s)
  BY <1>1 DEF Covers
<1>3. PICK q \in Nat \ {0}, m \in Nat \ {0} :
         q = pos[k] /\ m = Len(s) /\ pos[k + 1] = q + m
  BY <1>1, <1>2 DEF Entry
<1>4. s[1] >= MSB /\ \A o \in 2 .. m : s[o] < MSB /\ s[o] \in Byte
  <2>1. OneMark(s) /\ s \in Seq(Byte)
    BY <1>2 DEF Entry
  <2>2. \A o \in 2 .. m : s[o] \in Byte
    BY <1>3, <2>1, ElementOfSeq
  <2> QED BY <1>3, <2>1, <2>2 DEF OneMark
<1>5. q + m - 1 <= Len(t) /\ \A o \in 1 .. m : t[q + o - 1] = s[o]
  BY <1>2, <1>3 DEF Holds
<1>6. t[q] = s[1] /\ q \in 1 .. Len(t)
  <2>1. 1 \in 1 .. m /\ q + 1 - 1 = q
    OBVIOUS
  <2> QED BY <1>1, <1>5, <2>1
<1>7. ASSUME NEW x \in q + 1 .. q + m - 1 PROVE ~ (t[x] >= MSB)
  <2> PICK o \in 2 .. m : o = x - q + 1 /\ q + o - 1 = x
    OBVIOUS
  <2>1. t[x] = s[o] /\ s[o] < MSB /\ s[o] \in Byte
    BY <1>4, <1>5
  <2> QED BY <2>1 DEF MSB, Byte
<1>8. Says(t, q, ws[at[k]].loc, at[k + 1] - at[k], ln[k], m)
  BY <1>1, <1>2, <1>3 DEF Entry
<1>9. Moves(t, q, ws[at[k]].loc, ln[k]) /\ LengthAt(t, q) = at[k + 1] - at[k]
  BY <1>8 DEF Says
<1>10. /\ at[k] < at[k + 1] /\ ln[k + 1] = LineAfter(ws[at[k]].loc, ln[k])
       /\ \A v \in at[k] .. at[k + 1] - 1 : ws[v].loc = ws[at[k]].loc
  <2>1. at[k + 1] - at[k] \in 1 .. 8 /\ at[k] \in Nat /\ at[k + 1] \in Nat
    BY <1>1 DEF Covers
  <2>2. at[k] < at[k + 1]
    BY <2>1
  <2> QED BY <1>1, <2>2 DEF Covers
<1>11. q < q + m
  OBVIOUS
<1> QED BY <1>3, <1>4, <1>6, <1>7, <1>9, <1>10, <1>11

\* The summands of the interpreter's scan.
Units(t) == [q \in DOMAIN t |-> IF t[q] >= MSB THEN LengthAt(t, q) ELSE 0]
Deltas(t) == [q \in DOMAIN t |-> IF t[q] >= MSB THEN LineDeltaAt(t, q) ELSE 0]

LEMMA EntrySteps ==
    ASSUME NEW t, NEW ws, NEW first, NEW n, NEW at, NEW pos, NEW ln,
           Located(t, ws, first, n, at, pos, ln)
    PROVE  Ascends(at, n) /\ Steps(Units(t), n, pos, at) /\ Steps(Deltas(t), n, pos, ln)
<1>1. /\ t \in Seq(Byte) /\ Len(t) \in Nat /\ n \in Nat /\ pos[1] = 1 /\ pos[n + 1] = Len(t) + 1
      /\ pos \in [1 .. n + 1 -> Nat \ {0}] /\ at \in [1 .. n + 1 -> Nat \ {0}]
      /\ ln \in [1 .. n + 1 -> 0 .. Limit - 1]
  BY DEF Located
<1>2. pos \in [1 .. n + 1 -> Int] /\ at \in [1 .. n + 1 -> Int] /\ ln \in [1 .. n + 1 -> Int]
  BY <1>1, LimitType
<1>3. DOMAIN t = 1 .. Len(t)
  BY <1>1, LenProperties
<1>4. \A k \in 1 .. n : k \in 1 .. n + 1 /\ k + 1 \in 1 .. n + 1
  BY <1>1
<1>5. Ascends(pos, n) /\ Ascends(at, n) /\ \A k \in 1 .. n : pos[k] < pos[k + 1]
  <2>1. ASSUME NEW k \in 1 .. n PROVE pos[k] <= pos[k + 1] /\ at[k] <= at[k + 1] /\ pos[k] < pos[k + 1]
    <3>1. pos[k] < pos[k + 1] /\ at[k] < at[k + 1]
      BY EntryMarks
    <3>2. pos[k] \in Int /\ pos[k + 1] \in Int /\ at[k] \in Int /\ at[k + 1] \in Int
      BY <1>2, <1>4
    <3> QED BY <3>1, <3>2
  <2> QED BY <1>2, <2>1 DEF Ascends
<1>6. ASSUME NEW k \in 1 .. n
      PROVE  Units(t)[pos[k]] = at[k + 1] - at[k] /\ Deltas(t)[pos[k]] = ln[k + 1] - ln[k]
  <2>1. pos[k] \in DOMAIN t /\ t[pos[k]] >= MSB /\ LengthAt(t, pos[k]) = at[k + 1] - at[k]
    BY <1>3, EntryMarks
  <2>2. LineDeltaAt(t, pos[k]) = ln[k + 1] - ln[k]
    <3>1. Moves(t, pos[k], ws[at[k]].loc, ln[k]) /\ ln[k + 1] = LineAfter(ws[at[k]].loc, ln[k])
      BY EntryMarks
    <3>2. ln[k] \in Int /\ LineDeltaAt(t, pos[k]) \in Int /\ ln[k + 1] = ln[k] + LineDeltaAt(t, pos[k])
      BY <1>2, <1>4, <3>1 DEF Moves
    <3> QED BY <3>2
  <2> QED BY <2>1, <2>2 DEF Units, Deltas
<1>7. ASSUME NEW k \in 1 .. n, NEW x \in pos[k] + 1 .. pos[k + 1] - 1
      PROVE  Units(t)[x] = 0 /\ Deltas(t)[x] = 0
  <2>1. ~ (t[x] >= MSB)
    BY EntryMarks
  <2>2. x \in DOMAIN t
    <3>1. k + 1 \in 1 .. n + 1 /\ n + 1 \in k + 1 .. n + 1 /\ pos[k] \in Nat \ {0}
      BY <1>1
    <3>2. pos[k + 1] <= pos[n + 1] /\ pos[k + 1] \in Int
      BY <1>1, <1>2, <1>5, <3>1, AscendsTo
    <3> QED BY <1>1, <1>3, <3>1, <3>2
  <2> QED BY <2>1, <2>2 DEF Units, Deltas
<1> QED BY <1>1, <1>2, <1>5, <1>6, <1>7 DEF Steps

LEMMA UnitsAre ==
    ASSUME NEW n \in Nat, NEW f, NEW pos, NEW val, Steps(f, n, pos, val), NEW k \in 1 .. n
    PROVE  SumTo(f, pos[k] - 1) = val[k] - val[1]
<1>1. /\ Ascends(pos, n) /\ pos[1] = 1 /\ \A j \in 1 .. n : pos[j] < pos[j + 1]
      /\ \A j \in 1 .. n + 1 : pos[j] \in Int /\ val[j] \in Int
  BY DEF Steps, Ascends
<1>2. CASE k = 1
  <2> DEFINE g == [y \in 0 .. 0 |-> 0]
  <2>1. g[0] = 0 /\ \A y \in 1 .. 0 : g[y] = g[y - 1] + f[y]
    OBVIOUS
  <2> HIDE DEF g
  <2>2. SumTo(f, 0) = 0
    BY <2>1, SumIs
  <2>3. pos[k] - 1 = 0 /\ val[1] \in Int
    BY <1>1, <1>2
  <2> QED BY <1>2, <2>2, <2>3
<1>3. CASE k # 1
  <2>1. PICK l \in 1 .. n : l + 1 = k /\ l \in 1 .. n + 1 /\ k \in 1 .. n + 1 /\ 1 \in 1 .. n + 1
    BY <1>3
  <2>2. pos[l] < pos[k] /\ pos[l] \in Int /\ pos[k] \in Int /\ pos[1] <= pos[l]
    BY <1>1, <2>1, AscendsTo
  <2>3. PICK x \in Nat : x = pos[k] - 1 /\ pos[l] <= x /\ x < pos[l + 1]
    BY <1>1, <2>1, <2>2
  <2>4. SumTo(f, x) = val[l + 1] - val[1]
    BY <2>3, StepsSum
  <2> QED BY <2>1, <2>3, <2>4
<1> QED BY <1>2, <1>3

LEMMA InterpreterLineIs ==
    ASSUME NEW t, NEW ws, NEW first, NEW n, NEW at, NEW pos, NEW ln,
           Located(t, ws, first, n, at, pos, ln), NEW w \in Nat \ {0}, w < at[n + 1],
           ws[w].loc.lineno \in Int
    PROVE  InterpreterLine(t, w - 1, first) = LineOf(ws[w])
<1>1. /\ t \in Seq(Byte) /\ Len(t) \in Nat /\ n \in Nat /\ at[1] = 1 /\ pos[1] = 1 /\ ln[1] = first
      /\ pos[n + 1] = Len(t) + 1
      /\ \A j \in 1 .. n + 1 : at[j] \in Nat \ {0} /\ pos[j] \in Nat \ {0} /\ ln[j] \in 0 .. Limit - 1
  BY DEF Located
<1>2. Ascends(at, n) /\ Steps(Units(t), n, pos, at) /\ Steps(Deltas(t), n, pos, ln)
  BY EntrySteps
<1>3. PICK k \in 1 .. n : at[k] <= w /\ w < at[k + 1]
  <2>1. w \in Int /\ at[1] <= w /\ w < at[n + 1]
    BY <1>1
  <2> QED BY <1>1, <1>2, <2>1, StepOf
<1>4. \A j \in 1 .. n : j \in 1 .. n + 1 /\ j + 1 \in 1 .. n + 1 /\ 1 \in 1 .. n + 1
  BY <1>1
<1>5. \A j \in 1 .. n : UnitsBefore(t, pos[j]) = at[j] - 1
  <2>1. \A j \in 1 .. n : SumTo(Units(t), pos[j] - 1) = at[j] - 1
    BY <1>1, <1>2, UnitsAre
  <2> QED BY <2>1 DEF UnitsBefore, Units
<1> DEFINE Hits == {q \in EntryStarts(t) : (w - 1) - UnitsBefore(t, q) \in 0 .. LengthAt(t, q) - 1}
<1>6. \A j \in 1 .. n : pos[j] \in EntryStarts(t)
  BY EntryMarks DEF EntryStarts
<1>7. ASSUME NEW j \in 1 .. n
      PROVE  (w - 1) - UnitsBefore(t, pos[j]) \in 0 .. LengthAt(t, pos[j]) - 1
                <=> at[j] <= w /\ w < at[j + 1]
  <2>1. UnitsBefore(t, pos[j]) = at[j] - 1 /\ LengthAt(t, pos[j]) = at[j + 1] - at[j]
    BY <1>5, EntryMarks
  <2>2. at[j] \in Nat /\ at[j + 1] \in Nat
    BY <1>1, <1>4
  <2> QED BY <2>1, <2>2
<1>8. ASSUME NEW q \in EntryStarts(t) PROVE \E j \in 1 .. n : q = pos[j]
  <2>1. q \in 1 .. Len(t) /\ t[q] >= MSB /\ Ascends(pos, n)
    BY <1>2 DEF EntryStarts, Steps
  <2>2. q \in Int /\ pos[1] <= q /\ q < pos[n + 1]
    BY <1>1, <2>1
  <2>3. PICK j \in 1 .. n : pos[j] <= q /\ q < pos[j + 1]
    BY <1>1, <2>1, <2>2, StepOf
  <2>4. pos[j] \in Nat /\ pos[j + 1] \in Nat
    BY <1>1, <1>4
  <2>5. q = pos[j] \/ q \in pos[j] + 1 .. pos[j + 1] - 1
    BY <2>2, <2>3, <2>4
  <2> QED BY <2>1, <2>5, EntryMarks
<1>9. Hits = {pos[k]}
  <2>1. pos[k] \in Hits
    BY <1>3, <1>6, <1>7
  <2>2. ASSUME NEW q \in Hits PROVE q = pos[k]
    <3>1. PICK j \in 1 .. n : q = pos[j]
      BY <1>8
    <3>2. at[j] <= w /\ w < at[j + 1]
      BY <1>7, <3>1
    <3>3. j = k
      <4>1. w \in Int /\ n \in Nat
        BY <1>1
      <4> QED BY <1>2, <1>3, <3>2, <4>1, OneStep
    <3> QED BY <3>1, <3>3
  <2> HIDE DEF Hits
  <2> QED BY <2>1, <2>2
<1>10. Min({pos[k]}) = pos[k]
  <2>1. {pos[k]} \in SUBSET Int /\ pos[k] \in {pos[k]} /\ pos[k] <= pos[k]
    BY <1>1, <1>4
  <2> QED BY <2>1, MinIs
<1>11. InterpreterLine(t, w - 1, first) =
          IF Hits = {} \/ CodeAt(t, Min(Hits)) = NONE THEN -1
          ELSE first + SumTo(Deltas(t), Min(Hits))
  BY Zenon DEF InterpreterLine, Deltas
<1> HIDE DEF Hits
<1>12. InterpreterLine(t, w - 1, first) =
          IF CodeAt(t, pos[k]) = NONE THEN -1 ELSE first + SumTo(Deltas(t), pos[k])
  BY <1>9, <1>10, <1>11
<1>13. /\ Moves(t, pos[k], ws[at[k]].loc, ln[k]) /\ ln[k + 1] = LineAfter(ws[at[k]].loc, ln[k])
       /\ ws[w].loc = ws[at[k]].loc /\ pos[k] < pos[k + 1]
  <2>1. w \in at[k] .. at[k + 1] - 1
    BY <1>1, <1>3, <1>4
  <2> QED BY <2>1, EntryMarks
<1>14. SumTo(Deltas(t), pos[k]) = ln[k + 1] - first
  <2>1. pos[k] \in Nat /\ pos[k] <= pos[k] /\ pos[k] < pos[k + 1]
    BY <1>1, <1>4, <1>13
  <2> QED BY <1>1, <1>2, <2>1, StepsSum
<1>15. CodeAt(t, pos[k]) = NONE <=> ws[w].loc.lineno < 0
  BY <1>13 DEF Moves
<1>16. ln[k + 1] \in Int /\ first \in Int
  BY <1>1, <1>4, LimitType
<1>17. CASE ws[w].loc.lineno < 0
  BY <1>12, <1>15, <1>17 DEF LineOf
<1>18. CASE ~ (ws[w].loc.lineno < 0)
  <2>1. ln[k + 1] = ws[w].loc.lineno
    BY <1>13, <1>18 DEF LineAfter
  <2>2. InterpreterLine(t, w - 1, first) = ln[k + 1]
    BY <1>12, <1>14, <1>15, <1>16, <1>18
  <2> QED BY <1>18, <2>1, <2>2 DEF LineOf
<1> QED BY <1>17, <1>18

LEMMA PairSums ==
    ASSUME NEW f, NEW n \in Nat, NEW v \in [1 .. n + 1 -> Int],
           \A k \in 1 .. n : f[k] \in Int /\ v[k + 1] = v[k] + f[k]
    PROVE  \A k \in 0 .. n : SumTo(f, k) = v[k + 1] - v[1]
<1> TAKE k \in 0 .. n
<1> DEFINE g == [y \in 0 .. k |-> v[y + 1] - v[1]]
<1>1. \A y \in 0 .. k : g[y] = v[y + 1] - v[1]
  OBVIOUS
<1>2. 1 \in 1 .. n + 1 /\ v[1] \in Int
  OBVIOUS
<1> HIDE DEF g
<1>3. g[0] = 0
  <2>1. 0 \in 0 .. k /\ 0 + 1 = 1
    OBVIOUS
  <2> QED BY <1>1, <1>2, <2>1
<1>4. ASSUME NEW y \in 1 .. k PROVE g[y] = g[y - 1] + f[y]
  <2>1. y \in 0 .. k /\ y - 1 \in 0 .. k /\ (y - 1) + 1 = y /\ y \in 1 .. n /\ y \in 1 .. n + 1
    OBVIOUS
  <2>2. g[y] = v[y + 1] - v[1] /\ g[y - 1] = v[y] - v[1] /\ v[y] \in Int
    BY <1>1, <2>1
  <2>3. f[y] \in Int /\ v[y + 1] = v[y] + f[y]
    BY <2>1
  <2> QED BY <1>2, <2>2, <2>3
<1>5. SumTo(f, k) = g[k]
  <2>1. k \in Nat
    OBVIOUS
  <2> QED BY <1>3, <1>4, <2>1, SumIs
<1>6. k \in 0 .. k
  OBVIOUS
<1> QED BY <1>1, <1>5, <1>6

\* The summands of a scan of pairs.
Spans(t) == [x \in DOMAIN t |-> t[x][1]]
Moved(t) == [x \in DOMAIN t |-> IF t[x][2] = NoLine THEN 0 ELSE t[x][2]]

LEMMA RangeLineIs ==
    ASSUME Code, NEW top \in Nat, top <= Len(words) + 1, NEW line, NEW u, NEW l,
           Ranged(lines, words, job.firstlineno, top, line, u, l), NEW w \in Nat \ {0}, w < top
    PROVE  RangeLine(w) = LineOf(words[w])
<1>1. PICK n \in Nat : n = Len(lines) /\ DOMAIN lines = 1 .. n
  BY LenProperties DEF Ranged
<1>2. /\ u \in [1 .. n + 1 -> Nat] /\ u[1] = 0 /\ u[n + 1] = (top - 1) * 2
      /\ l \in [1 .. n + 1 -> Int] /\ l[1] = job.firstlineno
      /\ \A x \in 1 .. n : PairIs(lines, words, x, u, l)
      /\ \A v \in Breaks(words) : v < top => \E x \in 1 .. n : u[x] = (v - 1) * 2
  BY <1>1 DEF Ranged
<1>3. \A x \in 1 .. n : /\ lines[x][1] \in Nat /\ lines[x][2] \in Int
                        /\ u[x + 1] = u[x] + lines[x][1]
                        /\ l[x + 1] = IF lines[x][2] = NoLine THEN l[x] ELSE l[x] + lines[x][2]
  <2>1. \A x \in 1 .. n : lines[x] \in Pairs
    BY <1>1, ElementOfSeq DEF Ranged
  <2>2. \A y \in Pairs : y[1] \in Nat /\ y[2] \in Int
    BY PairType DEF Pairs, NoLine
  <2>3. \A x \in 1 .. n : /\ u[x + 1] = u[x] + lines[x][1]
                          /\ l[x + 1] = IF lines[x][2] = NoLine THEN l[x] ELSE l[x] + lines[x][2]
    BY <1>2 DEF PairIs
  <2> QED BY <2>1, <2>2, <2>3
<1>4. \A x \in 1 .. n : x \in 1 .. n + 1 /\ x + 1 \in 1 .. n + 1
  OBVIOUS
<1>5. Ascends(u, n)
  <2>1. \A x \in 1 .. n : u[x] <= u[x + 1]
    <3> TAKE x \in 1 .. n
    <3>1. u[x] \in Nat /\ u[x + 1] = u[x] + lines[x][1] /\ lines[x][1] \in Nat
      BY <1>2, <1>3, <1>4
    <3> QED BY <3>1
  <2>2. u \in [1 .. n + 1 -> Int]
    BY <1>2
  <2> QED BY <2>1, <2>2 DEF Ascends
<1>6. \A x \in 0 .. n : SumTo(Spans(lines), x) = u[x + 1]
  <2>1. ASSUME NEW x \in 1 .. n
        PROVE  Spans(lines)[x] \in Int /\ u[x + 1] = u[x] + Spans(lines)[x]
    <3>1. Spans(lines)[x] = lines[x][1]
      BY <1>1 DEF Spans
    <3> QED BY <1>3, <3>1
  <2>2. u \in [1 .. n + 1 -> Int]
    BY <1>2
  <2>3. \A x \in 0 .. n : SumTo(Spans(lines), x) = u[x + 1] - u[1]
    BY <2>1, <2>2, PairSums
  <2>4. \A x \in 0 .. n : u[x + 1] \in Nat
    BY <1>2
  <2> QED BY <1>2, <2>3, <2>4
<1>7. \A x \in 0 .. n : SumTo(Moved(lines), x) = l[x + 1] - job.firstlineno
  <2>1. ASSUME NEW x \in 1 .. n
        PROVE  Moved(lines)[x] \in Int /\ l[x + 1] = l[x] + Moved(lines)[x]
    <3>1. Moved(lines)[x] = IF lines[x][2] = NoLine THEN 0 ELSE lines[x][2]
      BY <1>1 DEF Moved
    <3>2. l[x] \in Int
      BY <1>2, <1>4
    <3> QED BY <1>3, <3>1, <3>2
  <2>2. \A x \in 0 .. n : SumTo(Moved(lines), x) = l[x + 1] - l[1]
    BY <1>2, <2>1, PairSums
  <2> QED BY <1>2, <2>2
<1>8. PICK b \in Nat : b = (w - 1) * 2 /\ b < (top - 1) * 2 /\ WordAt(b) = w
  <2>1. WordAt((w - 1) * 2) = w
    BY WordAtIs
  <2> QED BY <2>1
<1>9. PICK k \in 1 .. n : u[k] <= b /\ b < u[k + 1]
  <2>1. b \in Int /\ u[1] <= b /\ b < u[n + 1]
    BY <1>2, <1>8
  <2> QED BY <1>5, <2>1, StepOf
<1>10. \A x \in 1 .. n : u[x] \in Nat /\ u[x + 1] \in Nat
  BY <1>2, <1>4
<1> DEFINE Hits == {x \in DOMAIN lines :
                          (w - 1) * INSTR_BYTES - SumTo(Spans(lines), x - 1) \in 0 .. lines[x][1] - 1}
<1>11. ASSUME NEW x \in 1 .. n
       PROVE  (w - 1) * INSTR_BYTES - SumTo(Spans(lines), x - 1) \in 0 .. lines[x][1] - 1
                 <=> u[x] <= b /\ b < u[x + 1]
  <2>1. SumTo(Spans(lines), x - 1) = u[x]
    <3>1. x - 1 \in 0 .. n /\ (x - 1) + 1 = x
      OBVIOUS
    <3> QED BY <1>6, <3>1
  <2>2. (w - 1) * INSTR_BYTES = b
    BY <1>8 DEF INSTR_BYTES
  <2>3. u[x] \in Nat /\ lines[x][1] \in Nat /\ u[x + 1] = u[x] + lines[x][1]
    BY <1>3, <1>10
  <2> QED BY <2>1, <2>2, <2>3
<1>12. Hits = {k}
  <2>1. k \in Hits
    BY <1>1, <1>9, <1>11
  <2>2. ASSUME NEW x \in Hits PROVE x = k
    <3>1. x \in 1 .. n /\ u[x] <= b /\ b < u[x + 1]
      BY <1>1, <1>11
    <3> QED BY <1>5, <1>9, <3>1, OneStep
  <2> HIDE DEF Hits
  <2> QED BY <2>1, <2>2
<1>13. Min({k}) = k
  <2>1. {k} \in SUBSET Int /\ k \in {k} /\ k <= k
    OBVIOUS
  <2> QED BY <2>1, MinIs
<1>14. RangeLine(w) = IF Hits = {} \/ lines[Min(Hits)][2] = NoLine THEN -1
                      ELSE job.firstlineno + SumTo(Moved(lines), Min(Hits))
  BY Zenon DEF RangeLine, Spans, Moved
<1> HIDE DEF Hits
<1>15. RangeLine(w) = IF lines[k][2] = NoLine THEN -1 ELSE l[k + 1]
  <2>1. RangeLine(w) = IF lines[k][2] = NoLine THEN -1 ELSE job.firstlineno + SumTo(Moved(lines), k)
    BY <1>12, <1>13, <1>14
  <2>2. k \in 0 .. n /\ l[k + 1] \in Int /\ job.firstlineno \in Int
    <3>1. 1 \in 1 .. n + 1
      OBVIOUS
    <3> QED BY <1>2, <1>4, <3>1
  <2>3. job.firstlineno + SumTo(Moved(lines), k) = l[k + 1]
    BY <1>7, <2>2
  <2> QED BY <2>1, <2>3
<1>16. PICK a \in 1 .. Len(words) : a = WordAt(u[k])
  BY <1>2 DEF PairIs
<1>17. Tells(lines, words, k, u, l)
  <2>1. u[k + 1] # u[k]
    BY <1>9, <1>10
  <2> QED BY <1>2, <2>1 DEF PairIs
<1>18. RangeLine(w) = LineOf(words[a])
  BY <1>15, <1>16, <1>17 DEF Tells
<1>19. a <= w /\ u[k] < a * 2
  <2>1. a = u[k] \div 2 + 1 /\ w = b \div 2 + 1
    BY <1>8, <1>16 DEF WordAt
  <2>2. \A x, y \in Nat : x <= y => x \div 2 <= y \div 2 /\ x < (x \div 2 + 1) * 2
    OBVIOUS
  <2> QED BY <1>9, <1>10, <2>1, <2>2
<1>20. \A v \in a + 1 .. w : v \notin Breaks(words)
  <2> SUFFICES ASSUME NEW v \in a + 1 .. w, v \in Breaks(words) PROVE FALSE
    OBVIOUS
  <2>1. v < top /\ (v - 1) * 2 <= b /\ a * 2 <= (v - 1) * 2 /\ (v - 1) * 2 \in Int
    BY <1>8
  <2>2. PICK x \in 1 .. n : u[x] = (v - 1) * 2
    BY <1>2, <2>1
  <2>3. u[k] < u[x] /\ u[x] < u[k + 1]
    BY <1>9, <1>10, <1>19, <2>1, <2>2
  <2>4. x <= k \/ k + 1 <= x
    OBVIOUS
  <2>5. CASE x <= k
    <3>1. x \in 1 .. n + 1 /\ k \in x .. n + 1
      BY <2>5
    <3>2. u[x] <= u[k]
      BY <1>5, <3>1, AscendsTo
    <3> QED BY <1>10, <2>3, <3>2
  <2>6. CASE k + 1 <= x
    <3>1. k + 1 \in 1 .. n + 1 /\ x \in k + 1 .. n + 1
      BY <2>6
    <3>2. u[k + 1] <= u[x]
      BY <1>5, <3>1, AscendsTo
    <3> QED BY <1>10, <2>3, <3>2
  <2> QED BY <2>4, <2>5, <2>6
<1>21. words[w].loc.lineno = words[a].loc.lineno
  <2>1. Len(words) \in Nat
    BY CodeIs
  <2>2. PICK c \in Nat : c = w + 1 /\ c - 1 <= Len(words) /\ c - 1 = w
    BY <2>1
  <2>3. w \in a .. c - 1
    BY <1>19, <2>2
  <2> QED BY <1>20, <2>1, <2>2, <2>3, SameLine
<1> QED BY <1>18, <1>21 DEF LineOf

\* At every word, prefixes and CACHE words included, the interpreter's scan of the
\* table that encode_linetable() or encode_lnotab() wrote comes to the line of the
\* word's instruction, for code and locations of any size.
THEOREM InterpreterAgreesHolds == Spec => []InterpreterAgrees
<1>1. LocationsInv => InterpreterAgrees
  <2> SUFFICES ASSUME LocationsInv, stage = "write_entries", NEW w \in Words
               PROVE  WordLine(w) = LineOfLoc(words[w].loc)
    BY DEF InterpreterAgrees
  <2>1. /\ Code /\ Len(words) \in Nat /\ w \in Nat \ {0} /\ w < Len(words) + 1
        /\ words[w].loc \in Locations
    BY CodeIs DEF LocationsInv
  <2>2. words[w].loc.lineno \in Int
    BY <2>1, LocationParts, LimitType DEF Field
  <2>3. LineOfLoc(words[w].loc) = LineOf(words[w])
    BY DEF LineOf, LineOfLoc
  <2>4. PICK line : AllWritten(line)
    BY DEF LocationsInv
  <2>5. CASE job.old
    <3>1. PICK u, l : Ranged(lines, words, job.firstlineno, Len(words) + 1, line, u, l)
      BY <2>4, <2>5 DEF AllWritten, RangesTo
    <3>2. PICK top \in Nat : top = Len(words) + 1
      BY <2>1
    <3>3. RangeLine(w) = LineOf(words[w])
      BY <2>1, <3>1, <3>2, RangeLineIs
    <3> QED BY <2>3, <2>5, <3>3 DEF WordLine
  <2>6. CASE ~ job.old
    <3>1. PICK n, at, pos, ln : /\ Located(lines, words, job.firstlineno, n, at, pos, ln)
                               /\ at[n + 1] = Len(words) + 1
      BY <2>4, <2>6 DEF AllWritten, LocatedTo
    <3>2. InterpreterLine(lines, w - 1, job.firstlineno) = LineOf(words[w])
      BY <2>1, <2>2, <3>1, InterpreterLineIs
    <3> QED BY <2>3, <2>6, <3>2 DEF WordLine
  <2> QED BY <2>5, <2>6
<1> QED BY <1>1, LocationsInvHolds, PTL
=============================================================================
