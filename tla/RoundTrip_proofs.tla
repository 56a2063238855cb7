-------------------------- MODULE RoundTrip_proofs --------------------------
(***************************************************************************)
(* Proofs about from_code() and about to_code() after it, for every        *)
(* well-formed code object, every size of a byte and of the caches.        *)
(***************************************************************************)
EXTENDS RoundTrip, FiniteSetTheorems, WellFoundedInduction, TLAPS

LEMMA LeastMember ==
    ASSUME NEW S \in SUBSET Nat, S # {}
    PROVE  \E m \in S : \A k \in S : m <= k
<1>1. PICK m \in S : \A k \in S : <<k, m>> \notin OpToRel(<, Nat)
  BY NatLessThanWellFounded, WFMin
<1>2. \A k \in S : ~ (k < m)
  BY <1>1 DEF OpToRel
<1> QED BY <1>2

\* f lists the members of T from the least.
Lists(f, N, T) ==
    /\ f \in [0 .. N -> Int]
    /\ \A j, k \in 0 .. N : j < k => f[j] < f[k]
    /\ T = {f[j] : j \in 0 .. N}

\* As many members of T lie below the k-th as there are places before it.
LEMMA Counting ==
    ASSUME NEW N \in Nat, NEW f, NEW T, Lists(f, N, T), NEW k \in 0 .. N
    PROVE  Cardinality({r \in T : r < f[k]}) = k
<1> USE DEF Lists
<1> DEFINE B == {r \in T : r < f[k]}
           g == [j \in 0 .. k - 1 |-> f[j]]
<1>1. \A j \in 0 .. N : f[j] < f[k] <=> j < k
  OBVIOUS
<1>2. g \in Bijection(0 .. k - 1, B)
  <2>1. \A j \in 0 .. k - 1 : j \in 0 .. N /\ f[j] \in B
    BY <1>1
  <2>2. \A r \in B : \E j \in 0 .. k - 1 : f[j] = r
    BY <1>1
  <2>3. \A i, j \in 0 .. k - 1 : f[i] = f[j] => i = j
    OBVIOUS
  <2> HIDE DEF B
  <2>4. g \in [0 .. k - 1 -> B]
    BY <2>1
  <2> QED BY <2>2, <2>3, <2>4 DEF Bijection, Injection, Surjection, IsInjective
<1>3. ExistsBijection(0 .. k - 1, B)
  BY <1>2 DEF ExistsBijection
<1> HIDE DEF B
<1>4. IsFiniteSet(0 .. k - 1) /\ Cardinality(0 .. k - 1) = k
  <2>1. 0 \in Int /\ k - 1 \in Int /\ (0 > k - 1 => k = 0)
    OBVIOUS
  <2>2. /\ IsFiniteSet(0 .. k - 1)
        /\ Cardinality(0 .. k - 1) = IF 0 > k - 1 THEN 0 ELSE k - 1 - 0 + 1
    BY <2>1, FS_Interval, Zenon
  <2>3. (IF 0 > k - 1 THEN 0 ELSE k - 1 - 0 + 1) = k
    OBVIOUS
  <2> QED BY <2>2, <2>3
<1>5. Cardinality(B) = k
  BY <1>3, <1>4, FS_Bijection
<1> QED BY <1>5 DEF B

LEMMA CapacityFacts ==
    /\ Capacity \in [0 .. 3 -> Nat \ {0}]
    /\ Capacity[0] = Base /\ \A e \in 0 .. 2 : Capacity[e + 1] = Base * Capacity[e]
    /\ Capacity[0] < Capacity[1] /\ Capacity[1] < Capacity[2] /\ Capacity[2] < Capacity[3]
<1>1. Base \in Nat /\ Base > 1
  BY OpAssumption
<1>2. ASSUME NEW x \in Nat, x > 0 PROVE x * Base \in Nat /\ x * Base > x
  BY <1>1, <1>2
<1>3. /\ Base * Base \in Nat /\ Base * Base > Base
      /\ Base * Base * Base \in Nat /\ Base * Base * Base > Base * Base
      /\ Base * Base * Base * Base \in Nat /\ Base * Base * Base * Base > Base * Base * Base
  BY <1>1, <1>2
<1>4. \A x \in Nat : x * Base = Base * x
  BY <1>1
<1> DEFINE B2 == Base * Base
           B3 == Base * Base * Base
           B4 == Base * Base * Base * Base
<1>5. B3 = Base * B2 /\ B4 = Base * B3
  BY <1>1, <1>3, <1>4
<1>6. /\ Capacity[0] = Base /\ Capacity[1] = B2 /\ Capacity[2] = B3 /\ Capacity[3] = B4
      /\ Capacity = [e \in 0 .. 3 |-> IF e = 0 THEN Base ELSE IF e = 1 THEN B2
                                      ELSE IF e = 2 THEN B3 ELSE B4]
  BY DEF Capacity
<1>7. B2 \in Nat /\ B3 \in Nat /\ B4 \in Nat /\ Base < B2 /\ B2 < B3 /\ B3 < B4 /\ B2 = Base * Base
  BY <1>3
<1> HIDE DEF B2, B3, B4
<1>8. Capacity \in [0 .. 3 -> Nat \ {0}]
  BY <1>1, <1>6, <1>7
<1>9. \A e \in 0 .. 2 : e = 0 \/ e = 1 \/ e = 2
  OBVIOUS
<1>10. \A e \in 0 .. 2 : Capacity[e + 1] = Base * Capacity[e]
  BY <1>5, <1>6, <1>7, <1>9
<1> QED BY <1>1, <1>6, <1>7, <1>8, <1>10

-----------------------------------------------------------------------------
(***************************************************************************)
(* The words of a code object.                                             *)
(***************************************************************************)
LEMMA WordFacts ==
    ASSUME NEW c, IsCodeObject(c)
    PROVE  /\ Size(c) \in Nat
           /\ \A i \in 0 .. Size(c) - 1 : /\ OpAt(c, i) \in Op
                                          /\ ByteAt(c, i) \in 0 .. Base - 1
                                          /\ c.words[i + 1] = <<OpAt(c, i), ByteAt(c, i)>>
           /\ OpWords(c) \subseteq 0 .. Size(c) - 1
<1> DEFINE W == Op \X (0 .. Base - 1)
<1>1. c.words \in Seq(W)
  BY DEF IsCodeObject
<1> HIDE DEF W
<1>2. Len(c.words) \in Nat /\ \A i \in 1 .. Len(c.words) : c.words[i] \in W
  BY <1>1
<1>3. \A i \in 0 .. Len(c.words) - 1 : c.words[i + 1] \in W
  BY <1>2
<1> QED BY <1>2, <1>3 DEF Size, OpAt, ByteAt, OpWords, W

\* An instruction has one start.
LEMMA StartOfIs ==
    ASSUME NEW c, NEW i \in Nat, NEW s \in 0 .. i, StartsAt(c, s, i)
    PROVE  StartOf(c, i) = s
<1>1. ASSUME NEW t \in 0 .. i, StartsAt(c, t, i) PROVE t = s
  <2>1. s < t => FALSE
    <3>1. s < t => t - 1 \in s .. i - 1
      OBVIOUS
    <3> QED BY <1>1, <3>1 DEF StartsAt
  <2>2. t < s => FALSE
    <3>1. t < s => s - 1 \in t .. i - 1
      OBVIOUS
    <3> QED BY <1>1, <3>1 DEF StartsAt
  <2> QED BY <2>1, <2>2
<1> QED BY <1>1 DEF StartOf

\* The argument that the bytes from s to i make, for three prefixes at most.
Folded(c, s, i) ==
    IF i = s THEN ByteAt(c, i)
    ELSE IF i = s + 1 THEN ByteAt(c, i) + Base * ByteAt(c, s)
    ELSE IF i = s + 2
    THEN ByteAt(c, i) + Base * (ByteAt(c, s + 1) + Base * ByteAt(c, s))
    ELSE ByteAt(c, i) + Base * (ByteAt(c, s + 2)
                                  + Base * (ByteAt(c, s + 1) + Base * ByteAt(c, s)))

LEMMA FoldedStep ==
    ASSUME NEW c, NEW s \in Nat, NEW i \in Nat, s <= i, i < s + 3
    PROVE  Folded(c, s, i + 1) = ByteAt(c, i + 1) + Base * Folded(c, s, i)
<1>1. i = s \/ i = s + 1 \/ i = s + 2
  OBVIOUS
<1>2. s # s + 1 /\ s + 1 # s + 2 /\ s # s + 2 /\ s # s + 3 /\ s + 1 # s + 3 /\ s + 2 # s + 3
      /\ s + 1 + 1 = s + 2 /\ s + 2 + 1 = s + 3
  OBVIOUS
<1>3. CASE i = s
  BY <1>2, <1>3, Zenon DEF Folded
<1>4. CASE i = s + 1
  BY <1>2, <1>4, Zenon DEF Folded
<1>5. CASE i = s + 2
  BY <1>2, <1>5, Zenon DEF Folded
<1> QED BY <1>1, <1>3, <1>4, <1>5

\* A byte and a higher part.
LEMMA DigitBound ==
    ASSUME NEW b \in 0 .. Base - 1, NEW e \in 0 .. 2, NEW x \in 0 .. Capacity[e] - 1
    PROVE  /\ b + Base * x \in 0 .. Capacity[e + 1] - 1
           /\ x > 0 => b + Base * x > 0
           /\ Base * x \in 0 .. Capacity[e + 1] - 1
           /\ Base * x \in Nat /\ x > 0 => Base * x > 0
<1>1. Base \in Nat /\ Base > 1 /\ Capacity[e] \in Nat /\ Capacity[e + 1] = Base * Capacity[e]
  BY CapacityFacts, OpAssumption
<1> DEFINE C == Capacity[e]
<1>2. x + 1 <= C /\ x \in Nat /\ C \in Nat
  BY <1>1
<1> HIDE DEF C
<1>3. Base * (x + 1) <= Base * C
  BY <1>1, <1>2
<1>4. Base * (x + 1) = Base * x + Base /\ Base * x \in Nat
  BY <1>1, <1>2
<1>5. x > 0 => Base * x >= Base
  BY <1>1, <1>2
<1>6. Base * C \in Nat /\ Base * x + Base <= Base * C
  BY <1>1, <1>2, <1>3, <1>4
<1> DEFINE Y == Base * x
           Z == Base * C
<1>7. Y \in Nat /\ Z \in Nat /\ Y + Base <= Z /\ Capacity[e + 1] = Z /\ (x > 0 => Y >= Base)
  BY <1>1, <1>4, <1>5, <1>6 DEF C
<1> HIDE DEF Y, Z
<1>8. b + Y \in 0 .. Capacity[e + 1] - 1 /\ Y \in 0 .. Capacity[e + 1] - 1 /\ (x > 0 => b + Y > 0) /\ (x > 0 => Y > 0)
  BY <1>1, <1>7
<1> QED BY <1>7, <1>8 DEF Y

LEMMA FoldedBound ==
    ASSUME NEW c, IsCodeObject(c), NEW s \in Nat, NEW i \in Nat, s <= i, i <= s + 3,
           i < Size(c)
    PROVE  /\ Folded(c, s, i) \in 0 .. Capacity[i - s] - 1
           /\ Folded(c, s, i) \in Nat
           /\ ByteAt(c, s) # 0 => Folded(c, s, i) > 0
<1>0. \A j \in s .. i : ByteAt(c, j) \in 0 .. Base - 1
  BY WordFacts
<1> DEFINE Good(e) == /\ Folded(c, s, s + e) \in 0 .. Capacity[e] - 1
                      /\ ByteAt(c, s) # 0 => Folded(c, s, s + e) > 0
<1>1. Good(0)
  <2>1. Folded(c, s, s + 0) = ByteAt(c, s) /\ ByteAt(c, s) \in 0 .. Base - 1
    BY <1>0 DEF Folded
  <2> QED BY <2>1, CapacityFacts, OpAssumption
<1>2. ASSUME NEW e \in 0 .. 2, Good(e), s + e + 1 <= i PROVE Good(e + 1)
  <2>1. Folded(c, s, s + e + 1) = ByteAt(c, s + e + 1) + Base * Folded(c, s, s + e)
    BY FoldedStep
  <2>2. ByteAt(c, s + e + 1) \in 0 .. Base - 1
    BY <1>0, <1>2
  <2>3. s + (e + 1) = s + e + 1
    OBVIOUS
  <2> QED BY <1>2, <2>1, <2>2, <2>3, DigitBound
<1> HIDE DEF Good
<1>3. i = s + 0 \/ i = s + 1 \/ i = s + 2 \/ i = s + 3
  OBVIOUS
<1>4. (s + 1 <= i => Good(1)) /\ (s + 2 <= i => Good(2)) /\ (s + 3 <= i => Good(3))
  <2>1. s + 1 <= i => Good(1)
    BY <1>1, <1>2
  <2>2. s + 2 <= i => Good(2)
    BY <2>1, <1>2
  <2>3. s + 3 <= i => Good(3)
    BY <2>2, <1>2
  <2> QED BY <2>1, <2>2, <2>3
<1>5. Good(i - s) /\ i - s \in 0 .. 3 /\ s + (i - s) = i
  BY <1>1, <1>3, <1>4
<1>6. Capacity[i - s] \in Nat
  BY <1>5, CapacityFacts
<1> QED BY <1>5, <1>6 DEF Good

\* A chain of prefixes has three at most.
LEMMA ChainBound ==
    ASSUME NEW c, WellFormed(c), NEW s \in Nat, NEW i \in Nat, s <= i,
           \A j \in s .. i - 1 : IsPrefixWord(c, j)
    PROVE  i <= s + 3
<1> SUFFICES ASSUME i > s + 3 PROVE FALSE
  OBVIOUS
<1>1. IsPrefixWord(c, s) /\ s \in 0 .. Size(c) - 1
  BY DEF IsPrefixWord
<1>2. PICK j \in s + 1 .. s + 3 : ~ IsPrefixWord(c, j)
  BY <1>1 DEF WellFormed
<1> QED BY <1>2

LEMMA LongestChain ==
    ASSUME NEW c, IsCodeObject(c), WellFormed(c), NEW s \in Nat, NEW i \in Nat, s <= i,
           \A j \in s .. i : IsPrefixWord(c, j)
    PROVE  i < s + 3 /\ i < Size(c)
<1>1. IsPrefixWord(c, s) /\ s \in 0 .. Size(c) - 1 /\ IsPrefixWord(c, i) /\ Size(c) \in Nat
  BY WordFacts DEF IsPrefixWord
<1>2. i < Size(c)
  BY <1>1 DEF IsPrefixWord
<1>3. PICK j \in s + 1 .. s + 3 : ~ IsPrefixWord(c, j)
  BY <1>1 DEF WellFormed
<1>4. ~ (j <= i)
  BY <1>3
<1> QED BY <1>2, <1>3, <1>4

LEMMA ArgAtIs ==
    ASSUME NEW c, IsCodeObject(c), WellFormed(c), NEW i \in OpWords(c), NEW s \in 0 .. i,
           StartsAt(c, s, i)
    PROVE  ArgAt(c, i) = Folded(c, s, i)
<1>1. StartOf(c, i) = s /\ i \in Nat /\ s \in Nat /\ i < Size(c)
  BY StartOfIs, WordFacts
<1>2. i <= s + 3
  BY <1>1, ChainBound DEF StartsAt
<1> DEFINE P(v) == v = [j \in s .. i |-> ByteAt(c, j) + IF j = s THEN 0 ELSE Base * v[j - 1]]
           w == [j \in s .. i |-> Folded(c, s, j)]
<1>3. \A j \in s .. i : ByteAt(c, j) \in Int
  BY <1>1, WordFacts
<1>4. P(w)
  <2>1. ASSUME NEW j \in s .. i
        PROVE  Folded(c, s, j) = ByteAt(c, j) + IF j = s THEN 0 ELSE Base * w[j - 1]
    <3>1. CASE j = s
      BY <1>3, <3>1 DEF Folded
    <3>2. CASE j # s
      <4>1. j - 1 \in Nat /\ s <= j - 1 /\ j - 1 < s + 3 /\ j - 1 \in s .. i
        BY <1>1, <1>2, <3>2
      <4>2. Folded(c, s, j - 1 + 1) = ByteAt(c, j - 1 + 1) + Base * Folded(c, s, j - 1)
        BY <1>1, <4>1, FoldedStep
      <4>3. j - 1 + 1 = j /\ w[j - 1] = Folded(c, s, j - 1)
        BY <1>1, <4>1
      <4> QED BY <3>2, <4>2, <4>3
    <3> QED BY <3>1, <3>2
  <2> QED BY <2>1
<1>5. \A v : P(v) => v[i] = Folded(c, s, i)
  <2> TAKE v
  <2> HAVE P(v)
  <2>1. \A j \in s .. i : v[j] = ByteAt(c, j) + IF j = s THEN 0 ELSE Base * v[j - 1]
    OBVIOUS
  <2>2. v[s] = Folded(c, s, s)
    BY <1>1, <1>3, <2>1 DEF Folded
  <2>3. ASSUME NEW j \in s .. i - 1, v[j] = Folded(c, s, j)
        PROVE  v[j + 1] = Folded(c, s, j + 1)
    <3>1. j + 1 \in s .. i /\ j + 1 # s /\ j + 1 - 1 = j /\ j \in Nat /\ s <= j /\ j < s + 3
      BY <1>1, <1>2
    <3>2. v[j + 1] = ByteAt(c, j + 1) + Base * v[j]
      BY <2>1, <3>1
    <3> QED BY <1>1, <2>3, <3>1, <3>2, FoldedStep
  <2> HIDE DEF P
  <2>4. s + 1 <= i => v[s + 1] = Folded(c, s, s + 1)
    BY <1>1, <2>2, <2>3
  <2>5. s + 2 <= i => v[s + 2] = Folded(c, s, s + 2)
    <3>1. s + 2 <= i => s + 1 \in s .. i - 1 /\ s + 1 + 1 = s + 2
      BY <1>1
    <3> QED BY <1>1, <2>3, <2>4, <3>1
  <2>6. s + 3 <= i => v[s + 3] = Folded(c, s, s + 3)
    <3>1. s + 3 <= i => s + 2 \in s .. i - 1 /\ s + 2 + 1 = s + 3
      BY <1>1
    <3> QED BY <1>1, <2>3, <2>5, <3>1
  <2>7. i = s \/ i = s + 1 \/ i = s + 2 \/ i = s + 3
    BY <1>1, <1>2
  <2> QED BY <2>2, <2>4, <2>5, <2>6, <2>7
<1>6. ArgAt(c, i) = (CHOOSE v : P(v))[i]
  BY <1>1 DEF ArgAt
<1> HIDE DEF P
<1>7. \E v : P(v)
  BY <1>4
<1> QED BY <1>5, <1>6, <1>7

-----------------------------------------------------------------------------
(***************************************************************************)
(* The words taken apart.  Instruction k (from 1) was found at the op word *)
(* OpPos(k); idx_to_off says where its prefixes start.                     *)
(***************************************************************************)
OpPos(k) == idx_to_nextoff[k] - 1 - CacheSize[instrs[k].op]
Scanned == IF stage = "scan" THEN at ELSE nwords

Pending ==
    IF stage = "scan" /\ IsPrefixWord(co, at - 1)
    THEN /\ ext_start \in 0 .. at - 1 /\ StartsAt(co, ext_start, at)
         /\ extended_arg = Base * Folded(co, ext_start, at - 1) /\ extended_arg > 0
    ELSE extended_arg = 0

Found(k) ==
    /\ OpPos(k) \in OpWords(co) /\ OpPos(k) < Scanned
    /\ instrs[k].op = OpAt(co, OpPos(k))
    /\ idx_to_off[k] \in 0 .. OpPos(k) /\ StartsAt(co, idx_to_off[k], OpPos(k))

\* The jumps that already name a label.
Labelled(k) ==
    /\ IsJumpOp(instrs[k].op)
    /\ stage \in {"table", "decoded"} \/ (stage = "jumps" /\ k <= at)

ArgRight(k) ==
    IF Labelled(k)
    THEN /\ TargetAt(co, OpPos(k)) \in DOMAIN offset_to_label
         /\ instrs[k].arg = offset_to_label[TargetAt(co, OpPos(k))]
    ELSE instrs[k].arg = Folded(co, idx_to_off[k], OpPos(k))

Shape ==
    /\ co \in CodeObjects
    /\ stage \in {"scan", "jumps", "table", "decoded"}
    /\ at \in 0 .. CASE stage = "scan" -> nwords
                     [] stage = "jumps" -> Count
                     [] OTHER -> Len(co.table)
    /\ ext_start \in 0 .. nwords
    /\ instrs \in Seq([op : Op, arg : Nat])
    /\ idx_to_off \in Seq(Int) /\ Len(idx_to_off) = Count
    /\ idx_to_nextoff \in Seq(Int) /\ Len(idx_to_nextoff) = Count
    /\ Count <= Scanned

Parsed ==
    /\ \A k \in 1 .. Count : Found(k)
    /\ \A k, m \in 1 .. Count : k < m => OpPos(k) < idx_to_off[m]
    /\ \A i \in OpWords(co) : i < Scanned => \E k \in 1 .. Count : OpPos(k) = i

-----------------------------------------------------------------------------
(***************************************************************************)
(* The labels: each map gives different offsets different ones, no label   *)
(* is in both, and a label is attached where its offset is.                *)
(***************************************************************************)
IsLabelMap(f, S, m) ==
    /\ f = [x \in DOMAIN f |-> f[x]]
    /\ DOMAIN f \subseteq S
    /\ \A x \in DOMAIN f : f[x] \in 0 .. m - 1
    /\ \A x, y \in DOMAIN f : f[x] = f[y] => x = y

Apart(f, g) == \A x \in DOMAIN f, y \in DOMAIN g : f[x] # g[y]

Named(f, l, p) == \E x \in DOMAIN f : f[x] = l /\ p \in PlacesAt(x)

LabelMaps ==
    /\ next_label_id \in Nat
    /\ IsLabelMap(offset_to_label, Starts(co), next_label_id)
    /\ IsLabelMap(off_to_label, Starts(co), next_label_id)
    /\ Apart(offset_to_label, off_to_label)
    /\ stage = "scan" => DOMAIN offset_to_label = {}
    /\ stage \in {"scan", "jumps"} => DOMAIN off_to_label = {}

LabelsRight ==
    /\ stage = "scan" => labels = <<>>
    /\ stage # "scan" =>
          /\ DOMAIN labels = Places
          /\ \A p \in Places :
                labels[p] = {l \in 0 .. next_label_id - 1 :
                               Named(offset_to_label, l, p)
                                 \/ (stage = "decoded" /\ Named(off_to_label, l, p))}

EntryRight(e) ==
    /\ {co.table[e].start, co.table[e].stop, co.table[e].handler} \subseteq DOMAIN off_to_label
    /\ exc_labeled[e].start_lbl = off_to_label[co.table[e].start]
    /\ exc_labeled[e].stop_lbl = off_to_label[co.table[e].stop]
    /\ exc_labeled[e].handler_lbl = off_to_label[co.table[e].handler]

Entries == [start_lbl : Nat, stop_lbl : Nat, handler_lbl : Nat]

EntriesRight ==
    /\ exc_labeled \in Seq(Entries)
    /\ Len(exc_labeled) = CASE stage \in {"scan", "jumps"} -> 0
                            [] stage = "table" -> at
                            [] OTHER -> Len(co.table)
    /\ \A e \in 1 .. Len(exc_labeled) : EntryRight(e)

DecodeInv ==
    /\ Shape /\ Pending /\ Parsed /\ \A k \in 1 .. Count : ArgRight(k)
    /\ LabelMaps /\ LabelsRight /\ EntriesRight

LEMMA CodeFacts ==
    ASSUME co \in CodeObjects
    PROVE  /\ IsCodeObject(co) /\ WellFormed(co)
           /\ nwords = Size(co) /\ nwords \in Nat
           /\ at \in 0 .. nwords - 1 => /\ word[1] = OpAt(co, at) /\ word[1] \in Op
                                        /\ word[2] = ByteAt(co, at)
                                        /\ word[2] \in 0 .. Base - 1 /\ word[2] \in Nat
<1>1. IsCodeObject(co) /\ WellFormed(co)
  BY CodeAssumption, WellFormedAssumption
<1>2. nwords = Size(co) /\ nwords \in Nat
  BY <1>1, WordFacts DEF nwords, Size
<1>3. at \in 0 .. nwords - 1 => word[1] = OpAt(co, at) /\ word[2] = ByteAt(co, at)
  BY DEF word, OpAt, ByteAt
<1> QED BY <1>1, <1>2, <1>3, WordFacts, OpAssumption

LEMMA AppendFacts ==
    ASSUME NEW S, NEW q \in Seq(S), NEW e \in S
    PROVE  /\ Append(q, e) \in Seq(S) /\ Len(q) \in Nat /\ Len(Append(q, e)) = Len(q) + 1
           /\ \A k \in 1 .. Len(q) : Append(q, e)[k] = q[k]
           /\ Append(q, e)[Len(q) + 1] = e
OBVIOUS

LEMMA DecodeInit == Init => DecodeInv
<1> SUFFICES ASSUME Init PROVE DecodeInv
  OBVIOUS
<1>1. co \in CodeObjects /\ nwords \in Nat
  BY CodeFacts DEF Init
<1>2. Count = 0 /\ Len(exc_labeled) = 0
  BY DEF Init, Count
<1>3. Shape
  <2>1. <<>> \in Seq([op : Op, arg : Nat]) /\ <<>> \in Seq(Int)
    OBVIOUS
  <2> QED BY <1>1, <1>2, <2>1 DEF Init, Shape, Scanned
<1>4. Pending
  BY DEF Init, Pending, IsPrefixWord
<1>5. Parsed
  <2>1. \A i \in OpWords(co) : ~ (i < 0)
    BY <1>1, CodeFacts, WordFacts
  <2> QED BY <1>2, <2>1 DEF Init, Parsed, Scanned
<1>6. LabelMaps
  <2>1. DOMAIN offset_to_label = {} /\ DOMAIN off_to_label = {}
    BY DEF Init
  <2>2. <<>> = [x \in DOMAIN <<>> |-> <<>>[x]]
    OBVIOUS
  <2> QED BY <2>1, <2>2 DEF Init, LabelMaps, IsLabelMap, Apart
<1>7. LabelsRight /\ EntriesRight
  BY <1>2 DEF Init, LabelsRight, EntriesRight
<1> QED BY <1>2, <1>3, <1>4, <1>5, <1>6, <1>7 DEF DecodeInv

\* While words are read no label exists.
LEMMA ScanKeepsLabels ==
    ASSUME LabelMaps, LabelsRight, EntriesRight, stage = "scan", stage' = "scan",
           UNCHANGED <<co, offset_to_label, off_to_label, labels, next_label_id, exc_labeled>>
    PROVE  LabelMaps' /\ LabelsRight' /\ EntriesRight'
<1>1. LabelMaps'
  BY DEF LabelMaps
<1>2. LabelsRight'
  BY DEF LabelsRight
<1>3. EntriesRight'
  BY DEF EntriesRight, EntryRight
<1> QED BY <1>1, <1>2, <1>3

LEMMA SkipKeeps == ASSUME DecodeInv, SkipCache PROVE DecodeInv'
<1>1. /\ stage = "scan" /\ stage' = "scan" /\ at' = at + 1 /\ at \in 0 .. nwords - 1
      /\ co' = co /\ co \in CodeObjects /\ nwords' = nwords /\ nwords \in Nat
      /\ UNCHANGED <<instrs, idx_to_off, idx_to_nextoff, offset_to_label, extended_arg>>
  BY CodeFacts DEF SkipCache, Scanning, DecodeInv, Shape, nwords
<1>2. OpAt(co, at) = CACHE /\ extended_arg = 0
  BY <1>1, CodeFacts DEF SkipCache
<1>3. Count' = Count /\ \A k : OpPos(k)' = OpPos(k)
  BY <1>1 DEF Count, OpPos
<1>4. Scanned = at /\ Scanned' = at + 1
  BY <1>1 DEF Scanned
<1>5. Shape'
  <2>1. at + 1 \in 0 .. nwords /\ Count \in Nat /\ Count <= at + 1
    BY <1>1, <1>4 DEF DecodeInv, Shape, Count
  <2>2. ext_start' \in 0 .. nwords' /\ at' \in 0 .. nwords' /\ Count' <= Scanned'
    BY <1>1, <1>3, <1>4, <2>1 DEF SkipCache, DecodeInv, Shape
  <2> QED BY <1>1, <1>3, <2>2 DEF SkipCache, DecodeInv, Shape
<1>6. Pending'
  <2>1. ~ IsPrefixWord(co, at + 1 - 1)
    <3>1. at + 1 - 1 = at
      BY <1>1
    <3> QED BY <1>2, <3>1, OpAssumption DEF IsPrefixWord
  <2> QED BY <1>1, <1>2, <2>1 DEF Pending
<1>7. Parsed'
  <2>1. at \notin OpWords(co) /\ \A i \in OpWords(co) : i \in Nat
    BY <1>1, <1>2, WordFacts, CodeFacts DEF OpWords
  <2>3. \A i \in OpWords(co) : i < at + 1 <=> i < at
    BY <1>1, <2>1
  <2>2. \A k \in 1 .. Count : Found(k)'
    BY <1>1, <1>3, <1>4, <2>3 DEF DecodeInv, Parsed, Found
  <2> QED BY <1>1, <1>3, <1>4, <2>2, <2>3 DEF DecodeInv, Parsed
<1>8. \A k \in 1 .. Count : ArgRight(k)'
  BY <1>1, <1>3 DEF DecodeInv, ArgRight, Labelled
<1>9. LabelMaps' /\ LabelsRight' /\ EntriesRight'
  BY <1>1, ScanKeepsLabels DEF DecodeInv, SkipCache
<1> QED BY <1>3, <1>5, <1>6, <1>7, <1>8, <1>9 DEF DecodeInv

LEMMA StartsAtNext ==
    ASSUME NEW c, NEW s \in Nat, NEW i \in Nat, s <= i
    PROVE  /\ (/\ s < i => StartsAt(c, s, i)
               /\ s = i => ~ IsPrefixWord(c, i - 1)
               /\ IsPrefixWord(c, i)) => StartsAt(c, s, i + 1)
           /\ StartsAt(c, s, i + 1) => /\ \A j \in s .. i : IsPrefixWord(c, j)
                                       /\ ~ IsPrefixWord(c, s - 1)
<1>1. s .. i + 1 - 1 = s .. i /\ \A j \in s .. i : j = i \/ j \in s .. i - 1
  OBVIOUS
<1>2. s = i => \A j \in s .. i : j = i
  OBVIOUS
<1>3. ASSUME s < i => StartsAt(c, s, i), s = i => ~ IsPrefixWord(c, i - 1), IsPrefixWord(c, i)
      PROVE  StartsAt(c, s, i + 1)
  <2>1. CASE s < i
    BY <1>1, <1>3, <2>1 DEF StartsAt
  <2>2. CASE s = i
    <3>1. ~ IsPrefixWord(c, s - 1)
      BY <1>3, <2>2
    <3>2. \A j \in s .. i : IsPrefixWord(c, j)
      BY <1>2, <1>3, <2>2
    <3> QED BY <1>1, <3>1, <3>2, SMT DEF StartsAt
  <2> QED BY <2>1, <2>2
<1>4. ASSUME StartsAt(c, s, i + 1)
      PROVE  (\A j \in s .. i : IsPrefixWord(c, j)) /\ ~ IsPrefixWord(c, s - 1)
  BY <1>1, <1>4, SMT DEF StartsAt
<1> QED BY <1>3, <1>4

\* The chain of prefixes before the word at hand, if there is one.
LEMMA ChainSoFar ==
    ASSUME DecodeInv, stage = "scan", IsPrefixWord(co, at - 1)
    PROVE  /\ ext_start \in Nat /\ at \in Nat /\ ext_start <= at - 1 /\ at <= ext_start + 3
           /\ at - 1 < Size(co) /\ at - 1 \in Nat
           /\ StartsAt(co, ext_start, at)
           /\ Folded(co, ext_start, at - 1) \in 0 .. Capacity[at - 1 - ext_start] - 1
           /\ Folded(co, ext_start, at - 1) \in Nat
           /\ extended_arg = Base * Folded(co, ext_start, at - 1) /\ extended_arg > 0
           /\ extended_arg \in 0 .. Capacity[3] - 1
<1>1. co \in CodeObjects /\ IsCodeObject(co) /\ WellFormed(co) /\ at \in 0 .. nwords
      /\ nwords \in Nat
  BY CodeFacts DEF DecodeInv, Shape
<1>2. /\ ext_start \in 0 .. at - 1 /\ StartsAt(co, ext_start, at)
      /\ extended_arg = Base * Folded(co, ext_start, at - 1) /\ extended_arg > 0
  BY DEF DecodeInv, Pending
<1>3. at - 1 < Size(co) /\ at - 1 \in Nat /\ ext_start \in Nat /\ ext_start <= at
      /\ ext_start <= at - 1 /\ at \in Nat
  BY <1>1, <1>2, WordFacts DEF IsPrefixWord
<1>4. at <= ext_start + 3
  BY <1>1, <1>2, <1>3, ChainBound DEF StartsAt
<1>5. at - 1 <= ext_start + 3
  BY <1>3, <1>4
<1> DEFINE F == Folded(co, ext_start, at - 1)
           e == at - 1 - ext_start
<1>6. F \in 0 .. Capacity[e] - 1 /\ F \in Nat
  BY <1>1, <1>3, <1>5, FoldedBound
<1>7. e \in 0 .. 2 /\ 0 \in 0 .. Base - 1
  BY <1>3, <1>4, OpAssumption
<1>9. extended_arg = Base * F
  BY <1>2
<1> HIDE DEF F, e
<1>8. Base * F \in 0 .. Capacity[e + 1] - 1 /\ Base * F \in Nat
  BY <1>6, <1>7, DigitBound
<1>10. extended_arg \in 0 .. Capacity[3] - 1
  <2>1. Capacity[e + 1] <= Capacity[3] /\ Capacity[e + 1] \in Nat /\ Capacity[3] \in Nat
    <3>1. e = 0 \/ e = 1 \/ e = 2
      BY <1>7
    <3>2. Capacity[1] \in Nat /\ Capacity[2] \in Nat /\ Capacity[3] \in Nat
          /\ Capacity[1] < Capacity[2] /\ Capacity[2] < Capacity[3]
      BY CapacityFacts
    <3>3. Capacity[1] <= Capacity[3] /\ Capacity[2] <= Capacity[3] /\ Capacity[3] <= Capacity[3]
      BY <3>2
    <3>4. 0 + 1 = 1 /\ 1 + 1 = 2 /\ 2 + 1 = 3
      OBVIOUS
    <3> QED BY <3>1, <3>2, <3>3, <3>4
  <2> QED BY <1>8, <1>9, <2>1
<1> QED BY <1>2, <1>3, <1>4, <1>6, <1>10 DEF F, e

LEMMA FoldKeeps == ASSUME DecodeInv, FoldPrefix PROVE DecodeInv'
<1>1. /\ stage = "scan" /\ stage' = "scan" /\ at' = at + 1 /\ at \in 0 .. nwords - 1
      /\ co' = co /\ co \in CodeObjects /\ nwords' = nwords /\ nwords \in Nat
      /\ UNCHANGED <<instrs, idx_to_off, idx_to_nextoff, offset_to_label>>
      /\ at \in Nat /\ nwords = Size(co) /\ IsCodeObject(co) /\ WellFormed(co)
  BY CodeFacts DEF FoldPrefix, Scanning, DecodeInv, Shape, nwords
<1> DEFINE b == ByteAt(co, at)
<1>2. /\ OpAt(co, at) = EXTENDED_ARG
      /\ ext_start' = IF extended_arg = 0 THEN at ELSE ext_start
      /\ extended_arg' = (extended_arg + b) * Base
      /\ b \in 0 .. Base - 1 /\ b \in Nat
  BY <1>1, CodeFacts DEF FoldPrefix
<1>3. Count' = Count /\ \A k : OpPos(k)' = OpPos(k)
  BY <1>1 DEF Count, OpPos
<1>4. Scanned = at /\ Scanned' = at + 1
  BY <1>1 DEF Scanned
<1>5. IsPrefixWord(co, at) /\ at + 1 - 1 = at /\ Base \in Nat /\ Base > 0
  BY <1>1, <1>2, OpAssumption DEF IsPrefixWord
<1>6. ext_start' \in 0 .. at /\ StartsAt(co, ext_start', at + 1)
      /\ extended_arg' = Base * Folded(co, ext_start', at)
  <2>1. CASE IsPrefixWord(co, at - 1)
    <3>1. /\ ext_start \in Nat /\ ext_start <= at - 1 /\ at <= ext_start + 3 /\ at - 1 \in Nat
          /\ StartsAt(co, ext_start, at) /\ ext_start' = ext_start
          /\ extended_arg = Base * Folded(co, ext_start, at - 1)
          /\ extended_arg \in Nat
      BY <1>1, <1>2, <2>1, ChainSoFar, CapacityFacts
    <3>2. StartsAt(co, ext_start, at + 1)
      <4>1. ext_start < at /\ ext_start <= at /\ ext_start # at
        BY <1>1, <3>1
      <4> QED BY <1>1, <1>5, <3>1, <4>1, StartsAtNext
    <3>3. Folded(co, ext_start, at - 1 + 1) = ByteAt(co, at - 1 + 1)
                                                + Base * Folded(co, ext_start, at - 1)
      <4>1. at - 1 < ext_start + 3
        BY <1>1, <3>1
      <4> QED BY <3>1, <4>1, FoldedStep
    <3>4. at - 1 + 1 = at
      BY <1>1
    <3>5. Folded(co, ext_start, at) = b + extended_arg
      BY <3>1, <3>3, <3>4
    <3>6. (extended_arg + b) * Base = Base * (b + extended_arg)
      BY <1>2, <1>5, <3>1
    <3> QED BY <1>1, <1>2, <3>1, <3>2, <3>5, <3>6
  <2>2. CASE ~ IsPrefixWord(co, at - 1)
    <3>1. extended_arg = 0 /\ ext_start' = at /\ Folded(co, at, at) = b
      BY <1>2, <2>2 DEF DecodeInv, Pending, Folded
    <3>2. StartsAt(co, at, at + 1)
      <4>1. at <= at /\ ~ (at < at)
        BY <1>1
      <4> QED BY <1>1, <1>5, <2>2, <4>1, StartsAtNext
    <3>3. (0 + b) * Base = Base * b
      BY <1>2, <1>5
    <3> QED BY <1>1, <1>2, <3>1, <3>2, <3>3
  <2> QED BY <2>1, <2>2
<1>7. extended_arg' > 0
  <2> PICK s : s = ext_start'
    OBVIOUS
  <2> DEFINE F == Folded(co, s, at)
  <2>0. s \in Nat /\ s <= at /\ s \in s .. at
    BY <1>1, <1>6
  <2>1. /\ IsPrefixWord(co, s) /\ ~ IsPrefixWord(co, s - 1) /\ s \in Nat /\ s <= at
        /\ \A j \in s .. at : IsPrefixWord(co, j)
    BY <1>1, <1>6, <2>0, StartsAtNext
  <2>2. ByteAt(co, s) # 0
    BY <1>1, <2>1 DEF WellFormed, IsPrefixWord
  <2>3. at < s + 3 /\ at < Size(co)
    BY <1>1, <2>1, LongestChain
  <2>4. F > 0 /\ F \in Nat
    <3>1. at <= s + 3
      <4>1. \A x, y \in Nat : x < y + 3 => x <= y + 3
        OBVIOUS
      <4>2. at \in Nat /\ s \in Nat
        BY <1>1, <2>0
      <4> QED BY <2>3, <4>1, <4>2
    <3> QED BY <1>1, <2>1, <2>2, <2>3, <3>1, FoldedBound
  <2>5. extended_arg' = Base * F
    BY <1>6
  <2> HIDE DEF F
  <2> QED BY <1>5, <2>4, <2>5
<1>8. Shape'
  <2>1. at + 1 \in 0 .. nwords /\ Count \in Nat /\ Count <= at + 1
    BY <1>1, <1>4 DEF DecodeInv, Shape, Count
  <2>2. ext_start' \in 0 .. nwords' /\ at' \in 0 .. nwords' /\ Count' <= Scanned'
    BY <1>1, <1>3, <1>4, <1>6, <2>1
  <2> QED BY <1>1, <1>3, <2>2 DEF DecodeInv, Shape
<1>9. Pending'
  <2>1. ext_start' \in 0 .. at' - 1 /\ StartsAt(co', ext_start', at')
    BY <1>1, <1>5, <1>6
  <2>2. extended_arg' = Base * Folded(co', ext_start', at' - 1)
    BY <1>1, <1>5, <1>6
  <2>3. IsPrefixWord(co', at' - 1)
    BY <1>1, <1>5
  <2> QED BY <1>1, <1>7, <2>1, <2>2, <2>3 DEF Pending
<1>10. Parsed'
  <2>1. at \notin OpWords(co) /\ \A i \in OpWords(co) : i \in Nat
    BY <1>1, <1>2, WordFacts, CodeFacts DEF OpWords
  <2>2. \A i \in OpWords(co) : i < at + 1 <=> i < at
    BY <1>1, <2>1
  <2>3. \A k \in 1 .. Count : Found(k)'
    BY <1>1, <1>3, <1>4, <2>2 DEF DecodeInv, Parsed, Found
  <2> QED BY <1>1, <1>3, <1>4, <2>2, <2>3 DEF DecodeInv, Parsed
<1>11. \A k \in 1 .. Count : ArgRight(k)'
  BY <1>1, <1>3 DEF DecodeInv, ArgRight, Labelled
<1>12. LabelMaps' /\ LabelsRight' /\ EntriesRight'
  BY <1>1, ScanKeepsLabels DEF DecodeInv, FoldPrefix
<1> QED BY <1>3, <1>8, <1>9, <1>10, <1>11, <1>12 DEF DecodeInv

\* What DecodeInstr reads: an instruction, from the first of its prefixes.
LEMMA InstrRead ==
    ASSUME DecodeInv, DecodeInstr
    PROVE  /\ at \in OpWords(co) /\ at \in Nat
           /\ \E s \in 0 .. at : /\ StartsAt(co, s, at)
                                 /\ s = IF extended_arg # 0 THEN ext_start ELSE at
                                 /\ extended_arg + word[2] = Folded(co, s, at)
                                 /\ Folded(co, s, at) \in Nat
                                 /\ \A i \in OpWords(co) : i < at => i < s
<1>1. /\ stage = "scan" /\ at \in 0 .. nwords - 1 /\ at \in Nat /\ nwords = Size(co)
      /\ IsCodeObject(co) /\ WellFormed(co) /\ nwords \in Nat
      /\ word[1] = OpAt(co, at) /\ word[2] = ByteAt(co, at)
      /\ word[2] \in 0 .. Base - 1 /\ word[2] \in Nat
  BY CodeFacts DEF DecodeInstr, Scanning, DecodeInv, Shape
<1>2. OpAt(co, at) # EXTENDED_ARG /\ ~ (OpAt(co, at) = CACHE /\ extended_arg = 0)
  BY <1>1 DEF DecodeInstr
<1>3. \A i \in OpWords(co) : ~ IsPrefixWord(co, i) /\ i \in Nat
  BY <1>1, WordFacts DEF OpWords, IsPrefixWord
<1>4. CASE IsPrefixWord(co, at - 1)
  <2>1. /\ ext_start \in Nat /\ ext_start <= at - 1 /\ at <= ext_start + 3 /\ at - 1 \in Nat
        /\ StartsAt(co, ext_start, at) /\ extended_arg > 0 /\ extended_arg \in Nat
        /\ extended_arg = Base * Folded(co, ext_start, at - 1)
    BY <1>1, <1>4, ChainSoFar, CapacityFacts
  <2>2. OpAt(co, at) # CACHE
    <3>1. at - 1 \in 0 .. Size(co) - 1 /\ at - 1 + 1 = at
      BY <1>1, <2>1
    <3> QED BY <1>1, <1>4, <3>1 DEF WellFormed
  <2>3. at \in OpWords(co)
    BY <1>1, <1>2, <2>2 DEF OpWords
  <2>4. Folded(co, ext_start, at - 1 + 1) = ByteAt(co, at - 1 + 1)
                                              + Base * Folded(co, ext_start, at - 1)
    <3>1. at - 1 < ext_start + 3
      BY <1>1, <2>1
    <3> QED BY <2>1, <3>1, FoldedStep
  <2>5. at - 1 + 1 = at
    BY <1>1
  <2>6. extended_arg + word[2] = Folded(co, ext_start, at) /\ extended_arg + word[2] \in Nat
    BY <1>1, <2>1, <2>4, <2>5
  <2>7. ASSUME NEW i \in OpWords(co), i < at PROVE i < ext_start
    <3>1. i \in Nat /\ ~ IsPrefixWord(co, i)
      BY <1>3
    <3>2. ext_start <= i => i \in ext_start .. at - 1
      BY <1>1, <2>1, <2>7, <3>1
    <3> QED BY <2>1, <3>1, <3>2 DEF StartsAt
  <2>8. ext_start \in 0 .. at /\ extended_arg # 0
    BY <1>1, <2>1
  <2> QED BY <1>1, <2>1, <2>3, <2>6, <2>7, <2>8
<1>5. CASE ~ IsPrefixWord(co, at - 1)
  <2>1. extended_arg = 0
    BY <1>5 DEF DecodeInv, Pending
  <2>2. at \in OpWords(co)
    BY <1>1, <1>2, <2>1 DEF OpWords
  <2>3. StartsAt(co, at, at) /\ at \in 0 .. at
    BY <1>1, <1>5 DEF StartsAt
  <2>4. extended_arg + word[2] = Folded(co, at, at) /\ Folded(co, at, at) \in Nat
    BY <1>1, <2>1 DEF Folded
  <2> QED BY <1>1, <2>1, <2>2, <2>3, <2>4
<1> QED BY <1>4, <1>5

LEMMA InstrKeeps == ASSUME DecodeInv, DecodeInstr PROVE DecodeInv'
<1>1. /\ stage = "scan" /\ stage' = "scan" /\ at' = at + 1 /\ at \in 0 .. nwords - 1
      /\ co' = co /\ co \in CodeObjects /\ nwords' = nwords /\ nwords \in Nat
      /\ extended_arg' = 0 /\ UNCHANGED <<ext_start, offset_to_label>>
  BY CodeFacts DEF DecodeInstr, Scanning, DecodeInv, Shape, nwords
<1>2. /\ at \in OpWords(co) /\ at \in Nat /\ word[1] = OpAt(co, at) /\ OpAt(co, at) \in Op
      /\ CacheSize[OpAt(co, at)] \in Nat
  BY <1>1, InstrRead, CodeFacts, OpAssumption
<1>3. PICK s \in 0 .. at : /\ StartsAt(co, s, at)
                           /\ s = IF extended_arg # 0 THEN ext_start ELSE at
                           /\ extended_arg + word[2] = Folded(co, s, at)
                           /\ Folded(co, s, at) \in Nat
                           /\ \A i \in OpWords(co) : i < at => i < s
  BY InstrRead
<1> DEFINE new == [op |-> OpAt(co, at), arg |-> Folded(co, s, at)]
           after == at + 1 + CacheSize[OpAt(co, at)]
<1>4. /\ instrs' = Append(instrs, new) /\ idx_to_off' = Append(idx_to_off, s)
      /\ idx_to_nextoff' = Append(idx_to_nextoff, after)
  BY <1>2, <1>3 DEF DecodeInstr, NextOff
<1>5. new \in [op : Op, arg : Nat] /\ s \in Int /\ after \in Int
      /\ new.op = OpAt(co, at) /\ new.arg = Folded(co, s, at)
      /\ after - 1 - CacheSize[OpAt(co, at)] = at
  BY <1>2, <1>3
<1> HIDE DEF new, after
<1>6. /\ instrs \in Seq([op : Op, arg : Nat]) /\ idx_to_off \in Seq(Int)
      /\ idx_to_nextoff \in Seq(Int)
      /\ Count = Len(instrs) /\ Count = Len(idx_to_off) /\ Count = Len(idx_to_nextoff)
  BY DEF DecodeInv, Shape, Count
<1> PICK N : N = Count + 1
  OBVIOUS
<1>0. Count \in Nat /\ N \in Nat /\ N \in 1 .. N
  BY <1>6
<1>7. /\ instrs' \in Seq([op : Op, arg : Nat]) /\ Count' = N
      /\ \A k \in 1 .. Count : instrs'[k] = instrs[k]
      /\ instrs'[N] = new
  BY <1>0, <1>4, <1>5, <1>6, AppendFacts DEF Count
<1>8. /\ idx_to_off' \in Seq(Int) /\ Len(idx_to_off') = N
      /\ \A k \in 1 .. Count : idx_to_off'[k] = idx_to_off[k]
      /\ idx_to_off'[N] = s
  <2>1. /\ Append(idx_to_off, s) \in Seq(Int)
        /\ Len(Append(idx_to_off, s)) = Len(idx_to_off) + 1
        /\ \A k \in 1 .. Len(idx_to_off) : Append(idx_to_off, s)[k] = idx_to_off[k]
        /\ Append(idx_to_off, s)[Len(idx_to_off) + 1] = s
    <3>1. s \in Int /\ idx_to_off \in Seq(Int)
      BY <1>5, <1>6
    <3> QED BY <3>1, AppendFacts
  <2> QED BY <1>4, <1>6, <2>1
<1>9. /\ idx_to_nextoff' \in Seq(Int) /\ Len(idx_to_nextoff') = N
      /\ \A k \in 1 .. Count : idx_to_nextoff'[k] = idx_to_nextoff[k]
      /\ idx_to_nextoff'[N] = after
  BY <1>0, <1>4, <1>5, <1>6, AppendFacts
<1>10. /\ \A k \in 1 .. Count : OpPos(k)' = OpPos(k)
       /\ OpPos(N)' = at
  BY <1>5, <1>7, <1>9 DEF OpPos
<1>11. Scanned = at /\ Scanned' = at + 1 /\ ~ Labelled(N)'
       /\ \A k \in 1 .. Count : ~ Labelled(k) /\ ~ Labelled(k)'
  BY <1>1 DEF Scanned, Labelled
<1>12. /\ \A k \in 1 .. Count' : k \in 1 .. Count \/ k = N
       /\ \A k \in 1 .. Count : k \in 1 .. Count'
  BY <1>0, <1>7
<1>13. Shape'
  <2>1. at + 1 \in 0 .. nwords /\ Count <= at /\ N <= at + 1
    BY <1>0, <1>1, <1>7, <1>11 DEF DecodeInv, Shape
  <2>2. ext_start' \in 0 .. nwords' /\ at' \in 0 .. nwords' /\ Count' <= Scanned'
    BY <1>1, <1>7, <1>11, <2>1 DEF DecodeInv, Shape
  <2> QED BY <1>1, <1>7, <1>8, <1>9, <2>2 DEF Shape
<1>14. Pending'
  <2>1. ~ IsPrefixWord(co, at + 1 - 1)
    <3>1. at + 1 - 1 = at
      BY <1>1
    <3> QED BY <1>2, <3>1 DEF IsPrefixWord, OpWords
  <2> QED BY <1>1, <2>1 DEF Pending
<1>15. Parsed'
  <2>0. \A i \in OpWords(co) : i \in Nat /\ (i < at => i < at + 1)
                               /\ (i < at + 1 => i < at \/ i = at)
    BY <1>1, WordFacts, CodeFacts
  <2>1. \A k \in 1 .. Count : Found(k)' /\ OpPos(k) < s /\ OpPos(k) \in OpWords(co)
    BY <1>1, <1>3, <1>7, <1>8, <1>10, <1>11, <2>0 DEF DecodeInv, Parsed, Found
  <2>2. Found(N)'
    <3>1. at < at + 1
      BY <1>2
    <3> QED BY <1>1, <1>2, <1>3, <1>5, <1>7, <1>8, <1>10, <1>11, <3>1 DEF Found
  <2>3. ASSUME NEW k \in 1 .. Count', NEW m \in 1 .. Count', k < m
        PROVE  OpPos(k)' < idx_to_off'[m]
    <3>1. k \in 1 .. Count
      BY <1>0, <1>7, <2>3
    <3>2. CASE m \in 1 .. Count
      <4>1. OpPos(k)' = OpPos(k) /\ idx_to_off'[m] = idx_to_off[m]
        BY <1>8, <1>10, <3>1, <3>2
      <4>2. OpPos(k) < idx_to_off[m]
        BY <2>3, <3>1, <3>2 DEF DecodeInv, Parsed
      <4> QED BY <4>1, <4>2
    <3>3. CASE m = N
      BY <1>8, <1>10, <2>1, <3>1, <3>3
    <3> QED BY <1>12, <3>2, <3>3
  <2>4. ASSUME NEW i \in OpWords(co), i < at + 1
        PROVE  \E k \in 1 .. Count' : OpPos(k)' = i
    <3>1. CASE i < at
      <4>1. PICK k \in 1 .. Count : OpPos(k) = i
        BY <1>11, <3>1 DEF DecodeInv, Parsed
      <4>2. k \in 1 .. Count' /\ OpPos(k)' = i
        BY <1>10, <1>12, <4>1
      <4> QED BY <4>2
    <3>2. CASE i = at
      <4>1. N \in 1 .. Count'
        BY <1>0, <1>7
      <4> QED BY <1>10, <3>2, <4>1
    <3> QED BY <2>0, <2>4, <3>1, <3>2
  <2> QED BY <1>1, <1>11, <1>12, <2>1, <2>2, <2>3, <2>4 DEF Parsed
<1>16. \A k \in 1 .. Count' : ArgRight(k)'
  <2>1. \A k \in 1 .. Count : ArgRight(k)'
    BY <1>1, <1>7, <1>8, <1>10, <1>11 DEF DecodeInv, ArgRight
  <2>2. ArgRight(N)'
    BY <1>1, <1>5, <1>7, <1>8, <1>10, <1>11 DEF ArgRight
  <2> QED BY <1>12, <2>1, <2>2
<1>17. LabelMaps' /\ LabelsRight' /\ EntriesRight'
  BY <1>1, ScanKeepsLabels DEF DecodeInv, DecodeInstr
<1> QED BY <1>13, <1>14, <1>15, <1>16, <1>17 DEF DecodeInv

\* Later passes change no more of an instruction than its argument.
LEMMA ParsedKept ==
    ASSUME DecodeInv, Scanned' = Scanned, UNCHANGED <<co, idx_to_off, idx_to_nextoff>>,
           Count' = Count, \A k \in 1 .. Count : instrs'[k].op = instrs[k].op
    PROVE  Parsed' /\ \A k \in 1 .. Count : OpPos(k)' = OpPos(k)
<1>1. \A k \in 1 .. Count : OpPos(k)' = OpPos(k)
  BY DEF OpPos
<1>2. \A k \in 1 .. Count : Found(k)'
  BY <1>1 DEF DecodeInv, Parsed, Found
<1> QED BY <1>1, <1>2 DEF DecodeInv, Parsed

LEMMA ScanDoneKeeps == ASSUME DecodeInv, ScanDone PROVE DecodeInv'
<1>1. /\ stage = "scan" /\ stage' = "jumps" /\ at = nwords /\ at' = 0
      /\ co' = co /\ co \in CodeObjects /\ nwords' = nwords /\ nwords \in Nat
      /\ nwords = Size(co) /\ WellFormed(co)
      /\ UNCHANGED <<extended_arg, ext_start, instrs, idx_to_off, idx_to_nextoff,
                     offset_to_label, off_to_label, next_label_id, exc_labeled>>
      /\ labels' = [p \in Places |-> {}]
  BY CodeFacts DEF ScanDone, DecodeInv, Shape, nwords
<1>2. Count' = Count /\ Count \in Nat /\ Scanned' = Scanned /\ Places' = Places
  BY <1>1 DEF Count, Scanned, Places, DecodeInv, Shape
<1>3. Parsed' /\ \A k \in 1 .. Count : OpPos(k)' = OpPos(k)
  BY <1>1, <1>2, ParsedKept
<1>4. Shape'
  <2>1. 0 \in 0 .. Count' /\ ext_start' \in 0 .. nwords' /\ Count' <= Scanned'
    BY <1>1, <1>2 DEF DecodeInv, Shape
  <2> QED BY <1>1, <1>2, <2>1 DEF DecodeInv, Shape
<1>5. Pending'
  <2>1. ~ IsPrefixWord(co, at - 1)
    <3>1. ~ (at - 1 + 1 < Size(co))
      BY <1>1
    <3> QED BY <1>1, <3>1 DEF WellFormed, IsPrefixWord
  <2> QED BY <1>1, <2>1 DEF DecodeInv, Pending
<1>6. \A k \in 1 .. Count : ArgRight(k)'
  <2>1. \A k \in 1 .. Count : ~ Labelled(k) /\ ~ Labelled(k)'
    BY <1>1 DEF Labelled
  <2> QED BY <1>1, <1>3, <2>1 DEF DecodeInv, ArgRight
<1>7. LabelMaps'
  BY <1>1 DEF DecodeInv, LabelMaps
<1>8. LabelsRight'
  BY <1>1, <1>2 DEF DecodeInv, LabelMaps, LabelsRight, Named
<1>9. EntriesRight'
  BY <1>1 DEF DecodeInv, EntriesRight, EntryRight
<1> QED BY <1>2, <1>3, <1>4, <1>5, <1>6, <1>7, <1>8, <1>9 DEF DecodeInv

\* A jump's target, as the interpreter finds it and as from_code() computes it.
LEMMA TargetRead ==
    ASSUME DecodeInv, NEW k \in 1 .. Count, ~ Labelled(k), NEW j, j = k - 1
    PROVE  /\ TargetOf(j) = TargetAt(co, OpPos(k))
           /\ instrs[k].arg = ArgAt(co, OpPos(k))
           /\ IsJumpOp(instrs[k].op) => TargetAt(co, OpPos(k)) \in Starts(co)
<1>1. /\ OpPos(k) \in OpWords(co) /\ instrs[k].op = OpAt(co, OpPos(k))
      /\ idx_to_off[k] \in 0 .. OpPos(k) /\ StartsAt(co, idx_to_off[k], OpPos(k))
      /\ instrs[k].arg = Folded(co, idx_to_off[k], OpPos(k))
      /\ co \in CodeObjects /\ idx_to_nextoff[k] \in Int
  BY DEF DecodeInv, Shape, Parsed, Found, ArgRight
<1>2. IsCodeObject(co) /\ WellFormed(co) /\ OpPos(k) \in Nat
  BY <1>1, CodeFacts, WordFacts
<1>3. instrs[k].arg = ArgAt(co, OpPos(k))
  BY <1>1, <1>2, ArgAtIs
<1>4. CacheSize[instrs[k].op] \in Nat
  BY <1>1, <1>2, WordFacts, OpAssumption
<1>5. NextAt(co, OpPos(k)) = idx_to_nextoff[k]
  <2> DEFINE C == CacheSize[instrs[k].op]
             p == OpPos(k)
  <2>1. p = idx_to_nextoff[k] - 1 - C /\ C \in Nat /\ NextAt(co, p) = p + 1 + C
    BY <1>1, <1>4 DEF OpPos, NextAt
  <2> HIDE DEF C, p
  <2>2. NextAt(co, p) = idx_to_nextoff[k]
    BY <1>1, <2>1
  <2> QED BY <2>2 DEF p
<1>6. j + 1 = k
  OBVIOUS
<1>7. TargetOf(j) = TargetAt(co, OpPos(k))
  BY <1>1, <1>3, <1>5, <1>6 DEF TargetOf, TargetAt
<1>8. IsJumpOp(instrs[k].op) => TargetAt(co, OpPos(k)) \in Starts(co)
  BY <1>1, <1>2 DEF WellFormed
<1> QED BY <1>3, <1>7, <1>8

LEMMA KeepArgKeeps == ASSUME DecodeInv, KeepArg PROVE DecodeInv'
<1>1. /\ stage = "jumps" /\ stage' = "jumps" /\ at' = at + 1 /\ at \in Nat /\ at + 1 <= Count
      /\ ~ IsJumpOp(instrs[at + 1].op) /\ nwords' = nwords
      /\ UNCHANGED <<co, extended_arg, ext_start, instrs, idx_to_off, idx_to_nextoff,
                     offset_to_label, off_to_label, labels, next_label_id, exc_labeled>>
  BY DEF KeepArg, DecodeInv, Shape, nwords, Count
<1>2. Count' = Count /\ Count \in Nat /\ Scanned' = Scanned /\ Places' = Places
  BY <1>1 DEF Count, Scanned, Places, DecodeInv, Shape
<1>3. Parsed' /\ \A k \in 1 .. Count : OpPos(k)' = OpPos(k)
  BY <1>1, <1>2, ParsedKept
<1>4. Shape'
  <2>1. at' \in 0 .. Count'
    BY <1>1, <1>2
  <2> QED BY <1>1, <1>2, <2>1 DEF DecodeInv, Shape
<1>5. Pending'
  BY <1>1 DEF DecodeInv, Pending
<1>6. \A k \in 1 .. Count : ArgRight(k)'
  <2>1. \A k \in 1 .. Count : k <= at + 1 <=> k <= at \/ k = at + 1
    BY <1>1, <1>2
  <2>2. \A k \in 1 .. Count : Labelled(k)' <=> Labelled(k)
    BY <1>1, <2>1 DEF Labelled
  <2> QED BY <1>1, <1>3, <2>2 DEF DecodeInv, ArgRight
<1>7. LabelMaps'
  BY <1>1 DEF DecodeInv, LabelMaps
<1>8. LabelsRight'
  BY <1>1, <1>2 DEF DecodeInv, LabelsRight, Named, PlacesAt
<1>9. EntriesRight'
  BY <1>1 DEF DecodeInv, EntriesRight, EntryRight
<1> QED BY <1>2, <1>3, <1>4, <1>5, <1>6, <1>7, <1>8, <1>9 DEF DecodeInv

LEMMA JumpsDoneKeeps == ASSUME DecodeInv, JumpsDone PROVE DecodeInv'
<1>1. /\ stage = "jumps" /\ stage' = "table" /\ at' = 0 /\ at = Count /\ nwords' = nwords
      /\ UNCHANGED <<co, extended_arg, ext_start, instrs, idx_to_off, idx_to_nextoff,
                     offset_to_label, off_to_label, labels, next_label_id, exc_labeled>>
  BY DEF JumpsDone, nwords
<1>2. Count' = Count /\ Count \in Nat /\ Scanned' = Scanned /\ Places' = Places
  BY <1>1 DEF Count, Scanned, Places, DecodeInv, Shape
<1>3. Parsed' /\ \A k \in 1 .. Count : OpPos(k)' = OpPos(k)
  BY <1>1, <1>2, ParsedKept
<1>4. Shape'
  <2>1. Len(co.table) \in Nat /\ 0 \in 0 .. Len(co.table)
    BY CodeFacts DEF DecodeInv, Shape, IsCodeObject
  <2> QED BY <1>1, <1>2, <2>1 DEF DecodeInv, Shape
<1>5. Pending'
  BY <1>1 DEF DecodeInv, Pending
<1>6. \A k \in 1 .. Count : ArgRight(k)'
  <2>1. \A k \in 1 .. Count : k <= at
    BY <1>1, <1>2
  <2>2. \A k \in 1 .. Count : Labelled(k)' <=> Labelled(k)
    BY <1>1, <2>1 DEF Labelled
  <2> QED BY <1>1, <1>3, <2>2 DEF DecodeInv, ArgRight
<1>7. LabelMaps'
  BY <1>1 DEF DecodeInv, LabelMaps
<1>8. LabelsRight'
  BY <1>1, <1>2 DEF DecodeInv, LabelsRight, Named, PlacesAt
<1>9. EntriesRight'
  BY <1>1 DEF DecodeInv, EntriesRight, EntryRight
<1> QED BY <1>2, <1>3, <1>4, <1>5, <1>6, <1>7, <1>8, <1>9 DEF DecodeInv

\* A fresh label for a new offset.
LEMMA WithFresh ==
    ASSUME NEW S, NEW d \in Nat, NEW h, NEW z \in S, z \notin DOMAIN h, IsLabelMap(h, S, d)
    PROVE  /\ IsLabelMap(With(h, z, d), S, d + 1)
           /\ DOMAIN With(h, z, d) = DOMAIN h \cup {z}
           /\ With(h, z, d)[z] = d /\ \A y \in DOMAIN h : With(h, z, d)[y] = h[y]
<1> DEFINE g == With(h, z, d)
<1>1. /\ DOMAIN g = DOMAIN h \cup {z} /\ g[z] = d /\ \A y \in DOMAIN h : g[y] = h[y]
      /\ g = [y \in DOMAIN g |-> g[y]]
  BY DEF With
<1> HIDE DEF g
<1>2. \A y \in DOMAIN h : h[y] \in 0 .. d - 1 /\ h[y] # d
  BY DEF IsLabelMap
<1>3. \A y \in DOMAIN g : g[y] \in 0 .. d + 1 - 1
  BY <1>1, <1>2
<1>4. \A y, w \in DOMAIN g : g[y] = g[w] => y = w
  BY <1>1, <1>2 DEF IsLabelMap
<1>5. IsLabelMap(g, S, d + 1)
  BY <1>1, <1>3, <1>4 DEF IsLabelMap
<1> QED BY <1>1, <1>5 DEF g

LEMMA MoreLabels ==
    ASSUME NEW S, NEW d \in Nat, NEW j \in Nat, d <= j, NEW h, IsLabelMap(h, S, d)
    PROVE  IsLabelMap(h, S, j)
<1>1. \A v \in 0 .. d - 1 : v \in 0 .. j - 1
  OBVIOUS
<1> QED BY <1>1 DEF IsLabelMap

LEMMA LabelJumpKeeps == ASSUME DecodeInv, LabelJump PROVE DecodeInv'
<1> PICK x : x = TargetOf(at)
  OBVIOUS
<1> PICK here : here = at + 1
  OBVIOUS
<1> PICK m : m = next_label_id
  OBVIOUS
<1>1. /\ stage = "jumps" /\ stage' = "jumps" /\ at' = at + 1 /\ at \in Nat /\ at < Count
      /\ here \in 1 .. Count /\ IsJumpOp(instrs[here].op) /\ nwords' = nwords
      /\ co' = co /\ co \in CodeObjects
      /\ UNCHANGED <<extended_arg, ext_start, idx_to_off, idx_to_nextoff,
                     off_to_label, exc_labeled>>
      /\ Count \in Nat /\ instrs \in Seq([op : Op, arg : Nat]) /\ Count = Len(instrs)
  BY DEF LabelJump, DecodeInv, Shape, nwords, Count
<1>2. /\ m \in Nat /\ IsLabelMap(offset_to_label, Starts(co), m)
      /\ IsLabelMap(off_to_label, Starts(co), m) /\ DOMAIN off_to_label = {}
  BY <1>1 DEF DecodeInv, LabelMaps
<1>3. x = TargetAt(co, OpPos(here)) /\ x \in Starts(co)
  <2>1. ~ Labelled(here) /\ at = here - 1
    BY <1>1 DEF Labelled
  <2> QED BY <1>1, <2>1, TargetRead
<1> PICK l : l = IF x \in DOMAIN offset_to_label THEN offset_to_label[x] ELSE m
  OBVIOUS
<1>4. /\ l \in Nat
      /\ instrs' = [instrs EXCEPT ![here].arg = l]
      /\ \/ /\ x \in DOMAIN offset_to_label
            /\ UNCHANGED <<offset_to_label, labels, next_label_id>>
         \/ /\ x \notin DOMAIN offset_to_label
            /\ offset_to_label' = With(offset_to_label, x, m)
            /\ labels' = Attached(labels, x, m)
            /\ next_label_id' = m + 1
  <2>1. l \in Nat
    BY <1>2 DEF IsLabelMap
  <2>2. CASE x \in DOMAIN offset_to_label
    <3>1. instrs' = [instrs EXCEPT ![here].arg = l]
      BY <2>2 DEF LabelJump
    <3>2. UNCHANGED <<offset_to_label, labels, next_label_id>>
      BY <2>2 DEF LabelJump
    <3> QED BY <2>1, <2>2, <3>1, <3>2
  <2>3. CASE x \notin DOMAIN offset_to_label
    <3>1. instrs' = [instrs EXCEPT ![here].arg = l]
      BY <2>3 DEF LabelJump
    <3>2. /\ offset_to_label' = With(offset_to_label, x, m)
          /\ labels' = Attached(labels, x, m)
          /\ next_label_id' = m + 1
      BY <2>3 DEF LabelJump
    <3> QED BY <2>1, <2>3, <3>1, <3>2
  <2> QED BY <2>2, <2>3
<1>5. /\ instrs' \in Seq([op : Op, arg : Nat]) /\ Count' = Count
      /\ \A k \in 1 .. Count : instrs'[k].op = instrs[k].op
      /\ \A k \in 1 .. Count : k # here => instrs'[k].arg = instrs[k].arg
      /\ instrs'[here].arg = l
  <2> DEFINE R == [op : Op, arg : Nat]
             r == [instrs[here] EXCEPT !.arg = l]
  <2>1. instrs \in Seq(R) /\ here \in 1 .. Len(instrs)
    BY <1>1
  <2>2. instrs[here] \in R
    <3> HIDE DEF R
    <3> QED BY <2>1
  <2>3. r \in R /\ r.op = instrs[here].op /\ r.arg = l
    BY <1>4, <2>2
  <2>4. instrs' = [instrs EXCEPT ![here] = r]
    BY <1>4
  <2> HIDE DEF R, r
  <2>5. instrs' \in Seq(R) /\ Len(instrs') = Len(instrs) /\ instrs'[here] = r
        /\ \A k \in 1 .. Len(instrs) : k # here => instrs'[k] = instrs[k]
    BY <2>1, <2>3, <2>4
  <2> QED BY <1>1, <2>3, <2>5 DEF Count, R
<1>6. Scanned' = Scanned /\ Places' = Places /\ \A y : PlacesAt(y)' = PlacesAt(y)
  BY <1>1, <1>5 DEF Scanned, Places, PlacesAt
<1>7. Parsed' /\ \A k \in 1 .. Count : OpPos(k)' = OpPos(k)
  BY <1>1, <1>5, <1>6, ParsedKept
<1>8. Shape'
  <2>1. at' \in 0 .. Count'
    BY <1>1, <1>5
  <2> QED BY <1>1, <1>5, <1>6, <2>1 DEF DecodeInv, Shape
<1>9. Pending'
  BY <1>1 DEF DecodeInv, Pending
<1>10. /\ x \in DOMAIN offset_to_label' /\ offset_to_label'[x] = l
       /\ \A y \in DOMAIN offset_to_label : /\ y \in DOMAIN offset_to_label'
                                            /\ offset_to_label'[y] = offset_to_label[y]
       /\ \A y \in DOMAIN offset_to_label' : y = x \/ y \in DOMAIN offset_to_label
       /\ IsLabelMap(offset_to_label', Starts(co), next_label_id')
       /\ next_label_id' \in Nat /\ m <= next_label_id'
       /\ IsLabelMap(off_to_label, Starts(co), next_label_id')
  <2>1. CASE x \in DOMAIN offset_to_label
    BY <1>2, <1>4, <2>1
  <2>2. CASE x \notin DOMAIN offset_to_label
    <3>1. offset_to_label' = With(offset_to_label, x, m) /\ next_label_id' = m + 1 /\ l = m
      BY <1>4, <2>2
    <3>2. m + 1 \in Nat /\ m <= m + 1
      BY <1>2
    <3>3. IsLabelMap(off_to_label, Starts(co), m + 1)
      BY <1>2, <3>2, MoreLabels
    <3>4. /\ IsLabelMap(With(offset_to_label, x, m), Starts(co), m + 1)
          /\ DOMAIN With(offset_to_label, x, m) = DOMAIN offset_to_label \cup {x}
          /\ With(offset_to_label, x, m)[x] = m
          /\ \A y \in DOMAIN offset_to_label :
                With(offset_to_label, x, m)[y] = offset_to_label[y]
      <4>1. PICK h : h = offset_to_label
        OBVIOUS
      <4>2. PICK S : S = Starts(co)
        OBVIOUS
      <4>3. x \in S /\ x \notin DOMAIN h /\ IsLabelMap(h, S, m) /\ m \in Nat
        BY <1>2, <1>3, <2>2, <4>1, <4>2
      <4>4. /\ IsLabelMap(With(h, x, m), S, m + 1)
            /\ DOMAIN With(h, x, m) = DOMAIN h \cup {x}
            /\ With(h, x, m)[x] = m
            /\ \A y \in DOMAIN h : With(h, x, m)[y] = h[y]
        BY <4>3, WithFresh
      <4> QED BY <4>1, <4>2, <4>4
    <3> QED BY <3>1, <3>2, <3>3, <3>4
  <2> QED BY <2>1, <2>2
<1>11. \A k \in 1 .. Count : ArgRight(k)'
  <2>1. \A k \in 1 .. Count : k <= at + 1 <=> k <= at \/ k = here
    BY <1>1
  <2>2. \A k \in 1 .. Count : k # here => (Labelled(k)' <=> Labelled(k))
    BY <1>1, <1>5, <2>1 DEF Labelled
  <2>3. \A k \in 1 .. Count : k # here => ArgRight(k)'
    <3> TAKE k \in 1 .. Count
    <3> HAVE k # here
    <3>1. ArgRight(k)
      BY DEF DecodeInv
    <3>2. /\ Labelled(k)' <=> Labelled(k)
          /\ instrs'[k].arg = instrs[k].arg
          /\ co' = co /\ OpPos(k)' = OpPos(k) /\ idx_to_off'[k] = idx_to_off[k]
      BY <1>1, <1>5, <1>7, <2>2
    <3>3. CASE Labelled(k)
      <4>1. TargetAt(co, OpPos(k)) \in DOMAIN offset_to_label
            /\ instrs[k].arg = offset_to_label[TargetAt(co, OpPos(k))]
        BY <3>1, <3>3 DEF ArgRight
      <4> QED BY <1>10, <3>2, <3>3, <4>1 DEF ArgRight
    <3>4. CASE ~ Labelled(k)
      BY <3>1, <3>2, <3>4 DEF ArgRight
    <3> QED BY <3>3, <3>4
  <2>4. ArgRight(here)'
    <3>1. Labelled(here)'
      BY <1>1, <1>5 DEF Labelled
    <3>2. TargetAt(co, OpPos(here))' = x
      BY <1>1, <1>3, <1>7
    <3> QED BY <1>5, <1>10, <3>1, <3>2 DEF ArgRight
  <2> QED BY <2>3, <2>4
<1>12. LabelMaps'
  BY <1>1, <1>2, <1>10 DEF LabelMaps, Apart
<1>13. LabelsRight'
  <2>1. /\ DOMAIN labels = Places
        /\ \A p \in Places : labels[p] = {v \in 0 .. m - 1 : Named(offset_to_label, v, p)}
    BY <1>1 DEF DecodeInv, LabelsRight
  <2>2. CASE x \in DOMAIN offset_to_label
    <3>1. UNCHANGED <<offset_to_label, labels, next_label_id>>
      BY <1>4, <2>2
    <3>2. \A v, p : Named(offset_to_label, v, p)' <=> Named(offset_to_label, v, p)
      BY <1>6, <3>1 DEF Named
    <3>3. \A p \in Places : labels'[p] = {v \in 0 .. next_label_id' - 1 :
                                             Named(offset_to_label, v, p)'}
      BY <2>1, <3>1, <3>2
    <3>4. DOMAIN labels' = Places'
      BY <1>6, <2>1, <3>1
    <3>5. stage' # "decoded" /\ stage' # "scan"
      BY <1>1
    <3> QED BY <1>6, <3>3, <3>4, <3>5 DEF LabelsRight
  <2>3. CASE x \notin DOMAIN offset_to_label
    <3>1. labels' = Attached(labels, x, m) /\ next_label_id' = m + 1 /\ l = m
      BY <1>4, <2>3
    <3>2. DOMAIN labels' = Places
      BY <2>1, <3>1 DEF Attached
    <3>3. ASSUME NEW p \in Places
          PROVE  labels'[p] = {v \in 0 .. next_label_id' - 1 :
                                 Named(offset_to_label, v, p)'}
      <4>1. labels'[p] = labels[p] \cup {v \in {m} : p \in PlacesAt(x)}
        BY <2>1, <3>1 DEF Attached
      <4>2. \A v \in 0 .. next_label_id' - 1 : v \in 0 .. m - 1 \/ v = m
        BY <1>2, <3>1
      <4>3. m \in 0 .. next_label_id' - 1 /\ m \notin 0 .. m - 1
            /\ \A v \in 0 .. m - 1 : v \in 0 .. next_label_id' - 1 /\ v # m
        BY <1>2, <3>1
      <4>4. \A v \in 0 .. m - 1 :
               Named(offset_to_label, v, p)' <=> Named(offset_to_label, v, p)
        BY <1>6, <1>10, <3>1, <4>3 DEF Named
      <4>5. Named(offset_to_label, m, p)' <=> p \in PlacesAt(x)
        <5>1. \A y \in DOMAIN offset_to_label : offset_to_label[y] # m
          BY <1>2, <4>3 DEF IsLabelMap
        <5> QED BY <1>6, <1>10, <3>1, <5>1 DEF Named
      <4> QED BY <2>1, <4>1, <4>2, <4>3, <4>4, <4>5
    <3>4. stage' # "decoded" /\ stage' # "scan" /\ next_label_id' = m + 1
      BY <1>1, <3>1
    <3>5. \A p \in Places' : labels'[p] = {v \in 0 .. next_label_id' - 1 :
                                             Named(offset_to_label, v, p)'}
      BY <1>6, <3>3, <3>4
    <3>6. DOMAIN labels' = Places'
      BY <1>6, <3>2
    <3> QED BY <3>4, <3>5, <3>6 DEF LabelsRight
  <2> QED BY <2>2, <2>3
<1>14. EntriesRight'
  BY <1>1 DEF DecodeInv, EntriesRight, EntryRight
<1> QED BY <1>5, <1>7, <1>8, <1>9, <1>11, <1>12, <1>13, <1>14 DEF DecodeInv

\* get_or_create_label(): r is a map and the next free label, g the other map.
PairOK(r, g, S) ==
    /\ r.next \in Nat
    /\ IsLabelMap(r.map, S, r.next) /\ IsLabelMap(g, S, r.next) /\ Apart(g, r.map)

Grown(r, q) ==
    /\ r.next <= q.next
    /\ \A y \in DOMAIN r.map : y \in DOMAIN q.map /\ q.map[y] = r.map[y]

LEMMA Created ==
    ASSUME NEW T, NEW g, NEW r, NEW w \in T, PairOK(r, g, T)
    PROVE  /\ PairOK(GetOrCreate(r, w), g, T) /\ Grown(r, GetOrCreate(r, w))
           /\ w \in DOMAIN GetOrCreate(r, w).map
<1>1. r.next \in Nat /\ r.next <= r.next
  BY DEF PairOK
<1>2. CASE w \in DOMAIN r.map
  <2>1. GetOrCreate(r, w) = r
    BY <1>2 DEF GetOrCreate
  <2> QED BY <1>1, <1>2, <2>1 DEF Grown
<1>3. CASE w \notin DOMAIN r.map
  <2>1. PICK old : old = r.map
    OBVIOUS
  <2>2. PICK fresh : fresh = r.next
    OBVIOUS
  <2>3. fresh \in Nat /\ fresh + 1 \in Nat /\ fresh <= fresh + 1
    BY <1>1, <2>2
  <2>4. /\ IsLabelMap(With(old, w, fresh), T, fresh + 1)
        /\ DOMAIN With(old, w, fresh) = DOMAIN old \cup {w}
        /\ With(old, w, fresh)[w] = fresh /\ \A y \in DOMAIN old : With(old, w, fresh)[y] = old[y]
    <3>1. w \notin DOMAIN old /\ IsLabelMap(old, T, fresh)
      BY <1>3, <2>1, <2>2 DEF PairOK
    <3>2. fresh \in Nat /\ w \in T
      BY <2>3
    <3>3. IsLabelMap(With(old, w, fresh), T, fresh + 1)
      BY <3>1, <3>2, WithFresh
    <3>4. DOMAIN With(old, w, fresh) = DOMAIN old \cup {w}
      BY DEF With
    <3>5. With(old, w, fresh)[w] = fresh /\ \A y \in DOMAIN old : With(old, w, fresh)[y] = old[y]
      BY <3>1 DEF With
    <3> QED BY <3>3, <3>4, <3>5
  <2>5. GetOrCreate(r, w).map = With(old, w, fresh) /\ GetOrCreate(r, w).next = fresh + 1
    BY <1>3, <2>1, <2>2 DEF GetOrCreate
  <2>6. IsLabelMap(g, T, fresh + 1)
    BY <2>2, <2>3, MoreLabels DEF PairOK
  <2>7. Apart(g, With(old, w, fresh))
    <3>1. \A x \in DOMAIN g : g[x] \in 0 .. fresh - 1 /\ g[x] # fresh
      BY <2>2, <2>3 DEF PairOK, IsLabelMap
    <3> QED BY <2>1, <2>4, <3>1 DEF PairOK, Apart
  <2> QED BY <2>1, <2>2, <2>3, <2>4, <2>5, <2>6, <2>7 DEF PairOK, Grown
<1> QED BY <1>2, <1>3

LEMMA GrownTwice ==
    ASSUME NEW r, NEW q, NEW t, Grown(r, q), Grown(q, t),
           r.next \in Nat, q.next \in Nat, t.next \in Nat
    PROVE  Grown(r, t)
BY DEF Grown

\* The other variables of the table pass stay as the jump pass left them.
LEMMA TableKeeps ==
    ASSUME DecodeInv, stage = "table", stage' \in {"table", "decoded"},
           UNCHANGED <<co, extended_arg, ext_start, instrs, idx_to_off, idx_to_nextoff,
                       offset_to_label>>,
           at' \in 0 .. Len(co.table)
    PROVE  /\ Count' = Count /\ Places' = Places /\ \A y : PlacesAt(y)' = PlacesAt(y)
           /\ Shape' /\ Pending' /\ Parsed' /\ \A k \in 1 .. Count : ArgRight(k)'
<1>1. Count' = Count /\ Scanned' = Scanned /\ nwords' = nwords /\ Places' = Places
  BY DEF Count, Scanned, nwords, Places
<1>2. Parsed' /\ \A k \in 1 .. Count : OpPos(k)' = OpPos(k)
  BY <1>1, ParsedKept
<1>3. Shape'
  BY <1>1 DEF DecodeInv, Shape
<1>4. Pending'
  BY DEF DecodeInv, Pending
<1>5. \A k \in 1 .. Count : ArgRight(k)'
  <2>1. \A k \in 1 .. Count : Labelled(k)' <=> Labelled(k)
    BY DEF Labelled
  <2> QED BY <1>2, <2>1 DEF DecodeInv, ArgRight
<1>6. \A y : PlacesAt(y)' = PlacesAt(y)
  BY <1>1 DEF PlacesAt
<1> QED BY <1>1, <1>2, <1>3, <1>4, <1>5, <1>6

LEMMA LabelEntryKeeps == ASSUME DecodeInv, LabelEntry PROVE DecodeInv'
<1> PICK e : e = co.table[at + 1]
  OBVIOUS
<1> PICK S : S = Starts(co)
  OBVIOUS
<1> PICK g : g = offset_to_label
  OBVIOUS
<1> PICK r : r = [map |-> off_to_label, next |-> next_label_id]
  OBVIOUS
<1> PICK r1 : r1 = GetOrCreate(r, e.start)
  OBVIOUS
<1> PICK r2 : r2 = GetOrCreate(r1, e.stop)
  OBVIOUS
<1> PICK q : q = GetOrCreate(r2, e.handler)
  OBVIOUS
<1> DEFINE new == [start_lbl |-> q.map[e.start], stop_lbl |-> q.map[e.stop],
                   handler_lbl |-> q.map[e.handler]]
<1>1. /\ stage = "table" /\ stage' = "table" /\ at' = at + 1 /\ at \in Nat
      /\ at < Len(co.table) /\ Len(co.table) \in Nat /\ at + 1 \in DOMAIN co.table
      /\ at' \in 0 .. Len(co.table)
      /\ co' = co /\ co \in CodeObjects /\ Len(exc_labeled) = at /\ WellFormed(co)
      /\ UNCHANGED <<extended_arg, ext_start, instrs, idx_to_off, idx_to_nextoff,
                     offset_to_label, labels>>
  <2>1. /\ co \in CodeObjects /\ WellFormed(co) /\ Len(co.table) \in Nat
        /\ DOMAIN co.table = 1 .. Len(co.table)
    BY CodeFacts DEF DecodeInv, Shape, IsCodeObject
  <2>2. stage = "table" /\ at < Len(co.table) /\ at' = at + 1
    BY DEF LabelEntry
  <2>3. at \in 0 .. Len(co.table) /\ Len(exc_labeled) = at
    BY <2>2 DEF DecodeInv, Shape, EntriesRight
  <2>4. at \in Nat /\ at + 1 \in DOMAIN co.table /\ at' \in 0 .. Len(co.table)
    BY <2>1, <2>2, <2>3
  <2> QED BY <2>1, <2>2, <2>3, <2>4 DEF LabelEntry
<1>2. /\ off_to_label' = q.map /\ next_label_id' = q.next
      /\ exc_labeled' = Append(exc_labeled, new)
  BY DEF LabelEntry
<1>3. e.start \in S /\ e.stop \in S /\ e.handler \in S
  BY <1>1 DEF WellFormed
<1>4. PairOK(r, g, S) /\ r.map = off_to_label /\ r.next = next_label_id
  BY DEF DecodeInv, LabelMaps, PairOK
<1>5. PairOK(r1, g, S) /\ Grown(r, r1) /\ e.start \in DOMAIN r1.map
  BY <1>3, <1>4, Created
<1>6. PairOK(r2, g, S) /\ Grown(r1, r2) /\ e.stop \in DOMAIN r2.map
  BY <1>3, <1>5, Created
<1>7. PairOK(q, g, S) /\ Grown(r2, q) /\ e.handler \in DOMAIN q.map
  BY <1>3, <1>6, Created
<1>8. Grown(r1, q) /\ Grown(r, q)
  <2>1. r.next \in Nat /\ r1.next \in Nat /\ r2.next \in Nat /\ q.next \in Nat
    BY <1>4, <1>5, <1>6, <1>7 DEF PairOK
  <2>2. Grown(r1, q)
    BY <1>6, <1>7, <2>1, GrownTwice
  <2> QED BY <1>5, <2>1, <2>2, GrownTwice
<1>9. /\ Count' = Count /\ Places' = Places /\ \A y : PlacesAt(y)' = PlacesAt(y)
      /\ Shape' /\ Pending' /\ Parsed' /\ \A k \in 1 .. Count : ArgRight(k)'
  BY <1>1, TableKeeps
<1>10. LabelMaps'
  BY <1>1, <1>2, <1>7 DEF LabelMaps, PairOK
<1>11. LabelsRight'
  <2>1. /\ DOMAIN labels = Places
        /\ \A p \in Places :
              labels[p] = {v \in 0 .. next_label_id - 1 : Named(offset_to_label, v, p)}
    BY <1>1 DEF DecodeInv, LabelsRight
  <2>2. next_label_id \in Nat /\ next_label_id' \in Nat /\ next_label_id <= next_label_id'
    BY <1>2, <1>4, <1>7, <1>8 DEF PairOK, Grown
  <2>3. \A v, p : Named(offset_to_label, v, p)' <=> Named(offset_to_label, v, p)
    BY <1>1, <1>9 DEF Named
  <2>4. \A v, p : Named(offset_to_label, v, p) => v \in 0 .. next_label_id - 1
    BY DEF DecodeInv, LabelMaps, IsLabelMap, Named
  <2>5. \A v \in 0 .. next_label_id - 1 : v \in 0 .. next_label_id' - 1
    BY <2>2
  <2>6. ASSUME NEW p \in Places'
        PROVE  labels'[p] = {v \in 0 .. next_label_id' - 1 : Named(offset_to_label, v, p)'}
    <3>1. labels'[p] = {v \in 0 .. next_label_id - 1 : Named(offset_to_label, v, p)}
      BY <1>1, <1>9, <2>1
    <3> QED BY <2>3, <2>4, <2>5, <3>1
  <2>7. DOMAIN labels' = Places' /\ stage' = "table"
    BY <1>1, <1>9, <2>1
  <2> QED BY <2>6, <2>7 DEF LabelsRight
<1>12. EntriesRight'
  <2> PICK m : m = at + 1
    OBVIOUS
  <2>5. e.start \in DOMAIN q.map /\ e.stop \in DOMAIN q.map /\ e.handler \in DOMAIN q.map
    <3>1. e.start \in DOMAIN q.map
      BY <1>5, <1>8 DEF Grown
    <3>2. e.stop \in DOMAIN q.map
      BY <1>6, <1>7 DEF Grown
    <3> QED BY <1>7, <3>1, <3>2
  <2>0. exc_labeled \in Seq(Entries) /\ new \in Entries
    <3>1. exc_labeled \in Seq(Entries)
      BY DEF DecodeInv, EntriesRight
    <3>2. \A x \in DOMAIN q.map : q.map[x] \in Nat
      <4>1. \A x \in DOMAIN q.map : q.map[x] \in 0 .. q.next - 1
        BY <1>7 DEF PairOK, IsLabelMap
      <4>2. \A v \in 0 .. q.next - 1 : v \in Nat
        <5>1. q.next \in Nat
          BY <1>7 DEF PairOK
        <5> QED BY <5>1
      <4> QED BY <4>1, <4>2
    <3>3. q.map[e.start] \in Nat /\ q.map[e.stop] \in Nat /\ q.map[e.handler] \in Nat
      BY <2>5, <3>2
    <3> QED BY <3>1, <3>3 DEF Entries
  <2>1. /\ Len(exc_labeled') = m /\ exc_labeled' \in Seq(Entries)
        /\ \A k \in 1 .. at : exc_labeled'[k] = exc_labeled[k]
        /\ exc_labeled'[m] = new
    <3> HIDE DEF new
    <3> QED BY <1>1, <1>2, <2>0, AppendFacts
  <2>2. \A k \in 1 .. at : EntryRight(k)'
    <3>1. \A k \in 1 .. at : EntryRight(k)
      BY <1>1 DEF DecodeInv, EntriesRight
    <3> TAKE k \in 1 .. at
    <3>2. EntryRight(k) /\ exc_labeled'[k] = exc_labeled[k] /\ co'.table[k] = co.table[k]
      BY <1>1, <2>1, <3>1
    <3>3. \A y \in DOMAIN off_to_label : /\ y \in DOMAIN off_to_label'
                                          /\ off_to_label'[y] = off_to_label[y]
      BY <1>2, <1>4, <1>8 DEF Grown
    <3> QED BY <3>2, <3>3 DEF EntryRight
  <2>3. EntryRight(m)'
    <3>1. /\ exc_labeled'[m].start_lbl = q.map[e.start]
          /\ exc_labeled'[m].stop_lbl = q.map[e.stop]
          /\ exc_labeled'[m].handler_lbl = q.map[e.handler]
      BY <2>1
    <3>2. co'.table[m] = e
      BY <1>1
    <3> QED BY <1>2, <2>5, <3>1, <3>2 DEF EntryRight
  <2>4. \A k \in 1 .. m : k \in 1 .. at \/ k = m
    BY <1>1
  <2> QED BY <1>1, <2>1, <2>2, <2>3, <2>4 DEF EntriesRight
<1> QED BY <1>9, <1>10, <1>11, <1>12 DEF DecodeInv

LEMMA AttachKeeps == ASSUME DecodeInv, Attach PROVE DecodeInv'
<1>1. /\ stage = "table" /\ stage' = "decoded" /\ at = Len(co.table) /\ nwords' = nwords
      /\ at' \in 0 .. Len(co.table)
      /\ UNCHANGED <<co, at, extended_arg, ext_start, instrs, idx_to_off, idx_to_nextoff,
                     offset_to_label, off_to_label, next_label_id, exc_labeled>>
  BY DEF Attach, DecodeInv, Shape, nwords
<1>2. /\ Count' = Count /\ Places' = Places /\ \A y : PlacesAt(y)' = PlacesAt(y)
      /\ Shape' /\ Pending' /\ Parsed' /\ \A k \in 1 .. Count : ArgRight(k)'
  BY <1>1, TableKeeps
<1>3. LabelMaps'
  BY <1>1 DEF DecodeInv, LabelMaps
<1>4. LabelsRight'
  <2>1. \A p \in Places :
           labels[p] = {v \in 0 .. next_label_id - 1 : Named(offset_to_label, v, p)}
    BY <1>1 DEF DecodeInv, LabelsRight
  <2>2. /\ DOMAIN labels' = Places
        /\ \A p \in Places : labels'[p] = labels[p] \cup
              {off_to_label[x] : x \in {y \in DOMAIN off_to_label : p \in PlacesAt(y)}}
    BY DEF Attach
  <2>3. \A v, p : /\ Named(offset_to_label, v, p)' <=> Named(offset_to_label, v, p)
                  /\ Named(off_to_label, v, p)' <=> Named(off_to_label, v, p)
    BY <1>1, <1>2 DEF Named
  <2>4. \A v, p : Named(off_to_label, v, p) => v \in 0 .. next_label_id - 1
    BY DEF DecodeInv, LabelMaps, IsLabelMap, Named
  <2>5. \A p : {off_to_label[x] : x \in {y \in DOMAIN off_to_label : p \in PlacesAt(y)}}
                 = {v \in 0 .. next_label_id - 1 : Named(off_to_label, v, p)}
    BY <2>4 DEF Named
  <2>6. \A p \in Places' :
           labels'[p] = {v \in 0 .. next_label_id' - 1 :
                           Named(offset_to_label, v, p)' \/ Named(off_to_label, v, p)'}
    BY <1>1, <1>2, <2>1, <2>2, <2>3, <2>5
  <2> QED BY <1>1, <1>2, <2>2, <2>6 DEF LabelsRight
<1>5. EntriesRight'
  BY <1>1 DEF DecodeInv, EntriesRight, EntryRight
<1> QED BY <1>2, <1>3, <1>4, <1>5 DEF DecodeInv

LEMMA DecodeStep == ASSUME DecodeInv, Decode PROVE DecodeInv'
BY SkipKeeps, FoldKeeps, InstrKeeps, ScanDoneKeeps, LabelJumpKeeps, KeepArgKeeps,
   JumpsDoneKeeps, LabelEntryKeeps, AttachKeeps DEF Decode

-----------------------------------------------------------------------------
(***************************************************************************)
(* The code taken apart: place j starts at OffAt(j), and the places are    *)
(* the starts of the instructions, in order.                               *)
(***************************************************************************)
OffAt(j) == IF j < Count THEN idx_to_off[j + 1] ELSE nwords

LEMMA DecodedFacts ==
    ASSUME DecodeInv, stage = "decoded"
    PROVE  /\ Count \in Nat /\ nwords \in Nat /\ nwords = Size(co)
           /\ co \in CodeObjects /\ IsCodeObject(co) /\ WellFormed(co)
           /\ \A k \in 1 .. Count :
                 /\ OpPos(k) \in OpWords(co) /\ OpPos(k) \in Nat /\ OpPos(k) < nwords
                 /\ instrs[k].op = OpAt(co, OpPos(k)) /\ instrs[k].op \in Op
                 /\ idx_to_off[k] \in Nat /\ idx_to_off[k] <= OpPos(k)
                 /\ OpPos(k) <= idx_to_off[k] + 3
                 /\ StartsAt(co, idx_to_off[k], OpPos(k))
                 /\ StartOf(co, OpPos(k)) = idx_to_off[k]
                 /\ CacheSize[instrs[k].op] \in 0 .. MaxCache
                 /\ idx_to_nextoff[k] = OpPos(k) + 1 + CacheSize[instrs[k].op]
                 /\ NextAt(co, OpPos(k)) = idx_to_nextoff[k]
           /\ \A k, m \in 1 .. Count : k < m => OpPos(k) < idx_to_off[m]
           /\ \A i \in OpWords(co) : \E k \in 1 .. Count : OpPos(k) = i
<1>1. /\ Count \in Nat /\ nwords \in Nat /\ nwords = Size(co)
      /\ co \in CodeObjects /\ IsCodeObject(co) /\ WellFormed(co) /\ Scanned = nwords
  BY CodeFacts DEF DecodeInv, Shape, Count, Scanned
<1>2. ASSUME NEW k \in 1 .. Count
      PROVE  /\ OpPos(k) \in OpWords(co) /\ OpPos(k) \in Nat /\ OpPos(k) < nwords
             /\ instrs[k].op = OpAt(co, OpPos(k)) /\ instrs[k].op \in Op
             /\ idx_to_off[k] \in Nat /\ idx_to_off[k] <= OpPos(k)
             /\ OpPos(k) <= idx_to_off[k] + 3
             /\ StartsAt(co, idx_to_off[k], OpPos(k))
             /\ StartOf(co, OpPos(k)) = idx_to_off[k]
             /\ CacheSize[instrs[k].op] \in 0 .. MaxCache
             /\ idx_to_nextoff[k] = OpPos(k) + 1 + CacheSize[instrs[k].op]
             /\ NextAt(co, OpPos(k)) = idx_to_nextoff[k]
  <2> PICK p : p = OpPos(k)
    OBVIOUS
  <2> PICK b : b = idx_to_off[k]
    OBVIOUS
  <2>1. /\ p \in OpWords(co) /\ p < nwords /\ instrs[k].op = OpAt(co, p)
        /\ b \in 0 .. p /\ StartsAt(co, b, p) /\ idx_to_nextoff[k] \in Int
    BY <1>1 DEF DecodeInv, Parsed, Found, Shape
  <2>2. p \in Nat /\ instrs[k].op \in Op
    BY <1>1, <2>1, WordFacts
  <2>3. b \in Nat /\ b <= p /\ StartOf(co, p) = b /\ p <= b + 3
    <3>1. b \in Nat /\ b <= p
      BY <2>1, <2>2
    <3>2. StartOf(co, p) = b
      BY <2>1, <2>2, StartOfIs
    <3>3. \A j \in b .. p - 1 : IsPrefixWord(co, j)
      BY <2>1 DEF StartsAt
    <3>4. p <= b + 3
      BY <1>1, <2>2, <3>1, <3>3, ChainBound
    <3> QED BY <3>1, <3>2, <3>4
  <2> PICK C : C = CacheSize[instrs[k].op]
    OBVIOUS
  <2>4. C \in 0 .. MaxCache
    BY <2>2, OpAssumption, WidthAssumption
  <2>5. p = idx_to_nextoff[k] - 1 - C
    BY DEF OpPos
  <2>6. idx_to_nextoff[k] = p + 1 + C
    BY <2>1, <2>2, <2>4, <2>5, WidthAssumption
  <2> QED BY <2>1, <2>2, <2>3, <2>4, <2>6 DEF NextAt
<1>3. \A i \in OpWords(co) : i < nwords
  BY <1>1, WordFacts
<1> QED BY <1>1, <1>2, <1>3 DEF DecodeInv, Parsed

LEMMA OffFacts ==
    ASSUME DecodeInv, stage = "decoded"
    PROVE  /\ \A j \in 0 .. Count : OffAt(j) \in 0 .. nwords /\ OffAt(j) \in Nat
           /\ \A j, k \in 0 .. Count : j < k => OffAt(j) < OffAt(k)
           /\ \A k \in 1 .. Count : OffAt(k - 1) = idx_to_off[k]
           /\ OffAt(Count) = nwords
<1>1. Count \in Nat /\ nwords \in Nat
  BY DecodedFacts
<1>2. \A k \in 1 .. Count : OffAt(k - 1) = idx_to_off[k]
  <2> TAKE k \in 1 .. Count
  <2>1. k - 1 + 1 = k /\ k - 1 < Count
    BY <1>1
  <2> QED BY <2>1 DEF OffAt
<1>3. OffAt(Count) = nwords
  BY <1>1 DEF OffAt
<1>4. \A k \in 1 .. Count : idx_to_off[k] \in Nat /\ idx_to_off[k] < nwords
  BY <1>1, DecodedFacts
<1>5. \A k, m \in 1 .. Count : k < m => idx_to_off[k] < idx_to_off[m]
  BY <1>1, DecodedFacts
<1>6. \A j \in 0 .. Count : j = Count \/ (j + 1 \in 1 .. Count /\ j < Count)
  BY <1>1
<1>7. \A j \in 0 .. Count : OffAt(j) \in 0 .. nwords /\ OffAt(j) \in Nat
  BY <1>1, <1>3, <1>4, <1>6 DEF OffAt
<1>8. ASSUME NEW j \in 0 .. Count, NEW k \in 0 .. Count, j < k PROVE OffAt(j) < OffAt(k)
  <2>1. j + 1 \in 1 .. Count /\ OffAt(j) = idx_to_off[j + 1]
    BY <1>1, <1>8 DEF OffAt
  <2>2. CASE k = Count
    BY <1>3, <1>4, <2>1, <2>2
  <2>3. CASE k # Count
    <3>1. k + 1 \in 1 .. Count /\ OffAt(k) = idx_to_off[k + 1] /\ j + 1 < k + 1
      BY <1>1, <1>8, <2>3 DEF OffAt
    <3> QED BY <1>5, <2>1, <3>1
  <2> QED BY <2>2, <2>3
<1> QED BY <1>2, <1>3, <1>7, <1>8

LEMMA StartsIs ==
    ASSUME DecodeInv, stage = "decoded"
    PROVE  /\ \A x \in Starts(co) : \E j \in 0 .. Count : x = OffAt(j)
           /\ \A j \in 0 .. Count : OffAt(j) \in Starts(co)
<1>1. Count \in Nat /\ nwords = Size(co)
  BY DecodedFacts
<1>2. ASSUME NEW i \in OpWords(co) PROVE \E j \in 0 .. Count : StartOf(co, i) = OffAt(j)
  <2>1. PICK k \in 1 .. Count : OpPos(k) = i
    BY DecodedFacts
  <2>2. StartOf(co, i) = idx_to_off[k] /\ OffAt(k - 1) = idx_to_off[k]
    BY <2>1, DecodedFacts, OffFacts
  <2>3. k - 1 \in 0 .. Count
    BY <1>1
  <2> QED BY <2>2, <2>3
<1>3. Count \in 0 .. Count /\ OffAt(Count) = Size(co)
  BY <1>1, OffFacts
<1>4. ASSUME NEW j \in 0 .. Count PROVE OffAt(j) \in Starts(co)
  <2>1. CASE j = Count
    BY <1>3, <2>1 DEF Starts
  <2>2. CASE j # Count
    <3>1. j + 1 \in 1 .. Count /\ OffAt(j) = idx_to_off[j + 1]
      BY <1>1, <2>2 DEF OffAt
    <3>2. OpPos(j + 1) \in OpWords(co) /\ StartOf(co, OpPos(j + 1)) = OffAt(j)
      BY <3>1, DecodedFacts
    <3> QED BY <3>2 DEF Starts
  <2> QED BY <2>1, <2>2
<1> QED BY <1>2, <1>3, <1>4 DEF Starts

LEMMA OriginalAtIs ==
    ASSUME DecodeInv, stage = "decoded", NEW k \in 0 .. Count
    PROVE  OriginalAt(k) = OffAt(k)
<1> PICK f : f = [j \in 0 .. Count |-> OffAt(j)]
  OBVIOUS
<1> PICK T : T = Starts(co)
  OBVIOUS
<1> PICK N : N = Count
  OBVIOUS
<1>1. N \in Nat /\ f \in [0 .. N -> Int]
  BY DecodedFacts, OffFacts
<1>2. \A i, j \in 0 .. N : i < j => f[i] < f[j]
  BY OffFacts
<1>3. T = {f[j] : j \in 0 .. N}
  BY StartsIs
<1>4. ASSUME NEW m \in 0 .. N PROVE Cardinality({r \in T : r < f[m]}) = m
  <2>1. Lists(f, N, T)
    BY <1>1, <1>2, <1>3 DEF Lists
  <2> QED BY <1>1, <2>1, Counting
<1>5. \A x \in T : Cardinality({r \in T : r < x}) = k => x = f[k]
  BY <1>3, <1>4
<1>6. f[k] \in T /\ Cardinality({r \in T : r < f[k]}) = k
  BY <1>3, <1>4
<1>7. OriginalAt(k) = CHOOSE x \in T : Cardinality({r \in T : r < x}) = k
  BY DEF OriginalAt
<1> QED BY <1>5, <1>6, <1>7

LEMMA OpWordIs ==
    ASSUME DecodeInv, stage = "decoded", NEW k \in 0 .. Count - 1
    PROVE  OpWordOf(k) = OpPos(k + 1) /\ OriginalAt(k) = idx_to_off[k + 1]
<1>1. Count \in Nat /\ k + 1 \in 1 .. Count /\ k \in 0 .. Count
  BY DecodedFacts
<1>2. OriginalAt(k) = idx_to_off[k + 1]
  BY <1>1, OriginalAtIs DEF OffAt
<1>3. OpPos(k + 1) \in OpWords(co) /\ StartOf(co, OpPos(k + 1)) = OriginalAt(k)
  BY <1>1, <1>2, DecodedFacts
<1>4. ASSUME NEW i \in OpWords(co), StartOf(co, i) = OriginalAt(k) PROVE i = OpPos(k + 1)
  <2>1. PICK m \in 1 .. Count : OpPos(m) = i
    BY DecodedFacts
  <2>2. idx_to_off[m] = idx_to_off[k + 1]
    BY <1>2, <1>4, <2>1, DecodedFacts
  <2>3. m - 1 \in 0 .. Count /\ OffAt(m - 1) = OffAt(k)
    BY <1>1, <2>2, OffFacts DEF OffAt
  <2>4. m - 1 = k
    BY <1>1, <2>3, OffFacts
  <2>5. m = k + 1
    BY <1>1, <2>4
  <2> QED BY <2>1, <2>5
<1>5. OpWordOf(k) = OpPos(k + 1)
  BY <1>3, <1>4 DEF OpWordOf
<1> QED BY <1>2, <1>5

LEMMA CountIs ==
    ASSUME DecodeInv, stage = "decoded"
    PROVE  Count = Cardinality(OpWords(co))
<1> PICK N : N = Count
  OBVIOUS
<1> PICK T : T = OpWords(co)
  OBVIOUS
<1> PICK g : g = [k \in 1 .. N |-> OpPos(k)]
  OBVIOUS
<1>1. N \in Nat
  BY DecodedFacts
<1>2. g \in Bijection(1 .. N, T)
  <2>1. \A k \in 1 .. N : g[k] \in T
    BY DecodedFacts
  <2>2. \A i \in T : \E k \in 1 .. N : g[k] = i
    BY DecodedFacts
  <2>3. \A k, m \in 1 .. N : k < m => g[k] < g[m] /\ g[k] # g[m]
    BY DecodedFacts
  <2>4. \A k, m \in 1 .. N : g[k] = g[m] => k = m
    <3>1. \A k, m \in 1 .. N : k < m \/ m < k \/ k = m
      OBVIOUS
    <3> QED BY <2>3, <3>1
  <2>5. g \in [1 .. N -> T]
    BY <2>1
  <2> QED BY <2>2, <2>4, <2>5 DEF Bijection, Injection, Surjection, IsInjective
<1>3. ExistsBijection(1 .. N, T)
  BY <1>2 DEF ExistsBijection
<1>4. IsFiniteSet(1 .. N) /\ Cardinality(1 .. N) = N
  <2>1. 1 \in Int /\ N \in Int
    BY <1>1
  <2>2. IsFiniteSet(1 .. N) /\ Cardinality(1 .. N) = IF 1 > N THEN 0 ELSE N - 1 + 1
    BY <2>1, FS_Interval, Zenon
  <2>3. (IF 1 > N THEN 0 ELSE N - 1 + 1) = N
    BY <1>1
  <2> QED BY <2>2, <2>3
<1> QED BY <1>3, <1>4, FS_Bijection

LEMMA PlacesIs ==
    ASSUME DecodeInv, stage = "decoded", NEW j \in 0 .. Count
    PROVE  PlacesAt(OffAt(j)) = {j}
<1>1. Count \in Nat /\ OffAt(Count) = nwords
  BY DecodedFacts, OffFacts
<1>2. \A k \in 0 .. Count : OffAt(k) = OffAt(j) => k = j
  BY <1>1, OffFacts
<1>3. \A k \in 0 .. Count - 1 : k \in 0 .. Count /\ OffAt(k) = idx_to_off[k + 1]
  BY <1>1 DEF OffAt
<1>4. \A k \in PlacesAt(OffAt(j)) : k = j
  <2> TAKE k \in PlacesAt(OffAt(j))
  <2>1. CASE k \in 0 .. Count - 1 /\ idx_to_off[k + 1] = OffAt(j)
    BY <1>2, <1>3, <2>1
  <2>2. CASE k = Count /\ OffAt(j) = nwords
    BY <1>1, <1>2, <2>2
  <2> QED BY <2>1, <2>2 DEF PlacesAt
<1>5. j \in PlacesAt(OffAt(j))
  <2>1. CASE j = Count
    BY <1>1, <2>1 DEF PlacesAt
  <2>2. CASE j # Count
    <3>1. j \in 0 .. Count - 1
      BY <1>1, <2>2
    <3> QED BY <1>3, <3>1 DEF PlacesAt
  <2> QED BY <2>1, <2>2
<1> QED BY <1>4, <1>5

\* A label is attached to one place, the one its offset is the start of.
LEMMA LabelIs ==
    ASSUME DecodeInv, stage = "decoded", NEW x, NEW l,
           \/ x \in DOMAIN offset_to_label /\ l = offset_to_label[x]
           \/ x \in DOMAIN off_to_label /\ l = off_to_label[x]
    PROVE  /\ LabelPlaces(l) # {} /\ LabelIndex(l) \in 0 .. Count
           /\ x = OffAt(LabelIndex(l))
<1>1. x \in Starts(co) /\ l \in 0 .. next_label_id - 1
  BY DEF DecodeInv, LabelMaps, IsLabelMap
<1>2. PICK j \in 0 .. Count : x = OffAt(j)
  BY <1>1, StartsIs
<1>3. PlacesAt(x) = {j}
  BY <1>2, PlacesIs
<1>4. \A p \in Places : l \in labels[p] <=>
          Named(offset_to_label, l, p) \/ Named(off_to_label, l, p)
  BY <1>1 DEF DecodeInv, LabelsRight
<1>5. \A p \in Places : (Named(offset_to_label, l, p) \/ Named(off_to_label, l, p))
                           <=> p \in PlacesAt(x)
  <2>1. CASE x \in DOMAIN offset_to_label /\ l = offset_to_label[x]
    <3>1. \A y \in DOMAIN offset_to_label : offset_to_label[y] = l => y = x
      BY <2>1 DEF DecodeInv, LabelMaps, IsLabelMap
    <3>2. \A y \in DOMAIN off_to_label : off_to_label[y] # l
      BY <2>1 DEF DecodeInv, LabelMaps, Apart
    <3> QED BY <2>1, <3>1, <3>2 DEF Named
  <2>2. CASE x \in DOMAIN off_to_label /\ l = off_to_label[x]
    <3>1. \A y \in DOMAIN off_to_label : off_to_label[y] = l => y = x
      BY <2>2 DEF DecodeInv, LabelMaps, IsLabelMap
    <3>2. \A y \in DOMAIN offset_to_label : offset_to_label[y] # l
      BY <2>2 DEF DecodeInv, LabelMaps, Apart
    <3> QED BY <2>2, <3>1, <3>2 DEF Named
  <2> QED BY <2>1, <2>2
<1>6. LabelPlaces(l) = {j}
  BY <1>2, <1>3, <1>4, <1>5 DEF LabelPlaces, Places
<1>7. LabelIndex(l) = j
  <2>1. \A q \in {j} : q <= j
    BY <1>2
  <2>2. LabelIndex(l) = CHOOSE p \in {j} : \A q \in {j} : q <= p
    BY <1>6 DEF LabelIndex
  <2> QED BY <2>1, <2>2
<1> QED BY <1>2, <1>6, <1>7

\* Every word but a CACHE one is a prefix of an instruction, or its op.
LEMMA Covered ==
    ASSUME DecodeInv, stage = "decoded", NEW w \in 0 .. nwords - 1, OpAt(co, w) # CACHE
    PROVE  \E k \in 1 .. Count : idx_to_off[k] <= w /\ w <= OpPos(k)
<1>1. /\ IsCodeObject(co) /\ WellFormed(co) /\ nwords = Size(co) /\ nwords \in Nat /\ w \in Nat
      /\ w \in 0 .. Size(co) - 1
  BY DecodedFacts
<1>2. CASE ~ IsPrefixWord(co, w)
  <2>1. w \in OpWords(co)
    BY <1>1, <1>2 DEF OpWords, IsPrefixWord
  <2>2. PICK k \in 1 .. Count : OpPos(k) = w
    BY <2>1, DecodedFacts
  <2> QED BY <2>2, DecodedFacts
<1>3. CASE IsPrefixWord(co, w)
  <2> PICK B : B = {j \in w + 1 .. w + 3 : ~ IsPrefixWord(co, j)}
    OBVIOUS
  <2>1. B \in SUBSET Nat /\ B # {}
    BY <1>1, <1>3 DEF WellFormed
  <2>2. PICK i \in B : \A j \in B : i <= j
    BY <2>1, LeastMember
  <2>3. i \in w + 1 .. w + 3 /\ ~ IsPrefixWord(co, i) /\ i \in Nat
    BY <2>1, <2>2
  <2>4. \A j \in w .. i - 1 : IsPrefixWord(co, j)
    <3> TAKE j \in w .. i - 1
    <3>1. j = w \/ j \in w + 1 .. w + 3
      BY <1>1, <2>3
    <3>2. ~ (i <= j)
      BY <1>1, <2>3
    <3> QED BY <1>3, <2>2, <3>1, <3>2
  <2>5. IsPrefixWord(co, i - 1) /\ i - 1 \in 0 .. Size(co) - 1 /\ i - 1 + 1 = i
    <3>1. i - 1 \in w .. i - 1 /\ i - 1 + 1 = i
      BY <1>1, <2>3
    <3> QED BY <2>4, <3>1 DEF IsPrefixWord
  <2>6. i < Size(co) /\ OpAt(co, i) # CACHE
    BY <1>1, <2>5 DEF WellFormed
  <2>7. i \in OpWords(co)
    BY <1>1, <2>3, <2>6 DEF OpWords, IsPrefixWord
  <2>8. PICK k \in 1 .. Count : OpPos(k) = i
    BY <2>7, DecodedFacts
  <2> PICK b : b = idx_to_off[k]
    OBVIOUS
  <2>9. b \in Nat /\ StartsAt(co, b, i)
    BY <2>8, DecodedFacts
  <2>10. b <= w
    <3>1. w < b => b - 1 \in w .. i - 1 \/ i < b
      BY <1>1, <2>3, <2>9
    <3>2. ~ IsPrefixWord(co, b - 1)
      BY <2>9 DEF StartsAt
    <3>3. b <= i
      BY <2>8, DecodedFacts
    <3> QED BY <1>1, <2>3, <2>4, <2>9, <3>1, <3>2, <3>3
  <2> QED BY <1>1, <2>3, <2>8, <2>10
<1> QED BY <1>2, <1>3

\* Nothing lies between the CACHE words of an instruction and the next.
LEMMA Adjacent ==
    ASSUME DecodeInv, stage = "decoded"
    PROVE  /\ OffAt(0) = 0
           /\ \A k \in 1 .. Count : OffAt(k) = idx_to_nextoff[k]
<1>0. /\ Count \in Nat /\ nwords \in Nat /\ nwords = Size(co) /\ WellFormed(co)
      /\ OffAt(Count) = nwords
  BY DecodedFacts, OffFacts
<1>1. OffAt(0) = 0
  <2>1. CASE nwords = 0
    <3>1. OffAt(0) \in 0 .. nwords
      BY <1>0, OffFacts
    <3> QED BY <2>1, <3>1
  <2>2. CASE nwords # 0
    <3>1. 0 \in 0 .. nwords - 1 /\ OpAt(co, 0) # CACHE
      BY <1>0, <2>2 DEF WellFormed
    <3>2. PICK k \in 1 .. Count : idx_to_off[k] <= 0
      BY <3>1, Covered
    <3>3. idx_to_off[k] = 0 /\ OffAt(k - 1) = 0 /\ k - 1 \in 0 .. Count /\ 0 \in 0 .. Count
      BY <1>0, <3>2, DecodedFacts, OffFacts
    <3>4. ~ (0 < k - 1)
      <4>1. OffAt(0) \in Nat
        BY <3>3, OffFacts
      <4>2. 0 < k - 1 => OffAt(0) < OffAt(k - 1)
        BY <3>3, OffFacts
      <4> QED BY <3>3, <4>1, <4>2
    <3>5. k - 1 = 0
      BY <3>3, <3>4
    <3> QED BY <3>3, <3>5
  <2> QED BY <2>1, <2>2
<1>2. ASSUME NEW k \in 1 .. Count PROVE OffAt(k) = idx_to_nextoff[k]
  <2> PICK p : p = OpPos(k)
    OBVIOUS
  <2> PICK w : w = idx_to_nextoff[k]
    OBVIOUS
  <2>1. /\ p \in OpWords(co) /\ p \in Nat /\ w = NextAt(co, p) /\ p < w /\ w \in Nat
        /\ k \in 0 .. Count
    <3>1. /\ p \in OpWords(co) /\ p \in Nat /\ w = NextAt(co, p)
          /\ w = p + 1 + CacheSize[instrs[k].op] /\ CacheSize[instrs[k].op] \in 0 .. MaxCache
      BY DecodedFacts
    <3> QED BY <1>0, <3>1, WidthAssumption
  <2>2. /\ w <= nwords /\ (w < nwords => OpAt(co, w) # CACHE)
        /\ \A j \in p + 1 .. w - 1 : OpAt(co, j) = CACHE
    BY <1>0, <2>1 DEF WellFormed
  <2>3. w <= OffAt(k)
    <3>1. CASE k = Count
      BY <1>0, <2>2, <3>1
    <3>2. CASE k # Count
      <4> PICK b : b = idx_to_off[k + 1]
        OBVIOUS
      <4> PICK i : i = OpPos(k + 1)
        OBVIOUS
      <4>1. /\ k + 1 \in 1 .. Count /\ OffAt(k) = b /\ b \in Nat /\ p < b /\ b <= i /\ i \in Nat
            /\ StartsAt(co, b, i) /\ i \in OpWords(co)
        <5>1. k + 1 \in 1 .. Count /\ k < k + 1 /\ k < Count
          BY <1>0, <3>2
        <5> QED BY <5>1, DecodedFacts DEF OffAt
      <4>2. OpAt(co, b) # CACHE
        <5>1. CASE b = i
          BY <4>1, <5>1 DEF OpWords
        <5>2. CASE b # i
          <6>1. b \in b .. i - 1
            BY <4>1, <5>2
          <6>2. OpAt(co, b) = EXTENDED_ARG
            BY <4>1, <6>1 DEF StartsAt, IsPrefixWord
          <6> QED BY <6>2, OpAssumption
        <5> QED BY <5>1, <5>2
      <4>3. ~ (b \in p + 1 .. w - 1)
        BY <2>2, <4>2
      <4> QED BY <2>1, <4>1, <4>3
    <3> QED BY <3>1, <3>2
  <2>4. OffAt(k) <= w
    <3>1. CASE w = nwords
      BY <2>1, <3>1, OffFacts
    <3>2. CASE w # nwords
      <4>1. w \in 0 .. nwords - 1 /\ OpAt(co, w) # CACHE
        BY <1>0, <2>1, <2>2, <3>2
      <4>2. PICK m \in 1 .. Count : idx_to_off[m] <= w /\ w <= OpPos(m)
        BY <4>1, Covered
      <4>3. /\ m - 1 \in 0 .. Count /\ OffAt(m - 1) = idx_to_off[m] /\ OffAt(m - 1) <= w
            /\ OpPos(m) \in Nat /\ OffAt(k) \in Nat /\ OffAt(m - 1) \in Nat
        BY <1>0, <2>1, <4>2, DecodedFacts, OffFacts
      <4>4. k <= m - 1
        <5>1. ~ (m < k)
          <6>1. m < k => OpPos(m) < idx_to_off[k] /\ idx_to_off[k] <= p /\ idx_to_off[k] \in Nat
            BY DecodedFacts
          <6> QED BY <2>1, <4>2, <4>3, <6>1
        <5>2. m # k
          BY <2>1, <4>2
        <5> QED BY <5>1, <5>2
      <4>5. OffAt(k) <= OffAt(m - 1)
        <5>1. k < m - 1 => OffAt(k) < OffAt(m - 1)
          BY <2>1, <4>3, OffFacts
        <5>2. k = m - 1 \/ k < m - 1
          BY <4>4
        <5> QED BY <4>3, <5>1, <5>2
      <4> QED BY <2>1, <4>3, <4>5
    <3> QED BY <3>1, <3>2
  <2>5. OffAt(k) \in Nat
    BY <2>1, OffFacts
  <2> QED BY <2>1, <2>3, <2>4, <2>5
<1> QED BY <1>1, <1>2

-----------------------------------------------------------------------------
(***************************************************************************)
(* The code put together: what Relaxation_proofs proves holds of any slots *)
(* and any layouts, those of a decoded code object among them.             *)
(***************************************************************************)
Maps(S) == UNION {[0 .. m - 1 -> S] : m \in Nat}

AllPrograms ==
    {p \in [n : Nat, kind : Maps(Assembly!Kinds), cache : Maps(Int), int : Maps(Int),
            target : Maps(Int)] : Assembly!IsProgram(p)}

AllLayouts(p) ==
    [ext : [0 .. p.n - 1 -> Assembly!Exts], offset : [0 .. p.n -> 0 .. ArgModulus - 1]]

Asm == INSTANCE Relaxation_proofs WITH Programs <- AllPrograms, Layouts <- AllLayouts

LEMMA AsmAssumptions ==
    /\ Capacity \in [Asm!Exts -> Nat \ {0}]
    /\ Capacity[0] < Capacity[1] /\ Capacity[1] < Capacity[2] /\ Capacity[2] < Capacity[3]
    /\ MaxCache \in Nat
    /\ ArgModulus \in Nat \ {0} /\ ArgModulus <= Capacity[3]
    /\ \A p \in AllPrograms : Asm!IsProgram(p)
    /\ \A p \in AllPrograms : \A l \in AllLayouts(p) :
          /\ l.ext \in [0 .. p.n - 1 -> Asm!Exts]
          /\ l.offset \in [0 .. p.n -> 0 .. ArgModulus - 1]
<1>1. Asm!Exts = 0 .. 3 /\ Assembly!Exts = 0 .. 3
  BY DEF Asm!Exts, Assembly!Exts
<1>2. \A p : Asm!IsProgram(p) <=> Assembly!IsProgram(p)
  BY DEF Asm!IsProgram, Assembly!IsProgram, Asm!Kinds, Assembly!Kinds
<1>3. \A p \in AllPrograms : Asm!IsProgram(p)
  BY <1>2 DEF AllPrograms
<1>4. \A p \in AllPrograms : \A l \in AllLayouts(p) :
          /\ l.ext \in [0 .. p.n - 1 -> Asm!Exts]
          /\ l.offset \in [0 .. p.n -> 0 .. ArgModulus - 1]
  BY <1>1 DEF AllLayouts
<1> QED BY <1>1, <1>3, <1>4, CapacityFacts, WidthAssumption

AsmInv == Asm!IInv /\ Asm!EmitInv /\ Asm!LeastInv

LEMMA AsmInit == Asm!Init => AsmInv
<1> SUFFICES ASSUME Asm!Init PROVE AsmInv
  OBVIOUS
<1>1. Asm!IInv
  BY AsmAssumptions, Asm!InvInit
<1>2. Asm!EmitInv
  BY DEF Asm!Init, Asm!EmitInv
<1>3. Asm!LeastInv
  BY AsmAssumptions, Asm!LeastInit
<1> QED BY <1>1, <1>2, <1>3 DEF AsmInv

LEMMA AsmStep == ASSUME AsmInv, [Asm!Next]_asmVars PROVE AsmInv'
<1>1. [Asm!Next]_asmVars
  OBVIOUS
<1>2. Asm!IInv'
  BY AsmAssumptions, Asm!InvStep, <1>1 DEF AsmInv, Asm!vars, asmVars
<1>3. Asm!EmitInv'
  BY AsmAssumptions, Asm!EmitInvStep, <1>1 DEF AsmInv, Asm!vars, asmVars
<1>4. Asm!LeastInv'
  BY AsmAssumptions, Asm!LeastStep, <1>1 DEF AsmInv, Asm!vars, asmVars
<1> QED BY <1>2, <1>3, <1>4 DEF AsmInv

LEMMA AsmInitPrimed == Asm!Init' => AsmInv'
BY AsmInit, PTL

LEMMA WidthSum ==
    \A q, c, a, m \in Nat : q <= a + 3 /\ c <= m => q + 1 + c <= a + (4 + m)
  OBVIOUS

\* No instruction takes more words than the widest one.
LEMMA SpanBound ==
    ASSUME DecodeInv, stage = "decoded"
    PROVE  /\ \A j \in 0 .. Count : OffAt(j) <= j * (4 + MaxCache)
           /\ Count * (4 + MaxCache) < ArgModulus
           /\ \A j \in 0 .. Count : OffAt(j) \in 0 .. ArgModulus - 1
<1> PICK K : K = 4 + MaxCache
  OBVIOUS
<1> PICK f : f = [j \in 0 .. Count |-> OffAt(j)]
  OBVIOUS
<1> PICK N : N = Count
  OBVIOUS
<1>1. N \in Nat /\ K \in Nat /\ \A j \in 0 .. N : f[j] \in Nat /\ f[j] = OffAt(j)
  BY DecodedFacts, OffFacts, WidthAssumption
<1>2. f[0] = 0
  BY <1>1, Adjacent
<1>3. \A j \in 1 .. N : f[j] <= f[j - 1] + K
  <2> TAKE j \in 1 .. N
  <2> PICK p : p = OpPos(j)
    OBVIOUS
  <2> PICK C : C = CacheSize[instrs[j].op]
    OBVIOUS
  <2>1. /\ j \in 0 .. N /\ j - 1 \in 0 .. N /\ f[j - 1] = idx_to_off[j]
        /\ f[j] = idx_to_nextoff[j]
    BY <1>1, OffFacts, Adjacent
  <2>2. p \in Nat /\ p <= idx_to_off[j] + 3 /\ idx_to_nextoff[j] = p + 1 + C
        /\ C \in 0 .. MaxCache /\ idx_to_off[j] \in Nat
    BY DecodedFacts
  <2> PICK a : a = idx_to_off[j]
    OBVIOUS
  <2>3. a \in Nat /\ C \in Nat /\ MaxCache \in Nat /\ C <= MaxCache
    BY <2>2, WidthAssumption
  <2>4. p \in Nat /\ p <= a + 3
    BY <2>2
  <2>6. p + 1 + C <= a + (4 + MaxCache)
    BY <2>3, <2>4, WidthSum
  <2>5. f[j] = p + 1 + C /\ f[j - 1] = a
    BY <2>1, <2>2
  <2> QED BY <2>5, <2>6
<1> PICK B : B = {j \in 0 .. N : ~ (f[j] <= j * K)}
  OBVIOUS
<1>4. B = {}
  <2> SUFFICES ASSUME B # {} PROVE FALSE
    OBVIOUS
  <2>1. B \in SUBSET Nat
    BY <1>1
  <2>2. PICK j \in B : \A i \in B : j <= i
    BY <2>1, LeastMember
  <2>3. j \in 0 .. N /\ j # 0 /\ ~ (f[j] <= j * K)
    BY <1>1, <1>2, <2>2
  <2>4. j - 1 \in 0 .. N /\ j - 1 \notin B /\ j \in 1 .. N
    BY <1>1, <2>2, <2>3
  <2>5. f[j - 1] <= (j - 1) * K
    BY <2>4
  <2>6. (j - 1) * K + K = j * K /\ (j - 1) * K \in Nat
    BY <1>1, <2>3
  <2>7. f[j] <= f[j - 1] + K /\ f[j] \in Nat /\ f[j - 1] \in Nat
    BY <1>1, <1>3, <2>4
  <2> QED BY <1>1, <2>3, <2>5, <2>6, <2>7
<1>5. \A j \in 0 .. N : f[j] <= j * K
  BY <1>4
<1>6. N * K < ArgModulus
  BY CountIs, DecodedFacts DEF WellFormed
<1>7. ASSUME NEW j \in 0 .. N PROVE f[j] \in 0 .. ArgModulus - 1
  <2>1. f[j] <= f[N]
    <3>1. j = N \/ j < N
      BY <1>1
    <3>2. N \in 0 .. N
      BY <1>1
    <3>3. j < N => f[j] < f[N]
      BY <1>1, <3>2, OffFacts
    <3> QED BY <1>1, <3>1, <3>2, <3>3
  <2>2. f[N] <= N * K /\ N \in 0 .. N /\ N * K \in Nat /\ f[N] \in Nat /\ f[j] \in Nat
    BY <1>1, <1>5
  <2> QED BY <1>6, <2>1, <2>2, WidthAssumption
<1> QED BY <1>1, <1>5, <1>6, <1>7

\* The op word of instruction k (from 0) and where its prefixes start; what
\* the interpreter makes of it.
LEMMA ArgFacts ==
    ASSUME DecodeInv, stage = "decoded", NEW k \in 0 .. Count - 1
    PROVE  /\ PrefixCount(k) \in 0 .. 3
           /\ OffAt(k + 1) = OffAt(k) + PrefixCount(k) + 1 + CacheSize[instrs[k + 1].op]
           /\ OffAt(k) \in Nat /\ OffAt(k + 1) \in Nat
           /\ OriginalArg(k) \in 0 .. Capacity[PrefixCount(k)] - 1
           /\ ~ Jumps(k) => instrs[k + 1].arg = OriginalArg(k)
           /\ OriginalTarget(k) =
                CASE JumpKindOf[instrs[k + 1].op] = "FWD" -> OffAt(k + 1) + OriginalArg(k)
                  [] JumpKindOf[instrs[k + 1].op] = "BWD" -> OffAt(k + 1) - OriginalArg(k)
                  [] OTHER -> OriginalArg(k)
<1> PICK p : p = OpPos(k + 1)
  OBVIOUS
<1> PICK b : b = idx_to_off[k + 1]
  OBVIOUS
<1>1. Count \in Nat /\ k + 1 \in 1 .. Count /\ k \in Nat /\ k < Count /\ k \in 0 .. Count
      /\ k + 1 \in 0 .. Count /\ k + 1 - 1 = k
  BY DecodedFacts
<1>2. /\ p \in OpWords(co) /\ p \in Nat /\ instrs[k + 1].op = OpAt(co, p) /\ p < nwords
      /\ b \in Nat /\ b <= p /\ p <= b + 3 /\ StartsAt(co, b, p)
      /\ NextAt(co, p) = idx_to_nextoff[k + 1] /\ nwords = Size(co)
      /\ idx_to_nextoff[k + 1] = p + 1 + CacheSize[instrs[k + 1].op]
      /\ CacheSize[instrs[k + 1].op] \in 0 .. MaxCache
      /\ IsCodeObject(co) /\ WellFormed(co)
  BY <1>1, DecodedFacts
<1>3. OffAt(k) = b /\ OffAt(k + 1) = idx_to_nextoff[k + 1] /\ OffAt(k) \in Nat
      /\ OffAt(k + 1) \in Nat
  BY <1>1, OffFacts, Adjacent
<1>4. OpWordOf(k) = p /\ OriginalAt(k) = b
  BY OpWordIs
<1>5. PrefixCount(k) = p - b /\ p - b \in 0 .. 3
  BY <1>2, <1>4 DEF PrefixCount
<1>6. OffAt(k + 1) = OffAt(k) + PrefixCount(k) + 1 + CacheSize[instrs[k + 1].op]
  BY <1>2, <1>3, <1>5, WidthAssumption
<1>7. OriginalArg(k) = Folded(co, b, p)
  <2>1. b \in 0 .. p
    BY <1>2
  <2> QED BY <1>2, <1>4, <2>1, ArgAtIs DEF OriginalArg
<1>8. Folded(co, b, p) \in 0 .. Capacity[p - b] - 1
  BY <1>2, FoldedBound
<1>9. ~ Jumps(k) => instrs[k + 1].arg = Folded(co, b, p)
  <2>1. ~ Jumps(k) => ~ Labelled(k + 1)
    BY DEF Jumps, Labelled
  <2>2. ArgRight(k + 1)
    BY <1>1 DEF DecodeInv
  <2> QED BY <2>1, <2>2 DEF ArgRight
<1>10. OriginalTarget(k) = TargetAt(co, p) /\ OriginalArg(k) = ArgAt(co, p)
  BY <1>4 DEF OriginalTarget, OriginalArg
<1> QED BY <1>2, <1>3, <1>5, <1>6, <1>7, <1>8, <1>9, <1>10 DEF TargetAt

\* A jump names a label, attached where the jump used to land.
LEMMA JumpFacts ==
    ASSUME DecodeInv, stage = "decoded", NEW k \in 0 .. Count - 1, Jumps(k)
    PROVE  /\ LabelPlaces(instrs[k + 1].arg) # {}
           /\ LabelIndex(instrs[k + 1].arg) \in 0 .. Count
           /\ OffAt(LabelIndex(instrs[k + 1].arg)) = OriginalTarget(k)
<1>1. k + 1 \in 1 .. Count
  BY DecodedFacts
<1>2. Labelled(k + 1)
  BY DEF Jumps, Labelled
<1> PICK x : x = TargetAt(co, OpPos(k + 1))
  OBVIOUS
<1>3. x \in DOMAIN offset_to_label /\ instrs[k + 1].arg = offset_to_label[x]
  BY <1>1, <1>2 DEF DecodeInv, ArgRight
<1>4. OriginalTarget(k) = x
  BY OpWordIs DEF OriginalTarget
<1> QED BY <1>3, <1>4, LabelIs

LEMMA SlotsAre ==
    ASSUME DecodeInv, stage = "decoded"
    PROVE  /\ SlotsOf.n = Count
           /\ SlotsOf \in AllPrograms
           /\ \A k \in 0 .. Count - 1 :
                 /\ SlotsOf.kind[k] = IF Jumps(k) THEN JumpKindOf[instrs[k + 1].op] ELSE "INT"
                 /\ Jumps(k) => SlotsOf.kind[k] \in {"ABS", "FWD", "BWD"}
                 /\ SlotsOf.cache[k] = CacheSize[instrs[k + 1].op]
                 /\ ~ Jumps(k) => SlotsOf.int[k] = OriginalArg(k)
                 /\ Jumps(k) => SlotsOf.target[k] = LabelIndex(instrs[k + 1].arg)
<1> DEFINE N == 0 .. Count - 1
           kind == [k \in N |-> IF Jumps(k) THEN JumpKindOf[instrs[k + 1].op] ELSE "INT"]
           cache == [k \in N |-> CacheSize[instrs[k + 1].op]]
           int == [k \in N |-> IF Jumps(k) THEN 0 ELSE instrs[k + 1].arg]
           target == [k \in N |-> IF Jumps(k) /\ LabelPlaces(instrs[k + 1].arg) # {}
                                  THEN LabelIndex(instrs[k + 1].arg) ELSE -1]
<1>1. /\ SlotsOf = [n |-> Count, kind |-> kind, cache |-> cache, int |-> int,
                    target |-> target]
      /\ Count \in Nat
  BY DecodedFacts DEF SlotsOf
<1>2. \A k \in N : k + 1 \in 1 .. Count
  BY <1>1
<1>3. \A k \in N : /\ instrs[k + 1].op \in Op
                   /\ CacheSize[instrs[k + 1].op] \in 0 .. MaxCache
  BY <1>2, DecodedFacts
<1>4. \A k \in N : Jumps(k) => JumpKindOf[instrs[k + 1].op] \in {"ABS", "FWD", "BWD"}
  <2> TAKE k \in N
  <2>1. JumpKindOf[instrs[k + 1].op] \in {"NONE", "ABS", "FWD", "BWD"}
    BY <1>3, OpAssumption
  <2> QED BY <2>1 DEF Jumps, IsJumpOp
<1>5. kind \in [N -> {"INT", "ABS", "FWD", "BWD"}]
  BY <1>4
<1>6. cache \in [N -> 0 .. MaxCache]
  BY <1>3
<1>7. int \in [N -> 0 .. Capacity[3] - 1]
  <2>1. ASSUME NEW k \in N PROVE int[k] \in 0 .. Capacity[3] - 1
    <3>1. CASE Jumps(k)
      BY <3>1, CapacityFacts
    <3>2. CASE ~ Jumps(k)
      <4> PICK e : e = PrefixCount(k)
        OBVIOUS
      <4>1. int[k] = instrs[k + 1].arg /\ int[k] \in 0 .. Capacity[e] - 1 /\ e \in 0 .. 3
        BY <3>2, ArgFacts
      <4>2. Capacity[e] <= Capacity[3] /\ Capacity[e] \in Nat /\ Capacity[3] \in Nat
        <5>1. e = 0 \/ e = 1 \/ e = 2 \/ e = 3
          BY <4>1
        <5>2. \A i \in 0 .. 3 : Capacity[i] \in Nat
          BY CapacityFacts
        <5>3. Capacity[0] <= Capacity[3] /\ Capacity[1] <= Capacity[3]
              /\ Capacity[2] <= Capacity[3] /\ Capacity[3] <= Capacity[3]
          BY <5>2, CapacityFacts
        <5> QED BY <4>1, <5>1, <5>2, <5>3
      <4> HIDE DEF int
      <4> QED BY <4>1, <4>2
    <3> QED BY <3>1, <3>2
  <2> QED BY <2>1
<1>8. target \in [N -> -1 .. Count]
  <2>1. ASSUME NEW k \in N PROVE target[k] \in -1 .. Count
    <3>1. CASE Jumps(k)
      BY <1>1, <3>1, JumpFacts
    <3>2. CASE ~ Jumps(k)
      BY <1>1, <3>2
    <3> QED BY <3>1, <3>2
  <2> QED BY <2>1
<1>9. Count * (4 + MaxCache) < ArgModulus
  BY SpanBound
<1>10. \A k \in N : /\ Jumps(k) => target[k] = LabelIndex(instrs[k + 1].arg)
                    /\ ~ Jumps(k) => int[k] = OriginalArg(k)
  BY JumpFacts, ArgFacts
<1>11. \A k \in N : /\ kind[k] = IF Jumps(k) THEN JumpKindOf[instrs[k + 1].op] ELSE "INT"
                    /\ Jumps(k) => kind[k] \in {"ABS", "FWD", "BWD"}
                    /\ cache[k] = CacheSize[instrs[k + 1].op]
  BY <1>4
<1> HIDE DEF kind, cache, int, target
<1>12. Assembly!IsProgram(SlotsOf)
  BY <1>1, <1>5, <1>6, <1>7, <1>8, <1>9 DEF Assembly!IsProgram, Assembly!Kinds
<1>13. SlotsOf \in [n : Nat, kind : Maps(Assembly!Kinds), cache : Maps(Int), int : Maps(Int),
                    target : Maps(Int)]
  <2>1. kind \in Maps(Assembly!Kinds)
    BY <1>1, <1>5 DEF Maps, Assembly!Kinds
  <2>2. \A S \in SUBSET Int : [N -> S] \subseteq Maps(Int)
    <3> TAKE S \in SUBSET Int
    <3>1. [N -> S] \subseteq [N -> Int]
      OBVIOUS
    <3> QED BY <1>1, <3>1 DEF Maps
  <2>3. 0 .. MaxCache \in SUBSET Int /\ 0 .. Capacity[3] - 1 \in SUBSET Int
        /\ -1 .. Count \in SUBSET Int
    OBVIOUS
  <2>4. cache \in Maps(Int) /\ int \in Maps(Int) /\ target \in Maps(Int)
    BY <1>6, <1>7, <1>8, <2>2, <2>3
  <2> QED BY <1>1, <2>1, <2>4
<1> QED BY <1>1, <1>10, <1>11, <1>12, <1>13 DEF AllPrograms

-----------------------------------------------------------------------------
(***************************************************************************)
(* The inductive invariant of the two together.                            *)
(***************************************************************************)
RTInv ==
    /\ DecodeInv
    /\ phase = "decoding" => cursor = 0 /\ changed = FALSE /\ length = 0
    /\ phase \notin {"decoding", "refused"} =>
          stage = "decoded" /\ prog = SlotsOf /\ AsmInv /\ phase # "unresolved"

LEMMA SameSlots ==
    ASSUME UNCHANGED vars
    PROVE  DecodeInv' = DecodeInv /\ SlotsOf' = SlotsOf
<1>1. SlotsOf' = SlotsOf
  BY DEF vars, SlotsOf, Count, Jumps, LabelPlaces, LabelIndex, Places
<1>2. DecodeInv' = DecodeInv
  BY DEF vars, DecodeInv, Shape, Pending, Parsed, Found, OpPos, Scanned, ArgRight, Labelled,
         LabelMaps, LabelsRight, Named, PlacesAt, EntriesRight, EntryRight, Count, Places,
         nwords
<1> QED BY <1>1, <1>2

LEMMA ToCodeStep == ASSUME RTInv, ToCode PROVE RTInv'
<1>1. /\ stage = "decoded" /\ DecodeInv /\ UNCHANGED vars /\ prog' = SlotsOf
      /\ phase' = "assign"
  BY DEF RTInv, ToCode
<1>2. /\ DecodeInv' /\ SlotsOf' = SlotsOf /\ stage' = "decoded"
  BY <1>1, SameSlots DEF vars
<1>3. prog' \in AllPrograms /\ prog'.n = Count
  BY <1>1, SlotsAre
<1>4. Asm!Init'
  <2>1. \A a : Assembly!ExtNeeded(a) = Asm!ExtNeeded(a)
    BY DEF Assembly!ExtNeeded, Asm!ExtNeeded
  <2>2. /\ ext' = [k \in 0 .. Count - 1 |->
                     IF prog'.kind[k] = "INT" THEN Assembly!ExtNeeded(prog'.int[k]) ELSE 0]
        /\ offset' = [k \in 0 .. Count |-> 0]
        /\ start' = [k \in 0 .. Count - 1 |-> 0]
        /\ carried' = [k \in 0 .. Count - 1 |-> 0]
    BY DEF ToCode
  <2>3. cursor' = 0 /\ changed' = FALSE /\ length' = 0
    BY DEF RTInv, ToCode
  <2> QED BY <1>1, <1>3, <2>1, <2>2, <2>3 DEF Asm!Init
<1>5. AsmInv'
  BY <1>4, AsmInitPrimed
<1> QED BY <1>1, <1>2, <1>5 DEF RTInv

LEMMA ToCodeFailsStep == ASSUME RTInv, ToCodeFails PROVE RTInv'
<1>1. DecodeInv /\ UNCHANGED vars /\ phase' = "refused"
  BY DEF RTInv, ToCodeFails
<1>2. DecodeInv'
  BY <1>1, SameSlots
<1> QED BY <1>1, <1>2 DEF RTInv

\* No step of the assembly is possible before it starts or after it ends but the
\* stutter, and it meets no label that is attached nowhere.
LEMMA AssemblyKeeps == ASSUME RTInv, Assembling PROVE RTInv'
<1>1. /\ phase \notin {"decoding", "refused"} /\ UNCHANGED vars /\ Assembly!Next /\ DecodeInv
      /\ stage = "decoded" /\ prog = SlotsOf /\ AsmInv /\ phase # "unresolved"
  BY DEF RTInv, Assembling
<1>2. DecodeInv' /\ SlotsOf' = SlotsOf /\ stage' = "decoded"
  BY <1>1, SameSlots DEF vars
<1>3. Asm!Next
  BY <1>1 DEF Assembly!Next, Asm!Next, Assembly!Assign, Asm!Assign, Assembly!AssignDone,
     Asm!AssignDone, Assembly!Grow, Asm!Grow, Assembly!UnresolvedLabel, Asm!UnresolvedLabel,
     Assembly!GrowDone, Asm!GrowDone, Assembly!Emit, Asm!Emit, Assembly!EmitDone,
     Asm!EmitDone, Assembly!Returned, Asm!Returned, Assembly!n, Asm!n, Assembly!IsJump,
     Asm!IsJump, Assembly!Resolved, Asm!Resolved, Assembly!SizeWith, Asm!SizeWith,
     Assembly!Needed, Asm!Needed, Assembly!ExtNeeded, Asm!ExtNeeded, Assembly!ArgIn,
     Asm!ArgIn, Assembly!NextIn, Asm!NextIn, Assembly!ArgOf, Asm!ArgOf, Assembly!vars,
     Asm!vars
<1>4. AsmInv'
  BY <1>1, <1>3, AsmStep
<1>5. ~ Asm!UnresolvedLabel
  <2> SUFFICES ASSUME Asm!UnresolvedLabel PROVE FALSE
    OBVIOUS
  <2>1. cursor < Count /\ Count \in Nat /\ cursor \in 0 .. Count
    BY <1>1, SlotsAre, DecodedFacts
       DEF Asm!UnresolvedLabel, Asm!n, AsmInv, Asm!IInv, Asm!TypeOK
  <2>2. cursor \in 0 .. Count - 1
    BY <2>1
  <2>3. prog.kind[cursor] # "INT" /\ prog.target[cursor] = -1
    BY DEF Asm!UnresolvedLabel, Asm!IsJump, Asm!Resolved
  <2>4. Jumps(cursor)
    BY <1>1, <2>2, <2>3, SlotsAre
  <2>5. prog.target[cursor] = LabelIndex(instrs[cursor + 1].arg)
    BY <1>1, <2>2, <2>4, SlotsAre
  <2>6. prog.target[cursor] \in 0 .. Count
    BY <1>1, <2>2, <2>4, <2>5, JumpFacts
  <2> QED BY <2>3, <2>6
<1>6. prog' = prog /\ phase' # "decoding" /\ phase' # "unresolved"
  BY <1>1, <1>3, <1>5 DEF Asm!Next, Asm!Assign, Asm!AssignDone, Asm!Grow, Asm!GrowDone,
     Asm!Emit, Asm!EmitDone, Asm!Returned, Asm!vars
<1> QED BY <1>1, <1>2, <1>4, <1>6 DEF RTInv

LEMMA RTInvInit == RoundTripInit => RTInv
BY DecodeInit DEF RoundTripInit, RTInv

LEMMA DecodingKeeps == ASSUME RTInv, Decoding PROVE RTInv'
<1>1. DecodeInv /\ Decode /\ UNCHANGED asmVars
  BY DEF RTInv, Decoding
<1>2. DecodeInv'
  BY <1>1, DecodeStep
<1>4. phase = "decoding"
  BY DEF Decoding
<1>5. phase' = phase /\ cursor' = cursor /\ changed' = changed /\ length' = length
  BY <1>1 DEF asmVars
<1> QED BY <1>2, <1>4, <1>5 DEF RTInv

LEMMA RTInvStep == RTInv /\ [RoundTripNext]_allVars => RTInv'
<1> SUFFICES ASSUME RTInv, [RoundTripNext]_allVars PROVE RTInv'
  OBVIOUS
<1>1. CASE UNCHANGED allVars
  <2>1. UNCHANGED vars /\ UNCHANGED asmVars
    BY <1>1 DEF allVars
  <2>2. DecodeInv' = DecodeInv /\ SlotsOf' = SlotsOf
    BY <2>1, SameSlots
  <2>3. /\ stage' = stage /\ prog' = prog /\ phase' = phase /\ cursor' = cursor
        /\ changed' = changed /\ length' = length
    BY <2>1 DEF vars, asmVars
  <2>4. CASE phase \in {"decoding", "refused"}
    BY <2>2, <2>3, <2>4 DEF RTInv
  <2>5. CASE phase \notin {"decoding", "refused"}
    <3>1. AsmInv
      BY <2>5 DEF RTInv
    <3>2. AsmInv'
      BY <2>1, <3>1, AsmStep
    <3> QED BY <2>2, <2>3, <2>5, <3>2 DEF RTInv
  <2> QED BY <2>4, <2>5
<1>2. CASE Refused
  BY <1>1, <1>2 DEF Refused
<1> QED BY <1>1, <1>2, DecodingKeeps, ToCodeStep, ToCodeFailsStep, AssemblyKeeps
     DEF RoundTripNext

-----------------------------------------------------------------------------
(***************************************************************************)
(* What follows from it.                                                   *)
(***************************************************************************)
LEMMA InvGivesType == ASSUME DecodeInv PROVE TypeOK
<1>1. /\ IsCodeObject(co) /\ nwords \in Nat /\ Count \in Nat /\ Count <= nwords
      /\ Len(co.table) \in Nat
  <2>1. IsCodeObject(co) /\ nwords \in Nat
    BY CodeFacts DEF DecodeInv, Shape
  <2>2. Len(co.table) \in Nat
    BY <2>1 DEF IsCodeObject
  <2>3. Count \in Nat /\ Count <= Scanned /\ (stage = "scan" => at \in 0 .. nwords)
    BY DEF DecodeInv, Shape, Count
  <2>4. stage = "scan" => Scanned = at
    BY DEF Scanned
  <2>5. stage # "scan" => Scanned = nwords
    BY DEF Scanned
  <2>6. Count <= nwords
    BY <2>1, <2>3, <2>4, <2>5
  <2> QED BY <2>1, <2>2, <2>3, <2>6
<1>2. at \in 0 .. nwords + Len(co.table)
  <2>1. at \in 0 .. nwords \/ at \in 0 .. Count \/ at \in 0 .. Len(co.table)
    BY DEF DecodeInv, Shape
  <2> QED BY <1>1, <2>1
<1>3. extended_arg \in 0 .. Capacity[3] - 1
  <2>1. CASE stage = "scan" /\ IsPrefixWord(co, at - 1)
    BY <2>1, ChainSoFar
  <2>2. CASE ~ (stage = "scan" /\ IsPrefixWord(co, at - 1))
    <3>1. extended_arg = 0
      BY <2>2 DEF DecodeInv, Pending
    <3>2. Capacity[3] \in Nat \ {0}
      BY CapacityFacts
    <3> QED BY <3>1, <3>2
  <2> QED BY <2>1, <2>2
<1>4. \A k \in 1 .. Count : 0 <= idx_to_off[k] /\ idx_to_off[k] < idx_to_nextoff[k]
  <2> TAKE k \in 1 .. Count
  <2> PICK p : p = OpPos(k)
    OBVIOUS
  <2> PICK C : C = CacheSize[instrs[k].op]
    OBVIOUS
  <2>1. /\ p \in OpWords(co) /\ instrs[k].op = OpAt(co, p) /\ idx_to_off[k] \in 0 .. p
        /\ idx_to_nextoff[k] \in Int
    BY <1>1 DEF DecodeInv, Parsed, Found, Shape
  <2>2. p \in Nat /\ C \in Nat
    BY <1>1, <2>1, WordFacts, OpAssumption
  <2>3. p = idx_to_nextoff[k] - 1 - C
    BY DEF OpPos
  <2> QED BY <2>1, <2>2, <2>3
<1>5. next_label_id \in Nat /\ \A p \in DOMAIN labels : labels[p] \subseteq 0 .. next_label_id - 1
  <2>1. next_label_id \in Nat
    BY DEF DecodeInv, LabelMaps
  <2>2. CASE stage = "scan"
    BY <2>1, <2>2 DEF DecodeInv, LabelsRight
  <2>3. CASE stage # "scan"
    BY <2>1, <2>3 DEF DecodeInv, LabelsRight
  <2> QED BY <2>1, <2>2, <2>3
<1>6. Len(exc_labeled) <= Len(co.table)
  <2>1. stage \in {"scan", "jumps"} => Len(exc_labeled) = 0
    BY DEF DecodeInv, EntriesRight
  <2>2. stage = "table" => Len(exc_labeled) = at /\ at \in 0 .. Len(co.table)
    BY DEF DecodeInv, EntriesRight, Shape
  <2>3. stage = "decoded" => Len(exc_labeled) = Len(co.table)
    BY DEF DecodeInv, EntriesRight
  <2>4. stage \in {"scan", "jumps", "table", "decoded"}
    BY DEF DecodeInv, Shape
  <2> QED BY <1>1, <2>1, <2>2, <2>3, <2>4
<1>7. /\ stage \in {"scan", "jumps", "table", "decoded"} /\ ext_start \in 0 .. nwords
      /\ instrs \in Seq([op : Op, arg : Nat])
      /\ Len(idx_to_off) = Count /\ Len(idx_to_nextoff) = Count
  BY DEF DecodeInv, Shape
<1> QED BY <1>1, <1>2, <1>3, <1>4, <1>5, <1>6, <1>7 DEF TypeOK

\* from_code() and to_code() keep the types of what they build
\* (bytecode.cpp:214-383).
THEOREM TypeOKHolds == RoundTripSpec => []TypeOK
<1>1. RTInv => TypeOK
  BY InvGivesType DEF RTInv
<1> QED BY RTInvInit, RTInvStep, <1>1, PTL DEF RoundTripSpec

\* Every jump of an untouched function finds its label when it is assembled
\* (bytecode.cpp:604-607).
THEOREM NeverUnresolvedHolds == RoundTripSpec => []NeverUnresolved
<1>1. RTInv => NeverUnresolved
  BY DEF RTInv, NeverUnresolved
<1> QED BY RTInvInit, RTInvStep, <1>1, PTL DEF RoundTripSpec

LEMMA InvGivesRegions == ASSUME RTInv PROVE SameRegions
<1> SUFFICES ASSUME Done, NEW e \in 1 .. Len(co.table),
                    NEW b \in {[was |-> co.table[e].start, lbl |-> exc_labeled[e].start_lbl],
                               [was |-> co.table[e].stop, lbl |-> exc_labeled[e].stop_lbl],
                               [was |-> co.table[e].handler, lbl |-> exc_labeled[e].handler_lbl]}
             PROVE  LabelPlaces(b.lbl) # {} /\ OriginalAt(LabelIndex(b.lbl)) = b.was
  BY DEF SameRegions
<1>1. DecodeInv /\ stage = "decoded"
  BY DEF RTInv, Done
<1>2. EntryRight(e)
  BY <1>1 DEF DecodeInv, EntriesRight
<1>3. b.was \in DOMAIN off_to_label /\ b.lbl = off_to_label[b.was]
  BY <1>2 DEF EntryRight
<1>4. LabelPlaces(b.lbl) # {} /\ LabelIndex(b.lbl) \in 0 .. Count
      /\ b.was = OffAt(LabelIndex(b.lbl))
  BY <1>1, <1>3, LabelIs
<1> QED BY <1>1, <1>4, OriginalAtIs

\* Each entry of the new exception table protects the instructions the old one
\* protected, and hands over to the same one (bytecode.cpp:346-383, 710-742).
THEOREM SameRegionsHolds == RoundTripSpec => []SameRegions
<1>1. RTInv => SameRegions
  BY InvGivesRegions
<1> QED BY RTInvInit, RTInvStep, <1>1, PTL DEF RoundTripSpec

\* The jumps of compiled code keep to the side their opcodes jump to.
LEMMA Directed ==
    ASSUME DecodeInv, stage = "decoded", prog = SlotsOf, NEW k \in 0 .. Count - 1, Jumps(k),
           NEW t, t = prog.target[k]
    PROVE  /\ Asm!WellDirected(k)
           /\ t \in 0 .. Count /\ OffAt(t) \in Nat /\ OffAt(k + 1) \in Nat
           /\ OriginalArg(k) \in Nat
           /\ prog.kind[k] \in {"ABS", "FWD", "BWD"}
           /\ prog.kind[k] = "ABS" => OffAt(t) = OriginalArg(k)
           /\ prog.kind[k] = "FWD" => OffAt(t) = OffAt(k + 1) + OriginalArg(k)
           /\ prog.kind[k] = "BWD" => OffAt(t) = OffAt(k + 1) - OriginalArg(k)
           /\ OffAt(t) = OriginalTarget(k)
<1> PICK a : a = OriginalArg(k)
  OBVIOUS
<1>1. prog.kind[k] = JumpKindOf[instrs[k + 1].op] /\ prog.kind[k] \in {"ABS", "FWD", "BWD"}
      /\ t \in 0 .. Count /\ OffAt(t) = OriginalTarget(k)
  BY SlotsAre, JumpFacts
<1>2. Count \in Nat /\ k + 1 \in 0 .. Count /\ k \in Nat
  BY DecodedFacts
<1>3. a \in Nat /\ OffAt(k + 1) \in Nat /\ OffAt(t) \in Nat
  <2>1. a \in 0 .. Capacity[PrefixCount(k)] - 1
    BY ArgFacts
  <2> QED BY <1>1, <1>2, <2>1, OffFacts
<1>4. /\ prog.kind[k] = "ABS" => OffAt(t) = a
      /\ prog.kind[k] = "FWD" => OffAt(t) = OffAt(k + 1) + a
      /\ prog.kind[k] = "BWD" => OffAt(t) = OffAt(k + 1) - a
  BY <1>1, ArgFacts
<1>5. prog.kind[k] = "FWD" => k < t
  <2> SUFFICES ASSUME prog.kind[k] = "FWD" PROVE k < t
    OBVIOUS
  <2>1. OffAt(t) = OffAt(k + 1) + a
    BY <1>4
  <2>2. ~ (t < k + 1)
    <3>1. t < k + 1 => OffAt(t) < OffAt(k + 1)
      BY <1>1, <1>2, OffFacts
    <3> QED BY <1>3, <2>1, <3>1
  <2> QED BY <1>1, <1>2, <2>2
<1>6. prog.kind[k] = "BWD" => t <= k + 1
  <2> SUFFICES ASSUME prog.kind[k] = "BWD" PROVE t <= k + 1
    OBVIOUS
  <2>1. OffAt(t) = OffAt(k + 1) - a
    BY <1>4
  <2>2. ~ (k + 1 < t)
    <3>1. k + 1 < t => OffAt(k + 1) < OffAt(t)
      BY <1>1, <1>2, OffFacts
    <3> QED BY <1>3, <2>1, <3>1
  <2> QED BY <1>1, <1>2, <2>2
<1>7. Asm!WellDirected(k)
  BY <1>5, <1>6 DEF Asm!WellDirected
<1> QED BY <1>1, <1>3, <1>4, <1>7

LEMMA InvGivesBehaviour == ASSUME RTInv PROVE SameBehaviour
<1> SUFFICES ASSUME Done PROVE Count = OriginalCount /\
                \A k \in 0 .. Count - 1 :
                   IF Jumps(k)
                   THEN \A j \in 0 .. Count :
                           OriginalAt(j) = OriginalTarget(k) => Lands(k) = EmittedAt(j)
                   ELSE carried[k] = OriginalArg(k)
  BY DEF SameBehaviour
<1>1. DecodeInv /\ stage = "decoded" /\ prog = SlotsOf /\ AsmInv /\ phase = "done"
  BY DEF RTInv, Done
<1>2. Count = OriginalCount /\ Count \in Nat /\ prog.n = Count
  BY <1>1, CountIs, DecodedFacts, SlotsAre DEF OriginalCount
<1>3. Asm!ArgsSurvive
  BY <1>1, AsmAssumptions, Asm!InvGivesArgs DEF AsmInv
<1> SUFFICES ASSUME NEW k \in 0 .. Count - 1
             PROVE  IF Jumps(k)
                    THEN \A j \in 0 .. Count :
                            OriginalAt(j) = OriginalTarget(k) => Lands(k) = EmittedAt(j)
                    ELSE carried[k] = OriginalArg(k)
  BY <1>2
<1>4. k \in Asm!Slots /\ k \in Nat /\ k + 1 \in 0 .. Count
  BY <1>2 DEF Asm!Slots, Asm!n
<1>5. CASE ~ Jumps(k)
  <2>1. prog.kind[k] = "INT" /\ prog.int[k] = OriginalArg(k)
    BY <1>1, <1>5, SlotsAre
  <2> QED BY <1>1, <1>3, <1>4, <1>5, <2>1 DEF Asm!ArgsSurvive, Asm!IsJump
<1>6. CASE Jumps(k)
  <2> SUFFICES ASSUME NEW j \in 0 .. Count, OriginalAt(j) = OriginalTarget(k)
               PROVE  Lands(k) = EmittedAt(j)
    BY <1>6
  <2> PICK t : t = prog.target[k]
    OBVIOUS
  <2>1. Asm!WellDirected(k) /\ t \in 0 .. Count /\ OffAt(t) = OriginalTarget(k)
        /\ prog.kind[k] \in {"ABS", "FWD", "BWD"}
    BY <1>1, <1>6, Directed
  <2>2. t = j
    <3>1. OffAt(t) = OffAt(j)
      BY <1>1, <2>1, OriginalAtIs
    <3>2. ~ (t < j) /\ ~ (j < t)
      <4>1. OffAt(t) \in Nat /\ OffAt(j) \in Nat
        BY <1>1, <2>1, OffFacts
      <4>2. t < j => OffAt(t) < OffAt(j)
        BY <1>1, <2>1, OffFacts
      <4>3. j < t => OffAt(j) < OffAt(t)
        BY <1>1, <2>1, OffFacts
      <4> QED BY <3>1, <4>1, <4>2, <4>3
    <3> QED BY <1>2, <2>1, <3>2
  <2>3. Asm!Lands(k) = Asm!EmittedAt(t)
    BY <1>1, <1>3, <1>4, <2>1 DEF Asm!ArgsSurvive, Asm!IsJump
  <2>4. \A i : Asm!EmittedAt(i) = EmittedAt(i) /\ Assembly!EmittedAt(i) = EmittedAt(i)
    BY <1>2 DEF Asm!EmittedAt, Assembly!EmittedAt, EmittedAt, Asm!n, Assembly!n
  <2>5. Lands(k) = Asm!Lands(k)
    BY <2>4 DEF Lands, Assembly!Lands, Asm!Lands
  <2> QED BY <2>2, <2>3, <2>4, <2>5
<1> QED BY <1>5, <1>6

\* The new code is the old one: every integer argument is the one it was, and
\* every jump lands on the instruction it used to land on, at its new place
\* (README.md:376-380).
THEOREM SameBehaviourHolds == RoundTripSpec => []SameBehaviour
<1>1. RTInv => SameBehaviour
  BY InvGivesBehaviour
<1> QED BY RTInvInit, RTInvStep, <1>1, PTL DEF RoundTripSpec

-----------------------------------------------------------------------------
(***************************************************************************)
(* The original code is a layout of its own slots, and relaxation finds    *)
(* the least of all layouts.                                               *)
(***************************************************************************)
LEMMA NeededFits ==
    ASSUME NEW e \in 0 .. 3, NEW a \in 0 .. Capacity[e] - 1
    PROVE  Asm!ExtNeeded(a) <= e
<1>1. \A i \in 0 .. 3 : Capacity[i] \in Nat
  BY CapacityFacts
<1>2. a \in Int /\ a < Capacity[e]
  BY <1>1
<1>3. e = 0 \/ e = 1 \/ e = 2 \/ e = 3
  OBVIOUS
<1>4. /\ e = 0 => Asm!ExtNeeded(a) = 0
      /\ e = 1 => Asm!ExtNeeded(a) \in {0, 1}
      /\ e = 2 => Asm!ExtNeeded(a) \in {0, 1, 2}
      /\ Asm!ExtNeeded(a) \in {0, 1, 2, 3}
  BY <1>2 DEF Asm!ExtNeeded
<1> QED BY <1>3, <1>4

\* In the layout the words had, each argument is the one the words carry.
LEMMA LayoutArg ==
    ASSUME DecodeInv, stage = "decoded", prog = SlotsOf, NEW k \in 0 .. Count - 1, Jumps(k),
           NEW x, NEW o, x[k] = PrefixCount(k), \A j \in 0 .. Count : o[j] = OffAt(j)
    PROVE  Asm!ArgIn(x, o, k) = OriginalArg(k)
<1> PICK t : t = prog.target[k]
  OBVIOUS
<1> PICK a : a = OriginalArg(k)
  OBVIOUS
<1>1. /\ t \in 0 .. Count /\ OffAt(t) \in Nat /\ OffAt(k + 1) \in Nat /\ a \in Nat
      /\ prog.kind[k] \in {"ABS", "FWD", "BWD"}
      /\ prog.kind[k] = "ABS" => OffAt(t) = a
      /\ prog.kind[k] = "FWD" => OffAt(t) = OffAt(k + 1) + a
      /\ prog.kind[k] = "BWD" => OffAt(t) = OffAt(k + 1) - a
  BY Directed
<1>2. k \in 0 .. Count /\ k + 1 \in 0 .. Count
  BY DecodedFacts
<1>3. Asm!NextIn(x, o, k) = OffAt(k + 1)
  <2>1. prog.cache[k] = CacheSize[instrs[k + 1].op] /\ o[k] = OffAt(k)
    BY <1>2, SlotsAre
  <2>2. /\ OffAt(k + 1) = OffAt(k) + PrefixCount(k) + 1 + CacheSize[instrs[k + 1].op]
        /\ PrefixCount(k) \in 0 .. 3 /\ OffAt(k) \in Nat
    BY ArgFacts
  <2>3. CacheSize[instrs[k + 1].op] \in 0 .. MaxCache
    BY <1>2, DecodedFacts
  <2>4. Asm!NextIn(x, o, k) = OffAt(k) + (PrefixCount(k) + 1 + CacheSize[instrs[k + 1].op])
    BY <2>1 DEF Asm!NextIn, Asm!SizeWith
  <2> PICK u : u = PrefixCount(k)
    OBVIOUS
  <2> PICK C : C = CacheSize[instrs[k + 1].op]
    OBVIOUS
  <2>5. u \in Nat /\ C \in Nat
    BY <2>2, <2>3, WidthAssumption
  <2> QED BY <2>2, <2>4, <2>5
<1>4. o[t] = OffAt(t)
  BY <1>1
<1>5. OffAt(t) \in 0 .. ArgModulus - 1 /\ OffAt(k + 1) \in 0 .. ArgModulus - 1
      /\ ArgModulus \in Nat \ {0}
  BY <1>1, <1>2, SpanBound, WidthAssumption
<1>6. CASE prog.kind[k] = "ABS"
  BY <1>1, <1>4, <1>6 DEF Asm!ArgIn
<1>7. CASE prog.kind[k] = "FWD"
  <2>1. OffAt(t) - OffAt(k + 1) = a /\ a \in 0 .. ArgModulus - 1
    BY <1>1, <1>5, <1>7
  <2>2. a % ArgModulus = a
    BY <1>5, <2>1
  <2>3. Asm!ArgIn(x, o, k) = (OffAt(t) - OffAt(k + 1)) % ArgModulus
    BY <1>3, <1>4, <1>7 DEF Asm!ArgIn
  <2> QED BY <2>1, <2>2, <2>3
<1>8. CASE prog.kind[k] = "BWD"
  <2>1. OffAt(k + 1) - OffAt(t) = a /\ a \in 0 .. ArgModulus - 1
    BY <1>1, <1>5, <1>8
  <2>2. a % ArgModulus = a
    BY <1>5, <2>1
  <2>3. Asm!ArgIn(x, o, k) = (OffAt(k + 1) - OffAt(t)) % ArgModulus
    BY <1>3, <1>4, <1>8 DEF Asm!ArgIn
  <2> QED BY <2>1, <2>2, <2>3
<1> QED BY <1>1, <1>6, <1>7, <1>8

OldLayout ==
    [ext |-> [k \in 0 .. Count - 1 |-> PrefixCount(k)],
     offset |-> [j \in 0 .. Count |-> OffAt(j)]]

LEMMA OldIsLayout ==
    ASSUME DecodeInv, stage = "decoded", prog = SlotsOf
    PROVE  /\ OldLayout \in AllLayouts(prog)
           /\ Asm!IsLayout(OldLayout.ext, OldLayout.offset)
<1> PICK x : x = [k \in 0 .. Count - 1 |-> PrefixCount(k)]
  OBVIOUS
<1> PICK o : o = [j \in 0 .. Count |-> OffAt(j)]
  OBVIOUS
<1>1. OldLayout = [ext |-> x, offset |-> o] /\ OldLayout.ext = x /\ OldLayout.offset = o
  BY DEF OldLayout
<1>2. Count \in Nat /\ prog.n = Count /\ Asm!Slots = 0 .. Count - 1
  BY DecodedFacts, SlotsAre DEF Asm!Slots, Asm!n
<1>3. x \in [0 .. Count - 1 -> 0 .. 3]
  BY ArgFacts
<1>4. o \in [0 .. Count -> 0 .. ArgModulus - 1]
  BY SpanBound
<1>5. OldLayout \in AllLayouts(prog)
  BY <1>1, <1>2, <1>3, <1>4 DEF AllLayouts, Assembly!Exts
<1>6. o[0] = 0
  BY <1>2, Adjacent
<1>7. \A j \in 0 .. Count : o[j] = OffAt(j)
  OBVIOUS
<1>8. ASSUME NEW k \in 0 .. Count - 1 PROVE o[k + 1] = Asm!NextIn(x, o, k)
  <2>1. k \in 0 .. Count /\ k + 1 \in 0 .. Count
    BY <1>2
  <2>2. prog.cache[k] = CacheSize[instrs[k + 1].op] /\ o[k] = OffAt(k) /\ o[k + 1] = OffAt(k + 1)
        /\ x[k] = PrefixCount(k)
    BY <2>1, SlotsAre
  <2>3. /\ OffAt(k + 1) = OffAt(k) + PrefixCount(k) + 1 + CacheSize[instrs[k + 1].op]
        /\ PrefixCount(k) \in 0 .. 3 /\ OffAt(k) \in Nat
    BY ArgFacts
  <2>4. CacheSize[instrs[k + 1].op] \in 0 .. MaxCache
    <3>1. k + 1 \in 1 .. Count
      BY <1>2
    <3> QED BY <3>1, DecodedFacts
  <2>5. Asm!NextIn(x, o, k) = OffAt(k) + (PrefixCount(k) + 1 + CacheSize[instrs[k + 1].op])
    BY <2>2 DEF Asm!NextIn, Asm!SizeWith
  <2> PICK u : u = PrefixCount(k)
    OBVIOUS
  <2> PICK C : C = CacheSize[instrs[k + 1].op]
    OBVIOUS
  <2>6. u \in Nat /\ C \in Nat
    BY <2>3, <2>4, WidthAssumption
  <2> PICK a : a = OffAt(k)
    OBVIOUS
  <2>7. OffAt(k + 1) = a + u + 1 + C /\ Asm!NextIn(x, o, k) = a + (u + 1 + C) /\ a \in Nat
    BY <2>3, <2>5
  <2>8. OffAt(k + 1) = Asm!NextIn(x, o, k)
    BY <2>6, <2>7
  <2> QED BY <2>2, <2>8
<1>9. ASSUME NEW k \in 0 .. Count - 1
      PROVE  IF Asm!IsJump(k)
             THEN Asm!Resolved(k) /\ Asm!ExtNeeded(Asm!ArgIn(x, o, k)) <= x[k]
             ELSE Asm!ExtNeeded(prog.int[k]) <= x[k]
  <2>1. x[k] = PrefixCount(k) /\ x[k] \in 0 .. 3 /\ OriginalArg(k) \in 0 .. Capacity[x[k]] - 1
    BY ArgFacts
  <2>2. Asm!ExtNeeded(OriginalArg(k)) <= x[k]
    BY <2>1, NeededFits
  <2>3. CASE Jumps(k)
    <3>1. prog.kind[k] # "INT"
      BY <2>3, SlotsAre
    <3>2. Asm!Resolved(k)
      <4>1. prog.target[k] \in 0 .. Count
        BY <2>3, Directed
      <4> QED BY <4>1 DEF Asm!Resolved
    <3>3. Asm!ArgIn(x, o, k) = OriginalArg(k)
      BY <1>7, <2>1, <2>3, LayoutArg
    <3> QED BY <2>2, <3>1, <3>2, <3>3 DEF Asm!IsJump
  <2>4. CASE ~ Jumps(k)
    <3>1. prog.kind[k] = "INT" /\ prog.int[k] = OriginalArg(k)
      BY <2>4, SlotsAre
    <3> QED BY <2>2, <3>1 DEF Asm!IsJump
  <2> QED BY <2>3, <2>4
<1>10. Asm!IsLayout(x, o)
  BY <1>2, <1>6, <1>8, <1>9 DEF Asm!IsLayout
<1> QED BY <1>1, <1>5, <1>10

\* Where the words are emitted, and what they carry.
LEMMA EmittedIs ==
    ASSUME RTInv, Done, NEW k \in 0 .. Count - 1
    PROVE  /\ start[k] = offset[k] /\ carried[k] = Asm!ArgOf(k)
           /\ offset[k + 1] = Asm!NextIn(ext, offset, k) /\ offset[0] = 0
<1>1. DecodeInv /\ stage = "decoded" /\ prog = SlotsOf /\ AsmInv /\ phase = "done"
  BY DEF RTInv, Done
<1>2. Count \in Nat /\ Asm!Slots = 0 .. Count - 1 /\ Asm!n = Count
  BY <1>1, DecodedFacts, SlotsAre DEF Asm!Slots, Asm!n
<1>3. Asm!EmittedUpTo(Count)
  BY <1>1, <1>2 DEF AsmInv, Asm!EmitInv
<1>4. Asm!PlacedUpTo(Count) /\ offset[0] = 0
  BY <1>1, <1>2 DEF AsmInv, Asm!IInv, Asm!Consistent
<1>5. k \in Asm!Slots /\ k < Count
  BY <1>2
<1> QED BY <1>3, <1>4, <1>5 DEF Asm!EmittedUpTo, Asm!PlacedUpTo

LEMMA SameWidths ==
    ASSUME RTInv, Done, \A j \in 0 .. Count - 1 : ext[j] = PrefixCount(j)
    PROVE  \A j \in 0 .. Count : offset[j] = OffAt(j)
<1>1. DecodeInv /\ stage = "decoded" /\ prog = SlotsOf
  BY DEF RTInv, Done
<1>2. Count \in Nat /\ OffAt(0) = 0
  BY <1>1, DecodedFacts, Adjacent
<1>3. offset[0] = 0
  BY <1>1, SlotsAre DEF RTInv, Done, AsmInv, Asm!IInv, Asm!Consistent
<1> PICK B : B = {j \in 0 .. Count : offset[j] # OffAt(j)}
  OBVIOUS
<1>4. B = {}
  <2> SUFFICES ASSUME B # {} PROVE FALSE
    OBVIOUS
  <2>1. B \in SUBSET Nat
    BY <1>2
  <2>2. PICK j \in B : \A i \in B : j <= i
    BY <2>1, LeastMember
  <2>3. j \in 0 .. Count /\ j # 0 /\ offset[j] # OffAt(j)
    BY <1>2, <1>3, <2>2
  <2> PICK k : k = j - 1
    OBVIOUS
  <2>4. k \in 0 .. Count - 1 /\ k \in 0 .. Count /\ k + 1 = j /\ k \notin B
    BY <1>2, <2>2, <2>3
  <2>5. offset[k] = OffAt(k) /\ ext[k] = PrefixCount(k)
    BY <2>4
  <2>6. offset[k + 1] = Asm!NextIn(ext, offset, k)
    BY <2>4, EmittedIs
  <2>7. prog.cache[k] = CacheSize[instrs[k + 1].op]
    BY <1>1, <2>4, SlotsAre
  <2>8. offset[k + 1] = OffAt(k) + (PrefixCount(k) + 1 + CacheSize[instrs[k + 1].op])
    BY <2>5, <2>6, <2>7 DEF Asm!NextIn, Asm!SizeWith
  <2>9. /\ OffAt(k + 1) = OffAt(k) + PrefixCount(k) + 1 + CacheSize[instrs[k + 1].op]
        /\ PrefixCount(k) \in 0 .. 3 /\ OffAt(k) \in Nat
    BY <1>1, <2>4, ArgFacts
  <2>10. CacheSize[instrs[k + 1].op] \in 0 .. MaxCache
    <3>1. k + 1 \in 1 .. Count
      BY <1>2, <2>4
    <3> QED BY <1>1, <3>1, DecodedFacts
  <2> PICK u : u = PrefixCount(k)
    OBVIOUS
  <2> PICK C : C = CacheSize[instrs[k + 1].op]
    OBVIOUS
  <2>11. u \in Nat /\ C \in Nat
    BY <2>9, <2>10, WidthAssumption
  <2> QED BY <2>3, <2>4, <2>8, <2>9, <2>11
<1> QED BY <1>4

LEMMA InvGivesNarrow == ASSUME RTInv PROVE NeverWider
<1> SUFFICES ASSUME Done, NEW k \in 0 .. Count - 1
             PROVE  /\ ext[k] <= PrefixCount(k)
                    /\ (\A j \in 0 .. Count - 1 : ext[j] = PrefixCount(j))
                          => start[k] = OriginalAt(k) /\ carried[k] = OriginalArg(k)
  BY DEF NeverWider
<1>1. DecodeInv /\ stage = "decoded" /\ prog = SlotsOf /\ AsmInv /\ phase = "done"
  BY DEF RTInv, Done
<1>2. Count \in Nat /\ Asm!Slots = 0 .. Count - 1 /\ Asm!n = Count /\ k \in 0 .. Count
  BY <1>1, DecodedFacts, SlotsAre DEF Asm!Slots, Asm!n
<1>3. ext[k] <= PrefixCount(k)
  <2>1. Asm!AllDirected
    <3> SUFFICES ASSUME NEW i \in 0 .. Count - 1 PROVE Asm!WellDirected(i)
      BY <1>2 DEF Asm!AllDirected
    <3>1. CASE Jumps(i)
      BY <1>1, <3>1, Directed
    <3>2. CASE ~ Jumps(i)
      <4>1. prog.kind[i] = "INT"
        BY <1>1, <3>2, SlotsAre
      <4> QED BY <4>1 DEF Asm!WellDirected
    <3> QED BY <3>1, <3>2
  <2>2. Asm!Narrower(OldLayout)
    BY <1>1, <2>1, OldIsLayout DEF AsmInv, Asm!LeastInv
  <2> QED BY <1>2, <2>2 DEF Asm!Narrower, OldLayout
<1>4. ASSUME \A j \in 0 .. Count - 1 : ext[j] = PrefixCount(j)
      PROVE  start[k] = OriginalAt(k) /\ carried[k] = OriginalArg(k)
  <2>1. \A j \in 0 .. Count : offset[j] = OffAt(j)
    BY <1>4, SameWidths
  <2>2. start[k] = OriginalAt(k)
    BY <1>1, <1>2, <2>1, EmittedIs, OriginalAtIs
  <2>3. carried[k] = Asm!ArgOf(k)
    BY EmittedIs
  <2>4. CASE Jumps(k)
    <3>1. Asm!IsJump(k)
      BY <1>1, <2>4, SlotsAre DEF Asm!IsJump
    <3>2. Asm!ArgIn(ext, offset, k) = OriginalArg(k)
      BY <1>1, <1>4, <2>1, <2>4, LayoutArg
    <3> QED BY <2>2, <2>3, <3>1, <3>2 DEF Asm!ArgOf
  <2>5. CASE ~ Jumps(k)
    <3>1. ~ Asm!IsJump(k) /\ prog.int[k] = OriginalArg(k)
      BY <1>1, <2>5, SlotsAre DEF Asm!IsJump
    <3> QED BY <2>2, <2>3, <3>1 DEF Asm!ArgOf
  <2> QED BY <2>4, <2>5
<1> QED BY <1>3, <1>4

\* An untouched function never grows, and one without a spare prefix comes back
\* word for word where it was (README.md:379-380).
THEOREM NeverWiderHolds == RoundTripSpec => []NeverWider
<1>1. RTInv => NeverWider
  BY InvGivesNarrow
<1> QED BY RTInvInit, RTInvStep, <1>1, PTL DEF RoundTripSpec

=============================================================================
