--------------------------- MODULE ExceptionTable ---------------------------
(***************************************************************************)
(* Entries of the exception table, as encode_exctable() and                *)
(* decode_exctable() of src/src/exctable.cpp write and read them.  Offsets *)
(* count words, as in the table.                                           *)
(***************************************************************************)
EXTENDS Integers, Sequences, FiniteSetsExt

CONSTANTS
    WordModulus,    \* offsets, in words, of an unsigned int: 2^31 in the code
    Group           \* the values of a varint's group: 64

ASSUME VarintAssumption == WordModulus \in Nat \ {0} /\ Group \in Nat \ {0, 1}

More == Group           \* the bit that says that another group follows
StartFlag == 2 * Group  \* the bit that marks the first byte of an entry

-----------------------------------------------------------------------------
(***************************************************************************)
(* Varints: groups of six bits, the most significant first.                *)
(***************************************************************************)
Groups[v \in Nat] == IF v < Group THEN <<v>> ELSE Groups[v \div Group] \o <<v % Group>>

\* Mutant: the least significant group comes first, as in the location table.
LeastFirst(g, k) == g[Len(g) + 1 - k]

MostFirst(g, k) == g[k]

\* Mutant: the mark goes on the last byte.
FlagLast(k, n, flag) == IF k = n THEN flag ELSE 0

FlagFirst(k, n, flag) == IF k = 1 THEN flag ELSE 0

WriteBig(v, flag) ==
    LET g == Groups[v]
        n == Len(g)
    IN  [k \in 1 .. n |-> MostFirst(g, k) + (IF k < n THEN More ELSE 0) + FlagFirst(k, n, flag)]

ReadBig(bytes, p) ==
    LET last == Min({q \in p .. Len(bytes) : (bytes[q] \div More) % 2 = 0})
        val[q \in p .. last] == (bytes[q] % Group) + IF q = p THEN 0 ELSE Group * val[q - 1]
    IN  [val |-> val[last], next |-> last + 1]

-----------------------------------------------------------------------------
WriteEntry(e) ==
    WriteBig(e.start, StartFlag)
      \o WriteBig((e.stop - e.start) % WordModulus, 0)
      \o WriteBig(e.handler, 0)
      \o WriteBig(2 * e.depth + e.lasti, 0)

\* The entry at position p, and where the next one starts.
ReadEntry(bytes, p) ==
    LET start == ReadBig(bytes, p)
        size == ReadBig(bytes, start.next)
        handler == ReadBig(bytes, size.next)
        dl == ReadBig(bytes, handler.next)
    IN  [entry |-> [start |-> start.val, stop |-> (start.val + size.val) % WordModulus,
                    handler |-> handler.val, depth |-> dl.val \div 2, lasti |-> dl.val % 2],
         next |-> dl.next]

-----------------------------------------------------------------------------
(***************************************************************************)
(* The interpreter's search for the entry of word w in a table it does not *)
(* halve first.  It goes from mark to mark, and gives up at the first      *)
(* entry that starts behind w.                                             *)
(***************************************************************************)
MAX_LINEAR_SEARCH == 40    \* bytes

Marks(bytes) == {p \in 1 .. Len(bytes) : bytes[p] >= StartFlag}

Found(bytes, w) ==
    LET entry(p) == ReadEntry(bytes, p).entry
        until == {p \in Marks(bytes) : \A q \in Marks(bytes) : q <= p => entry(q).start <= w}
        hits == {p \in until : w < entry(p).stop}
    IN  IF hits = {} THEN <<>> ELSE <<entry(Min(hits))>>
=============================================================================
