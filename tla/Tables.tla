------------------------------- MODULE Tables -------------------------------
(***************************************************************************)
(* The tables at the end of Bytecode::to_code() (src/src/bytecode.cpp) and *)
(* at the start of from_code(): to_code() repeats every instruction's      *)
(* location for each of its words, encodes the line table and the          *)
(* exception table; from_code() decodes both.                              *)
(*                                                                         *)
(* A job says which of the two line table formats the interpreter has;     *)
(* one that has the old one has neither CACHE words nor exception tables.  *)
(***************************************************************************)
EXTENDS LocationTable, LineTable, ExceptionTable, SequencesExt

CONSTANT Jobs     \* what to_code() is given: slots, firstlineno, entries

INSTR_BYTES == 2
Locations == [lineno : Field, end_lineno : Field, col_offset : Field, end_col : Field]

\* ExcEntry, offsets in words; every depth is known by now.
Entries == [start : 0 .. WordModulus - 1, stop : 0 .. WordModulus - 1,
            handler : 0 .. WordModulus - 1, depth : Nat, lasti : 0 .. 1]

ASSUME JobAssumption == \A j \in Jobs :
    /\ j.slots \in Seq([loc : Locations, n_extended : 0 .. 3, ncache : Nat])
    /\ j.firstlineno \in 0 .. Limit - 1
    /\ j.exc \in Seq(Entries)
    /\ j.old => j.exc = <<>> /\ \A k \in DOMAIN j.slots : j.slots[k].ncache = 0

VARIABLES
    job,        \* never changes
    words,      \* the words of the code (real_slots); never changes
    stage,      \* the loop that is running
    i,          \* the word, breakpoint or entry an encoder is at (from 1)
    cur,        \* its running line (cur_lineno, prev_line)
    lines,      \* the line table: bytes, or pairs in the old format
    exctable,   \* the exception table
    p,          \* the position a decoder is at
    unit,       \* the word (unit_idx), or byte (byte_off), it is at
    lineno,     \* its running line
    locs,       \* the location of each instruction
    mentioned,  \* the instructions a pair names
    excs        \* the decoded entries

vars == <<job, words, stage, i, cur, lines, exctable, p, unit, lineno, locs, mentioned, excs>>

-----------------------------------------------------------------------------
(***************************************************************************)
(* The words of the code: prefixes, the instruction, CACHE words.          *)
(***************************************************************************)
WordsOf(j, k) ==
    LET s == j.slots[k]
    IN  [w \in 1 .. s.n_extended + 1 + s.ncache |->
            [slot |-> k, logical |-> w = s.n_extended + 1, loc |-> s.loc]]

Words == DOMAIN words
Instrs == DOMAIN job.slots

\* The instruction whose logical word is the first at or after word w.
InstrAt(w) == words[w].slot

Init ==
    /\ job \in Jobs
    /\ words = FlattenSeq([k \in DOMAIN job.slots |-> WordsOf(job, k)])
    /\ stage = IF job.old THEN "write_ranges" ELSE "write_locations"
    /\ i = 1
    /\ cur = job.firstlineno
    /\ lines = <<>> /\ exctable = <<>>
    /\ p = 1 /\ unit = 0 /\ lineno = job.firstlineno
    /\ locs = [k \in Instrs |-> IF job.old THEN [NoLocation EXCEPT !.lineno = job.firstlineno]
                                           ELSE NoLocation]
    /\ mentioned = {}
    /\ excs = <<>>

Decoding == <<p, unit, lineno, locs, mentioned, excs>>
Encoding == <<i, cur, lines, exctable>>

-----------------------------------------------------------------------------
(***************************************************************************)
(* encode_linetable() of 3.11: an entry for each run of words that share a *)
(* location, eight words at most.                                          *)
(***************************************************************************)
SameEntry(w, v) == words[w].loc = words[v].loc

Run(w) ==
    CHOOSE r \in 1 .. MaxRun :
        /\ w + r - 1 \in Words
        /\ \A v \in w .. w + r - 1 : SameEntry(w, v)
        /\ r = MaxRun \/ w + r \notin Words \/ ~ SameEntry(w, w + r)

EncodeLocation ==
    /\ stage = "write_locations"
    /\ i \in Words
    /\ lines' = lines \o WriteLocation(words[i].loc, Run(i), cur)
    /\ cur' = LineAfter(words[i].loc, cur)
    /\ i' = i + Run(i)
    /\ UNCHANGED <<job, words, stage, exctable, Decoding>>

(***************************************************************************)
(* encode_lnotab(): a range for each breakpoint, which lasts to the next.  *)
(***************************************************************************)
\* The words where the line changes, and the first.
Breakpoints ==
    {w \in Words : w = 1 \/ words[w].loc.lineno # words[w - 1].loc.lineno}

EncodeRange ==
    LET line == words[i].loc.lineno
        end == Min({w \in Breakpoints : w > i} \cup {Len(words) + 1})
    IN  /\ stage = "write_ranges"
        /\ i \in Words
        /\ lines' = IF i \in Breakpoints
                    THEN lines \o WriteRange(line, cur, (end - i) * INSTR_BYTES)
                    ELSE lines
        /\ cur' = IF i \in Breakpoints THEN LineAfterRange(line, cur) ELSE cur
        /\ i' = end
        /\ UNCHANGED <<job, words, stage, exctable, Decoding>>

LinesDone ==
    /\ stage \in {"write_locations", "write_ranges"}
    /\ i \notin Words
    /\ stage' = "write_entries"
    /\ i' = 1
    /\ UNCHANGED <<job, words, cur, lines, exctable, Decoding>>

\* encode_exctable(), one entry.
EncodeEntry ==
    /\ stage = "write_entries"
    /\ i \in DOMAIN job.exc
    /\ exctable' = exctable \o WriteEntry(job.exc[i])
    /\ i' = i + 1
    /\ UNCHANGED <<job, words, stage, cur, lines, Decoding>>

Encoded ==
    /\ stage = "write_entries"
    /\ i \notin DOMAIN job.exc
    /\ stage' = IF job.old THEN "read_ranges" ELSE "read_locations"
    /\ UNCHANGED <<job, words, Encoding, Decoding>>

-----------------------------------------------------------------------------
(***************************************************************************)
(* decode_linetable() of 3.11: an entry gives its location to the          *)
(* instructions among its words, and leaves prefixes and CACHE words out.  *)
(***************************************************************************)
Logical(w) == w \in Words /\ words[w].logical

\* The loop ends with the table, or with the last instruction (instr_idx).
MoreLocations == p <= Len(lines) /\ \E w \in Words : unit < w /\ Logical(w)

DecodeLocation ==
    LET entry == ReadLocation(lines, p, lineno)
        length == LengthAt(lines, p)
    IN  /\ stage = "read_locations"
        /\ MoreLocations
        /\ locs' = [k \in Instrs |->
                      IF \E w \in unit + 1 .. unit + length : Logical(w) /\ InstrAt(w) = k
                      THEN entry.loc ELSE locs[k]]
        /\ lineno' = entry.lineno
        /\ unit' = unit + length
        /\ p' = entry.next
        /\ UNCHANGED <<job, words, stage, Encoding, mentioned, excs>>

LocationsDone ==
    /\ stage = "read_locations"
    /\ ~ MoreLocations
    /\ stage' = "read_entries"
    /\ p' = 1
    /\ UNCHANGED <<job, words, Encoding, unit, lineno, locs, mentioned, excs>>

(***************************************************************************)
(* decode_lnotab(): a pair gives its line to the instruction at the start  *)
(* of its range; an instruction that no pair names is on the line before.  *)
(***************************************************************************)
DecodeRange ==
    LET delta == lines[p][2]
        word == unit \div INSTR_BYTES + 1
    IN  /\ stage = "read_ranges"
        /\ p <= Len(lines)
        /\ lineno' = IF delta = NoLine THEN lineno ELSE lineno + delta
        /\ IF word \in Words
           THEN /\ locs' = [locs EXCEPT ![InstrAt(word)].lineno =
                              IF delta = NoLine THEN -1 ELSE lineno']
                /\ mentioned' = mentioned \cup {InstrAt(word)}
           ELSE UNCHANGED <<locs, mentioned>>
        /\ unit' = unit + lines[p][1]
        /\ p' = p + 1
        /\ UNCHANGED <<job, words, stage, Encoding, excs>>

\* The mentioned instruction at or before k; 1 if there is none.
NamedBefore(k) == Max({m \in mentioned : m <= k} \cup {1})

ForwardFill ==
    /\ stage = "read_ranges"
    /\ p > Len(lines)
    /\ locs' = [k \in Instrs |-> locs[NamedBefore(k)]]
    /\ stage' = "done"
    /\ UNCHANGED <<job, words, Encoding, p, unit, lineno, mentioned, excs>>

DecodeEntry ==
    LET e == ReadEntry(exctable, p)
    IN  /\ stage = "read_entries"
        /\ p <= Len(exctable)
        /\ excs' = Append(excs, e.entry)
        /\ p' = e.next
        /\ UNCHANGED <<job, words, stage, Encoding, unit, lineno, locs, mentioned>>

Decoded ==
    /\ stage = "read_entries"
    /\ p > Len(exctable)
    /\ stage' = "done"
    /\ UNCHANGED <<job, words, Encoding, Decoding>>

Returned == stage = "done" /\ UNCHANGED vars

Next ==
    \/ EncodeLocation \/ EncodeRange \/ LinesDone \/ EncodeEntry \/ Encoded
    \/ DecodeLocation \/ LocationsDone \/ DecodeRange \/ ForwardFill
    \/ DecodeEntry \/ Decoded \/ Returned

Spec == Init /\ [][Next]_vars

-----------------------------------------------------------------------------
(***************************************************************************)
(* Properties.                                                             *)
(***************************************************************************)
\* The values the variables hold; in particular, what is written are bytes.
TypeOK ==
    /\ stage \in {"write_locations", "write_ranges", "write_entries", "read_locations",
                  "read_ranges", "read_entries", "done"}
    /\ i \in Nat /\ cur \in Nat /\ p \in Nat /\ unit \in Nat /\ lineno \in Int
    /\ IF job.old THEN \A k \in DOMAIN lines : /\ lines[k][1] \in 0 .. SpanMax
                                                /\ lines[k][2] \in NoLine .. DeltaMax
                  ELSE \A k \in DOMAIN lines : lines[k] \in 0 .. 255
    /\ \A k \in DOMAIN exctable : exctable[k] \in 0 .. 4 * Group - 1
    /\ DOMAIN locs = Instrs /\ mentioned \subseteq Instrs

OnlyLine(line) == [NoLocation EXCEPT !.lineno = line]

\* The locations that do not come back whole: without a line nothing is written of
\* them (NONE); the pairs of the old format hold lines only; and a line without
\* columns is written as NO_COLUMNS (linetable.cpp:408-413), which loses an
\* end_lineno of its own, and an end_col, although a LONG entry could say both and
\* decode_linetable() would read them (294-305).
Loses(loc) ==
    \/ loc.lineno < 0 /\ loc # NoLocation
    \/ loc.lineno >= 0 /\ job.old /\ loc # OnlyLine(loc.lineno)
    \/ loc.lineno >= 0 /\ ~ job.old /\ loc.col_offset < 0 /\ loc # OnLine(loc.lineno, -1, -1)

WhatIsLeft(loc) ==
    IF ~ Loses(loc) THEN loc
    ELSE IF loc.lineno < 0 THEN NoLocation
    ELSE IF job.old THEN OnlyLine(loc.lineno)
    ELSE OnLine(loc.lineno, -1, -1)

\* Every instruction comes back with the location it had, apart from the three
\* losses of Loses, however its words are grouped into entries and whatever the
\* entries before it left the running line at (encode_linetable() and
\* decode_linetable()).  "The round trip is lossless" (README.md:378-380) is true of
\* the others only.
LocationsKept ==
    stage = "done" => \A k \in Instrs : locs[k] = WhatIsLeft(job.slots[k].loc)

\* The line of a word, by the pairs that cover its first byte.
RangeLine(w) ==
    LET spans == [k \in DOMAIN lines |-> lines[k][1]]
        deltas == [k \in DOMAIN lines |-> IF lines[k][2] = NoLine THEN 0 ELSE lines[k][2]]
        covering == {k \in DOMAIN lines :
                        (w - 1) * INSTR_BYTES - SumTo(spans, k - 1) \in 0 .. lines[k][1] - 1}
        k == Min(covering)
    IN  IF covering = {} \/ lines[k][2] = NoLine THEN -1
        ELSE job.firstlineno + SumTo(deltas, k)

WordLine(w) == IF job.old THEN RangeLine(w) ELSE InterpreterLine(lines, w - 1, job.firstlineno)

\* The line the interpreter is to find.
LineOfLoc(loc) == IF loc.lineno < 0 THEN -1 ELSE loc.lineno

\* The interpreter, which moves from marker to marker, finds the instruction's line
\* at each of its words, prefixes and CACHE words too: a traceback may stop at any
\* ("or PyCode_Addr2Line()/tb_lineno silently desyncs", linetable.cpp:398-402).
InterpreterAgrees ==
    stage = "write_entries" /\ i = 1 =>
        \A w \in Words : WordLine(w) = LineOfLoc(words[w].loc)

\* The entries come back as they were (encode_exctable(), decode_exctable()).
EntriesKept == stage = "done" => excs = job.exc

\* Where the entries are sorted by their start, the interpreter finds at every word
\* the first entry that covers it, although it reads no further than it must.  A
\* table of more than MAX_LINEAR_SEARCH bytes it halves first, which is not modelled.
Sorted == \A a, b \in DOMAIN job.exc : a <= b => job.exc[a].start <= job.exc[b].start

Covering(w) == {e \in DOMAIN job.exc : w \in job.exc[e].start .. job.exc[e].stop - 1}

HandlerFound ==
    (stage = "read_entries" /\ p = 1 /\ Sorted /\ Len(exctable) <= MAX_LINEAR_SEARCH) =>
        \A w \in 0 .. Len(words) - 1 :
            Found(exctable, w) =
                IF Covering(w) = {} THEN <<>> ELSE <<job.exc[Min(Covering(w))]>>
=============================================================================
