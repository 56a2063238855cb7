------------------------------- MODULE MCTables -------------------------------
(***************************************************************************)
(* Jobs for Tables: locations on both sides of every bound of the forms of *)
(* an entry, instructions wider than an entry, ranges wider than a pair,   *)
(* and exception entries with offsets on both sides of a varint group.     *)
(***************************************************************************)
EXTENDS Tables

FIRST == 40

Loc(line, end, cols) ==
    [lineno |-> line, end_lineno |-> end, col_offset |-> cols[1], end_col |-> cols[2]]

Slots(at, widths) ==
    {[loc |-> l, n_extended |-> w[1], ncache |-> w[2]] : l \in at, w \in widths}

Job(old, slots, exc) == [old |-> old, slots |-> slots, firstlineno |-> FIRST, exc |-> exc]

-----------------------------------------------------------------------------
Columns == {<<-1, -1>>, <<0, 0>>, <<7, 22>>, <<7, 23>>, <<79, 80>>, <<80, 81>>,
            <<127, 127>>, <<127, 128>>, <<9, 3>>, <<5, -1>>}

OneLineLocs == {Loc(line, line, c) : line \in {-1, 8, 39, 40, 41, 42, 43}, c \in Columns}
MultiLineLocs == {Loc(line, line + d, c) :
                    line \in {39, 40, 41}, d \in {-1, 1, 64}, c \in {<<-1, -1>>, <<0, 0>>, <<64, 2>>}}
FewLocs == {NoLocation, Loc(40, 40, <<-1, -1>>), Loc(40, 40, <<3, 5>>),
            Loc(41, 41, <<3, 5>>), Loc(38, 39, <<3, 5>>), Loc(60, 60, <<200, 100>>)}

\* Two instructions with any two locations; three of up to three entries each.
LocationJobs ==
    {Job(FALSE, <<a, b>>, <<>>) : a \in Slots(OneLineLocs \cup MultiLineLocs, {<<0, 0>>}),
                                  b \in Slots(OneLineLocs \cup MultiLineLocs, {<<1, 1>>})}
      \cup {Job(FALSE, s, <<>>) :
              s \in [1 .. 3 -> Slots(FewLocs, {<<0, 0>>, <<1, 6>>, <<2, 15>>})]}

\* Three instructions whose lines and widths need chains of pairs.
LineJobs ==
    {Job(TRUE, s, <<>>) :
        s \in [1 .. 3 -> Slots({Loc(line, -1, <<-1, -1>>) : line \in {-1, 33, 36, 37, 40, 43, 44}},
                               {<<0, 0>>, <<2, 0>>, <<3, 0>>})]}
      \cup {Job(TRUE, <<>>, <<>>)}

\* Two entries over code of seven words, where four need a second group.
Offsets == {0, 1, 3, 4, 7}
ExcEntries ==
    {[start |-> a, stop |-> b, handler |-> h, depth |-> d, lasti |-> d % 2] :
        a \in Offsets, b \in Offsets, h \in {1, 4}, d \in {1, 8}}

EntryJobs ==
    LET slot(n) == [loc |-> NoLocation, n_extended |-> 0, ncache |-> n]
    IN  {Job(FALSE, <<slot(5), slot(0)>>, <<x, y>>) : x \in ExcEntries, y \in ExcEntries}

MCJobs == LocationJobs \cup LineJobs \cup EntryJobs
=============================================================================
