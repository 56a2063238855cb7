---------------------------- MODULE MCWheelBuild -----------------------------
(***************************************************************************)
(* A wheel with sources of both kinds, one that is not selected, and data; *)
(* with a tag of its own, with the interpreter's, and without WHEEL or     *)
(* RECORD.                                                                 *)
(***************************************************************************)
EXTENDS WheelBuild

File(stem, suffix, selected) == [stem |-> stem, suffix |-> suffix, selected |-> selected]
Package == <<File("a", ".py", TRUE), File("b", ".pya", TRUE), File("c", ".py", FALSE),
             File("d", ".txt", FALSE)>>
WHEEL == File("WHEEL", "", FALSE)
RECORD == File("RECORD", "", FALSE)

Wheels ==
    {[members |-> Package \o <<WHEEL, RECORD>>, tag |-> "py3-none-any"],
     [members |-> <<WHEEL>> \o Package \o <<RECORD>>, tag |-> "cp311-none-any"],
     [members |-> Package \o <<RECORD>>, tag |-> "py3-none-any"],
     [members |-> Package \o <<WHEEL>>, tag |-> "py3-none-any"]}
=============================================================================
