----------------------------- MODULE MCInterning -----------------------------
(***************************************************************************)
(* Functions with an argument captured by an inner function, a cell of     *)
(* their own and a free variable, taken apart, edited and put together.    *)
(***************************************************************************)
EXTENDS Interning

\* one and uno differ by identity only, one and true by type.
MCObject == {"None", "one", "uno", "two", "true", "zero", "minus zero"}
TypeOf == [o \in MCObject |->
    CASE o = "None" -> "NoneType" [] o \in {"one", "uno", "two"} -> "int" [] o = "true" -> "bool"
      [] OTHER -> "float"]
EqOf == [o \in MCObject |->
    CASE o = "None" -> "None" [] o \in {"one", "uno", "true"} -> "1"
      [] o = "two" -> "2" [] OTHER -> "0"]
MeaningOf == [o \in MCObject |-> IF o = "uno" THEN "one" ELSE o]

\* a: an argument that is a cell; l: a local; c: a cell; f: a free variable.
Capturing(unified, body) ==
    [consts |-> <<"None", "one">>, names |-> <<"g">>, varnames |-> <<"a", "l">>, cellvars |-> <<"a", "c">>,
     freevars |-> <<"f">>, nlocals |-> 2, unified |-> unified, code |-> body]
Closure == Capturing(TRUE, <<<<"LOCAL", 1>>, <<"FREE", 0>>, <<"FREE", 3>>, <<"GLOBAL", 1>>>>)
OldClosure == Capturing(FALSE, <<<<"LOCAL", 1>>, <<"FREE", 0>>, <<"FREE", 2>>, <<"GLOBAL", 0>>>>)
Plain ==
    [consts |-> <<"None", "one">>, names |-> <<>>, varnames |-> <<>>, cellvars |-> <<>>, freevars |-> <<>>,
     nlocals |-> 0, unified |-> TRUE, code |-> <<<<"CONST", 1>>>>]
TwoZeros == [Plain EXCEPT !.consts = <<"zero", "minus zero">>, !.code = <<<<"CONST", 1>>>>]


\* Bytecode(), an empty template.
Template == [Plain EXCEPT !.consts = <<>>, !.code = <<>>]

Functions == {Closure, OldClosure, Plain, Template}
Floats == {TwoZeros}

SomeEdits == {<<"CONST", "uno">>, <<"CONST", "true">>, <<"LOCAL", "c">>, <<"LOCAL", "x">>,
              <<"FREE", "y">>, <<"FREE", "a">>}
SomeAdditions == {<<"CONST", "two">>, <<"CONST", "true">>, <<"LOCAL", "c">>, <<"LOCAL", "y">>,
                  <<"GLOBAL", "x">>, <<"GLOBAL", "g">>, <<"NAME", "x">>}
NoEdits == {}
=============================================================================
