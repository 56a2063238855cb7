------------------------------ MODULE MCInliner ------------------------------
(***************************************************************************)
(* Callers with a call in each kind of place, and all short callees that   *)
(* keep their stack balanced.                                              *)
(***************************************************************************)
EXTENDS Inliner

TRUTHY == <<0, "True">>
K == <<0, "K">>
OTHERK == <<0, "other K">>
Id(s) == <<Own, s>>
Packed(j, k) == <<16 * j + k, "">>
At(l, x) == [x EXCEPT !.labels = {Id(l)}]

LoadF == Instr("LOAD_GLOBAL", <<1, "f">>)
LoadG == Instr("LOAD_GLOBAL", <<1, "g">>)
Load(v) == Instr("LOAD_FAST", Id(v))
Store(v) == Instr("STORE_FAST", Id(v))
Const(c) == Instr("LOAD_CONST", c)
CallN(n) == Instr("CALL", <<n, "">>)
JumpTo(op, l) == Instr(op, Id(l))
Pop1 == Instr("POP_TOP", NoArg)
Ret == Instr("RETURN_VALUE", NoArg)

-----------------------------------------------------------------------------
(***************************************************************************)
(* Callers, of the variables a, b and r.                                   *)
(***************************************************************************)
Plain == <<Instr("RESUME", NoArg), LoadF, Load("a"), CallN(1), Ret>>

\* A value waits under the call.
Waiting == <<Load("b"), LoadF, Load("a"), CallN(1), Pop1, Ret>>

\* Two calls, the second of the first one's result.
Twice == <<LoadF, Load("a"), CallN(1), Store("r"), LoadF, Load("r"), CallN(1), Ret>>

\* A call of g, which f calls too, and then of f.
Mix == <<LoadG, Load("a"), CallN(1), Store("r"), LoadF, Load("r"), CallN(1), Ret>>

\* Called once more with False if a is true.
Loop == <<At("again", LoadF), Load("a"), CallN(1), Store("r"),
          Load("a"), JumpTo("POP_JUMP_IF_FALSE", "out"),
          Const(FALSY), Store("a"), JumpTo("JUMP", "again"), At("out", Load("r")), Ret>>

\* A jump to the middle of the call.
JumpIn == <<LoadF, At("in", Load("a")), CallN(1), Store("r"),
            Load("a"), JumpTo("POP_JUMP_IF_FALSE", "out"), Const(FALSY), Store("a"),
            LoadF, JumpTo("JUMP", "in"), At("out", Load("r")), Ret>>

\* The call, and only the call, is protected; an exception returns True.
Try == <<At("s", LoadF), Load("a"), CallN(1), At("e", Ret),
         At("h", Pop1), Const(TRUTHY), Ret>>

\* The loop above, with the protected call in it; an exception returns r.
TryLoop == <<At("again", LoadF), Load("a"), CallN(1), At("e", Store("r")),
             Load("a"), JumpTo("POP_JUMP_IF_FALSE", "out"),
             Const(FALSY), Store("a"), JumpTo("JUMP", "again"),
             At("h", Pop1), Const(OTHERK), Ret, At("out", Load("r")), Ret>>

\* The same, with the handler before a region that ends with the code.
TryToEnd == <<JumpTo("JUMP", "s"), At("h", Pop1), Const(TRUTHY), Ret,
              At("s", LoadF), Load("a"), CallN(1), Ret>>

\* Two arguments from one instruction, from two, in either order.
Pair == <<LoadF, Instr("LOAD_FAST_LOAD_FAST", Packed(0, 1)), CallN(2), Ret>>
Mixed == <<LoadF, Load("b"), Const(TRUTHY), CallN(2), Ret>>

Region(s, e, h) == <<[start |-> Id(s), stop |-> Id(e), handler |-> Id(h), depth |-> 0]>>

Caller(code, exc) ==
    [instrs |-> code, varnames |-> <<Id("a"), Id("b"), Id("r")>>, exc |-> exc,
     end_labels |-> {Id("end")}, module |-> "m"]

-----------------------------------------------------------------------------
(***************************************************************************)
(* Callees, of the parameters p and q or p alone, and the local y.         *)
(***************************************************************************)
Callee(code, n, module) ==
    [instrs |-> code, argcount |-> n, module |-> module, exc |-> FALSE, plain |-> TRUE,
     varnames |-> IF n = 1 THEN <<Id("p"), Id("y")>> ELSE <<Id("p"), Id("q"), Id("y")>>]

Effect(op) ==
    CASE op \in {"LOAD_FAST", "LOAD_CONST", "LOAD_GLOBAL"} -> 1
      [] op = "LOAD_FAST_LOAD_FAST" -> 2
      [] op \in {"STORE_FAST", "POP_TOP", "POP_JUMP_IF_FALSE", "RETURN_VALUE"} -> -1
      [] op = "STORE_FAST_STORE_FAST" -> -2
      [] OTHER -> 0

Needs(op) == CASE op = "STORE_FAST_LOAD_FAST" -> 1 [] OTHER -> -Effect(op)

\* The stack never underflows, and holds one value at a RETURN_VALUE.
Balanced(code) ==
    LET depth[k \in 1 .. Len(code)] ==
            IF k = 1 THEN 0 ELSE depth[k - 1] + Effect(code[k - 1].op)
    IN  \A k \in DOMAIN code :
          /\ depth[k] >= Needs(code[k].op)
          /\ code[k].op = "RETURN_VALUE" => depth[k] = 1
          /\ code[k].op = "RETURN_CONST" => depth[k] = 0
          /\ code[k].op = "POP_JUMP_IF_FALSE" =>
                \A j \in DOMAIN code : code[k].arg \in code[j].labels => depth[j] = depth[k] - 1

\* n instructions between RESUME and the return; a jump goes back to RESUME, or
\* to the last of them.
Codes(n, choices) ==
    {c \in {<<At("s", Instr("RESUME", NoArg))>>
              \o [k \in 1 .. n |-> IF k = n THEN At("m", body[k]) ELSE body[k]] \o <<ret>> :
              body \in [1 .. n -> choices], ret \in {Ret, Instr("RETURN_CONST", TRUTHY)}} :
        Balanced(c)}

Choices1 ==
    {Load("p"), Load("y"), Store("p"), Store("y"), Const(FALSY), Pop1, Ret,
     Instr("DELETE_FAST", Id("p")), Instr("LOAD_GLOBAL", <<0, "K">>),
     JumpTo("POP_JUMP_IF_FALSE", "m"), JumpTo("POP_JUMP_IF_FALSE", "s"),
     Instr("STORE_FAST_LOAD_FAST", Packed(0, 1)), Instr("STORE_FAST_LOAD_FAST", Packed(1, 0))}

Choices2 ==
    {Load("p"), Load("q"), Store("q"), Store("y"), Pop1, Const(FALSY),
     Instr("STORE_FAST_STORE_FAST", Packed(1, 2)), Instr("STORE_FAST_LOAD_FAST", Packed(0, 1)),
     Instr("LOAD_FAST_LOAD_FAST", Packed(1, 0))}

\* Sets y if p is true, and returns y.
SetsWhenTrue ==
    <<Instr("RESUME", NoArg), Load("p"), JumpTo("POP_JUMP_IF_FALSE", "m"),
      Const(K), Store("y"), At("m", Load("y")), Ret>>

\* Functions that call g: with its result returned, or kept, or given back as p;
\* and one where the call is not always reached.
CallsG ==
    {<<Instr("RESUME", NoArg), LoadG, Load("p"), CallN(1), Ret>>,
     <<LoadG, Load("p"), CallN(1), Pop1, Load("p"), Ret>>,
     <<Const(FALSY), Store("y"), LoadG, Load("p"), CallN(1), Store("p"), Load("y"), Ret>>,
     <<Load("p"), JumpTo("POP_JUMP_IF_FALSE", "m"), LoadG, Load("p"), CallN(1), Store("p"),
       At("m", Load("p")), Ret>>}

\* A function of the parameter v and the local w; and one with f's local y.
Other(code) ==
    [Callee(code, 1, "m") EXCEPT !.varnames = <<Id("v"), Id("w")>>]
OtherChoices ==
    {Load("v"), Load("w"), Store("v"), Store("w"), Const(FALSY), JumpTo("POP_JUMP_IF_FALSE", "m")}
SetsY == <<Const(K), Store("y"), Load("y"), Ret>>

ReturnsK == <<Instr("LOAD_GLOBAL", <<0, "K">>), Ret>>

-----------------------------------------------------------------------------
Globals == [m \in {"m", "lib"} |->
               [name \in {"f", "g", "K"} |->
                   CASE name \in {"f", "g"} -> Func(name)
                     [] name = "K" /\ m = "m" -> K
                     [] OTHER -> OTHERK]]

Arguments == {[v \in {Id("a"), Id("b")} |-> IF v = Id("a") THEN x ELSE FALSY] :
                x \in {TRUTHY, FALSY}}

ProgramsOf(callers, fs) ==
    {[caller |-> c, callees |-> "f" :> f, globals |-> Globals, args |-> x] :
        c \in callers, f \in fs, x \in Arguments}
ProgramsOf2(callers, fs, gs) ==
    {[caller |-> c, callees |-> "f" :> f @@ "g" :> g, globals |-> Globals, args |-> x] :
        c \in callers, f \in fs, g \in gs, x \in Arguments}

NoExc == <<>>
CallerCodes == {Plain, Waiting, Twice, Loop, JumpIn}
Callers1 == {Caller(c, NoExc) : c \in CallerCodes}
              \cup {Caller(Try, Region("s", "e", "h")), Caller(TryLoop, Region("again", "e", "h")),
                     Caller(TryToEnd, Region("s", "end", "h"))}
Callers2 == {Caller(Pair, NoExc), Caller(Mixed, NoExc)}

Unfit == {[Callee(ReturnsK, 1, "m") EXCEPT !.plain = FALSE],
          [Callee(ReturnsK, 1, "m") EXCEPT !.exc = TRUE]}

\* Callees of the caller's module.
SameModule ==
    ProgramsOf(Callers1, {Callee(c, 1, "m") : c \in Codes(4, Choices1)} \cup Unfit)
      \cup ProgramsOf(Callers1 \cup Callers2, {Callee(SetsWhenTrue, 1, "m")})
      \cup ProgramsOf(Callers2, {Callee(c, 2, "m") : c \in Codes(4, Choices2)})
      \cup ProgramsOf2({Caller(Plain, NoExc), Caller(Loop, NoExc), Caller(Mix, NoExc),
                        Caller(Try, Region("s", "e", "h"))},
                       {Callee(c, 1, "m") : c \in CallsG}, {Other(c) : c \in Codes(3, OtherChoices)})

\* A callee of another module; one that relies on a fresh local; and one that
\* calls a function with a local of the same name.
Namesakes ==
    ProgramsOf2({Caller(Plain, NoExc)}, {Callee(c, 1, "m") : c \in CallsG}, {Callee(SetsY, 1, "m")})
Strangers ==
    Namesakes
      \cup ProgramsOf({Caller(Plain, NoExc)}, {Callee(ReturnsK, 1, "lib")})
      \cup ProgramsOf({Caller(TryLoop, Region("again", "e", "h"))}, {Callee(SetsWhenTrue, 1, "m")})
=============================================================================
