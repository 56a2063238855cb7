------------------------------ MODULE StackExec ------------------------------
(***************************************************************************)
(* The interpreter running the code object that to_code() built with the   *)
(* stack size and the exception table depths of compute_stacksize(): the   *)
(* environment that src/src/stackdepth.cpp computes for.                   *)
(*                                                                         *)
(* The interpreter is not in the repository.  Its rules are the ones the   *)
(* code relies on: an instruction moves the depth by its stack effect      *)
(* (stackdepth.cpp:20-27), a raise inside a protected region pops the      *)
(* stack to the entry's depth, pushes lasti if asked, and the exception    *)
(* (stackdepth.cpp:87-93), a generator-entry marker and its POP_TOP leave  *)
(* the depth alone (stackdepth.cpp:160-168).                               *)
(***************************************************************************)
EXTENDS StackDepth

VARIABLES
    pc,  \* the instruction about to run
    sp   \* the depth of the value stack

allVars == <<vars, pc, sp>>

ExecInit == Init /\ pc = 0 /\ sp = 0

Assembling == Next /\ UNCHANGED <<pc, sp>>

\* An execution that popped an empty stack has faulted.  Where a depth wrapped,
\* the stack size means nothing and the execution is not followed.
Running == phase = "done" /\ ~ overflowed /\ pc < n /\ sp >= 0

Execute ==
    /\ Running
    /\ \E e \in Edges(pc) : pc' = e[1] /\ sp' = sp + e[2]
    /\ UNCHANGED vars

\* to_code() raises for an entry whose start or stop is attached nowhere: it
\* never runs (bytecode.cpp:713-742).
Protecting(k) == StartResolves(k) /\ StopResolves(k) /\ pc \in Region(k)

Raise ==
    /\ Running
    /\ \E k \in Entries :
          /\ Protecting(k)
          /\ pc' = Handler(k)
          /\ sp' = SeedDepth(k, exc_depth[k])
    /\ UNCHANGED vars

ExecNext == Assembling \/ Execute \/ Raise

ExecSpec == ExecInit /\ [][ExecNext]_allVars

\* compute_stacksize() runs to its end; the program it is for need not.
FairExecSpec == ExecSpec /\ WF_allVars(Assembling)

-----------------------------------------------------------------------------
\* No execution, along any branches and any raises, needs more stack than
\* compute_stacksize() returned, before or after the effect of the instruction
\* it runs ("the maximum value-stack depth reached", stackdepth.h:10).
NoStackOverflow ==
    (phase = "done" /\ ~ overflowed)
        => sp <= maxdepth /\ (pc < n => DepthAfter(pc, sp) <= maxdepth)

=============================================================================
