------------------------------- MODULE Engel -------------------------------
(***************************************************************************)
(* The interpreter: programs compiled by CodeGen, run by VM, compared with *)
(* their meaning (Semantics).                                              *)
(***************************************************************************)
EXTENDS VM, CodeGen, Semantics, Families

CONSTANT Sources    \* the programs, as sequences of statements

\* For each program: the compiler's state after it, the functions, and what it
\* means.
Objects  == ForEach(Sources, Compile)
Compiled == ForEach(Objects, LAMBDA o : o.funcs)
Meanings == ForEach(Sources, Meaning)

ASSUME CompiledAssumption == Programs = Compiled

(***************************************************************************)
(* Properties.                                                             *)
(***************************************************************************)
\* The machine prints what the program means, piece by piece and in order,
\* and ends the way the program means to end.
Agrees ==
  /\ IsPrefix(out, Meanings[src].out)
  /\ status # "running" => status = Meanings[src].status /\ out = Meanings[src].out
=============================================================================
