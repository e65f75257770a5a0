--------------------------- MODULE MCDisassembler ---------------------------
(***************************************************************************)
(* The listings of the programs of Programs, compiled by CodeGen.          *)
(***************************************************************************)
EXTENDS Disassembler, CodeGen, Programs

CONSTANT Sources   \* the programs, as sequences of statements

Objects    == ForEach(Sources, Compile)
InstructionStarts == ForEach(Objects, LAMBDA object : {start \in object.starts : TRUE})
Compiled   == ForEach(Objects, LAMBDA object : object.funcs)
MCPrograms == Compiled
MCStarts   == InstructionStarts

MCSources == Shared \o Factories \o Loops \o Branches \o Expressions \o Scoped \o Mixed \o Recursive
             \o Stops \o <<VectorEng>>
=============================================================================
