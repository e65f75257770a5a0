------------------------------ MODULE MCEngel ------------------------------
(***************************************************************************)
(* The interpreter on the programs of Programs.                            *)
(***************************************************************************)
EXTENDS Engel, Layout, Programs

MCSources == Shared \o Factories \o Loops \o Branches \o Expressions \o Scoped \o Mixed
             \o Recursive \o Stops \o <<VectorEng>>
MCPrograms   == Compiled
InstructionStarts == ForEach(Objects, LAMBDA o : {start \in o.starts : TRUE})
StatementStarts   == ForEach(Objects, LAMBDA o : {stmt \in o.stmts : TRUE})
MCStarts     == InstructionStarts
MCStatements == StatementStarts

(***************************************************************************)
(* The layout of a function: what spreads from its entry, until nothing    *)
(* new is learnt.  Whether the code fits it is another matter: of two      *)
(* heights at one offset this keeps the first.                             *)
(***************************************************************************)
Learn(layout, next) ==
  (next[1] :> IF next[1] \in DOMAIN layout
              THEN [layout[next[1]] EXCEPT !.caught = @ \cup next[2].caught] ELSE next[2]) @@ layout

Reached(fns, fn, layout, p) ==
  IF Finds(fns, fn, p, layout[p]) THEN Following(fns, fn, p, layout[p]) ELSE {}

\* The offsets of next at which more knows what layout does not.
News(layout, more, next) ==
  {p \in {n[1] : n \in next} : p \notin DOMAIN layout \/ more[p] # layout[p]}

RECURSIVE Spread(_, _, _, _)
Spread(fns, fn, layout, todo) ==
  IF todo = {} THEN layout
  ELSE LET p    == Min(todo)
           next == Reached(fns, fn, layout, p)
           more == FoldSet(LAMBDA n, l : Learn(l, n), layout, next)
       IN  Spread(fns, fn, more, (todo \ {p}) \cup News(layout, more, next))

Entry(fn) == [height |-> fn.arity + 1, due |-> 0, caught |-> {}]
LayoutOf(fns, fn) == Spread(fns, fn, 0 :> Entry(fn), {0})
Laid      == ForEach(Compiled, LAMBDA fns : ForEach(fns, LAMBDA fn : LayoutOf(fns, fn)))
MCLayouts == Laid
=============================================================================
