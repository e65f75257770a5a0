------------------------------- MODULE Nodes -------------------------------
(***************************************************************************)
(* Node::destroy of src/src/node.cpp, which picks a destructor by a node's *)
(* type, and the destructors: how many of the objects made for a tree they *)
(* delete.  The parts of a chain, a match, a declaration and a text are    *)
(* objects of their own (Comparison, Case, Declaration, Interpolation).    *)
(* The target of a Set is a node Get, of which Trees keeps the name.       *)
(***************************************************************************)
EXTENDS Trees, SequencesExt

RECURSIVE Destroyed(_)
DestroyedAll(ts) == FoldLeft(LAMBDA n, t : n + Destroyed(t), 0, ts)

\* The nodes a destructor passes on to destroy, and how many other objects it
\* deletes.
Children(t) ==
  CASE t[1] \in {"Const", "Get", "Fin"}         -> <<>>
    [] t[1] \in {"Expr", "Group", "Return"}     -> <<t[2]>>
    [] t[1] = "Unary"                           -> <<t[3]>>
    [] t[1] \in {"Binary", "Cond", "SetNode"}   -> <<t[3], t[4]>>
    [] t[1] = "Set"                             -> <<<<"Get", t[3]>>, t[4]>>
    [] t[1] \in {"If", "While"}                 -> <<t[2], t[3], t[4]>>
    [] t[1] = "Comp"   -> <<t[2]>> \o [i \in DOMAIN t[3] |-> t[3][i][2]]
    [] t[1] = "Match"  -> FlattenSeq([i \in DOMAIN t[3] |-> Append(t[3][i][1], t[3][i][2])]) \o <<t[2], t[4]>>
    [] t[1] \in {"Dec", "Interp"} -> [i \in DOMAIN t[2] |-> t[2][i][2]]
    [] t[1] = "Block"  -> t[2]
    [] t[1] = "Func"   -> Append(t[2], t[3])
    [] t[1] = "Call"   -> Append(t[3], t[2])
Parts(t) ==
  CASE t[1] \in {"Comp", "Match"}  -> Len(t[3])
    [] t[1] \in {"Dec", "Interp"}  -> Len(t[2])
    [] OTHER                       -> 0

\* A slip in Destroyed: a chain's comparisons are dropped from its list and not
\* deleted.
DestroyedOnly(t) ==
  IF t = None THEN 0 ELSE 1 + (IF t[1] = "Comp" THEN 0 ELSE Parts(t)) + DestroyedAll(Children(t))

Destroyed(t) == IF t = None THEN 0 ELSE 1 + Parts(t) + DestroyedAll(Children(t))
=============================================================================
