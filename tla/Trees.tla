------------------------------- MODULE Trees -------------------------------
(***************************************************************************)
(* The syntax trees the parser builds and the compiler visits.  A tree is  *)
(* a tuple of the node's kind and its parts, as the constructors of        *)
(* node.hpp take them:                                                     *)
(*   <<"Expr", child>>  <<"Group", child>>  <<"Unary", op, child>>         *)
(*   <<"Binary", op, left, right>>  <<"Cond", op, left, right>>            *)
(*   <<"Const", value>>  <<"Interp", <<<<piece, node>>, ...>>, cap>>       *)
(*   <<"Comp", primer, <<<<op, node>>, ...>>>>                             *)
(*   <<"Match", comp, <<<<checks, then>>, ...>>, other>>                   *)
(*   <<"Dec", <<<<name, value>>, ...>>>>  <<"Get", name>>                  *)
(*   <<"Set", op, name, right>>  <<"SetNode", op, left, right>>            *)
(*   <<"Block", list>>                                                     *)
(*   <<"Func", args, body>>  <<"Return", expr>>  <<"Call", callee, args>>  *)
(*   <<"If", cond, then, other>>  <<"While", cond, then, other>>           *)
(* A Set whose left side is no Get is a SetNode.                           *)
(* An operator is the name of its token without TOKEN_.  A piece of text   *)
(* is a sequence, see Bytecode.                                            *)
(***************************************************************************)
EXTENDS Bytecode

None == <<"None">>   \* NULL, as the else of an if that has none
Fin  == <<"Fin">>    \* the node of type NODE_FIN
=============================================================================
