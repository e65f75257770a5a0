------------------------------ MODULE Interner ------------------------------
(***************************************************************************)
(* What the string table of src/src/value.cpp promises its callers (the    *)
(* lexer, the compiler and the machine, which compare strings by address): *)
(* a text has one object, the same for every call and for ever.            *)
(***************************************************************************)
CONSTANTS Texts, Objects,  \* an object has a field text
          NoObject         \* before the first call returns

VARIABLES objectOf,        \* the object of each text asked for so far
          result           \* what the last call asked for and returned

internerVars == <<objectOf, result>>

Answer(t, o) == [asked |-> t, object |-> o]

Init == objectOf = [t \in {} |-> NoObject] /\ result = NoObject

Intern(t) ==
  /\ \/ /\ t \in DOMAIN objectOf
        /\ UNCHANGED objectOf
     \/ /\ t \notin DOMAIN objectOf
        /\ \E o \in Objects :
             /\ o.text = t
             /\ objectOf' = [u \in DOMAIN objectOf \cup {t} |-> IF u = t THEN o ELSE objectOf[u]]
  /\ result' = Answer(t, objectOf'[t])

Next == \E t \in Texts : Intern(t)

Spec == Init /\ [][Next]_internerVars
=============================================================================
