----------------------------- MODULE MCHeapObjects -----------------------------
(***************************************************************************)
(* Two threads, two objects, one of a class with a destructor and a box,   *)
(* and a word that counts to three.                                        *)
(***************************************************************************)
EXTENDS HeapObjects, TLC

CONSTANTS t1, t2, o1, o2

MCKind == o1 :> "class with destructor" @@ o2 :> "box"
===============================================================================
