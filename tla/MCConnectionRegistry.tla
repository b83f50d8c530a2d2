------------------------ MODULE MCConnectionRegistry ------------------------
(* Instances of ConnectionRegistry for TLC: the calls of withConnection    *)
(* are interchangeable.                                                    *)
EXTENDS ConnectionRegistry, TLC

Symmetric == Permutations(Callers)
=============================================================================
