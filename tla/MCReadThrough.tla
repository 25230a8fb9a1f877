----------------------------- MODULE MCReadThrough -----------------------------
(* Instance of ReadThrough for TLC: a good source that loses its rank with  *)
(* the first failures, and a lesser one.                                    *)
EXTENDS ReadThrough, TLC

MCQuality  == 1 :> 3 @@ 2 :> 2
MCAttempts == 1 :> 2 @@ 2 :> 1

MCRead(d, pin) == [dates |-> {d}, range |-> FALSE, pin |-> pin]
MCRequests ==
  {MCRead(0, Anything), MCRead(1, Anything), MCRead(2, Anything), MCRead(1, 2),
   [dates |-> 0 .. 1, range |-> TRUE, pin |-> Anything]}
MCSymmetry == Permutations(Readers)
================================================================================
