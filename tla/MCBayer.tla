------------------------------- MODULE MCBayer -------------------------------
(* Model-checking instance of Bayer: frames of one and several output     *)
(* pixels and rows, an odd width, and a scale of 2; raw bytes 0 and 1,     *)
(* which already make every rounding of the averages differ.              *)
EXTENDS Bayer

MCDims == {[w |-> 2, h |-> 2, scale |-> 1],
           [w |-> 5, h |-> 2, scale |-> 1],
           [w |-> 2, h |-> 4, scale |-> 1],
           [w |-> 4, h |-> 2, scale |-> 1],
           [w |-> 4, h |-> 4, scale |-> 2]}
MCVals == {0, 1}
====
