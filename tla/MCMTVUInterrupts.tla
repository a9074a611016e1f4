--------------------------- MODULE MCMTVUInterrupts ---------------------------
(* MTVUInterrupts with a label register of two bits.  A program sets and clears *)
(* the first and only clears the second, alone or along with the first.         *)
EXTENDS MTVUInterrupts

MCLabelWrites == [{1} -> 0 .. 1] \cup [{2} -> {0}] \cup { [b \in {1, 2} |-> 2 - b] }
===============================================================================
