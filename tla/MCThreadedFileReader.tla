------------------------ MODULE MCThreadedFileReader ------------------------
(***************************************************************************)
(* A small instance of ThreadedFileReader: a file of three chunks and      *)
(* buffers of two; reads of part of a chunk, of parts of two and of a      *)
(* whole one, at the beginning, in the middle and at the end of the file.  *)
(***************************************************************************)
EXTENDS ThreadedFileReader

MCReads ==
  { [offset |-> 0, size |-> 1], [offset |-> 1, size |-> 2], [offset |-> 4, size |-> 2] }

\* Two reads that are never found in the same chunk.
MCFarReads == { [offset |-> 0, size |-> 2], [offset |-> 4, size |-> 2] }
=============================================================================
