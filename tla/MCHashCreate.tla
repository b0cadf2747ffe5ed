---------------------------- MODULE MCHashCreate ----------------------------
(* A file requested twice, with another between. *)
EXTENDS HashCreate, Sequences

CONSTANTS a, b

MCPathOf == SubSeq(<<a, b, a>>, 1, Count)
=============================================================================
