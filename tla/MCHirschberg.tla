---------------------------- MODULE MCHirschberg ----------------------------
(* Every pair of short sequences, in every succession the buffers can tell. *)
EXTENDS Hirschberg, SequencesExt, TLC

CONSTANT MaxLen   \* bound on the length of the sequences

MCInput == SeqOf(Content, MaxLen)

Symmetry == Permutations(Content)
=============================================================================
