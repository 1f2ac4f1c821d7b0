---------------------------- MODULE MCDiffResult ----------------------------
(* Every short edit script, whatever algorithm it comes from.               *)
EXTENDS DiffResult, SequencesExt, TLC

CONSTANT MaxOps   \* bound on the length of a script

MCContext == -1 .. 2
MCScript == SeqOf(Kind, MaxOps)
=============================================================================
