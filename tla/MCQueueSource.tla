---------------------------- MODULE MCQueueSource ----------------------------
(* Small instances of QueueSource.                                         *)
EXTENDS QueueSource, TLC

InstanceSymmetry == Permutations(Instances)
=============================================================================
