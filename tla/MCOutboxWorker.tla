--------------------------- MODULE MCOutboxWorker ---------------------------
(* Instances of OutboxWorker for TLC. *)
EXTENDS OutboxWorker, TLC

TwoEvents == 1 .. 2

WorkerSymmetry == Permutations(Workers)

=============================================================================
