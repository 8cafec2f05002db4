-------------------------- MODULE MCOutgoingQueue --------------------------
(* Symmetry for the model-checking runs of OutgoingQueue.                  *)
EXTENDS OutgoingQueue, TLC

\* Packets of one kind, and the callers other than the writer, are alike.
Symmetry ==
  Permutations(CommandPackets) \cup Permutations(BulkPackets)
    \cup Permutations(Callers \ {Writer})
=============================================================================
