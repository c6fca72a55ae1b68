-------------------------- MODULE MCOperationRecord --------------------------
EXTENDS OperationRecord, TLC

\* The registries are interchangeable in every definition.
WorkerSymmetry == Permutations(Workers)
=============================================================================
