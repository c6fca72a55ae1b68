--------------------------- MODULE MCTxSubmission ---------------------------
EXTENDS TxSubmission, TLC

\* The workers are interchangeable in every definition.
WorkerSymmetry == Permutations(Workers)
=============================================================================
