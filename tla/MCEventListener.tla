-------------------------- MODULE MCEventListener --------------------------
EXTENDS EventListener, TLC

\* No definition tells the contracts apart.
ListenerSymmetry == Permutations(Contracts)
=============================================================================
