------------------------- MODULE MCGoogleEntitlement -------------------------
EXTENDS GoogleEntitlement, TLC

\* The two webhook workers are interchangeable.
WorkerSymmetry == Permutations(Worker)

==============================================================================
