----------------------------- MODULE MCAppleChain -----------------------------
EXTENDS AppleChain, TLC

\* The workers are interchangeable.
WorkerSymmetry == Permutations(Worker)

===============================================================================
