------------------------------- MODULE MCOutbox -------------------------------
EXTENDS Outbox, TLC

WorkerSymmetry == Permutations(Workers)
===============================================================================
