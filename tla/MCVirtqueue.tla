---------------------------- MODULE MCVirtqueue ----------------------------
\* Virtqueue for TLC: the threads are interchangeable.
EXTENDS Virtqueue, TLC

ThreadSymmetry == Permutations(Threads)
=============================================================================
