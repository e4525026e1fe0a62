------------------------------- MODULE MCHeap -------------------------------
(* A heap of a few blocks for TLC.  The program's data look like headers:  *)
(* the end of the heap, a block in use.                                    *)
EXTENDS Heap

MCRequests == {1, 3, 6}
MCData == {0, 7}
=============================================================================
