----------------------------- MODULE MCSkipList -----------------------------
(* Two writer threads, two keys, two values, towers of height up to 3.    *)
EXTENDS SkipList

CONSTANTS t1, t2, v1, v2, r1

MCThreads == {t1, t2}
MCVals == {v1, v2}
MCKeys == {1, 2, 3}
MCReaders == {r1}
=============================================================================
