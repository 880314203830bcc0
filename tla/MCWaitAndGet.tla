---------------------------- MODULE MCWaitAndGet ----------------------------
(***************************************************************************)
(* The chains of src/temp.cpp, instances of WaitAndGet for TLC.            *)
(***************************************************************************)
EXTENDS WaitAndGet

\* fuzzy().
Fuzzy == Then(Then(Then(Initiate(3), 2), 2), 1)
FuzzyCount == Then(Then(Initiate(1), 2), 1)

\* main().
One == Initiate(1)
Two == Then(Initiate(1), 1)
Three == Then(Then(Initiate(1), 1), 1)
ThreeVoid == Then(Then(Initiate(1), 1), 1)
Pair == Initiate(2)
PairSum == Then(Initiate(2), 1)
F2 == Then(Then(Then(Initiate(2), 1), 2), 1)
F3 == Then(Initiate(1), 1)
F4 == Then(Initiate(2), 1)
F5 == Then(Then(Then(Then(Initiate(2), 1), 2), 2), 1)

MCChains == {Fuzzy, FuzzyCount, One, Two, Three, ThreeVoid, Pair, PairSum,
             F2, F3, F4, F5}

=============================================================================
