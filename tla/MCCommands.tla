----------------------------- MODULE MCCommands -----------------------------
(* A small instance of Commands for TLC: two threads, and two categories of  *)
(* a question each, of which one has to be left.                             *)
EXTENDS Commands, TLC

MCQuestionsIn == [c \in Categories |-> 1]
MCSymmetry == Permutations(Threads) \cup Permutations(Users) \cup Permutations(Categories)
=============================================================================
