----------------------------- MODULE MCAccounts -----------------------------
(* Accounts on small instances, with named accounts and threads.            *)
EXTENDS Accounts, TLC

ThreadSymmetry == Permutations(Threads)

AccountSymmetry ==
    Permutations(LocalUsers) \cup Permutations(Threads)
=============================================================================
