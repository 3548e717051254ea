----------------------------- MODULE MCAccounts ------------------------------
(***************************************************************************)
(* Two accounts, which providers with one of two phone numbers may have,   *)
(* or an administrator.                                                    *)
(***************************************************************************)
EXTENDS Accounts, TLC

CONSTANTS a1, a2, p1, p2, e1, t1, t2

Symmetry == Permutations(Account) \cup Permutations(Phone) \cup Permutations(Thread)
==============================================================================
