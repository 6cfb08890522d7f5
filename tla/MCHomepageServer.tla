-------------------------- MODULE MCHomepageServer --------------------------
(* HomepageServer for TLC: users are interchangeable, and queries are.       *)
EXTENDS HomepageServer, TLC

ServerSymmetry == Permutations(Users) \union Permutations(Queries)
=============================================================================
