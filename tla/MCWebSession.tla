---------------------------- MODULE MCWebSession ----------------------------
(* Instances of WebSession for TLC.                                        *)
EXTENDS WebSession, TLC

Permuted == Permutations(Users) \cup Permutations(Tokens)
              \cup Permutations(Slots)
=============================================================================
