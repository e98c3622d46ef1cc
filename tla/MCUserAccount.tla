--------------------------- MODULE MCUserAccount ---------------------------
(* Instances of UserAccount for TLC.                                        *)
EXTENDS UserAccount, TLC

(* The requests of a kind and the passwords are interchangeable.            *)
Symmetry ==
  Permutations(Logins) \cup Permutations(Changes) \cup Permutations(Confirms)
    \cup Permutations(ResetTokens) \cup Permutations(Sessions) \cup Permutations(Passwords)
=============================================================================
