--------------------------- MODULE MCTokenService ---------------------------
(* Instances of TokenService for TLC.                                       *)
EXTENDS TokenService, TLC

(* Requests are interchangeable, and so are clients and codes.              *)
Symmetry == Permutations(Requests) \cup Permutations(Clients) \cup Permutations(Codes)
=============================================================================
