----------------------- MODULE MCCachedOAuth2Storage -----------------------
(* Instances of CachedOAuth2Storage for TLC.                                *)
EXTENDS CachedOAuth2Storage, TLC

(* Instances, validations and revocations are interchangeable.              *)
Symmetry == Permutations(Instances) \cup Permutations(Readers) \cup Permutations(Revokers)
=============================================================================
