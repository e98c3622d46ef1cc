--------------------------- MODULE MCDeviceAuth ---------------------------
(* Instances of DeviceAuth for TLC.                                         *)
EXTENDS DeviceAuth, TLC

(* The codes, the requests and the parties are interchangeable.             *)
Symmetry ==
  Permutations(DeviceCodes) \cup Permutations(UserCodes) \cup Permutations(Clients)
    \cup Permutations(Users) \cup Permutations(Polls) \cup Permutations(Approvals)
=============================================================================
