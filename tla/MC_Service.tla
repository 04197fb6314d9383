------------------------------ MODULE MC_Service ------------------------------
(* Service with three requests and 3-bit heights (MaxU = 7).  The queries  *)
(* cover a step range, a skip range at SKIP_MAX, one past SKIP_MAX, an     *)
(* inverted one and an empty one at the top of the u64 range.              *)
EXTENDS Service, TLC

CONSTANTS r1, r2, r3

MCRequests == {r1, r2, r3}
MCParams == {<<3, 4>>, <<3, 6>>, <<3, 7>>, <<5, 3>>, <<7, 7>>}
MCSkipMax == 3
MCHeightBits == 3

MCSymmetry == Permutations(MCRequests)
=============================================================================
