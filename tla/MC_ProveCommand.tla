---------------------------- MODULE MC_ProveCommand ----------------------------
(* ProveCommand with 3-bit heights (MaxU = 7) and SKIP_MAX = 3.  The       *)
(* ranges are a step, a skip at SKIP_MAX, one past SKIP_MAX, an inverted   *)
(* one and an empty one at the top of the u64 range.  MC_Runs1 is one      *)
(* invocation; MC_Runs2 two invocations sharing proof_dir.                 *)
EXTENDS ProveCommand

CONSTANTS p1, p2

MCRuns1 == {p1}
MCRuns2 == {p1, p2}
MCParams == {<<3, 4>>, <<3, 6>>, <<3, 7>>, <<5, 3>>, <<7, 7>>}
MCSkipMax == 3
MCHeightBits == 3
=============================================================================
