----------------------------- MODULE MC_RpcFetch -----------------------------
(* RpcFetch with the retry budget the code uses (10) and a few heights. *)
EXTENDS RpcFetch

MCRetries == 10
MCHeights == {0, 1, 5}
=============================================================================
