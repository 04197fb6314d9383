------------------------------ MODULE FetchSpec ------------------------------
(***************************************************************************)
(* What the Trusted State Fetcher promises its caller, with the retry loop  *)
(* hidden: a call for `height` either returns the hash of the block AT     *)
(* `height`, or the call fails (the code panics); and it always ends.       *)
(* RpcFetch is checked to implement this specification.                    *)
(***************************************************************************)
CONSTANTS
  Heights,   \* heights a caller may ask for
  NoHash     \* model value: no hash returned (yet)

VARIABLES
  height,    \* the height asked for
  status,    \* "pending" | "returned" | "failed"
  result     \* the hash returned, or NoHash

vars == <<height, status, result>>

\* The hash of the block at height h, as the chain reports it.  Distinct
\* heights have distinct hashes.
HashAt(h) == <<"blockhash", h>>

Init ==
  /\ height \in Heights
  /\ status = "pending"
  /\ result = NoHash

Return ==
  /\ status = "pending"
  /\ status' = "returned"
  /\ result' = HashAt(height)
  /\ UNCHANGED height

Fail ==
  /\ status = "pending"
  /\ status' = "failed"
  /\ UNCHANGED <<height, result>>

Next == Return \/ Fail

Spec == Init /\ [][Next]_vars /\ WF_vars(Next)
=============================================================================
