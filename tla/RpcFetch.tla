------------------------------ MODULE RpcFetch ------------------------------
(***************************************************************************)
(* The Trusted State Fetcher: fetch_trusted_block_hash and request_from_rpc *)
(* in src/src/tendermint_client.rs.  One call, as a sequential process.    *)
(*                                                                         *)
(* The transport outcome of every reqwest::get is chosen by the            *)
(* environment ("ok" or "err"), and so is the body of a successful one.    *)
(* reqwest's default client has no timeout: when PeerMayHang, a GET may    *)
(* also never complete ("hang"), and the await then stays pending.         *)
(* Time is abstracted to the seconds slept, which is what the backoff      *)
(* properties are about.                                                   *)
(***************************************************************************)
EXTENDS Naturals

CONSTANTS
  Retries,   \* the `retries` argument; fetch_trusted_block_hash passes 10
  Heights,   \* heights a caller may ask for
  PeerMayHang, \* the RPC peer may accept a GET and never answer it
  NoHash     \* model value: no hash returned (yet)

ASSUME Retries \in Nat /\ Heights \subseteq Nat /\ PeerMayHang \in BOOLEAN

VARIABLES
  height,      \* the `height` argument of fetch_trusted_block_hash
  pc,          \* "start" | "loop" | "sleep" | "hung" | "done" | "panicked"
  res,         \* outcome of the latest reqwest::get: "none" | "ok" | "err"
               \* | "hang"
  numRetries,  \* num_retries
  waited,      \* seconds slept since the latest reqwest::get
  gotOk,       \* history: some reqwest::get of this call succeeded
  result       \* the H256 returned, or NoHash

vars == <<height, pc, res, numRetries, waited, gotOk, result>>

Transport == {"ok", "err"}

\* What a reqwest::get can come to: a response, an error, or (no timeout
\* being set) nothing at all.
GetOutcomes == Transport \cup (IF PeerMayHang THEN {"hang"} ELSE {})

\* Where the process is after the GET: a hung await never resumes.
AfterGet(o, next) == IF o = "hang" THEN "hung" ELSE next

\* What a successful GET can deliver: a header whose last_block_id holds a
\* Sha256 hash, a header without last_block_id, one whose hash is
\* Hash::None, a body that is not a HeaderResponse, a body that cannot be read.
Bodies == {"header", "noLastBlockId", "nullHash", "notJson", "bodyError"}

\* The refinement mapping onto FetchSpec: the call is pending until the
\* function returns or panics.
Status ==
  CASE pc = "done"     -> "returned"
    [] pc = "panicked" -> "failed"
    [] OTHER           -> "pending"

Abs == INSTANCE FetchSpec WITH status <- Status

\* Mutant: the parent link read from the header at `height` itself.
RouteSameHeight(h) == h

\* The route asked for: "header?height={height + 1}".
Route(h) == h + 1

\* The RPC's header at height k links to its parent: last_block_id is the
\* hash of block k - 1.
LastBlockId(k) == Abs!HashAt(k - 1)

\* Mutants of the loop condition: `<=` for `<`; giving up one retry early;
\* retrying without testing res.is_err().
KeepRetryingLe    == res = "err" /\ numRetries <= Retries
KeepRetryingEarly == res = "err" /\ numRetries + 1 < Retries
KeepRetryingOnOk  == numRetries < Retries

\* The `while` condition of request_from_rpc.
KeepRetrying == res = "err" /\ numRetries < Retries

Init ==
  /\ height \in Heights
  /\ pc = "start"
  /\ res = "none"
  /\ numRetries = 0
  /\ waited = 0
  /\ gotOk = FALSE
  /\ result = NoHash

\* let mut res = reqwest::get(url).await; let mut num_retries = 0;
FirstGet ==
  /\ pc = "start"
  /\ \E o \in GetOutcomes :
       /\ res' = o
       /\ gotOk' = (o = "ok")
       /\ pc' = AfterGet(o, "loop")
  /\ waited' = 0
  /\ UNCHANGED <<height, numRetries, result>>

\* Loop body, first half: res = reqwest::get(url).await;
RetryGet ==
  /\ pc = "loop"
  /\ KeepRetrying
  /\ \E o \in GetOutcomes :
       /\ res' = o
       /\ gotOk' = (gotOk \/ o = "ok")
       /\ pc' = AfterGet(o, "sleep")
  /\ waited' = 0
  /\ UNCHANGED <<height, numRetries, result>>

\* Mutant: num_retries incremented before the sleep is computed.
BackoffAfterIncrement ==
  /\ pc = "sleep"
  /\ waited' = waited + 2 ^ (numRetries + 1)
  /\ numRetries' = numRetries + 1
  /\ pc' = "loop"
  /\ UNCHANGED <<height, res, gotOk, result>>

\* Loop body, second half: sleep(2^num_retries).await; num_retries += 1;
Backoff ==
  /\ pc = "sleep"
  /\ waited' = waited + 2 ^ numRetries
  /\ numRetries' = numRetries + 1
  /\ pc' = "loop"
  /\ UNCHANGED <<height, res, gotOk, result>>

\* Loop left with an Ok response: read the body, parse the HeaderResponse
\* and take last_block_id.unwrap().hash.  Every malformed case panics.
ReadHeader ==
  /\ pc = "loop"
  /\ ~KeepRetrying
  /\ res = "ok"
  /\ \E b \in Bodies :
       IF b = "header"
       THEN /\ pc' = "done"
            /\ result' = LastBlockId(Route(height))
       ELSE /\ pc' = "panicked"
            /\ UNCHANGED result
  /\ UNCHANGED <<height, res, numRetries, waited, gotOk>>

\* Loop left with an Err: panic!("Failed to fetch data from Tendermint RPC").
GiveUp ==
  /\ pc = "loop"
  /\ ~KeepRetrying
  /\ res = "err"
  /\ pc' = "panicked"
  /\ UNCHANGED <<height, res, numRetries, waited, gotOk, result>>

Next == FirstGet \/ RetryGet \/ Backoff \/ ReadHeader \/ GiveUp

\* The task is polled by the runtime until it completes; a hung GET is a
\* future that is never woken, so no step of the call is enabled.
Spec == Init /\ [][Next]_vars /\ WF_vars(Next)

-----------------------------------------------------------------------------
\* The state stays within its types; num_retries never exceeds the budget.
TypeOK ==
  /\ height \in Heights
  /\ pc \in {"start", "loop", "sleep", "hung", "done", "panicked"}
  /\ res \in {"none"} \cup GetOutcomes
  /\ numRetries \in 0..Retries
  /\ waited \in Nat
  /\ gotOk \in BOOLEAN
  /\ result \in {NoHash} \cup {Abs!HashAt(h) : h \in Heights}

\* A transport failure is fatal only once the whole budget is spent: the
\* panic at the end of request_from_rpc happens after exactly `retries`
\* retries, i.e. retries + 1 failed GETs, never earlier and never later.
RetryBudgetExact ==
  (pc = "panicked" /\ res = "err") => numRetries = Retries

\* A successful response is never thrown away: `res` is overwritten by every
\* retry, so once some GET of the call succeeded the loop must not issue
\* another one that could replace it with an error.
NoSuccessDiscarded == gotOk => res # "err"

\* Between one retry and the next the loop sleeps 2^(n-1) seconds, n being
\* the number of retries made so far ("quadratic backoff" in the code).
BackoffDoubles ==
  (pc = "loop" /\ numRetries > 0) => waited = 2 ^ (numRetries - 1)

\* Spec 4.1 and 8: "the n-th retry waits 2^n seconds before the next
\* attempt (n starting at 0)": every retry GET is preceded by a sleep of
\* 2^num_retries seconds since the previous GET.
SpecBackoffBeforeRetry ==
  [][(pc = "loop" /\ pc' = "sleep") => waited = 2 ^ numRetries]_vars

\* The call implements FetchSpec: it ends (spec 5: "the RPC fetch step has a
\* bounded retry budget that acts as its effective timeout"), and what it
\* returns is the hash of the block at the height asked for (the parent
\* link of block height + 1).
ImplementsFetchSpec == Abs!Spec
=============================================================================
