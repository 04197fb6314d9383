------------------------------- MODULE Service -------------------------------
(***************************************************************************)
(* The Request Service of src/src/commands/service.rs with the Verifier    *)
(* Gateway Client of src/src/gnark_verifier.rs.                            *)
(*                                                                         *)
(* ServiceCommand::run builds the circuits, then serves /prove behind      *)
(* ConcurrencyLimitLayer::new(1) (one tokio semaphore permit, waiters      *)
(* served FIFO) and everything behind CatchPanicLayer, which turns a panic *)
(* of a handler into a 500 response for that request; the handler future   *)
(* is dropped and its permit with it.  /health is not limited.             *)
(*                                                                         *)
(* One step per stretch of handler code that runs between two awaits:      *)
(* admission + query extraction + ProveArgs::validate + the first GET of   *)
(* the fetch; the fetch (abstracted by FetchSpec, which RpcFetch is        *)
(* checked to implement); the CPU-bound proving up to sending the POST to  *)
(* the verifier; and reading the verifier's answer.  A client may go away  *)
(* at an await point, which drops the handler future.                      *)
(***************************************************************************)
EXTENDS Integers, Sequences, SequencesExt, FiniteSets

CONSTANTS
  Requests,     \* the /prove requests (model values)
  Params,       \* <<trusted_height, target_height>> pairs a query may carry
  BadQuery,     \* model value: a query string that is not a ProveArgs
  SkipMax,      \* tendermintx::config::SKIP_MAX
  HeightBits,   \* width of the u64 heights, scaled down
  NoRequest     \* model value: nobody holds the permit

Modulus == 2 ^ HeightBits
MaxU    == Modulus - 1

ASSUME
  /\ HeightBits \in Nat \ {0}
  /\ Params \subseteq (0..MaxU) \X (0..MaxU)
  /\ SkipMax \in 1..MaxU

VARIABLES
  serving,       \* the listener is up (circuits built)
  exited,        \* ServiceCommand::run panicked before serving
  innerBuilds,   \* strategy -> number of build_*_circuit calls at startup
  stepEnabled,   \* the "step" cargo feature of this build
  query,         \* r -> the query string r carries: a Params pair or BadQuery
  phase,         \* r -> "idle" | "waiting" | "fetch" | "prove" | "submit" | "done"
  queue,         \* semaphore waiters, oldest first
  holder,        \* the request holding the single permit, or NoRequest
  route,         \* r -> the height in "header?height=..." (-1: no fetch yet)
  verifier,      \* r -> status class of the verifier's /prove answer
  resp,          \* r -> what the client got
  health         \* the latest /health answer

vars == <<serving, exited, innerBuilds, stepEnabled, query, phase, queue,
          holder, route, verifier, resp, health>>

Strategies == {"step", "skip"}

\* The handler phases that run with the permit held.
InHandler == {"fetch", "prove", "submit"}

\* u64 arithmetic of a release build: wraps modulo 2^64 (scaled).
U64Add(a, b) == (a + b) % Modulus
U64Sub(a, b) == (a - b) % Modulus

Trusted(r) == query[r][1]
Target(r)  == query[r][2]
Delta(r)   == U64Sub(Target(r), Trusted(r))

\* Mutant: the `target_height <= trusted_height` check left out.
ValidateNoOrderCheck(p) == ~(U64Sub(p[2], p[1]) > SkipMax)

\* ProveArgs::validate: its two panics, in the code's order.
Validate(p) ==
  /\ ~(p[2] <= p[1])
  /\ ~(U64Sub(p[2], p[1]) > SkipMax)

\* The range invariant of the spec, in unbounded arithmetic.
ValidRange(p) == p[1] < p[2] /\ p[2] - p[1] <= SkipMax

\* ServiceState: the step circuit only under the "step" feature.
EnabledStrategies == IF stepEnabled THEN Strategies ELSE {"skip"}

\* build_wrapped_*_circuit calls build_*_circuit twice: once for the
\* wrapper, once for the build that is kept.
BuildsPerWrappedCircuit == 2

\* Ending a handler (response or drop) drops its permit.
Release(r) == holder' = IF holder = r THEN NoRequest ELSE holder

Finish(r, code) ==
  /\ phase' = [phase EXCEPT ![r] = "done"]
  /\ resp' = [resp EXCEPT ![r] = code]
  /\ Release(r)

Init ==
  /\ serving = FALSE
  /\ exited = FALSE
  /\ innerBuilds = [s \in Strategies |-> 0]
  /\ stepEnabled \in BOOLEAN
  /\ query \in [Requests -> Params \cup {BadQuery}]
  /\ phase = [r \in Requests |-> "idle"]
  /\ queue = <<>>
  /\ holder = NoRequest
  /\ route = [r \in Requests |-> -1]
  /\ verifier = [r \in Requests |-> "none"]
  /\ resp = [r \in Requests |-> "none"]
  /\ health = "none"

\* The circuits ServiceState holds, built by build_wrapped_*_circuit.
Built == [s \in Strategies |->
            IF s \in EnabledStrategies THEN BuildsPerWrappedCircuit ELSE 0]

\* ServiceCommand::run: env::var("TENDERMINT_RPC_URL").expect(..) panics
\* before anything is built; otherwise the enabled circuits are built into
\* ServiceState and TcpListener::bind(..).await.unwrap() either panics
\* (address in use) or the listener serves.  A panic here ends the process.
Startup ==
  /\ ~serving /\ ~exited
  /\ \/ /\ exited' = TRUE
        /\ UNCHANGED <<serving, innerBuilds>>
     \/ /\ innerBuilds' = Built
        /\ \/ serving' = TRUE /\ UNCHANGED exited
           \/ exited' = TRUE /\ UNCHANGED serving
  /\ UNCHANGED <<stepEnabled, query, phase, queue, holder, route, verifier,
                 resp, health>>

\* A client sends GET /prove; ConcurrencyLimit's poll_ready queues it on the
\* semaphore.
Send(r) ==
  /\ serving
  /\ phase[r] = "idle"
  /\ phase' = [phase EXCEPT ![r] = "waiting"]
  /\ queue' = Append(queue, r)
  /\ UNCHANGED <<serving, exited, innerBuilds, stepEnabled, query, holder,
                 route, verifier, resp, health>>

\* Mutant: the handler entered without holding the permit.
AdmitIgnoringPermit(r) ==
  /\ queue # <<>> /\ Head(queue) = r
  /\ queue' = Tail(queue)
  /\ CASE query[r] = BadQuery ->
            /\ Finish(r, "400")
            /\ UNCHANGED route
       [] ~Validate(query[r]) ->
            /\ Finish(r, "500")
            /\ UNCHANGED route
       [] OTHER ->
            /\ phase' = [phase EXCEPT ![r] = "fetch"]
            /\ holder' = r
            /\ route' = [route EXCEPT ![r] = U64Add(Trusted(r), 1)]
            /\ UNCHANGED resp
  /\ UNCHANGED <<serving, exited, innerBuilds, stepEnabled, query, verifier,
                 health>>

\* The oldest waiter gets the free permit; the handler runs up to its first
\* await: Query extraction (400 on a bad query string), params.validate()
\* .unwrap() (a panic, caught as 500), then the first GET of
\* fetch_trusted_block_hash for height trusted_height + 1.
Admit(r) ==
  /\ holder = NoRequest
  /\ queue # <<>> /\ Head(queue) = r
  /\ queue' = Tail(queue)
  /\ CASE query[r] = BadQuery ->
            /\ Finish(r, "400")
            /\ UNCHANGED route
       [] ~Validate(query[r]) ->
            /\ Finish(r, "500")
            /\ UNCHANGED route
       [] OTHER ->
            /\ phase' = [phase EXCEPT ![r] = "fetch"]
            /\ holder' = r
            /\ route' = [route EXCEPT ![r] = U64Add(Trusted(r), 1)]
            /\ UNCHANGED resp
  /\ UNCHANGED <<serving, exited, innerBuilds, stepEnabled, query, verifier,
                 health>>

\* fetch_trusted_block_hash ends: the hash is returned, or it panics
\* (retries spent, malformed header), caught as 500.
Fetch(r) ==
  /\ phase[r] = "fetch"
  /\ \/ /\ phase' = [phase EXCEPT ![r] = "prove"]
        /\ UNCHANGED <<resp, holder>>
     \/ Finish(r, "500")
  /\ UNCHANGED <<serving, exited, innerBuilds, stepEnabled, query, queue, route,
                 verifier, health>>

\* What the wrapped circuits' prove return.  Skip: the inner prove panics on
\* a witness it cannot satisfy, the wrapper's Err is unwrapped (a panic).
\* Step: the same inner panic, the wrapper's Err returned with `?`.  The
\* handler unwraps both, so every failure ends as a caught panic.
SkipProveResults == {"ok", "panic"}
StepProveResults == {"ok", "panic", "err"}

ProveResults == [skip |-> SkipProveResults, step |-> StepProveResults]

\* Mutant: a failed proof answers 500 but keeps the permit.
ProveKeepsPermitOnPanic(r) ==
  /\ phase[r] = "prove"
  /\ \/ /\ phase' = [phase EXCEPT ![r] = "submit"]
        /\ UNCHANGED <<resp, holder>>
     \/ /\ phase' = [phase EXCEPT ![r] = "done"]
        /\ resp' = [resp EXCEPT ![r] = "500"]
        /\ UNCHANGED holder
  /\ UNCHANGED <<serving, exited, innerBuilds, stepEnabled, query, queue, route,
                 verifier, health>>

\* The CPU-bound part of the handler: a delta of 1 needs the step circuit
\* (panic "step circuit is not enabled" without the feature); the prover or
\* the wrapper may fail (unwrap panics); on success ProveRequest::new and the
\* POST to {verifier}/prove is sent.
Prove(r) ==
  /\ phase[r] = "prove"
  /\ LET s == IF Delta(r) = 1 THEN "step" ELSE "skip"
     IN  IF s \notin EnabledStrategies
         THEN Finish(r, "500")
         ELSE \E o \in ProveResults[s] :
                IF o = "ok"
                THEN /\ phase' = [phase EXCEPT ![r] = "submit"]
                     /\ UNCHANGED <<resp, holder>>
                ELSE Finish(r, "500")
  /\ UNCHANGED <<serving, exited, innerBuilds, stepEnabled, query, queue, route,
                 verifier, health>>

\* gnark_verifier::prove: POST {verifier}/prove; a send error or a body
\* that cannot be read is an Err, otherwise the body bytes are returned
\* Ok whatever the HTTP status (no error_for_status).
GatewayProve ==
  [status : {"unreachable"}, bytes : {"err"}]
    \cup [status : {"2xx", "error"}, bytes : {"json", "notJson", "err"}]

\* gnark_verifier::health: GET {verifier}/health; Ok only if it was sent and
\* error_for_status_ref passes.
GatewayHealth == [sent : BOOLEAN, success : BOOLEAN]

HealthOk(g) == g.sent /\ g.success

\* The rest of the handler: gnark_verifier::prove(..).await.unwrap(), the
\* bytes parsed with serde_json::from_slice(..).unwrap() and answered as
\* Json (200).  Any Err or non-JSON body panics (500).
Submit(r) ==
  /\ phase[r] = "submit"
  /\ \E g \in GatewayProve :
       /\ verifier' = [verifier EXCEPT ![r] = g.status]
       /\ Finish(r, IF g.bytes = "json" THEN "200" ELSE "500")
  /\ UNCHANGED <<serving, exited, innerBuilds, stepEnabled, query, queue,
                 route, health>>

\* Mutant: a dropped waiter stays registered on the semaphore.
DropKeepsWaiter(r) ==
  /\ phase[r] \in {"waiting", "fetch", "submit"}
  /\ queue' = queue
  /\ Finish(r, "dropped")
  /\ UNCHANGED <<serving, exited, innerBuilds, stepEnabled, query, route,
                 verifier,
                 health>>

\* The client goes away while its request is parked at an await point (on
\* the semaphore, in the fetch, waiting for the verifier): hyper drops the
\* handler future, which gives the permit back.
Drop(r) ==
  /\ phase[r] \in {"waiting", "fetch", "submit"}
  /\ queue' = Remove(queue, r)
  /\ Finish(r, "dropped")
  /\ UNCHANGED <<serving, exited, innerBuilds, stepEnabled, query, route,
                 verifier,
                 health>>

\* GET /health: healthy iff the verifier's /health answers with a success
\* status (error_for_status_ref), regardless of any /prove in progress.
Health ==
  /\ serving
  /\ \E g \in GatewayHealth :
       health' = IF HealthOk(g) THEN "healthy" ELSE "unhealthy"
  /\ UNCHANGED <<serving, exited, innerBuilds, stepEnabled, query, phase, queue,
                 holder, route, verifier, resp>>

Next ==
  \/ Startup
  \/ Health
  \/ \E r \in Requests :
       Send(r) \/ Admit(r) \/ Fetch(r) \/ Prove(r) \/ Submit(r) \/ Drop(r)

\* The runtime keeps polling every task that can make progress; clients
\* (Send, Drop) and health probes are not obliged to act.  Fetch and Submit
\* complete only if the RPC peer and the verifier answer: neither request
\* has a timeout, so their fairness assumes peers that answer (RpcFetch,
\* with PeerMayHang, shows what happens when one does not).
Fairness ==
  /\ WF_vars(Startup)
  /\ \A r \in Requests :
       /\ WF_vars(Admit(r))
       /\ WF_vars(Fetch(r))
       /\ WF_vars(Prove(r))
       /\ WF_vars(Submit(r))

Spec == Init /\ [][Next]_vars /\ Fairness

-----------------------------------------------------------------------------
\* The state stays within its types; a height is only ever asked of the RPC
\* as a successor height 1..MaxU.
TypeOK ==
  /\ serving \in BOOLEAN
  /\ exited \in BOOLEAN
  /\ innerBuilds \in [Strategies -> Nat]
  /\ stepEnabled \in BOOLEAN
  /\ query \in [Requests -> Params \cup {BadQuery}]
  /\ phase \in [Requests -> {"idle", "waiting"} \cup InHandler \cup {"done"}]
  /\ queue \in Seq(Requests)
  /\ holder \in Requests \cup {NoRequest}
  /\ route \in [Requests -> {-1} \cup (1..MaxU)]
  /\ verifier \in [Requests -> {"none", "2xx", "error", "unreachable"}]
  /\ resp \in [Requests -> {"none", "200", "400", "500", "dropped"}]
  /\ health \in {"none", "healthy", "unhealthy"}

\* Spec 4.6: at most one proof is being computed at any time, process-wide.
\* In the code this rests on the single permit of ConcurrencyLimitLayer
\* being handed out once and given back on every way a handler ends:
\* response, caught panic, dropped connection.
AtMostOneProving == Cardinality({r \in Requests : phase[r] = "prove"}) <= 1

\* The permit is never leaked nor shared: whoever holds it is a request
\* inside the handler, every request inside the handler holds it, and a
\* request waits on the semaphore exactly while it is queued.
PermitAccounting ==
  /\ \A r \in Requests : phase[r] \in InHandler <=> holder = r
  /\ \A r \in Requests : phase[r] = "waiting" <=> Contains(queue, r)

\* Spec 8 (boundary example): a height range outside 1..SKIP_MAX is
\* rejected before any network call.  Every request that reached the RPC
\* fetch has a valid range in unbounded arithmetic, and asked for height
\* trusted_height + 1 without wrapping, so the u64 arithmetic of validate
\* and of the fetch route never wraps (debug and release builds agree).
NetworkOnlyForValidRanges ==
  \A r \in Requests :
    route[r] # -1 =>
      /\ query[r] # BadQuery
      /\ ValidRange(query[r])
      /\ route[r] = Trusted(r) + 1

\* The refinement mapping onto ProveService: the semaphore's FIFO is the
\* waiting line, the permit holder the request being served, the client's
\* response its answer.
Served == INSTANCE ProveService WITH waiting <- queue, current <- holder,
                                     answer <- resp

\* Service implements ProveService: admission is in arrival order and one
\* request at a time, every request is answered at most once and never
\* after it was dropped, a waiter is only turned away as 400/500 from the
\* head of the line, and the request being served is eventually answered.
ImplementsProveService == Served!Spec

\* Fault isolation (spec 4.6 and 8): a request that failed, panicked or was
\* dropped does not stop later ones; every request sent is eventually
\* answered or dropped.
EveryRequestEnds ==
  \A r \in Requests : phase[r] = "waiting" ~> phase[r] = "done"

\* Spec 7: "Nothing is silently downgraded to success": a 200 is only
\* returned when the verifier's /prove answered with a success status.
NoSilentSuccess ==
  \A r \in Requests : resp[r] = "200" => verifier[r] = "2xx"

\* Spec 4.6 and 7: an invalid height range is a ValidationError, "rejected
\* with a client error", never a server error.
InvalidRangeIsClientError ==
  \A r \in Requests :
    (query[r] # BadQuery /\ ~ValidRange(query[r])) => resp[r] # "500"

\* Spec 4.3 and 9: a Step selection in a deployment without the step
\* circuit is a configuration error the selector "fails fast" on: such a
\* request never reaches the RPC (nor holds the permit through its retries).
StepUnavailableFailsFast ==
  \A r \in Requests :
    (route[r] # -1 /\ Delta(r) = 1) => "step" \in EnabledStrategies
=============================================================================
