# TLA+ models of tendermint-zk-ibc

This directory holds TLA+ models of the proof-orchestration layer of
tendermint-zk-ibc (`src/src/`). Each module is translated from the Rust
source. The TLC runs listed in `PROJECT.json` check them.

## 1. Inventory

### Components and their state

| Component | Source | State it keeps | Operations |
|---|---|---|---|
| Trusted State Fetcher | `tendermint_client.rs` | per call: `res` (latest GET result), `num_retries` | `fetch_trusted_block_hash(url, h)` asks for `header?height=h+1` and returns its `last_block_id.hash`. `request_from_rpc` does a first GET, then while it gets `Err` and `num_retries < 10` it repeats GET, `sleep(2^num_retries)`, `num_retries += 1`, and finally returns the body or panics. |
| Hash Binder | `circuits/skip.rs`, `circuits/step.rs` | none (pure) | skip: `input_hash = SHA256(th ‖ hash ‖ tt)` and the truncation masks byte 0 with `0x1F`. step: `input_hash = SHA256(ph ‖ hash)` and the "truncation" is `SHA256(hash)`. The output hash is `SHA256(header)` for both. |
| Strategy Selector | `service.rs:146`, `prove.rs:54` | none | `delta == 1` → step (panics without the `step` feature), else skip |
| Proof Pipeline | `circuits/*.rs` | `WrappedSkip/StepCircuitBuild`, built at startup and read-only afterwards | `build_wrapped_*_circuit` calls `build_*_circuit` twice (once for the wrapper, once for the build that is kept). `prove` runs the inner prove (panics on a bad witness), reads the output, then wraps (skip: `unwrap`, step: `?`). |
| Verifier Gateway Client | `gnark_verifier.rs` | none | `prove`: POST, returns the body bytes whatever the HTTP status. `health`: GET plus `error_for_status_ref`. |
| Request Service | `commands/service.rs` | `ServiceState` (URLs, circuit builds), the single semaphore permit of `ConcurrencyLimitLayer::new(1)` and its FIFO waiters | startup (build circuits, bind, serve). `/prove`: extract the query, `validate().unwrap()`, fetch, prove, submit, answer JSON. `/health`. |
| CLI prove command | `commands/prove.rs` | files in `data_dir` / `proof_dir` | check the directories, validate, fetch, build one circuit, prove, save, run the `gnark-verifier` child |
| Entry point and configuration | `main.rs`, `commands.rs`, `config.rs` | compile-time constants | argument parsing, logging |

### How the components interact

The Request Service calls the Fetcher, the Strategy Selector, the Proof
Pipeline and then the Verifier Gateway, strictly in that order inside one
handler. The Hash Binder runs inside the pipeline. Its truncated values are
only logged.

The only state shared between requests is:
- the concurrency permit;
- the read-only circuit builds.

Every panic is caught by `CatchPanicLayer` (outermost) and becomes a 500.
The handler future is then dropped, and its permit is released with it.
hyper also drops a handler future at an await point when its client goes
away.

The CLI runs the same pipeline once per process. It writes the proof to
disk and hands it to a verifier child process.

### What is hard
- **Interleaving.** Concurrent `/prove` requests compete for one permit.
  Disconnects can drop a waiter or a permit holder at any await point.
- **Partial failure.** A panic can happen at every stage while the permit
  is held.
- **Timeouts and retries.** The fetch retry loop has a bound and a sleep
  order. It can hold the permit through up to 1023 s of backoff.
- **Numeric edges.**
  - The u64 subtraction and `height + 1` are only safe because the
    validation checks run in a particular order.
  - A 256-bit hash must be truncated to fit the BN254 scalar field.
- **Liveness.** Every queued request must be served, whatever failed before
  it.

### Correctness properties per component
- **Fetcher:** it spends exactly its retry budget before failing, never
  discards a success, doubles its backoff, always ends, and returns the hash
  of the block at the requested height.
- **Hash Binder:** the encodings are injective across both strategies, the
  hand-built input hash preimage is the circuit input's encoding, and
  the skip truncation keeps the value inside the field. The step
  "truncation" re-hashes, so its value is a full 256-bit digest that can
  exceed the field (spec 9 leaves this asymmetry open; no run restates it).
- **Service:**
  - at most one proof runs at a time;
  - the permit is neither leaked nor shared;
  - only valid ranges cause network calls;
  - every request ends;
  - failures are never reported as success;
  - invalid input is a client error.
- **Startup:** the builds are counted (`innerBuilds`). Each enabled inner circuit is built twice (`skip.rs` 43-48, and the same in `step.rs`), against spec 3's "no double-build". Nothing is checked about this: it is visible in the code, and the run budget went to the missing-timeout finding.
- **RPC peer that never answers:** `reqwest::get` has no timeout. With `PeerMayHang`, a GET may never complete, and the fetch then never ends.
- **CLI:** only valid ranges are fetched; the verifier child checks the
  proof this run saved; Ok means verified.

## 2. Modules

| Module | Models | State ↔ code |
|---|---|---|
| `FetchSpec` | abstract contract of `fetch_trusted_block_hash` | `status` pending/returned/failed, `result` = hash at `height`; weak fairness: the call ends |
| `RpcFetch` | `tendermint_client.rs` | `pc` (start/loop/sleep/hung/done/panicked), `res` (ok/err/hang), `numRetries` = `num_retries`, `waited` = seconds slept since the last GET. Actions: `FirstGet` (l.28), `RetryGet` (l.30-32), `Backoff` (l.34-35), `ReadHeader` (l.38-39 with the parsing of l.17-21), `GiveUp` (l.42). Refines `FetchSpec` via `Status`. `PeerMayHang` adds the outcome "hang": the peer accepts the GET and never answers. With no timeout set, the await is never woken (`AfterGet`). |
| `Service` | `commands/service.rs`, `gnark_verifier.rs`, outcomes of `circuits/*::prove` | see below |
| `ProveService` | abstract contract of the Request Service | `waiting` (FIFO), `current` (the request served), `answer`; `Arrive`, `Reject`, `Begin`, `Complete`, `Cancel`; weak fairness for the server. `Service` maps onto it with `queue`, `holder`, `resp`. |
| `ProveCommand` | `commands/prove.rs` | see below |
| `HashBinder` | commitment preimages and truncations of `circuits/*.rs` | pure operators (`U64BeBytes`, `SkipInputPreimage`, `StepInputPreimage`, `MaskTop3`, `StepTruncate`). `SkipCircuitInput`/`StepCircuitInput` are the `evm_write` calls of `prove`, in order. `EvmBytes` is their EVM byte encoding, which is plonky2x's and is assumed: a u64 is 8 big-endian bytes and a Bytes32 is its bytes. It is written with `BeBytes` directly, not with the `U64BeBytes` of the hand-built preimage, so a change to either side's width shows. The variables only enumerate inputs. |
| `MC_*` | TLC instances | constants and symmetry |

In `Service`, each request has:
- a `phase`: idle, waiting, fetch, prove, submit, done;
- a `query`: a height pair, or `BadQuery`;
- a `route`: the height sent to the RPC;
- `verifier`: the status class of the verifier's answer;
- `resp`: what the client got.

The permit is `holder`, and the semaphore's FIFO is `queue`. Each action is
a stretch of handler code between two awaits:
- `Admit`: semaphore grant, `Query` extraction (400), `validate` (panic →
  500) and the first GET;
- `Fetch`: the rest of the fetch, abstracted by `FetchSpec`;
- `Prove`: delta == 1 needs the step circuit, then the prover outcome
  (`SkipProveResults`/`StepProveResults`) and the POST;
- `Submit`: the verifier's answer, from `GatewayProve`.

Three more actions model the environment and startup:
- `Drop`: a client disconnect at an await point;
- `Health`;
- `Startup`: the whole of `ServiceCommand::run` before serving. There are three outcomes. If `TENDERMINT_RPC_URL` is unset, the `expect` panics before any build. Otherwise the circuits are built (`Built`), and then the `bind(..).unwrap()` either panics or the listener serves. After a panic (`exited`) nothing more happens.

In `ProveCommand`, each CLI invocation `p` is a process with a program
counter `pc[p]` and its heights `args[p]`. The host's file system is shared
by all invocations: `dataDir`, `proofDir` (absent, a directory, or a
regular file), `proof` (the proof files in it: empty, an earlier run's, or
one saved by a run), plus `rpcUrlSet` and `verifierBin`. The actions follow
`ProveCommand::run` line by line:
- `Start`: `env::var(..).expect`, the `data_dir` check and the `exists()`
  test of `proof_dir` (l.31-41);
- `CreateDir`: `create_dir(proof_dir).unwrap()` (l.42);
- `Validate`: the two range panics (l.45-50);
- `Fetch`: `fetch_trusted_block_hash`, abstracted like in `Service`;
- `Prove`: build and prove the selected circuit (l.54-76);
- `Save`: `wrapped_proof.save(proof_dir).unwrap()` (l.66, l.80);
- `Spawn`: start the `gnark-verifier` child (l.84-95);
- `ChildExit`: the child reads `proof_dir` and exits; `wait()` returns and
  the run returns `Ok(())` (l.96-100).

u64 arithmetic is scaled to `HeightBits` bits and wraps like a release
build. The properties show that it never actually wraps, so debug builds,
which panic instead of wrapping, behave the same.

## 3. Runs

| Run | Expect | What it shows |
|---|---|---|
| `rpc_fetch` | pass | With the code's budget of 10, the fetch:<ul><li>fails only after exactly 10 retries (`RetryBudgetExact`);</li><li>never overwrites an Ok (`NoSuccessDiscarded`);</li><li>sleeps 1, 2, 4, … s between retries (`BackoffDoubles`);</li><li>always ends with the hash of the requested block (`ImplementsFetchSpec`, a refinement with fairness).</li></ul> |
| `rpc_fetch_hang` | violation | With `PeerMayHang = TRUE`, `ImplementsFetchSpec` fails. A GET that is never answered leaves the fetch pending forever: the retry budget bounds only failed attempts. Spec 5 calls the budget the fetch's "effective timeout" (finding). |
| `rpc_fetch_spec_backoff` | violation | The spec's schedule, "wait 2^n s before the n-th retry", is violated: the first retry follows immediately, and each sleep comes after its GET. |
| `service_safety` | pass | Three requests, every failure path, disconnects, both feature settings. Checks `AtMostOneProving`, `PermitAccounting` and `NetworkOnlyForValidRanges`: only valid ranges reach the RPC, and no u64 wrap occurs. |
| `service_liveness` | pass | `EveryRequestEnds`: under weak fairness of the handler steps, every queued request is answered or dropped. `ImplementsProveService`: the service refines the abstract `ProveService` (FIFO admission, one request at a time, every request answered once, the served request eventually answered). |
| `service_silent_success` | violation | The verifier's error status is relayed as a 200 (finding). |
| `service_validation_status` | violation | An invalid range gets a 500, not a client error (finding). |
| `service_step_fail_fast` | violation | Without the step feature, an adjacent-height request reaches the RPC (and holds the permit through its retries) before it fails; the spec asks to fail fast (finding). |
| `cli_prove` | pass | One invocation, every environment and failure case, over a `proof_dir` that may be missing, a regular file, empty or hold an earlier run's proof: only ranges in 1..SKIP_MAX are fetched (`FetchOnlyValidRange`), and the verifier child reads the proof this run saved, for its range and strategy (`VerifierReadsOwnProof`). |
| `cli_shared_proof_dir` | violation | With two invocations on one `proof_dir`, a verifier child reads the other run's proof (finding). |
| `cli_exit_status` | violation | The command returns Ok although the verifier child failed (finding). |
| `hash_binder` | pass | `PreimageInjective` shows that skip and step preimages never collide. `SkipTruncation` shows that the mask keeps the low bits and stays below r. `InputHashBindsCircuitInput` shows that the hand-built `input_hash` preimage is the EVM encoding of the circuit input, in the order and widths written. |

Every property of a passing run also has a mutant, listed in
`PROJECT.json`. A mutant is a plausible code bug (an off-by-one, a dropped
guard, a missing release), and TLC finds each one.

### Bounds and why they suffice
- **RpcFetch:** the code's own budget (`retries = 10`), and heights
  {0, 1, 5}. This gives every failure count from 0 to 11 attempts.
- **Service:** 3 requests and 3-bit heights (MaxU = 7) with `SKIP_MAX = 3`.
  - Three requests let one wait behind another that fails and a third
    arrive in between. With two requests no waiter would be behind a
    waiter.
  - The queries cover step <3,4>, skip at the maximum <3,6>, one past the
    maximum <3,7>, inverted <5,3>, empty at the top of the range <7,7>, and
    a malformed query.
  - `<7,7>` is the input that makes an unguarded `height + 1` wrap.
  - The safety runs use symmetry over requests. The liveness run does not,
    because symmetry is unsound for liveness.
- **ProveCommand:** the same heights as `Service`. One invocation
  (`MCRuns1`) shows what a run does alone, over every initial state of
  `proof_dir` including a leftover proof. Two invocations (`MCRuns2`) show
  every interleaving of their file-system steps. A third would add no new
  kind of interleaving, since every shared step is between two runs.
- **HashBinder:** 2-byte digests whose first bytes lie below, at and far
  above `0x1F`, and heights 0, 1 and 256, which cross a byte boundary.
  TLC integers are 32-bit, so heights stay below 2^31.

### Fairness
Tokio keeps polling every task that can make progress, and the tokio
semaphore grants permits FIFO. So `Admit`, `Fetch`, `Prove`, `Submit` and
`Startup` are weakly fair for each request. Clients (`Send`, `Drop`) and
health probes are not obliged to act. The fairness of `Fetch` and
`Submit` also assumes that the RPC peer and the verifier answer, because
the code sets no timeout. `rpc_fetch_hang` drops that assumption for the
fetch. The passing RpcFetch runs set `PeerMayHang = FALSE`. The fetch loop is a single task, so
it is weakly fair as a whole. Each CLI invocation is an OS process, so
it is weakly fair per process. `ProveService` assumes only what
`Service`'s fairness gives: the head of the line is taken, and the served
request is answered.

## 4. Not modelled
- **The circuits and the prover** (tendermintx/plonky2x): external and out
  of scope. Only their outcomes (ok / panic / Err) are modelled.
- **SHA-256:** its output is an arbitrary digest.
- **Logging, formatting, timing of proofs, the JSON contents:** only
  whether a body parses is modelled.
- **The CLI's directory layout:** `wrapped_proof.save` (plonky2x) writes
  several files; the model treats the save as one atomic write, which
  only hides more ways for two runs to mix their files.
- **The gnark-verifier child's own work:** only its reading of
  `proof_dir` and its exit status.
- **Entry point and config:** no state.
- **tokio worker threads:** proving is one atomic step. With one permit,
  at most one worker is ever blocked. Whether `/health` stalls meanwhile
  depends only on the host's CPU count (see the hazard at `service.rs:146`).
- **plonky2x's `evm_write` encoding:** `EvmBytes` assumes it: 8 big-endian
  bytes for a `U64Variable`, and the 32 bytes of a `Bytes32Variable`, in
  write order. It is library code, not this repository's.

## 5. Plan

Done in the first sitting, in order of importance:
1. `Service`, with its runs.
2. `RpcFetch` and its refinement of `FetchSpec`.
3. `HashBinder`.

Done in the second sitting:
1. `ProveCommand`, the CLI as processes over a shared file system, with
   its runs and findings (exit status ignored, shared `proof_dir`).
2. The abstract `ProveService` and the refinement mapping from `Service`,
   checked with fairness in `service_liveness`.
3. The fail-fast violation of the step-disabled service
   (`service_step_fail_fast`).

Done in the third sitting:
1. `HashBinder` models the circuit I/O of `prove`: the `evm_write`
   sequence and its EVM byte encoding. `InputHashBindsCircuitInput`
   checks that the returned input hash commits to exactly those bytes.
2. `Service`'s `Startup` models its two panics: the env `expect` and the
   `bind` `unwrap`.
3. The verifier-overlap hazard was dropped. Spec 5 leaves submits of
   different requests unordered, so an overlap at the verifier is allowed
   behaviour, not a fault.

Done in the fourth sitting:
1. The missing-timeout fault model for the RPC GET (`PeerMayHang`), and
   the `rpc_fetch_hang` finding. It replaced the `service_build_once` run,
   which only counted builds.

Done in the fifth sitting (after review):
1. `BeBytesDecodes` was removed: it checked the model's encoding against
   the model's own decoding. The narrower-encoding hazard is now caught by
   `InputHashBindsCircuitInput`, since `EvmBytes` encodes u64 independently.
2. The output conjunct of the circuit-I/O property held by definition. It
   was removed, and the property renamed `InputHashBindsCircuitInput`.
3. Map ranges corrected: the `evm_write` lines (`skip.rs` 60-62, `step.rs`
   59-60), `Preimage` (74-80), and `ProveCommand`'s `Prove`/`Save`, which
   no longer overlap.

Next sittings:
1. **Compose `RpcFetch` into `Service`** (`INSTANCE RpcFetch` per request)
   in a timed variant, with seconds as a bounded clock, to bound how long
   a waiter can be held up by a fetch's backoff.
2. **The CLI's `create_dir` race** as a run, if the run budget allows:
   the model already has it (`CreateDir` panics when the directory
   appeared after the `exists()` test).
