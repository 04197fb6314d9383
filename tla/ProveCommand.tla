----------------------------- MODULE ProveCommand -----------------------------
(***************************************************************************)
(* The CLI prove command: ProveCommand::run in src/src/commands/prove.rs.  *)
(*                                                                         *)
(* Each run is one process executing run() sequentially.  Several runs may *)
(* be started on one host with the same --proof-dir, so they share the     *)
(* file system: whether data_dir exists, what is at the proof_dir path     *)
(* (nothing, a directory, a regular file) and which proof is saved in it.  *)
(* Every expect/unwrap/panic ends the process; that is the state           *)
(* "panicked".  The fetch is abstracted by FetchSpec (it returns or        *)
(* fails), the circuits by the outcome of their prove.  The gnark-verifier *)
(* child is a separate process: it reads proof_dir some time after it was  *)
(* spawned, and exits with a status the parent waits for.                  *)
(***************************************************************************)
EXTENDS Integers

CONSTANTS
  Runs,        \* CLI invocations sharing one --proof-dir (model values)
  Params,      \* <<trusted_height, target_height>> pairs given on the command line
  SkipMax,     \* tendermintx::config::SKIP_MAX
  HeightBits,  \* width of the u64 heights, scaled down
  NoRun        \* model value: no run

Modulus == 2 ^ HeightBits
MaxU    == Modulus - 1

ASSUME
  /\ NoRun \notin Runs
  /\ HeightBits \in Nat \ {0}
  /\ Params \subseteq (0..MaxU) \X (0..MaxU)
  /\ SkipMax \in 1..MaxU

VARIABLES
  rpcUrlSet,    \* TENDERMINT_RPC_URL is set (the host's environment / .env)
  dataDir,      \* the data_dir path exists
  proofDir,     \* what is at the proof_dir path: "absent" | "dir" | "file"
  proof,        \* the proof files in proof_dir: Empty, or a Saved record
  verifierBin,  \* the gnark_verifier_bin path can be spawned
  args,         \* run -> its <<trusted_height, target_height>>
  pc,           \* run -> where run() is
  read,         \* run -> the proof its verifier child read (Unread: not yet)
  exit          \* run -> the child's exit status ("none" until it exited)

vars == <<rpcUrlSet, dataDir, proofDir, proof, verifierBin, args, pc, read, exit>>

Strategies == {"step", "skip"}

\* Mutant: the heights passed to the circuit's prove in swapped order.
SavedHeightsSwapped(p, kind) ==
  [by |-> p, kind |-> kind, range |-> <<args[p][2], args[p][1]>>]

\* The proof run p writes with wrapped_proof.save(proof_dir).  A proof
\* left by an earlier invocation has `by` = NoRun.
Saved(p, kind) == [by |-> p, kind |-> kind, range |-> args[p]]

Proofs == [by : Runs \cup {NoRun}, kind : Strategies, range : Params]
Empty  == [by |-> NoRun, kind |-> "none", range |-> <<>>]
Unread == [by |-> NoRun, kind |-> "unread", range |-> <<>>]

U64Sub(a, b) == (a - b) % Modulus

Delta(p) == U64Sub(args[p][2], args[p][1])

\* The range invariant of the spec, in unbounded arithmetic.
ValidRange(r) == r[1] < r[2] /\ r[2] - r[1] <= SkipMax

\* Mutant: the `target_height <= trusted_height` check left out.
RangeCheckNoOrder(p) == ~(Delta(p) > SkipMax)

\* The two range checks of run(), in the code's order (each a panic).
RangeCheck(p) ==
  /\ ~(args[p][2] <= args[p][1])
  /\ ~(Delta(p) > SkipMax)

\* `target_height - trusted_height == 1` selects the step circuit.
Strategy(p) == IF Delta(p) = 1 THEN "step" ELSE "skip"

Panic(p) == pc' = [pc EXCEPT ![p] = "panicked"]

Goto(p, l) == pc' = [pc EXCEPT ![p] = l]

Init ==
  /\ rpcUrlSet \in BOOLEAN
  /\ dataDir \in BOOLEAN
  /\ proofDir \in {"absent", "dir", "file"}
  /\ proof \in IF proofDir = "dir"
               THEN {Empty} \cup [by : {NoRun}, kind : Strategies, range : Params]
               ELSE {Empty}
  /\ verifierBin \in BOOLEAN
  /\ args \in [Runs -> Params]
  /\ pc = [p \in Runs |-> "start"]
  /\ read = [p \in Runs |-> Unread]
  /\ exit = [p \in Runs |-> "none"]

\* env::var(..).expect, the data_dir check, and the exists() test of
\* proof_dir (a regular file "exists" too).
Start(p) ==
  /\ pc[p] = "start"
  /\ IF rpcUrlSet /\ dataDir
     THEN Goto(p, IF proofDir = "absent" THEN "mkdir" ELSE "validate")
     ELSE Panic(p)
  /\ UNCHANGED <<rpcUrlSet, dataDir, proofDir, proof, verifierBin, args, read,
                 exit>>

\* std::fs::create_dir(proof_dir).unwrap(): fails (AlreadyExists) if the
\* path was created since the exists() test.
CreateDir(p) ==
  /\ pc[p] = "mkdir"
  /\ IF proofDir = "absent"
     THEN /\ proofDir' = "dir"
          /\ Goto(p, "validate")
     ELSE /\ Panic(p)
          /\ UNCHANGED proofDir
  /\ UNCHANGED <<rpcUrlSet, dataDir, proof, verifierBin, args, read, exit>>

Validate(p) ==
  /\ pc[p] = "validate"
  /\ IF RangeCheck(p) THEN Goto(p, "fetch") ELSE Panic(p)
  /\ UNCHANGED <<rpcUrlSet, dataDir, proofDir, proof, verifierBin, args, read,
                 exit>>

\* fetch_trusted_block_hash(&url, trusted_height): returns, or panics.
Fetch(p) ==
  /\ pc[p] = "fetch"
  /\ \/ Goto(p, "prove")
     \/ Panic(p)
  /\ UNCHANGED <<rpcUrlSet, dataDir, proofDir, proof, verifierBin, args, read,
                 exit>>

\* build_wrapped_{step,skip}_circuit, then prove(..).unwrap(): the inner
\* prove panics on a witness it cannot satisfy, an Err is unwrapped.  The
\* skip branch (l.69-76) and the step branch (l.55-62) do the same.
Prove(p) ==
  /\ pc[p] = "prove"
  /\ \/ Goto(p, "save")
     \/ Panic(p)
  /\ UNCHANGED <<rpcUrlSet, dataDir, proofDir, proof, verifierBin, args, read,
                 exit>>

\* Mutant: the step branch goes on to the verifier without saving.
SaveSkippedOnStep(p) ==
  /\ pc[p] = "save"
  /\ IF Strategy(p) = "step"
     THEN /\ Goto(p, "spawn")
          /\ UNCHANGED proof
     ELSE IF proofDir = "dir"
     THEN /\ proof' = Saved(p, Strategy(p))
          /\ Goto(p, "spawn")
     ELSE /\ Panic(p)
          /\ UNCHANGED proof
  /\ UNCHANGED <<rpcUrlSet, dataDir, proofDir, verifierBin, args, read, exit>>

\* output.wrapped_proof.save(proof_dir).unwrap(), in the branch of the
\* selected strategy (l.80 and, the same, l.66): overwrites what is in the
\* directory, fails if the path is not a directory.
Save(p) ==
  /\ pc[p] = "save"
  /\ IF proofDir = "dir"
     THEN /\ proof' = Saved(p, Strategy(p))
          /\ Goto(p, "spawn")
     ELSE /\ Panic(p)
          /\ UNCHANGED proof
  /\ UNCHANGED <<rpcUrlSet, dataDir, proofDir, verifierBin, args, read, exit>>

\* Command::new(gnark_verifier_bin) ... .spawn().expect(..): the child
\* `prove --data data_dir --proof proof_dir` is started.
Spawn(p) ==
  /\ pc[p] = "spawn"
  /\ IF verifierBin THEN Goto(p, "wait") ELSE Panic(p)
  /\ UNCHANGED <<rpcUrlSet, dataDir, proofDir, proof, verifierBin, args, read,
                 exit>>

\* The child reads proof_dir and exits with some status; the parent's
\* child_process.wait().expect(..) returns, and run() returns Ok(()).
ChildExit(p) ==
  /\ pc[p] = "wait"
  /\ read' = [read EXCEPT ![p] = proof]
  /\ \E s \in {"success", "failure"} : exit' = [exit EXCEPT ![p] = s]
  /\ Goto(p, "ok")
  /\ UNCHANGED <<rpcUrlSet, dataDir, proofDir, proof, verifierBin, args>>

\* One step of run p.
Step(p) ==
  \/ Start(p) \/ CreateDir(p) \/ Validate(p) \/ Fetch(p) \/ Prove(p)
  \/ Save(p) \/ Spawn(p) \/ ChildExit(p)

Next == \E p \in Runs : Step(p)

\* Each process is scheduled by the OS until it returns or panics.
Spec == Init /\ [][Next]_vars /\ \A p \in Runs : WF_vars(Step(p))

Done == \A p \in Runs : pc[p] \in {"ok", "panicked"}

-----------------------------------------------------------------------------
\* The state stays within its types.
TypeOK ==
  /\ rpcUrlSet \in BOOLEAN /\ dataDir \in BOOLEAN /\ verifierBin \in BOOLEAN
  /\ proofDir \in {"absent", "dir", "file"}
  /\ proof \in {Empty} \cup Proofs
  /\ args \in [Runs -> Params]
  /\ pc \in [Runs -> {"start", "mkdir", "validate", "fetch", "prove", "save",
                      "spawn", "wait", "ok", "panicked"}]
  /\ read \in [Runs -> {Unread, Empty} \cup Proofs]
  /\ exit \in [Runs -> {"none", "success", "failure"}]

\* Spec 3 and 8: a range outside 1..SKIP_MAX is rejected before any
\* network call; the u64 subtraction of the checks never wraps into
\* accepting one.
FetchOnlyValidRange ==
  \A p \in Runs :
    pc[p] \in {"fetch", "prove", "save", "spawn", "wait", "ok"} =>
      ValidRange(args[p])

\* Spec 3 (a ProofBundle is owned by the run that produced it): the proof
\* the gnark-verifier child of a run reads is the one that run saved, for
\* its range and with the strategy the range selects (step iff the heights
\* are adjacent), never an earlier run's leftover nor another run's proof.
VerifierReadsOwnProof ==
  \A p \in Runs :
    read[p] # Unread =>
      read[p] = [by |-> p,
                 kind |-> IF args[p][2] - args[p][1] = 1 THEN "step" ELSE "skip",
                 range |-> args[p]]

\* Spec 7, "nothing is silently downgraded to success": the command
\* returns Ok only if the verifier child succeeded.
OkMeansVerified ==
  \A p \in Runs : pc[p] = "ok" => exit[p] = "success"
=============================================================================
