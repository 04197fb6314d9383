----------------------------- MODULE HashBinder -----------------------------
(***************************************************************************)
(* The Hash Binder: the input/output commitments of the two wrapped        *)
(* circuits (WrappedSkipCircuitBuild::prove, WrappedStepCircuitBuild::prove *)
(* in src/src/circuits/skip.rs and step.rs) and their truncations          *)
(* (truncated_input_hash / truncated_output_hash).                         *)
(*                                                                         *)
(* A digest is a sequence of DigestBytes bytes (32 in the code).  SHA-256   *)
(* itself is not modelled: wherever it is applied, its result is an        *)
(* arbitrary digest.  The byte encodings and the truncations are modelled  *)
(* by what they do, byte by byte, and checked over bounded inputs against  *)
(* the arithmetic value of the bytes and the circuit's input encoding.     *)
(***************************************************************************)
EXTENDS Naturals, Sequences, Bitwise

LOCAL INSTANCE SequencesExt

CONSTANTS
  HeightSample,  \* u64 heights to enumerate (TLC integers stay below 2^31)
  HeaderSample,  \* H256 header hashes to enumerate
  ByteVals,      \* byte values a digest is built from
  DigestBytes    \* length of a digest (32 in the code, scaled down)

U64Bytes == 8

\* The BN254 scalar field modulus r, big-endian: the field of the Groth16
\* wrapper's public inputs.
RBytes == <<48, 100, 78, 114, 225, 49, 160, 41, 184, 80, 69, 182, 129, 129,
            88, 93, 40, 51, 232, 72, 121, 185, 112, 145, 67, 225, 245, 147,
            240, 0, 0, 1>>

Digests == [1..DigestBytes -> ByteVals]

RECURSIVE BytesToNat(_)
\* Reference decoding: the unsigned integer a big-endian byte string denotes.
BytesToNat(s) ==
  IF s = <<>> THEN 0 ELSE BytesToNat(SubSeq(s, 1, Len(s) - 1)) * 256 + s[Len(s)]

\* The top DigestBytes bytes of r.  A digest fits the field for certain if
\* its value is below them, and exceeds it for certain if above; ByteVals is
\* chosen so that no digest ties with them.
FieldPrefix == BytesToNat(SubSeq(RBytes, 1, DigestBytes))

ASSUME
  /\ DigestBytes \in 1..3
  /\ ByteVals \subseteq 0..255
  /\ HeaderSample \subseteq Digests
  /\ HeightSample \subseteq Nat
  /\ \A dg \in Digests : BytesToNat(dg) # FieldPrefix

FitsField(d) == BytesToNat(d) < FieldPrefix

RECURSIVE BeBytes(_, _)
\* The k low-order bytes of n, most significant first.
BeBytes(n, k) == IF k = 0 THEN <<>> ELSE BeBytes(n \div 256, k - 1) \o <<n % 256>>

\* u64::to_be_bytes.
U64BeBytes(n) == BeBytes(n, U64Bytes)

\* Mutant: the target height left out of the skip input hash.
SkipInputPreimageNoTarget(th, hh, tt) == U64BeBytes(th) \o hh

\* Skip input_hash preimage: trusted_height ‖ trusted_header ‖ target_height.
SkipInputPreimage(th, hh, tt) == U64BeBytes(th) \o hh \o U64BeBytes(tt)

\* Step input_hash preimage: prev_height ‖ prev_header_hash.
StepInputPreimage(ph, hh) == U64BeBytes(ph) \o hh

\* Mutant: the mask 0x3F, clearing two bits instead of three.
MaskTop2(d) == [d EXCEPT ![1] = d[1] & 63]

\* WrappedSkipCircuitOutput::truncated_*_hash: the first byte masked with
\* 0x1F, the other bytes kept.
MaskTop3(d) == [d EXCEPT ![1] = d[1] & 31]

\* WrappedStepCircuitOutput::truncated_*_hash: SHA-256 of the hash again;
\* `shaOfD` is what SHA-256 returns for it.  This is a full 256-bit value:
\* unlike the skip mask it does not keep the result below r.
StepTruncate(d, shaOfD) == shaOfD

\* The inputs of one prove call: a skip or a step proof.
SkipInputs == [kind : {"skip"}, th : HeightSample, hh : HeaderSample,
               tt : HeightSample]
StepInputs == [kind : {"step"}, th : HeightSample, hh : HeaderSample]

Preimage(x) ==
  IF x.kind = "skip" THEN SkipInputPreimage(x.th, x.hh, x.tt)
                     ELSE StepInputPreimage(x.th, x.hh)

\* Mutant: the trusted header written after the target height.
SkipCircuitInputHeaderLast(th, hh, tt) ==
  <<[t |-> "u64", v |-> th], [t |-> "u64", v |-> tt], [t |-> "b32", v |-> hh]>>

\* The evm_write calls that fill the skip circuit's input, in order.
SkipCircuitInput(th, hh, tt) ==
  <<[t |-> "u64", v |-> th], [t |-> "b32", v |-> hh], [t |-> "u64", v |-> tt]>>

\* The evm_write calls that fill the step circuit's input, in order.
StepCircuitInput(ph, hh) ==
  <<[t |-> "u64", v |-> ph], [t |-> "b32", v |-> hh]>>

CircuitInput(x) ==
  IF x.kind = "skip" THEN SkipCircuitInput(x.th, x.hh, x.tt)
                     ELSE StepCircuitInput(x.th, x.hh)

\* The EVM byte encoding of a sequence of evm_write calls (plonky2x's, not
\* this repository's): a U64Variable is its 8 big-endian bytes, a
\* Bytes32Variable its bytes, concatenated in the order written.  This is
\* the byte string the circuit commits to as its public input.  It is
\* stated with BeBytes directly, independently of the to_be_bytes calls
\* that build the hand-made preimage.
EvmBytes(writes) ==
  FlattenSeq([i \in DOMAIN writes |->
               IF writes[i].t = "u64" THEN BeBytes(writes[i].v, U64Bytes)
                                      ELSE writes[i].v])

VARIABLES
  x, y,     \* the inputs of two prove calls
  d         \* a hash to be truncated (input_hash or output_hash)

vars == <<x, y, d>>

Init ==
  /\ x \in SkipInputs \cup StepInputs
  /\ y \in SkipInputs \cup StepInputs
  /\ d \in Digests

\* The operators are pure: nothing changes after the inputs are chosen.
Next == UNCHANGED vars

Spec == Init /\ [][Next]_vars

-----------------------------------------------------------------------------
\* Domain separation (spec 4.2, 9): the input commitment preimages of two
\* prove calls coincide only if the calls had the same kind and inputs, so
\* a skip proof never shares an input hash preimage with a step proof and
\* no two distinct ranges share one.
PreimageInjective == Preimage(x) = Preimage(y) => x = y

\* Spec 8, Scheme A: the truncated hash has its top 3 bits zero and its
\* other bits equal to the source hash's, so it is below r.
SkipTruncation ==
  /\ BytesToNat(MaskTop3(d)) = BytesToNat(d) % 2 ^ (8 * DigestBytes - 3)
  /\ FitsField(MaskTop3(d))

\* Spec 4.2: the input_hash the service returns commits to exactly the
\* bytes the wrapped proof's public input is hashed from: the preimage
\* hashed by hand in prove() (to_be_bytes of each height, the header's
\* bytes) equals the EVM encoding of the evm_write calls made on the
\* circuit input, in their order and with their widths.
InputHashBindsCircuitInput == Preimage(x) = EvmBytes(CircuitInput(x))
=============================================================================
