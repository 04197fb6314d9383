---------------------------- MODULE MC_HashBinder ----------------------------
(* HashBinder with 2-byte digests, heights on both sides of a byte         *)
(* boundary, and digest bytes below, just above and far above 0x1F.        *)
EXTENDS HashBinder

MCDigestBytes == 2
MCByteVals == {31, 32, 255}
MCHeaderSample == {<<31, 255>>, <<255, 32>>}
MCHeightSample == {0, 1, 256}
=============================================================================
