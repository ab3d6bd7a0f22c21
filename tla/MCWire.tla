------------------------------- MODULE MCWire --------------------------------
(***************************************************************************)
(* Encodings that edits start from: a batch with two fences and two        *)
(* candidates, a snapshot with two envelopes, and one that gives a fact    *)
(* two.                                                                    *)
(***************************************************************************)
EXTENDS Wire

CONSTANTS a, b

Rank == (a :> 1) @@ (b :> 2) @@ (Malformed :> 3)

Time(n) == Obj(<<M("clock_id", Str(UTC)), M("unix_nanoseconds", Str(<<n>>))>>)
Quality(assertion) ==
    M("quality", Obj(<<M("assertion", Str(assertion)), M("availability", Str(Available))>>))
Causal == M("causal", Obj(<<M("hop_count", Num(<<1>>)), M("path", Arr(<<Str(a)>>)),
                            M("first_seen_at", Time(0)), M("expires_at", Time(0))>>))
Observation(id, rest) ==
    Obj(<<M("candidate_id", Str(id)), M("revision", Str(<<1>>)), Quality(Observed),
          M("value", Str(a)), M("binding_id", Str(b))>> \o rest)
Inference(id, input) ==
    Obj(<<M("candidate_id", Str(id)), M("revision", Str(<<1>>)), Quality(Inferred), M("value", Str(a)),
          M("derivation", Obj(<<M("inputs", Arr(<<Obj(<<M("candidate_id", Str(input)),
                                                       M("candidate_revision", Str(<<1>>))>>)>>))>>))>>)
Fence(generation) ==
    Obj(<<M("source_id", Str(a)), M("driver_generation", Str(generation)), M("revision", Str(<<1>>))>>)

Batch(fences, candidates) ==
    [root |-> "PublicationBatch",
     node |-> Obj(<<M("contract", Str(Kernel)), M("generation_fences", Arr(fences)),
                    M("fact_upserts", Arr(candidates))>>)]
Envelope(key, candidates) ==
    Obj(<<M("key", Obj(<<M("fact_id", Str(key))>>)), M("revision", Str(<<1>>)), M("candidates", Arr(candidates))>>)

Batches == {Batch(<<Fence(<<1>>)>>, <<Observation(a, <<Causal>>)>>),
            Batch(<<>>, <<Inference(b, a)>>)}
Fences == {Batch(<<Fence(<<9>>), Fence(<<1, 0>>)>>, <<Observation(a, <<Causal>>)>>)}
Snapshot(first, second) ==
    [root |-> "Snapshot",
     node |-> Obj(<<M("contract", Str(Kernel)),
                    M("facts", Arr(<<Envelope(first, <<Observation(a, <<>>)>>),
                                     Envelope(second, <<Inference(b, a)>>)>>))>>)]
Snapshots == {Snapshot(a, b)}
OneFactTwice == {Snapshot(a, a)}
BatchesAndSnapshots == Batches \cup Snapshots
HopCounts == {<<1>>, <<2>>, <<3>>, Fraction}
OneDigit == {<<0>>, <<1>>}
Generations == {<<9>>, <<1, 0>>}
=============================================================================
