----------------------------- MODULE MCIetfNat -----------------------------
(***************************************************************************)
(* Instances of IetfNat for TLC: entries with a pair of source addresses,  *)
(* with a pair of destination addresses, and incomplete ones.              *)
(***************************************************************************)
EXTENDS IetfNat, TLC

CONSTANTS n1, x1, x2, in1, in2, out1, out2

OneInst == {n1}
TwoIndexes == {x1, x2}
FourAddrs == {in1, in2, out1, out2}

Src(i, o) == "type" :> "static" @@ "isrc" :> i @@ "esrc" :> o
                @@ "idst" :> NoLeaf @@ "edst" :> NoLeaf
Dst(i, o) == "type" :> "static" @@ "isrc" :> NoLeaf @@ "esrc" :> NoLeaf
                @@ "idst" :> i @@ "edst" :> o
Untyped == [Src(in1, out1) EXCEPT !["type"] = NoLeaf]

\* Both kinds of pair that are valid.
PairConfigs == {Src(in1, out1), Dst(in2, out2)}
\* The incomplete entry gets in together with a complete one, whose type is left
\* in the builder; completing it later assigns neither create nor xindex.
Incomplete == [Untyped EXCEPT !["esrc"] = NoLeaf]
HostileConfigs == {Src(in1, out1), Incomplete}
=============================================================================
