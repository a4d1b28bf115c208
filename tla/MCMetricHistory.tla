--------------------------- MODULE MCMetricHistory ---------------------------
(***************************************************************************)
(* Small instances of MetricHistory for TLC.                               *)
(***************************************************************************)
EXTENDS MetricHistory, TLC

\* One KSI: an evaluated and an unevaluated collection.
OneKSI == {[k \in KSIs |-> 1], [k \in KSIs |-> None]}

\* Two KSIs that part ways: both are observed, or only one of them.
CONSTANTS k1, k2
PartWays == {(k1 :> 0 @@ k2 :> 1), (k1 :> 1 @@ k2 :> None)}

=============================================================================
