--------------------------- MODULE MCPackageBuild ---------------------------
(* Instances of PackageBuild for TLC. *)
EXTENDS PackageBuild

\* Class C, then B; the second version of the maps names no known rule.
MCClassIn == 0 :> "c" @@ 1 :> "b"
MCRejected == {<<"maps", 1>>}
=============================================================================
