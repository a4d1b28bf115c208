---------------------------- MODULE MCRecordWork ----------------------------
(* The fields people work on together, and what they may write in them.    *)
EXTENDS RecordWork, TLC

MCSymmetry == Permutations(Methods)
MCMinMethods == [a |-> 0, b |-> 1, c |-> 2]
MCImplLists == {{"tbd"}, {"draft"}, {"partial"}, {"brief"}, {"text"},
                {"text", "tbd"}, {"text", "draft"}}
MCFocuses ==
  [rule |-> {{"followed", "impl", "reason", "risk", "acceptance"},
             {"followed", "verification", "validation", "acceptance",
              "artifact"},
             {"independentVerification", "independentValidation",
              "responses", "owner"}},
   ksi |-> {{"impl", "measures", "reason", "risk"},
            {"measures", "persistent", "operatingCycle", "impl"},
            {"measuresVerification", "automationVerification",
             "validation", "assessment"},
            {"impl", "tests", "evidence", "history"},
            {"last30Days", "upToOneYear", "history"}}]
\* The second set of focuses also uses the other names the gate accepts.
MCAliasFocuses ==
  [rule |-> {}, ksi |-> {{"impl", "measures", "reason", "risk",
                          "customerRisk"}}]
Prose == {"tbd", "draft", "brief", "partial", "text"}
MCVocabulary ==
  [i \in RuleItem \cup KsiItem |->
     CASE i \in {"last30Days", "upToOneYear"} ->
            {"tbd", "text", "claim", "wrong"}
       [] i = "acceptance" -> {"tbd", "draft", "text", "boiler"}
       [] i \in {"reason", "customerRisk", "cycle"} -> Prose \cup {"absent"}
       [] OTHER -> Prose]
=============================================================================
