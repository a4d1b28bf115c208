----------------------------- MODULE MCReadiness -----------------------------
(***************************************************************************)
(* A small instance of Readiness for TLC.  People work on one focus at a   *)
(* time: answers that some gate or the wizard judges together, or what one *)
(* gate measures in days.                                                  *)
(***************************************************************************)
EXTENDS Readiness, TLC

Case(classes, optional, focuses) ==
  [class : classes, selected : optional, focus : focuses]

AnswerCases ==
  Case({"a"}, SUBSET Optional,
       {{"offering", "contact"}, {"fiaName", "fiaId"}, {"purpose", "assessor"},
        {"framework", "materials"}, {"ivvSummary", "osa"}})
  \cup
  Case({"b", "c"}, {{}},
       {{"offering", "contact"}, {"fiaName", "fiaId"}, {"purpose", "assessor"},
        {"guide", "statusPage"}, {"metadata", "osa"}, {"historyDays", "standby"}})
TimeCases ==
  Case({"a"}, {{}}, {{"verified", "external"}})
  \cup Case({"a"}, {{"IVV-CSO-FIA"}}, {{"verified", "assessed"}})
  \cup Case({"b"}, {{}}, {{"verified"}, {"assessed", "freshened", "reviewer"}})
  \cup Case({"c"}, {{}}, {{"verified"}, {"evidence"}, {"series", "since"},
                           {"series", "agreed"}})
  \cup Case({"a"}, {{"SDR-CSX-KMT"}}, {{"series"}})
MCCases == AnswerCases \cup TimeCases

KSISymmetry == Permutations(KSIs)

=============================================================================
