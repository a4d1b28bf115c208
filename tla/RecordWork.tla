----------------------------- MODULE RecordWork -----------------------------
(***************************************************************************)
(* The life of one requirement's record between the people who author it,  *)
(* the collectors that extend its metric history, and the build that       *)
(* copies it into the SDR.  RecordGates says how it is judged.             *)
(*                                                                         *)
(* A behaviour is about one requirement and the fields of one focus: the   *)
(* other fields are finished from the start and stay so.                   *)
(***************************************************************************)
EXTENDS RecordGates

CONSTANTS Focuses,     \* per subject, the sets of fields people work on
          Vocabulary,  \* the kinds of text they write in a field
          ImplLists,   \* the lists of kinds they write in implementation
          NoRecord     \* the store has no entry for the requirement

ASSUME NoRecordAssumption == NoRecord \notin RuleRecord \cup KsiRecord
ASSUME VocabularyAssumption ==
  /\ \A i \in RuleItem \cup KsiItem : Vocabulary[i] \subseteq Words
  /\ ImplLists \subseteq SUBSET Words

Subject == {"rule", "ksi"}

VARIABLES subject,  \* what the requirement is
          due,      \* the classes at which a rule demands an artifact
          focus,    \* the fields people work on
          store,    \* the record in sdr/records/records-store.json
          history,  \* its metric history
          built     \* sdr.py build has run since the last change

vars == <<subject, due, focus, store, history, built>>

TypeOK ==
  /\ subject \in Subject
  /\ due \in SUBSET Class
  /\ store \in (IF subject = "rule" THEN RuleRecord ELSE KsiRecord)
                 \cup {NoRecord}
  /\ history \in History
  /\ built \in BOOLEAN

-----------------------------------------------------------------------------
(* The placeholders build_sdr.py scaffolds, and finished records.          *)

RuleScaffold ==
  [followed |-> FALSE, impl |-> {"tbd"}, artifact |-> "none",
   item |-> [i \in RuleItem |-> CASE i = "reason" -> "absent"
                                  [] i = "acceptance" -> "boiler"
                                  [] i = "responses" -> "brief"
                                  [] OTHER -> "tbd"]]
KsiScaffold ==
  [impl |-> {"tbd"}, persistent |-> FALSE, tests |-> {}, evidence |-> FALSE,
   item |-> [i \in KsiItem |->
     IF i \in {"reason", "customerRisk", "cycle"} THEN "absent" ELSE "tbd"]]
OneScaffold == RuleScaffold         \* mutant: the fields of a rule for a KSI
Scaffold == IF subject = "rule" THEN RuleScaffold ELSE KsiScaffold

RuleFinished ==
  [followed |-> TRUE, impl |-> {"text"}, artifact |-> "real",
   item |-> [RuleScaffold.item EXCEPT
     !["risk"] = "text", !["verification"] = "text", !["validation"] = "text",
     !["independentVerification"] = "text", !["owner"] = "text",
     !["independentValidation"] = "text", !["responses"] = "text"]]
KsiFinished ==
  [impl |-> {"text"}, persistent |-> TRUE, tests |-> Methods,
   evidence |-> TRUE,
   item |-> [i \in KsiItem |->
     CASE i \in {"reason", "customerRisk", "cycle"} -> "absent"
       [] i \in {"last30Days", "upToOneYear"} -> "claim"
       [] OTHER -> "text"]]

NoHistory == [daily |-> "absent", series |-> [m \in Methods |-> "unseen"],
              multi |-> FALSE]
FullHistory == [daily |-> "month", series |-> [m \in Methods |-> "fresh"],
                multi |-> TRUE]

\* A rule is due an artifact from some class upwards, or, when it is an
\* optional (MAY) rule the provider selected, at Class A alone (VER-TFR-MRH)
\* or at A and B (CMU-CSO-UVM).
Init ==
  /\ subject \in Subject
  /\ focus \in Focuses[subject]
  /\ due \in {{}, {"c"}, {"b", "c"}, Class, {"a"}, {"a", "b"}}
  /\ store \in {NoRecord, IF subject = "rule" THEN RuleFinished
                          ELSE KsiFinished}
  /\ history \in {NoHistory, FullHistory}
  /\ subject = "ksi" => due = {}
  /\ subject = "rule" => history = NoHistory
  /\ built = FALSE

-----------------------------------------------------------------------------
(* What people do.                                                         *)

Write(r) ==
  /\ store # NoRecord
  /\ store' = r
  /\ built' = FALSE
  /\ UNCHANGED <<subject, due, focus, history>>

Edit(i) ==
  /\ i \in focus
  /\ \E w \in Vocabulary[i] : Write([store EXCEPT !.item[i] = w])

Narrate ==
  /\ "impl" \in focus
  /\ \E ws \in ImplLists : Write([store EXCEPT !.impl = ws])

Decide ==
  /\ "followed" \in focus
  /\ Write([store EXCEPT !.followed = ~@])

AttachArtifact ==
  /\ "artifact" \in focus
  /\ \E a \in {"none", "placeholder", "real"} :
       Write([store EXCEPT !.artifact = a])

AttachEvidence ==
  /\ "evidence" \in focus
  /\ Write([store EXCEPT !.evidence = ~@])

Persist ==
  /\ "persistent" \in focus
  /\ Write([store EXCEPT !.persistent = ~@])

Declare(t) ==
  /\ "tests" \in focus
  /\ Write([store EXCEPT !.tests = (@ \cup {t}) \ (@ \cap {t})])

-----------------------------------------------------------------------------
(* What happens to the history.                                            *)

\* The average of a window moves: a summary written as numbers may stop
\* agreeing with it, or agree again.
Moved(w) == IF w \in {"claim", "wrong"} THEN {"claim", "wrong"} ELSE {w}
HistoryMoves(h) ==
  /\ subject = "ksi" /\ "history" \in focus /\ store # NoRecord
  /\ history' = h
  /\ \E last \in Moved(store.item["last30Days"]),
        year \in Moved(store.item["upToOneYear"]) :
       store' = [store EXCEPT !.item["last30Days"] = last,
                              !.item["upToOneYear"] = year]
  /\ built' = FALSE
  /\ UNCHANGED <<subject, due, focus>>

\* append_metrics: the checks of ms answered today, or one without an id.
Collect(ms) ==
  HistoryMoves([daily |-> "month",
                series |-> [m \in Methods |->
                  IF m \in ms THEN "fresh" ELSE history.series[m]],
                multi |-> history.multi \/ Cardinality(ms) > 1])

\* Months without a collection.
Older == [absent |-> "absent", month |-> "year", year |-> "old",
          old |-> "old", unseen |-> "unseen", fresh |-> "stale",
          stale |-> "old"]
Age ==
  /\ history.daily # "old"
  /\ HistoryMoves([history EXCEPT
       !.daily = Older[@],
       !.series = [m \in Methods |-> Older[history.series[m]]]])

-----------------------------------------------------------------------------
(* build_sdr.py: scaffold the entries and fields the store lacks, then     *)
(* copy the store into the SDR.                                            *)

\* Mutant: the fields of the entries there are, and no new entries.
BackfillOnly(r) ==
  IF r = NoRecord THEN NoRecord
  ELSE [r EXCEPT !.item = [i \in DOMAIN r.item |->
          IF r.item[i] = "absent" THEN Scaffold.item[i] ELSE r.item[i]]]
MergeScaffold(r) ==
  IF r = NoRecord THEN Scaffold
  ELSE [r EXCEPT !.item = [i \in DOMAIN r.item |->
          IF r.item[i] = "absent" THEN Scaffold.item[i] ELSE r.item[i]]]

Build ==
  /\ store' = MergeScaffold(store)
  /\ built' = TRUE
  /\ UNCHANGED <<subject, due, focus, history>>

Next ==
  \/ \E i \in RuleItem \cup KsiItem : Edit(i)
  \/ Narrate \/ Decide \/ AttachArtifact \/ AttachEvidence \/ Persist
  \/ \E t \in TestKind : Declare(t)
  \/ \E ms \in SUBSET Methods : Collect(ms)
  \/ Age
  \/ Build

Spec == Init /\ [][Next]_vars

-----------------------------------------------------------------------------
(* The verdicts on the current record.                                     *)

\* The entry in the SDR once it is built.
Entry == IF store = NoRecord THEN Scaffold
         ELSE IF subject = "rule" THEN SubmittedRule(store)
         ELSE SubmittedKsi(store, history)

\* Preflight goes over the records of the store.
GateGaps(c) == IF store = NoRecord THEN {}
               ELSE IF subject = "rule" THEN FrrGaps(store, c \in due)
               ELSE KsiGaps(store, history, c)

Failures(c) == IF subject = "rule" \/ store = NoRecord THEN {}
               ELSE ValidatorFailures(Entry, store.tests, c)

\* The requirement holds up neither the build nor the submission.
ReadyAt(c) == built /\ GateGaps(c) = {} /\ Failures(c) = {}

\* A text an assessor can read as the provider's answer.
Real(w) == w \in {"brief", "partial", "text", "claim", "wrong"}
SomeReal(ws) == \E w \in ws : Real(w)

RuleTold(s, c) ==
  /\ s.followed => SomeReal(s.impl) /\ (c \in due => s.artifact = "real")
  /\ ~s.followed => /\ SomeReal(s.impl) \/ Real(s.item["reason"])
                    /\ Real(s.item["risk"])
  /\ \/ Real(s.item["verification"]) /\ Real(s.item["validation"])
     \/ ~s.followed /\ Real(s.item["acceptance"])
  /\ \A i \in {"independentVerification", "independentValidation",
               "responses"} : Real(s.item[i])

MeasuresTold(s) == SomeReal(s.impl) \/ Real(s.item["measures"])
KsiTold(s, c) ==
  /\ \/ MeasuresTold(s)
     \/ Real(s.item["reason"]) /\ Real(s.item["risk"])
  /\ MeasuresTold(s) /\ s.persistent => Real(s.item["operatingCycle"])
  /\ \A i \in {"measuresVerification", "automationVerification",
               "validation"} : Real(s.item[i])
  /\ c = "c" => Real(s.item["last30Days"]) /\ Real(s.item["upToOneYear"])

Told(c) == IF subject = "rule" THEN RuleTold(Entry, c) ELSE KsiTold(Entry, c)

(* Whatever the gates let through is in the submitted SDR: for a           *)
(* requirement nothing holds up, every information item FedRAMP asks of it *)
(* is there in the provider's words.  Nothing passes the gate in a field   *)
(* the builder does not emit, as an unaccepted draft, or because the store *)
(* has no record of the requirement to look at.                            *)
AnswersAreSubmitted == \A c \in Class : ReadyAt(c) => Told(c)

(* The header of validation/scripts/test_sdr_semantic_roundtrip.py: "every *)
(* information item FedRAMP requires ... survives the trip from the        *)
(* editable record store, through the generated official JSON".  So for a  *)
(* KSI without measures that is ready, the risk to customers the gate      *)
(* found in the record is in the SDR.                                      *)
RiskIsSubmitted ==
  \A c \in Class :
    /\ subject = "ksi" /\ store # NoRecord /\ ReadyAt(c)
    /\ ~HasMeasures(store)
    => Real(Entry.item["risk"])

(* A Class C KSI whose implementation is authored to the end, whose tests  *)
(* all carry real method ids or none, and that is in the metric history is *)
(* ready only with the class minimum of distinct methods that have a       *)
(* recent point: the build gate counts what is declared, preflight binds   *)
(* what is declared, and neither alone suffices.                           *)
EnoughMethodsWork ==
  /\ subject = "ksi" /\ store # NoRecord /\ ReadyAt("c")
  /\ Populated(store.impl) /\ "TBD id" \notin store.tests
  /\ history.daily # "absent"
  => Cardinality(Working(store, history)) >= MinMethods["c"]

(* The scanner and the gate agree in the direction that matters: when      *)
(* every check of a rule passes, with no question left to a person, and an *)
(* artifact is not a placeholder, preflight has no gap to report on it;    *)
(* and of a KSI no gap in the five SDR-CSX-KSI items.                      *)
ScannerIsStricter ==
  store # NoRecord =>
    /\ subject = "rule" /\ AllPass(RuleFindings(store))
         /\ store.artifact = "real"
       => \A c \in Class : FrrGaps(store, c \in due) = {}
    /\ \A c \in Class :
         subject = "ksi" /\ AllPass(KsiFindings(store, history, c))
         => NarrativeGaps(store) = {}

(* Moving a package to a lower class raises no new objection but one: a    *)
(* requirement that is ready at Class C is ready at Class B, and one ready *)
(* at Class B is ready at Class A, unless it is a rule the lower class     *)
(* demands an artifact of and the higher does not.                         *)
NoNewObjection(low, high) ==
  ReadyAt(high) =>
    /\ Failures(low) = {}
    /\ GateGaps(low) \subseteq
         {g \in {"artifact"} : low \in due /\ high \notin due}
HigherClassIsStricter == NoNewObjection("b", "c") /\ NoNewObjection("a", "b")
=============================================================================
