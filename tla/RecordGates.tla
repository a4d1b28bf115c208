---------------------------- MODULE RecordGates ----------------------------
(***************************************************************************)
(* What it takes for one requirement, a FedRAMP rule or a Key Security     *)
(* Indicator (KSI), to count as answered.  Three programs judge the same   *)
(* record of sdr/records/records-store.json, each with code of its own:    *)
(*                                                                         *)
(*   sdr.py preflight   the release gate: the gaps of the record           *)
(*   validate_sdr.py    the build gate: coverage, automated methods,       *)
(*                      evidence, on the submitted SDR                     *)
(*   sdrscan            the readiness scanner: one finding per check       *)
(*                                                                         *)
(* and build_sdr.py copies the record into the SDR that is submitted.      *)
(* This module holds the judges as operators on a record; RecordWork the   *)
(* people and programs that change it.                                     *)
(*                                                                         *)
(* A text is abstracted to its kind, the weakest difference any judge can  *)
(* see in it:                                                              *)
(*   absent   no such field, or an empty one                               *)
(*   tbd      the template's placeholder                                   *)
(*   draft    labelled "DRAFT (" or "Example": nobody has accepted it      *)
(*   boiler   what the template says of an item that does not apply:       *)
(*            "Not required: rule is followed"                             *)
(*   brief    "None recorded", "Planned for ...", "Not applicable: small": *)
(*            a reason for the gate, a placeholder for the scanner         *)
(*   partial  a narrative with a TBD inside it                             *)
(*   text     a narrative                                                  *)
(*   claim    a metric summary as numbers, those of the metric history     *)
(*   wrong    a metric summary as numbers, other ones                      *)
(***************************************************************************)
EXTENDS Naturals, FiniteSets

CONSTANTS Methods,     \* the method ids of automated tests
          MinMethods   \* per class, the least number of automated methods

ASSUME MethodsAssumption == IsFiniteSet(Methods)
ASSUME MinMethodsAssumption == MinMethods \in [{"a", "b", "c"} -> Nat]

Class == {"a", "b", "c"}
Words == {"absent", "tbd", "draft", "boiler", "brief", "partial", "text",
          "claim", "wrong"}

Answered(w) == w \in {"boiler", "brief", "partial", "text", "claim", "wrong"}
StatedUnlessMarked(w) == w \notin {"absent", "tbd"}  \* mutant: drafts count
Stated(w) == w \in {"boiler", "partial", "text", "claim", "wrong"}
SomeAnswered(ws) == \E w \in ws : Answered(w)
SomeStated(ws)   == \E w \in ws : Stated(w)

\* Nothing in the list is a marker or an unaccepted proposal.
Populated(ws) == ws \cap {"tbd", "draft", "partial"} = {}

(***************************************************************************)
(* The records.  impl is the set of the kinds in the list implementation,  *)
(* item the single-valued fields, artifact the best of rule_artifacts.  Of *)
(* a KSI's tests the model keeps the method ids, and whether there is an   *)
(* automated one without an id or with a placeholder for one.              *)
(***************************************************************************)
RuleItem == {"reason", "risk", "verification", "validation", "acceptance",
             "independentVerification", "independentValidation", "responses",
             "owner"}
KsiItem  == {"measures", "reason", "risk", "customerRisk", "operatingCycle",
             "cycle", "measuresVerification", "automationVerification",
             "validation", "assessment", "owner", "last30Days",
             "upToOneYear"}
TestKind == Methods \cup {"no id", "TBD id"}

RuleRecord == [followed : BOOLEAN, impl : SUBSET Words,
               item : [RuleItem -> Words],
               artifact : {"none", "placeholder", "real"}]
KsiRecord  == [impl : SUBSET Words, item : [KsiItem -> Words],
               persistent : BOOLEAN, tests : SUBSET TestKind,
               evidence : BOOLEAN]

\* The metric history of the KSI: whether it has an entry and how old the
\* newest daily point is, the newest point of each method's own series, and
\* whether some day counted more than one check.
History == [daily  : {"absent", "month", "year", "old"},
            series : [Methods -> {"unseen", "fresh", "stale", "old"}],
            multi  : BOOLEAN]

Keyed(h)  == {m \in Methods : h.series[m] # "unseen"}
InYear(h) == h.daily \in {"month", "year"}

-----------------------------------------------------------------------------
(* sdr.py preflight.  due: the pinned dataset demands an artifact for the  *)
(* rule at the class.                                                      *)

ReasonGiven(r) == Answered(r.item["reason"]) \/ SomeAnswered(r.impl)
AcceptedByOfficial(r) ==
  Answered(r.item["acceptance"]) /\ r.item["acceptance"] # "boiler"
VerifiedAndValidated(r) ==
  Answered(r.item["verification"]) /\ Answered(r.item["validation"])

FrrGaps(r, due) ==
  LET followedGaps ==
        {g \in {"implementation"} : ~SomeAnswered(r.impl)}
          \cup {i \in {"verification", "validation"} : ~Answered(r.item[i])}
          \cup {g \in {"artifact"} : due /\ r.artifact # "real"}
      notFollowedGaps ==
        {i \in {"reason"} : ~ReasonGiven(r)}
          \cup {i \in {"risk"} : ~Answered(r.item[i])}
          \cup {g \in {"verification"} :
                  ~(VerifiedAndValidated(r) \/ AcceptedByOfficial(r))}
  IN  (IF r.followed THEN followedGaps ELSE notFollowedGaps)
        \cup {i \in {"independentVerification", "independentValidation",
                     "responses"} : ~Answered(r.item[i])}

HasMeasures(k) == SomeAnswered(k.impl) \/ Answered(k.item["measures"])
RiskGiven(k) == Answered(k.item["risk"]) \/ Answered(k.item["customerRisk"])
OperatingCycle(k) == IF k.item["operatingCycle"] # "absent"
                     THEN k.item["operatingCycle"] ELSE k.item["cycle"]

NarrativeGaps(k) ==
  {i \in {"measuresVerification", "automationVerification", "validation"} :
     ~Answered(k.item[i])}
    \cup {i \in {"reason"} : ~HasMeasures(k) /\ ~Answered(k.item[i])}
    \cup {i \in {"risk"} : ~HasMeasures(k) /\ ~RiskGiven(k)}
    \cup {i \in {"operatingCycle"} :
            HasMeasures(k) /\ k.persistent /\ ~Answered(OperatingCycle(k))}

\* A KSI whose history shows more than one metric summarises each of them.
PerMetricGap(h) ==
  /\ h.daily # "absent"
  /\ h.multi \/ Cardinality(Keyed(h)) > 1
  /\ Keyed(h) = {} \/ \E m \in Keyed(h) : h.series[m] = "old"

Declared(k) == k.tests \cap Methods
Working(k, h) == {m \in Declared(k) : h.series[m] = "fresh"}
Lesser(x, y) == IF x < y THEN x ELSE y

\* The class minimum of the declared methods, at most all of them, must have
\* a point within their cadence.
BindingGap(k, h, c) ==
  /\ h.daily # "absent"
  /\ Cardinality(Working(k, h))
       < Lesser(MinMethods[c], Cardinality(Declared(k)))

MetricGaps(k, h) ==
  {i \in {"last30Days", "upToOneYear"} : ~Answered(k.item[i])}
    \cup {g \in {"perMetric"} : PerMetricGap(h)}
DailyGap(h) == h.daily = "old"

\* A summary written by hand disagrees with the history of its window.
Contradicts(k, h) ==
  \/ k.item["last30Days"] = "wrong" /\ h.daily = "month"
  \/ k.item["upToOneYear"] = "wrong" /\ InYear(h)

KsiGaps(k, h, c) ==
  NarrativeGaps(k)
    \cup {g \in {"contradiction"} : c \in {"b", "c"} /\ Contradicts(k, h)}
    \cup (IF c = "c"
          THEN MetricGaps(k, h) \cup {g \in {"daily"} : DailyGap(h)}
                 \cup {g \in {"binding"} : BindingGap(k, h, c)}
          ELSE {})

-----------------------------------------------------------------------------
(* build_sdr.py: the entry of the requirement in the submitted SDR.        *)

OrTbd(w) == IF w = "absent" THEN "tbd" ELSE w
OrBoiler(w) == IF w = "absent" THEN "boiler" ELSE w

SubmittedRule(r) ==
  [r EXCEPT !.item = [i \in RuleItem |->
     IF i \in {"reason", "acceptance", "responses"} THEN OrBoiler(r.item[i])
     ELSE OrTbd(r.item[i])]]

\* The summaries come from the history when it has a point within the year.
SubmittedKsi(k, h) ==
  [k EXCEPT !.item = [i \in KsiItem |->
     CASE i = "reason" -> OrBoiler(k.item[i])
       [] i = "risk" -> OrTbd(IF k.item[i] # "absent" THEN k.item[i]
                              ELSE k.item["customerRisk"])
       [] i \in {"last30Days", "upToOneYear"} /\ InYear(h) -> "claim"
       [] OTHER -> OrTbd(k.item[i])]]

-----------------------------------------------------------------------------
(* validate_sdr.py, on the submitted entry s and the tests of the store.   *)

CountEveryAutomated(tests) == Cardinality(tests)     \* mutant: ids or not
CountAutomated(tests) == Cardinality(tests \ {"no id"})

\* hard: the class is the offering's own and FRC-CSX-VVK is a MUST there.
ForceOfTheClassBelow(c) == c = "b"                   \* mutant
Hard(c) == c = "c"
TooFewMethods(s, tests, c) ==
  Populated(s.impl) /\ CountAutomated(tests) < MinMethods[c]
NoEvidence(s) == Populated(s.impl) /\ ~s.evidence
ValidatorFailures(s, tests, c) ==
  {g \in {"ksi_test_minimums"} : Hard(c) /\ TooFewMethods(s, tests, c)}
    \cup {g \in {"evidence_linkage"} : Hard(c) /\ NoEvidence(s)}

-----------------------------------------------------------------------------
(* sdrscan: what each check of a requirement finds.  It reads the SDR and  *)
(* its extensions companion, which copies the record as it is.             *)

PassIf(p) == IF p THEN "PASS" ELSE "FAIL"
PassOrAsk(p) == IF p THEN "PASS" ELSE "MANUAL"

RuleFindings(r) ==
  [implementation |-> PassIf(SomeStated(r.impl)),
   reason |-> PassIf(\/ r.followed
                     \/ Stated(r.item["reason"]) \/ SomeStated(r.impl)),
   risk |-> PassIf(r.followed \/ Stated(r.item["risk"])),
   verification |-> PassIf(Stated(r.item["verification"])),
   validation |-> PassIf(Stated(r.item["validation"])),
   independentVerification |->
     PassIf(Stated(r.item["independentVerification"])),
   independentValidation |-> PassIf(Stated(r.item["independentValidation"])),
   responses |-> PassOrAsk(Stated(r.item["responses"])),
   artifacts |-> PassOrAsk(r.artifact # "none"),
   acceptance |-> PassIf(\/ r.followed
                         \/ /\ Stated(r.item["acceptance"])
                            /\ r.item["acceptance"] # "boiler"),
   owner |-> PassIf(Stated(r.item["owner"]))]

\* The scanner's own counter: an automated test without an id counts too.
ScannedMethods(tests) == Cardinality(tests)

KsiFindings(k, h, c) ==
  [measures |-> PassIf(SomeStated(k.impl)),
   operatingCycle |-> PassOrAsk(Stated(k.item["operatingCycle"])),
   measuresVerification |-> PassIf(Stated(k.item["measuresVerification"])),
   automationVerification |->
     PassIf(Stated(k.item["automationVerification"])),
   validation |-> PassIf(Stated(k.item["validation"])),
   assessment |-> PassIf(Stated(k.item["assessment"])),
   methods |-> PassIf(ScannedMethods(k.tests) >= MinMethods[c]),
   evidence |-> PassIf(k.evidence),
   last30Days |->
     IF c = "a" THEN "PASS"
     ELSE IF c = "b" THEN PassOrAsk(Stated(k.item["last30Days"]))
     ELSE PassIf(Stated(k.item["last30Days"])),
   upToOneYear |->
     IF c = "a" THEN "PASS" ELSE PassOrAsk(Stated(k.item["upToOneYear"])),
   daily |-> PassIf(c # "c" \/ InYear(h)),
   owner |-> PassIf(Stated(k.item["owner"]))]

AllPass(findings) == \A f \in DOMAIN findings : findings[f] = "PASS"
=============================================================================
