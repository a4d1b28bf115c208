----------------------------- MODULE Readiness -----------------------------
(***************************************************************************)
(* Is the package ready for submission?  sdr.py preflight answers from the *)
(* offering profile, the metric history and the evidence as they are on    *)
(* the day it runs, while the signoff covers the package as it was built.  *)
(* People answer the profile with sdr.py init and by hand, the collector   *)
(* observes the KSIs, the provider verifies, builds and signs, and the     *)
(* days go by.                                                             *)
(*                                                                         *)
(* A date is known by its age in days, a negative one if it lies ahead, in *)
(* a set that is empty while the date is not set.  Every day everything is *)
(* a day older; what is older than a year stays so, at age Old.            *)
(***************************************************************************)
EXTENDS Integers, FiniteSets, FiniteSetsExt

CONSTANTS
  KSIs,        \* the KSIs in scope
  Ahead,       \* how many days ahead of today a typed date may lie
  Week,        \* FRC-APP-FCP: the provider's verification, 7 days
  Month,       \* a 30-day metric summary
  Gap,         \* the longest silence of a metric series, 45 days
  Quarter,     \* FRC-APP-FIA: an assessment is fresh, 3 months
  NineMonths,  \* FRC-APP-USA: it can be freshened
  Expiry,      \* twice the evidence freshness policy of 90 days
  Year,        \* FRC-CLA-ASF, IVV-CSO-FIA and SDR-CSX-KMT
  Cases        \* classes, optional rules opted into, and what changes

ASSUME DurationsAssumption ==
  /\ {Ahead, Week, Month, Gap, Quarter, NineMonths, Expiry, Year} \subseteq Nat
  /\ 1 <= Gap /\ Quarter <= NineMonths
  /\ \A d \in {Ahead, Week, Month, Gap, NineMonths, Expiry} : d < Year

ASSUME KSIsAssumption == KSIs # {}

Old == Year + 1
Lapsed == Week + Ahead + 1   \* a signoff grows no older than this
Age == (-Ahead)..Old

(* The profile, by kinds of answers: tbd is a marker, an unaccepted draft or
   nothing; bare is N/A or the like; reasoned is N/A with a reason; naName is
   a real name whose first letters are n and a; real is any other answer. *)
Word == {"tbd", "bare", "reasoned", "naName", "real"}

(* offering, contact, purpose, guide, assessor and framework stand for the
   fields the contract treats alike; metadata for the four CPO-CSO-MTD items;
   materials for the list FRC-CLA-EAM demands; reviewer for the identities and
   the basis of a freshening review. *)
UrlField == {"guide", "statusPage", "framework"}
Field == UrlField \cup
  {"offering", "contact", "purpose", "assessor", "fiaName", "fiaId", "osa",
   "metadata", "materials", "ivvSummary", "historyDays", "standby",
   "reviewer"}
DateField == {"verified", "external", "assessed", "freshened", "since"}
Class == {"a", "b", "c"}
Optional == {"FRC-APP-FIA", "IVV-CSO-FIA", "SDR-CSX-KMT"}

ASSUME CasesAssumption ==
  \A c \in Cases : c.class \in Class /\ c.selected \subseteq Optional

VARIABLES
  class, selected,  \* the class, and the optional rules opted into
  focus,            \* what people and programs change
  answers, dates,   \* the offering profile
  agreed,           \* the commitment of the SDR-CSX-KMT note is complete
  claims,           \* the metric summaries the records state
  series,           \* per KSI, the ages of its observations
  evidence,         \* the ages of the dated evidence behind a record
  current,          \* the manifest lists the sources as they are
  shown,            \* the verification date the manifest shows
  signoff,          \* the age of the approved signoff
  signed,           \* the verification date the signed manifest showed
  bound             \* it is for the manifest as it is

package == <<current, shown, signoff, signed, bound>>
vars == <<class, selected, focus, answers, dates, agreed, claims, series,
          evidence, package>>

(* The collector and preflight go by the same clock: no observation is of a
   day that has not come for the gates. *)
TypeOK ==
  /\ class \in Class
  /\ selected \subseteq Optional
  /\ \E c \in Cases : focus = c.focus /\ class = c.class
  /\ answers \in [Field -> Word]
  /\ dates \in [DateField -> SUBSET Age]
  /\ \A d \in DateField : Cardinality(dates[d]) <= 1
  /\ claims \subseteq {"month", "year"}
  /\ series \in [KSIs -> SUBSET (0..Old)]
  /\ evidence \subseteq 0..Old
  /\ shown \subseteq Age /\ signed \subseteq Age
  /\ signoff \subseteq 0..Lapsed
  /\ {agreed, current, bound} \subseteq BOOLEAN

-----------------------------------------------------------------------------
(* What counts as an answer.  profile_contract.py and sdr.py have the same *)
(* three predicates, but not the same code for the strictest one.          *)

Tbd(f)    == answers[f] = "tbd"
Hollow(f) == answers[f] \in {"tbd", "bare"}
MissingIdentity(f)         == answers[f] \in {"tbd", "bare", "reasoned"}
MissingRequiredIdentity(f) == answers[f] # "real"

Opted(r) == class = "a" /\ r \in selected
Assessed == class \in {"b", "c"} \/ Opted("FRC-APP-FIA")
Exists(d) == dates[d] # {}
Between(S, lo, hi) == \E a \in S : lo <= a /\ a <= hi

\* profile_contract.py: what sdr.py init still asks for.
RequiredAt(f) ==
  CASE f = "guide" -> class # "a"
    [] f = "assessor" -> Assessed
    [] OTHER -> TRUE
RequiredGaps ==
  {f \in {"offering", "contact", "guide", "assessor"} :
     RequiredAt(f) /\ MissingIdentity(f)} \cup {f \in {"purpose"} : Hollow(f)}
ClassGaps ==
  {d \in {"verified"} : ~Exists(d)}
    \cup (IF class = "a"
          THEN {f \in {"framework"} : MissingIdentity(f)}
                 \cup {d \in {"external"} : ~Exists(d)}
          ELSE {f \in {"fiaName", "fiaId", "statusPage"} : MissingIdentity(f)}
                 \cup {f \in {"osa", "metadata"} : Hollow(f)}
                 \cup {d \in {"assessed"} : ~Exists(d)})
Asked == {"offering", "contact", "purpose", "guide", "assessor", "verified"}
           \cup (IF class = "a" THEN {"framework", "external"}
                 ELSE {"fiaName", "fiaId", "assessed", "osa", "statusPage",
                       "metadata"})

-----------------------------------------------------------------------------
(* The gates of sdr.py preflight, each as the set of its blockers.         *)

SummaryGate ==
  {f \in {"osa"} : (class # "a" \/ Opted("IVV-CSO-FIA")) /\ Hollow(f)}
AvailabilityGate ==
  IF class = "a" THEN {}
  ELSE {f \in {"statusPage", "historyDays"} : Tbd(f)}
         \cup {f \in {"standby"} : answers[f] # "real"}
\* On the generated overview, which shows the profile as it was built.
CpoGate ==
  {f \in {"contact", "metadata"} :
     (f = "metadata" => class # "a") /\ MissingRequiredIdentity(f)}
\* The generated guide is a scaffold; the real one must be referenced.
ComponentGate == {f \in {"guide"} : class # "a" /\ Tbd(f)}
ProfileGate ==
  RequiredGaps \cup SummaryGate \cup AvailabilityGate \cup CpoGate
    \cup ComponentGate

VerificationGate == {d \in {"verified"} : ~Between(dates[d], 0, Week)}

ExternalGate ==
  IF class # "a" THEN {}
  ELSE IF Tbd("framework") \/ ~Exists("external") THEN {"external"}
  ELSE {f \in {"framework", "materials"} : answers[f] # "real"}
         \cup {d \in {"external"} : ~Between(dates[d], 0, Year)}

AnyAssessor ==   \* mutant: a non-answer names an assessor
  IF Tbd("fiaName") \/ ~Exists("assessed") THEN {"fiaName"}
  ELSE {f \in {"fiaId"} : Tbd(f)}
\* The assessor and his FedRAMP recognition, one missing at a time.
AssessorGap ==
  IF MissingRequiredIdentity("fiaName") \/ ~Exists("assessed") THEN {"fiaName"}
  ELSE {f \in {"fiaId"} : MissingRequiredIdentity(f)}

Freshened ==
  /\ ~MissingRequiredIdentity("reviewer")
  /\ \E a \in dates["assessed"] : Between(dates["freshened"], 0, a)
FreshAssessment ==
  \/ Between(dates["assessed"], 0, Quarter)
  \/ Between(dates["assessed"], 0, NineMonths) /\ Freshened

AssessmentGate ==
  (IF ~Assessed THEN {}
   ELSE IF AssessorGap # {} THEN AssessorGap
   ELSE {d \in {"assessed"} : ~FreshAssessment})
  \cup
  (IF ~Opted("IVV-CSO-FIA") THEN {}
   ELSE {f \in {"ivvSummary"} : Hollow(f)}
          \cup (IF AssessorGap # {} THEN AssessorGap
                ELSE {d \in {"assessed"} : ~Between(dates[d], 0, Year)}))

-----------------------------------------------------------------------------
(* SDR-CSX-KMT: the metric history.                                        *)

Eligible == \E a \in dates["since"] : 0 <= a /\ a < Year
Committed == agreed /\ Eligible
Covers(k) == \E a \in series[k] : a >= Year
EvalStart(k) == IF Covers(k) THEN Year ELSE Max(series[k])
Window(k) == {a \in series[k] : a <= EvalStart(k)}
Steps(S) == {a - Max({b \in S : b < a}) : a \in S \ {Min(S)}}

GappyInside(win, start) ==   \* mutant: the leading gap is not measured (F06)
  \/ Cardinality(win) < 2
  \/ \E s \in Steps(win) \cup {Min(win)} : s > Gap
\* mot_continuity: between observations, before the first, after the last.
Gappy(win, start) ==
  \/ Cardinality(win) < 2
  \/ \E s \in Steps(win) \cup {start - Max(win), Min(win)} : s > Gap

Missing == {k \in KSIs : series[k] = {}}
Observed == KSIs \ Missing
OfferingShort ==
  LET since == IF Exists("since") THEN dates["since"]
               ELSE UNION {series[k] : k \in KSIs}
  IN  since # {} /\ \A a \in since : a < Year
Uncorrelated(k) == "month" \in claims /\ ~Between(series[k], 0, Month)

\* The gate when the commitment of the rule's note does not apply.
HistoryBlockers ==
  {b \in {"absent"} : Missing # {}}
    \cup {b \in {"short"} : OfferingShort /\ \E k \in Observed : ~Covers(k)}
    \cup {b \in {"gappy"} :
            \E k \in Observed : Gappy(Window(k), EvalStart(k))}
    \cup {b \in {"uncorrelated"} : \E k \in Observed : Uncorrelated(k)}

HistoryGate ==
  CASE class = "c" ->
         {b \in {"since"} : Exists("since") /\ ~Eligible}
           \cup (IF Committed
                 THEN {b \in {"silent"} :
                         \E k \in KSIs : ~Between(series[k], 0, Gap)}
                 ELSE HistoryBlockers)
    [] Opted("SDR-CSX-KMT") ->
         {b \in {"window"} : \A k \in KSIs : ~Between(series[k], 0, Year)}
    [] OTHER -> {}

\* A record is backed only by expired evidence: a blocker at Class C.
EvidenceGate ==
  {b \in {"expired"} : class = "c" /\ evidence # {}
                         /\ \A a \in evidence : a > Expiry}

\* Approved, and for the bytes of the manifest, not only for its tag.
TagOnly == {b \in {"signoff"} : signoff = {}}   \* mutant
SignoffGate == {b \in {"signoff"} : signoff = {} \/ ~bound}

\* Of the validation gate: validate_package_consistency.py.
ValidationGate == {b \in {"validation"} : ~current}

PackageBlockers ==
  ProfileGate \cup VerificationGate \cup ExternalGate \cup AssessmentGate
    \cup HistoryGate \cup EvidenceGate \cup SignoffGate \cup ValidationGate
PackageReady == PackageBlockers = {}

-----------------------------------------------------------------------------
Older(S) == {Min({a + 1, Old}) : a \in S}

(* What is out of focus does no harm: fields are answered, dates recent, the
   history whole.  Only the provider's verification is always dated. *)
Init ==
  /\ \E c \in Cases :
       class = c.class /\ selected = c.selected /\ focus = c.focus
  /\ answers = [f \in Field |-> IF f \in focus THEN "tbd" ELSE "real"]
  /\ dates = [d \in DateField |-> IF d \in focus \cup {"since"} THEN {} ELSE {0}]
  /\ claims \in (IF "series" \in focus THEN {{}, {"month"}} ELSE {{}})
  /\ series = [k \in KSIs |-> IF "series" \in focus THEN {} ELSE 0..Old]
  /\ evidence = {}
  /\ shown = {} /\ signed = {} /\ signoff = {}
  /\ agreed = FALSE
  /\ current = FALSE
  /\ bound = FALSE

\* What the manifest lists is no longer what it listed.
Changes == current' = FALSE /\ UNCHANGED <<shown, signoff, signed, bound>>

\* sdr.py init, or an editor where the wizard does not ask.
Answer(f, w) ==
  /\ f \in focus /\ w # answers[f]
  /\ f \in UrlField \cap Asked => w \in {"tbd", "bare", "real"}
  /\ answers' = [answers EXCEPT ![f] = w]
  /\ Changes
  /\ UNCHANGED <<class, selected, focus, dates, agreed, claims, series,
                 evidence>>

SetDate(d, a) ==
  /\ d \in focus /\ dates[d] # {a}
  /\ dates' = [dates EXCEPT ![d] = {a}]
  /\ Changes
  /\ UNCHANGED <<class, selected, focus, answers, agreed, claims, series,
                 evidence>>

\* The provider records the commitment of the rule's note, or takes it back.
Commit ==
  /\ "agreed" \in focus
  /\ agreed' = ~agreed
  /\ Changes
  /\ UNCHANGED <<class, selected, focus, answers, dates, claims, series,
                 evidence>>

(* A collection observes some KSIs and may prune what is older than 400 days.
   The manifest lists the metric history at Class C only. *)
Observe(K, today) ==
  /\ "series" \in focus
  /\ \E gone \in {{}, {Old}} :
       series' = [k \in KSIs |-> IF k \in K THEN (series[k] \ gone) \cup {today}
                                ELSE series[k]]
  /\ IF class = "c" THEN Changes ELSE UNCHANGED package
  /\ UNCHANGED <<class, selected, focus, answers, dates, agreed, claims,
                 evidence>>
CollectAhead(K) == Observe(K, -1)   \* mutant: the local day (F10)
Collect(K) == Observe(K, 0)

\* New evidence is added, or replaces what was there.
CollectEvidence ==
  /\ "evidence" \in focus
  /\ evidence' \in {evidence \cup {0}, {0}}
  /\ Changes
  /\ UNCHANGED <<class, selected, focus, answers, dates, agreed, claims,
                 series>>

(* sdr.py build: from the sources the signed manifest was built from, changed
   back or never changed, comes the same manifest, unless an artifact shows the
   day.  Of the sources only the verification date is compared here. *)
Build ==
  /\ current' = TRUE
  /\ shown' = dates["verified"]
  /\ bound' \in {FALSE, signoff # {} /\ signed = dates["verified"]}
  /\ UNCHANGED <<class, selected, focus, answers, dates, agreed, claims,
                 series, evidence, signoff, signed>>

\* The provider's officer signs the manifest that is there.
Sign ==
  /\ signoff' = {0}
  /\ signed' = shown
  /\ bound' = TRUE
  /\ UNCHANGED <<class, selected, focus, answers, dates, agreed, claims,
                 series, evidence, current, shown>>

\* A verification out of focus is renewed every day, a change of the profile
\* after which no manifest shows its date any more.
NewDay ==
  /\ dates' = [d \in DateField |-> IF d \in focus THEN Older(dates[d]) ELSE dates[d]]
  /\ series' = IF "series" \in focus THEN [k \in KSIs |-> Older(series[k])] ELSE series
  /\ evidence' = Older(evidence)
  /\ signoff' = {Min({a + 1, Lapsed}) : a \in signoff}
  /\ IF "verified" \in focus
       THEN shown' = Older(shown) /\ signed' = Older(signed) /\ UNCHANGED current
       ELSE shown' = {} /\ signed' = {} /\ current' = FALSE
  /\ UNCHANGED <<class, selected, focus, answers, agreed, claims, bound>>

Next ==
  \/ \E f \in Field, w \in Word : Answer(f, w)
  \/ \E d \in DateField, a \in (-Ahead)..0 : SetDate(d, a)
  \/ Commit
  \/ \E K \in SUBSET KSIs \ {{}} : Collect(K)
  \/ CollectEvidence
  \/ Build
  \/ Sign
  \/ NewDay

Spec == Init /\ [][Next]_vars

-----------------------------------------------------------------------------
(* Properties.                                                             *)

(* A Class C package that is ready without the commitment shows the status of
   some KSI over the whole year, and of every KSI since it was first observed
   or for a year: never as many days as the tolerance in a row without an
   observation, the first and the last day aside.  FRD-PER's "always known",
   said without the gaps that sdr.py's mot_continuity measures. *)
Known(k) ==
  \A a \in 1..(Min({Year, Max(series[k])}) - Gap) :
    Between(series[k], a, a + Gap - 1)
StatusAlwaysKnown ==
  PackageReady /\ class = "c" /\ ~Committed =>
    /\ \E k \in KSIs : Covers(k)
    /\ \A k \in KSIs : series[k] # {} /\ Known(k)

(* No gate looks at the age of the signoff; yet a ready package was signed
   within the week of the verification it shows, later by no more than the
   verification was dated ahead: a new verification is a change of the
   profile, the profile is in the manifest, and the signoff is for its bytes,
   which no build brings back but with the date they were signed with. *)
SignedWithinTheWeek == PackageReady => \A a \in signoff : a <= Week + Ahead

(* Nothing that sdr.py init asks for is open in a ready package: class_gaps
   "mirrors what package-preflight blocks on".  The status pages are excepted:
   there N/A is an answer for preflight and none for the wizard. *)
ReadyMeansFinished ==
  PackageReady => RequiredGaps \cup ClassGaps \subseteq {"statusPage"}

=============================================================================
