-------------------------- MODULE ReadinessProofs --------------------------
(***************************************************************************)
(* Theorems about Readiness: the gates of sdr.py preflight, for any number *)
(* of KSIs, any durations and any cases.                                   *)
(***************************************************************************)
EXTENDS Readiness, FiniteSetTheorems, TLAPS

-----------------------------------------------------------------------------
(* Least and greatest elements.  The library has no theorem about Min and  *)
(* Max.  That they exist follows from the well-foundedness of the strict   *)
(* inclusion of finite sets, applied to the sets below the elements of S.  *)

(* The least element of a finite set of integers is in it, and below. *)
LEMMA MinIsLeast ==
  ASSUME NEW S \in SUBSET Int, IsFiniteSet(S), S # {}
  PROVE  Min(S) \in S /\ \A y \in S : Min(S) <= y
<1> DEFINE below(x) == {y \in S : y < x}
           F == {below(x) : x \in S}
<1>1. F \subseteq FiniteSubsetsOf(S)
  <2> SUFFICES ASSUME NEW x \in S PROVE below(x) \in FiniteSubsetsOf(S)
    OBVIOUS
  <2>1. below(x) \in SUBSET S /\ IsFiniteSet(below(x))
    BY FS_Subset
  <2> QED BY <2>1 DEF FiniteSubsetsOf
<1>2. F # {} /\ IsWellFoundedOn(StrictSubsetOrdering(S), FiniteSubsetsOf(S))
  BY FS_StrictSubsetOrderingWellFounded
<1> HIDE DEF F
<1>3. PICK m \in F : \A n \in F : <<n, m>> \notin StrictSubsetOrdering(S)
  BY <1>1, <1>2, WFMin, Zenon
<1>4. PICK x \in S : m = below(x)
  BY DEF F
<1>5. ASSUME NEW y \in S, y < x PROVE FALSE
  <2>1. below(y) \in F
    BY DEF F
  <2>2. y \in below(x) /\ y \notin below(y)
    BY <1>5
  <2>3. \A z \in below(y) : z \in below(x)
    BY <1>5
  <2>4. <<below(y), below(x)>> \in StrictSubsetOrdering(S)
    BY <2>2, <2>3 DEF StrictSubsetOrdering
  <2> QED BY <2>1, <2>4, <1>3, <1>4
<1>6. \A y \in S : x <= y
  BY <1>5
<1> QED BY <1>6 DEF Min

(* The greatest element of a finite set of integers is in it, and above. *)
LEMMA MaxIsGreatest ==
  ASSUME NEW S \in SUBSET Int, IsFiniteSet(S), S # {}
  PROVE  Max(S) \in S /\ \A y \in S : Max(S) >= y
<1> DEFINE above(x) == {y \in S : y > x}
           F == {above(x) : x \in S}
<1>1. F \subseteq FiniteSubsetsOf(S)
  <2> SUFFICES ASSUME NEW x \in S PROVE above(x) \in FiniteSubsetsOf(S)
    OBVIOUS
  <2>1. above(x) \in SUBSET S /\ IsFiniteSet(above(x))
    BY FS_Subset
  <2> QED BY <2>1 DEF FiniteSubsetsOf
<1>2. F # {} /\ IsWellFoundedOn(StrictSubsetOrdering(S), FiniteSubsetsOf(S))
  BY FS_StrictSubsetOrderingWellFounded
<1> HIDE DEF F
<1>3. PICK m \in F : \A n \in F : <<n, m>> \notin StrictSubsetOrdering(S)
  BY <1>1, <1>2, WFMin, Zenon
<1>4. PICK x \in S : m = above(x)
  BY DEF F
<1>5. ASSUME NEW y \in S, y > x PROVE FALSE
  <2>1. above(y) \in F
    BY DEF F
  <2>2. y \in above(x) /\ y \notin above(y)
    BY <1>5
  <2>3. \A z \in above(y) : z \in above(x)
    BY <1>5
  <2>4. <<above(y), above(x)>> \in StrictSubsetOrdering(S)
    BY <2>2, <2>3 DEF StrictSubsetOrdering
  <2> QED BY <2>1, <2>4, <1>3, <1>4
<1>6. \A y \in S : x >= y
  BY <1>5
<1> QED BY <1>6 DEF Max

(* The lesser of two numbers. *)
LEMMA MinOfTwo ==
  ASSUME NEW a \in Int, NEW b \in Int
  PROVE  Min({a, b}) = IF a <= b THEN a ELSE b
<1>1. {a, b} \in SUBSET Int /\ {a, b} # {} /\ IsFiniteSet({a, b})
  <2>1. IsFiniteSet({a}) /\ {a, b} = {a} \cup {b}
    BY FS_Singleton
  <2> QED BY <2>1, FS_AddElement
<1>2. Min({a, b}) \in {a, b} /\ \A y \in {a, b} : Min({a, b}) <= y
  BY <1>1, MinIsLeast
<1> DEFINE m == Min({a, b})
<1> HIDE DEF m
<1>3. (m = a \/ m = b) /\ m <= a /\ m <= b
  BY <1>2 DEF m
<1> QED BY <1>3 DEF m

(* A set with at most one element is empty or a singleton. *)
LEMMA AtMostOne ==
  ASSUME NEW S, IsFiniteSet(S), Cardinality(S) <= 1
  PROVE  \A x, y \in S : x = y
<1>1. Cardinality(S) = 0 \/ Cardinality(S) = 1
  <2>1. Cardinality(S) \in Nat
    BY FS_CardinalityType
  <2> DEFINE n == Cardinality(S)
  <2> HIDE DEF n
  <2>2. n \in Nat /\ n <= 1
    BY <2>1 DEF n
  <2>3. n = 0 \/ n = 1
    BY <2>2
  <2> QED BY <2>3 DEF n
<1> QED BY <1>1, FS_EmptySet, FS_Singleton

(* The other direction, for the sets of dates a step makes. *)
LEMMA SmallSet ==
  ASSUME NEW S, \A x, y \in S : x = y
  PROVE  IsFiniteSet(S) /\ Cardinality(S) <= 1
<1>1. CASE S = {}
  BY <1>1, FS_EmptySet
<1>2. CASE S # {}
  <2>1. PICK x : S = {x}
    BY <1>2
  <2>2. IsFiniteSet({x}) /\ Cardinality({x}) = 1
    BY FS_Singleton
  <2> QED BY <2>1, <2>2
<1> QED BY <1>1, <1>2

(* A set of two elements or more has, beside any of them, another. *)
LEMMA AtLeastTwo ==
  ASSUME NEW S, NEW x \in S, ~(Cardinality(S) < 2)
  PROVE  \E y \in S : y # x
<1>1. SUFFICES ASSUME \A y \in S : y = x PROVE FALSE
  OBVIOUS
<1>2. S = {x}
  BY <1>1
<1> QED BY <1>2, FS_Singleton

-----------------------------------------------------------------------------
(* Types.                                                                  *)

(* The durations as separate facts. *)
LEMMA Durations ==
  /\ Ahead \in Nat /\ Week \in Nat /\ Month \in Nat /\ Gap \in Nat
  /\ Quarter \in Nat /\ NineMonths \in Nat /\ Expiry \in Nat /\ Year \in Nat
  /\ 1 <= Gap /\ Ahead < Year /\ Week < Year /\ Gap < Year
BY DurationsAssumption

LEMMA AgeIsFinite ==
  /\ IsFiniteSet(Age) /\ Age \subseteq Int
  /\ IsFiniteSet(0..Old) /\ 0..Old \subseteq Int
<1>1. (-Ahead) \in Int /\ Old \in Int /\ 0 \in Int
  BY Durations DEF Old
<1>2. IsFiniteSet((-Ahead)..Old) /\ IsFiniteSet(0..Old)
  BY <1>1, FS_Interval
<1> QED BY <1>1, <1>2 DEF Age

(* A day older, and no older than Old. *)
LEMMA OlderAge ==
  ASSUME NEW a \in Age
  PROVE  /\ Min({a + 1, Old}) = IF a + 1 <= Old THEN a + 1 ELSE Old
         /\ Min({a + 1, Old}) \in Age
         /\ a >= 0 => Min({a + 1, Old}) \in 0..Old
<1>1. a \in Int /\ a + 1 \in Int /\ Old \in Int
  BY Durations DEF Age, Old
<1>2. Min({a + 1, Old}) = IF a + 1 <= Old THEN a + 1 ELSE Old
  BY <1>1, MinOfTwo
<1> QED BY <1>1, <1>2, Durations DEF Age, Old

LEMMA OlderLapse ==
  ASSUME NEW a \in 0..Lapsed
  PROVE  /\ Min({a + 1, Lapsed}) = IF a + 1 <= Lapsed THEN a + 1 ELSE Lapsed
         /\ Min({a + 1, Lapsed}) \in 0..Lapsed
<1>1. a \in Int /\ a + 1 \in Int /\ Lapsed \in Int
  BY Durations DEF Lapsed
<1>2. Min({a + 1, Lapsed}) = IF a + 1 <= Lapsed THEN a + 1 ELSE Lapsed
  BY <1>1, MinOfTwo
<1> QED BY <1>1, <1>2, Durations DEF Lapsed

LEMMA OlderSet ==
  ASSUME NEW S \in SUBSET Age
  PROVE  /\ Older(S) \subseteq Age
         /\ S \subseteq 0..Old => Older(S) \subseteq 0..Old
         /\ Cardinality(S) <= 1 => Cardinality(Older(S)) <= 1
<1>1. Older(S) \subseteq Age
  BY OlderAge DEF Older
<1>2. ASSUME S \subseteq 0..Old PROVE Older(S) \subseteq 0..Old
  <2>1. \A a \in S : a >= 0
    BY <1>2, Durations DEF Old
  <2> QED BY <2>1, OlderAge DEF Older
<1>3. ASSUME Cardinality(S) <= 1 PROVE Cardinality(Older(S)) <= 1
  <2>1. IsFiniteSet(S)
    BY AgeIsFinite, FS_Subset
  <2>2. \A x, y \in S : x = y
    BY <1>3, <2>1, AtMostOne
  <2>3. \A x, y \in Older(S) : x = y
    BY <2>2 DEF Older
  <2> QED BY <2>3, SmallSet
<1> QED BY <1>1, <1>2, <1>3

(* The types that Init gives the profile, and NewDay keeps. *)
LEMMA InitTyped == Init => TypeOK
<1> SUFFICES ASSUME Init PROVE TypeOK
  OBVIOUS
<1>1. /\ class \in Class /\ selected \subseteq Optional
      /\ \E c \in Cases : focus = c.focus /\ class = c.class
  BY CasesAssumption DEF Init
<1>2. answers \in [Field -> Word]
  BY DEF Init, Word
<1>3. 0 \in Age /\ {0} \in SUBSET Age /\ {} \in SUBSET Age
  BY Durations DEF Age, Old
<1>4. \A d \in DateField : dates[d] = {} \/ dates[d] = {0}
  BY DEF Init
<1>5. dates \in [DateField -> SUBSET Age]
  BY <1>3 DEF Init
<1>6. Cardinality({}) <= 1 /\ Cardinality({0}) <= 1
  BY SmallSet
<1>7. \A d \in DateField : Cardinality(dates[d]) <= 1
  BY <1>4, <1>6
<1>8. claims \subseteq {"month", "year"}
  BY DEF Init
<1>9. series \in [KSIs -> SUBSET (0..Old)] /\ evidence \subseteq 0..Old
  BY DEF Init
<1>10. /\ signoff \subseteq 0..Lapsed /\ {agreed, current, bound} \subseteq BOOLEAN
       /\ shown \subseteq Age /\ signed \subseteq Age
  BY DEF Init
<1> QED BY <1>1, <1>2, <1>5, <1>7, <1>8, <1>9, <1>10 DEF TypeOK

(* What the actions of people do to the types. *)
LEMMA NextTyped == TypeOK /\ [Next]_vars => TypeOK'
<1> SUFFICES ASSUME TypeOK, [Next]_vars PROVE TypeOK'
  OBVIOUS
<1>0. 0 \in 0..Old /\ 0 \in 0..Lapsed /\ 0 \in Age
  BY Durations DEF Old, Lapsed, Age
<1>1. ASSUME NEW f \in Field, NEW w \in Word, Answer(f, w) PROVE TypeOK'
  BY <1>1 DEF TypeOK, Answer, Changes
<1>2. ASSUME NEW d \in DateField, NEW a \in (-Ahead)..0, SetDate(d, a)
      PROVE  TypeOK'
  <2>1. a \in Age
    BY Durations DEF Age, Old
  <2>1a. Cardinality({a}) <= 1
    BY SmallSet
  <2>2. dates' = [dates EXCEPT ![d] = {a}]
    BY <1>2 DEF SetDate
  <2>3. dates' \in [DateField -> SUBSET Age]
    BY <2>1, <2>2 DEF TypeOK
  <2>4. \A e \in DateField : dates'[e] = IF e = d THEN {a} ELSE dates[e]
    BY <2>2 DEF TypeOK
  <2>5. \A e \in DateField : Cardinality(dates'[e]) <= 1
    BY <2>1a, <2>4 DEF TypeOK
  <2> QED BY <1>2, <2>3, <2>5 DEF TypeOK, SetDate, Changes
<1>3. CASE Commit
  BY <1>3 DEF TypeOK, Commit, Changes
<1>4. ASSUME NEW K \in SUBSET KSIs, Collect(K) PROVE TypeOK'
  <2>1. PICK gone \in {{}, {Old}} :
          series' = [k \in KSIs |-> IF k \in K THEN (series[k] \ gone) \cup {0}
                                   ELSE series[k]]
    BY <1>4 DEF Collect, Observe
  <2>2. \A k \in KSIs : series[k] \subseteq 0..Old
    BY DEF TypeOK
  <2>3. series' \in [KSIs -> SUBSET (0..Old)]
    BY <1>0, <2>1, <2>2
  <2>4. /\ current' \in BOOLEAN /\ shown' = shown /\ signoff' = signoff
        /\ signed' = signed /\ bound' = bound
    BY <1>4 DEF TypeOK, Collect, Observe, Changes, package
  <2> QED BY <1>4, <2>3, <2>4 DEF TypeOK, Collect, Observe
<1>5. CASE CollectEvidence
  <2>1. evidence' \subseteq 0..Old
    BY <1>0, <1>5 DEF TypeOK, CollectEvidence
  <2> QED BY <1>5, <2>1 DEF TypeOK, CollectEvidence, Changes
<1>6. CASE Build
  <2>1. shown' = dates["verified"] /\ dates["verified"] \subseteq Age
    BY <1>6 DEF TypeOK, Build, DateField
  <2>2. current' \in BOOLEAN /\ bound' \in BOOLEAN
    BY <1>6 DEF Build
  <2> QED BY <1>6, <2>1, <2>2 DEF TypeOK, Build
<1>7. CASE Sign
  BY <1>0, <1>7 DEF TypeOK, Sign
<1>8. CASE NewDay
  <2>1. \A d \in DateField :
          Older(dates[d]) \in SUBSET Age /\ Cardinality(Older(dates[d])) <= 1
    BY OlderSet DEF TypeOK
  <2>2. dates' = [d \in DateField |-> IF d \in focus THEN Older(dates[d])
                                      ELSE dates[d]]
    BY <1>8 DEF NewDay
  <2>3. dates' \in [DateField -> SUBSET Age]
    BY <2>1, <2>2 DEF TypeOK
  <2>4. \A d \in DateField : dates'[d] = Older(dates[d]) \/ dates'[d] = dates[d]
    BY <2>2
  <2>5. \A d \in DateField : Cardinality(dates'[d]) <= 1
    BY <2>1, <2>4 DEF TypeOK
  <2>6. 0..Old \subseteq Age
    BY Durations DEF Age, Old
  <2>7. \A k \in KSIs : Older(series[k]) \subseteq 0..Old
    BY <2>6, OlderSet DEF TypeOK
  <2>8. series' \in [KSIs -> SUBSET (0..Old)]
    BY <1>8, <2>7 DEF TypeOK, NewDay
  <2>9. evidence' \subseteq 0..Old
    BY <1>8, <2>6, OlderSet DEF TypeOK, NewDay
  <2>10. signoff' \subseteq 0..Lapsed
    BY <1>8, OlderLapse DEF TypeOK, NewDay
  <2>11. current' \in BOOLEAN /\ shown' \subseteq Age /\ signed' \subseteq Age
    BY <1>8, OlderSet DEF TypeOK, NewDay
  <2> QED BY <1>8, <2>3, <2>5, <2>8, <2>9, <2>10, <2>11 DEF TypeOK, NewDay
<1>9. CASE UNCHANGED vars
  BY <1>9 DEF TypeOK, vars, package
<1> QED BY <1>1, <1>2, <1>3, <1>4, <1>5, <1>6, <1>7, <1>8, <1>9 DEF Next

LEMMA TypeCorrect == Spec => []TypeOK
<1> QED BY InitTyped, NextTyped, PTL DEF Spec

-----------------------------------------------------------------------------
(* The signoff.                                                            *)

(* The inductive invariant: a current manifest shows the verification of the
   profile, a bound signoff is for a manifest that shows the same as the one
   that was signed, and no signoff is older than the verification that was
   signed, except for the days it was dated ahead. *)
SignedAfter ==
  /\ current => shown = dates["verified"]
  /\ bound => signed = shown
  /\ \A a \in signoff : \A d \in signed : a <= d + Ahead

LEMMA ChangesSignedAfter ==
  ASSUME SignedAfter, Changes
  PROVE  SignedAfter'
BY DEF SignedAfter, Changes

LEMMA NewDaySignedAfter ==
  ASSUME TypeOK, SignedAfter, NewDay
  PROVE  SignedAfter'
<1>0. "verified" \in DateField
  BY DEF DateField
<1>1. CASE "verified" \notin focus
  BY <1>1 DEF NewDay, SignedAfter
<1>2. CASE "verified" \in focus
  <2>1. /\ shown' = Older(shown) /\ signed' = Older(signed)
        /\ current' = current /\ bound' = bound
        /\ dates'["verified"] = Older(dates["verified"])
    BY <1>0, <1>2 DEF NewDay
  <2>2. ASSUME NEW b \in signoff', NEW e \in signed'
        PROVE  b <= e + Ahead
    <3>1. PICK a \in signoff : b = Min({a + 1, Lapsed})
      BY DEF NewDay
    <3>2. PICK d \in signed : e = Min({d + 1, Old})
      BY <2>1 DEF Older
    <3>3. a <= d + Ahead
      BY DEF SignedAfter
    <3>4. a \in 0..Lapsed /\ d \in Age
      BY DEF TypeOK
    <3>5. b = (IF a + 1 <= Lapsed THEN a + 1 ELSE Lapsed)
          /\ e = (IF d + 1 <= Old THEN d + 1 ELSE Old)
      BY <3>1, <3>2, <3>4, OlderLapse, OlderAge
    <3> QED BY <3>3, <3>4, <3>5, Durations DEF Age, Old, Lapsed
  <2>3. /\ current' => shown' = dates'["verified"]
        /\ bound' => signed' = shown'
    BY <2>1 DEF SignedAfter
  <2> QED BY <2>2, <2>3 DEF SignedAfter
<1> QED BY <1>1, <1>2

LEMMA NextSignedAfter ==
  TypeOK /\ SignedAfter /\ [Next]_vars => SignedAfter'
<1> SUFFICES ASSUME TypeOK, SignedAfter, [Next]_vars PROVE SignedAfter'
  OBVIOUS
<1>1. ASSUME NEW f \in Field, NEW w \in Word, Answer(f, w) PROVE SignedAfter'
  BY <1>1, ChangesSignedAfter DEF Answer
<1>2. ASSUME NEW d \in DateField, NEW a \in (-Ahead)..0, SetDate(d, a)
      PROVE  SignedAfter'
  BY <1>2, ChangesSignedAfter DEF SetDate
<1>3. CASE Commit
  BY <1>3, ChangesSignedAfter DEF Commit
<1>4. ASSUME NEW K \in SUBSET KSIs, Collect(K) PROVE SignedAfter'
  <2>1. Changes \/ UNCHANGED package
    BY <1>4 DEF Collect, Observe
  <2>2. UNCHANGED dates
    BY <1>4 DEF Collect, Observe
  <2> QED BY <2>1, <2>2, ChangesSignedAfter DEF SignedAfter, package
<1>5. CASE CollectEvidence
  BY <1>5, ChangesSignedAfter DEF CollectEvidence
<1>6. CASE Build
  <2>1. bound' => signed = dates["verified"]
    BY <1>6 DEF Build
  <2> QED BY <1>6, <2>1 DEF SignedAfter, Build
<1>7. CASE Sign
  <2>1. \A d \in shown : 0 <= d + Ahead
    BY Durations DEF TypeOK, Age
  <2> QED BY <1>7, <2>1 DEF SignedAfter, Sign
<1>8. CASE NewDay
  BY <1>8, NewDaySignedAfter
<1>9. CASE UNCHANGED vars
  BY <1>9 DEF SignedAfter, vars, package
<1> QED BY <1>1, <1>2, <1>3, <1>4, <1>5, <1>6, <1>7, <1>8, <1>9 DEF Next

(* The gates on a ready package that bear on its signoff. *)
LEMMA ReadySignoff ==
  PackageReady => current /\ bound /\ Between(dates["verified"], 0, Week)
<1> SUFFICES ASSUME PackageReady
             PROVE  current /\ bound /\ Between(dates["verified"], 0, Week)
  OBVIOUS
<1>1. VerificationGate = {} /\ SignoffGate = {} /\ ValidationGate = {}
  BY DEF PackageReady, PackageBlockers
<1> QED BY <1>1 DEF VerificationGate, SignoffGate, ValidationGate

(* However people answer, build, sign and wait: no gate asks for the age of a
   signoff, and yet the one of a ready package is of the same week as the
   verification, but for the days by which that was dated ahead. *)
THEOREM ReadyIsSignedInTime == Spec => []SignedWithinTheWeek
<1>1. Init => SignedAfter
  BY DEF Init, SignedAfter
<1>2. TypeOK /\ SignedAfter => SignedWithinTheWeek
  <2> SUFFICES ASSUME TypeOK, SignedAfter, PackageReady, NEW a \in signoff
               PROVE  a <= Week + Ahead
    BY DEF SignedWithinTheWeek
  <2>1. PICK d \in dates["verified"] : 0 <= d /\ d <= Week
    BY ReadySignoff DEF Between
  <2>2. a <= d + Ahead
    BY ReadySignoff DEF SignedAfter
  <2>3. a \in Int /\ d \in Int
    BY Durations DEF TypeOK, DateField, Age, Lapsed
  <2> QED BY <2>1, <2>2, <2>3, Durations
<1> QED BY <1>1, <1>2, TypeCorrect, NextSignedAfter, PTL DEF Spec

-----------------------------------------------------------------------------
(* The gates and the wizard.                                               *)

(* What no blocker means for the answers the wizard asks for. *)
LEMMA ReadyAnswers ==
  ASSUME class \in Class, PackageReady
  PROVE  /\ RequiredGaps = {}
         /\ Exists("verified")
         /\ class = "a" => answers["framework"] = "real" /\ Exists("external")
         /\ class # "a" => /\ answers["fiaName"] = "real"
                           /\ answers["fiaId"] = "real"
                           /\ Exists("assessed")
                           /\ ~Hollow("osa")
                           /\ answers["metadata"] = "real"
<1>1. /\ ProfileGate = {} /\ VerificationGate = {} /\ ExternalGate = {}
      /\ AssessmentGate = {}
  BY DEF PackageReady, PackageBlockers
<1>2. RequiredGaps = {} /\ SummaryGate = {} /\ CpoGate = {}
  BY <1>1 DEF ProfileGate
<1>3. Exists("verified")
  BY <1>1 DEF VerificationGate, Between, Exists
<1>4. ASSUME class = "a"
      PROVE  answers["framework"] = "real" /\ Exists("external")
  BY <1>1, <1>4 DEF ExternalGate
<1>5. ASSUME class # "a"
      PROVE  /\ answers["fiaName"] = "real" /\ answers["fiaId"] = "real"
             /\ Exists("assessed")
  <2>1. Assessed
    BY <1>5 DEF Assessed, Class
  <2>2. AssessorGap = {}
    BY <1>1, <2>1 DEF AssessmentGate
  <2>3. ~MissingRequiredIdentity("fiaName") /\ Exists("assessed")
    BY <2>2 DEF AssessorGap
  <2>4. ~MissingRequiredIdentity("fiaId")
    BY <2>2, <2>3 DEF AssessorGap
  <2> QED BY <2>3, <2>4 DEF MissingRequiredIdentity
<1>6. ASSUME class # "a" PROVE ~Hollow("osa")
  BY <1>2, <1>6 DEF SummaryGate
<1>7. ASSUME class # "a" PROVE answers["metadata"] = "real"
  BY <1>2, <1>7 DEF CpoGate, MissingRequiredIdentity
<1> QED BY <1>2, <1>3, <1>4, <1>5, <1>6, <1>7

(* A ready package leaves the wizard nothing to ask for but a status page:
   the gates of preflight, each with its own idea of an answer, together
   cover class_gaps for every class and every choice of optional rules. *)
THEOREM WizardIsDone == Spec => []ReadyMeansFinished
<1>1. TypeOK => ReadyMeansFinished
  <2> SUFFICES ASSUME TypeOK, PackageReady
               PROVE  RequiredGaps \cup ClassGaps \subseteq {"statusPage"}
    BY DEF ReadyMeansFinished
  <2>1. class \in Class
    BY DEF TypeOK
  <2>2. RequiredGaps = {} /\ Exists("verified")
    BY <2>1, ReadyAnswers
  <2>3. CASE class = "a"
    <3>1. answers["framework"] = "real" /\ Exists("external")
      BY <2>1, <2>3, ReadyAnswers
    <3>2. ClassGaps = {}
      BY <2>2, <2>3, <3>1 DEF ClassGaps, MissingIdentity
    <3> QED BY <2>2, <3>2
  <2>4. CASE class # "a"
    <3>1. /\ answers["fiaName"] = "real" /\ answers["fiaId"] = "real"
          /\ Exists("assessed") /\ ~Hollow("osa")
          /\ answers["metadata"] = "real"
      BY <2>1, <2>4, ReadyAnswers
    <3>2. ~Hollow("metadata") /\ ~MissingIdentity("fiaName")
          /\ ~MissingIdentity("fiaId")
      BY <3>1 DEF Hollow, MissingIdentity
    <3>3. ClassGaps \subseteq {"statusPage"}
      BY <2>2, <2>4, <3>1, <3>2 DEF ClassGaps
    <3> QED BY <2>2, <3>3
  <2> QED BY <2>3, <2>4
<1> QED BY <1>1, TypeCorrect, PTL

-----------------------------------------------------------------------------
(* The metric history of a Class C package.                                *)

(* The observations of a KSI are finitely many ages, and so is every part. *)
LEMMA Observations ==
  ASSUME NEW S \in SUBSET (0..Old)
  PROVE  S \in SUBSET Int /\ IsFiniteSet(S)
BY AgeIsFinite, FS_Subset

(* A series without a gap over a window that ends at start: at every age far
   enough from the start there is an observation within Gap days.  If there
   were none, the observations before and after the silence would be two
   neighbours more than Gap days apart, or the silence would reach the first
   or the last day. *)
LEMMA NoSilence ==
  ASSUME NEW S \in SUBSET (0..Old), NEW start \in Int,
         NEW win, win = {a \in S : a <= start},
         ~Gappy(win, start),
         NEW a \in 1..(start - Gap)
  PROVE  Between(S, a, a + Gap - 1)
<1> SUFFICES ASSUME \A x \in S : ~(a <= x /\ x <= a + Gap - 1) PROVE FALSE
  BY DEF Between
<1>0. a \in Int /\ 1 <= a /\ a <= start - Gap /\ Gap \in Nat /\ 1 <= Gap
  BY Durations
<1>1. win \in SUBSET (0..Old) /\ win \in SUBSET Int /\ IsFiniteSet(win)
  BY Observations
<1>2. win # {}
  <2>1. SUFFICES ASSUME win = {} PROVE FALSE
    OBVIOUS
  <2>2. Cardinality({}) < 2
    BY FS_EmptySet
  <2> QED BY <2>1, <2>2 DEF Gappy
<1> DEFINE lo == Min(win)
           hi == Max(win)
<1>3. /\ lo \in win /\ \A y \in win : lo <= y
      /\ hi \in win /\ \A y \in win : hi >= y
  BY <1>1, <1>2, MinIsLeast, MaxIsGreatest
<1>4. /\ \A s \in Steps(win) : ~(s > Gap)
      /\ ~(start - hi > Gap) /\ ~(lo > Gap)
  BY DEF Gappy
<1> HIDE DEF lo, hi
<1>5. lo \in Int /\ hi \in Int /\ start \in Int
  BY <1>1, <1>3
<1>6. \A x \in win : x \in Int /\ (x < a \/ a + Gap <= x)
  BY <1>0, <1>1
<1>7. lo < a
  BY <1>0, <1>3, <1>4, <1>5, <1>6
<1>8. hi >= a
  BY <1>0, <1>4, <1>5
<1> DEFINE later == {x \in win : x >= a}
           x0 == Min(later)
           B == {b \in win : b < x0}
<1>9. x0 \in later /\ \A y \in later : x0 <= y
  <2>1. hi \in later
    BY <1>3, <1>8
  <2>2. later \in SUBSET Int /\ IsFiniteSet(later) /\ later # {}
    BY <1>1, <2>1, FS_Subset
  <2> QED BY <2>2, MinIsLeast
<1> HIDE DEF x0
<1>10. x0 \in win /\ x0 \in Int /\ x0 >= a + Gap
  BY <1>0, <1>6, <1>9
<1>11. \A b \in B : b \in Int /\ b < a
  BY <1>0, <1>6, <1>9, <1>10
<1>12. Max(B) \in B
  <2>1. lo \in B
    BY <1>0, <1>3, <1>5, <1>7, <1>10
  <2>2. B \in SUBSET Int /\ IsFiniteSet(B) /\ B # {}
    BY <1>1, <2>1, FS_Subset
  <2> QED BY <2>2, MaxIsGreatest
<1>13. x0 - Max(B) \in Steps(win)
  <2>1. x0 # Min(win)
    BY <1>0, <1>5, <1>7, <1>10 DEF lo
  <2> QED BY <1>10, <2>1 DEF Steps
<1> DEFINE m == Max(B)
<1>14. m \in Int /\ m < a /\ ~(x0 - m > Gap)
  BY <1>4, <1>11, <1>12, <1>13
<1> HIDE DEF m
<1> QED BY <1>0, <1>10, <1>14

(* A series is judged from its first observation, or for a year. *)
LEMMA StartOfWindow ==
  ASSUME NEW k \in KSIs, series[k] \in SUBSET (0..Old), series[k] # {}
  PROVE  /\ EvalStart(k) \in Int
         /\ EvalStart(k) = Min({Year, Max(series[k])})
<1> DEFINE first == Max(series[k])
<1>1. first \in series[k] /\ \A y \in series[k] : first >= y
  BY Observations, MaxIsGreatest
<1>2. first \in Int /\ Year \in Int /\ series[k] \in SUBSET Int
  BY <1>1, Durations
<1> HIDE DEF first
<1>3. Covers(k) <=> first >= Year
  BY <1>1, <1>2 DEF Covers
<1>4. Min({Year, first}) = IF Year <= first THEN Year ELSE first
  BY <1>2, MinOfTwo
<1>5. EvalStart(k) = IF Covers(k) THEN Year ELSE first
  BY DEF EvalStart, first
<1>6. EvalStart(k) \in Int /\ EvalStart(k) = Min({Year, first})
  BY <1>2, <1>3, <1>4, <1>5
<1> QED BY <1>6 DEF first

(* What the gate on the history of a Class C package lets pass, when the
   commitment of the rule's note does not apply. *)
LEMMA ReadyHistory ==
  ASSUME PackageReady, class = "c", ~Committed
  PROVE  /\ \A k \in KSIs : series[k] # {}
         /\ Exists("since") => Eligible
         /\ OfferingShort => \A k \in KSIs : Covers(k)
         /\ \A k \in KSIs : ~Gappy(Window(k), EvalStart(k))
<1>1. HistoryGate = {}
  BY DEF PackageReady, PackageBlockers
<1>2. HistoryBlockers = {} /\ (Exists("since") => Eligible)
  <2> DEFINE undated == {b \in {"since"} : Exists("since") /\ ~Eligible}
  <2>1. HistoryGate = undated \cup HistoryBlockers
    BY DEF HistoryGate, Opted
  <2>2. undated = {} /\ HistoryBlockers = {}
    BY <1>1, <2>1
  <2> QED BY <2>2
<1>3. Missing = {}
  BY <1>2 DEF HistoryBlockers
<1>4. Observed = KSIs
  BY <1>3 DEF Observed
<1>5. OfferingShort => \A k \in Observed : Covers(k)
  BY <1>2 DEF HistoryBlockers
<1>6. \A k \in Observed : ~Gappy(Window(k), EvalStart(k))
  BY <1>2 DEF HistoryBlockers
<1> QED BY <1>2, <1>3, <1>4, <1>5, <1>6 DEF Missing

(* Some series goes back a year: an offering in service for a year shows it,
   and one in service since less than a year, its date of service given, is
   only ready under the commitment or with a history as long.  That the
   profile holds one date of service, and not several, is part of TypeOK. *)
LEMMA SomeSeriesCovers ==
  ASSUME TypeOK, PackageReady, class = "c", ~Committed
  PROVE  \E k \in KSIs : Covers(k)
<1>1. PICK k0 \in KSIs : TRUE
  BY KSIsAssumption
<1>2. series[k0] # {}
  BY ReadyHistory
<1>3. CASE Exists("since")
  <2>1. PICK a \in dates["since"] : 0 <= a /\ a < Year
    BY <1>3, ReadyHistory DEF Eligible
  <2>2. "since" \in DateField
    BY DEF DateField
  <2>3. dates["since"] \in SUBSET Age /\ Cardinality(dates["since"]) <= 1
    BY <2>2 DEF TypeOK
  <2>4. IsFiniteSet(dates["since"])
    BY <2>3, AgeIsFinite, FS_Subset
  <2>5. \A b \in dates["since"] : b = a
    BY <2>3, <2>4, AtMostOne
  <2>6. OfferingShort
    BY <1>3, <2>1, <2>5 DEF OfferingShort
  <2> QED BY <1>1, <2>6, ReadyHistory
<1>4. CASE ~Exists("since")
  <2>1. CASE OfferingShort
    BY <1>1, <2>1, ReadyHistory
  <2>2. CASE ~OfferingShort
    <3> DEFINE all == UNION {series[k] : k \in KSIs}
    <3>1. all # {}
      BY <1>2
    <3>2. ~(all # {} /\ \A a \in all : a < Year)
      BY <1>4, <2>2 DEF OfferingShort
    <3>3. PICK a \in all : ~(a < Year)
      BY <3>1, <3>2
    <3>4. PICK k \in KSIs : a \in series[k]
      OBVIOUS
    <3>5. a \in Int /\ Year \in Int
      BY <3>4, Durations DEF TypeOK
    <3>6. a >= Year
      BY <3>3, <3>5
    <3> QED BY <3>4, <3>6 DEF Covers
  <2> QED BY <2>1, <2>2
<1> QED BY <1>3, <1>4

(* FRD-PER's "always known" follows from the gaps that mot_continuity
   measures, for any tolerance, any length of the year and any series. *)
THEOREM ReadyHistoryIsKnown == Spec => []StatusAlwaysKnown
<1>1. TypeOK => StatusAlwaysKnown
  <2> SUFFICES ASSUME TypeOK, PackageReady, class = "c", ~Committed
               PROVE  /\ \E k \in KSIs : Covers(k)
                      /\ \A k \in KSIs : series[k] # {} /\ Known(k)
    BY DEF StatusAlwaysKnown
  <2>1. \E k \in KSIs : Covers(k)
    BY SomeSeriesCovers
  <2>2. ASSUME NEW k \in KSIs PROVE series[k] # {} /\ Known(k)
    <3>1. series[k] # {} /\ ~Gappy(Window(k), EvalStart(k))
      BY ReadyHistory
    <3>2. series[k] \in SUBSET (0..Old)
      BY DEF TypeOK
    <3>3. EvalStart(k) \in Int /\ EvalStart(k) = Min({Year, Max(series[k])})
      BY <3>1, <3>2, StartOfWindow
    <3>4. \A a \in 1..(EvalStart(k) - Gap) : Between(series[k], a, a + Gap - 1)
      BY <3>1, <3>2, <3>3, NoSilence DEF Window
    <3>5. Known(k)
      BY <3>3, <3>4, Zenon DEF Known
    <3> QED BY <3>1, <3>5
  <2> QED BY <2>1, <2>2
<1> QED BY <1>1, TypeCorrect, PTL

=============================================================================
