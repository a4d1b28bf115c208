-------------------------- MODULE RecordWorkProofs --------------------------
(***************************************************************************)
(* What the gates say of a requirement's record, for any set of methods,   *)
(* any class minimum, any focus and any vocabulary of its authors.         *)
(***************************************************************************)
EXTENDS RecordWork, FiniteSetTheorems, TLAPS

Records == IF subject = "rule" THEN RuleRecord ELSE KsiRecord

-----------------------------------------------------------------------------
(* Types.                                                                   *)

LEMMA ScaffoldsTyped ==
  /\ RuleScaffold \in RuleRecord /\ KsiScaffold \in KsiRecord
  /\ RuleFinished \in RuleRecord /\ KsiFinished \in KsiRecord
  /\ NoHistory \in History /\ FullHistory \in History
<1>1. RuleScaffold \in RuleRecord
  BY DEF RuleScaffold, RuleRecord, RuleItem, Words
<1>2. KsiScaffold \in KsiRecord
  BY DEF KsiScaffold, KsiRecord, KsiItem, Words, TestKind
<1>3. RuleFinished \in RuleRecord
  <2>1. RuleScaffold.item \in [RuleItem -> Words]
    BY <1>1 DEF RuleRecord
  <2> DEFINE it == RuleFinished.item
  <2>2. it = [RuleScaffold.item EXCEPT
     !["risk"] = "text", !["verification"] = "text", !["validation"] = "text",
     !["independentVerification"] = "text", !["owner"] = "text",
     !["independentValidation"] = "text", !["responses"] = "text"]
    BY DEF RuleFinished
  <2>3. it \in [RuleItem -> Words]
    BY <2>1, <2>2 DEF Words
  <2> QED BY <2>3 DEF RuleFinished, RuleRecord, Words
<1>4. KsiFinished \in KsiRecord
  BY DEF KsiFinished, KsiRecord, KsiItem, Words, TestKind
<1>5. NoHistory \in History /\ FullHistory \in History
  BY DEF NoHistory, FullHistory, History
<1> QED BY <1>1, <1>2, <1>3, <1>4, <1>5

LEMMA InitTyped == Init => TypeOK
BY ScaffoldsTyped DEF Init, TypeOK, Subject, Class

LEMMA MergeTyped ==
  ASSUME TypeOK
  PROVE  MergeScaffold(store) \in Records
<1>1. Scaffold \in Records
  BY ScaffoldsTyped DEF Scaffold, Records
<1>2. CASE store = NoRecord
  BY <1>1, <1>2 DEF MergeScaffold
<1>3. CASE store # NoRecord
  <2>1. store \in Records
    BY <1>3 DEF TypeOK, Records
  <2> DEFINE it == [i \in DOMAIN store.item |->
                      IF store.item[i] = "absent" THEN Scaffold.item[i] ELSE store.item[i]]
  <2>2. MergeScaffold(store) = [store EXCEPT !.item = it]
    BY <1>3 DEF MergeScaffold
  <2>3. CASE subject = "rule"
    <3>1. store.item \in [RuleItem -> Words] /\ Scaffold.item \in [RuleItem -> Words]
      BY <1>1, <2>1, <2>3 DEF Records, RuleRecord
    <3>2. it \in [RuleItem -> Words]
      BY <3>1
    <3> HIDE DEF it
    <3> QED BY <2>1, <2>2, <2>3, <3>2 DEF Records, RuleRecord
  <2>4. CASE subject # "rule"
    <3>1. store.item \in [KsiItem -> Words] /\ Scaffold.item \in [KsiItem -> Words]
      BY <1>1, <2>1, <2>4 DEF Records, KsiRecord
    <3>2. it \in [KsiItem -> Words]
      BY <3>1
    <3> HIDE DEF it
    <3> QED BY <2>1, <2>2, <2>4, <3>2 DEF Records, KsiRecord
  <2> QED BY <2>3, <2>4
<1> QED BY <1>2, <1>3

LEMMA WriteTyped ==
  ASSUME TypeOK, NEW r \in Records, Write(r)
  PROVE  TypeOK'
BY DEF TypeOK, Write, Records

LEMMA HistoryTyped ==
  ASSUME TypeOK, NEW h \in History, HistoryMoves(h)
  PROVE  TypeOK'
<1>1. subject = "ksi" /\ store \in KsiRecord
  BY DEF HistoryMoves, TypeOK
<1>2. PICK last \in Moved(store.item["last30Days"]), year \in Moved(store.item["upToOneYear"]) :
        store' = [store EXCEPT !.item["last30Days"] = last, !.item["upToOneYear"] = year]
  BY DEF HistoryMoves
<1>3. store.item["last30Days"] \in Words /\ store.item["upToOneYear"] \in Words
  BY <1>1 DEF KsiRecord, KsiItem
<1>4. last \in Words /\ year \in Words
  BY <1>3 DEF Moved, Words
<1>5. store' \in KsiRecord
  BY <1>1, <1>2, <1>4 DEF KsiRecord
<1> QED BY <1>1, <1>5 DEF TypeOK, HistoryMoves

LEMMA NextTyped == TypeOK /\ [Next]_vars => TypeOK'
<1> SUFFICES ASSUME TypeOK, [Next]_vars PROVE TypeOK'
  OBVIOUS
<1>0. store # NoRecord => store \in Records
  BY DEF TypeOK, Records
<1>a. ASSUME NEW i \in RuleItem \cup KsiItem, Edit(i)
      PROVE  TypeOK'
  <2>1. PICK w \in Vocabulary[i] : Write([store EXCEPT !.item[i] = w])
    BY <1>a DEF Edit
  <2>2. w \in Words
    BY VocabularyAssumption
  <2>3. [store EXCEPT !.item[i] = w] \in Records
    BY <1>0, <2>1, <2>2 DEF Write, Records, RuleRecord, KsiRecord
  <2> QED BY <2>1, <2>3, WriteTyped
<1>b. CASE Narrate
  <2>1. PICK ws \in ImplLists : Write([store EXCEPT !.impl = ws])
    BY <1>b DEF Narrate
  <2>2. [store EXCEPT !.impl = ws] \in Records
    BY <1>0, <2>1, VocabularyAssumption DEF Write, Records, RuleRecord, KsiRecord
  <2> QED BY <2>1, <2>2, WriteTyped
<1>c. CASE Decide
  <2>1. Write([store EXCEPT !.followed = ~@])
    BY <1>c DEF Decide
  <2>2. [store EXCEPT !.followed = ~@] \in Records
    BY <1>0, <2>1 DEF Write, Records, RuleRecord, KsiRecord
  <2> QED BY <2>1, <2>2, WriteTyped
<1>d. CASE AttachArtifact
  <2>1. PICK a \in {"none", "placeholder", "real"} : Write([store EXCEPT !.artifact = a])
    BY <1>d DEF AttachArtifact
  <2>2. [store EXCEPT !.artifact = a] \in Records
    BY <1>0, <2>1 DEF Write, Records, RuleRecord, KsiRecord
  <2> QED BY <2>1, <2>2, WriteTyped
<1>e. CASE AttachEvidence
  <2>1. Write([store EXCEPT !.evidence = ~@])
    BY <1>e DEF AttachEvidence
  <2>2. [store EXCEPT !.evidence = ~@] \in Records
    BY <1>0, <2>1 DEF Write, Records, RuleRecord, KsiRecord
  <2> QED BY <2>1, <2>2, WriteTyped
<1>f. CASE Persist
  <2>1. Write([store EXCEPT !.persistent = ~@])
    BY <1>f DEF Persist
  <2>2. [store EXCEPT !.persistent = ~@] \in Records
    BY <1>0, <2>1 DEF Write, Records, RuleRecord, KsiRecord
  <2> QED BY <2>1, <2>2, WriteTyped
<1>g. ASSUME NEW t \in TestKind, Declare(t)
      PROVE  TypeOK'
  <2>1. Write([store EXCEPT !.tests = (@ \cup {t}) \ (@ \cap {t})])
    BY <1>g DEF Declare
  <2>2. [store EXCEPT !.tests = (@ \cup {t}) \ (@ \cap {t})] \in Records
    BY <1>0, <2>1 DEF Write, Records, RuleRecord, KsiRecord
  <2> QED BY <2>1, <2>2, WriteTyped
<1>h. ASSUME NEW ms \in SUBSET Methods, Collect(ms)
      PROVE  TypeOK'
  <2>1. [daily |-> "month",
         series |-> [m \in Methods |-> IF m \in ms THEN "fresh" ELSE history.series[m]],
         multi |-> history.multi \/ Cardinality(ms) > 1] \in History
    BY DEF TypeOK, History
  <2> QED BY <1>h, <2>1, HistoryTyped DEF Collect
<1>i. CASE Age
  <2> DEFINE h == [history EXCEPT
       !.daily = Older[@],
       !.series = [m \in Methods |-> Older[history.series[m]]]]
  <2> DEFINE D == {"absent", "month", "year", "old"}
             S == {"unseen", "fresh", "stale", "old"}
  <2>a. \A x \in D : Older[x] \in D
    BY DEF Older
  <2>b. \A x \in S : Older[x] \in S
    BY DEF Older
  <2>c. history \in [daily : D, series : [Methods -> S], multi : BOOLEAN]
    BY DEF TypeOK, History
  <2> HIDE DEF D, S
  <2>1. h \in [daily : D, series : [Methods -> S], multi : BOOLEAN]
    BY <2>a, <2>b, <2>c
  <2> USE DEF D, S
  <2>2. h \in History
    BY <2>1 DEF History
  <2> QED BY <1>i, <2>2, HistoryTyped DEF Age
<1>j. CASE Build
  BY <1>j, MergeTyped DEF Build, TypeOK, Records
<1>k. CASE UNCHANGED vars
  BY <1>k DEF vars, TypeOK
<1> QED BY <1>a, <1>b, <1>c, <1>d, <1>e, <1>f, <1>g, <1>h, <1>i, <1>j, <1>k DEF Next

(* Types: whatever a person, a collector or the build does to it, the      *)
(* store holds a record of the requirement's kind, or none.                *)
THEOREM TypeCorrect == Spec => []TypeOK
BY InitTyped, NextTyped, PTL DEF Spec

-----------------------------------------------------------------------------
(* What stays true of the record itself.                                    *)

(* A requirement that nothing holds up at a class is held up below it by   *)
(* an artifact only that class demands, or not at all: every other gate of *)
(* the lower class is one of the higher.                                   *)
LEMMA GapsBelow ==
  ASSUME NEW low \in {"a", "b"}, NEW high \in {"b", "c"},
         low = "a" => high = "b", low = "b" => high = "c"
  PROVE  NoNewObjection(low, high)
<1> SUFFICES ASSUME ReadyAt(high)
             PROVE  /\ Failures(low) = {}
                    /\ GateGaps(low) \subseteq
                         {g \in {"artifact"} : low \in due /\ high \notin due}
  BY DEF NoNewObjection
<1>1. Failures(low) = {}
  BY DEF Failures, ValidatorFailures, Hard
<1>2. CASE store = NoRecord
  BY <1>1, <1>2 DEF GateGaps
<1>3. CASE store # NoRecord /\ subject = "rule"
  <2>1. FrrGaps(store, high \in due) = {}
    BY <1>3 DEF ReadyAt, GateGaps
  <2>2. FrrGaps(store, low \in due) \subseteq
          {g \in {"artifact"} : low \in due /\ high \notin due}
    BY <2>1 DEF FrrGaps
  <2> QED BY <1>1, <1>3, <2>2 DEF GateGaps
<1>4. CASE store # NoRecord /\ subject # "rule"
  <2>1. KsiGaps(store, history, high) = {}
    BY <1>4 DEF ReadyAt, GateGaps
  <2>2. KsiGaps(store, history, low) = {}
    BY <2>1 DEF KsiGaps
  <2> QED BY <1>1, <1>4, <2>2 DEF GateGaps
<1> QED BY <1>2, <1>3, <1>4

THEOREM LowerClassIsReady == Spec => []HigherClassIsStricter
<1>1. HigherClassIsStricter
  BY GapsBelow DEF HigherClassIsStricter
<1> QED BY <1>1, PTL

(* The scanner passes a rule only where preflight finds no gap in it, and  *)
(* a KSI only where it finds none in the five narrative items.             *)
THEOREM ScannerPassesLess == Spec => []ScannerIsStricter
<1>1. TypeOK => ScannerIsStricter
  <2> SUFFICES ASSUME TypeOK, store # NoRecord PROVE
        /\ subject = "rule" /\ AllPass(RuleFindings(store)) /\ store.artifact = "real"
           => \A c \in Class : FrrGaps(store, c \in due) = {}
        /\ \A c \in Class :
             subject = "ksi" /\ AllPass(KsiFindings(store, history, c))
             => NarrativeGaps(store) = {}
    BY DEF ScannerIsStricter
  <2>1. /\ \A w : Stated(w) => Answered(w) /\ w # "absent"
        /\ \A ws : SomeStated(ws) => SomeAnswered(ws)
    BY DEF Stated, Answered, SomeStated, SomeAnswered
  <2>2. /\ \A p : PassIf(p) = "PASS" => p
        /\ \A p : PassOrAsk(p) = "PASS" => p
    BY DEF PassIf, PassOrAsk
  <2>3. ASSUME subject = "rule", AllPass(RuleFindings(store)), store.artifact = "real",
               NEW c \in Class
        PROVE  FrrGaps(store, c \in due) = {}
    <3>1. /\ RuleFindings(store).implementation = "PASS" /\ RuleFindings(store).reason = "PASS"
          /\ RuleFindings(store).risk = "PASS" /\ RuleFindings(store).verification = "PASS"
          /\ RuleFindings(store).validation = "PASS"
          /\ RuleFindings(store).independentVerification = "PASS"
          /\ RuleFindings(store).independentValidation = "PASS"
          /\ RuleFindings(store).responses = "PASS"
      BY <2>3 DEF AllPass, RuleFindings
    <3>2. /\ SomeStated(store.impl)
          /\ store.followed \/ Stated(store.item["risk"])
          /\ Stated(store.item["verification"]) /\ Stated(store.item["validation"])
          /\ Stated(store.item["independentVerification"])
          /\ Stated(store.item["independentValidation"])
          /\ Stated(store.item["responses"])
      BY <3>1 DEF RuleFindings, PassIf, PassOrAsk
    <3> QED BY <2>1, <2>3, <3>2 DEF FrrGaps, ReasonGiven, VerifiedAndValidated
  <2>4. ASSUME subject = "ksi", NEW c \in Class, AllPass(KsiFindings(store, history, c))
        PROVE  NarrativeGaps(store) = {}
    <3>1. /\ KsiFindings(store, history, c).measures = "PASS"
          /\ KsiFindings(store, history, c).operatingCycle = "PASS"
          /\ KsiFindings(store, history, c).measuresVerification = "PASS"
          /\ KsiFindings(store, history, c).automationVerification = "PASS"
          /\ KsiFindings(store, history, c).validation = "PASS"
      BY <2>4 DEF AllPass, KsiFindings
    <3>2. /\ SomeStated(store.impl) /\ Stated(store.item["operatingCycle"])
          /\ Stated(store.item["measuresVerification"])
          /\ Stated(store.item["automationVerification"])
          /\ Stated(store.item["validation"])
      BY <2>2, <3>1 DEF KsiFindings
    <3> QED BY <2>1, <3>2 DEF NarrativeGaps, HasMeasures, OperatingCycle
  <2> QED BY <2>3, <2>4
<1> QED BY <1>1, TypeCorrect, PTL

LEMMA LeastWorks ==
  ASSUME NEW counted \in Nat, NEW declared \in Nat, NEW working \in Nat, NEW least \in Nat,
         counted <= declared, ~(counted < least), ~(working < Lesser(least, declared))
  PROVE  working >= least
BY DEF Lesser

(* At Class C the class minimum of methods works, for any number of        *)
(* methods: the build gate counts the declared ones, preflight binds them. *)
THEOREM EnoughMethodsAlwaysWork == Spec => []EnoughMethodsWork
<1>1. TypeOK => EnoughMethodsWork
  <2> SUFFICES ASSUME TypeOK, subject = "ksi", store # NoRecord, ReadyAt("c"),
                      Populated(store.impl), "TBD id" \notin store.tests,
                      history.daily # "absent"
               PROVE  Cardinality(Working(store, history)) >= MinMethods["c"]
    BY DEF EnoughMethodsWork
  <2> DEFINE counted == Cardinality(store.tests \ {"no id"})
             declared == Cardinality(Declared(store))
             working == Cardinality(Working(store, history))
             least == MinMethods["c"]
  <2>1. store \in KsiRecord /\ store.tests \subseteq Methods \cup {"no id", "TBD id"}
    BY DEF TypeOK, KsiRecord, TestKind
  <2>2. IsFiniteSet(Declared(store)) /\ IsFiniteSet(Working(store, history))
    BY MethodsAssumption, FS_Subset DEF Declared, Working
  <2>3. store.tests \ {"no id"} \subseteq Declared(store)
    BY <2>1 DEF Declared
  <2>4. counted \in Nat /\ declared \in Nat /\ working \in Nat /\ counted <= declared
    BY <2>2, <2>3, FS_Subset, FS_CardinalityType
  <2>5. least \in Nat
    BY MinMethodsAssumption
  <2>6. ~(counted < least)
    <3>1. Entry.impl = store.impl
      BY <2>1 DEF Entry, SubmittedKsi, KsiRecord
    <3>2. ~TooFewMethods(Entry, store.tests, "c")
      BY DEF ReadyAt, Failures, ValidatorFailures, Hard
    <3> QED BY <3>1, <3>2, Zenon DEF TooFewMethods, CountAutomated
  <2>7. ~(working < Lesser(least, declared))
    <3>1. ~BindingGap(store, history, "c")
      BY DEF ReadyAt, GateGaps, KsiGaps
    <3> QED BY <3>1, Zenon DEF BindingGap
  <2> QED BY <2>4, <2>5, <2>6, <2>7, LeastWorks
<1> QED BY <1>1, TypeCorrect, PTL

-----------------------------------------------------------------------------
(* What the gates let through is submitted.  Two hypotheses, on what people *)
(* do: they write the template's boilerplate nowhere but in the field for   *)
(* the acceptance, where preflight does not count it; and the risk of a KSI *)
(* is told in the field of that name, since the placeholder in it hides the *)
(* alias customer_risk from the builder (RiskIsSubmitted fails on that).    *)

OwnWords ==
  /\ \A i \in (RuleItem \cup KsiItem) \ {"acceptance"} : "boiler" \notin Vocabulary[i]
  /\ \A ws \in ImplLists : "boiler" \notin ws
OneRisk == \A F \in Focuses["ksi"] : "customerRisk" \notin F

OwnRecord(r) ==
  /\ "boiler" \notin r.impl
  /\ \A i \in DOMAIN r.item \ {"acceptance"} : r.item[i] # "boiler"
  /\ subject = "ksi" => r.item["customerRisk"] = "absent"

WordsInv ==
  /\ subject \in Subject /\ focus \in Focuses[subject]
  /\ store # NoRecord => OwnRecord(store)
  /\ built => /\ store # NoRecord
              /\ \A i \in DOMAIN store.item :
                   store.item[i] = "absent" => Scaffold.item[i] = "absent"

LEMMA ScaffoldOwn == subject \in Subject => OwnRecord(Scaffold)
<1>1. CASE subject = "rule"
  BY <1>1 DEF Scaffold, OwnRecord, RuleScaffold, RuleItem
<1>2. CASE subject = "ksi"
  BY <1>2 DEF Scaffold, OwnRecord, KsiScaffold, KsiItem
<1> QED BY <1>1, <1>2 DEF Subject

LEMMA FinishedOwn ==
  /\ subject = "rule" => OwnRecord(RuleFinished)
  /\ subject = "ksi" => OwnRecord(KsiFinished)
<1>1. subject = "rule" => OwnRecord(RuleFinished)
  <2>1. RuleFinished.item =
     [[i \in RuleItem |-> CASE i = "reason" -> "absent"
                            [] i = "acceptance" -> "boiler"
                            [] i = "responses" -> "brief"
                            [] OTHER -> "tbd"] EXCEPT
     !["risk"] = "text", !["verification"] = "text", !["validation"] = "text",
     !["independentVerification"] = "text", !["owner"] = "text",
     !["independentValidation"] = "text", !["responses"] = "text"]
    BY DEF RuleFinished, RuleScaffold
  <2>2. \A i \in DOMAIN RuleFinished.item \ {"acceptance"} : RuleFinished.item[i] # "boiler"
    BY <2>1 DEF RuleItem
  <2>3. "boiler" \notin RuleFinished.impl
    BY DEF RuleFinished
  <2> QED BY <2>2, <2>3 DEF OwnRecord
<1>2. subject = "ksi" => OwnRecord(KsiFinished)
  BY DEF OwnRecord, KsiFinished, KsiItem
<1> QED BY <1>1, <1>2

LEMMA WordsInit == OwnWords /\ OneRisk /\ Init => WordsInv
BY FinishedOwn DEF Init, WordsInv, Subject

LEMMA WordsBuild ==
  ASSUME TypeOK, WordsInv, Build
  PROVE  WordsInv'
<1>1. /\ store' = MergeScaffold(store) /\ built' = TRUE /\ subject' = subject
      /\ focus' = focus
  BY DEF Build
<1>2. OwnRecord(Scaffold) /\ Scaffold \in Records
  BY ScaffoldOwn, ScaffoldsTyped DEF WordsInv, Records, Scaffold
<1>3. MergeScaffold(store) # NoRecord
  BY MergeTyped, NoRecordAssumption DEF Records
<1>4. DOMAIN Scaffold.item = IF subject = "rule" THEN RuleItem ELSE KsiItem
  BY <1>2 DEF Records, RuleRecord, KsiRecord
<1>5. CASE store = NoRecord
  <2>1. MergeScaffold(store) = Scaffold
    BY <1>5 DEF MergeScaffold
  <2>2. store' # NoRecord /\ store' = Scaffold /\ Scaffold' = Scaffold
    BY <1>1, <1>3, <2>1 DEF Scaffold
  <2>3. OwnRecord(store)'
    BY <1>1, <1>2, <2>2 DEF OwnRecord
  <2> QED BY <1>1, <2>2, <2>3 DEF WordsInv
<1>6. CASE store # NoRecord
  <2> DEFINE it == [i \in DOMAIN store.item |->
                      IF store.item[i] = "absent" THEN Scaffold.item[i] ELSE store.item[i]]
  <2>1. MergeScaffold(store) = [store EXCEPT !.item = it]
    BY <1>6 DEF MergeScaffold
  <2>2. store \in Records /\ DOMAIN store.item = DOMAIN Scaffold.item
    BY <1>4, <1>6 DEF TypeOK, Records, RuleRecord, KsiRecord
  <2>3. OwnRecord(store)
    BY <1>6 DEF WordsInv
  <2>4. store'.item = it /\ store'.impl = store.impl /\ DOMAIN it = DOMAIN store.item
    BY <1>1, <2>1, <2>2 DEF Records, RuleRecord, KsiRecord
  <2>5. ASSUME NEW i \in DOMAIN store.item
        PROVE  /\ it[i] = Scaffold.item[i] \/ (it[i] = store.item[i] /\ it[i] # "absent")
               /\ store.item[i] = "absent" => it[i] = Scaffold.item[i]
    BY <2>2
  <2> HIDE DEF it
  <2>6. \A i \in DOMAIN it \ {"acceptance"} : it[i] # "boiler"
    BY <1>2, <2>2, <2>3, <2>4, <2>5, Zenon DEF OwnRecord
  <2>7. \A i \in DOMAIN it : it[i] = "absent" => Scaffold.item[i] = "absent"
    BY <2>4, <2>5, Zenon
  <2>8. subject = "ksi" => it["customerRisk"] = "absent"
    <3> SUFFICES ASSUME subject = "ksi" PROVE it["customerRisk"] = "absent"
      OBVIOUS
    <3>1. "customerRisk" \in DOMAIN store.item
      BY <1>4, <2>2 DEF KsiItem
    <3>2. store.item["customerRisk"] = "absent" /\ Scaffold.item["customerRisk"] = "absent"
      BY <1>2, <2>3 DEF OwnRecord
    <3>3. it["customerRisk"] = Scaffold.item["customerRisk"]
      BY <2>5, <3>1, <3>2, Zenon
    <3> QED BY <3>2, <3>3
  <2>9. OwnRecord(store)'
    BY <1>1, <2>3, <2>4, <2>6, <2>8 DEF OwnRecord
  <2>10. Scaffold' = Scaffold
    BY <1>1 DEF Scaffold
  <2> QED BY <1>1, <1>3, <2>4, <2>7, <2>9, <2>10 DEF WordsInv
<1> QED BY <1>5, <1>6

LEMMA WordsHistory ==
  ASSUME TypeOK, WordsInv, NEW h, HistoryMoves(h)
  PROVE  WordsInv'
<1>1. /\ subject = "ksi" /\ store \in KsiRecord /\ store # NoRecord /\ built' = FALSE
      /\ subject' = subject /\ focus' = focus
  BY DEF HistoryMoves, TypeOK
<1>2. PICK last \in Moved(store.item["last30Days"]), year \in Moved(store.item["upToOneYear"]) :
        store' = [store EXCEPT !.item["last30Days"] = last, !.item["upToOneYear"] = year]
  BY DEF HistoryMoves
<1>3. OwnRecord(store)
  BY <1>1 DEF WordsInv
<1>4. /\ store.item \in [KsiItem -> Words] /\ "last30Days" \in KsiItem
      /\ "upToOneYear" \in KsiItem /\ "customerRisk" \in KsiItem
  BY <1>1 DEF KsiRecord, KsiItem
<1>5. last # "boiler" /\ year # "boiler"
  BY <1>3, <1>4 DEF OwnRecord, Moved
<1>6. /\ store'.impl = store.impl
      /\ store'.item = [store.item EXCEPT !["last30Days"] = last, !["upToOneYear"] = year]
  BY <1>1, <1>2 DEF KsiRecord
<1>7. OwnRecord(store)'
  BY <1>1, <1>3, <1>4, <1>5, <1>6 DEF OwnRecord
<1> QED BY <1>1, <1>7 DEF WordsInv

LEMMA WordsStep ==
  ASSUME OwnWords, OneRisk
  PROVE  TypeOK /\ WordsInv /\ [Next]_vars => WordsInv'
<1> SUFFICES ASSUME TypeOK, WordsInv, [Next]_vars PROVE WordsInv'
  OBVIOUS
<1>0. TypeOK'
  BY NextTyped
<1>1. ASSUME NEW r, Write(r), OwnRecord(r) PROVE WordsInv'
  <2>1. store' = r /\ built' = FALSE /\ subject' = subject /\ focus' = focus
    BY <1>1 DEF Write
  <2>2. OwnRecord(store)'
    BY <1>1, <2>1 DEF OwnRecord
  <2> QED BY <2>1, <2>2 DEF WordsInv
<1>2. store # NoRecord => store \in Records /\ OwnRecord(store)
  BY DEF TypeOK, Records, WordsInv
<1>a. ASSUME NEW i \in RuleItem \cup KsiItem, Edit(i)
      PROVE  WordsInv'
  <2>1. PICK w \in Vocabulary[i] : Write([store EXCEPT !.item[i] = w])
    BY <1>a DEF Edit
  <2>2. i # "acceptance" => w # "boiler"
    BY DEF OwnWords
  <2>3. subject = "ksi" => i # "customerRisk"
    BY <1>a DEF Edit, OneRisk, WordsInv
  <2> DEFINE r == [store EXCEPT !.item[i] = w]
  <2>4. r.impl = store.impl /\ r.item = [store.item EXCEPT ![i] = w]
    BY <1>2, <2>1 DEF Write, Records, RuleRecord, KsiRecord
  <2>5. OwnRecord(store)
    BY <1>2, <2>1 DEF Write
  <2> HIDE DEF r
  <2>6. OwnRecord(r)
    BY <2>2, <2>3, <2>4, <2>5 DEF OwnRecord
  <2> QED BY <1>1, <2>1, <2>6 DEF r
<1>b. CASE Narrate
  <2>1. PICK ws \in ImplLists : Write([store EXCEPT !.impl = ws])
    BY <1>b DEF Narrate
  <2>2. OwnRecord([store EXCEPT !.impl = ws])
    BY <1>2, <2>1 DEF Write, Records, RuleRecord, KsiRecord, OwnRecord, OwnWords
  <2> QED BY <1>1, <2>1, <2>2
<1>c. CASE Decide
  <2>1. Write([store EXCEPT !.followed = ~@])
    BY <1>c DEF Decide
  <2>2. OwnRecord([store EXCEPT !.followed = ~@])
    BY <1>2, <2>1 DEF Write, Records, RuleRecord, KsiRecord, OwnRecord
  <2> QED BY <1>1, <2>1, <2>2
<1>d. CASE AttachArtifact
  <2>1. PICK a \in {"none", "placeholder", "real"} : Write([store EXCEPT !.artifact = a])
    BY <1>d DEF AttachArtifact
  <2>2. OwnRecord([store EXCEPT !.artifact = a])
    BY <1>2, <2>1 DEF Write, Records, RuleRecord, KsiRecord, OwnRecord
  <2> QED BY <1>1, <2>1, <2>2
<1>e. CASE AttachEvidence
  <2>1. Write([store EXCEPT !.evidence = ~@])
    BY <1>e DEF AttachEvidence
  <2>2. OwnRecord([store EXCEPT !.evidence = ~@])
    BY <1>2, <2>1 DEF Write, Records, RuleRecord, KsiRecord, OwnRecord
  <2> QED BY <1>1, <2>1, <2>2
<1>f. CASE Persist
  <2>1. Write([store EXCEPT !.persistent = ~@])
    BY <1>f DEF Persist
  <2>2. OwnRecord([store EXCEPT !.persistent = ~@])
    BY <1>2, <2>1 DEF Write, Records, RuleRecord, KsiRecord, OwnRecord
  <2> QED BY <1>1, <2>1, <2>2
<1>g. ASSUME NEW t \in TestKind, Declare(t)
      PROVE  WordsInv'
  <2>1. Write([store EXCEPT !.tests = (@ \cup {t}) \ (@ \cap {t})])
    BY <1>g DEF Declare
  <2>2. OwnRecord([store EXCEPT !.tests = (@ \cup {t}) \ (@ \cap {t})])
    BY <1>2, <2>1 DEF Write, Records, RuleRecord, KsiRecord, OwnRecord
  <2> QED BY <1>1, <2>1, <2>2
<1>h. ASSUME NEW ms \in SUBSET Methods, Collect(ms)
      PROVE  WordsInv'
  BY <1>h, WordsHistory DEF Collect
<1>i. CASE Age
  BY <1>i, WordsHistory DEF Age
<1>j. CASE Build
  BY <1>j, WordsBuild
<1>k. CASE UNCHANGED vars
  BY <1>k DEF vars, WordsInv, OwnRecord, Scaffold
<1> QED BY <1>a, <1>b, <1>c, <1>d, <1>e, <1>f, <1>g, <1>h, <1>i, <1>j, <1>k DEF Next

\* An answer that is not the boilerplate is real; so is one of several.
LEMMA OwnAnswers ==
  ASSUME NEW w, Answered(w), w # "boiler"
  PROVE  Real(w) /\ w # "absent"
BY DEF Answered, Real

LEMMA OwnLists ==
  ASSUME NEW ws, SomeAnswered(ws), "boiler" \notin ws
  PROVE  SomeReal(ws)
BY OwnAnswers DEF SomeAnswered, SomeReal

LEMMA RulesAreTold ==
  ASSUME TypeOK, WordsInv, subject = "rule", store # NoRecord, NEW c \in Class,
         FrrGaps(store, c \in due) = {}
  PROVE  RuleTold(SubmittedRule(store), c)
<1> DEFINE s == SubmittedRule(store)
           x == store.item
<1>1. store \in RuleRecord /\ OwnRecord(store) /\ x \in [RuleItem -> Words]
  BY DEF TypeOK, WordsInv, RuleRecord
<1>2. /\ s.followed = store.followed /\ s.impl = store.impl /\ s.artifact = store.artifact
      /\ \A i \in RuleItem : x[i] # "absent" => s.item[i] = x[i]
  BY <1>1 DEF SubmittedRule, RuleRecord, OrTbd, OrBoiler
<1>3. "boiler" \notin store.impl /\ \A i \in RuleItem \ {"acceptance"} : x[i] # "boiler"
  BY <1>1 DEF OwnRecord
<1>4. ASSUME NEW i \in RuleItem \ {"acceptance"}, Answered(x[i])
      PROVE  Real(s.item[i])
  BY <1>2, <1>3, <1>4, OwnAnswers
<1>5. {"reason", "risk", "verification", "validation", "acceptance", "independentVerification",
       "independentValidation", "responses"} \subseteq RuleItem
  BY DEF RuleItem
<1>6. /\ Answered(x["independentVerification"]) /\ Answered(x["independentValidation"])
      /\ Answered(x["responses"])
      /\ store.followed => /\ SomeAnswered(store.impl)
                           /\ Answered(x["verification"]) /\ Answered(x["validation"])
                           /\ c \in due => store.artifact = "real"
      /\ ~store.followed => /\ ReasonGiven(store) /\ Answered(x["risk"])
                            /\ VerifiedAndValidated(store) \/ AcceptedByOfficial(store)
  BY <1>1 DEF FrrGaps, RuleRecord
<1>7. /\ Real(s.item["independentVerification"]) /\ Real(s.item["independentValidation"])
      /\ Real(s.item["responses"])
  BY <1>4, <1>5, <1>6
<1> HIDE DEF s, x
<1>8. CASE store.followed
  <2>1. SomeReal(s.impl) /\ Real(s.item["verification"]) /\ Real(s.item["validation"])
    BY <1>2, <1>3, <1>4, <1>5, <1>6, <1>8, OwnLists
  <2> QED BY <1>2, <1>6, <1>7, <1>8, <2>1 DEF RuleTold, s
<1>9. CASE ~store.followed
  <2>1. SomeReal(s.impl) \/ Real(s.item["reason"])
    BY <1>2, <1>3, <1>4, <1>5, <1>6, <1>9, OwnLists DEF ReasonGiven, x
  <2>2. Real(s.item["risk"])
    BY <1>4, <1>5, <1>6, <1>9
  <2>3. CASE VerifiedAndValidated(store)
    <3>1. Real(s.item["verification"]) /\ Real(s.item["validation"])
      BY <1>4, <1>5, <2>3 DEF VerifiedAndValidated, x
    <3> QED BY <1>2, <1>7, <1>9, <2>1, <2>2, <3>1 DEF RuleTold, s
  <2>4. CASE AcceptedByOfficial(store)
    <3>1. Real(s.item["acceptance"])
      BY <1>2, <1>5, <2>4, OwnAnswers DEF AcceptedByOfficial, x
    <3> QED BY <1>2, <1>7, <1>9, <2>1, <2>2, <3>1 DEF RuleTold, s
  <2> QED BY <1>6, <1>9, <2>3, <2>4
<1> QED BY <1>8, <1>9

LEMMA KsisAreTold ==
  ASSUME TypeOK, WordsInv, subject = "ksi", store # NoRecord, built, NEW c \in Class,
         KsiGaps(store, history, c) = {}
  PROVE  KsiTold(SubmittedKsi(store, history), c)
<1> DEFINE s == SubmittedKsi(store, history)
           x == store.item
<1>1. store \in KsiRecord /\ OwnRecord(store) /\ x \in [KsiItem -> Words]
  BY DEF TypeOK, WordsInv, KsiRecord
<1>2. /\ s.impl = store.impl /\ s.persistent = store.persistent
      /\ \A i \in KsiItem : x[i] # "absent" => s.item[i] = x[i] \/ s.item[i] = "claim"
  BY <1>1 DEF SubmittedKsi, KsiRecord, OrTbd, OrBoiler
<1>3. "boiler" \notin store.impl /\ \A i \in KsiItem : x[i] # "boiler"
  BY <1>1 DEF OwnRecord, KsiItem
<1>4. ASSUME NEW i \in KsiItem, Answered(x[i])
      PROVE  Real(s.item[i])
  <2>1. Real(x[i]) /\ x[i] # "absent" /\ Real("claim")
    BY <1>3, <1>4, OwnAnswers DEF Real
  <2>2. s.item[i] = x[i] \/ s.item[i] = "claim"
    BY <1>2, <2>1
  <2> HIDE DEF s, x
  <2> QED BY <2>1, <2>2
<1>5. {"measures", "reason", "risk", "customerRisk", "operatingCycle", "measuresVerification",
       "automationVerification", "validation", "last30Days", "upToOneYear"} \subseteq KsiItem
  BY DEF KsiItem
<1>6. /\ Answered(x["measuresVerification"]) /\ Answered(x["automationVerification"])
      /\ Answered(x["validation"])
      /\ ~HasMeasures(store) => Answered(x["reason"]) /\ RiskGiven(store)
      /\ HasMeasures(store) /\ store.persistent => Answered(OperatingCycle(store))
      /\ c = "c" => Answered(x["last30Days"]) /\ Answered(x["upToOneYear"])
  <2>1. NarrativeGaps(store) = {} /\ (c = "c" => MetricGaps(store, history) = {})
    BY DEF KsiGaps
  <2> QED BY <2>1 DEF NarrativeGaps, MetricGaps
<1>7. OperatingCycle(store) = x["operatingCycle"]
  <2>1. Scaffold.item["operatingCycle"] = "tbd"
    BY <1>5 DEF Scaffold, KsiScaffold
  <2>2. DOMAIN x = KsiItem
    BY <1>1
  <2>3. x["operatingCycle"] # "absent"
    BY <1>5, <2>1, <2>2 DEF WordsInv
  <2> QED BY <2>3 DEF OperatingCycle
<1>8. RiskGiven(store) => Answered(x["risk"])
  <2>1. x["customerRisk"] = "absent"
    BY <1>1 DEF OwnRecord
  <2> QED BY <2>1 DEF RiskGiven, Answered
<1>9. HasMeasures(store) <=> SomeAnswered(store.impl) \/ Answered(x["measures"])
  BY DEF HasMeasures
<1>a. s.item["measures"] = OrTbd(x["measures"])
  BY <1>1, <1>5 DEF SubmittedKsi, KsiRecord
<1> HIDE DEF s, x
<1>10. HasMeasures(store) => MeasuresTold(s)
  BY <1>2, <1>3, <1>4, <1>5, <1>9, OwnLists DEF MeasuresTold
<1>11. ~HasMeasures(store) => Real(s.item["reason"]) /\ Real(s.item["risk"])
  BY <1>4, <1>5, <1>6, <1>8
<1>12. /\ Real(s.item["measuresVerification"]) /\ Real(s.item["automationVerification"])
       /\ Real(s.item["validation"])
       /\ c = "c" => Real(s.item["last30Days"]) /\ Real(s.item["upToOneYear"])
  BY <1>4, <1>5, <1>6
<1>13. MeasuresTold(s) /\ s.persistent => Real(s.item["operatingCycle"])
  <2>1. \A w : Real(w) => Answered(w)
    BY DEF Real, Answered
  <2>2. SomeReal(s.impl) => SomeAnswered(store.impl)
    BY <1>2, <2>1 DEF SomeReal, SomeAnswered
  <2>3. Real(s.item["measures"]) => Answered(x["measures"])
    BY <1>a DEF OrTbd, Real, Answered
  <2>4. MeasuresTold(s) => HasMeasures(store)
    BY <1>9, <2>2, <2>3 DEF MeasuresTold
  <2> QED BY <1>2, <1>4, <1>5, <1>6, <1>7, <2>4
<1> QED BY <1>10, <1>11, <1>12, <1>13 DEF KsiTold, s

LEMMA WordsInvariant ==
  ASSUME OwnWords, OneRisk
  PROVE  Spec => []WordsInv
<1>1. Init => WordsInv
  BY WordsInit
<1>2. TypeOK /\ WordsInv /\ [Next]_vars => WordsInv'
  BY WordsStep
<1> QED BY <1>1, <1>2, TypeCorrect, PTL DEF Spec

(* Whatever the gates let through is in the submitted SDR in the           *)
(* provider's words: a built record has no field left that the builder     *)
(* would fill with a placeholder, and what preflight takes for an answer   *)
(* the builder copies.                                                     *)
THEOREM AnswersReachTheSdr == Spec => [](OwnWords /\ OneRisk => AnswersAreSubmitted)
<1>1. TypeOK /\ WordsInv => AnswersAreSubmitted
  <2> SUFFICES ASSUME TypeOK, WordsInv, NEW c \in Class, ReadyAt(c) PROVE Told(c)
    BY DEF AnswersAreSubmitted
  <2>1. built /\ store # NoRecord /\ GateGaps(c) = {}
    BY DEF ReadyAt, WordsInv
  <2>2. CASE subject = "rule"
    BY <2>1, <2>2, RulesAreTold DEF Told, Entry, GateGaps
  <2>3. CASE subject = "ksi"
    BY <2>1, <2>3, KsisAreTold DEF Told, Entry, GateGaps
  <2> QED BY <2>2, <2>3 DEF WordsInv, Subject
<1>2. CASE OwnWords /\ OneRisk
  BY <1>1, <1>2, WordsInvariant, TypeCorrect, PTL
<1>3. CASE ~(OwnWords /\ OneRisk)
  <2>1. OwnWords /\ OneRisk => AnswersAreSubmitted
    BY <1>3
  <2> QED BY <2>1, PTL
<1> QED BY <1>2, <1>3
=============================================================================
