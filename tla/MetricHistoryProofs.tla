------------------------- MODULE MetricHistoryProofs -------------------------
(***************************************************************************)
(* Theorems about MetricHistory, for any number of jobs and KSIs, any      *)
(* retention window, clock, retry limit and number of faults, lost answers *)
(* and reruns.                                                             *)
(***************************************************************************)
EXTENDS MetricHistory, HistoryContentProofs

-----------------------------------------------------------------------------
(* Steps that differ only in their guards have one effect on the invariant. *)

\* The job ends, or waits to be started again, without touching the history.
Ending(r) ==
    \/ GiveUp(r) \/ Crash(r) \/ Rerun(r) \/ RestoreFails(r)
    \/ SignFails(r) \/ ArchiveFails(r) \/ PublishFails(r)

\* The history PUT is applied, whether or not its answer arrives.
Landing(r) == Publish(r) \/ PublishAckLost(r)

Appending(r) == AppendDatapoints(r) \/ AppendNothing(r)

\* Every step is one of these kinds of a step of the clock or of one job.
LEMMA NextCases ==
    ASSUME Next
    PROVE  \/ Tick
           \/ \E r \in Runs :
                 \/ Collect(r) \/ Retry(r) \/ Restore(r) \/ LoadToday(r) \/ Appending(r)
                 \/ Sign(r) \/ Archive(r) \/ PublishConflict(r) \/ Ending(r) \/ Landing(r)
BY DEF Next, Step, Failure, Ending, Landing, Appending

\* An ended job leaves an empty workspace, and everything else is as it was.
LEMMA EndingEffect ==
    ASSUME NEW r \in Runs, Ending(r)
    PROVE  /\ UNCHANGED <<clock, store, version, landed, gen, attempt>>
           /\ \E p \in Ended \cup {"idle"} : pc' = [pc EXCEPT ![r] = p]
           /\ local' = [local EXCEPT ![r] = EmptyHistory]
           /\ etag' = [etag EXCEPT ![r] = 0]
           /\ today' = [today EXCEPT ![r] = 0]
           /\ facts' = [facts EXCEPT ![r] = NoFacts]
           /\ archive' = archive \/ (pc[r] = "archive" /\ PutObservations(r))
           /\ faults' \in {faults, faults + 1} /\ lostAcks' \in {lostAcks, lostAcks + 1}
<1>1. \E p \in Ended \cup {"idle"} : End(r, p)
  BY DEF Ending, GiveUp, Crash, Rerun, RestoreFails, SignFails, ArchiveFails, PublishFails,
         Ended
<1>2. UNCHANGED <<clock, store, version, landed, attempt>>
  BY DEF Ending, GiveUp, Crash, Rerun, RestoreFails, SignFails, ArchiveFails, PublishFails,
         world
<1>3. archive' = archive \/ (pc[r] = "archive" /\ PutObservations(r))
  BY DEF Ending, GiveUp, Crash, Rerun, RestoreFails, SignFails, ArchiveFails, PublishFails,
         world
<1>4. UNCHANGED faultVars \/ Fault \/ LostAck
  BY DEF Ending, GiveUp, Crash, Rerun, RestoreFails, SignFails, ArchiveFails, PublishFails
<1> QED BY <1>1, <1>2, <1>3, <1>4 DEF End, Goto, Discard, Fault, LostAck, faultVars

\* A landing replaces the restored object by the local copy, and the job goes on
\* with its workspace or ends without it.
LEMMA LandingEffect ==
    ASSUME NEW r \in Runs, Landing(r)
    PROVE  /\ pc[r] = "publish" /\ etag[r] = version
           /\ store' = local[r] /\ version' = version + 1
           /\ landed' = Append(landed, Pending(r))
           /\ UNCHANGED <<clock, archive, gen, attempt>>
           /\ faults' = faults /\ lostAcks' \in {lostAcks, lostAcks + 1}
           /\ \E p \in {"done", "failed", "conflict"} : pc' = [pc EXCEPT ![r] = p]
           /\ \/ UNCHANGED <<local, etag, today, facts>>
              \/ /\ local' = [local EXCEPT ![r] = EmptyHistory]
                 /\ etag' = [etag EXCEPT ![r] = 0]
                 /\ today' = [today EXCEPT ![r] = 0]
                 /\ facts' = [facts EXCEPT ![r] = NoFacts]
BY DEF Landing, Publish, PublishAckLost, PutHistory, PreconditionHolds, End, Goto,
       Discard, workspace, LostAck, faultVars

-----------------------------------------------------------------------------
(* Types. *)

\* What a job's appender puts together is a contribution.
LEMMA ContributionType ==
    ASSUME TypeOK, NEW r \in Runs, NEW t \in Nat
    PROVE  ContributionOf(r, t) \in Contribution
BY DEF TypeOK, ContributionOf, Contribution, StampOf, Stamp, FactStore

\* An empty history, an empty facts store and the observations of a typed
\* history are typed.
LEMMA WorkspaceTypes ==
    /\ EmptyHistory \in History
    /\ NoFacts \in FactStore
    /\ \A h \in History, t \in Nat : RunObservations(h, t) \in [KSIs -> SUBSET Observation]
<1>1. EmptyHistory \in History
  BY EmptyHistoryIsIntact DEF IntactHistory
<1>2. NoFacts \in FactStore
  BY DEF NoFacts, FactStore
<1>3. \A h \in History, t \in Nat : RunObservations(h, t) \in [KSIs -> SUBSET Observation]
  BY DEF RunObservations, History
<1> QED BY <1>1, <1>2, <1>3

-----------------------------------------------------------------------------
(* The parts of the invariant, one lemma each. *)

\* The empty bucket and idle jobs satisfy the invariant.
LEMMA InitIInv == Init => IInv
<1> SUFFICES ASSUME Init PROVE IInv
  OBVIOUS
<1> USE DEF Init
<1>1. IntactHistory(EmptyHistory) /\ EmptyHistory \in History /\ NoFacts \in FactStore
  BY EmptyHistoryIsIntact, WorkspaceTypes
<1>2. TypeOK
  BY <1>1 DEF TypeOK, Phases
<1>3. ContentsIntact
  BY <1>1 DEF ContentsIntact
<1>4. ClockIsAhead
  <2>1. DayOf(0) \in Nat
    BY DayOfIsMonotone
  <2>2. StampedBy(EmptyHistory, 0)
    BY DEF StampedBy, EmptyHistory
  <2> QED BY <2>1, <2>2 DEF ClockIsAhead
<1>5. CurrentCopies /\ SpentStamps
  BY DEF CurrentCopies, CurrentCopy, SpentStamps, Restored, Appended
<1> QED BY <1>2, <1>3, <1>4, <1>5 DEF IInv

\* The appender is given a timely contribution, so what it writes is intact.
LEMMA AppendingEffect ==
    ASSUME IInv, NEW r \in Runs, Appending(r)
    PROVE  LET c == ContributionOf(r, clock)
           IN  /\ c \in Contribution
               /\ IntactHistory(AppendRun(local[r], c))
               /\ StampedBy(AppendRun(local[r], c), clock)
               /\ local' = [local EXCEPT ![r] = AppendRun(local[r], c)]
               /\ UNCHANGED <<clock, world, attempt, gen, facts, today, etag, faultVars>>
               /\ \E p \in {"sign", "archive", "empty"} :
                     /\ pc' = [pc EXCEPT ![r] = p]
                     /\ p # "empty" => Appends(c) # {}
<1> DEFINE c == ContributionOf(r, clock)
<1>1. c \in Contribution /\ c.at = clock /\ c.today = today[r] /\ clock \in Nat
  BY ContributionType DEF IInv, TypeOK, ContributionOf
<1>2. /\ local' = [local EXCEPT ![r] = AppendRun(local[r], c)]
      /\ UNCHANGED <<clock, world, attempt, gen, facts, today, etag, faultVars>>
      /\ \E p \in {"sign", "archive", "empty"} :
            /\ pc' = [pc EXCEPT ![r] = p]
            /\ p # "empty" => Appends(c) # {}
  BY DEF Appending, AppendDatapoints, AppendNothing, Goto, AfterAppend, IInv, TypeOK
<1>3. IntactHistory(local[r]) /\ StampedBy(local[r], clock) /\ today[r] <= DayOf(clock)
  BY DEF IInv, ContentsIntact, ClockIsAhead
<1> HIDE DEF c
<1>4. \A k \in KSIs : Timely(local[r].obs[k], c)
  BY <1>1, <1>3 DEF Timely, StampedBy
<1>5. IntactHistory(AppendRun(local[r], c))
  BY <1>1, <1>3, <1>4, AppendRunKeepsIntact
<1>6. StampedBy(AppendRun(local[r], c), clock)
  <2> SUFFICES ASSUME NEW k \in KSIs, NEW o \in AppendRun(local[r], c).obs[k]
               PROVE  o.at <= clock
    BY DEF StampedBy
  <2>1. o \in local[r].obs[k] \/ o.at = c.at
    BY AppendRunObs
  <2> QED BY <1>1, <1>3, <2>1 DEF StampedBy
<1> QED BY <1>1, <1>2, <1>5, <1>6 DEF c

\* The publisher's signing rewrites the local copy and nothing else.
LEMMA SignEffect ==
    ASSUME IInv, NEW r \in Runs, Sign(r)
    PROVE  /\ pc[r] = "sign" /\ pc' = [pc EXCEPT ![r] = "archive"]
           /\ local' = [local EXCEPT ![r] = SignHistory(local[r])]
           /\ IntactHistory(SignHistory(local[r]))
           /\ SignHistory(local[r]).obs = local[r].obs
           /\ SignHistory(local[r]).lastAt = local[r].lastAt
           /\ UNCHANGED <<clock, world, attempt, gen, facts, today, etag, faultVars>>
<1>1. IntactHistory(local[r])
  BY DEF IInv, ContentsIntact
<1> QED BY <1>1, SignKeepsIntact DEF Sign, Goto, IInv, TypeOK

\* What the object and the local copies hold after a step was there before, is
\* empty, or was computed by an append or a signature from what was there.
LEMMA ContentsStayIntact ==
    ASSUME IInv, [Next]_vars
    PROVE  ContentsIntact'
<1>1. IntactHistory(store) /\ \A r \in Runs : IntactHistory(local[r])
  BY DEF IInv, ContentsIntact
<1>2. local \in [Runs -> History]
  BY DEF IInv, TypeOK
<1>3. IntactHistory(EmptyHistory)
  BY EmptyHistoryIsIntact
<1>4. SUFFICES IntactHistory(store') /\ \A r \in Runs : IntactHistory(local'[r])
  BY DEF ContentsIntact
<1>5. CASE UNCHANGED <<store, local>>
  BY <1>1, <1>5
<1>6. CASE \E r \in Runs : Restore(r)
  <2>1. PICK r \in Runs : store' = store /\ local' = [local EXCEPT ![r] = store]
    BY <1>6 DEF Restore, world
  <2> QED BY <1>1, <1>2, <2>1
<1>7. CASE \E r \in Runs : Appending(r)
  <2>1. PICK r \in Runs : Appending(r)
    BY <1>7
  <2> DEFINE h == AppendRun(local[r], ContributionOf(r, clock))
  <2>2. IntactHistory(h) /\ local' = [local EXCEPT ![r] = h] /\ store' = store
    BY <2>1, AppendingEffect DEF world
  <2> HIDE DEF h
  <2> QED BY <1>1, <1>2, <2>2
<1>8. CASE \E r \in Runs : Sign(r)
  <2>1. PICK r \in Runs : Sign(r)
    BY <1>8
  <2> DEFINE h == SignHistory(local[r])
  <2>2. IntactHistory(h) /\ local' = [local EXCEPT ![r] = h] /\ store' = store
    BY <2>1, SignEffect DEF world
  <2> HIDE DEF h
  <2> QED BY <1>1, <1>2, <2>2
<1>9. CASE \E r \in Runs : Ending(r)
  <2>1. PICK r \in Runs : store' = store /\ local' = [local EXCEPT ![r] = EmptyHistory]
    BY <1>9, EndingEffect
  <2> QED BY <1>1, <1>2, <1>3, <2>1
<1>10. CASE \E r \in Runs : Landing(r)
  <2>1. PICK r \in Runs : /\ store' = local[r]
                          /\ local' = local \/ local' = [local EXCEPT ![r] = EmptyHistory]
    BY <1>10, LandingEffect
  <2> QED BY <1>1, <1>2, <1>3, <2>1
<1>11. \/ UNCHANGED <<store, local>>
       \/ \E r \in Runs : \/ Restore(r) \/ Appending(r) \/ Sign(r)
                          \/ Ending(r) \/ Landing(r)
  <2>1. CASE Next
    <3>1. CASE Tick
      BY <3>1 DEF Tick, world, workspace
    <3>2. CASE \E r \in Runs : Collect(r) \/ Retry(r) \/ LoadToday(r) \/ Archive(r)
                                \/ PublishConflict(r)
      BY <3>2 DEF Collect, Retry, LoadToday, Archive, PublishConflict, world, workspace
    <3> QED BY <2>1, <3>1, <3>2, NextCases
  <2>2. CASE UNCHANGED vars
    BY <2>2 DEF vars
  <2> QED BY <2>1, <2>2
<1> QED BY <1>5, <1>6, <1>7, <1>8, <1>9, <1>10, <1>11

\* The record a job archives is typed, its date included.
LEMMA ArchivedRecordType ==
    ASSUME IInv, NEW r \in Runs, pc[r] = "archive", PutObservations(r)
    PROVE  archive' \subseteq ArchiveRecord
<1>1. local[r] \in History /\ local[r].lastAt \in Nat /\ archive \subseteq ArchiveRecord
  BY DEF IInv, TypeOK, CurrentCopies, CurrentCopy, Appended
<1>2. ObservationRecord(r) \in ArchiveRecord
  BY <1>1, WorkspaceTypes, DayOfIsMonotone DEF ObservationRecord, ArchiveRecord
<1> QED BY <1>1, <1>2 DEF PutObservations

\* An ended job's empty workspace is typed.
LEMMA EndingTypes ==
    ASSUME IInv, NEW r \in Runs, Ending(r)
    PROVE  TypeOK'
<1>1. TypeOK
  BY DEF IInv
<1>2. archive' \subseteq ArchiveRecord
  BY <1>1, EndingEffect, ArchivedRecordType DEF TypeOK
<1>3. UNCHANGED <<clock, store, version, landed, gen, attempt>>
  BY EndingEffect
<1>4. /\ local' = [local EXCEPT ![r] = EmptyHistory] /\ etag' = [etag EXCEPT ![r] = 0]
      /\ today' = [today EXCEPT ![r] = 0] /\ facts' = [facts EXCEPT ![r] = NoFacts]
  BY EndingEffect
<1>5. PICK p \in Ended \cup {"idle"} : pc' = [pc EXCEPT ![r] = p]
  BY EndingEffect
<1>6. faults' \in {faults, faults + 1} /\ lostAcks' \in {lostAcks, lostAcks + 1}
  BY EndingEffect
<1>7. NoFacts \in FactStore /\ EmptyHistory \in History
  BY WorkspaceTypes
<1> QED BY <1>1, <1>2, <1>3, <1>4, <1>5, <1>6, <1>7 DEF TypeOK, Phases, Ended

\* A landing leaves a typed object and log.
LEMMA LandingTypes ==
    ASSUME IInv, NEW r \in Runs, Landing(r)
    PROVE  TypeOK'
<1>1. TypeOK
  BY DEF IInv
<1>2. Pending(r) \in Contribution
  <2>1. local[r].lastAt \in Nat
    BY LandingEffect DEF IInv, CurrentCopies, CurrentCopy, Appended, TypeOK
  <2> QED BY <1>1, <2>1, ContributionType DEF Pending
<1>3. /\ store' = local[r] /\ version' = version + 1
      /\ landed' = Append(landed, Pending(r))
      /\ UNCHANGED <<clock, archive, gen, attempt>>
  BY LandingEffect
<1>4. \/ UNCHANGED <<local, etag, today, facts>>
      \/ /\ local' = [local EXCEPT ![r] = EmptyHistory] /\ etag' = [etag EXCEPT ![r] = 0]
         /\ today' = [today EXCEPT ![r] = 0] /\ facts' = [facts EXCEPT ![r] = NoFacts]
  BY LandingEffect
<1>5. PICK p \in {"done", "failed", "conflict"} : pc' = [pc EXCEPT ![r] = p]
  BY LandingEffect
<1>6. faults' = faults /\ lostAcks' \in {lostAcks, lostAcks + 1}
  BY LandingEffect
<1>7. NoFacts \in FactStore /\ EmptyHistory \in History
  BY WorkspaceTypes
<1>8. pc' \in [Runs -> Phases]
  BY <1>1, <1>5 DEF TypeOK, Phases, Running, Ended
<1>9. /\ local' \in [Runs -> History] /\ etag' \in [Runs -> Nat]
      /\ today' \in [Runs -> Nat] /\ facts' \in [Runs -> FactStore]
  <2>1. CASE UNCHANGED <<local, etag, today, facts>>
    BY <1>1, <2>1 DEF TypeOK
  <2>2. CASE /\ local' = [local EXCEPT ![r] = EmptyHistory]
             /\ etag' = [etag EXCEPT ![r] = 0]
             /\ today' = [today EXCEPT ![r] = 0]
             /\ facts' = [facts EXCEPT ![r] = NoFacts]
    BY <1>1, <1>7, <2>2 DEF TypeOK
  <2> QED BY <1>4, <2>1, <2>2
<1>10. landed' \in Seq(Contribution)
  BY <1>1, <1>2, <1>3 DEF TypeOK
<1>11. /\ store' \in History /\ version' \in Nat /\ faults' \in Nat /\ lostAcks' \in Nat
       /\ clock' \in Nat /\ archive' \subseteq ArchiveRecord
       /\ gen' \in [Runs -> Nat] /\ attempt' \in [Runs -> Nat]
  BY <1>1, <1>3, <1>6 DEF TypeOK
<1> QED BY <1>8, <1>9, <1>10, <1>11 DEF TypeOK

\* Every step keeps the types; the histories' own types come with their intactness.
LEMMA TypesStay ==
    ASSUME IInv, [Next]_vars
    PROVE  TypeOK'
<1>1. TypeOK
  BY DEF IInv
<1>2. store' \in History /\ \A r \in Runs : local'[r] \in History
  BY ContentsStayIntact DEF ContentsIntact, IntactHistory
<1>3. NoFacts \in FactStore /\ EmptyHistory \in History
  BY WorkspaceTypes
<1>4. DayOf(clock) \in Nat
  BY <1>1, DayOfIsMonotone DEF TypeOK
<1> USE <1>1, <1>2, <1>3, <1>4 DEF TypeOK, Phases, Running, Ended
<1>5. ASSUME Tick PROVE TypeOK'
  BY <1>5 DEF Tick, world, workspace, faultVars
<1>6. ASSUME NEW r \in Runs, Collect(r) PROVE TypeOK'
  <2>1. PICK out \in Outcomes :
            facts' = [facts EXCEPT ![r] = [day |-> DayOf(clock), out |-> out]]
    BY <1>6 DEF Collect
  <2>2. [day |-> DayOf(clock), out |-> out] \in FactStore
    BY MetricHistoryAssumption DEF FactStore
  <2> QED BY <1>6, <2>1, <2>2 DEF Collect, Goto, world, faultVars
<1>7. ASSUME NEW r \in Runs, Retry(r) PROVE TypeOK'
  BY <1>7 DEF Retry, Goto, world, workspace, faultVars
<1>8. ASSUME NEW r \in Runs, Restore(r) PROVE TypeOK'
  BY <1>8 DEF Restore, Goto, world, faultVars
<1>9. ASSUME NEW r \in Runs, LoadToday(r) PROVE TypeOK'
  BY <1>9 DEF LoadToday, Goto, world, faultVars
<1>10. ASSUME NEW r \in Runs, Appending(r) PROVE TypeOK'
  <2>1. /\ UNCHANGED <<clock, world, attempt, gen, facts, today, etag, faultVars>>
        /\ \E h : local' = [local EXCEPT ![r] = h]
        /\ \E p \in Phases : pc' = [pc EXCEPT ![r] = p]
    BY <1>10, AppendingEffect
  <2> QED BY <2>1 DEF world, faultVars
<1>11. ASSUME NEW r \in Runs, Sign(r) PROVE TypeOK'
  BY <1>11 DEF Sign, Goto, world, faultVars
<1>12. ASSUME NEW r \in Runs, Archive(r) PROVE TypeOK'
  <2>1. archive' \subseteq ArchiveRecord
    BY <1>12, ArchivedRecordType DEF Archive
  <2> QED BY <1>12, <2>1 DEF Archive, Goto, workspace, faultVars
<1>13. ASSUME NEW r \in Runs, PublishConflict(r) PROVE TypeOK'
  BY <1>13 DEF PublishConflict, Goto, world, workspace, faultVars
<1>14. ASSUME NEW r \in Runs, Ending(r) PROVE TypeOK'
  BY <1>14, EndingTypes
<1>15. ASSUME NEW r \in Runs, Landing(r) PROVE TypeOK'
  BY <1>15, LandingTypes
<1>16. ASSUME UNCHANGED vars PROVE TypeOK'
  BY <1>16 DEF vars
<1> QED
  BY <1>5, <1>6, <1>7, <1>8, <1>9, <1>10, <1>11, <1>12, <1>13, <1>14, <1>15, <1>16, NextCases

\* The steps that write no local copy and take no date.
LEMMA QuietSteps ==
    ASSUME [Next]_vars
    PROVE  \/ Tick
           \/ UNCHANGED <<clock, store, version, landed, local, etag, today>>
           \/ \E r \in Runs : \/ Restore(r) \/ LoadToday(r) \/ Appending(r) \/ Sign(r)
                              \/ Ending(r) \/ Landing(r)
<1>1. CASE Next
  <2>1. CASE \E r \in Runs : Collect(r) \/ Retry(r) \/ Archive(r) \/ PublishConflict(r)
    BY <2>1 DEF Collect, Retry, Archive, PublishConflict, world, workspace
  <2> QED BY <1>1, <2>1, NextCases
<1>2. CASE UNCHANGED vars
  BY <1>2 DEF vars
<1> QED BY <1>1, <1>2

\* No step stamps or dates anything after the clock.
LEMMA ClockStaysAhead ==
    ASSUME IInv, [Next]_vars
    PROVE  ClockIsAhead'
<1>1. /\ StampedBy(store, clock)
      /\ \A i \in DOMAIN landed : landed[i].at <= clock
      /\ \A r \in Runs : StampedBy(local[r], clock) /\ today[r] <= DayOf(clock)
  BY DEF IInv, ClockIsAhead
<1>2. /\ clock \in Nat /\ DayOf(clock) \in Nat /\ landed \in Seq(Contribution)
      /\ local \in [Runs -> History] /\ today \in [Runs -> Nat] /\ store \in History
  BY DayOfIsMonotone DEF IInv, TypeOK
<1>3. StampedBy(EmptyHistory, clock)
  BY DEF StampedBy, EmptyHistory
<1>4. SUFFICES /\ StampedBy(store', clock')
               /\ \A i \in DOMAIN landed' : landed'[i].at <= clock'
               /\ \A r \in Runs : StampedBy(local'[r], clock') /\ today'[r] <= DayOf(clock')
  BY DEF ClockIsAhead, StampedBy
<1>5. CASE Tick
  <2>1. clock' = clock + 1 /\ UNCHANGED <<store, landed, local, today>>
    BY <1>5 DEF Tick, world, workspace
  <2>2. DayOf(clock) <= DayOf(clock') /\ DayOf(clock') \in Nat
    BY <1>2, <2>1, DayOfIsMonotone
  <2>3. ASSUME NEW h \in History, StampedBy(h, clock) PROVE StampedBy(h, clock')
    <3> SUFFICES ASSUME NEW k \in KSIs, NEW o \in h.obs[k] PROVE o.at <= clock'
      BY DEF StampedBy
    <3>1. o.at \in Nat /\ o.at <= clock
      BY <2>3 DEF StampedBy, History, Observation
    <3> QED BY <1>2, <2>1, <3>1
  <2>4. \A i \in DOMAIN landed : landed[i].at \in Nat
    <3>1. \A i \in DOMAIN landed : landed[i] \in Contribution
      BY <1>2
    <3> QED BY <3>1 DEF Contribution
  <2>5. \A i \in DOMAIN landed' : landed'[i].at <= clock'
    BY <1>1, <1>2, <2>1, <2>4
  <2>6. \A r \in Runs : today'[r] <= DayOf(clock')
    BY <1>1, <1>2, <2>1, <2>2
  <2>7. StampedBy(store', clock') /\ \A r \in Runs : StampedBy(local'[r], clock')
    BY <1>1, <1>2, <2>1, <2>3
  <2> QED BY <2>5, <2>6, <2>7
<1>6. CASE UNCHANGED <<clock, store, version, landed, local, etag, today>>
  BY <1>1, <1>6
<1>7. CASE \E r \in Runs : Restore(r)
  <2>1. PICK r \in Runs : /\ local' = [local EXCEPT ![r] = store]
                          /\ UNCHANGED <<clock, store, landed, today>>
    BY <1>7 DEF Restore, world
  <2> QED BY <1>1, <1>2, <2>1
<1>8. CASE \E r \in Runs : LoadToday(r)
  <2>1. PICK r \in Runs : /\ today' = [today EXCEPT ![r] = DayOf(clock)]
                          /\ UNCHANGED <<clock, store, landed, local>>
    BY <1>8 DEF LoadToday, world
  <2> QED BY <1>1, <1>2, <2>1
<1>9. CASE \E r \in Runs : Appending(r)
  <2>1. PICK r \in Runs : Appending(r)
    BY <1>9
  <2> DEFINE h == AppendRun(local[r], ContributionOf(r, clock))
  <2>2. /\ StampedBy(h, clock) /\ local' = [local EXCEPT ![r] = h]
        /\ UNCHANGED <<clock, store, landed, today>>
    BY <2>1, AppendingEffect DEF world
  <2> HIDE DEF h
  <2> QED BY <1>1, <1>2, <2>2
<1>10. CASE \E r \in Runs : Sign(r)
  <2>1. PICK r \in Runs : Sign(r)
    BY <1>10
  <2> DEFINE h == SignHistory(local[r])
  <2>2. /\ h.obs = local[r].obs /\ local' = [local EXCEPT ![r] = h]
        /\ UNCHANGED <<clock, store, landed, today>>
    BY <2>1, SignEffect DEF world
  <2> HIDE DEF h
  <2>3. StampedBy(h, clock)
    BY <1>1, <2>2 DEF StampedBy
  <2> QED BY <1>1, <1>2, <2>2, <2>3
<1>11. CASE \E r \in Runs : Ending(r)
  <2>1. PICK r \in Runs : /\ local' = [local EXCEPT ![r] = EmptyHistory]
                          /\ today' = [today EXCEPT ![r] = 0]
                          /\ UNCHANGED <<clock, store, landed>>
    BY <1>11, EndingEffect
  <2> QED BY <1>1, <1>2, <1>3, <2>1
<1>12. CASE \E r \in Runs : Landing(r)
  <2>1. PICK r \in Runs : Landing(r)
    BY <1>12
  <2>2. Pending(r).at <= clock
    <3>1. pc[r] \in Appended
      BY <2>1, LandingEffect DEF Appended
    <3>2. local[r].lastAt \in 0 .. clock
      BY <3>1 DEF IInv, CurrentCopies, CurrentCopy
    <3> QED BY <1>2, <3>2 DEF Pending, ContributionOf
  <2>3. store' = local[r] /\ clock' = clock /\ landed' = Append(landed, Pending(r))
    BY <2>1, LandingEffect
  <2>4. \/ UNCHANGED <<local, today>>
        \/ /\ local' = [local EXCEPT ![r] = EmptyHistory]
           /\ today' = [today EXCEPT ![r] = 0]
    BY <2>1, LandingEffect
  <2>5. \A s \in Runs : StampedBy(local'[s], clock') /\ today'[s] <= DayOf(clock')
    BY <1>1, <1>2, <1>3, <2>3, <2>4
  <2>6. \A i \in DOMAIN landed' : landed'[i].at <= clock'
    <3>1. Pending(r).at <= clock'
      BY <2>2, <2>3
    <3> DEFINE c == Pending(r)
    <3> HIDE DEF c
    <3>2. landed' = Append(landed, c) /\ c.at <= clock' /\ clock' = clock
      BY <2>3, <3>1 DEF c
    <3>3. \A i \in DOMAIN landed' : landed'[i] = IF i \in DOMAIN landed THEN landed[i] ELSE c
      BY <1>2, <3>2
    <3> QED BY <1>1, <3>2, <3>3
  <2> QED BY <1>1, <2>3, <2>5, <2>6
<1> QED
  BY <1>5, <1>6, <1>7, <1>8, <1>9, <1>10, <1>11, <1>12, QuietSteps

\* A spent stamp stays spent: a job starts with a new generation, goes round its
\* loop with a new attempt, and otherwise wakes up from no ended phase.
LEMMA SpentStaysSpent ==
    ASSUME IInv, [Next]_vars, NEW s \in Stamp, Spent(s)
    PROVE  Spent(s)'
<1> USE DEF Live, Restored, Appended
<1>1. /\ pc \in [Runs -> Phases] /\ gen \in [Runs -> Nat] /\ attempt \in [Runs -> Nat]
  BY DEF IInv, TypeOK
<1>2. s.run \in Runs /\ s.gen \in Nat /\ s.attempt \in Nat
  BY DEF Stamp
<1>3. CASE /\ UNCHANGED <<gen, attempt>>
           /\ \A r \in Runs : pc'[r] \in Live => pc[r] \in Live
  BY <1>2, <1>3 DEF Spent
<1>4. CASE \E r \in Runs : Collect(r)
  <2>1. PICK r \in Runs : /\ gen' = [gen EXCEPT ![r] = @ + 1]
                          /\ attempt' = [attempt EXCEPT ![r] = 1]
                          /\ pc' = [pc EXCEPT ![r] = "restore"]
    BY <1>4 DEF Collect, Goto
  <2>2. CASE s.run = r
    BY <1>1, <1>2, <2>1, <2>2 DEF Spent
  <2>3. CASE s.run # r
    BY <1>1, <1>2, <2>1, <2>3 DEF Spent
  <2> QED BY <2>2, <2>3
<1>5. CASE \E r \in Runs : Retry(r)
  <2>1. PICK r \in Runs : /\ attempt' = [attempt EXCEPT ![r] = @ + 1]
                          /\ pc' = [pc EXCEPT ![r] = "restore"]
                          /\ gen' = gen
    BY <1>5 DEF Retry, Goto, workspace
  <2>2. CASE s.run = r
    BY <1>1, <1>2, <2>1, <2>2 DEF Spent
  <2>3. CASE s.run # r
    BY <1>1, <1>2, <2>1, <2>3 DEF Spent
  <2> QED BY <2>2, <2>3
<1>6. \/ /\ UNCHANGED <<gen, attempt>>
         /\ \A r \in Runs : pc'[r] \in Live => pc[r] \in Live
      \/ \E r \in Runs : Collect(r) \/ Retry(r)
  <2>1. CASE Tick \/ UNCHANGED vars
    BY <2>1 DEF Tick, vars, workspace
  <2>2. CASE \E r \in Runs : \/ Restore(r) \/ LoadToday(r) \/ Sign(r) \/ Archive(r)
                             \/ PublishConflict(r)
    BY <1>1, <2>2 DEF Restore, LoadToday, Sign, Archive, PublishConflict, Goto, workspace
  <2>3. ASSUME NEW r \in Runs, Appending(r)
        PROVE  /\ UNCHANGED <<gen, attempt>>
               /\ \A q \in Runs : pc'[q] \in Live => pc[q] \in Live
    <3>1. pc[r] = "append"
      BY <2>3 DEF Appending, AppendDatapoints, AppendNothing
    <3>2. UNCHANGED <<gen, attempt>> /\ \E p \in Phases : pc' = [pc EXCEPT ![r] = p]
      BY <2>3, AppendingEffect DEF Phases, Running, Ended
    <3> QED BY <1>1, <3>1, <3>2
  <2>4. ASSUME NEW r \in Runs, Ending(r)
        PROVE  /\ UNCHANGED <<gen, attempt>>
               /\ \A q \in Runs : pc'[q] \in Live => pc[q] \in Live
    <3>1. PICK p \in Ended \cup {"idle"} : pc' = [pc EXCEPT ![r] = p]
      BY <2>4, EndingEffect
    <3>2. UNCHANGED <<gen, attempt>>
      BY <2>4, EndingEffect
    <3> QED BY <1>1, <3>1, <3>2 DEF Ended
  <2>5. ASSUME NEW r \in Runs, Landing(r)
        PROVE  /\ UNCHANGED <<gen, attempt>>
               /\ \A q \in Runs : pc'[q] \in Live => pc[q] \in Live
    <3>1. PICK p \in {"done", "failed", "conflict"} : pc' = [pc EXCEPT ![r] = p]
      BY <2>5, LandingEffect
    <3>2. UNCHANGED <<gen, attempt>>
      BY <2>5, LandingEffect
    <3> QED BY <1>1, <3>1, <3>2
  <2> QED BY <2>1, <2>2, <2>3, <2>4, <2>5, NextCases
<1> QED BY <1>3, <1>4, <1>5, <1>6

\* Only a landing changes the log, and what it lands comes last.
LEMMA LandedGrows ==
    ASSUME IInv, [Next]_vars
    PROVE  \/ landed' = landed /\ store' = store
           \/ \E r \in Runs :
                 /\ Landing(r)
                 /\ Pending(r) \in Contribution
                 /\ landed' = Append(landed, Pending(r))
                 /\ \A i \in DOMAIN landed' :
                       landed'[i] = IF i \in DOMAIN landed THEN landed[i] ELSE Pending(r)
<1>1. CASE \E r \in Runs : Landing(r)
  <2>1. PICK r \in Runs : Landing(r)
    BY <1>1
  <2>2. landed' = Append(landed, Pending(r)) /\ pc[r] \in Appended
    BY <2>1, LandingEffect DEF Appended
  <2>3. local[r].lastAt \in Nat /\ landed \in Seq(Contribution)
    BY <2>2 DEF IInv, TypeOK, CurrentCopies, CurrentCopy
  <2>4. Pending(r) \in Contribution
    BY <2>3, ContributionType DEF Pending, IInv
  <2>5. \A i \in DOMAIN landed' :
           landed'[i] = IF i \in DOMAIN landed THEN landed[i] ELSE Pending(r)
    BY <2>2, <2>3
  <2> QED BY <2>1, <2>2, <2>4, <2>5
<1>2. CASE \E r \in Runs : Ending(r)
  BY <1>2, EndingEffect
<1>3. CASE \E r \in Runs : Restore(r) \/ LoadToday(r) \/ Appending(r) \/ Sign(r)
  BY <1>3 DEF Restore, LoadToday, Appending, AppendDatapoints, AppendNothing, Sign, world
<1>4. CASE Tick \/ UNCHANGED <<clock, store, version, landed, local, etag, today>>
  BY <1>4 DEF Tick, world
<1> QED BY <1>1, <1>2, <1>3, <1>4, QuietSteps

\* What lands is stamped by its job's attempt, and the job leaves the live phases.
LEMMA LandedStampIsSpent ==
    ASSUME IInv, NEW r \in Runs, Landing(r), NEW s, s = Pending(r).stamp
    PROVE  s \in Stamp /\ ~ Spent(s) /\ Spent(s)'
<1>1. s = [run |-> r, gen |-> gen[r], attempt |-> attempt[r]]
  BY DEF Pending, ContributionOf, StampOf
<1>2. /\ pc \in [Runs -> Phases] /\ gen \in [Runs -> Nat] /\ attempt \in [Runs -> Nat]
  BY DEF IInv, TypeOK
<1>3. pc[r] = "publish" /\ UNCHANGED <<gen, attempt>>
  BY LandingEffect
<1>4. PICK p \in {"done", "failed", "conflict"} : pc' = [pc EXCEPT ![r] = p]
  BY LandingEffect
<1>5. s \in Stamp
  BY <1>1, <1>2 DEF Stamp
<1>6. ~ Spent(s)
  BY <1>1, <1>2, <1>3 DEF Spent, Live, Appended
<1>7. s.gen = gen'[s.run] /\ s.attempt = attempt'[s.run] /\ pc'[s.run] \notin Live
  BY <1>1, <1>2, <1>3, <1>4 DEF Live, Restored, Appended
<1>8. Spent(s)'
  BY <1>7 DEF Spent
<1> QED BY <1>5, <1>6, <1>8

\* The stamps of the log stay spent, and the stamp a landing adds is spent by it.
LEMMA StampsStaySpent ==
    ASSUME IInv, [Next]_vars
    PROVE  SpentStamps'
<1>1. \A i \in DOMAIN landed : landed[i].stamp \in Stamp /\ Spent(landed[i].stamp)
  <2>1. landed \in Seq(Contribution) /\ SpentStamps
    BY DEF IInv, TypeOK
  <2>2. \A i \in DOMAIN landed : landed[i] \in Contribution
    BY <2>1
  <2> QED BY <2>1, <2>2 DEF SpentStamps, Contribution
<1>2. \A s \in Stamp : Spent(s) => Spent(s)'
  BY SpentStaysSpent
<1>3. CASE landed' = landed /\ store' = store
  <2>1. SUFFICES ASSUME NEW i \in DOMAIN landed', NEW s, s = landed'[i].stamp
                 PROVE  Spent(s)'
    BY DEF SpentStamps
  <2>2. i \in DOMAIN landed /\ s = landed[i].stamp
    BY <1>3, <2>1
  <2> QED BY <1>1, <1>2, <2>2
<1>4. ASSUME NEW r \in Runs, Landing(r),
             \A i \in DOMAIN landed' :
                landed'[i] = IF i \in DOMAIN landed THEN landed[i] ELSE Pending(r)
      PROVE  SpentStamps'
  <2>1. SUFFICES ASSUME NEW i \in DOMAIN landed', NEW s, s = landed'[i].stamp
                 PROVE  Spent(s)'
    BY DEF SpentStamps
  <2>2. CASE i \in DOMAIN landed
    <3>1. s = landed[i].stamp
      BY <1>4, <2>1, <2>2
    <3> QED BY <1>1, <1>2, <2>2, <3>1
  <2>3. CASE i \notin DOMAIN landed
    <3>1. s = Pending(r).stamp
      BY <1>4, <2>1, <2>3
    <3> QED BY <1>4, <3>1, LandedStampIsSpent
  <2> QED BY <2>2, <2>3
<1> QED BY <1>3, <1>4, LandedGrows

\* Nothing of job s changes.
Untouched(s) ==
    /\ pc'[s] = pc[s] /\ gen'[s] = gen[s] /\ attempt'[s] = attempt[s]
    /\ facts'[s] = facts[s] /\ today'[s] = today[s]
    /\ local'[s] = local[s] /\ etag'[s] = etag[s]

\* A job's copy stays what it was to the object while other jobs step: either the
\* object is unchanged, or it has a version that no job holds.
LEMMA UntouchedCopyStays ==
    ASSUME IInv, NEW s \in Runs, Untouched(s), clock' \in {clock, clock + 1},
           UNCHANGED <<store, version, landed>> \/ version' = version + 1
    PROVE  CurrentCopy(s)'
<1>1. CurrentCopy(s) /\ clock \in Nat /\ version \in Nat /\ etag[s] \in Nat
  BY DEF IInv, TypeOK, CurrentCopies
<1>2. Pending(s)' = Pending(s)
  BY DEF Untouched, Pending, ContributionOf, StampOf
<1>3. pc[s] \in Appended => local'[s].lastAt \in 0 .. clock' /\ Appends(Pending(s)') # {}
  <2>1. pc[s] \in Appended => local[s].lastAt \in 0 .. clock /\ Appends(Pending(s)) # {}
    BY <1>1 DEF CurrentCopy
  <2> QED BY <1>1, <1>2, <2>1 DEF Untouched
<1>4. CASE UNCHANGED <<store, version, landed>>
  <2>1. Extensions(s)' = Extensions(s)
    BY <1>2, <1>4 DEF Extensions, Untouched
  <2> QED BY <1>1, <1>3, <1>4, <2>1 DEF CurrentCopy, Untouched
<1>5. CASE version' = version + 1
  <2>1. etag'[s] <= version' /\ etag'[s] # version'
    BY <1>1, <1>5 DEF CurrentCopy, Untouched
  <2> QED BY <1>3, <2>1 DEF CurrentCopy, Untouched
<1> QED BY <1>4, <1>5

\* A copy is current again after each kind of step of its own job.
LEMMA OwnCopyStays ==
    ASSUME IInv, NEW r \in Runs,
           \/ Collect(r) \/ Retry(r) \/ Restore(r) \/ LoadToday(r)
           \/ Archive(r) \/ PublishConflict(r) \/ Ending(r) \/ Landing(r)
    PROVE  CurrentCopy(r)'
<1> USE DEF Restored, Appended
<1>1. /\ CurrentCopy(r) /\ clock \in Nat /\ version \in Nat /\ etag \in [Runs -> Nat]
      /\ pc \in [Runs -> Phases] /\ local \in [Runs -> History]
  BY DEF IInv, TypeOK, CurrentCopies
<1>2. CASE Collect(r) \/ Retry(r) \/ PublishConflict(r)
  <2>1. /\ pc'[r] \in {"restore", "conflict"} /\ etag' = etag /\ version' = version
    BY <1>1, <1>2 DEF Collect, Retry, PublishConflict, Goto, world, workspace
  <2> QED BY <1>1, <2>1 DEF CurrentCopy
<1>3. CASE Restore(r)
  BY <1>1, <1>3 DEF Restore, Goto, CurrentCopy, world
<1>4. CASE LoadToday(r)
  BY <1>1, <1>4 DEF LoadToday, Goto, CurrentCopy, world
<1>5. CASE Archive(r)
  <2>1. /\ pc[r] = "archive" /\ pc'[r] = "publish"
        /\ UNCHANGED <<clock, store, version, landed, attempt, gen, facts, today, local, etag>>
    BY <1>1, <1>5 DEF Archive, Goto, workspace
  <2>2. Pending(r)' = Pending(r) /\ Extensions(r)' = Extensions(r)
    BY <2>1 DEF Pending, ContributionOf, StampOf, Extensions
  <2> QED BY <1>1, <2>1, <2>2 DEF CurrentCopy
<1>6. CASE Ending(r)
  <2>1. PICK p \in Ended \cup {"idle"} : pc' = [pc EXCEPT ![r] = p]
    BY <1>6, EndingEffect
  <2>2. etag'[r] = 0 /\ version' = version
    BY <1>1, <1>6, EndingEffect
  <2> QED BY <1>1, <2>1, <2>2 DEF CurrentCopy, Ended
<1>7. CASE Landing(r)
  <2>1. PICK p \in {"done", "failed", "conflict"} : pc' = [pc EXCEPT ![r] = p]
    BY <1>7, LandingEffect
  <2>2. version' = version + 1 /\ (etag' = etag \/ etag' = [etag EXCEPT ![r] = 0])
    BY <1>7, LandingEffect
  <2> QED BY <1>1, <2>1, <2>2 DEF CurrentCopy
<1> QED BY <1>2, <1>3, <1>4, <1>5, <1>6, <1>7

\* An append that starts from the present object extends it by the contribution
\* that will land.
LEMMA AppendedCopyIsCurrent ==
    ASSUME IInv, NEW r \in Runs, Appending(r)
    PROVE  CurrentCopy(r)'
<1> USE DEF Restored, Appended
<1> DEFINE c == ContributionOf(r, clock)
           h == AppendRun(local[r], c)
<1>1. /\ CurrentCopy(r) /\ clock \in Nat /\ version \in Nat /\ etag \in [Runs -> Nat]
      /\ pc \in [Runs -> Phases] /\ local \in [Runs -> History]
  BY DEF IInv, TypeOK, CurrentCopies
<1>2. PICK p \in {"sign", "archive", "empty"} :
          /\ pc' = [pc EXCEPT ![r] = p]
          /\ p # "empty" => Appends(c) # {}
  BY AppendingEffect
<1>3. /\ local' = [local EXCEPT ![r] = h]
      /\ UNCHANGED <<clock, world, attempt, gen, facts, today, etag, faultVars>>
      /\ pc[r] = "append"
  BY AppendingEffect DEF Appending, AppendDatapoints, AppendNothing
<1>4. pc'[r] = p /\ local'[r] = h
  <2> HIDE DEF h
  <2> QED BY <1>1, <1>2, <1>3
<1>5. CASE p = "empty"
  <2> HIDE DEF h
  <2> QED BY <1>1, <1>3, <1>4, <1>5 DEF CurrentCopy, world
<1>6. CASE p # "empty"
  <2>1. h.lastAt = clock /\ Appends(c) # {}
    BY <1>2, <1>6 DEF AppendRun, ContributionOf
  <2>2. Pending(r)' = c
    <3> HIDE DEF h
    <3> QED BY <1>3, <1>4, <2>1 DEF Pending, ContributionOf, StampOf
  <2>3. etag[r] = version => local[r] = store
    BY <1>1, <1>3 DEF CurrentCopy
  <2>4. etag'[r] = etag[r] /\ version' = version /\ store' = store /\ landed' = landed
        /\ clock' = clock
    BY <1>3 DEF world
  <2>5. etag[r] = version => h \in Extensions(r)'
    BY <2>2, <2>3, <2>4 DEF Extensions
  <2>6. \A i \in DOMAIN landed : landed[i].at <= clock
    BY DEF IInv, ClockIsAhead
  <2> HIDE DEF c, h
  <2> QED BY <1>1, <1>4, <2>1, <2>2, <2>4, <2>5, <2>6 DEF CurrentCopy
<1> QED BY <1>5, <1>6

\* Signing the extension of the present object gives the signed extension.
LEMMA SignedCopyIsCurrent ==
    ASSUME IInv, NEW r \in Runs, Sign(r)
    PROVE  CurrentCopy(r)'
<1> USE DEF Restored, Appended
<1> DEFINE h == SignHistory(local[r])
<1>1. /\ CurrentCopy(r) /\ clock \in Nat /\ version \in Nat /\ etag \in [Runs -> Nat]
      /\ pc \in [Runs -> Phases] /\ local \in [Runs -> History]
  BY DEF IInv, TypeOK, CurrentCopies
<1>2. /\ pc[r] = "sign" /\ pc' = [pc EXCEPT ![r] = "archive"]
      /\ local' = [local EXCEPT ![r] = h] /\ h.lastAt = local[r].lastAt
      /\ UNCHANGED <<clock, world, attempt, gen, facts, today, etag, faultVars>>
  BY SignEffect
<1> HIDE DEF h
<1>3. pc'[r] = "archive" /\ local'[r] = h
  BY <1>1, <1>2
<1>4. Pending(r)' = Pending(r)
  BY <1>2, <1>3 DEF Pending, ContributionOf, StampOf
<1>5. etag[r] = version => local[r] = AppendRun(store, Pending(r))
  BY <1>1, <1>2 DEF CurrentCopy, Extensions
<1>6. etag[r] = version => h \in Extensions(r)'
  BY <1>2, <1>3, <1>4, <1>5 DEF Extensions, h, world
<1> QED BY <1>1, <1>2, <1>3, <1>4, <1>6 DEF CurrentCopy, world

\* A step of job r touches no other job, and changes the object only with its version.
LEMMA StepTouchesOneJob ==
    ASSUME IInv, NEW r \in Runs,
           \/ Collect(r) \/ Retry(r) \/ Restore(r) \/ LoadToday(r) \/ Appending(r)
           \/ Sign(r) \/ Archive(r) \/ PublishConflict(r) \/ Ending(r) \/ Landing(r)
    PROVE  /\ \A s \in Runs \ {r} : Untouched(s)
           /\ clock' = clock
           /\ UNCHANGED <<store, version, landed>> \/ version' = version + 1
<1>1. TypeOK
  BY DEF IInv
<1>2. CASE Collect(r) \/ Retry(r)
  BY <1>1, <1>2 DEF TypeOK, Untouched, Collect, Retry, Goto, world, workspace
<1>3. CASE Restore(r) \/ LoadToday(r) \/ Sign(r)
  BY <1>1, <1>3 DEF TypeOK, Untouched, Restore, LoadToday, Sign, Goto, world
<1>4. CASE Archive(r) \/ PublishConflict(r)
  BY <1>1, <1>4 DEF TypeOK, Untouched, Archive, PublishConflict, Goto, world, workspace
<1>5. CASE Appending(r)
  <2> DEFINE h == AppendRun(local[r], ContributionOf(r, clock))
  <2>1. PICK p \in {"sign", "archive", "empty"} : pc' = [pc EXCEPT ![r] = p]
    BY <1>5, AppendingEffect
  <2>2. /\ local' = [local EXCEPT ![r] = h]
        /\ UNCHANGED <<clock, world, attempt, gen, facts, today, etag, faultVars>>
    BY <1>5, AppendingEffect
  <2> HIDE DEF h
  <2> QED BY <1>1, <2>1, <2>2 DEF TypeOK, Untouched, world
<1>6. CASE Ending(r)
  <2>1. PICK p \in Ended \cup {"idle"} : pc' = [pc EXCEPT ![r] = p]
    BY <1>6, EndingEffect
  <2>2. /\ UNCHANGED <<clock, store, version, landed, gen, attempt>>
        /\ local' = [local EXCEPT ![r] = EmptyHistory] /\ etag' = [etag EXCEPT ![r] = 0]
        /\ today' = [today EXCEPT ![r] = 0] /\ facts' = [facts EXCEPT ![r] = NoFacts]
    BY <1>6, EndingEffect
  <2> QED BY <1>1, <2>1, <2>2 DEF TypeOK, Untouched
<1>7. CASE Landing(r)
  <2>1. PICK p \in {"done", "failed", "conflict"} : pc' = [pc EXCEPT ![r] = p]
    BY <1>7, LandingEffect
  <2>2. UNCHANGED <<clock, gen, attempt>> /\ version' = version + 1
    BY <1>7, LandingEffect
  <2>3. \/ UNCHANGED <<local, etag, today, facts>>
        \/ /\ local' = [local EXCEPT ![r] = EmptyHistory] /\ etag' = [etag EXCEPT ![r] = 0]
           /\ today' = [today EXCEPT ![r] = 0] /\ facts' = [facts EXCEPT ![r] = NoFacts]
    BY <1>7, LandingEffect
  <2>4. \A s \in Runs \ {r} : /\ local'[s] = local[s] /\ etag'[s] = etag[s]
                              /\ today'[s] = today[s] /\ facts'[s] = facts[s]
    BY <1>1, <2>3 DEF TypeOK
  <2> QED BY <1>1, <2>1, <2>2, <2>4 DEF TypeOK, Untouched
<1> QED BY <1>2, <1>3, <1>4, <1>5, <1>6, <1>7

\* A step leaves every copy what it must be to the object.
LEMMA CopiesStayCurrent ==
    ASSUME IInv, [Next]_vars
    PROVE  CurrentCopies'
<1>1. SUFFICES ASSUME NEW s \in Runs PROVE CurrentCopy(s)'
  BY DEF CurrentCopies
<1>2. CASE Tick \/ UNCHANGED vars
  <2>1. Untouched(s) /\ clock' \in {clock, clock + 1} /\ UNCHANGED <<store, version, landed>>
    BY <1>2 DEF Tick, vars, world, workspace, Untouched
  <2> QED BY <2>1, UntouchedCopyStays
<1>3. ASSUME NEW r \in Runs,
             \/ Collect(r) \/ Retry(r) \/ Restore(r) \/ LoadToday(r) \/ Appending(r)
             \/ Sign(r) \/ Archive(r) \/ PublishConflict(r) \/ Ending(r) \/ Landing(r)
      PROVE  CurrentCopy(s)'
  <2>1. CASE s = r
    BY <1>3, <2>1, OwnCopyStays, AppendedCopyIsCurrent, SignedCopyIsCurrent
  <2>2. CASE s # r
    <3>1. Untouched(s) /\ clock' = clock
          /\ (UNCHANGED <<store, version, landed>> \/ version' = version + 1)
      BY <1>3, <2>2, StepTouchesOneJob
    <3> QED BY <3>1, UntouchedCopyStays
  <2> QED BY <2>1, <2>2
<1> QED BY <1>2, <1>3, NextCases

-----------------------------------------------------------------------------
(* What a landing does to the object and to the log. *)

\* An append computes a record with the fields of a history.
LEMMA FoldedRecord ==
    ASSUME NEW h, NEW c, NEW a, a = AppendRun(h, c)
    PROVE  a \in [obs : {a.obs}, series : {a.series}, anchor : {a.anchor}, heads : {a.heads},
                  lastAt : {a.lastAt}, attemptAt : {a.attemptAt}, sig : {a.sig}]
BY DEF AppendRun

\* Signing rewrites the heads and the signature and leaves the other fields alone.
LEMMA SignedFields ==
    ASSUME NEW h, h \in [obs : {h.obs}, series : {h.series}, anchor : {h.anchor},
                         heads : {h.heads}, lastAt : {h.lastAt},
                         attemptAt : {h.attemptAt}, sig : {h.sig}]
    PROVE  /\ SignHistory(h).obs = h.obs
           /\ SignHistory(h).series = h.series
           /\ SignHistory(h).anchor = h.anchor
           /\ SignHistory(h).lastAt = h.lastAt
           /\ SignHistory(h).sig = DigestOf(h)
BY DEF SignHistory

\* A landing leaves the observations of a KSI alone that it has no datapoint for ...
LEMMA KeptObs ==
    ASSUME NEW h, NEW c, NEW k \in KSIs, k \notin Appends(c), NEW s,
           s = AppendRun(h, c) \/ s = SignHistory(AppendRun(h, c))
    PROVE  s.obs[k] = h.obs[k]
<1> DEFINE a == AppendRun(h, c)
<1>1. s.obs = a.obs
  BY FoldedRecord, SignedFields
<1>2. a.obs[k] = h.obs[k]
  BY AppendRunFields
<1> QED BY <1>1, <1>2

\* ... and otherwise adds its own to them and prunes them, signed or not.
LEMMA FoldedObs ==
    ASSUME NEW h, NEW c, NEW k \in Appends(c), NEW s,
           s = AppendRun(h, c) \/ s = SignHistory(AppendRun(h, c))
    PROVE  s.obs[k] = Grown(h, c, k) \ PrunedObs(Grown(h, c, k), Cutoff(c.today))
<1> DEFINE a == AppendRun(h, c)
<1>1. s.obs = a.obs
  BY FoldedRecord, SignedFields
<1>2. k \in KSIs
  BY DEF Appends
<1>3. a.obs[k] = Grown(h, c, k) \ PrunedObs(Grown(h, c, k), Cutoff(c.today))
  BY <1>2, AppendRunFields
<1> QED BY <1>1, <1>3

\* A landing folds a fresh contribution of its job into the object, stamped no
\* earlier than anything landed.
LEMMA LandingFolds ==
    ASSUME IInv, NEW r \in Runs, Landing(r), NEW c, c = Pending(r)
    PROVE  /\ c \in Contribution
           /\ Appends(c) # {}
           /\ store' = AppendRun(store, c) \/ store' = SignHistory(AppendRun(store, c))
           /\ landed' = Append(landed, c)
           /\ \A i \in DOMAIN landed : landed[i].stamp # c.stamp /\ landed[i].at <= c.at
<1>1. pc[r] = "publish" /\ etag[r] = version /\ store' = local[r]
  BY LandingEffect
<1>2. CurrentCopy(r) /\ SpentStamps /\ landed \in Seq(Contribution)
  BY DEF IInv, CurrentCopies, TypeOK
<1>3. /\ Appends(c) # {} /\ local[r] \in Extensions(r) /\ local[r].lastAt \in 0 .. clock
      /\ \A i \in DOMAIN landed : landed[i].at <= c.at
  BY <1>1, <1>2 DEF CurrentCopy, Appended, Pending, ContributionOf
<1>4. c \in Contribution
  BY <1>3, ContributionType DEF Pending, IInv, TypeOK
<1>5. \A i \in DOMAIN landed : landed[i].stamp # c.stamp
  BY <1>2, LandedStampIsSpent DEF SpentStamps
<1>6. landed' = Append(landed, c)
  BY LandingEffect
<1> QED BY <1>1, <1>3, <1>4, <1>5, <1>6 DEF Extensions

\* The log grows by one entry at its end.
LEMMA LogGrows ==
    ASSUME landed \in Seq(Contribution), NEW c \in Contribution, landed' = Append(landed, c)
    PROVE  /\ Len(landed) \in Nat
           /\ Len(landed') = Len(landed) + 1
           /\ DOMAIN landed = 1 .. Len(landed)
           /\ DOMAIN landed' = 1 .. Len(landed')
           /\ landed'[Len(landed')] = c
           /\ \A i \in DOMAIN landed : i \in DOMAIN landed' /\ landed'[i] = landed[i]
OBVIOUS

-----------------------------------------------------------------------------
(* The theorems. *)

\* The invariant holds in every reachable state.
THEOREM InvariantHolds == Spec => []IInv
<1>1. Init => IInv
  BY InitIInv
<1>2. IInv /\ [Next]_vars => IInv'
  BY TypesStay, ContentsStayIntact, ClockStaysAhead, CopiesStayCurrent, StampsStaySpent
  DEF IInv
<1> QED BY <1>1, <1>2, PTL DEF Spec

\* Every state of the system is well typed.
THEOREM TypeCorrect == Spec => []TypeOK
<1>1. IInv => TypeOK
  BY DEF IInv
<1> QED BY <1>1, InvariantHolds, PTL

\* Whatever overlapping jobs, retries, reruns, crashes and lost answers do, the
\* durable history passes the chain verifier (history_integrity.py:95-140).
THEOREM StoreAlwaysVerifies == Spec => []StoreVerifies
<1>1. IInv => StoreVerifies
  BY DEF IInv, ContentsIntact, IntactHistory, StoreVerifies
<1> QED BY <1>1, InvariantHolds, PTL

\* The instance Log computes with the same functions of the content as the jobs.
LEMMA LogContent ==
    /\ Log!EmptyHistory = EmptyHistory
    /\ Log!Contribution = Contribution
    /\ \A c : Log!Appends(c) = Appends(c)
    /\ \A h, c : Log!AppendRun(h, c) = AppendRun(h, c)
    /\ \A h : Log!SignHistory(h) = SignHistory(h)
<1>1. Log!EmptyHistory = EmptyHistory
  BY DEF Log!EmptyHistory, EmptyHistory
<1>2. Log!Contribution = Contribution
  BY DEF Log!Contribution, Contribution, Log!Stamp, Stamp
<1>3. \A c : Log!Appends(c) = Appends(c)
  BY DEF Log!Appends, Appends
<1>4. \A obs : Log!Newest(obs) = Newest(obs)
  BY DEF Log!Newest, Newest
<1>5. \A obs, anchor : Log!ChainHead(obs, anchor) = ChainHead(obs, anchor)
  BY <1>4 DEF Log!ChainHead, ChainHead
<1>6. \A obs, anchor : Log!Heads(obs, anchor) = Heads(obs, anchor)
  BY <1>5 DEF Log!Heads, Heads
<1>7. \A h, c : Log!AppendRun(h, c) = AppendRun(h, c)
  BY DEF Log!AppendRun, AppendRun, Log!Appends, Appends, Log!Newest, Newest,
         Log!ChainHead, ChainHead, Log!Heads, Heads, Log!Grown, Grown,
         Log!ChainObservation, ChainObservation, Log!PrunedObs, PrunedObs,
         Log!DayOf, DayOf, Log!RollIntoSeries, RollIntoSeries, Log!FirstPoint, FirstPoint,
         Log!MergeDailyPoint, MergeDailyPoint, Log!Lesser, Lesser, Log!Greater, Greater,
         Log!Cutoff, Cutoff
<1>8. \A h : Log!SignHistory(h) = SignHistory(h)
  BY <1>6 DEF Log!SignHistory, SignHistory, Log!DigestOf, DigestOf
<1> QED BY <1>1, <1>2, <1>3, <1>7, <1>8

\* One step of the jobs is one landing on the log or none.
LEMMA StepImplementsLog ==
    ASSUME IInv, [Next]_vars
    PROVE  [Log!Next]_(Log!logVars)
<1>1. CASE landed' = landed /\ store' = store
  BY <1>1 DEF Log!logVars
<1>2. ASSUME NEW r \in Runs, Landing(r)
      PROVE  Log!Next
  <2> DEFINE c == Pending(r)
             n == Len(landed')
  <2>1. /\ c \in Contribution /\ Appends(c) # {} /\ landed' = Append(landed, c)
        /\ store' = AppendRun(store, c) \/ store' = SignHistory(AppendRun(store, c))
        /\ \A i \in DOMAIN landed : landed[i].stamp # c.stamp /\ landed[i].at <= c.at
    BY <1>2, LandingFolds
  <2> HIDE DEF c
  <2>2. n > 0 /\ landed'[n] = c
    BY <2>1, LogGrows DEF IInv, TypeOK
  <2>3. Log!Land(c)
    BY <2>1, LogContent DEF Log!Land
  <2> QED BY <2>1, <2>2, <2>3, LogContent DEF Log!Next
<1> QED BY <1>1, <1>2, LandedGrows

\* The jobs implement the append-only log: each change of the durable object folds
\* one fresh contribution into the content the landing before it left, in the
\* order of the timestamps.  No landing overwrites another one.
THEOREM JobsImplementTheLog == Spec => ImplementsLog
<1>1. Init => Log!Init
  BY LogContent DEF Init, Log!Init
<1>2. IInv /\ [Next]_vars => [Log!Next]_(Log!logVars)
  BY StepImplementsLog
<1> QED BY <1>1, <1>2, InvariantHolds, PTL DEF Spec, ImplementsLog, Log!Spec

\* No two records of the archive share a key.
KeysAreUnique == \A a, b \in archive : SameKey(a, b) => a = b

\* A create-only PUT adds a record under a new key or does nothing.
LEMMA PutObservationsIsCreateOnly ==
    ASSUME NEW r \in Runs, KeysAreUnique, archive' = archive \/ PutObservations(r)
    PROVE  archive \subseteq archive' /\ KeysAreUnique'
<1> DEFINE rec == ObservationRecord(r)
<1>1. CASE archive' = archive
  BY <1>1 DEF KeysAreUnique
<1>2. CASE archive' # archive
  <2>1. archive' = archive \cup {rec} /\ \A a \in archive : ~ SameKey(a, rec)
    BY <1>2 DEF PutObservations
  <2> HIDE DEF rec
  <2>2. \A a, b : SameKey(a, b) <=> SameKey(b, a)
    BY DEF SameKey
  <2> QED BY <2>1, <2>2 DEF KeysAreUnique
<1> QED BY <1>1, <1>2

\* Only the archive PUT changes the archive, in a step that succeeds or fails.
LEMMA ArchiveSteps ==
    ASSUME [Next]_vars
    PROVE  archive' = archive \/ \E r \in Runs : PutObservations(r)
<1>1. CASE Tick \/ UNCHANGED vars
  BY <1>1 DEF Tick, vars, world
<1>2. CASE \E r \in Runs : \/ Collect(r) \/ Retry(r) \/ Restore(r) \/ LoadToday(r)
                           \/ Appending(r) \/ Sign(r) \/ PublishConflict(r)
  BY <1>2 DEF Collect, Retry, Restore, LoadToday, Appending, AppendDatapoints,
              AppendNothing, Sign, PublishConflict, world
<1>3. CASE \E r \in Runs : Archive(r)
  BY <1>3 DEF Archive
<1>4. CASE \E r \in Runs : Ending(r)
  BY <1>4, EndingEffect
<1>5. CASE \E r \in Runs : Landing(r)
  BY <1>5, LandingEffect
<1> QED BY <1>1, <1>2, <1>3, <1>4, <1>5, NextCases

\* An archived record is never changed or removed, and no key is written twice
\* (publish_history.py:166-185).
THEOREM ArchiveStays == Spec => ArchiveIsImmutable
<1>1. Init => KeysAreUnique
  BY DEF Init, KeysAreUnique
<1>2. KeysAreUnique /\ [Next]_vars => archive \subseteq archive' /\ KeysAreUnique'
  <2> SUFFICES ASSUME KeysAreUnique, [Next]_vars
               PROVE  archive \subseteq archive' /\ KeysAreUnique'
    OBVIOUS
  <2>1. CASE archive' = archive
    BY <2>1 DEF KeysAreUnique
  <2>2. CASE \E r \in Runs : PutObservations(r)
    BY <2>2, PutObservationsIsCreateOnly
  <2> QED BY <2>1, <2>2, ArchiveSteps
<1>3. archive \subseteq archive' /\ KeysAreUnique'
      => [/\ archive \subseteq archive'
          /\ \A a, b \in archive' : SameKey(a, b) => a = b]_archive
  BY DEF KeysAreUnique
<1>4. KeysAreUnique /\ [Next]_vars
      => [/\ archive \subseteq archive'
          /\ \A a, b \in archive' : SameKey(a, b) => a = b]_archive
  BY <1>2, <1>3
<1>5. KeysAreUnique /\ [Next]_vars => KeysAreUnique'
  BY <1>2
<1> QED BY <1>1, <1>4, <1>5, PTL DEF Spec, ArchiveIsImmutable

-----------------------------------------------------------------------------
(* No update is lost. *)

\* The accounting of the landings is kept by a landing: what it drops has aged
\* out, and what it adds is its own.
LEMMA LandingKeepsTheAccount ==
    ASSUME IInv, StoreHoldsTheLandings, NEW r \in Runs, Landing(r)
    PROVE  StoreHoldsTheLandings'
<1> DEFINE c == Pending(r)
           n == Len(landed')
<1>1. /\ c \in Contribution
      /\ store' = AppendRun(store, c) \/ store' = SignHistory(AppendRun(store, c))
      /\ landed' = Append(landed, c)
  BY LandingFolds
<1> HIDE DEF c
<1>2. landed \in Seq(Contribution)
  BY DEF IInv, TypeOK
<1>3. /\ Len(landed) \in Nat /\ n = Len(landed) + 1
      /\ DOMAIN landed = 1 .. Len(landed) /\ DOMAIN landed' = 1 .. n
      /\ landed'[n] = c
      /\ \A i \in DOMAIN landed : i \in DOMAIN landed' /\ landed'[i] = landed[i]
  BY <1>1, <1>2, LogGrows
<1>4. SUFFICES ASSUME NEW k \in KSIs
               PROVE  /\ \A i \in DOMAIN landed' : k \in Appends(landed'[i]) =>
                             \/ \E o \in store'.obs[k] : RecordsLanding(o, landed'[i], k)
                             \/ AgedOut(i, k)'
                      /\ \A o \in store'.obs[k] : \E i \in DOMAIN landed' :
                             k \in Appends(landed'[i]) /\ RecordsLanding(o, landed'[i], k)
  BY DEF StoreHoldsTheLandings
<1> DEFINE new == ChainObservation(store.obs[k], store.anchor[k], c, k)
           cutoff == Cutoff(c.today)
<1>5. /\ k \in Appends(c) =>
            store'.obs[k] = (store.obs[k] \cup {new}) \ PrunedObs(store.obs[k] \cup {new}, cutoff)
      /\ k \notin Appends(c) => store'.obs[k] = store.obs[k]
      /\ RecordsLanding(new, c, k)
  <2>1. RecordsLanding(new, c, k)
    BY DEF RecordsLanding, ChainObservation
  <2>2. /\ k \in Appends(c) =>
              store'.obs[k] = Grown(store, c, k) \ PrunedObs(Grown(store, c, k), cutoff)
        /\ k \notin Appends(c) => store'.obs[k] = store.obs[k]
    BY <1>1, FoldedObs, KeptObs
  <2> QED BY <2>1, <2>2 DEF Grown
<1>6. \A i \in DOMAIN landed : AgedOut(i, k) => AgedOut(i, k)'
  BY <1>3 DEF AgedOut
<1>7. ASSUME NEW i \in DOMAIN landed', k \in Appends(c),
             DayOf(landed'[i].at) < cutoff
      PROVE  AgedOut(i, k)'
  BY <1>3, <1>7 DEF AgedOut
<1> HIDE DEF new, cutoff, n
<1>8. ASSUME NEW i \in DOMAIN landed', k \in Appends(landed'[i])
      PROVE  (\E o \in store'.obs[k] : RecordsLanding(o, landed'[i], k)) \/ AgedOut(i, k)'
  <2>1. CASE i \in DOMAIN landed /\ AgedOut(i, k)
    BY <1>6, <2>1
  <2>2. CASE i \in DOMAIN landed /\ ~ AgedOut(i, k)
    <3>1. PICK o \in store.obs[k] : RecordsLanding(o, landed'[i], k)
      BY <1>3, <1>8, <2>2 DEF StoreHoldsTheLandings
    <3>2. CASE o \in store'.obs[k]
      BY <3>1, <3>2
    <3>3. CASE o \notin store'.obs[k]
      <4>1. k \in Appends(c) /\ DayOf(o.at) < cutoff
        BY <1>5, <3>3 DEF PrunedObs
      <4> QED BY <1>7, <3>1, <4>1 DEF RecordsLanding
    <3> QED BY <3>2, <3>3
  <2>3. CASE i \notin DOMAIN landed
    <3>1. landed'[i] = c /\ k \in Appends(c)
      BY <1>3, <1>8, <2>3 DEF n
    <3>2. CASE DayOf(c.at) < cutoff
      BY <1>7, <3>1, <3>2
    <3>3. CASE ~ DayOf(c.at) < cutoff
      <4>1. new \in store'.obs[k]
        BY <1>5, <3>1, <3>3 DEF PrunedObs, RecordsLanding
      <4> QED BY <1>5, <3>1, <4>1
    <3> QED BY <3>2, <3>3
  <2> QED BY <2>1, <2>2, <2>3
<1>9. ASSUME NEW o \in store'.obs[k]
      PROVE  \E i \in DOMAIN landed' : k \in Appends(landed'[i]) /\ RecordsLanding(o, landed'[i], k)
  <2>1. CASE o \in store.obs[k]
    BY <1>3, <2>1 DEF StoreHoldsTheLandings
  <2>2. CASE o \notin store.obs[k]
    <3>1. o = new /\ k \in Appends(c) /\ n \in DOMAIN landed' /\ landed'[n] = c
      BY <1>3, <1>5, <1>9, <2>2 DEF n
    <3> QED BY <1>5, <3>1
  <2> QED BY <2>1, <2>2
<1> QED BY <1>8, <1>9

\* No update is lost and nothing else is ever found in the durable history: every
\* landed datapoint is an observation of it until a later landing prunes it, and
\* every observation is a landed datapoint (AUD-F20, publish_history.py:5-13).
THEOREM NoUpdateIsLost == Spec => []StoreHoldsTheLandings
<1>1. Init => StoreHoldsTheLandings
  BY DEF Init, StoreHoldsTheLandings, EmptyHistory
<1>2. IInv /\ StoreHoldsTheLandings /\ [Next]_vars => StoreHoldsTheLandings'
  <2> SUFFICES ASSUME IInv, StoreHoldsTheLandings, [Next]_vars
               PROVE  StoreHoldsTheLandings'
    OBVIOUS
  <2>1. CASE landed' = landed /\ store' = store
    BY <2>1 DEF StoreHoldsTheLandings, AgedOut
  <2>2. CASE \E r \in Runs : Landing(r)
    BY <2>2, LandingKeepsTheAccount
  <2> QED BY <2>1, <2>2, LandedGrows
<1> QED BY <1>1, <1>2, InvariantHolds, PTL DEF Spec

-----------------------------------------------------------------------------
(* Signatures. *)

\* A signature in the history attests its own chain heads and anchors.
Attested(h) == h.sig # None => h.sig = DigestOf(h)

\* A signing job uploads nothing before it has signed its copy.
SignedBeforeUpload ==
    \A r \in SigningRuns : pc[r] \in {"archive", "publish"} => local[r].sig # None

\* The object and every copy attest themselves, and so does what signing jobs upload.
SigInv ==
    /\ \A r \in Runs : Attested(local[r])
    /\ SignedBeforeUpload
    /\ SignatureAttestsStore

\* A signed history attests itself, and an appended one carries no signature.
LEMMA AttestedContents ==
    /\ Attested(EmptyHistory)
    /\ \A h, c : Attested(AppendRun(h, c))
    /\ \A h \in History : /\ Attested(SignHistory(h))
                          /\ IntactHistory(h) => SignHistory(h).sig # None
<1>1. Attested(EmptyHistory) /\ \A h, c : Attested(AppendRun(h, c))
  BY DEF Attested, EmptyHistory, AppendRun
<1>2. ASSUME NEW h \in History
      PROVE  /\ SignHistory(h).obs = h.obs /\ SignHistory(h).anchor = h.anchor
             /\ SignHistory(h).sig = DigestOf(h)
  BY DEF SignHistory, History
<1>3. ASSUME NEW h \in History PROVE Attested(SignHistory(h))
  BY <1>2 DEF Attested, DigestOf
<1>4. ASSUME NEW h \in History, IntactHistory(h) PROVE SignHistory(h).sig # None
  <2>1. h.heads = Heads(h.obs, h.anchor) /\ h.heads \in Hashes /\ h.anchor \in Hashes
    BY <1>4 DEF IntactHistory, VerifyHistory, History
  <2>2. DigestOf(h) \in Digest
    BY <2>1 DEF DigestOf, Digest
  <2> QED BY <1>2, <2>2, NoneIsNoDigest
<1> QED BY <1>1, <1>3, <1>4

\* What a step does to the phase and the copy of job s.
LEMMA SignaturesStay ==
    ASSUME IInv, SigInv, [Next]_vars, NEW s \in Runs
    PROVE  /\ Attested(local'[s])
           /\ s \in SigningRuns /\ pc'[s] \in {"archive", "publish"} => local'[s].sig # None
<1>1. /\ pc \in [Runs -> Phases] /\ local \in [Runs -> History] /\ store \in History
      /\ \A r \in Runs : IntactHistory(local[r])
  BY DEF IInv, TypeOK, ContentsIntact
<1>2. /\ Attested(local[s]) /\ Attested(store)
      /\ s \in SigningRuns /\ pc[s] \in {"archive", "publish"} => local[s].sig # None
  BY DEF SigInv, SignedBeforeUpload, SignatureAttestsStore, Attested
<1>4. ASSUME NEW r \in Runs, r # s,
             \/ Collect(r) \/ Retry(r) \/ Restore(r) \/ LoadToday(r) \/ Appending(r)
             \/ Sign(r) \/ Archive(r) \/ PublishConflict(r) \/ Ending(r) \/ Landing(r)
      PROVE  local'[s] = local[s] /\ pc'[s] = pc[s]
  BY <1>4, StepTouchesOneJob DEF Untouched
<1>5. CASE Collect(s) \/ Retry(s) \/ PublishConflict(s)
  BY <1>1, <1>2, <1>5 DEF Collect, Retry, PublishConflict, Goto, workspace
<1>6. CASE Restore(s)
  BY <1>1, <1>2, <1>6 DEF Restore, Goto
<1>7. CASE LoadToday(s) \/ Archive(s)
  BY <1>1, <1>2, <1>7 DEF LoadToday, Archive, Goto, workspace
<1>8. CASE Appending(s)
  <2>1. local' = [local EXCEPT ![s] = AppendRun(local[s], ContributionOf(s, clock))]
    BY <1>8 DEF Appending, AppendDatapoints, AppendNothing
  <2>2. pc' = [pc EXCEPT ![s] = "sign"] \/ pc' = [pc EXCEPT ![s] = "empty"] \/ s \notin SigningRuns
    BY <1>8 DEF Appending, AppendDatapoints, AppendNothing, Goto, AfterAppend
  <2>3. s \in SigningRuns => pc'[s] \in {"sign", "empty"}
    BY <1>1, <2>2
  <2>4. Attested(local'[s])
    <3> DEFINE h == AppendRun(local[s], ContributionOf(s, clock))
    <3>1. Attested(h)
      BY AttestedContents
    <3> HIDE DEF h
    <3> QED BY <1>1, <2>1, <3>1 DEF h
  <2> QED BY <2>3, <2>4
<1>9. CASE Sign(s)
  <2> DEFINE h == SignHistory(local[s])
  <2>1. Attested(h) /\ h.sig # None
    BY <1>1, AttestedContents
  <2>2. local' = [local EXCEPT ![s] = h]
    BY <1>9, SignEffect
  <2> HIDE DEF h
  <2> QED BY <1>1, <2>1, <2>2
<1>10. CASE Ending(s)
  <2>1. PICK p \in Ended \cup {"idle"} : pc' = [pc EXCEPT ![s] = p]
    BY <1>10, EndingEffect
  <2>2. local'[s] = EmptyHistory
    BY <1>1, <1>10, EndingEffect
  <2> QED BY <1>1, <2>1, <2>2, AttestedContents DEF Ended
<1>11. CASE Landing(s)
  <2>1. PICK p \in {"done", "failed", "conflict"} : pc' = [pc EXCEPT ![s] = p]
    BY <1>11, LandingEffect
  <2>2. local'[s] \in {local[s], EmptyHistory}
    BY <1>1, <1>11, LandingEffect
  <2> QED BY <1>1, <1>2, <2>1, <2>2, AttestedContents
<1>3. \/ local'[s] = local[s] /\ pc'[s] = pc[s]
      \/ Collect(s) \/ Retry(s) \/ Restore(s) \/ LoadToday(s) \/ Appending(s)
      \/ Sign(s) \/ Archive(s) \/ PublishConflict(s) \/ Ending(s) \/ Landing(s)
  <2>1. CASE Tick \/ UNCHANGED vars
    BY <2>1 DEF Tick, vars, workspace
  <2> QED BY <1>4, <2>1, NextCases
<1> QED BY <1>2, <1>5, <1>6, <1>7, <1>8, <1>9, <1>10, <1>11, <1>3

\* A signature found in the durable history attests the heads and anchors beside
\* it, and a signing job never lands an unsigned history (publish_history.py:125-132).
THEOREM SignaturesAttest == Spec => []SignatureAttestsStore
<1>1. Init => SigInv
  <2>1. EmptyHistory.sig = None
    BY DEF EmptyHistory
  <2> QED BY <2>1, MetricHistoryAssumption DEF Init, SigInv, SignedBeforeUpload, SignatureAttestsStore, Attested
<1>2. IInv /\ SigInv /\ [Next]_vars => SigInv'
  <2> SUFFICES ASSUME IInv, SigInv, [Next]_vars PROVE SigInv'
    OBVIOUS
  <2>1. (\A r \in Runs : Attested(local[r]))' /\ SignedBeforeUpload'
    BY SignaturesStay, MetricHistoryAssumption DEF SignedBeforeUpload, Attested
  <2>2. SignatureAttestsStore'
    <3>1. CASE landed' = landed /\ store' = store
      BY <3>1 DEF SigInv, SignatureAttestsStore
    <3>2. ASSUME NEW r \in Runs, Landing(r) PROVE SignatureAttestsStore'
      <4> DEFINE c == Pending(r)
      <4>1. c \in Contribution /\ landed' = Append(landed, c) /\ landed \in Seq(Contribution)
        BY <3>2, LandingFolds DEF IInv, TypeOK
      <4>2. c.stamp.run = r
        BY DEF Pending, ContributionOf, StampOf
      <4> HIDE DEF c
      <4>3. landed'[Len(landed')].stamp.run = r
        BY <4>1, <4>2, LogGrows
      <4>4. store' = local[r] /\ pc[r] = "publish"
        BY <3>2, LandingEffect
      <4>5. Attested(local[r]) /\ (r \in SigningRuns => local[r].sig # None)
        BY <4>4 DEF SigInv, SignedBeforeUpload
      <4> QED BY <4>3, <4>4, <4>5 DEF SignatureAttestsStore, Attested
    <3> QED BY <3>1, <3>2, LandedGrows
  <2> QED BY <2>1, <2>2 DEF SigInv
<1>3. SigInv => SignatureAttestsStore
  BY DEF SigInv
<1> QED BY <1>1, <1>2, <1>3, InvariantHolds, PTL DEF Spec

-----------------------------------------------------------------------------
(* One landing for each execution. *)

\* While no answer was lost, a stamp that landed is one of an earlier execution of
\* its job, or its job has ended and is not started yet.
Settled(s) == s.gen < gen[s.run] \/ (s.gen = gen[s.run] /\ pc[s.run] \in {"done", "idle"})

LandedSettled == lostAcks = 0 => \A i \in DOMAIN landed : Settled(landed[i].stamp)

\* A settled stamp stays settled: a job that is done can only be started anew.
LEMMA SettledStaysSettled ==
    ASSUME IInv, [Next]_vars, NEW s \in Stamp, Settled(s)
    PROVE  Settled(s)'
<1>1. /\ pc \in [Runs -> Phases] /\ gen \in [Runs -> Nat]
      /\ s.run \in Runs /\ s.gen \in Nat
  BY DEF IInv, TypeOK, Stamp
<1> DEFINE r == s.run
<1>2. CASE /\ gen'[r] = gen[r]
           /\ pc[r] \in {"done", "idle"} => pc'[r] \in {"done", "idle"}
  BY <1>2 DEF Settled
<1>3. CASE Collect(r)
  <2>1. gen'[r] = gen[r] + 1
    BY <1>1, <1>3 DEF Collect
  <2> QED BY <1>1, <2>1 DEF Settled
<1>4. CASE Tick \/ UNCHANGED vars
  BY <1>2, <1>4 DEF Tick, vars, workspace
<1>5. ASSUME NEW q \in Runs, q # r,
             \/ Collect(q) \/ Retry(q) \/ Restore(q) \/ LoadToday(q) \/ Appending(q)
             \/ Sign(q) \/ Archive(q) \/ PublishConflict(q) \/ Ending(q) \/ Landing(q)
      PROVE  gen'[r] = gen[r] /\ pc'[r] = pc[r]
  BY <1>1, <1>5, StepTouchesOneJob DEF Untouched
<1>6. CASE \/ Retry(r) \/ Restore(r) \/ LoadToday(r) \/ Sign(r) \/ Archive(r)
           \/ PublishConflict(r)
  BY <1>1, <1>6, <1>2 DEF Retry, Restore, LoadToday, Sign, Archive, PublishConflict, workspace
<1>7. CASE Appending(r)
  BY <1>1, <1>7, <1>2 DEF Appending, AppendDatapoints, AppendNothing
<1>8. CASE Landing(r)
  <2>1. pc[r] = "publish" /\ gen' = gen
    BY <1>1, <1>8, LandingEffect
  <2> QED BY <1>2, <2>1
<1>9. CASE Ending(r)
  <2>1. pc[r] \in {"done", "idle"} => pc'[r] = "idle"
    BY <1>1, <1>9 DEF Ending, GiveUp, Crash, Rerun, RestoreFails, SignFails, ArchiveFails,
       PublishFails, End, Goto, Running
  <2>2. gen' = gen
    BY <1>1, <1>9, EndingEffect
  <2> QED BY <1>2, <2>1, <2>2
<1> QED BY <1>1, <1>2, <1>3, <1>4, <1>5, <1>6, <1>7, <1>8, <1>9, NextCases

\* A lost answer is never forgotten, and a landing whose answer arrives ends the job.
LEMMA LostAcksGrow ==
    ASSUME IInv, [Next]_vars
    PROVE  /\ faults' \in {faults, faults + 1} /\ lostAcks' \in {lostAcks, lostAcks + 1}
           /\ \A r \in Runs : Landing(r) /\ lostAcks' = lostAcks => pc' = [pc EXCEPT ![r] = "done"]
<1>1. faults \in Nat /\ lostAcks \in Nat
  BY DEF IInv, TypeOK
<1>2. faults' \in {faults, faults + 1} /\ lostAcks' \in {lostAcks, lostAcks + 1}
  <2>1. CASE Tick \/ UNCHANGED vars
    BY <2>1 DEF Tick, vars, faultVars
  <2>2. CASE \E r \in Runs : \/ Collect(r) \/ Retry(r) \/ Restore(r) \/ LoadToday(r)
                             \/ Appending(r) \/ Sign(r) \/ Archive(r) \/ PublishConflict(r)
    BY <2>2 DEF Collect, Retry, Restore, LoadToday, Appending, AppendDatapoints,
                AppendNothing, Sign, Archive, PublishConflict, faultVars
  <2>3. CASE \E r \in Runs : Ending(r) \/ Landing(r)
    BY <2>3, EndingEffect, LandingEffect
  <2> QED BY <2>1, <2>2, <2>3, NextCases
<1>3. ASSUME NEW r \in Runs, Landing(r), lostAcks' = lostAcks
      PROVE  pc' = [pc EXCEPT ![r] = "done"]
  BY <1>1, <1>3 DEF Landing, Publish, PublishAckLost, LostAck, End, Goto
<1> QED BY <1>2, <1>3

\* However often a job goes round its loop, one execution of it lands its datapoints
\* at most once, unless the answer to a PUT that was applied got lost
\* (append_metrics.py:7-9).
THEOREM LandsOncePerRun == Spec => [](lostAcks = 0 => OncePerRun)
<1> DEFINE J == LandedSettled /\ (lostAcks = 0 => OncePerRun)
<1>1. Init => J
  BY DEF Init, LandedSettled, OncePerRun
<1>2. IInv /\ J /\ [Next]_vars => J'
  <2> SUFFICES ASSUME IInv, J, [Next]_vars, lostAcks' = 0
               PROVE  (\A i \in DOMAIN landed : Settled(landed[i].stamp))' /\ OncePerRun'
    BY DEF LandedSettled
  <2>1. lostAcks = 0 /\ lostAcks' = lostAcks
    BY LostAcksGrow DEF IInv, TypeOK
  <2>2. /\ landed \in Seq(Contribution)
        /\ \A i \in DOMAIN landed : landed[i].stamp \in Stamp /\ Settled(landed[i].stamp)
    <3>1. landed \in Seq(Contribution)
      BY DEF IInv, TypeOK
    <3>2. \A i \in DOMAIN landed : landed[i] \in Contribution
      BY <3>1
    <3> QED BY <2>1, <3>1, <3>2 DEF LandedSettled, Contribution
  <2>3. \A s \in Stamp : Settled(s) => Settled(s)'
    BY SettledStaysSettled
  <2>4. CASE landed' = landed
    <3>1. ASSUME NEW i \in DOMAIN landed', NEW s, s = landed'[i].stamp PROVE Settled(s)'
      BY <2>2, <2>3, <2>4, <3>1
    <3> QED BY <2>1, <2>4, <3>1 DEF OncePerRun
  <2>5. ASSUME NEW r \in Runs, Landing(r)
        PROVE  (\A i \in DOMAIN landed : Settled(landed[i].stamp))' /\ OncePerRun'
    <3> DEFINE c == Pending(r)
    <3>1. c \in Contribution /\ landed' = Append(landed, c)
      BY <2>5, LandingFolds
    <3>2. /\ c.stamp.run = r /\ c.stamp.gen = gen[r] /\ c.stamp \in Stamp
      <4>1. c.stamp.run = r /\ c.stamp.gen = gen[r]
        BY DEF Pending, ContributionOf, StampOf
      <4> QED BY <3>1, <4>1 DEF Contribution
    <3> HIDE DEF c
    <3>3. pc[r] = "publish" /\ pc' = [pc EXCEPT ![r] = "done"] /\ gen' = gen
      BY <2>1, <2>5, LandingEffect, LostAcksGrow
    <3>4. \A i \in DOMAIN landed' : landed'[i] = IF i \in DOMAIN landed THEN landed[i] ELSE c
      BY <2>2, <3>1
    <3>5. ASSUME NEW i \in DOMAIN landed', NEW s, s = landed'[i].stamp PROVE Settled(s)'
      <4>1. CASE i \in DOMAIN landed
        BY <2>2, <2>3, <3>4, <3>5, <4>1
      <4>2. CASE i \notin DOMAIN landed
        <5>1. s = c.stamp
          BY <3>4, <3>5, <4>2
        <5>2. pc'[r] = "done"
          BY <3>3 DEF IInv, TypeOK
        <5> QED BY <3>2, <3>3, <5>1, <5>2 DEF Settled
      <4> QED BY <4>1, <4>2
    <3>6. \A i \in DOMAIN landed : landed[i].stamp.run # r \/ landed[i].stamp.gen # gen[r]
      <4> SUFFICES ASSUME NEW i \in DOMAIN landed, landed[i].stamp.run = r
                   PROVE  landed[i].stamp.gen < gen[r]
        BY DEF IInv, TypeOK
      <4> QED BY <2>2, <3>3 DEF Settled
    <3>7. OncePerRun'
      <4>1. \A i \in DOMAIN landed' \ DOMAIN landed : i = Len(landed) + 1
        BY <2>2, <3>1
      <4> QED BY <2>1, <3>2, <3>4, <3>6, <4>1 DEF OncePerRun
    <3> QED BY <3>5, <3>7
  <2> QED BY <2>4, <2>5, LandedGrows
<1>3. J => (lostAcks = 0 => OncePerRun)
  OBVIOUS
<1> QED BY <1>1, <1>2, <1>3, InvariantHolds, PTL DEF Spec

-----------------------------------------------------------------------------
(* The archive. *)

\* Record a shows every outcome of a collection that job r made in its execution g.
ShowsOutcomes(a, r, g, out) ==
    \A k \in KSIs : out[k] # None =>
        \E o \in a.obs[k] : o.hash.run = r /\ o.hash.gen = g /\ o.val = out[k]

\* From the append to the upload, the copy of job r holds its datapoint of every
\* KSI that was evaluated, stamped with the time the archive record is cut by.
OwnDatapoints(r) ==
    pc[r] \in Appended => ShowsOutcomes([obs |-> RunObservations(local[r], local[r].lastAt)],
                                        r, gen[r], facts[r].out)

\* What the archive says of a job in its first execution is the present collection.
FirstRecords ==
    \A a \in archive :
        /\ gen[a.run] >= 1
        /\ gen[a.run] = 1 => ShowsOutcomes(a, a.run, 1, facts[a.run].out)

\* A job has been started, and before the upload it has put its record in the archive.
Recorded(r) ==
    /\ pc[r] # "idle" => gen[r] >= 1
    /\ pc[r] = "publish" => \E a \in archive : SameKey(a, ObservationRecord(r))

\* Landings come from started executions, and those of first ones are archived.
FirstsArchived ==
    \A i \in DOMAIN landed :
        /\ landed[i].stamp.gen >= 1
        /\ landed[i].stamp.gen = 1 => \E a \in archive : ArchivesContribution(a, landed[i])

ArchInv ==
    /\ \A r \in Runs : OwnDatapoints(r) /\ Recorded(r)
    /\ FirstRecords
    /\ FirstsArchived

\* The datapoint of a run outlives the pruning of its own append.
LEMMA NewObservationIsKept ==
    ASSUME NEW h, NEW c \in Contribution, c.today <= DayOf(c.at), NEW k \in Appends(c),
           NEW o, o = ChainObservation(h.obs[k], h.anchor[k], c, k)
    PROVE  o \in AppendRun(h, c).obs[k] /\ RecordsLanding(o, c, k)
<1>1. RecordsLanding(o, c, k)
  BY DEF RecordsLanding, ChainObservation
<1>2. ~ DayOf(o.at) < Cutoff(c.today)
  <2>1. c.today \in Nat /\ c.at \in Nat /\ RetainDays \in Nat
    BY ContentAssumption DEF Contribution
  <2>2. DayOf(c.at) \in Nat
    BY <2>1, DayOfIsMonotone
  <2> QED BY <1>1, <2>1, <2>2 DEF Cutoff, RecordsLanding
<1>3. o \in Grown(h, c, k) \ PrunedObs(Grown(h, c, k), Cutoff(c.today))
  <2>1. o \in Grown(h, c, k)
    BY DEF Grown
  <2> QED BY <1>2, <2>1 DEF PrunedObs
<1> QED BY <1>1, <1>3, FoldedObs

\* An append that goes on to the publisher has recorded every evaluated KSI.
LEMMA AppendShowsOutcomes ==
    ASSUME IInv, NEW r \in Runs, Appending(r)
    PROVE  OwnDatapoints(r)'
<1> DEFINE c == ContributionOf(r, clock)
           h == AppendRun(local[r], c)
<1>1. /\ c \in Contribution /\ c.at = clock /\ c.today = today[r] /\ c.day = facts[r].day
      /\ c.out = facts[r].out /\ c.stamp.run = r /\ c.stamp.gen = gen[r]
      /\ clock \in Nat /\ local \in [Runs -> History] /\ pc \in [Runs -> Phases]
  BY ContributionType DEF IInv, TypeOK, ContributionOf, StampOf
<1>2. c.today <= DayOf(c.at)
  BY <1>1 DEF IInv, ClockIsAhead
<1>3. PICK p \in {"sign", "archive", "empty"} :
          pc' = [pc EXCEPT ![r] = p] /\ (p # "empty" => Appends(c) # {})
  BY AppendingEffect
<1>4. /\ local' = [local EXCEPT ![r] = h] /\ gen' = gen /\ facts' = facts
  BY AppendingEffect
<1>5. Appends(c) # {} => h.lastAt = c.at
  BY DEF AppendRun
<1>6. \A k \in Appends(c) : \E o \in h.obs[k] : RecordsLanding(o, c, k)
  BY <1>1, <1>2, NewObservationIsKept
<1> HIDE DEF c, h
<1>7. SUFFICES ASSUME p # "empty", NEW k \in KSIs, facts[r].out[k] # None
               PROVE  \E o \in RunObservations(h, h.lastAt)[k] :
                         o.hash.run = r /\ o.hash.gen = gen[r] /\ o.val = facts[r].out[k]
  <2>1. local'[r] = h /\ pc'[r] = p
    BY <1>1, <1>3, <1>4
  <2> QED BY <1>4, <2>1 DEF OwnDatapoints, ShowsOutcomes, Appended
<1>8. k \in Appends(c)
  BY <1>1, <1>3, <1>7 DEF Appends
<1>9. PICK o \in h.obs[k] : RecordsLanding(o, c, k)
  BY <1>6, <1>8
<1> QED BY <1>1, <1>5, <1>8, <1>9 DEF RunObservations, RecordsLanding

\* A started job has its own datapoints in its copy and its record in the archive.
LEMMA OwnRecordsStay ==
    ASSUME IInv, ArchInv, NEW r \in Runs,
           \/ Collect(r) \/ Retry(r) \/ Restore(r) \/ LoadToday(r) \/ Appending(r)
           \/ Sign(r) \/ Archive(r) \/ PublishConflict(r) \/ Ending(r) \/ Landing(r)
    PROVE  OwnDatapoints(r)' /\ Recorded(r)'
<1> USE DEF Appended
<1>1. /\ OwnDatapoints(r) /\ Recorded(r)
      /\ pc \in [Runs -> Phases] /\ gen \in [Runs -> Nat] /\ local \in [Runs -> History]
  BY DEF ArchInv, IInv, TypeOK
<1>2. CASE Collect(r) \/ Retry(r) \/ Restore(r) \/ LoadToday(r) \/ PublishConflict(r)
  <2>1. pc'[r] \in {"restore", "load", "append", "conflict"}
    BY <1>1, <1>2 DEF Collect, Retry, Restore, LoadToday, PublishConflict, Goto
  <2>2. gen'[r] >= 1
    <3>1. gen'[r] = gen[r] \/ gen'[r] = gen[r] + 1
      BY <1>1, <1>2 DEF Collect, Retry, Restore, LoadToday, PublishConflict, workspace
    <3>2. gen'[r] = gen[r] => pc[r] # "idle"
      BY <1>1, <1>2 DEF Collect, Retry, Restore, LoadToday, PublishConflict
    <3> QED BY <1>1, <3>1, <3>2 DEF Recorded
  <2> QED BY <2>1, <2>2 DEF OwnDatapoints, Recorded
<1>3. CASE Appending(r)
  <2>1. OwnDatapoints(r)'
    BY <1>3, AppendShowsOutcomes
  <2>2. pc'[r] \in {"sign", "archive", "empty"} /\ gen' = gen /\ pc[r] # "idle"
    BY <1>1, <1>3 DEF Appending, AppendDatapoints, AppendNothing, Goto, AfterAppend
  <2> QED BY <1>1, <2>1, <2>2 DEF Recorded
<1>4. CASE Sign(r)
  <2> DEFINE h == SignHistory(local[r])
  <2>1. /\ pc[r] = "sign" /\ pc' = [pc EXCEPT ![r] = "archive"]
        /\ local' = [local EXCEPT ![r] = h] /\ h.obs = local[r].obs /\ h.lastAt = local[r].lastAt
        /\ gen' = gen /\ facts' = facts
    BY <1>4, SignEffect
  <2> HIDE DEF h
  <2>2. pc'[r] = "archive" /\ local'[r] = h
    BY <1>1, <2>1
  <2>3. RunObservations(h, h.lastAt) = RunObservations(local[r], local[r].lastAt)
    BY <2>1 DEF RunObservations
  <2> QED BY <1>1, <2>1, <2>2, <2>3 DEF OwnDatapoints, Recorded, ShowsOutcomes
<1>5. CASE Archive(r)
  <2>1. /\ pc[r] = "archive" /\ pc' = [pc EXCEPT ![r] = "publish"]
        /\ UNCHANGED <<gen, facts, local>>
    BY <1>5 DEF Archive, Goto, workspace
  <2>2. OwnDatapoints(r)'
    BY <1>1, <2>1 DEF OwnDatapoints, ShowsOutcomes
  <2>3. \E a \in archive' : SameKey(a, ObservationRecord(r))
    <3>1. \A a : SameKey(a, a)
      BY DEF SameKey
    <3> QED BY <1>5, <3>1 DEF Archive, PutObservations
  <2>4. ObservationRecord(r)' = ObservationRecord(r)
    BY <2>1 DEF ObservationRecord
  <2> QED BY <1>1, <2>1, <2>2, <2>3, <2>4 DEF Recorded
<1>6. CASE Ending(r)
  <2>1. PICK p \in Ended \cup {"idle"} : pc' = [pc EXCEPT ![r] = p]
    BY <1>6, EndingEffect
  <2>2. gen' = gen /\ pc[r] # "idle"
    <3>1. pc[r] # "idle"
      BY <1>6 DEF Ending, GiveUp, Crash, Rerun, RestoreFails, SignFails, ArchiveFails,
         PublishFails, Running, Ended
    <3> QED BY <1>6, <3>1, EndingEffect
  <2> QED BY <1>1, <2>1, <2>2 DEF OwnDatapoints, Recorded, Ended
<1>7. CASE Landing(r)
  <2>1. PICK p \in {"done", "failed", "conflict"} : pc' = [pc EXCEPT ![r] = p]
    BY <1>7, LandingEffect
  <2>2. gen' = gen /\ pc[r] = "publish"
    BY <1>7, LandingEffect
  <2> QED BY <1>1, <2>1, <2>2 DEF OwnDatapoints, Recorded
<1> QED BY <1>2, <1>3, <1>4, <1>5, <1>6, <1>7

\* No step of another job takes a job's datapoints or its record away.
LEMMA OthersRecordsStay ==
    ASSUME NEW s \in Runs, Untouched(s), archive \subseteq archive',
           OwnDatapoints(s), Recorded(s)
    PROVE  OwnDatapoints(s)' /\ Recorded(s)'
<1>1. /\ pc'[s] = pc[s] /\ gen'[s] = gen[s] /\ facts'[s] = facts[s] /\ local'[s] = local[s]
  BY DEF Untouched
<1>2. ObservationRecord(s)' = ObservationRecord(s)
  BY <1>1 DEF ObservationRecord
<1> QED BY <1>1, <1>2 DEF OwnDatapoints, Recorded, ShowsOutcomes

\* The first records of the archive stay what they say: no step changes the facts
\* of a started job but its end, and a record is put by a job that holds its datapoints.
LEMMA FirstRecordsStay ==
    ASSUME IInv, ArchInv, [Next]_vars
    PROVE  FirstRecords'
<1>1. /\ gen \in [Runs -> Nat] /\ facts \in [Runs -> FactStore] /\ archive \subseteq ArchiveRecord
      /\ pc \in [Runs -> Phases]
  BY DEF IInv, TypeOK
<1>2. \A a \in archive : a.run \in Runs
  BY <1>1 DEF ArchiveRecord
<1>3. \A a, q, g : ShowsOutcomes(a, q, g, NoFacts.out)
  BY DEF ShowsOutcomes, NoFacts
<1>4. ASSUME NEW a \in archive, NEW q, q = a.run,
             /\ gen'[q] = gen[q]
             /\ facts'[q] = facts[q] \/ facts'[q] = NoFacts
      PROVE  gen'[q] >= 1 /\ (gen'[q] = 1 => ShowsOutcomes(a, q, 1, facts'[q].out))
  BY <1>3, <1>4 DEF ArchInv, FirstRecords
<1>5. CASE Tick \/ UNCHANGED vars
  <2>1. UNCHANGED <<archive, gen, facts>>
    BY <1>5 DEF Tick, vars, world, workspace
  <2> QED BY <2>1 DEF ArchInv, FirstRecords
<1>6. ASSUME NEW r \in Runs, Collect(r) PROVE FirstRecords'
  <2>1. /\ archive' = archive /\ gen' = [gen EXCEPT ![r] = @ + 1]
        /\ \A q \in Runs \ {r} : facts'[q] = facts[q] /\ gen'[q] = gen[q]
    BY <1>1, <1>6 DEF Collect, world
  <2>2. ASSUME NEW a \in archive, a.run = r PROVE gen'[r] > 1
    BY <1>1, <2>1, <2>2 DEF ArchInv, FirstRecords
  <2>3. ASSUME NEW a \in archive
        PROVE  gen'[a.run] >= 1 /\ (gen'[a.run] = 1 => ShowsOutcomes(a, a.run, 1, facts'[a.run].out))
    <3>1. CASE a.run = r
      BY <1>1, <2>1, <2>2, <3>1
    <3>2. CASE a.run # r
      BY <1>2, <1>4, <2>1, <3>2
    <3> QED BY <3>1, <3>2
  <2> QED BY <2>1, <2>3 DEF FirstRecords
<1>7. ASSUME NEW r \in Runs,
             \/ Retry(r) \/ Restore(r) \/ LoadToday(r) \/ Appending(r)
             \/ Sign(r) \/ Archive(r) \/ PublishConflict(r) \/ Ending(r) \/ Landing(r)
      PROVE  FirstRecords'
  <2>1. gen' = gen /\ (facts' = facts \/ facts' = [facts EXCEPT ![r] = NoFacts])
    <3>1. CASE \/ Retry(r) \/ Restore(r) \/ LoadToday(r) \/ Appending(r)
               \/ Sign(r) \/ Archive(r) \/ PublishConflict(r)
      BY <3>1 DEF Retry, Restore, LoadToday, Appending, AppendDatapoints, AppendNothing,
                  Sign, Archive, PublishConflict, workspace
    <3> QED BY <1>7, <3>1, EndingEffect, LandingEffect
  <2>2. \/ archive' = archive
        \/ pc[r] = "archive" /\ archive' = archive \cup {ObservationRecord(r)}
    <3>1. CASE \/ Retry(r) \/ Restore(r) \/ LoadToday(r) \/ Appending(r) \/ Sign(r)
               \/ PublishConflict(r) \/ Landing(r)
      BY <3>1, LandingEffect
      DEF Retry, Restore, LoadToday, Appending, AppendDatapoints, AppendNothing, Sign,
          PublishConflict, world
    <3>2. CASE Archive(r)
      BY <3>2 DEF Archive, PutObservations
    <3>3. CASE Ending(r)
      BY <3>3, EndingEffect DEF PutObservations
    <3> QED BY <1>7, <3>1, <3>2, <3>3
  <2>3. ASSUME NEW a \in archive
        PROVE  gen'[a.run] >= 1 /\ (gen'[a.run] = 1 => ShowsOutcomes(a, a.run, 1, facts'[a.run].out))
    <3>1. facts'[a.run] = facts[a.run] \/ facts'[a.run] = NoFacts
      BY <1>1, <1>2, <2>1
    <3> QED BY <1>4, <2>1, <3>1
  <2>4. ASSUME pc[r] = "archive", NEW a, a = ObservationRecord(r)
        PROVE  gen'[a.run] >= 1 /\ (gen'[a.run] = 1 => ShowsOutcomes(a, a.run, 1, facts'[a.run].out))
    <3>1. a.run = r /\ a.obs = RunObservations(local[r], local[r].lastAt)
      BY <2>4 DEF ObservationRecord
    <3>2. gen[r] >= 1 /\ OwnDatapoints(r)
      BY <2>4 DEF ArchInv, Recorded
    <3>3. ShowsOutcomes(a, r, gen[r], facts[r].out)
      BY <2>4, <3>1, <3>2 DEF OwnDatapoints, Appended, ShowsOutcomes
    <3>4. facts'[r] = facts[r] \/ facts'[r] = NoFacts
      BY <1>1, <2>1
    <3> QED BY <1>3, <2>1, <3>1, <3>2, <3>3, <3>4
  <2> QED BY <2>2, <2>3, <2>4 DEF FirstRecords
<1> QED BY <1>5, <1>6, <1>7, NextCases

\* A landing of a first execution finds its record in the archive.
LEMMA FirstsStayArchived ==
    ASSUME IInv, ArchInv, [Next]_vars, archive \subseteq archive'
    PROVE  FirstsArchived'
<1>1. CASE landed' = landed
  BY <1>1 DEF ArchInv, FirstsArchived
<1>2. ASSUME NEW r \in Runs, Landing(r) PROVE FirstsArchived'
  <2> DEFINE c == Pending(r)
  <2>1. c \in Contribution /\ landed' = Append(landed, c) /\ landed \in Seq(Contribution)
    BY <1>2, LandingFolds DEF IInv, TypeOK
  <2>2. c.stamp.run = r /\ c.stamp.gen = gen[r] /\ c.out = facts[r].out
    BY DEF Pending, ContributionOf, StampOf
  <2> HIDE DEF c
  <2>3. pc[r] = "publish" /\ gen[r] >= 1
    BY <1>2, LandingEffect DEF ArchInv, Recorded
  <2>4. ASSUME gen[r] = 1 PROVE \E a \in archive : ArchivesContribution(a, c)
    <3>1. PICK a \in archive : SameKey(a, ObservationRecord(r))
      BY <2>3 DEF ArchInv, Recorded
    <3>2. a.run = r
      BY <3>1 DEF SameKey, ObservationRecord
    <3>3. ShowsOutcomes(a, r, 1, c.out)
      BY <2>2, <2>4, <3>2 DEF ArchInv, FirstRecords
    <3> QED BY <2>2, <2>4, <3>2, <3>3 DEF ShowsOutcomes, ArchivesContribution, Appends
  <2>5. \A i \in DOMAIN landed' : landed'[i] = IF i \in DOMAIN landed THEN landed[i] ELSE c
    BY <2>1
  <2>6. ASSUME NEW i \in DOMAIN landed', NEW d, d = landed'[i]
        PROVE  /\ d.stamp.gen >= 1
               /\ d.stamp.gen = 1 => \E a \in archive' : ArchivesContribution(a, d)
    <3>1. CASE i \in DOMAIN landed
      <4>1. d = landed[i]
        BY <2>5, <2>6, <3>1
      <4> QED BY <3>1, <4>1 DEF ArchInv, FirstsArchived
    <3>2. CASE i \notin DOMAIN landed
      BY <2>2, <2>3, <2>4, <2>5, <2>6, <3>2
    <3> QED BY <3>1, <3>2
  <2> QED BY <2>6 DEF FirstsArchived, ArchivesContribution
<1> QED BY <1>1, <1>2, LandedGrows

\* As long as no job id was started twice, every landed run has its run-level record
\* in the archive, with the datapoints of the same collection (publish_history.py:21-24).
THEOREM LandingsFindTheirRecord ==
    Spec => []((\A r \in Runs : gen[r] <= 1) => LandingsAreArchived)
<1>1. Init => ArchInv
  BY DEF Init, ArchInv, OwnDatapoints, Recorded, FirstRecords, FirstsArchived, Appended
<1>2. IInv /\ ArchInv /\ [Next]_vars => ArchInv'
  <2> SUFFICES ASSUME IInv, ArchInv, [Next]_vars PROVE ArchInv'
    OBVIOUS
  <2>1. archive \subseteq archive'
    BY ArchiveSteps DEF PutObservations
  <2>2. ASSUME NEW s \in Runs PROVE OwnDatapoints(s)' /\ Recorded(s)'
    <3>1. OwnDatapoints(s) /\ Recorded(s)
      BY DEF ArchInv
    <3>2. CASE Tick \/ UNCHANGED vars
      <4>1. Untouched(s)
        BY <3>2 DEF Tick, vars, workspace, Untouched
      <4> QED BY <2>1, <3>1, <4>1, OthersRecordsStay
    <3>3. ASSUME NEW r \in Runs,
                 \/ Collect(r) \/ Retry(r) \/ Restore(r) \/ LoadToday(r) \/ Appending(r)
                 \/ Sign(r) \/ Archive(r) \/ PublishConflict(r) \/ Ending(r) \/ Landing(r)
          PROVE  OwnDatapoints(s)' /\ Recorded(s)'
      <4>1. CASE s = r
        BY <3>3, <4>1, OwnRecordsStay
      <4>2. CASE s # r
        <5>1. Untouched(s)
          BY <3>3, <4>2, StepTouchesOneJob
        <5> QED BY <2>1, <3>1, <5>1, OthersRecordsStay
      <4> QED BY <4>1, <4>2
    <3> QED BY <3>2, <3>3, NextCases
  <2> QED BY <2>1, <2>2, FirstRecordsStay, FirstsStayArchived DEF ArchInv
<1>3. IInv /\ ArchInv => ((\A r \in Runs : gen[r] <= 1) => LandingsAreArchived)
  <2> SUFFICES ASSUME IInv, ArchInv, \A r \in Runs : gen[r] <= 1, NEW i \in DOMAIN landed
               PROVE  \E a \in archive : ArchivesContribution(a, landed[i])
    BY DEF LandingsAreArchived
  <2>1. landed[i].stamp \in Stamp /\ Spent(landed[i].stamp)
    <3>1. landed[i] \in Contribution
      BY DEF IInv, TypeOK
    <3> QED BY <3>1 DEF Contribution, IInv, SpentStamps
  <2>2. landed[i].stamp.gen = 1
    <3>1. gen \in [Runs -> Nat] /\ landed[i].stamp.gen \in Nat /\ landed[i].stamp.run \in Runs
      BY <2>1 DEF IInv, TypeOK, Stamp
    <3>2. landed[i].stamp.gen <= gen[landed[i].stamp.run] /\ landed[i].stamp.gen >= 1
      BY <2>1, <3>1 DEF Spent, ArchInv, FirstsArchived
    <3> QED BY <3>1, <3>2
  <2> QED BY <2>2 DEF ArchInv, FirstsArchived
<1> QED BY <1>1, <1>2, <1>3, InvariantHolds, PTL DEF Spec

-----------------------------------------------------------------------------
(* Losing the race. *)

\* The landings of other jobs than r, and those among the first n landings.
Others(r) == {i \in DOMAIN landed : landed[i].stamp.run # r}
OthersUpTo(r, n) == {i \in Others(r) : i <= n}

\* What a job lost so far: each of its earlier attempts lost to a landing of another
\* job, and none of its own landings is newer than the object it restored.
Losses(r) ==
    /\ pc[r] = "restore" => Cardinality(Others(r)) >= attempt[r] - 1
    /\ pc[r] \in Restored \cup Appended =>
          /\ Cardinality(OthersUpTo(r, etag[r])) >= attempt[r] - 1
          /\ \A i \in DOMAIN landed : i > etag[r] => landed[i].stamp.run # r
    /\ pc[r] = "conflict" => Cardinality(Others(r)) >= attempt[r]
    /\ pc[r] = "failed" => Cardinality(Others(r)) >= MaxAttempts

LoserInv ==
    /\ version = Len(landed)
    /\ faults + lostAcks = 0 => \A r \in Runs : Losses(r)

\* The landings of other jobs are finitely many and only grow; those up to a landing
\* do not change any more, and the ones up to the last landing are all of them.
LEMMA OthersGrow ==
    ASSUME IInv, [Next]_vars, version = Len(landed), NEW r \in Runs
    PROVE  /\ version' = Len(landed')
           /\ Cardinality(Others(r)) \in Nat /\ Cardinality(Others(r)') \in Nat
           /\ Cardinality(Others(r)) <= Cardinality(Others(r)')
           /\ \A n \in Nat : /\ Cardinality(OthersUpTo(r, n)) \in Nat
                             /\ Cardinality(OthersUpTo(r, n)) <= Cardinality(Others(r))
                             /\ n <= version => OthersUpTo(r, n)' = OthersUpTo(r, n)
           /\ OthersUpTo(r, version) = Others(r)
<1>1. landed \in Seq(Contribution) /\ landed' \in Seq(Contribution)
  BY TypesStay DEF IInv, TypeOK
<1>2. /\ Len(landed) \in Nat /\ DOMAIN landed = 1 .. Len(landed)
      /\ Len(landed') \in Nat /\ DOMAIN landed' = 1 .. Len(landed')
  BY <1>1
<1>3. IsFiniteSet(DOMAIN landed) /\ IsFiniteSet(DOMAIN landed')
  BY <1>2, FS_Interval
<1>4. /\ Others(r) \in SUBSET DOMAIN landed /\ Others(r)' \in SUBSET DOMAIN landed'
  BY DEF Others
<1>5. IsFiniteSet(Others(r)) /\ IsFiniteSet(Others(r)')
  BY <1>3, <1>4, FS_Subset
<1>6. /\ version' = Len(landed') /\ Len(landed) <= Len(landed')
      /\ \A i \in DOMAIN landed : i \in DOMAIN landed' /\ landed'[i] = landed[i]
  <2>1. CASE \E q \in Runs : Landing(q)
    <3>1. PICK q \in Runs : Landing(q)
      BY <2>1
    <3> DEFINE c == Pending(q)
    <3>2. c \in Contribution /\ landed' = Append(landed, c) /\ version' = version + 1
      BY <3>1, LandingFolds, LandingEffect
    <3> HIDE DEF c
    <3> QED BY <1>1, <3>2
  <2>2. CASE UNCHANGED <<version, landed>>
    BY <1>2, <2>2
  <2>3. CASE \E q \in Runs : Ending(q)
    BY <2>3, <2>2, EndingEffect
  <2>4. CASE \E q \in Runs : Restore(q) \/ LoadToday(q) \/ Appending(q) \/ Sign(q)
    BY <2>4, <2>2
    DEF Restore, LoadToday, Appending, AppendDatapoints, AppendNothing, Sign, world
  <2>5. CASE Tick
    BY <2>5, <2>2 DEF Tick, world
  <2> QED BY <2>1, <2>2, <2>3, <2>4, <2>5, QuietSteps
<1>7. Others(r) \in SUBSET (Others(r)')
  BY <1>6 DEF Others
<1>8. /\ Cardinality(Others(r)) \in Nat /\ Cardinality(Others(r)') \in Nat
      /\ Cardinality(Others(r)) <= Cardinality(Others(r)')
  BY <1>5, <1>7, FS_Subset, FS_CardinalityType
<1>9. ASSUME NEW n \in Nat
      PROVE  /\ Cardinality(OthersUpTo(r, n)) \in Nat
             /\ Cardinality(OthersUpTo(r, n)) <= Cardinality(Others(r))
             /\ n <= version => OthersUpTo(r, n)' = OthersUpTo(r, n)
  <2>1. OthersUpTo(r, n) \in SUBSET Others(r)
    BY DEF OthersUpTo
  <2>2. ASSUME n <= version PROVE OthersUpTo(r, n)' = OthersUpTo(r, n)
    <3>1. \A i \in DOMAIN landed' : i <= n => i \in DOMAIN landed
      BY <1>2, <2>2
    <3> QED BY <1>2, <1>6, <3>1 DEF OthersUpTo, Others
  <2> QED BY <1>5, <2>1, <2>2, FS_Subset, FS_CardinalityType
<1>10. OthersUpTo(r, version) = Others(r)
  BY <1>2 DEF OthersUpTo, Others
<1> QED BY <1>6, <1>8, <1>9, <1>10

\* A conflict is a loss: the object has been replaced by another job since the restore.
LEMMA ConflictIsALoss ==
    ASSUME IInv, version = Len(landed), NEW r \in Runs, Losses(r),
           pc[r] = "publish", etag[r] # version
    PROVE  Cardinality(Others(r)) >= attempt[r]
<1>1. /\ landed \in Seq(Contribution) /\ etag[r] \in Nat /\ attempt[r] \in Nat
      /\ etag[r] <= version
  BY DEF IInv, TypeOK, CurrentCopies, CurrentCopy
<1> DEFINE n == Len(landed)
           older == OthersUpTo(r, etag[r])
<1>2. n \in DOMAIN landed /\ n > etag[r] /\ DOMAIN landed = 1 .. n
  BY <1>1
<1>3. n \in Others(r) /\ n \notin older
  BY <1>1, <1>2 DEF Losses, Appended, Others, OthersUpTo
<1>4. IsFiniteSet(Others(r)) /\ older \in SUBSET Others(r)
  <2>1. IsFiniteSet(DOMAIN landed)
    BY <1>1, <1>2, FS_Interval
  <2> QED BY <2>1, FS_Subset DEF Others, OthersUpTo
<1>5. IsFiniteSet(older) /\ older # Others(r)
  BY <1>3, <1>4, FS_Subset
<1>6. Cardinality(older) <= Cardinality(Others(r)) /\ Cardinality(older) # Cardinality(Others(r))
  BY <1>4, <1>5, FS_Subset
<1>7. Cardinality(older) \in Nat /\ Cardinality(Others(r)) \in Nat
  BY <1>4, <1>5, FS_CardinalityType
<1>8. Cardinality(older) >= attempt[r] - 1
  BY DEF Losses, Appended
<1> QED BY <1>1, <1>6, <1>7, <1>8

\* Without faults and lost answers a step of a job keeps the account of its losses.
LEMMA OwnLosses ==
    ASSUME IInv, [Next]_vars, version = Len(landed), NEW r \in Runs, Losses(r),
           faults' = faults, lostAcks' = lostAcks,
           \/ Collect(r) \/ Retry(r) \/ Restore(r) \/ LoadToday(r) \/ Appending(r)
           \/ Sign(r) \/ Archive(r) \/ PublishConflict(r) \/ Ending(r) \/ Landing(r)
    PROVE  Losses(r)'
<1> USE DEF Restored, Appended
<1>1. /\ pc \in [Runs -> Phases] /\ attempt \in [Runs -> Nat] /\ etag \in [Runs -> Nat]
      /\ faults \in Nat /\ lostAcks \in Nat /\ version \in Nat /\ MaxAttempts \in Nat
  BY MetricHistoryAssumption DEF IInv, TypeOK
<1>2. /\ Cardinality(Others(r)) \in Nat /\ Cardinality(Others(r)') \in Nat
      /\ Cardinality(Others(r)) <= Cardinality(Others(r)')
  BY OthersGrow
<1>3. CASE Collect(r)
  <2>1. pc'[r] = "restore" /\ attempt'[r] = 1
    BY <1>1, <1>3 DEF Collect, Goto
  <2> QED BY <1>2, <2>1 DEF Losses
<1>4. CASE Retry(r)
  <2>1. pc'[r] = "restore" /\ attempt'[r] = attempt[r] + 1 /\ pc[r] = "conflict"
    BY <1>1, <1>4 DEF Retry, Goto
  <2> QED BY <1>1, <1>2, <2>1 DEF Losses
<1>5. CASE Restore(r)
  <2>1. /\ pc[r] = "restore" /\ pc'[r] = "load" /\ etag'[r] = version
        /\ UNCHANGED <<attempt, landed, version>>
    BY <1>1, <1>5 DEF Restore, Goto, world
  <2>2. OthersUpTo(r, version) = Others(r) /\ version = Len(landed)
    BY OthersGrow
  <2>3. OthersUpTo(r, version)' = Others(r)' /\ Others(r)' = Others(r)
    BY <2>1, <2>2 DEF OthersUpTo, Others
  <2>4. \A i \in DOMAIN landed : ~ i > version
    BY <2>2 DEF IInv, TypeOK
  <2>5. OthersUpTo(r, etag[r])' = Others(r)
    BY <2>1, <2>3 DEF OthersUpTo
  <2>6. Cardinality(Others(r)) >= attempt[r] - 1
    BY <2>1 DEF Losses
  <2> QED BY <2>1, <2>4, <2>5, <2>6 DEF Losses
<1>6. CASE LoadToday(r) \/ Appending(r) \/ Sign(r) \/ Archive(r)
  <2>1. /\ pc[r] \in Restored \cup Appended
        /\ pc'[r] \in Restored \cup Appended \cup {"empty"}
        /\ UNCHANGED <<attempt, etag, landed>>
    BY <1>1, <1>6 DEF LoadToday, Appending, AppendDatapoints, AppendNothing, Sign, Archive,
       Goto, AfterAppend, world, workspace
  <2>2. OthersUpTo(r, etag[r])' = OthersUpTo(r, etag[r])
    BY <2>1 DEF OthersUpTo, Others
  <2> QED BY <2>1, <2>2 DEF Losses
<1>7. CASE PublishConflict(r)
  <2>1. /\ pc[r] = "publish" /\ pc'[r] = "conflict" /\ etag[r] # version
        /\ UNCHANGED <<attempt, landed>>
    BY <1>1, <1>7 DEF PublishConflict, PreconditionHolds, Goto, world
  <2>2. Cardinality(Others(r)) >= attempt[r]
    BY <2>1, ConflictIsALoss
  <2>3. Others(r)' = Others(r)
    BY <2>1 DEF Others
  <2> QED BY <2>1, <2>2, <2>3 DEF Losses
<1>8. CASE Ending(r)
  <2>1. GiveUp(r) \/ Rerun(r)
    BY <1>1, <1>8 DEF Ending, Crash, RestoreFails, SignFails, ArchiveFails, PublishFails,
       Fault, LostAck
  <2>2. CASE GiveUp(r)
    <3>1. /\ pc[r] = "conflict" /\ pc'[r] = "failed" /\ attempt[r] >= MaxAttempts
      BY <1>1, <2>2 DEF GiveUp, End, Goto
    <3>2. Cardinality(Others(r)) >= attempt[r]
      BY <3>1 DEF Losses
    <3>3. Cardinality(Others(r)') >= MaxAttempts
      BY <1>1, <1>2, <3>1, <3>2
    <3> QED BY <3>1, <3>3 DEF Losses
  <2>3. CASE Rerun(r)
    <3>1. pc'[r] = "idle"
      BY <1>1, <2>3 DEF Rerun, End, Goto
    <3> QED BY <3>1 DEF Losses
  <2> QED BY <2>1, <2>2, <2>3
<1>9. CASE Landing(r)
  <2>1. pc'[r] = "done"
    BY <1>1, <1>9, LostAcksGrow
  <2> QED BY <2>1 DEF Losses
<1> QED BY <1>3, <1>4, <1>5, <1>6, <1>7, <1>8, <1>9

\* A step of another job adds to what a job lost to others, if anything.
LEMMA OthersLosses ==
    ASSUME IInv, [Next]_vars, version = Len(landed), NEW s \in Runs, Losses(s),
           Untouched(s), \A r \in Runs : Landing(r) => r # s
    PROVE  Losses(s)'
<1>1. /\ pc'[s] = pc[s] /\ attempt'[s] = attempt[s] /\ etag'[s] = etag[s]
  BY DEF Untouched
<1>2. /\ attempt[s] \in Nat /\ etag[s] \in Nat /\ etag[s] <= version
      /\ MaxAttempts \in Nat /\ landed \in Seq(Contribution)
  BY MetricHistoryAssumption DEF IInv, TypeOK, CurrentCopies, CurrentCopy
<1>3. /\ Cardinality(Others(s)) \in Nat /\ Cardinality(Others(s)') \in Nat
      /\ Cardinality(Others(s)) <= Cardinality(Others(s)')
      /\ OthersUpTo(s, etag[s])' = OthersUpTo(s, etag[s])
  <2>1. \A n \in Nat : n <= version => OthersUpTo(s, n)' = OthersUpTo(s, n)
    BY OthersGrow
  <2>2. OthersUpTo(s, etag[s])' = {i \in Others(s)' : i <= etag[s]}
    BY <1>1 DEF OthersUpTo
  <2>3. {i \in Others(s)' : i <= etag[s]} = OthersUpTo(s, etag[s])
    BY <1>2, <2>1 DEF OthersUpTo
  <2> QED BY <2>2, <2>3, OthersGrow
<1>4. ASSUME NEW i \in DOMAIN landed', i > etag[s],
             \A j \in DOMAIN landed : j > etag[s] => landed[j].stamp.run # s
      PROVE  landed'[i].stamp.run # s
  <2>1. CASE landed' = landed
    BY <1>4, <2>1
  <2>2. ASSUME NEW r \in Runs, Landing(r),
               landed'[i] = IF i \in DOMAIN landed THEN landed[i] ELSE Pending(r)
        PROVE  landed'[i].stamp.run # s
    <3>1. Pending(r).stamp.run = r /\ r # s
      BY <2>2 DEF Pending, ContributionOf, StampOf
    <3> QED BY <1>4, <2>2, <3>1
  <2> QED BY <2>1, <2>2, <1>4, LandedGrows
<1> QED BY <1>1, <1>2, <1>3, <1>4 DEF Losses

\* Losing costs a win: while nothing else goes wrong, a job fails only after other
\* jobs have landed MaxAttempts times (living-sdr-loop.yml:115-130).
THEOREM FailingIsLosing == Spec => []OnlyLosersFail
<1>1. Init => LoserInv
  BY DEF Init, LoserInv, Losses, Restored, Appended
<1>2. IInv /\ LoserInv /\ [Next]_vars => LoserInv'
  <2> SUFFICES ASSUME IInv, LoserInv, [Next]_vars PROVE LoserInv'
    OBVIOUS
  <2>1. version = Len(landed)
    BY DEF LoserInv
  <2>2. ASSUME NEW r \in Runs PROVE version' = Len(landed')
    BY <2>1, OthersGrow
  <2>3. CASE Runs = {}
    <3>1. Tick \/ UNCHANGED vars
      BY <2>3 DEF Next
    <3> QED BY <2>1, <2>3, <3>1 DEF Tick, vars, world, LoserInv
  <2>4. ASSUME faults' + lostAcks' = 0, NEW s \in Runs PROVE Losses(s)'
    <3>1. faults' = faults /\ lostAcks' = lostAcks /\ faults + lostAcks = 0
      BY SMTT(30), <2>4, LostAcksGrow DEF IInv, TypeOK
    <3>2. Losses(s)
      BY <3>1 DEF LoserInv
    <3>3. CASE \E r \in Runs : r = s /\
                 (\/ Collect(r) \/ Retry(r) \/ Restore(r) \/ LoadToday(r) \/ Appending(r)
                  \/ Sign(r) \/ Archive(r) \/ PublishConflict(r) \/ Ending(r) \/ Landing(r))
      BY <2>1, <3>1, <3>2, <3>3, OwnLosses
    <3>4. CASE Tick \/ UNCHANGED vars
      <4>1. Untouched(s) /\ landed' = landed /\ UNCHANGED <<pc, attempt, etag>>
        BY <3>4 DEF Tick, vars, workspace, world, Untouched
      <4>2. Others(s)' = Others(s) /\ OthersUpTo(s, etag[s])' = OthersUpTo(s, etag[s])
        BY <4>1 DEF Others, OthersUpTo
      <4> QED BY <3>2, <4>1, <4>2 DEF Losses
    <3>5. ASSUME NEW r \in Runs, r # s,
                 \/ Collect(r) \/ Retry(r) \/ Restore(r) \/ LoadToday(r) \/ Appending(r)
                 \/ Sign(r) \/ Archive(r) \/ PublishConflict(r) \/ Ending(r) \/ Landing(r)
          PROVE  Losses(s)'
      <4>1. Untouched(s)
        BY <3>5, StepTouchesOneJob
      <4>2. \A q \in Runs : Landing(q) => q # s
        <5>1. SUFFICES ASSUME Landing(s) PROVE FALSE
          OBVIOUS
        <5>2. pc'[s] # pc[s]
          <6>1. PICK p \in {"done", "failed", "conflict"} : pc' = [pc EXCEPT ![s] = p]
            BY <5>1, LandingEffect
          <6>2. pc[s] = "publish" /\ pc \in [Runs -> Phases]
            BY <5>1, LandingEffect DEF IInv, TypeOK
          <6> QED BY <6>1, <6>2
        <5> QED BY <4>1, <5>2 DEF Untouched
      <4> QED BY <2>1, <3>2, <4>1, <4>2, OthersLosses
    <3> QED BY <3>3, <3>4, <3>5, NextCases
  <2> QED BY <2>2, <2>3, <2>4 DEF LoserInv
<1>3. LoserInv => OnlyLosersFail
  BY DEF LoserInv, OnlyLosersFail, Losses, Others
<1> QED BY <1>1, <1>2, <1>3, InvariantHolds, PTL DEF Spec

-----------------------------------------------------------------------------
(* The daily rollup. *)

\* At the append, nothing in the copy is dated after the date the appender took.
DatedBefore(r) ==
    pc[r] = "append" => \A k \in KSIs : \A o \in local[r].obs[k] : o.date <= today[r]

RollupInv ==
    /\ HistoryReplays(store)
    /\ \A r \in Runs : HistoryReplays(local[r]) /\ DatedBefore(r)

\* The appender takes its date after the restore, so no datapoint is ahead of it.
LEMMA LoadedCopyIsDatedBefore ==
    ASSUME IInv, NEW r \in Runs, LoadToday(r)
    PROVE  DatedBefore(r)'
<1>1. /\ local' = local /\ today'[r] = DayOf(clock)
  BY DEF LoadToday, IInv, TypeOK
<1>2. /\ IntactHistory(local[r]) /\ StampedBy(local[r], clock) /\ clock \in Nat
      /\ local[r] \in History
  BY DEF IInv, TypeOK, ContentsIntact, ClockIsAhead
<1>3. SUFFICES ASSUME NEW k \in KSIs, NEW o \in local[r].obs[k] PROVE o.date <= DayOf(clock)
  BY <1>1 DEF DatedBefore
<1>4. /\ o.date \in Nat /\ o.at \in Nat /\ o.at <= clock /\ o.date <= DayOf(o.at)
  BY <1>2, <1>3 DEF History, Observation, StampedBy, IntactHistory, OrderedLog
<1>5. DayOf(o.at) <= DayOf(clock) /\ DayOf(o.at) \in Nat /\ DayOf(clock) \in Nat
  BY <1>2, <1>4, DayOfIsMonotone
<1> QED BY <1>4, <1>5

\* A step of a job leaves in its copy what the rollup promises.
LEMMA OwnRollupStays ==
    ASSUME IInv, RollupInv, NEW r \in Runs,
           \/ Collect(r) \/ Retry(r) \/ Restore(r) \/ LoadToday(r) \/ Appending(r)
           \/ Sign(r) \/ Archive(r) \/ PublishConflict(r) \/ Ending(r) \/ Landing(r)
    PROVE  HistoryReplays(local'[r]) /\ DatedBefore(r)'
<1>1. /\ pc \in [Runs -> Phases] /\ local \in [Runs -> History]
      /\ HistoryReplays(local[r]) /\ HistoryReplays(store) /\ DatedBefore(r)
      /\ HistoryReplays(EmptyHistory)
  BY EmptyAndSignedReplay DEF RollupInv, IInv, TypeOK
<1>2. CASE Collect(r) \/ Retry(r) \/ PublishConflict(r) \/ Archive(r)
  <2>1. local' = local /\ pc'[r] \in {"restore", "conflict", "publish"}
    BY <1>1, <1>2 DEF Collect, Retry, PublishConflict, Archive, Goto, workspace
  <2> QED BY <1>1, <2>1 DEF DatedBefore
<1>3. CASE Restore(r)
  <2>1. local'[r] = store /\ pc'[r] = "load"
    BY <1>1, <1>3 DEF Restore, Goto
  <2> QED BY <1>1, <2>1 DEF DatedBefore
<1>4. CASE LoadToday(r)
  <2>1. local' = local
    BY <1>4 DEF LoadToday
  <2> QED BY <1>1, <1>4, <2>1, LoadedCopyIsDatedBefore
<1>5. CASE Appending(r)
  <2> DEFINE c == ContributionOf(r, clock)
             h == AppendRun(local[r], c)
  <2>1. /\ local' = [local EXCEPT ![r] = h] /\ c \in Contribution
        /\ \E p \in {"sign", "archive", "empty"} : pc' = [pc EXCEPT ![r] = p]
    BY <1>5, AppendingEffect
  <2>2. pc[r] = "append" /\ c.today = today[r] /\ c.at = clock
    BY <1>5 DEF Appending, AppendDatapoints, AppendNothing, ContributionOf
  <2>3. IntactHistory(local[r]) /\ StampedBy(local[r], clock) /\ today[r] <= DayOf(clock)
    BY DEF IInv, ContentsIntact, ClockIsAhead
  <2>4. HistoryReplays(h)
    <3> HIDE DEF c
    <3>1. \A k \in KSIs : Timely(local[r].obs[k], c)
      BY <2>2, <2>3 DEF Timely, StampedBy
    <3>2. \A k \in KSIs : \A o \in local[r].obs[k] : o.date <= c.today
      BY <1>1, <2>2 DEF DatedBefore
    <3> QED BY <1>1, <2>1, <2>3, <3>1, <3>2, AppendRunReplays
  <2> HIDE DEF h
  <2>5. local'[r] = h /\ pc'[r] \in {"sign", "archive", "empty"}
    BY <1>1, <2>1
  <2> QED BY <2>4, <2>5 DEF DatedBefore
<1>6. CASE Sign(r)
  <2> DEFINE h == SignHistory(local[r])
  <2>1. HistoryReplays(h)
    BY <1>1, EmptyAndSignedReplay
  <2>2. local' = [local EXCEPT ![r] = h] /\ pc' = [pc EXCEPT ![r] = "archive"]
    BY <1>6, SignEffect
  <2> HIDE DEF h
  <2>3. local'[r] = h /\ pc'[r] = "archive"
    BY <1>1, <2>2
  <2> QED BY <2>1, <2>3 DEF DatedBefore
<1>7. CASE Ending(r)
  <2>1. PICK p \in Ended \cup {"idle"} : pc' = [pc EXCEPT ![r] = p]
    BY <1>7, EndingEffect
  <2>2. local'[r] = EmptyHistory
    BY <1>1, <1>7, EndingEffect
  <2> QED BY <1>1, <2>1, <2>2 DEF DatedBefore, Ended
<1>8. CASE Landing(r)
  <2>1. PICK p \in {"done", "failed", "conflict"} : pc' = [pc EXCEPT ![r] = p]
    BY <1>8, LandingEffect
  <2>2. local'[r] \in {local[r], EmptyHistory}
    BY <1>1, <1>8, LandingEffect
  <2> QED BY <1>1, <2>1, <2>2 DEF DatedBefore
<1> QED BY <1>2, <1>3, <1>4, <1>5, <1>6, <1>7, <1>8

\* The daily rollup of the durable history always replays from its observations, for
\* every number of runs a day, overlapping or not, and every retention window: the
\* worst fraction, the spread and the count (append_metrics.py:577-634).
THEOREM RollupAlwaysReplays == Spec => []RollupReplaysObservations
<1>1. Init => RollupInv
  BY EmptyAndSignedReplay DEF Init, RollupInv, DatedBefore
<1>2. IInv /\ RollupInv /\ [Next]_vars => RollupInv'
  <2> SUFFICES ASSUME IInv, RollupInv, [Next]_vars PROVE RollupInv'
    OBVIOUS
  <2>1. HistoryReplays(store')
    <3>1. CASE \E r \in Runs : Landing(r)
      BY <3>1, LandingEffect DEF RollupInv
    <3> QED BY <3>1, LandedGrows DEF RollupInv
  <2>2. ASSUME NEW s \in Runs PROVE HistoryReplays(local'[s]) /\ DatedBefore(s)'
    <3>1. HistoryReplays(local[s]) /\ DatedBefore(s)
      BY DEF RollupInv
    <3>2. CASE Untouched(s)
      BY <3>1, <3>2 DEF Untouched, DatedBefore
    <3>3. CASE Tick \/ UNCHANGED vars
      BY <3>2, <3>3 DEF Tick, vars, workspace, Untouched
    <3>4. ASSUME NEW r \in Runs,
                 \/ Collect(r) \/ Retry(r) \/ Restore(r) \/ LoadToday(r) \/ Appending(r)
                 \/ Sign(r) \/ Archive(r) \/ PublishConflict(r) \/ Ending(r) \/ Landing(r)
          PROVE  HistoryReplays(local'[s]) /\ DatedBefore(s)'
      BY <3>2, <3>4, OwnRollupStays, StepTouchesOneJob
    <3> QED BY <3>3, <3>4, NextCases
  <2> QED BY <2>1, <2>2 DEF RollupInv, HistoryReplays
<1>3. RollupInv => RollupReplaysObservations
  BY DEF RollupInv, HistoryReplays, RollupReplaysObservations
<1> QED BY <1>1, <1>2, <1>3, InvariantHolds, PTL DEF Spec

=============================================================================
