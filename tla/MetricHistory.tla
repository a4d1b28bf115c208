---------------------------- MODULE MetricHistory ----------------------------
(***************************************************************************)
(* The durable metric history and the CI jobs that append to it.           *)
(*                                                                         *)
(* Every job (a CodeBuild build, a GitHub Actions run) collects facts once *)
(* and then loops: restore the object metrics/metric-history.json and      *)
(* remember its ETag, append this run's datapoints to the local copy,      *)
(* archive this run's observations under a create-only key, and PUT the    *)
(* history on the condition that the ETag is still current.  A 412 sends   *)
(* the job round the loop again, MaxAttempts times in all.  Jobs overlap:  *)
(* each step below is one process or one S3 request of one job.            *)
(*                                                                         *)
(* Sources: automation/metrics/publish_history.py, append_metrics.py, and  *)
(* the shell loop of automation/pipeline/buildspec-collect.yml and         *)
(* .github/workflows/living-sdr-loop.yml.                                  *)
(***************************************************************************)
EXTENDS HistoryContent, Sequences, FiniteSets

CONSTANTS
    Outcomes,      \* the fact stores a collection can produce
    SigningRuns,   \* jobs started with --sign-key-arn
    MaxAttempts,   \* iterations of the loop: 4 in the code
    MaxReruns,     \* bound: how often a job with a fixed id is started again
    MaxClock,      \* bound: last tick of the clock
    MaxFaults,     \* bound: failed requests and killed jobs
    MaxLostAcks    \* bound: PUTs that were applied but reported as failed

ASSUME MetricHistoryAssumption ==
    /\ Outcomes \subseteq [KSIs -> Fractions \cup {None}]
    /\ SigningRuns \subseteq Runs
    /\ MaxAttempts \in Nat \ {0}
    /\ {MaxReruns, MaxClock, MaxFaults, MaxLostAcks} \subseteq Nat

VARIABLES
    clock,      \* UTC time, the same for every runner
    store,      \* content of metrics/metric-history.json in the bucket
    version,    \* its ETag: 0 while the object does not exist
    archive,    \* the objects under metrics/observations/
    landed,     \* history variable: the contributions the object took, in order
    pc,         \* where each job is
    gen,        \* how many times the job was started
    attempt,    \* iteration of its loop
    facts,      \* its facts store
    today,      \* the date append_metrics.py took at its start
    local,      \* its local metric-history.json
    etag,       \* its ETag sidecar: 0 is the empty one (create-only PUT)
    faults,     \* faults so far
    lostAcks    \* lost acknowledgements so far

world == <<store, version, archive, landed>>
faultVars == <<faults, lostAcks>>
workspace == <<gen, facts, today, local, etag>>
vars == <<clock, store, version, archive, landed, pc, gen, attempt, facts,
          today, local, etag, faults, lostAcks>>

-----------------------------------------------------------------------------
(* Phases of a job, in the order of the loop. *)

Running == {"restore", "load", "append", "sign", "archive", "publish", "conflict"}

\* done: publish exit 0.  empty: append_metrics exit 4.  failed: anything else.
Ended == {"done", "empty", "failed"}

Phases == {"idle"} \cup Running \cup Ended

FactStore == [day : Nat, out : [KSIs -> Fractions \cup {None}]]

ArchiveRecord == [day : Nat, run : Runs, obs : [KSIs -> SUBSET Observation]]

NoFacts == [day |-> 0, out |-> [k \in KSIs |-> None]]

StampOf(r) == [run |-> r, gen |-> gen[r], attempt |-> attempt[r]]

\* The contribution of job r when its appender stamps observed_at = t.
ContributionOf(r, t) ==
    [stamp |-> StampOf(r), out |-> facts[r].out, day |-> facts[r].day,
     today |-> today[r], at |-> t]

\* The contribution inside r's local history once the appender has run.
Pending(r) == ContributionOf(r, local[r].lastAt)

Goto(r, phase) == pc' = [pc EXCEPT ![r] = phase]

\* The job ends and its ephemeral workspace goes with it.
Discard(r) ==
    /\ local' = [local EXCEPT ![r] = EmptyHistory]
    /\ etag' = [etag EXCEPT ![r] = 0]
    /\ today' = [today EXCEPT ![r] = 0]
    /\ facts' = [facts EXCEPT ![r] = NoFacts]
    /\ UNCHANGED gen

End(r, phase) == Goto(r, phase) /\ Discard(r)

\* A fault that the code answers by exiting non-zero.
Fault == faults < MaxFaults /\ faults' = faults + 1 /\ UNCHANGED lostAcks

LostAck == lostAcks < MaxLostAcks /\ lostAcks' = lostAcks + 1 /\ UNCHANGED faults

-----------------------------------------------------------------------------
Init ==
    /\ clock = 0
    /\ store = EmptyHistory
    /\ version = 0
    /\ archive = {}
    /\ landed = <<>>
    /\ pc = [r \in Runs |-> "idle"]
    /\ gen = [r \in Runs |-> 0]
    /\ attempt = [r \in Runs |-> 0]
    /\ facts = [r \in Runs |-> NoFacts]
    /\ today = [r \in Runs |-> 0]
    /\ local = [r \in Runs |-> EmptyHistory]
    /\ etag = [r \in Runs |-> 0]
    /\ faults = 0
    /\ lostAcks = 0

Tick ==
    /\ clock < MaxClock
    /\ clock' = clock + 1
    /\ UNCHANGED <<world, pc, attempt, workspace, faultVars>>

-----------------------------------------------------------------------------
(* Collection, and the loop of the build. *)

\* The collector writes a dated facts store; the loop begins its first attempt.
Collect(r) ==
    /\ pc[r] = "idle"
    /\ \E out \in Outcomes :
          facts' = [facts EXCEPT ![r] = [day |-> DayOf(clock), out |-> out]]
    /\ gen' = [gen EXCEPT ![r] = @ + 1]
    /\ attempt' = [attempt EXCEPT ![r] = 1]
    /\ Goto(r, "restore")
    /\ UNCHANGED <<clock, world, today, local, etag, faultVars>>

\* A failed publish with exit 3 goes round again while attempts are left.
Retry(r) ==
    /\ pc[r] = "conflict"
    /\ attempt[r] < MaxAttempts
    /\ attempt' = [attempt EXCEPT ![r] = @ + 1]
    /\ Goto(r, "restore")
    /\ UNCHANGED <<clock, world, workspace, faultVars>>

\* Mutant: one attempt too few.
GiveUpEarly(r) ==
    /\ pc[r] = "conflict"
    /\ attempt[r] >= MaxAttempts - 1
    /\ End(r, "failed")
    /\ UNCHANGED <<clock, world, attempt, faultVars>>

\* Mutant: the last attempt is neither retried nor given up.
GiveUpLate(r) ==
    /\ pc[r] = "conflict"
    /\ attempt[r] > MaxAttempts
    /\ End(r, "failed")
    /\ UNCHANGED <<clock, world, attempt, faultVars>>

\* The last attempt lost the race as well: the loop ends with exit 1.
GiveUp(r) ==
    /\ pc[r] = "conflict"
    /\ attempt[r] >= MaxAttempts
    /\ End(r, "failed")
    /\ UNCHANGED <<clock, world, attempt, faultVars>>

\* The job is cancelled, times out or loses its machine.
Crash(r) ==
    /\ pc[r] \in Running
    /\ Fault
    /\ End(r, "failed")
    /\ UNCHANGED <<clock, world, attempt>>

\* An ended job is started again under the same run id.
Rerun(r) ==
    /\ pc[r] \in Ended
    /\ gen[r] <= MaxReruns
    /\ End(r, "idle")
    /\ UNCHANGED <<clock, world, attempt, faultVars>>

-----------------------------------------------------------------------------
(* publish_history.py restore *)

\* Mutant: a retry refreshes the ETag and keeps the local history.
RestoreEtagOnly(r) ==
    /\ pc[r] = "restore"
    /\ local' = [local EXCEPT ![r] = IF attempt[r] = 1 THEN store ELSE @]
    /\ etag' = [etag EXCEPT ![r] = version]
    /\ Goto(r, "load")
    /\ UNCHANGED <<clock, world, attempt, gen, facts, today, faultVars>>

\* The object is downloaded with its ETag; a confirmed-missing object leaves no
\* local history and an empty sidecar, which is version 0 and EmptyHistory here.
Restore(r) ==
    /\ pc[r] = "restore"
    /\ local' = [local EXCEPT ![r] = store]
    /\ etag' = [etag EXCEPT ![r] = version]
    /\ Goto(r, "load")
    /\ UNCHANGED <<clock, world, attempt, gen, facts, today, faultVars>>

\* Any other error exits 1, and set -e ends the job.
RestoreFails(r) ==
    /\ pc[r] = "restore"
    /\ Fault
    /\ End(r, "failed")
    /\ UNCHANGED <<clock, world, attempt>>

-----------------------------------------------------------------------------
(* append_metrics.py *)

\* main() takes today's date, then loads the local history and the profile.
LoadToday(r) ==
    /\ pc[r] = "load"
    /\ today' = [today EXCEPT ![r] = DayOf(clock)]
    /\ Goto(r, "append")
    /\ UNCHANGED <<clock, world, attempt, gen, facts, local, etag, faultVars>>

\* Mutant: a retry is published without a new signature.
AfterAppendSignsOnce(r) ==
    IF r \in SigningRuns /\ attempt[r] = 1 THEN "sign" ELSE "archive"

\* The publisher signs first when it was given a key.
AfterAppend(r) == IF r \in SigningRuns THEN "sign" ELSE "archive"

\* append_run stamps observed_at and main() writes the local history.
AppendDatapoints(r) ==
    /\ pc[r] = "append"
    /\ Appends(ContributionOf(r, clock)) # {}
    /\ local' = [local EXCEPT ![r] = AppendRun(@, ContributionOf(r, clock))]
    /\ Goto(r, AfterAppend(r))
    /\ UNCHANGED <<clock, world, attempt, gen, facts, today, etag, faultVars>>

\* No KSI got a datapoint: the attempt is written to the local file, main()
\* exits 4 and set -e ends the job before the publisher is started.  The local
\* file is kept here because a property speaks of what it says.
AppendNothing(r) ==
    /\ pc[r] = "append"
    /\ Appends(ContributionOf(r, clock)) = {}
    /\ local' = [local EXCEPT ![r] = AppendRun(@, ContributionOf(r, clock))]
    /\ Goto(r, "empty")
    /\ UNCHANGED <<clock, world, attempt, gen, facts, today, etag, faultVars>>

-----------------------------------------------------------------------------
(* publish_history.py publish *)

\* The digest is signed and the local file rewritten before any upload.
Sign(r) ==
    /\ pc[r] = "sign"
    /\ local' = [local EXCEPT ![r] = SignHistory(@)]
    /\ Goto(r, "archive")
    /\ UNCHANGED <<clock, world, attempt, gen, facts, today, etag, faultVars>>

\* A signing failure is a publish failure.
SignFails(r) ==
    /\ pc[r] = "sign"
    /\ Fault
    /\ End(r, "failed")
    /\ UNCHANGED <<clock, world, attempt>>

ObservationRecord(r) ==
    [day |-> DayOf(local[r].lastAt), run |-> r,
     obs |-> RunObservations(local[r], local[r].lastAt)]

SameKey(a, b) == a.day = b.day /\ a.run = b.run

\* Mutant: the record of an earlier attempt is overwritten.
PutObservationsOverwrites(r) ==
    archive' = {a \in archive : ~ SameKey(a, ObservationRecord(r))} \cup {ObservationRecord(r)}

\* PUT with If-None-Match: * of metrics/observations/<date>/<run id>.json.  An
\* existing record (412) is kept and counts as archived.
PutObservations(r) ==
    IF \E a \in archive : SameKey(a, ObservationRecord(r))
    THEN UNCHANGED archive
    ELSE archive' = archive \cup {ObservationRecord(r)}

Archive(r) ==
    /\ pc[r] = "archive"
    /\ PutObservations(r)
    /\ Goto(r, "publish")
    /\ UNCHANGED <<clock, store, version, landed, attempt, workspace, faultVars>>

\* Mutant: every error of the archive PUT is taken for "already archived".
ArchiveErrorIgnored(r) ==
    /\ pc[r] = "archive"
    /\ \/ Fault /\ UNCHANGED archive
       \/ LostAck /\ PutObservations(r)
    /\ Goto(r, "publish")
    /\ UNCHANGED <<clock, store, version, landed, attempt, workspace>>

\* Any error but 412 exits 1; the object may have been written all the same.
ArchiveFails(r) ==
    /\ pc[r] = "archive"
    /\ \/ Fault /\ UNCHANGED archive
       \/ LostAck /\ PutObservations(r)
    /\ End(r, "failed")
    /\ UNCHANGED <<clock, store, version, landed, attempt>>

\* Mutant: no condition on the PUT that creates the object.
UnconditionalCreate(r) == etag[r] \in {0, version}

\* Mutant: a blind overwrite.
BlindOverwrite(r) == TRUE

\* PUT of the history with If-Match: <etag>, or If-None-Match: * when restore
\* found no object.  Both conditions say that the version is the restored one.
PreconditionHolds(r) == etag[r] = version

PutHistory(r) ==
    /\ PreconditionHolds(r)
    /\ store' = local[r]
    /\ version' = version + 1
    /\ landed' = Append(landed, Pending(r))

\* Mutant: the loop does not stop after a published history.
PublishLoopsOn(r) ==
    /\ pc[r] = "publish"
    /\ PutHistory(r)
    /\ Goto(r, "conflict")
    /\ UNCHANGED <<clock, archive, attempt, workspace, faultVars>>

Publish(r) ==
    /\ pc[r] = "publish"
    /\ PutHistory(r)
    /\ End(r, "done")
    /\ UNCHANGED <<clock, archive, attempt, faultVars>>

\* 412 Precondition Failed: exit 3.
PublishConflict(r) ==
    /\ pc[r] = "publish"
    /\ ~PreconditionHolds(r)
    /\ Goto(r, "conflict")
    /\ UNCHANGED <<clock, world, attempt, workspace, faultVars>>

\* Any other error: exit 1.
PublishFails(r) ==
    /\ pc[r] = "publish"
    /\ Fault
    /\ End(r, "failed")
    /\ UNCHANGED <<clock, world, attempt>>

\* The PUT is applied and its response is lost.  Either the request is not sent
\* again and the publisher exits 1, or the S3 client sends it again by itself
\* and the second one is answered 412, so that the publisher exits 3.
PublishAckLost(r) ==
    /\ pc[r] = "publish"
    /\ PutHistory(r)
    /\ LostAck
    /\ \/ End(r, "failed")
       \/ Goto(r, "conflict") /\ UNCHANGED workspace
    /\ UNCHANGED <<clock, archive, attempt>>

-----------------------------------------------------------------------------
Step(r) ==
    \/ Collect(r) \/ Retry(r) \/ GiveUp(r)
    \/ Restore(r) \/ LoadToday(r) \/ AppendDatapoints(r) \/ AppendNothing(r)
    \/ Sign(r) \/ Archive(r) \/ Publish(r) \/ PublishConflict(r)

Failure(r) ==
    \/ Crash(r) \/ RestoreFails(r) \/ SignFails(r)
    \/ ArchiveFails(r) \/ PublishFails(r) \/ PublishAckLost(r)

Next == Tick \/ \E r \in Runs : Step(r) \/ Failure(r) \/ Rerun(r)

Spec == Init /\ [][Next]_vars

\* A started job's next command is run unless the job is killed; nothing obliges
\* a job to start, a fault to happen or a human to start a job again.
Progress(r) == Step(r) /\ pc[r] # "idle"

FairSpec == Spec /\ \A r \in Runs : WF_vars(Progress(r))

-----------------------------------------------------------------------------
(* Invariants. *)

\* The one type invariant of the module.
TypeOK ==
    /\ clock \in Nat
    /\ store \in History
    /\ version \in Nat
    /\ archive \subseteq ArchiveRecord
    /\ landed \in Seq(Contribution)
    /\ pc \in [Runs -> Phases]
    /\ gen \in [Runs -> Nat]
    /\ attempt \in [Runs -> Nat]
    /\ facts \in [Runs -> FactStore]
    /\ today \in [Runs -> Nat]
    /\ local \in [Runs -> History]
    /\ etag \in [Runs -> Nat]
    /\ faults \in Nat
    /\ lostAcks \in Nat

\* Observation o is the one that contribution c recorded for KSI k.
RecordsLanding(o, c, k) ==
    o.hash = c.stamp /\ o.at = c.at /\ o.date = c.today /\ o.val = c.out[k]

\* A later landing pruned what contribution i recorded for KSI k.
AgedOut(i, k) ==
    \E j \in i .. Len(landed) : /\ k \in Appends(landed[j])
                                /\ DayOf(landed[i].at) < Cutoff(landed[j].today)

\* No update is lost: whatever overlapping jobs, retries, crashes and lost
\* answers do, every datapoint of every landed run is an observation of the
\* durable history until it ages out, and the history holds no other ones
\* (AUD-F20, publish_history.py:5-13).
StoreHoldsTheLandings ==
    \A k \in KSIs :
        /\ \A i \in DOMAIN landed : k \in Appends(landed[i]) =>
               \/ \E o \in store.obs[k] : RecordsLanding(o, landed[i], k)
               \/ AgedOut(i, k)
        /\ \A o \in store.obs[k] : \E i \in DOMAIN landed :
               k \in Appends(landed[i]) /\ RecordsLanding(o, landed[i], k)

\* The durable history always passes the verifier that preflight runs on it:
\* chains link up, across pruning too, every series point is backed by an
\* observation and the recorded heads agree (history_integrity.py:95-140).
StoreVerifies == VerifyHistory(store)

\* A day's point is the conservative rollup of exactly the observations the
\* history holds for that day, one per run: the worst fraction, the spread and
\* the count.  It stays so when runs of the day overlap and when pruning cuts
\* series and observations by two different dates (append_metrics.py:577-634).
RollupReplaysObservations ==
    \A k \in KSIs : RollupReplays(store.obs[k], store.series[k])

\* A signature found in the durable history attests the chain heads and anchors
\* found beside it, and a signing job never lands an unsigned history: an older
\* signature does not survive an append (publish_history.py:125-132).
SignatureAttestsStore ==
    /\ store.sig # None => store.sig = DigestOf(store)
    /\ landed # <<>> /\ landed[Len(landed)].stamp.run \in SigningRuns => store.sig # None

\* The archived record a shows what contribution c recorded.
ArchivesContribution(a, c) ==
    /\ a.run = c.stamp.run
    /\ \A k \in Appends(c) : \E o \in a.obs[k] :
          /\ <<o.hash.run, o.hash.gen>> = <<c.stamp.run, c.stamp.gen>>
          /\ o.val = c.out[k]

\* Every run that landed in the history has its run-level record in the archive
\* already, with the datapoints of the same collection (publish_history.py:21-24).
LandingsAreArchived ==
    \A i \in DOMAIN landed : \E a \in archive : ArchivesContribution(a, landed[i])

\* One execution of a job lands its datapoints at most once, however often it
\* goes round the loop (append_metrics.py:7-9).
OncePerRun ==
    \A i, j \in DOMAIN landed :
        /\ landed[i].stamp.run = landed[j].stamp.run
        /\ landed[i].stamp.gen = landed[j].stamp.gen
        => i = j

\* Losing costs a win: without faults a job fails only after other jobs have
\* landed at least MaxAttempts times, so the loop never starves all jobs
\* (living-sdr-loop.yml:115-130).
OnlyLosersFail ==
    \A r \in Runs : pc[r] = "failed" /\ faults + lostAcks = 0 =>
        Cardinality({i \in DOMAIN landed : landed[i].stamp.run # r}) >= MaxAttempts

-----------------------------------------------------------------------------
(* The inductive invariant behind the theorems of MetricHistoryProofs.       *)

\* The object and every local copy pass the verifier.
ContentsIntact ==
    /\ IntactHistory(store)
    /\ \A r \in Runs : IntactHistory(local[r])

StampedBy(h, t) == \A k \in KSIs : \A o \in h.obs[k] : o.at <= t

\* Nothing is stamped or dated in the future.
ClockIsAhead ==
    /\ StampedBy(store, clock)
    /\ \A i \in DOMAIN landed : landed[i].at <= clock
    /\ \A r \in Runs : StampedBy(local[r], clock) /\ today[r] <= DayOf(clock)

Restored == {"load", "append"}

Appended == {"sign", "archive", "publish"}

\* What the jobs that appended r's datapoints to the present object would hold.
Extensions(r) ==
    {AppendRun(store, Pending(r))} \cup
    (IF pc[r] = "sign" THEN {} ELSE {SignHistory(AppendRun(store, Pending(r)))})

\* A job whose ETag is current holds the present object or extends it by its
\* own contribution, stamped no earlier than anything landed.
CurrentCopy(r) ==
    /\ etag[r] <= version
    /\ pc[r] \in Restored /\ etag[r] = version => local[r] = store
    /\ pc[r] \in Appended =>
          /\ local[r].lastAt \in 0 .. clock
          /\ Appends(Pending(r)) # {}
          /\ etag[r] = version =>
                /\ local[r] \in Extensions(r)
                /\ \A i \in DOMAIN landed : landed[i].at <= local[r].lastAt

CurrentCopies == \A r \in Runs : CurrentCopy(r)

\* The phases in which a job holds datapoints of its attempt or will append them.
Live == {"restore"} \cup Restored \cup Appended

\* A stamp that its job cannot land from now on.
Spent(s) ==
    \/ s.gen < gen[s.run]
    \/ /\ s.gen = gen[s.run]
       /\ \/ s.attempt < attempt[s.run]
          \/ s.attempt = attempt[s.run] /\ pc[s.run] \notin Live

SpentStamps == \A i \in DOMAIN landed : Spent(landed[i].stamp)

IInv == TypeOK /\ ContentsIntact /\ ClockIsAhead /\ CurrentCopies /\ SpentStamps

-----------------------------------------------------------------------------
(* Action and temporal properties. *)

\* An archived record is never changed or removed, and no key is written twice
\* (create-only PUT, publish_history.py:166-185).
ArchiveIsImmutable ==
    [][/\ archive \subseteq archive'
       /\ \A a, b \in archive' : SameKey(a, b) => a = b]_archive

\* The jobs implement the append-only log: every change of the object folds one
\* contribution into the content the landing before it left, no append lands
\* twice and landings keep the order of their timestamps.
Log == INSTANCE HistoryLog WITH history <- store, log <- landed

ImplementsLog == Log!Spec

\* A started job ends: the loop is bounded and no step waits for another job.
EveryJobEnds == \A r \in Runs : pc[r] \in Running ~> pc[r] \in Ended
=============================================================================
