# A TLA+ model of the continuous certification package

This directory holds TLA+ specifications of the stateful parts of the
repository, TLC configurations that check them on small instances, and proofs
that the TLA+ proof system checks for every value of the constants.

- [1. The system](#1-the-system)
- [2. Modules](#2-modules)
- [3. The metric history](#3-the-metric-history)
- [4. The record store and its review](#4-the-record-store-and-its-review)
- [5. The package build](#5-the-package-build)
- [6. The release](#6-the-release)
- [7. Records, gates and readiness](#7-records-gates-and-readiness)
- [8. Evidence](#8-evidence)
- [9. Runs and proofs](#9-runs-and-proofs)
- [10. Where the code and its documentation part](#10-where-the-code-and-its-documentation-part)
- [11. What is not modelled](#11-what-is-not-modelled)
- [12. What is left](#12-what-is-left)

## 1. The system

The repository collects facts about a cloud offering, keeps a durable history of
metrics about them, drafts and reviews the records of a Security Decision Record
(SDR), builds a package from those records, and gates and attests releases of
the package.  Its processes are short Python programs; what outlives them are
files of a working tree and objects of an S3 bucket.  Concurrency is between
processes: CI jobs that overlap, people who edit the same files while programs
run, S3 requests that fail or are answered late, midnight.

| Component | State | Operations | Interacts with | What makes it correct |
|---|---|---|---|---|
| **Metric publisher** `automation/metrics/publish_history.py` | the object `metrics/metric-history.json` and its ETag; create-only objects under `metrics/observations/`; a local file and an ETag sidecar | `restore`, `publish` (sign, archive, compare-and-swap) | appender (local file), KMS signer, S3 | no update lost, archive immutable and complete, a signature attests what it travels with |
| **Metric appender** `append_metrics.py` | the local history: observations, daily series, summaries, metadata | `append_run` through `main` | facts store, integrity functions | one datapoint per run, the day's point is the conservative rollup of its runs, pruning loses nothing too early |
| **History integrity** `history_integrity.py` | chain hashes in the history | `chain_observation`, `record_heads`, `history_digest`, `verify_history`, `rechain` | appender, publisher, preflight | a history the code wrote always verifies |
| **Collection loops** `buildspec-collect.yml`, `living-sdr-loop.yml` | none durable; an ephemeral workspace | restore, append, publish up to four times; then build, validate, capture a patch, propose a PR | all of the above, GitHub | bounded, fails closed, only authorised paths reach the repository |
| **Fact collectors** `collect_facts.py`, `collect_multi_account.py`, `collectors.py` | `automation/facts/facts-*.json` | one collection; a fan-out over accounts and regions | AWS APIs; appender, prefill, drafters read the store | a scope that failed shows as an error, never as clean |
| **Evidence** `evidence_wiring.py`, `apply_third_party_evidence.py`, adapters, `sign_evidence.py`, `validate_evidence.py` | evidence lists in `sdr/records/records-store.json` | derive, hash, upsert by location, sign, judge | record store, offering profile, preflight | no observation lost behind another; what passes under production-assurance is what an operated source and the pinned signer stand for |
| **Evidence storage** `ingest_evidence.py`, `provision_store.py` | content-addressed S3 versions; bucket settings | ingest, verify by version, ensure store | S3 | append-only, foreign lifecycle rules survive |
| **Field review** `review_proposals.py`, `validate_reviews.py` | the record store, `field-review-log.json`, two sidecars | list, walk, apply decisions; the review gate | prefill, drafter, third-party evidence, people who edit JSON | a decided field holds what a named human applied, or the gate says so |
| **Prefill and AI drafts** `prefill_from_facts.py`, `draft_narratives.py` | sidecar copies of the record store | propose | field review | propose only, never overwrite authored text |
| **Package build** `sdr.py build`, `reproducibility`, the scripts under `validation/scripts` | the generated files, the record scaffold, the manifest | the scripts of the build in a fixed order | all authored sources | one build is enough; the manifest depends on all sources |
| **Release** `sdr.py release`, `buildspec-validate.yml`, `release.yml`, `audit/release_gate.py`, `build_release_attestation.py` | manifest, signoff, attestation, tag | build, test, attack, sign off, attest, publish | git, field review gate, metric history | what is released is what was signed and what the commit contains |
| **Preflight, wizard, scanner** `sdr.py package-preflight` and `init`, `validate_sdr.py`, `profile_contract.py`, `sdrscan` | none of their own | judge records, profile, history, evidence, signoff | all of the above | ready means answered, known, fresh and signed; the judges agree |
| **Upstream drift** `update_sources_lock.py`, `validate_upstream.py`, `drift-check.yml` | `sources.lock` and the pinned dataset | check, accept an update | GitHub | drift is reported, an update is deliberate |

`PROJECT.json` lists every component with its status, and each hard behaviour as
a hazard at its line, with the property that covers it or the reason why none
does.

## 2. Modules

| Module | Models |
|---|---|
| `HistoryContent` | the content of `metric-history.json` and the functions on it: `append_run`, the chain, the rollup, pruning, the verifier |
| `MetricHistory` | the collection jobs, the bucket and the faults: one action per process or request |
| `HistoryLog` | the abstract specification: an append-only log |
| `HistoryContentProofs`, `MetricHistoryProofs` | `append_run` keeps a history intact and replayable (data); every safety property of the jobs and the refinement of `HistoryLog` (temporal) |
| `RecordReview` | the record store, its sidecars, the review sessions and their log, the other writers of the store, the field gate |
| `RecordReviewProofs` | invariants of the store, the log and the sessions |
| `PackageFiles` | the files of the package and what each script of the build reads and writes |
| `PackageBuild` | builds and reproducibility checks in a tree that people edit |
| `PackageBuildProofs` | one undisturbed build settles every tree and changes nothing in a settled one; the manifest has seen every source |
| `ReleaseGate` | `sdr.py release`, the AWS job and the GitHub workflow, with people, collector, midnight and kills |
| `ReleaseGateProofs` | what each channel publishes: built, signed, green and real |
| `RecordGates` | how preflight, the validator and the scanner judge one record |
| `RecordWork` | the life of that record between its authors, the collectors and the build |
| `RecordWorkProofs` | the gates against each other, and what they let through against the SDR |
| `Readiness` | preflight and the wizard on profile, metric history, evidence age and signoff, day by day |
| `ReadinessProofs` | what a ready package is, for any durations |
| `EvidenceEntries` | the evidence of the KSIs from export to gate |
| `EvidenceProofs` | no observation is lost, no raw identifier gets in, a repetition is harmless; what a cleared package's evidence is |
| `MC...` | the instances TLC checks |

`MetricHistory` extends `HistoryContent` and instantiates `HistoryLog` with
`history <- store, log <- landed`; `PackageBuild` extends `PackageFiles`,
`RecordWork` extends `RecordGates`.  The other modules meet at what one shows
the next: `ReleaseGate` takes from `PackageBuild` that a build makes its
artifacts of the sources as it finds them, `Readiness` takes a build and a
signoff as one step each, and `RecordReview` and `EvidenceEntries` look at the
same store from two sides, the words of people and the observations of tools.

A hash is represented by what it is computed over, or by the step that computed
it: SHA-256 is taken to be collision free throughout.

## 3. The metric history

### Content

A history file is a record with the observations and the daily series of every
KSI, the pruning anchors, the recorded heads, `last_observed_at`,
`last_attempt` and the signature.

| TLA+ | Code |
|---|---|
| `AppendRun(h, c)` | `append_metrics.append_run` with `_update_meta`: for every KSI that was observed on the appender's day, chain one observation, prune, roll the value into the series, then record heads |
| `ChainObservation`, `ChainHead`, `Heads`, `DigestOf` | `history_integrity.chain_observation`, `chain_head`, `record_heads`, `history_digest` |
| `MergeDailyPoint`, `RollIntoSeries` | `merge_daily_point`, `_roll_into_series` |
| `PrunedObs`, `Cutoff` | `prune_observations`, `prune` |
| `Appends(c)` | `_ksi_observed_today` with `require_fresh` and the skip of KSIs without a datapoint |
| `VerifyHistory` | `verify_history`: `chain-break`, `bad-anchor`, `unbacked-point`, `head-mismatch` |
| `RunObservations`, `SignHistory` | `publish_history._run_observations`, the signing part of `publish` |

A hash is named by the append that computed it (its *stamp*: run, execution,
attempt).  Lists are sets whose members carry their position; the code only
appends, filters and reads the last one.  Time is a number of ticks,
`TicksPerDay` of them to a day, so that several runs can share a day or a second.

### Jobs and requests

Each job goes through `restore`, `load`, `append`, (`sign`), `archive`,
`publish` and, after a 412, `conflict`.

| Action | Code |
|---|---|
| `Collect` | `collect_facts.py` writes a dated store; the loop starts with attempt 1 |
| `Restore`, `RestoreFails` | `publish_history.py restore`: the object and its ETag, a confirmed-missing object, any other error |
| `LoadToday` | the start of `append_metrics.py main`: `today` is taken here |
| `AppendDatapoints`, `AppendNothing` | `append_run` stamps `observed_at` later; the file is written; exit 0 or exit 4, which `set -e` turns into the end of the job |
| `Sign`, `SignFails` | `publish --sign-key-arn` |
| `Archive`, `ArchiveFails` | the create-only PUT; 412 counts as archived, any other error exits 1 whether or not the object was written |
| `Publish`, `PublishConflict`, `PublishFails`, `PublishAckLost` | the PUT with If-Match or If-None-Match: applied, 412, an error, or applied with its answer lost |
| `Retry`, `GiveUp` | the shell loop: exit 3 and an attempt left, or not |
| `Crash`, `Rerun` | a cancelled or timed-out job, a job started again under its run id |
| `Tick` | the clock |

The bucket is the external part: conditional PUTs are linearisable, and the
client may send a PUT again whose answer it did not get (the default retry of
boto3), so that its own first request answers the second one with 412.
`version` stands for the ETag.  Two equal contents would have one ETag, but
every landing has a stamp of its own, so no two contents are equal.

`landed` is a history variable: the contributions the object took, in order.  The
properties speak of it; no action's guard reads it.

| Property | Says |
|---|---|
| `StoreHoldsTheLandings` | no datapoint of a landed run is lost before it ages out, and none is invented |
| `StoreVerifies` | the durable history always passes the verifier |
| `RollupReplaysObservations` | every daily point is the worst, spread and count of exactly that day's observations |
| `SignatureAttestsStore` | a signature in the store is over the store's own heads and anchors |
| `LandingsAreArchived` | a landed run has its run-level record, of the same collection |
| `OncePerRun` | one execution lands at most once |
| `OnlyLosersFail` | without faults a job fails only if others landed `MaxAttempts` times |
| `ArchiveIsImmutable` | archive records are only ever added, one per key |
| `ImplementsLog` | the jobs implement `HistoryLog` |
| `EveryJobEnds` | a started job ends |

`OncePerRun` and `LandingsAreArchived` are checked without lost answers and
without reruns, where they hold; section 10 says what happens with them.

## 4. The record store and its review

One record is enough for what the properties say: fields of different records do
not meet.  A prose field holds a label (none, DRAFT, Example) and a text; the
structured fields `tests` and `evidence` hold dated entries by location.  A log
is a sequence of batches, one for each finished session; a log file that is
missing or does not parse loads as the empty log, in the session and in the gate.

| TLA+ | Code |
|---|---|
| `Proposals`, `PrefillProposes`, `DraftProposes`, `ExampleProposes` | `review_proposals.proposals` with `_authored_by` and the precedence of the sources |
| `Decided`, `Pending`, `LatestOn` | `split_decided` |
| `Open`, `Quit` | `run` up to the questions: files are loaded once; `--all` asks decided proposals again; no decision writes nothing |
| `Decide`, `Apply`, `Batch` | `walk`, a decisions file or `--accept-all prefill`, then `apply_decisions` on the copies |
| `WriteStore`, `WriteLog` | `write_store`, then `write_log`: two files |
| `Kill` | a session that ends before a write, or in the middle of the log |
| `RunPrefill`, `RunDrafter` | `prefill_from_facts.py --write`, `draft_narratives.py --write`: a snapshot of the store with some open fields filled |
| `ApplyThirdParty`, `Upsert`, `IsNewer` | `apply_third_party_evidence.py` |
| `EditByHand` | a person with an editor (external) |
| `GatePasses` | the field part of `validate_reviews.py` |

`accepted`, `ledger` and `overlap` are history variables: what decisions
applied, the batches of all finished sessions, and whether two sessions ever
overlapped or a log was torn.

| Property | Says |
|---|---|
| `EveryValueHasAnAuthor` | no drafted or example sentence and no collected fact is in the store without its label unless a human decision applied it |
| `GatePassMeansHumanWord` | behind a passing gate, a field whose latest logged decision applied a value holds one that a human decision applied to that very field, whatever sessions overlap, are killed or tear the log; while none overlap and no log is torn, also with sessions stopped between their two writes, it is the value of the latest decision anybody took |
| `DecidedIsNotPending` | a proposal that a session decided is not pending once its log is written, even if others wrote meanwhile |

`GatePassMeansHumanWord` has a weaker and a stronger half because the code has no
lock: the second of two overlapping sessions writes back the log it loaded, and
the first one's batch is gone together with the values it applied.  What the
first half still says then is that the gate vouches for no value a human did not
apply to the field.  Of a field whose latest decision is a rejection neither
half says anything; the gate binds nothing there (section 10).

## 5. The package build

`PackageFiles` has one definition per script: the files it writes, each with the
files it is computed from.  The content of a file is abstracted to its
provenance, the set of source versions that made it.  The record store is three
files, because three parts of it have different authors: what people write, the
guidance that every build rewrites, and the placeholder entries that a build for
a class adds and never removes.  The calendar is a source, since the SDR's metric
windows end today and the graph judges freshness now.

| TLA+ (`PackageBuild`) | Code |
|---|---|
| `RunStep`, `FailStep` | the next script of `sdr.py build`: it writes, or its checks end the build (`validate_upstream.py`, an unsupported class, a rejected platform or map, an inconsistent manifest) |
| `kept`, `KeptNow` | `build_inactive_classes.py` reads the class once, when it starts |
| `StartBuild`, `FinishBuild`, `StartReproducibility`, `Compare` | `cmd_build`, `cmd_reproducibility`: hash the watched directories, build in place, compare |
| `Stop`, `Edit`, `Tamper` | Ctrl-C, a source changed, a generated file changed by hand, at any moment |

A script writes its outputs in one step.  A stop in the middle of a script leaves
some of its outputs new; the next build writes them all, and a stop before and
after each script is enough to mix the files of two builds.

| Property | Says |
|---|---|
| `OnePassSettles` | after one undisturbed build, whatever was there before, no file is older than what it is computed from |
| `NoFalseAlarm` | the reproducibility check is quiet on a settled tree nobody touches |
| `ManifestSeesEverySource` | the manifest, which the signoff binds, depends on every source but the gate registries |
| `EventuallySettled` | if the sources end in a state that can be built, building again repairs the tree |

`BuildOrder` says that the order of the scripts is right: no script writes a
source, and the last writer of each file comes after the last writer of
everything the file is computed from.  It is a fact about `PackageFiles` with no
state in it; TLC evaluates it (it is an `ASSUME`), and the proofs start from it.
There are three more of the kind: `ScriptsStayInTheTree` (a script reads and
writes files of the tree, whatever class is built), `CloneHoldsTheSources` (the
committed tree is made of the first versions), and `PinsShowTheSources` (every
source but the lock and the gate registries is among what the manifest
fingerprints, or among what that is computed from in two steps; the manifest
reads the lock itself).

## 6. The release

Three channels lead to a release, each a list of steps that stops at a red one:
`Local` (`sdr.py release`), `Aws` (`buildspec-validate.yml`) and `GitHub`
(`release.yml`); a fourth, `hand`, is a plain `sdr.py build` in the developer's
tree.  A tree is its sources, scripts, metric history (not in git), artifacts,
manifest and signoff; each is known by what it was made of.

| TLA+ (`ReleaseGate`) | Code |
|---|---|
| `Artifacts`, `Manifest`, `Judge` at `consistency` | `sdr.py build` |
| `Hash`, `Judge` at `compare` | `sdr.py reproducibility` |
| `Mutate`, `Unmutate`, `Fake`, `Countersign`, `Restore`, `CleanStep` | `audit/release_gate.py`: the mutation runner edits the scripts in place, the attack harness puts a fictional offering, its signoff and its history over the real one, and both put back what they saved |
| `Judge` at `diff`, `validate`, `verdict`, `preflight` | `git diff --exit-code`, `sdr.py validate`, the exit code of the release gate, the signoff part of `package-preflight` |
| `ReadManifest`, `Attest` | `build_release_attestation.py`: the manifest is read, then git is asked whether the tree is clean |
| `History`, `Checkout`, `Start` | restore of the metric history, a fresh checkout per GitHub job, a push or a tag |
| `Edit`, `Sign`, `Revert`, `Commit`, `FetchHistory`, `Kill`, `Collect`, `Midnight` | people, a killed command, the collector, the calendar |

People look before they sign or commit: not while a mutant or the fictional
package is in the tree (`Presentable`), and not during a local release.  The
repository cannot enforce that; without it a person could commit anything, and
the properties would be about that person.

| Property | Says |
|---|---|
| `CIReleasesAreFaithful` | what AWS and GitHub publish is committed and built from its commit; what AWS publishes is also signed |
| `LocalReleasesAreFaithful` | the same of `sdr.py release`, with edits and kills meanwhile (and, in the theorem, other builds in the same tree) |
| `SignedByTheProvider` | a local release has the provider's word on that manifest, never the harness's |
| `NoRedRelease` | sources with a red test suite are never released |
| `NoFiction` | no release shows the harness's history, as long as no command was killed |
| `HarnessLeavesNoTrace` | between releases the tree shows nothing of the mutants and the fictional package, neither what they wrote nor what a release or a build by hand made of it meanwhile, as long as no command was killed |
| `ReleasedInTheEnd` | sources that stay are released from the developer's tree in the end |

`ErrExit` says whether the shell of the AWS job stops at a red command.  The
release block has no `set -e`, and CodeBuild's shell options are not in the
repository, so both are checked: with `TRUE` (run `release`) `NoRedRelease`
holds, with `FALSE` (run `errexit`) TLC finds a release of sources whose tests
are red, against the comment above the block (section 10).

## 7. Records, gates and readiness

### One record

`RecordGates` translates how a record is judged: the gaps that
`package-preflight` reports for a rule (`FrrGaps`) and a KSI (`KsiGaps`), the
failures of `validate_sdr.py` and `count_automated_methods`
(`ValidatorFailures`), the checks of `sdrscan` (`RuleFindings`, `KsiFindings`),
and how the builder copies a record into the SDR (`SubmittedRule`,
`SubmittedKsi`).  A text is one of nine kinds, exactly those that the predicates
of the code tell apart: absent, TBD, an unaccepted draft, boilerplate, a brief
answer, a narrative with a TBD in it, a narrative, numbers that agree with the
metric history, numbers that do not.  `RecordWork` lets people edit, collectors extend the history, time pass and
the build scaffold and copy.

| Property | Says |
|---|---|
| `AnswersAreSubmitted` | what nothing holds up is in the submitted SDR in the provider's words, item by item |
| `EnoughMethodsWork` | a finished Class C KSI that is ready has the class minimum of methods with recent points, which neither gate alone ensures |
| `ScannerIsStricter` | the scanner's green is never contradicted by the gate |
| `HigherClassIsStricter` | what is ready at a class meets no objection at a lower one, but to an artifact that only the lower class demands |
| `RiskIsSubmitted` | what a test's header says of every item (section 10) |

Facts of the pinned dataset stand in the instance: the minimum of automated
methods per class (0, 1, 2; the 4 of Class D is never asked, no Class D package
can be built).  At which classes a rule demands an artifact is a set of classes
`due`, and a record may have any that the dataset has: none, Class C and perhaps
the lower ones with it, or, for MAY rules that an offering may select at the
lower classes only, Class A, perhaps with B, without the higher ones.

### The package as a whole

`Readiness` has the offering profile, the observations of the metric history,
the age of the evidence and the signoff; dates are ages, and `NewDay` makes
everything a day older.  `PackageBlockers` is the union of the gates of
`package-preflight`, each with its boundary as in the code; `RequiredGaps` and
`ClassGaps` are what `sdr.py init` still asks for (`profile_contract.py`).  A
manifest is known by the verification date it shows (`shown`), a signoff by the
one of the manifest it was given to (`signed`): a build after a change that was
taken back may give the signed manifest again, byte by byte, and the signoff is
bound again (`bound`).

| Property | Says |
|---|---|
| `StatusAlwaysKnown` | a ready Class C package without the note's commitment has no silence as long as the tolerance in any KSI over the year, or since its first observation |
| `SignedWithinTheWeek` | a ready package was signed within a week of its verification, though no gate looks at the signoff's age |
| `ReadyMeansFinished` | a ready package leaves the wizard nothing to ask but the status pages |

The durations are scaled down in the instance (a week is one day, a quarter two,
a year four) and keep their order; `DurationsAssumption` states what the model
asks of them.  Ages beyond the longest duration that is asked about are one
value.  The gates of Class A prerequisites' files and the scoping of rules
by applicability do not depend on time and are left out.

## 8. Evidence

`EvidenceEntries` follows an observation from a tool's export to the gates.

| TLA+ | Code |
|---|---|
| `Taken`, `Refused`, `Apply` | `apply_third_party_evidence.py` with its adapters: the fact contract, the declared vocabulary, the skip of undeclared checks, the scope key, duplicate pointers; all enabled sources or none |
| `ScopeId`, `RecordRef`, `Slug`, `Derive` | `evidence_wiring.py`: keyed hashes of scope and record, the pointer, the bound digest |
| `Upsert`, `Newer`, `CollectedAt` | `upsert_evidence`, and `_is_newer`: the timestamp comparison is there, but the entries the factory builds carry no `collected_at` at the level where it looks |
| `AcceptPrefill` | a prefill proposal accepted into an empty list |
| `Sign` | `sign_evidence.py` over the whole store |
| `Hard`, `Verified`, `SourceBound`, `PointerBound` | `validate_evidence.py`: `classify_entry`, `classify_source_binding`, `classify_pointer_binding` |
| `SignerGate`, `StoreGate`, `PlaceholderGate`, `ProductionGate` | the evidence blockers of `package-preflight` |
| `Declare`, `EditEntry`, `RemoveEntry`, `CopyEntry` | a person changes the profile or the store |

`applied` is a history variable: the last fact applied of every record of a
source, less what a person took out.

| Property | Says |
|---|---|
| `ProductionEvidenceHolds` | the gates together, judged by the profile as it is now, leave only entries under a KSI of their check, of an operated source, at their own pointer, and signed in every word by the pinned key where a signer is required |
| `ObservationsSurvive` | of every record of a source something was applied of, the store has what was last applied or a newer observation of the same record: none is lost behind one of another scope or record |
| `RepeatKeepsCleared` | applying what says nothing new costs no clearance |
| `ReplacedPlaceholderStands` | what preflight's blocker says (section 10) |

`ObservationsSurvive` does not say which of two observations of one record should
stand, so it holds of this code, where the one applied last does (section 10), and
of one that keeps the newer.

`TypeOK` includes that no raw identifier of a scope or a record is anywhere in
the store.

## 9. Runs and proofs

### Runs

Every bound is a constant of the cfg.

| Run | Instance | Shows | Why the bounds are enough |
|---|---|---|---|
| `race` | 3 jobs, one signing, 1 KSI, 2 days of one tick, 2 attempts, 1 fault | overlapping jobs lose nothing, sign what they publish, archive what they land, fail only when overtaken, and end | three jobs are needed for one to lose twice; midnight falls between any two steps; a fault can hit any request |
| `retention` | 2 jobs started twice each, 2 KSIs, 3 days, retention of 0 days, 1 lost answer | pruning, anchors, KSIs that part ways, the daily rollup | four landings over three days let every observation age out, and a KSI miss the landing that would prune it |
| `review` | 2 sessions opened, 1 killed, 1 prose and 1 structured field, 3 writes of others, 2 observation times | the safety properties of the review | two sessions in one order, in the other or overlapping; three writes are enough to draft, edit and draft again around a session |
| `build` | classes C and B; 1 edit of dataset, profile, register, records, maps or day, or of a generated file; 1 stop | one build settles, the manifest sees every source, no false alarm, and building again repairs | one edit and one stop already mix the files of two builds, the class can change within one; the map's second version is one the registry rejects, the dataset's one the lock does not name; for any number of edits, and for an unsupported class, there are the proofs |
| `release` | AWS, GitHub and a hand build; 2 source versions, one of them red; 2 history versions, 2 days, 1 kill, 2 commands | what CI publishes | an older build, a half-built commit, and a job that crosses midnight or a new history, each against either channel |
| `errexit` | AWS and a hand build, one of 2 source versions red, `ErrExit = FALSE` | section 10 | one build by hand and one job are enough |
| `signoff` | `sdr.py release` alone, 2 source versions, 1 kill | the local release, that it cleans up, and that it comes in the end | the kill can leave any step's tree behind, a mutant and the fictional package included |
| `records` | 3 methods; one record and the fields of one focus at a time | what passes the gates is in the SDR; the judges agree | a focus is a set of fields that some gate judges together; the others are finished |
| `vanished` | as `records`, with the second name of the risk field | section 10 | |
| `readiness` | 2 KSIs; answers or dates of one focus at a time | what a ready package is, day by day | a focus is what a gate judges together; every duration has a day inside, on and outside its boundary |
| `evidence` | 2 tools and the AWS collectors, 2 KSIs, 4 profiles, 2 applications, 1 edit, any number of signings and prefills | evidence from export to gate | two applications let exports meet; the exports hold two records that differ in position only, a repeated observation, a newer one, duplicates, undeclared and undated facts |
| `placeholder` | as `evidence` | section 10 | |

`MaxAttempts` is 4 in the code and 2 or 1 here; the theorems hold for every
value.  The focuses of `records` and `readiness` are bounds like any other: a
behaviour touches the fields of one of them.

Symmetry is used in `review` (sessions), `records` (methods) and `readiness`
(KSIs); these runs check safety properties only, and all of them treat the
members alike.  `CHECK_DEADLOCK FALSE` stands where the system really stops: when all
jobs have ended and the clock stands at its bound (`race`, `retention`), when
sessions and writes are used up (`review`), and where commands, edits and stops
are (`build`, `release`, `errexit`, `signoff`).

Each property of a passing run has a mutant in `PROJECT.json`: a plausible bug
of the code (a blind overwrite, a retry that keeps the old local file, pruning
that is off by one, a restore that forgets the history, a harness that does not
build again, an upsert that appends, a gate that counts drafts as answers) with
which TLC finds the property violated.  The mutated
definitions stand before the ones they replace.

### Fairness

- `race`: `WF_vars(Progress(r))` for every job: a started job's next command is
  run, because a shell script runs its next line unless the job is killed, and a
  killed job has ended (`Crash`).  Nothing is assumed about when a job starts,
  about the clock, faults or reruns.
- `build`: a script that runs ends, and somebody builds again.
- `signoff`: commands go on and a release is started again (weak); people get
  round to signing, committing and reverting between commands (strong, since a
  running release disables them again and again).  `ReleasedInTheEnd` also has
  the premise that the sources stay as they are, so a person who never stops
  editing refutes nothing.

### What is proved

Every safety property that a passing run checks is proved (the type invariant of
`Readiness` as a lemma), for any number
of jobs, sessions, KSIs, sources, tools, days and durations, and for any bounds.
The theorems rest on the named assumptions about the constants and on nothing
else; where a hypothesis stands in a statement, the text below says why.

| Theorem | Says |
|---|---|
| `HistoryContentProofs!AppendRunKeepsIntact` | an append to an intact history, not before its last time, leaves an intact history |
| `HistoryContentProofs!AppendRunReplays` | and one whose daily points replay from its observations |
| `MetricHistoryProofs!InvariantHolds`, `TypeCorrect` | `[]IInv`, `[]TypeOK` |
| `StoreAlwaysVerifies` | `[]StoreVerifies` |
| `JobsImplementTheLog` | `ImplementsLog` |
| `ArchiveStays` | `ArchiveIsImmutable` |
| `NoUpdateIsLost` | `[]StoreHoldsTheLandings` |
| `SignaturesAttest` | `[]SignatureAttestsStore` |
| `LandsOncePerRun` | `[](lostAcks = 0 => OncePerRun)` |
| `LandingsFindTheirRecord` | `[]((\A r \in Runs : gen[r] <= 1) => LandingsAreArchived)` |
| `FailingIsLosing` | `[]OnlyLosersFail` |
| `RollupAlwaysReplays` | `[]RollupReplaysObservations` |
| `RecordReviewProofs!InvariantHolds`, `TypeCorrect` | `[]IInv`, `[]TypeOK` |
| `HumansAuthorTheRecord` | `[]EveryValueHasAnAuthor` |
| `GateSpeaksForHumans` | `[]GatePassMeansHumanWord` |
| `DecisionsEndProposals` | `DecidedIsNotPending` |
| `PackageBuildProofs!TypeCorrect` | `[]TypeOK` |
| `OneBuildIsEnough` | `[]OnePassSettles` |
| `ReproducibilityIsHonest` | `[]NoFalseAlarm` |
| `SignoffCoversTheSources` | `[]ManifestSeesEverySource` |
| `ReleaseGateProofs!CIPublishesTheCommit` | `[]CIReleasesAreFaithful` |
| `OnlyGreenIsReleased` | `[]((ErrExit \/ "aws" \notin Channels) => NoRedRelease)` |
| `LocalPublishesTheCommit` | `[]LocalReleasesAreFaithful` |
| `LocalReleasesAreSigned` | `[]SignedByTheProvider` |
| `NoReleaseShowsFiction` | `[]NoFiction` |
| `ReleasesCleanUp` | `[]HarnessLeavesNoTrace` |
| `RecordWorkProofs!TypeCorrect` | `[]TypeOK` |
| `LowerClassIsReady` | `[]HigherClassIsStricter` |
| `ScannerPassesLess` | `[]ScannerIsStricter` |
| `EnoughMethodsAlwaysWork` | `[]EnoughMethodsWork` |
| `AnswersReachTheSdr` | `[](OwnWords /\ OneRisk => AnswersAreSubmitted)` |
| `ReadinessProofs!ReadyIsSignedInTime` | `[]SignedWithinTheWeek` |
| `WizardIsDone` | `[]ReadyMeansFinished` |
| `ReadyHistoryIsKnown` | `[]StatusAlwaysKnown` |
| `EvidenceProofs!InvariantHolds`, `TypeCorrect` | `[]IInv`, `[]TypeOK` |
| `NoObservationIsLost` | `[]ObservationsSurvive` |
| `ClearedEvidenceHolds` | `[]ProductionEvidenceHolds` |
| `RepeatsAreHarmless` | `RepeatKeepsCleared` |

**Metric history.**  `IInv` has five parts.  `TypeOK` gives the ranges.
`ContentsIntact` says that the object **and every local copy** pass the verifier
and keep their list order; the copies are needed because a publish replaces the
object by one of them, and the list order because pruning cuts a prefix of the
list only if timestamps follow positions.  `ClockIsAhead` says nothing is stamped
in the future; without it the next observation could be older than the last, and
pruning would tear the chain.  `CurrentCopies` says that a job whose ETag is
current holds the present object (before the append) or the present object
extended by its own contribution (after it): this is what turns the conditional
PUT into an append, and it needs no assumption about jobs whose ETag is out of
date, since their PUT fails.  `SpentStamps` says that a job cannot land a landed
stamp again.  The refinement maps each `Publish` and `PublishAckLost` to one
`Land`, every other step to a stutter.

The other properties extend `IInv` each by what it needs:

- `NoUpdateIsLost`: by the property itself.  An append keeps what its own cutoff
  keeps and adds the landed datapoint, and `IInv` makes each landing an append.
- `SignaturesAttest` (`SigInv`): copies attest themselves too, an append drops the
  signature, and what a signing job uploads is signed.
- `LandsOncePerRun` (`LandedSettled`): a stamp that landed belongs to an earlier
  execution, or its job has ended.  With a lost answer the job goes round again
  and lands twice; that is the hypothesis `lostAcks = 0`.
- `LandingsFindTheirRecord` (`ArchInv`): what is archived under the key of a first
  execution is of that execution, and a job at its PUT finds its key in the
  archive.  A second execution meets the key of the first, whose record stays: that
  is the hypothesis that no run id was started twice.
- `FailingIsLosing` (`LoserInv`): a job in its n-th attempt has seen n - 1 landings
  of others; the one that overtook its ETag is of another job and is not among
  those counted before.
- `RollupAlwaysReplays` (`RollupInv`): every copy replays, and nothing in the copy
  is dated after the day the appender took, because it takes its day after the
  restore.

**Review.**  `IInv` adds to `TypeOK` what the sessions carry.  `CopiesHaveAuthors`
asks for the authorship of every session's **copy** as well, because a session
writes its whole copy back; it is kept although copies get old, since what was
applied once stays applied.  `OneAfterTheOther` says that without overlap the log
on disk is the ledger, and the one session at work holds it, extended by its own
batch once it has decided; this makes the write of the whole log an append.
`LogsAreAccepted` is what remains with overlaps and torn logs: whatever a log, or
a session's copy of one, says was applied to a field was applied to it by a human
decision.
`BatchesAreReady` says a session past its decisions has a batch, so that the log
it writes ends in it.  `ReviewAssumption`: the fields are of one kind each,
humans do not write the machine's texts, exports do not go to the collector's
location, the template is a template.

**Build.**  The invariant says of an undisturbed build at step n: the inactive
classes are built for the class the profile names now, and every file whose last
writer is before n is what its script would make of the tree as it is.  A step
keeps it by `BuildOrder`: the writer of a file is followed by no writer of its
inputs.  At the last step this is `Settled`.

`ReproducibilityIsHonest` cannot be read off the files alone, because in the
middle of a build of a settled tree some of them are not what they were:
`build_sdr.py` writes guidance that a later script writes again.  `RInv` says
that there is a settled tree, the one the check began with, from which the tree
differs in no file whose writers have all run or are all still to come
(`Steady`).  A script that writes a file for the last time reads steady files
only.  At the end all files are steady, so the tree is the one the check hashed.
`SignoffCoversTheSources` follows each source from the manifest's inputs back
through at most two settled files (`BackShows`).

**Release.**  `CIInv` follows a CI job through its script by ranges of steps:
until `validate` it has the sources of its commit, the diff after the first build
vouches that the commit's artifacts are built from the commit's sources, and
what `validate` saw was green unless the shell goes on after a red command; that
is the hypothesis `ErrExit` of `OnlyGreenIsReleased`.  The developer's tree moves
under the release, and another `sdr.py build` may replace artifacts between two of
its steps, so nothing about equality can be kept there.  What can be is an order.
Sources only grow, in the tree and with it in the commit (`AheadInv`), so a tree
that equals the commit at the end also did when `validate` saw it.  For what was
built, `MatchInv` orders artifacts and manifests as well (`Older`, `OlderMan`: by
sources, history and day, the fiction before all, a mutant before the real
scripts): nothing in the tree is later than what a build would make of it now, so
from the release's last build on every step of anybody moves the tree onward
(`TreeGoesOnward`, `BuildsGrow`).  Its last `clean` step has seen the tree equal to
the commit; the order is antisymmetric, so a tree that has left the commit does not
come back to it (`Back`), and when the attestation finds it clean, all that was
built, checked, found signed and read in between was the commit's.  `FictionInv`:
without a kill the invented history is in the tree from `fake` to `restore` only,
and everything published is built after that.  `TraceInv` says the same of
everything the two tools touch, and of what is built: by the place of the local
release it says which of the tree's parts may be fictional or made of a mutant.
A build by hand can put a mutant into the artifacts, or the fiction, at any
place in between; both are gone because the harness's own last build comes after
everything was put back.

**Records.**  Three of the theorems compare gates state by state, by `TypeOK` or
by nothing at all (`LowerClassIsReady` takes the gaps of two classes next to each
other, `GapsBelow`); they hold for any set of methods and any minimum, so
the lemmas on cardinality are what they rest on.  `AnswersReachTheSdr` needs
`WordsInv`: a built record has no field left that the scaffold would fill.  Its
hypotheses name where the code itself parts from the property: `OwnWords` (authors
write the template's boilerplate in no field but the acceptance, where preflight
does not count it) and `OneRisk` (the risk is not given under the second name:
the run `vanished`).

**Readiness.**  `SignedAfter`, the inductive invariant, follows the verification
date on its way through the manifest: a current manifest shows the profile's, a
signoff bound to the manifest was given to one that showed the same, and a
signoff is not older than the verification it was given to, but for the days that
was dated ahead.  A build that gives the signed manifest again only uses the
second.  `WizardIsDone` goes through the gaps of the wizard
one by one.  `ReadyHistoryIsKnown` is about data: from a series without a gap
above the tolerance it concludes that every age up to the year has an
observation near it.  The library has no facts about `Min` and `Max`; that
finite sets of integers have them is proved from the well-foundedness of strict
inclusion.  Assumptions: there is a KSI, and the class of a case is a class.

**Evidence.**  The invariant says that every entry's pointer ends in the slug of
the observation it shows and of the one it was hashed with.  With it, two
entries that replace each other show the same source, check, scope and record
(`SlugTellsIdentity`: tagged identifiers keep slugs apart), so an upsert only
supersedes; and since `applied` has the last fact applied of every record, the
store has an entry that shows it (`LastStands`), which is more than
`ObservationsSurvive` asks.  `ClearedEvidenceHolds` needs no history at all: the gates, taken
together, imply it of any store whose entries are entries.  `TypeCorrect`
(`Private`) also looks at the words an entry was hashed and signed with, since a
copy may carry them on; it assumes that a keyed hash is no raw identifier
(`TaggedAssumption`).  `RepeatsAreHarmless`: where a
repeated run adds an entry although one of the same words is there, that one had
lost its digest (`RepeatedEntry`); an entry without a digest is cleared only
where no digest is asked for, and there the new one is cleared as well.

**Only model-checked.**  Liveness (`EveryJobEnds`, `EventuallySettled`,
`ReleasedInTheEnd`) is out of the prover's reach: it needs `ENABLED` for the
fairness of the actions.  The three expected violations are counterexamples and
nothing to prove.

## 10. Where the code and its documentation part

Three runs expect a violation of a sentence of the repository:

- `vanished` (`RiskIsSubmitted`): the gate takes a KSI's risk from
  `resulting_customer_risk` or `customer_risk`, the builder emits the first that
  is not empty, and the scaffold fills `resulting_customer_risk` with the TBD marker.  A
  risk given under the second name passes the gate, and the SDR says TBD.
- `placeholder` (`ReplacedPlaceholderStands`): the blocker says to replace a
  placeholder location with the real one, but the location is part of the
  content hash; the replaced entry fails `validate_evidence.py`.  Only deriving it
  again with a base URI works, and the placeholder entry has to be deleted.
- `errexit` (`NoRedRelease`): "so the AWS release path is not weaker than the
  GitHub/local release gate" (`buildspec-validate.yml:57-61`).  The block below is
  one script without `set -e`; in a shell that is not started with errexit a red
  `sdr.py validate` is followed by the next command, and the exit code is that
  of the last one, `release_gate.py`.

Seen while modelling, without a run of their own:

*Metric history*
- A PUT that was applied and whose answer was lost is sent again and answered
  412; the loop appends the same collection a second time
  (`publish_history.py:197`).  The day's value does not change, its count does.
- A rerun keeps its run id, the archive key of the day exists, and the second
  collection lands without a run-level record (`publish_history.py:175`,
  `living-sdr-loop.yml:121`).
- A run that appends nothing exits 4 under `set -e`; the `last_attempt` it wrote
  (`append_metrics.py:738-739`) never leaves the workspace (`:860`).
- The metrics key of a retired check is never removed (`append_metrics.py:717-731`),
  and a key without a fresh point keeps blocking a Class C KSI.

*Review*
- "for the LATEST accepted/edited decision on a field, applied_sha256 must equal
  the hash of the field's CURRENT value" (`validate_reviews.py:217-219`).  The gate
  looks at the latest decision of any kind (`:243`); once a later proposal was
  rejected, the accepted value can be edited and the gate passes.
- A session writes back the store it loaded, even if it rejected everything;
  what others wrote meanwhile is reverted (`review_proposals.py:518`, against `:14`).
- Every difference in `tests` or `evidence` from a prefill sidecar counts as
  prefill's proposal, also in a field prefill left alone
  (`review_proposals.py:135`, against `:191-198`).
- Node approvals are compared with keys the entries do not have
  (`validate_reviews.py:101` reads `xEvidenceContentHash` or `content_hash`,
  the factory writes `sha256`), so they cannot pass.

*Build and release*
- `build_release_manifest.py:157` says the review register is "deliberately
  EXCLUDED" from what a signoff binds; the graph copies its review blocks, and
  the manifest pins the graph.  `:12` says "Deterministic on purpose"; the SDR's
  windows and the graph's freshness depend on the day.
- The AWS job restores the metric history before it builds, so its
  `git diff` (`buildspec-validate.yml:55`) refuses a commit that was built
  without it; GitHub builds without it.  A commit with history-dependent artifacts
  satisfies one of them.
- An edit between two scripts of a build passes `sdr.py validate`; the
  reproducibility check is what catches it.
- A killed attack harness leaves its fictional metric history, which is not in
  git, so a revert does not take it away.
- `release.yml` never runs `package-preflight`; a GitHub release needs no signoff.

*Gates*
- Preflight takes any name whose first letters are n and a for N/A
  (`sdr.py:1839`), the wizard's contract does not (`profile_contract.py:377`): an
  assessor called Nathan blocks for ever, and the wizard has nothing to ask.
- How many methods a KSI declares and how many work are counted over different
  lists (`sdr.py:3068`); a test whose id is TBD is counted by one and skipped by the other.
- The `operating_cycle` gate accepts `cycle` too, but after a build the scaffold's TBD
  under the first name hides it.
- The scanner counts automated tests without an id (`sdrscan/checks.py:48-52`),
  the validator does not.
- The evidence of records whose implementation is not filled in is not judged;
  a draft counts as not filled in.
- A status page that says N/A passes preflight and is missing to the wizard; the
  wizard never asks for `history_days` and the standby contact.  A reasoned N/A
  in the metadata is finished for the wizard and blocked by preflight.
- With the commitment of the SDR-CSX-KMT note, a package is judged by the age of its
  newest observations alone until a year after `since`, and from that day on by
  the whole year (`sdr.py:2223`): old gaps turn into blockers overnight.
- A verification dated ahead stretches how old a signoff a ready package may have
  (`Ahead` in `SignedWithinTheWeek`).
- `evidence_store: {}` and a TBD block pass where no block blocks
  (`sdr.py:799-868`, `docs/automation.md:90`).
- Muting a check raises the scanner's readiness percentage.

*Evidence*
- "an older observation does not replace" (`test_thirdparty_upsert.py:38`, of
  hand-made entries; also `apply_third_party_evidence.py:113`).  `_is_newer`
  (`:76`) looks for the collection time at the top level of an entry, where the
  factory does not put it, so an older export replaces a newer observation.
- `sign_entry` signs the digest it finds without recomputing it; the gate
  recomputes.  An entry damaged by hand is not repaired by applying its export
  again if the digest still matches the export's.
- `validate_evidence.py` ends with a message that placeholders are hard failures
  under a required signer; `classify_entry` makes them findings.
- `skipped_undeclared` counts distinct checks, not records.

## 11. What is not modelled

- **Metric history**: the 30-day and one-year summaries, the per-metric series and
  the `persistent_validation_window` (recomputed from the series in the same
  call), how facts become a fraction, `rechain`, unattested legacy histories,
  tampering with the durable object.  Clock skew: there is one clock, and the
  chain's proof depends on it (`ClockIsAhead`).  S3's 409 answers, which the code
  treats as any other error.
- **Review**: the forbidden fields and the status (never proposed, but reverted
  by a session as any field is), a label within a label, a store file torn in the
  middle of its write, node approvals.  The producers and the third-party driver read
  and write the store within one step.  The order in which prefill merges facts
  stores (`prefill_from_facts.py:111`).
- **Build and release**: the documents' content, schema validation and the
  consistency checks between documents; the tag's signature and the upload.
- **Records and readiness**: applicability of rules, the advisories, mutes and the
  scanner's score, wording.
- **Evidence**: parsing of exports, scrubbing of text, file-backed entries and
  entries of the older `source_fact` shape, evidence of rules, run ids in pointers,
  KMS verification (which no gate calls); the supersede chain and hour
  arithmetic of `evidence_lifecycle.py`.
- **Evidence storage** (`ingest_evidence.py`, `provision_store.py`): called by
  hand, one PUT or one settings document each; versions and locks are S3's.
- **Fan-out over accounts** (`collect_multi_account.py`): a thread pool with one
  task per account and region (`:197`); the tasks are AWS calls that share no
  state, and one thread collects their lists as they complete.
- **The living loop's propose job and the drift workflow**: git and GitHub commands;
  the comparison with upstream changes nothing of the package.
- **Importers, gap assessment, AWS Config rules and stacks, the oracle's tables**:
  conversions, reports, templates and test data without state.

## 12. What is left

What would add most, in this order: a model of
`evidence_lifecycle.py` with hours and time zones; a model of the fan-out over
accounts; and clocks that differ between runners, under which the chain can be
torn.
