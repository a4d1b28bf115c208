----------------------------- MODULE ReleaseGate -----------------------------
(***************************************************************************)
(* The three ways to a release: sdr.py release in the developer's working  *)
(* tree, the CodeBuild job of the AWS pipeline, and the GitHub workflow    *)
(* that a pushed tag starts.  Each is a list of steps that stops at a red  *)
(* one.  Meanwhile people edit, sign and commit, the collector publishes   *)
(* metric history, midnight comes, and commands in the working tree are    *)
(* killed half way, also while the attack harness has put a fictional      *)
(* package in the place of the real one.                                   *)
(*                                                                         *)
(* A build is what PackageBuild shows of it: its artifacts are made of the *)
(* sources and the metric history as it finds them and, where anything in  *)
(* them is dated, of the day.  Blockers of the preflight other than the    *)
(* signoff are properties of the sources and left out.                     *)
(***************************************************************************)
EXTENDS Naturals, Sequences, FiniteSets

CONSTANTS
  MaxSrc,      \* versions of the authored sources
  MaxHist,     \* versions of the metric history in the evidence bucket
  MaxDay,      \* midnights
  MaxKills,    \* commands killed in the working tree
  MaxJobs,     \* commands started besides sdr.py release
  Channels,    \* which of "local", "hand", "aws", "github" are used
  Broken,      \* source versions whose test suite is red
  Dated,       \* do the artifacts depend on the day of the build
  ClassC,      \* does the manifest pin the metric history
  ErrExit,     \* does the shell of the AWS job stop at every red command
  Sample       \* the fictional sources and history of the attack harness

ASSUME ConstantsAssumption ==
  /\ {MaxSrc, MaxHist, MaxDay, MaxKills, MaxJobs} \subseteq Nat
  /\ Channels \subseteq {"local", "hand", "aws", "github"}
  /\ Broken \subseteq 0..MaxSrc
  /\ {Dated, ClassC, ErrExit} \subseteq BOOLEAN
  /\ Sample \notin Nat

VARIABLES
  tree,      \* the developer's working tree
  head,      \* the commit checked out there, and the tip of main
  bucket,    \* the version of the metric history in the evidence bucket
  day,
  run,       \* the command of each channel
  released,  \* the last attested release, in a set, or the empty set
  jobs, kills

vars == <<tree, head, bucket, day, run, released, jobs, kills>>

-----------------------------------------------------------------------------
(* A tree: the authored sources, the scripts, the metric history (not in   *)
(* git, 0 when absent), the artifacts, the manifest and the signoff in the *)
(* review register.  Files are known by what they were made of.            *)

Rendered(t) == [src |-> t.src, code |-> t.code, hist |-> t.hist,
                day |-> IF Dated THEN day ELSE 0]
Pins(t) == [art |-> t.art, src |-> t.src, hist |-> IF ClassC THEN t.hist ELSE 0]

\* validate_package_consistency.py looks only at what the manifest lists.
Consistent(t) ==
  /\ t.man.art = t.art
  /\ t.man.src = t.src
  /\ t.man.hist # 0 => t.man.hist = t.hist

Tracked(t) == [t EXCEPT !.hist = 0]
Signoff(who, t) == [by |-> who, man |-> t.man]

\* Nothing in sight says that the harness or the mutation runner was here.
Presentable(t) ==
  /\ t.code = "ok"
  /\ Sample \notin {t.src, t.art.src, t.man.src, t.man.art.src}
  /\ t.sign.by # "harness"

\* The first commit: built, and signed by nobody.
First ==
  LET art == [src |-> 0, code |-> "ok", hist |-> 0, day |-> 0]
      man == [art |-> art, src |-> 0, hist |-> 0]
  IN  [src |-> 0, code |-> "ok", hist |-> 0, art |-> art, man |-> man,
       sign |-> [by |-> "nobody", man |-> man]]

-----------------------------------------------------------------------------
(* The commands as lists of steps.  "hand" is a plain sdr.py build in the   *)
(* developer's tree.  Of audit/release_gate.py, mutate and unmutate stand   *)
(* for the mutation runner, fake, countersign and restore for a run of the  *)
(* attack harness, whose builds nobody checks; its security section reads   *)
(* the code only.  GitHub runs the sections as jobs with checkouts of their *)
(* own.                                                                     *)

Build   == <<"artifacts", "manifest", "consistency">>
Audit   == <<"mutate", "unmutate", "clean">>
AttackNoRebuild == <<"fake", "artifacts", "manifest", "countersign", "restore", "clean">>
Attack  == <<"fake", "artifacts", "manifest", "countersign", "restore",
             "artifacts", "manifest", "clean">>
Repro   == <<"hash">> \o Build \o <<"compare">>
Local   == Build \o <<"validate">> \o Audit \o Attack \o <<"verdict">> \o Repro
             \o <<"preflight", "read", "attest">>
Aws     == <<"history">> \o Build \o <<"diff", "validate">> \o Repro \o Audit \o Attack
             \o <<"verdict", "preflight", "read", "attest">>
GitHub  == Build \o <<"diff">> \o Repro \o <<"validate", "checkout">> \o Audit
             \o <<"checkout">> \o Attack \o <<"verdict", "checkout", "read", "attest">>

Script(w) == CASE w = "local"  -> Local
               [] w = "hand"   -> Build
               [] w = "aws"    -> Aws
               [] w = "github" -> GitHub

OnTree == {"local", "hand"}
Idle == [step |-> 0, tree |-> First, base |-> First, bak |-> First, seen |-> First.art,
         man |-> First.man, red |-> FALSE]

Busy(w) == run[w].step # 0
At(w, name) == Busy(w) /\ Script(w)[run[w].step] = name
Tree(w) == IF w \in OnTree THEN tree ELSE run[w].tree
Base(w) == IF w \in OnTree THEN head ELSE run[w].base

\* Channel w goes on as r with its tree now t.
Goes(w, r, t) ==
  /\ tree' = IF w \in OnTree THEN t ELSE tree
  /\ run' = [run EXCEPT ![w] = [r EXCEPT !.tree = IF w \in OnTree \/ r = Idle THEN @ ELSE t]]
  /\ UNCHANGED <<head, bucket, day, jobs, kills>>

Later(w) == IF run[w].step = Len(Script(w)) THEN Idle ELSE [run[w] EXCEPT !.step = @ + 1]

Init ==
  /\ tree = First
  /\ head = First
  /\ bucket = 0
  /\ day = 0
  /\ run = [w \in Channels |-> Idle]
  /\ released = {}
  /\ jobs = 0
  /\ kills = 0

(* A push starts the AWS pipeline; a release tag, which must be on main and
   signed, starts the workflow on the commit it names. *)
Start(w) ==
  /\ ~Busy(w)
  /\ w # "local" => jobs < MaxJobs
  /\ jobs' = IF w = "local" THEN jobs ELSE jobs + 1
  /\ run' = [run EXCEPT ![w] = [Idle EXCEPT !.step = 1, !.base = head,
                                            !.tree = IF w \in OnTree THEN @ ELSE head]]
  /\ UNCHANGED <<tree, head, bucket, day, released, kills>>

-----------------------------------------------------------------------------
(* The steps that write.                                                    *)

History(w) == At(w, "history") /\ Goes(w, Later(w), [Tree(w) EXCEPT !.hist = bucket])
Artifacts(w) == At(w, "artifacts") /\ Goes(w, Later(w), [Tree(w) EXCEPT !.art = Rendered(Tree(w))])
Manifest(w) == At(w, "manifest") /\ Goes(w, Later(w), [Tree(w) EXCEPT !.man = Pins(Tree(w))])
Checkout(w) == At(w, "checkout") /\ Goes(w, Later(w), run[w].base)

Mutate(w) ==
  /\ At(w, "mutate")
  /\ Goes(w, [Later(w) EXCEPT !.bak = Tree(w)], [Tree(w) EXCEPT !.code = "mutant"])
Unmutate(w) ==
  /\ At(w, "unmutate")
  /\ Goes(w, [Later(w) EXCEPT !.bak = First], [Tree(w) EXCEPT !.code = run[w].bak.code])

Fake(w) ==
  /\ At(w, "fake")
  /\ Goes(w, [Later(w) EXCEPT !.bak = Tree(w)],
          [Tree(w) EXCEPT !.src = Sample, !.hist = Sample])
Countersign(w) ==
  /\ At(w, "countersign")
  /\ Goes(w, Later(w), [Tree(w) EXCEPT !.sign = Signoff("harness", Tree(w))])
RestoreNoHistory(w) ==
  /\ At(w, "restore")
  /\ Goes(w, [Later(w) EXCEPT !.bak = First],
          [Tree(w) EXCEPT !.src = run[w].bak.src, !.sign = run[w].bak.sign])
RestoreNoRegister(w) ==
  /\ At(w, "restore")
  /\ Goes(w, [Later(w) EXCEPT !.bak = First],
          [Tree(w) EXCEPT !.src = run[w].bak.src, !.hist = run[w].bak.hist])
Restore(w) ==
  /\ At(w, "restore")
  /\ Goes(w, [Later(w) EXCEPT !.bak = First],
          [Tree(w) EXCEPT !.src = run[w].bak.src, !.sign = run[w].bak.sign,
                          !.hist = run[w].bak.hist])

Hash(w) == At(w, "hash") /\ Goes(w, [Later(w) EXCEPT !.seen = Tree(w).art], Tree(w))
ReadManifest(w) == At(w, "read") /\ Goes(w, [Later(w) EXCEPT !.man = Tree(w).man], Tree(w))

(* The steps that judge.  In one section of the release gate the steps stop *)
(* at a red one, the other sections still run; the verdict comes at the end.*)

CleanSources(w) == Tree(w).src = Base(w).src /\ Tree(w).code = Base(w).code
Clean(w) == Tracked(Tree(w)) = Tracked(Base(w))
ValidatesNoTests(t) == Consistent(t)
Validates(t) == Consistent(t) /\ t.src \notin Broken
ReadyUnbound(w) == Consistent(Tree(w)) /\ Tree(w).sign.by # "nobody"
Ready(w) == Consistent(Tree(w)) /\ Tree(w).sign.by # "nobody" /\ Tree(w).sign.man = Tree(w).man

Judges == {"consistency", "diff", "validate", "compare", "verdict", "preflight"}
Green(w) ==
  CASE At(w, "consistency") -> Consistent(Tree(w))
    [] At(w, "diff")        -> Clean(w)
    [] At(w, "validate")    -> Validates(Tree(w))
    [] At(w, "compare")     -> Tree(w).art = run[w].seen
    [] At(w, "verdict")     -> ~run[w].red
    [] At(w, "preflight")   -> Ready(w)

(* The release block of buildspec-validate.yml runs validate, the
   reproducibility check and the release gate one after the other, and
   nothing in it makes the shell stop at a red one before the last; an
   earlier block sets errexit only where it restores the metric history. *)
Tolerated(w) ==
  w = "aws" /\ ~ErrExit /\ (At(w, "validate") \/ At(w, "compare"))

\* What was hashed is forgotten once it has been compared.
Seen(w) == IF At(w, "compare") THEN First.art ELSE run[w].seen

Judge(w) ==
  /\ Busy(w)
  /\ Script(w)[run[w].step] \in Judges
  /\ Goes(w, IF Green(w) \/ Tolerated(w) THEN [Later(w) EXCEPT !.seen = Seen(w)]
             ELSE Idle, Tree(w))

CleanStep(w) ==
  /\ At(w, "clean")
  /\ Goes(w, [Later(w) EXCEPT !.red = @ \/ ~Clean(w)], Tree(w))

(* build_release_attestation.py asks git about the tree after it has read
   the manifest; the bundle is what the tree holds then. *)
Release(w) ==
  [via |-> w, man |-> run[w].man, art |-> Tree(w).art, sign |-> Tree(w).sign,
   commit |-> Base(w)]
AttestBlindly(w) ==
  /\ At(w, "attest")
  /\ Goes(w, Later(w), Tree(w))
  /\ released' = {Release(w)}
Attest(w) ==
  /\ At(w, "attest")
  /\ IF Clean(w)
     THEN Goes(w, Later(w), Tree(w)) /\ released' = {Release(w)}
     ELSE Goes(w, Idle, Tree(w)) /\ UNCHANGED released

Step(w) ==
  \/ Attest(w)
  \/ /\ \/ History(w)
        \/ Artifacts(w)
        \/ Manifest(w)
        \/ Checkout(w)
        \/ Mutate(w)
        \/ Unmutate(w)
        \/ Fake(w)
        \/ Countersign(w)
        \/ Restore(w)
        \/ Hash(w)
        \/ ReadManifest(w)
        \/ Judge(w)
        \/ CleanStep(w)
     /\ UNCHANGED released

-----------------------------------------------------------------------------
(* People, the collector and the calendar.                                  *)

Kill(w) ==
  /\ w \in OnTree
  /\ Busy(w)
  /\ kills < MaxKills
  /\ kills' = kills + 1
  /\ run' = [run EXCEPT ![w] = Idle]
  /\ UNCHANGED <<tree, head, bucket, day, released, jobs>>

Works(t) ==
  /\ tree' = t
  /\ UNCHANGED <<head, bucket, day, run, released, jobs, kills>>

Edit == tree.src \in 0..(MaxSrc - 1) /\ Works([tree EXCEPT !.src = @ + 1])

(* Whoever signs or commits looks at the tree first and does neither with
   what is plainly not theirs; nobody commits or reverts while a release
   command runs in the same tree. *)
Sign ==
  /\ Presentable(tree)
  /\ Consistent(tree)
  /\ tree.sign # Signoff("provider", tree)
  /\ Works([tree EXCEPT !.sign = Signoff("provider", tree)])

Revert ==
  /\ "local" \in Channels => ~Busy("local")
  /\ ~Presentable(tree)
  /\ Works([head EXCEPT !.hist = tree.hist])

FetchHistory ==
  /\ tree.hist # bucket
  /\ Works([tree EXCEPT !.hist = bucket])

Commit ==
  /\ "local" \in Channels => ~Busy("local")
  /\ Presentable(tree)
  /\ Tracked(tree) # head
  /\ head' = Tracked(tree)
  /\ UNCHANGED <<tree, bucket, day, run, released, jobs, kills>>

Collect ==
  /\ bucket < MaxHist
  /\ bucket' = bucket + 1
  /\ UNCHANGED <<tree, head, day, run, released, jobs, kills>>

Midnight ==
  /\ day < MaxDay
  /\ day' = day + 1
  /\ UNCHANGED <<tree, head, bucket, run, released, jobs, kills>>

Next ==
  \/ \E w \in Channels : Start(w) \/ Step(w) \/ Kill(w)
  \/ Edit
  \/ Sign
  \/ Revert
  \/ FetchHistory
  \/ Commit
  \/ Collect
  \/ Midnight

(* Commands go on, and people get round to their part between commands. *)
Fairness ==
  /\ \A w \in Channels : WF_vars(Step(w))
  /\ WF_vars("local" \in Channels /\ Start("local"))
  /\ SF_vars(Sign)
  /\ SF_vars(Commit)
  /\ SF_vars(Revert)

Spec == Init /\ [][Next]_vars /\ Fairness

-----------------------------------------------------------------------------
Art == [src : 0..MaxSrc \cup {Sample}, code : {"ok", "mutant"},
        hist : 0..MaxHist \cup {Sample}, day : 0..MaxDay]
Man == [art : Art, src : 0..MaxSrc \cup {Sample}, hist : 0..MaxHist \cup {Sample}]
Signs == [by : {"nobody", "provider", "harness"}, man : Man]
Trees == [src : 0..MaxSrc \cup {Sample}, code : {"ok", "mutant"}, hist : 0..MaxHist \cup {Sample},
          art : Art, man : Man, sign : Signs]
Commands == [step : Nat, tree : Trees, base : Trees, bak : Trees, seen : Art, man : Man,
             red : BOOLEAN]

\* Every tree, checkout and release command is well formed.
TypeOK ==
  /\ tree \in Trees
  /\ head \in Trees
  /\ bucket \in 0..MaxHist
  /\ day \in 0..MaxDay
  /\ run \in [Channels -> Commands]
  /\ \A w \in Channels : run[w].step <= Len(Script(w))
  /\ jobs \in 0..MaxJobs
  /\ kills \in 0..MaxKills

CI == {"aws", "github"}
ReleasedBy(ws) == {r \in released : r.via \in ws}

\* The release is what its commit holds, made from what its commit holds.
Faithful(r) ==
  /\ r.man = r.commit.man
  /\ r.art = r.commit.art
  /\ r.man.art = r.art
  /\ r.man.src = r.commit.src
  /\ r.art.src = r.commit.src
  /\ r.art.code = "ok"

\* The provider's word on that very manifest is in it.
Signed(r) == r.sign = [by |-> "provider", man |-> r.man]

(* What the two CI channels publish is committed, and built from the
   committed sources, whatever people committed, a half-finished build or
   one older than the sources included; what AWS publishes is also signed. *)
CIReleasesAreFaithful ==
  \A r \in ReleasedBy(CI) : Faithful(r) /\ (r.via = "aws" => Signed(r))

(* The same of sdr.py release in a tree that people work in and kill commands
   in meanwhile, if nobody commits there before it ends. *)
LocalReleasesAreFaithful == \A r \in ReleasedBy({"local"}) : Faithful(r)

(* No local release without the provider's word on that very manifest; the
   harness signs its own package in the same register. *)
SignedByTheProvider == \A r \in ReleasedBy({"local"}) : Signed(r)

(* Sources whose test suite is red are never released (v1.4.0 was, the
   comments of audit/release_gate.py say). *)
NoRedRelease == \A r \in released : r.commit.src \notin Broken

(* No release shows the history that the attack harness made up, as long as
   no harness was killed: the file is not in git, nothing but the harness's own
   restore takes it away again. *)
NoFiction == kills = 0 => \A r \in released : Sample \notin {r.art.hist, r.man.hist}

\* No part of the tree is the harness's, or made of a mutant.
Traceless(t) ==
  /\ {t.code, t.art.code, t.man.art.code} = {"ok"}
  /\ Sample \notin {t.src, t.art.src, t.man.src, t.man.art.src,
                   t.hist, t.art.hist, t.man.hist, t.man.art.hist}
  /\ t.sign.by # "harness"

(* Between releases the tree shows nothing of the mutants and of the fictional
   package, neither what they wrote nor what was built of it meanwhile, by the
   release or by a build in the same tree: the store, the scripts, the history
   and the register are put back before the last build, whatever was red, as
   long as no command was killed ("exactly as found",
   build_class_c_sample.py:66, audit/mutation_tests.py:61-69). *)
HarnessLeavesNoTrace ==
  kills = 0 /\ ("local" \in Channels => ~Busy("local")) => Traceless(tree)

(* Sources that stay and are not broken are released from the developer's
   tree in the end: the signature is on a manifest that signing does not
   change, and every step of the release leaves the tree as committed. *)
ReleasedInTheEnd ==
  \A s \in (0..MaxSrc) \ Broken :
    (<>[](tree.src \in {s, Sample})) => <>(\E r \in ReleasedBy({"local"}) : r.commit.src = s)

=============================================================================
