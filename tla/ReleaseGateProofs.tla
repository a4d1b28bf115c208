-------------------------- MODULE ReleaseGateProofs --------------------------
(***************************************************************************)
(* What the three ways to a release promise, for any number of sources,    *)
(* histories, days, kills and jobs.                                        *)
(***************************************************************************)
EXTENDS ReleaseGate, TLAPS

(* The steps of each script by their place.                                *)

LEMMA LocalScript ==
  /\ Len(Local) = 24
  /\ Local[1] = "artifacts"  /\ Local[2] = "manifest"     /\ Local[3] = "consistency"
  /\ Local[4] = "validate"   /\ Local[5] = "mutate"       /\ Local[6] = "unmutate"
  /\ Local[7] = "clean"      /\ Local[8] = "fake"         /\ Local[9] = "artifacts"
  /\ Local[10] = "manifest"  /\ Local[11] = "countersign" /\ Local[12] = "restore"
  /\ Local[13] = "artifacts" /\ Local[14] = "manifest"    /\ Local[15] = "clean"
  /\ Local[16] = "verdict"   /\ Local[17] = "hash"        /\ Local[18] = "artifacts"
  /\ Local[19] = "manifest"  /\ Local[20] = "consistency" /\ Local[21] = "compare"
  /\ Local[22] = "preflight" /\ Local[23] = "read"        /\ Local[24] = "attest"
BY DEF Local, Build, Audit, Attack, Repro

LEMMA AwsScript ==
  /\ Len(Aws) = 26
  /\ Aws[1] = "history"      /\ Aws[2] = "artifacts"      /\ Aws[3] = "manifest"
  /\ Aws[4] = "consistency"  /\ Aws[5] = "diff"           /\ Aws[6] = "validate"
  /\ Aws[7] = "hash"         /\ Aws[8] = "artifacts"      /\ Aws[9] = "manifest"
  /\ Aws[10] = "consistency" /\ Aws[11] = "compare"       /\ Aws[12] = "mutate"
  /\ Aws[13] = "unmutate"    /\ Aws[14] = "clean"         /\ Aws[15] = "fake"
  /\ Aws[16] = "artifacts"   /\ Aws[17] = "manifest"      /\ Aws[18] = "countersign"
  /\ Aws[19] = "restore"     /\ Aws[20] = "artifacts"     /\ Aws[21] = "manifest"
  /\ Aws[22] = "clean"       /\ Aws[23] = "verdict"       /\ Aws[24] = "preflight"
  /\ Aws[25] = "read"        /\ Aws[26] = "attest"
BY DEF Aws, Build, Audit, Attack, Repro

LEMMA GitHubScript ==
  /\ Len(GitHub) = 27
  /\ GitHub[1] = "artifacts"    /\ GitHub[2] = "manifest"     /\ GitHub[3] = "consistency"
  /\ GitHub[4] = "diff"         /\ GitHub[5] = "hash"         /\ GitHub[6] = "artifacts"
  /\ GitHub[7] = "manifest"     /\ GitHub[8] = "consistency"  /\ GitHub[9] = "compare"
  /\ GitHub[10] = "validate"    /\ GitHub[11] = "checkout"    /\ GitHub[12] = "mutate"
  /\ GitHub[13] = "unmutate"    /\ GitHub[14] = "clean"       /\ GitHub[15] = "checkout"
  /\ GitHub[16] = "fake"        /\ GitHub[17] = "artifacts"   /\ GitHub[18] = "manifest"
  /\ GitHub[19] = "countersign" /\ GitHub[20] = "restore"     /\ GitHub[21] = "artifacts"
  /\ GitHub[22] = "manifest"    /\ GitHub[23] = "clean"       /\ GitHub[24] = "verdict"
  /\ GitHub[25] = "checkout"    /\ GitHub[26] = "read"        /\ GitHub[27] = "attest"
BY DEF GitHub, Build, Audit, Attack, Repro

LEMMA HandScript ==
  /\ Len(Build) = 3
  /\ Build[1] = "artifacts" /\ Build[2] = "manifest" /\ Build[3] = "consistency"
BY DEF Build

LEMMA ScriptLengths ==
  /\ Script("local") = Local   /\ Script("hand") = Build
  /\ Script("aws") = Aws       /\ Script("github") = GitHub
  /\ \A w \in Channels : Len(Script(w)) \in Nat /\ Len(Script(w)) > 0
<1>1. /\ Script("local") = Local   /\ Script("hand") = Build
      /\ Script("aws") = Aws       /\ Script("github") = GitHub
  BY DEF Script
<1>2. ASSUME NEW w \in Channels PROVE w \in {"local", "hand", "aws", "github"}
  BY ConstantsAssumption
<1>3. /\ Len(Script("local")) = 24   /\ Len(Script("hand")) = 3
      /\ Len(Script("aws")) = 26     /\ Len(Script("github")) = 27
  BY <1>1, LocalScript, AwsScript, GitHubScript, HandScript
<1>4. ASSUME NEW w \in Channels PROVE Len(Script(w)) \in Nat /\ Len(Script(w)) > 0
  <2>1. w = "local" \/ w = "hand" \/ w = "aws" \/ w = "github"
    BY <1>2
  <2>2. \A n \in {3, 24, 26, 27} : n \in Nat /\ n > 0
    OBVIOUS
  <2>3. Len(Script(w)) \in {3, 24, 26, 27}
    BY <2>1, <1>3, Zenon
  <2> QED BY <2>2, <2>3
<1> QED BY <1>1, <1>4

-----------------------------------------------------------------------------
(* Types.                                                                   *)

(* What git holds, besides being well formed, is presentable and without    *)
(* metric history: whoever commits looks at the tree first.                 *)
Typed == TypeOK /\ head.hist = 0 /\ Presentable(head)

LEMMA FirstTyped ==
  /\ First \in Trees /\ First.hist = 0 /\ Presentable(First)
  /\ Idle \in Commands /\ Idle.step = 0
  /\ Tracked(First) = First
BY ConstantsAssumption DEF First, Idle, Trees, Commands, Signs, Man, Art, Presentable, Tracked

\* What the steps write into a tree is a tree.
LEMMA Written ==
  ASSUME Typed, NEW t \in Trees, NEW b \in Trees
  PROVE  /\ [t EXCEPT !.hist = bucket] \in Trees
         /\ Rendered(t) \in Art /\ [t EXCEPT !.art = Rendered(t)] \in Trees
         /\ Pins(t) \in Man /\ [t EXCEPT !.man = Pins(t)] \in Trees
         /\ [t EXCEPT !.code = "mutant"] \in Trees
         /\ [t EXCEPT !.code = b.code] \in Trees
         /\ [t EXCEPT !.src = Sample, !.hist = Sample] \in Trees
         /\ \A who \in {"provider", "harness"} : [t EXCEPT !.sign = Signoff(who, t)] \in Trees
         /\ [t EXCEPT !.src = b.src, !.sign = b.sign, !.hist = b.hist] \in Trees
         /\ [t EXCEPT !.hist = b.hist] \in Trees
         /\ Tracked(t) \in Trees /\ Tracked(t).hist = 0
         /\ Presentable(t) => Presentable(Tracked(t))
<1>1. bucket \in 0..MaxHist /\ day \in 0..MaxDay /\ 0 \in 0..MaxDay /\ 0 \in 0..MaxHist
  BY ConstantsAssumption DEF Typed, TypeOK
<1>2. Rendered(t) \in Art
  BY <1>1 DEF Trees, Art, Rendered
<1>3. Pins(t) \in Man
  BY <1>1 DEF Trees, Man, Pins
<1>4. \A who \in {"provider", "harness"} : Signoff(who, t) \in Signs
  BY DEF Signoff, Signs, Trees
<1>5. /\ Tracked(t) \in Trees /\ Tracked(t).hist = 0
      /\ Presentable(t) => Presentable(Tracked(t))
  BY <1>1 DEF Tracked, Trees, Presentable
<1> QED BY <1>1, <1>2, <1>3, <1>4, <1>5 DEF Trees

LEMMA ChannelTyped ==
  ASSUME Typed, NEW w \in Channels
  PROVE  /\ run[w] \in Commands /\ run[w].step \in 0..Len(Script(w))
         /\ Tree(w) \in Trees /\ Base(w) \in Trees
BY ScriptLengths DEF Typed, TypeOK, Commands, Tree, Base

\* The next step of a busy channel, or the end of its command.
LEMMA LaterTyped ==
  ASSUME Typed, NEW w \in Channels, Busy(w)
  PROVE  /\ Later(w) \in Commands /\ Later(w).step \in 0..Len(Script(w))
         /\ run[w].step = Len(Script(w)) => Later(w) = Idle
         /\ run[w].step # Len(Script(w))
            => Later(w) = [run[w] EXCEPT !.step = @ + 1] /\ Later(w) # Idle
BY ChannelTyped, ScriptLengths, FirstTyped DEF Later, Busy, Commands

LEMMA GoesTyped ==
  ASSUME Typed, NEW w \in Channels, NEW r \in Commands, NEW t \in Trees,
         r.step <= Len(Script(w)), Goes(w, r, t)
  PROVE  Typed'
<1>1. [r EXCEPT !.tree = IF w \in OnTree \/ r = Idle THEN @ ELSE t] \in Commands
  BY DEF Commands
<1>2. [r EXCEPT !.tree = IF w \in OnTree \/ r = Idle THEN @ ELSE t].step = r.step
  BY DEF Commands
<1>3. run' \in [Channels -> Commands] /\ \A x \in Channels : run'[x].step <= Len(Script(x))
  BY <1>1, <1>2 DEF Goes, Typed, TypeOK
<1>4. tree' \in Trees
  BY DEF Goes, Typed, TypeOK
<1> QED BY <1>3, <1>4 DEF Goes, Typed, TypeOK, Presentable

LEMMA StepTyped ==
  ASSUME Typed, NEW w \in Channels, Step(w)
  PROVE  Typed'
<1> DEFINE t == Tree(w)
<1>1. Busy(w)
  BY DEF Step, Attest, History, Artifacts, Manifest, Checkout, Mutate, Unmutate, Fake,
         Countersign, Restore, Hash, ReadManifest, Judge, CleanStep, At
<1>2. /\ Later(w) \in Commands /\ Later(w).step <= Len(Script(w))
      /\ Idle \in Commands /\ Idle.step <= Len(Script(w))
  BY <1>1, LaterTyped, FirstTyped, ScriptLengths
<1>3. t \in Trees /\ run[w] \in Commands
  BY ChannelTyped
<1>4. /\ run[w].bak \in Trees /\ run[w].base \in Trees
      /\ t.art \in Art /\ t.man \in Man /\ First.art \in Art /\ First \in Trees
  BY <1>3, FirstTyped DEF Commands, Trees
<1>5. /\ \A b \in Trees : /\ [Later(w) EXCEPT !.bak = b] \in Commands
                          /\ [Later(w) EXCEPT !.bak = b].step <= Len(Script(w))
      /\ \A a \in Art : /\ [Later(w) EXCEPT !.seen = a] \in Commands
                        /\ [Later(w) EXCEPT !.seen = a].step <= Len(Script(w))
      /\ \A m \in Man : /\ [Later(w) EXCEPT !.man = m] \in Commands
                        /\ [Later(w) EXCEPT !.man = m].step <= Len(Script(w))
      /\ \A r \in BOOLEAN : /\ [Later(w) EXCEPT !.red = r] \in Commands
                            /\ [Later(w) EXCEPT !.red = r].step <= Len(Script(w))
  BY <1>2 DEF Commands
<1> HIDE DEF t
<1> USE <1>2, <1>3, <1>4, <1>5, GoesTyped
<1>a. CASE Attest(w)
  BY <1>a DEF Attest, t
<1>b. CASE History(w)
  BY <1>b, Written DEF History, t
<1>c. CASE Artifacts(w)
  BY <1>c, Written DEF Artifacts, t
<1>d. CASE Manifest(w)
  BY <1>d, Written DEF Manifest, t
<1>e. CASE Checkout(w)
  BY <1>e DEF Checkout
<1>f. CASE Mutate(w)
  BY <1>f, Written DEF Mutate, t
<1>g. CASE Unmutate(w)
  BY <1>g, Written DEF Unmutate, t
<1>h. CASE Fake(w)
  BY <1>h, Written DEF Fake, t
<1>i. CASE Countersign(w)
  BY <1>i, Written DEF Countersign, t
<1>j. CASE Restore(w)
  BY <1>j, Written DEF Restore, t
<1>k. CASE Hash(w)
  BY <1>k DEF Hash, t
<1>l. CASE ReadManifest(w)
  BY <1>l DEF ReadManifest, t
<1>m. CASE Judge(w)
  <2>1. Seen(w) \in Art
    BY DEF Seen, Commands
  <2>2. \/ Goes(w, [Later(w) EXCEPT !.seen = Seen(w)], t)
        \/ Goes(w, Idle, t)
    BY <1>m DEF Judge, t
  <2> QED BY <2>1, <2>2
<1>n. CASE CleanStep(w)
  <2>1. (run[w].red \/ ~Clean(w)) \in BOOLEAN
    OBVIOUS
  <2>2. Goes(w, [Later(w) EXCEPT !.red = @ \/ ~Clean(w)], t)
    BY <1>n DEF CleanStep, t
  <2>3. PICK b \in BOOLEAN : Goes(w, [Later(w) EXCEPT !.red = b], t)
    BY <2>2
  <2> QED BY <2>3
<1> QED
  BY <1>a, <1>b, <1>c, <1>d, <1>e, <1>f, <1>g, <1>h, <1>i, <1>j, <1>k, <1>l, <1>m, <1>n
     DEF Step

LEMMA StartTyped ==
  ASSUME Typed, NEW w \in Channels, Start(w)
  PROVE  Typed'
<1> DEFINE r == [Idle EXCEPT !.step = 1, !.base = head, !.tree = IF w \in OnTree THEN @ ELSE head]
<1>1. r \in Commands /\ r.step = 1
  BY FirstTyped DEF Commands, Typed, TypeOK
<1>2. run' = [run EXCEPT ![w] = r]
  BY DEF Start
<1> HIDE DEF r
<1>3. run' \in [Channels -> Commands] /\ \A x \in Channels : run'[x].step <= Len(Script(x))
  BY <1>1, <1>2, ScriptLengths DEF Typed, TypeOK
<1>4. jobs' \in 0..MaxJobs
  BY ConstantsAssumption DEF Start, Typed, TypeOK
<1> QED BY <1>3, <1>4 DEF Start, Typed, TypeOK, Presentable

LEMMA KillTyped ==
  ASSUME Typed, NEW w \in Channels, Kill(w)
  PROVE  Typed'
<1>1. run' \in [Channels -> Commands] /\ \A x \in Channels : run'[x].step <= Len(Script(x))
  BY FirstTyped, ScriptLengths DEF Kill, Typed, TypeOK
<1>2. kills' \in 0..MaxKills
  BY ConstantsAssumption DEF Kill, Typed, TypeOK
<1> QED BY <1>1, <1>2 DEF Kill, Typed, TypeOK, Presentable

LEMMA PeopleTyped ==
  ASSUME Typed, Edit \/ Sign \/ Revert \/ FetchHistory \/ Commit \/ Collect \/ Midnight
  PROVE  Typed'
<1> USE ConstantsAssumption
<1>1. CASE Edit
  <2>1. tree' = [tree EXCEPT !.src = @ + 1] /\ tree.src + 1 \in 0..MaxSrc
    BY <1>1 DEF Edit, Works
  <2>2. tree' \in Trees
    BY <2>1 DEF Typed, TypeOK, Trees
  <2> QED BY <1>1, <2>2 DEF Edit, Works, Typed, TypeOK, Presentable
<1>2. CASE Sign
  BY <1>2, Written DEF Sign, Works, Typed, TypeOK, Presentable
<1>3. CASE Revert
  <2>1. tree' \in Trees
    BY <1>3 DEF Revert, Works, Typed, TypeOK, Trees
  <2> QED BY <1>3, <2>1 DEF Revert, Works, Typed, TypeOK, Presentable
<1>4. CASE FetchHistory
  BY <1>4, Written DEF FetchHistory, Works, Typed, TypeOK, Presentable
<1>5. CASE Commit
  BY <1>5, Written DEF Commit, Typed, TypeOK, Presentable
<1>6. CASE Collect
  BY <1>6 DEF Collect, Typed, TypeOK, Presentable
<1>7. CASE Midnight
  BY <1>7 DEF Midnight, Typed, TypeOK, Presentable
<1> QED BY <1>1, <1>2, <1>3, <1>4, <1>5, <1>6, <1>7

LEMMA TypesStay == Typed /\ [Next]_vars => Typed'
<1> SUFFICES ASSUME Typed, [Next]_vars PROVE Typed'
  OBVIOUS
<1>1. CASE UNCHANGED vars
  BY <1>1 DEF vars, Typed, TypeOK, Presentable
<1>2. CASE Next
  BY <1>2, StartTyped, StepTyped, KillTyped, PeopleTyped DEF Next
<1> QED BY <1>1, <1>2

(* Every tree, checkout and command is well formed, and CI starts from      *)
(* presentable commits, given that nobody commits what is plainly not his.  *)
LEMMA TypeCorrect == Spec => []Typed
<1>1. Init => Typed
  BY FirstTyped, ScriptLengths, ConstantsAssumption DEF Init, Typed, TypeOK
<1> QED BY <1>1, TypesStay, PTL DEF Spec

-----------------------------------------------------------------------------
(* What one step does to the channel that takes it and to the others.       *)

LEMMA LastPlaces ==
  ASSUME NEW w \in Channels
  PROVE  Script(w)[Len(Script(w))] \in {"attest", "consistency"}
<1>1. w = "local" \/ w = "hand" \/ w = "aws" \/ w = "github"
  BY ConstantsAssumption
<1>2. /\ Script("local")[Len(Script("local"))] = "attest"
      /\ Script("aws")[Len(Script("aws"))] = "attest"
      /\ Script("github")[Len(Script("github"))] = "attest"
      /\ Script("hand")[Len(Script("hand"))] = "consistency"
  <2>1. /\ Len(Script("local")) = 24   /\ Script("local")[24] = "attest"
        /\ Len(Script("aws")) = 26     /\ Script("aws")[26] = "attest"
        /\ Len(Script("github")) = 27  /\ Script("github")[27] = "attest"
        /\ Len(Script("hand")) = 3     /\ Script("hand")[3] = "consistency"
    <3>1. Script("local") = Local /\ Script("hand") = Build
      BY ScriptLengths
    <3>2. Script("aws") = Aws /\ Script("github") = GitHub
      BY ScriptLengths
    <3>3. Len(Script("local")) = 24 /\ Script("local")[24] = "attest"
      BY <3>1, LocalScript, Zenon
    <3>4. Len(Script("aws")) = 26 /\ Script("aws")[26] = "attest"
      BY <3>2, AwsScript, Zenon
    <3>5. Len(Script("github")) = 27 /\ Script("github")[27] = "attest"
      BY <3>2, GitHubScript, Zenon
    <3>6. Len(Script("hand")) = 3 /\ Script("hand")[3] = "consistency"
      BY <3>1, HandScript, Zenon
    <3> QED BY <3>3, <3>4, <3>5, <3>6
  <2> QED BY <2>1, Zenon
<1> QED BY <1>1, <1>2, Zenon

\* Channel w is now one step further with record r and tree t.
Moved(w, r, t) ==
  /\ run'[w].step = run[w].step + 1
  /\ run'[w].base = run[w].base
  /\ run'[w].bak = r.bak /\ run'[w].man = r.man
  /\ IF w \in OnTree THEN tree' = t ELSE tree' = tree /\ run'[w].tree = t

LEMMA GoesElsewhere ==
  ASSUME Typed, NEW w \in Channels, NEW r, NEW t, Goes(w, r, t)
  PROVE  /\ \A x \in Channels : x # w => run'[x] = run[x]
         /\ head' = head /\ kills' = kills /\ bucket' = bucket
         /\ w \notin OnTree => tree' = tree
BY DEF Goes, Typed, TypeOK

LEMMA GoesOn ==
  ASSUME Typed, NEW w \in Channels, Busy(w), run[w].step # Len(Script(w)),
         NEW r \in Commands, r.step = run[w].step + 1, r.base = run[w].base,
         NEW t \in Trees, Goes(w, r, t)
  PROVE  Moved(w, r, t)
<1>1. r # Idle
  BY ChannelTyped, FirstTyped, ScriptLengths DEF Commands
<1>2. run'[w] = [r EXCEPT !.tree = IF w \in OnTree THEN @ ELSE t]
  BY <1>1 DEF Goes, Typed, TypeOK
<1>3. tree' = IF w \in OnTree THEN t ELSE tree
  BY DEF Goes
<1> QED BY <1>2, <1>3 DEF Moved, Commands

LEMMA GoesIdle ==
  ASSUME Typed, NEW w \in Channels, Goes(w, Idle, Tree(w))
  PROVE  run'[w].step = 0 /\ tree' = tree
<1>1. run'[w] = [Idle EXCEPT !.tree = @]
  BY DEF Goes, Typed, TypeOK
<1> QED BY <1>1, FirstTyped DEF Goes, Tree, Commands

\* The name of the step that channel w takes.
Name(w) == Script(w)[run[w].step]
Writes == {"history", "artifacts", "manifest", "checkout", "mutate", "unmutate", "fake",
           "countersign", "restore"}

(* A step that judges or attests may end the command; or a step does what   *)
(* its name says.                                                           *)
Effect(w) ==
  \/ run'[w].step = 0 /\ tree' = tree /\ Name(w) \in Judges \cup {"attest"}
  \/ \E r \in Commands, t \in Trees :
       /\ Moved(w, r, t)
       /\ Name(w) \notin Writes => t = Tree(w)
       /\ Name(w) = "history" => t = [Tree(w) EXCEPT !.hist = bucket]
       /\ Name(w) = "artifacts" => t = [Tree(w) EXCEPT !.art = Rendered(Tree(w))]
       /\ Name(w) = "manifest" => t = [Tree(w) EXCEPT !.man = Pins(Tree(w))]
       /\ Name(w) = "checkout" => t = run[w].base
       /\ Name(w) = "mutate" => t = [Tree(w) EXCEPT !.code = "mutant"]
       /\ Name(w) = "unmutate" => t = [Tree(w) EXCEPT !.code = run[w].bak.code]
       /\ Name(w) = "fake" => t = [Tree(w) EXCEPT !.src = Sample, !.hist = Sample]
       /\ Name(w) = "countersign"
            => t = [Tree(w) EXCEPT !.sign = Signoff("harness", Tree(w))]
       /\ Name(w) = "restore"
            => t = [Tree(w) EXCEPT !.src = run[w].bak.src, !.sign = run[w].bak.sign,
                                   !.hist = run[w].bak.hist]
       /\ Name(w) \in {"mutate", "fake"} => r.bak = Tree(w)
       /\ Name(w) \notin {"mutate", "unmutate", "fake", "restore"} => r.bak = run[w].bak
       /\ Name(w) = "read" => r.man = Tree(w).man
       /\ Name(w) # "read" => r.man = run[w].man
       /\ Name(w) \in Judges => Green(w) \/ Tolerated(w)

LEMMA StepEffect ==
  ASSUME Typed, NEW w \in Channels, Step(w)
  PROVE  Busy(w) /\ Effect(w)
<1> DEFINE t == Tree(w)
           n == [run[w] EXCEPT !.step = @ + 1]
<1>1. Busy(w)
  BY DEF Step, Attest, History, Artifacts, Manifest, Checkout, Mutate, Unmutate, Fake,
         Countersign, Restore, Hash, ReadManifest, Judge, CleanStep, At
<1>2. \A m : At(w, m) <=> Name(w) = m
  BY <1>1 DEF At, Name
<1>3. Name(w) \notin {"attest", "consistency"} => run[w].step # Len(Script(w))
  BY LastPlaces DEF Name
<1>4. t \in Trees /\ run[w] \in Commands /\ run[w].bak \in Trees /\ run[w].base \in Trees
  BY ChannelTyped DEF Commands
<1>5. n \in Commands /\ n.step = run[w].step + 1 /\ n.base = run[w].base
      /\ n.bak = run[w].bak /\ n.man = run[w].man
  BY <1>4 DEF Commands
<1>6. run[w].step # Len(Script(w)) => Later(w) = n
  BY <1>1, LaterTyped
<1> HIDE DEF n, t
<1>7. ASSUME NEW b \in Trees
      PROVE  /\ [n EXCEPT !.bak = b] \in Commands
             /\ [n EXCEPT !.bak = b].step = run[w].step + 1
             /\ [n EXCEPT !.bak = b].base = run[w].base
             /\ [n EXCEPT !.bak = b].bak = b /\ [n EXCEPT !.bak = b].man = run[w].man
  BY <1>4, <1>5 DEF Commands
<1>a. CASE Attest(w)
  <2>1. Name(w) = "attest"
    BY <1>a, <1>2 DEF Attest
  <2>2. Goes(w, Later(w), t) \/ Goes(w, Idle, t)
    BY <1>a DEF Attest, t
  <2>3. CASE run[w].step = Len(Script(w)) \/ Goes(w, Idle, t)
    BY <1>1, <2>1, <2>2, <2>3, LaterTyped, GoesIdle DEF Effect, t
  <2>4. CASE run[w].step # Len(Script(w)) /\ Goes(w, Later(w), t)
    <3>1. Moved(w, n, t)
      BY <1>1, <1>4, <1>5, <1>6, <2>4, GoesOn
    <3> QED BY <1>1, <1>4, <1>5, <2>1, <3>1 DEF Effect, Writes, Judges, t
  <2> QED BY <2>2, <2>3, <2>4
<1>8. ASSUME NEW r \in Commands, NEW u \in Trees, Goes(w, r, u), r.base = run[w].base,
             r.step = run[w].step + 1, Name(w) \notin {"attest", "consistency"}
      PROVE  Moved(w, r, u)
  BY <1>1, <1>3, <1>8, GoesOn
<1>b. CASE History(w)
  <2> DEFINE r == n
             u == [t EXCEPT !.hist = bucket]
  <2>1. Name(w) = "history"
    BY <1>b, <1>2 DEF History
  <2>2. r \in Commands /\ r.step = run[w].step + 1 /\ r.base = run[w].base
        /\ r.man = run[w].man
    BY <1>4, <1>5, <1>7, FirstTyped
  <2>3. u \in Trees
    BY <1>4, Written
  <2>4. Goes(w, r, u)
    BY <1>3, <1>6, <1>b, <2>1 DEF History, t
  <2>5. Moved(w, r, u)
    BY <1>8, <2>1, <2>2, <2>3, <2>4
  <2>6. r.bak = run[w].bak
    BY <1>4, <1>5, <1>7
  <2> QED BY <1>1, <2>1, <2>2, <2>3, <2>5, <2>6 DEF Effect, Writes, Judges, t
<1>c. CASE Artifacts(w)
  <2> DEFINE r == n
             u == [t EXCEPT !.art = Rendered(t)]
  <2>1. Name(w) = "artifacts"
    BY <1>c, <1>2 DEF Artifacts
  <2>2. r \in Commands /\ r.step = run[w].step + 1 /\ r.base = run[w].base
        /\ r.man = run[w].man
    BY <1>4, <1>5, <1>7, FirstTyped
  <2>3. u \in Trees
    BY <1>4, Written
  <2>4. Goes(w, r, u)
    BY <1>3, <1>6, <1>c, <2>1 DEF Artifacts, t
  <2>5. Moved(w, r, u)
    BY <1>8, <2>1, <2>2, <2>3, <2>4
  <2>6. r.bak = run[w].bak
    BY <1>4, <1>5, <1>7
  <2> QED BY <1>1, <2>1, <2>2, <2>3, <2>5, <2>6 DEF Effect, Writes, Judges, t
<1>d. CASE Manifest(w)
  <2> DEFINE r == n
             u == [t EXCEPT !.man = Pins(t)]
  <2>1. Name(w) = "manifest"
    BY <1>d, <1>2 DEF Manifest
  <2>2. r \in Commands /\ r.step = run[w].step + 1 /\ r.base = run[w].base
        /\ r.man = run[w].man
    BY <1>4, <1>5, <1>7, FirstTyped
  <2>3. u \in Trees
    BY <1>4, Written
  <2>4. Goes(w, r, u)
    BY <1>3, <1>6, <1>d, <2>1 DEF Manifest, t
  <2>5. Moved(w, r, u)
    BY <1>8, <2>1, <2>2, <2>3, <2>4
  <2>6. r.bak = run[w].bak
    BY <1>4, <1>5, <1>7
  <2> QED BY <1>1, <2>1, <2>2, <2>3, <2>5, <2>6 DEF Effect, Writes, Judges, t
<1>e. CASE Checkout(w)
  <2> DEFINE r == n
             u == run[w].base
  <2>1. Name(w) = "checkout"
    BY <1>e, <1>2 DEF Checkout
  <2>2. r \in Commands /\ r.step = run[w].step + 1 /\ r.base = run[w].base
        /\ r.man = run[w].man
    BY <1>4, <1>5, <1>7, FirstTyped
  <2>3. u \in Trees
    BY <1>4, Written
  <2>4. Goes(w, r, u)
    BY <1>3, <1>6, <1>e, <2>1 DEF Checkout, t
  <2>5. Moved(w, r, u)
    BY <1>8, <2>1, <2>2, <2>3, <2>4
  <2>6. r.bak = run[w].bak
    BY <1>4, <1>5, <1>7
  <2> QED BY <1>1, <2>1, <2>2, <2>3, <2>5, <2>6 DEF Effect, Writes, Judges, t
<1>f. CASE Mutate(w)
  <2> DEFINE r == [n EXCEPT !.bak = t]
             u == [t EXCEPT !.code = "mutant"]
  <2>1. Name(w) = "mutate"
    BY <1>f, <1>2 DEF Mutate
  <2>2. r \in Commands /\ r.step = run[w].step + 1 /\ r.base = run[w].base
        /\ r.man = run[w].man
    BY <1>4, <1>5, <1>7, FirstTyped
  <2>3. u \in Trees
    BY <1>4, Written
  <2>4. Goes(w, r, u)
    BY <1>3, <1>6, <1>f, <2>1 DEF Mutate, t
  <2>5. Moved(w, r, u)
    BY <1>8, <2>1, <2>2, <2>3, <2>4
  <2>6. r.bak = t
    BY <1>4, <1>5, <1>7
  <2> QED BY <1>1, <2>1, <2>2, <2>3, <2>5, <2>6 DEF Effect, Writes, Judges, t
<1>g. CASE Unmutate(w)
  <2> DEFINE r == [n EXCEPT !.bak = First]
             u == [t EXCEPT !.code = run[w].bak.code]
  <2>1. Name(w) = "unmutate"
    BY <1>g, <1>2 DEF Unmutate
  <2>2. r \in Commands /\ r.step = run[w].step + 1 /\ r.base = run[w].base
        /\ r.man = run[w].man
    BY <1>4, <1>5, <1>7, FirstTyped
  <2>3. u \in Trees
    BY <1>4, Written
  <2>4. Goes(w, r, u)
    BY <1>3, <1>6, <1>g, <2>1 DEF Unmutate, t
  <2>5. Moved(w, r, u)
    BY <1>8, <2>1, <2>2, <2>3, <2>4
  <2> QED BY <1>1, <2>1, <2>2, <2>3, <2>5 DEF Effect, Writes, Judges, t
<1>h. CASE Fake(w)
  <2> DEFINE r == [n EXCEPT !.bak = t]
             u == [t EXCEPT !.src = Sample, !.hist = Sample]
  <2>1. Name(w) = "fake"
    BY <1>h, <1>2 DEF Fake
  <2>2. r \in Commands /\ r.step = run[w].step + 1 /\ r.base = run[w].base
        /\ r.man = run[w].man
    BY <1>4, <1>5, <1>7, FirstTyped
  <2>3. u \in Trees
    BY <1>4, Written
  <2>4. Goes(w, r, u)
    BY <1>3, <1>6, <1>h, <2>1 DEF Fake, t
  <2>5. Moved(w, r, u)
    BY <1>8, <2>1, <2>2, <2>3, <2>4
  <2>6. r.bak = t
    BY <1>4, <1>5, <1>7
  <2> QED BY <1>1, <2>1, <2>2, <2>3, <2>5, <2>6 DEF Effect, Writes, Judges, t
<1>i. CASE Countersign(w)
  <2> DEFINE r == n
             u == [t EXCEPT !.sign = Signoff("harness", t)]
  <2>1. Name(w) = "countersign"
    BY <1>i, <1>2 DEF Countersign
  <2>2. r \in Commands /\ r.step = run[w].step + 1 /\ r.base = run[w].base
        /\ r.man = run[w].man
    BY <1>4, <1>5, <1>7, FirstTyped
  <2>3. u \in Trees
    BY <1>4, Written
  <2>4. Goes(w, r, u)
    BY <1>3, <1>6, <1>i, <2>1 DEF Countersign, t
  <2>5. Moved(w, r, u)
    BY <1>8, <2>1, <2>2, <2>3, <2>4
  <2>6. r.bak = run[w].bak
    BY <1>4, <1>5, <1>7
  <2> QED BY <1>1, <2>1, <2>2, <2>3, <2>5, <2>6 DEF Effect, Writes, Judges, t
<1>j. CASE Restore(w)
  <2> DEFINE r == [n EXCEPT !.bak = First]
             u == [t EXCEPT !.src = run[w].bak.src, !.sign = run[w].bak.sign,
                            !.hist = run[w].bak.hist]
  <2>1. Name(w) = "restore"
    BY <1>j, <1>2 DEF Restore
  <2>2. r \in Commands /\ r.step = run[w].step + 1 /\ r.base = run[w].base
        /\ r.man = run[w].man
    BY <1>4, <1>5, <1>7, FirstTyped
  <2>3. u \in Trees
    BY <1>4, Written
  <2>4. Goes(w, r, u)
    BY <1>3, <1>6, <1>j, <2>1 DEF Restore, t
  <2>5. Moved(w, r, u)
    BY <1>8, <2>1, <2>2, <2>3, <2>4
  <2> QED BY <1>1, <2>1, <2>2, <2>3, <2>5 DEF Effect, Writes, Judges, t
<1>k. CASE Hash(w)
  <2> DEFINE r == [n EXCEPT !.seen = t.art]
  <2>1. Name(w) = "hash"
    BY <1>k, <1>2 DEF Hash
  <2>2. /\ r \in Commands /\ r.step = run[w].step + 1 /\ r.base = run[w].base
        /\ r.man = run[w].man /\ r.bak = run[w].bak
    BY <1>4, <1>5 DEF Commands, Trees
  <2>3. Moved(w, r, t)
    BY <1>3, <1>4, <1>6, <1>8, <1>k, <2>1, <2>2 DEF Hash, t
  <2> QED BY <1>1, <1>4, <2>1, <2>2, <2>3 DEF Effect, Writes, Judges, t
<1>l. CASE ReadManifest(w)
  <2> DEFINE r == [n EXCEPT !.man = t.man]
  <2>1. Name(w) = "read"
    BY <1>l, <1>2 DEF ReadManifest
  <2>2. /\ r \in Commands /\ r.step = run[w].step + 1 /\ r.base = run[w].base
        /\ r.man = t.man /\ r.bak = run[w].bak
    BY <1>4, <1>5 DEF Commands, Trees
  <2>3. Moved(w, r, t)
    BY <1>3, <1>4, <1>6, <1>8, <1>l, <2>1, <2>2 DEF ReadManifest, t
  <2> QED BY <1>1, <1>4, <2>1, <2>2, <2>3 DEF Effect, Writes, Judges, t
<1>m. CASE Judge(w)
  <2> DEFINE r == [n EXCEPT !.seen = Seen(w)]
  <2>1. Name(w) \in Judges
    BY <1>m DEF Judge, Name
  <2>2. \/ (Green(w) \/ Tolerated(w)) /\ Goes(w, [Later(w) EXCEPT !.seen = Seen(w)], t)
        \/ Goes(w, Idle, t)
    BY <1>m DEF Judge, t
  <2>3. CASE Goes(w, Idle, t)
    BY <1>1, <2>1, <2>3, GoesIdle DEF Effect, t
  <2>4. CASE /\ run[w].step = Len(Script(w))
             /\ Goes(w, [Later(w) EXCEPT !.seen = Seen(w)], t)
    <3>1. Name(w) # "compare"
      BY <2>4, LastPlaces DEF Name
    <3>2. Later(w) = Idle /\ Goes(w, [Idle EXCEPT !.seen = Seen(w)], t)
      BY <1>1, <2>4, LaterTyped
    <3>3. [Idle EXCEPT !.seen = Seen(w)].step = 0
      BY FirstTyped DEF Commands
    <3>4. run'[w].step = 0
      BY <3>2, <3>3, FirstTyped DEF Goes, Typed, TypeOK, Commands
    <3>5. tree' = tree
      BY <3>2 DEF Goes, Tree, t
    <3> QED BY <1>1, <2>1, <3>4, <3>5 DEF Effect
  <2>5. CASE /\ run[w].step # Len(Script(w))
             /\ Green(w) \/ Tolerated(w)
             /\ Goes(w, [Later(w) EXCEPT !.seen = Seen(w)], t)
    <3>1. Seen(w) \in Art
      BY <1>4, FirstTyped DEF Seen, Commands, Trees
    <3>2. /\ r \in Commands /\ r.step = run[w].step + 1 /\ r.base = run[w].base
          /\ r.man = run[w].man /\ r.bak = run[w].bak
      BY <1>4, <1>5, <3>1 DEF Commands
    <3>3. Moved(w, r, t)
      BY <1>1, <1>4, <1>6, <2>5, <3>2, GoesOn
    <3> QED BY <1>1, <1>4, <2>1, <2>5, <3>2, <3>3 DEF Effect, Writes, Judges, t
  <2> QED BY <2>2, <2>3, <2>4, <2>5
<1>n. CASE CleanStep(w)
  <2>1. Name(w) = "clean"
    BY <1>n, <1>2 DEF CleanStep
  <2>2. Goes(w, [n EXCEPT !.red = @ \/ ~Clean(w)], t)
    BY <1>3, <1>6, <1>n, <2>1 DEF CleanStep, t
  <2>3. PICK b \in BOOLEAN : Goes(w, [n EXCEPT !.red = b], t)
    BY <2>2
  <2> DEFINE r == [n EXCEPT !.red = b]
  <2>4. /\ r \in Commands /\ r.step = run[w].step + 1 /\ r.base = run[w].base
        /\ r.man = run[w].man /\ r.bak = run[w].bak
    BY <1>4, <1>5 DEF Commands
  <2>5. Moved(w, r, t)
    BY <1>4, <1>8, <2>1, <2>3, <2>4
  <2> QED BY <1>1, <1>4, <2>1, <2>4, <2>5 DEF Effect, Writes, Judges, t
<1> QED
  BY <1>a, <1>b, <1>c, <1>d, <1>e, <1>f, <1>g, <1>h, <1>i, <1>j, <1>k, <1>l, <1>m, <1>n
     DEF Step

LEMMA StepReleases ==
  ASSUME Typed, NEW w \in Channels, Step(w)
  PROVE  \/ released' = released
         \/ Name(w) = "attest" /\ Clean(w) /\ released' = {Release(w)}
BY DEF Step, Attest, At, Name

(* What all other steps leave to a channel.                                *)
LEMMA OthersElsewhere ==
  ASSUME Typed, [Next]_vars
  PROVE  /\ \A w \in Channels : run'[w] = run[w] \/ Start(w) \/ Step(w) \/ Kill(w)
         /\ \/ released' = released
            \/ \E w \in Channels : Step(w)
<1>1. CASE UNCHANGED vars
  BY <1>1 DEF vars
<1>2. ASSUME NEW w \in Channels, Start(w) \/ Step(w) \/ Kill(w)
      PROVE  /\ \A x \in Channels : x # w => run'[x] = run[x]
             /\ released' = released \/ Step(w)
  <2>1. CASE Start(w)
    BY <2>1 DEF Start, Typed, TypeOK
  <2>2. CASE Kill(w)
    BY <2>2 DEF Kill, Typed, TypeOK
  <2>3. CASE Step(w)
    <3>1. \E r, t : Goes(w, r, t)
      BY <2>3 DEF Step, Attest, History, Artifacts, Manifest, Checkout, Mutate, Unmutate, Fake,
                  Countersign, Restore, Hash, ReadManifest, Judge, CleanStep
    <3> QED BY <2>3, <3>1, GoesElsewhere
  <2> QED BY <1>2, <2>1, <2>2, <2>3
<1>3. CASE Edit \/ Sign \/ Revert \/ FetchHistory \/ Commit \/ Collect \/ Midnight
  BY <1>3 DEF Edit, Sign, Revert, FetchHistory, Commit, Collect, Midnight, Works
<1> QED BY <1>1, <1>2, <1>3 DEF Next

-----------------------------------------------------------------------------
(* The two channels of CI work on checkouts of their own.  Both build, and  *)
(* compare with the commit; from then on the commit itself is known to be a *)
(* build of its own sources, whatever becomes of the checkout.              *)

DiffAt(w) == IF w = "aws" THEN 5 ELSE 4
ValidateAt(w) == IF w = "aws" THEN 6 ELSE 10
ReadAt(w) == IF w = "aws" THEN 25 ELSE 26

LEMMA CIPlaces ==
  ASSUME NEW w \in Channels \cap CI, NEW i \in 1..Len(Script(w))
  PROVE  /\ i = DiffAt(w) - 3 => Script(w)[i] = "artifacts"
         /\ i = DiffAt(w) - 2 => Script(w)[i] = "manifest"
         /\ i = DiffAt(w) - 1 => Script(w)[i] = "consistency"
         /\ i = DiffAt(w) => Script(w)[i] = "diff"
         /\ i = ValidateAt(w) => Script(w)[i] = "validate"
         /\ i <= ValidateAt(w) => Script(w)[i] \notin {"checkout", "mutate", "unmutate", "fake",
                                                     "countersign", "restore"}
         /\ i = 24 /\ w = "aws" => Script(w)[i] = "preflight"
         /\ i = ReadAt(w) => Script(w)[i] = "read"
         /\ Script(w)[i] = "attest" => i = ReadAt(w) + 1
         /\ DiffAt(w) \in 4..5 /\ ValidateAt(w) \in 6..10 /\ ReadAt(w) \in 25..26
<1>1. CASE w = "aws"
  <2>1. Script(w) = Aws
    BY <1>1, ScriptLengths
  <2>2. i \in 1..26
    BY <2>1, AwsScript
  <2>3. i <= 6 => Aws[i] \notin {"checkout", "mutate", "unmutate", "fake", "countersign",
                              "restore"}
    <3>1. i <= 6 => \/ i = 1 \/ i = 2 \/ i = 3 \/ i = 4 \/ i = 5 \/ i = 6
      BY <2>2
    <3> QED BY <3>1, AwsScript
  <2>4. Aws[i] = "attest" => i = 26
    <3>1. \/ i = 1 \/ i = 2 \/ i = 3 \/ i = 4 \/ i = 5 \/ i = 6 \/ i = 7 \/ i = 8 \/ i = 9 \/ i = 10
          \/ i = 11 \/ i = 12 \/ i = 13 \/ i = 14 \/ i = 15 \/ i = 16 \/ i = 17 \/ i = 18 \/ i = 19
          \/ i = 20 \/ i = 21 \/ i = 22 \/ i = 23 \/ i = 24 \/ i = 25
          \/ i = 26
      BY <2>2
    <3> QED BY <3>1, AwsScript
  <2>5. /\ DiffAt(w) = 5 /\ ValidateAt(w) = 6 /\ ReadAt(w) = 25
    BY <1>1 DEF DiffAt, ValidateAt, ReadAt
  <2>6. /\ i = 5 - 3 => Aws[i] = "artifacts"
        /\ i = 5 - 2 => Aws[i] = "manifest"
        /\ i = 5 - 1 => Aws[i] = "consistency"
        /\ i = 5 => Aws[i] = "diff"
        /\ i = 6 => Aws[i] = "validate"
        /\ i = 25 => Aws[i] = "read"
    BY AwsScript
  <2>7. i = 24 /\ w = "aws" => Aws[i] = "preflight"
    BY <1>1, AwsScript
  <2> QED BY <2>1, <2>2, <2>3, <2>4, <2>5, <2>6, <2>7
<1>2. CASE w = "github"
  <2>1. Script(w) = GitHub
    BY <1>2, ScriptLengths
  <2>2. i \in 1..27
    BY <2>1, GitHubScript
  <2>3. i <= 10 => GitHub[i] \notin {"checkout", "mutate", "unmutate", "fake", "countersign",
                              "restore"}
    <3>1. i <= 10 => \/ i = 1 \/ i = 2 \/ i = 3 \/ i = 4 \/ i = 5 \/ i = 6 \/ i = 7 \/ i = 8 \/ i = 9 \/ i = 10
      BY <2>2
    <3> QED BY <3>1, GitHubScript
  <2>4. GitHub[i] = "attest" => i = 27
    <3>1. \/ i = 1 \/ i = 2 \/ i = 3 \/ i = 4 \/ i = 5 \/ i = 6 \/ i = 7 \/ i = 8 \/ i = 9 \/ i = 10
          \/ i = 11 \/ i = 12 \/ i = 13 \/ i = 14 \/ i = 15 \/ i = 16 \/ i = 17 \/ i = 18 \/ i = 19
          \/ i = 20 \/ i = 21 \/ i = 22 \/ i = 23 \/ i = 24 \/ i = 25 \/ i = 26
          \/ i = 27
      BY <2>2
    <3> QED BY <3>1, GitHubScript
  <2>5. /\ DiffAt(w) = 4 /\ ValidateAt(w) = 10 /\ ReadAt(w) = 26
    BY <1>2 DEF DiffAt, ValidateAt, ReadAt
  <2>6. /\ i = 4 - 3 => GitHub[i] = "artifacts"
        /\ i = 4 - 2 => GitHub[i] = "manifest"
        /\ i = 4 - 1 => GitHub[i] = "consistency"
        /\ i = 4 => GitHub[i] = "diff"
        /\ i = 10 => GitHub[i] = "validate"
        /\ i = 26 => GitHub[i] = "read"
    BY GitHubScript
  <2>7. i = 24 /\ w = "aws" => GitHub[i] = "preflight"
    BY <1>2, GitHubScript
  <2> QED BY <2>1, <2>2, <2>3, <2>4, <2>5, <2>6, <2>7
<1> QED BY <1>1, <1>2 DEF CI

LEMMA ReleaseEnds ==
  ASSUME NEW w \in Channels \cap CI, NEW i \in 1..Len(Script(w)), i > ReadAt(w)
  PROVE  Script(w)[i] = "attest"
<1>1. CASE w = "aws"
  <2>1. Script(w) = Aws /\ ReadAt(w) = 25
    BY <1>1, ScriptLengths DEF ReadAt
  <2>2. i = 26
    BY <2>1, AwsScript
  <2> QED BY <2>1, <2>2, AwsScript
<1>2. CASE w = "github"
  <2>1. Script(w) = GitHub /\ ReadAt(w) = 26
    BY <1>2, ScriptLengths DEF ReadAt
  <2>2. i = 27
    BY <2>1, GitHubScript
  <2> QED BY <2>1, <2>2, GitHubScript
<1> QED BY <1>1, <1>2 DEF CI

\* A commit that is a build of its own sources, and shows no fiction.
WellBuilt(b) ==
  /\ b.man.art = b.art /\ b.man.src = b.src
  /\ b.art.src = b.src /\ b.art.code = "ok"
  /\ Sample \notin {b.art.hist, b.man.hist}

CIRun(w) ==
  LET s == run[w].step
      t == run[w].tree
      b == run[w].base
  IN  Busy(w) =>
      /\ Presentable(b) /\ b.hist = 0
      /\ s <= ValidateAt(w) => t.src = b.src /\ t.code = b.code /\ t.hist # Sample
      /\ s \in (DiffAt(w) - 2)..DiffAt(w)
         => t.art.src = t.src /\ t.art.code = t.code /\ t.art.hist # Sample
      /\ s = DiffAt(w) => Consistent(t)
      /\ s > DiffAt(w) => WellBuilt(b)
      /\ s > ValidateAt(w) /\ (ErrExit \/ w # "aws") => b.src \notin Broken
      /\ s > 24 /\ w = "aws" => t.sign.by # "nobody" /\ t.sign.man = t.man
      /\ s > ReadAt(w) => run[w].man = t.man

CIReleases ==
  \A r \in ReleasedBy(CI) :
    /\ Faithful(r) /\ (r.via = "aws" => Signed(r))
    /\ Sample \notin {r.art.hist, r.man.hist}
    /\ ErrExit \/ r.via # "aws" => r.commit.src \notin Broken

CIInv ==
  /\ \A w \in Channels \cap CI : CIRun(w)
  /\ CIReleases

\* Equal as git sees it.
LEMMA CleanFields ==
  ASSUME NEW t \in Trees, NEW b \in Trees, Tracked(t) = Tracked(b)
  PROVE  /\ t.src = b.src /\ t.code = b.code /\ t.art = b.art /\ t.man = b.man
         /\ t.sign = b.sign
BY DEF Tracked, Trees

LEMMA CIStarts ==
  ASSUME Typed, NEW w \in Channels \cap CI, Start(w)
  PROVE  CIRun(w)'
<1>1. w \notin OnTree /\ Sample # 0
  BY ConstantsAssumption DEF CI, OnTree
<1>2. /\ run'[w].step = 1 /\ run'[w].tree = head /\ run'[w].base = head
  BY <1>1, FirstTyped DEF Start, Typed, TypeOK, Commands
<1>3. 1 \in 1..Len(Script(w)) /\ DiffAt(w) \in 4..5 /\ ValidateAt(w) \in 6..10
      /\ ReadAt(w) \in 25..26
  BY ScriptLengths, CIPlaces
<1> QED BY <1>1, <1>2, <1>3 DEF CIRun, Typed, TypeOK, Presentable

LEMMA CISteps ==
  ASSUME Typed, NEW w \in Channels \cap CI, Step(w), CIRun(w)
  PROVE  CIRun(w)'
<1> DEFINE s == run[w].step
           b == run[w].base
<1>1. Busy(w) /\ Effect(w)
  BY StepEffect
<1>2. s \in 1..Len(Script(w)) /\ run[w].tree \in Trees /\ b \in Trees
  BY <1>1, ChannelTyped DEF Busy, Commands
<1>3. Tree(w) = run[w].tree /\ Base(w) = b /\ w \notin OnTree
  BY DEF Tree, Base, CI, OnTree
<1>4. CASE run'[w].step = 0
  BY <1>4 DEF CIRun, Busy
<1>5. CASE run'[w].step # 0
  <2>1. PICK r \in Commands, t \in Trees :
          /\ Moved(w, r, t)
          /\ Name(w) \notin Writes => t = Tree(w)
          /\ Name(w) = "history" => t = [Tree(w) EXCEPT !.hist = bucket]
          /\ Name(w) = "artifacts" => t = [Tree(w) EXCEPT !.art = Rendered(Tree(w))]
          /\ Name(w) = "manifest" => t = [Tree(w) EXCEPT !.man = Pins(Tree(w))]
          /\ Name(w) = "read" => r.man = Tree(w).man
          /\ Name(w) # "read" => r.man = run[w].man
          /\ Name(w) \in Judges => Green(w) \/ Tolerated(w)
    BY <1>1, <1>5 DEF Effect
  <2>2. /\ run'[w].step = s + 1 /\ run'[w].base = b /\ run'[w].tree = t
        /\ run'[w].man = r.man
    BY <1>3, <2>1 DEF Moved
  <2>3. /\ DiffAt(w) \in 4..5 /\ ValidateAt(w) \in 6..10 /\ ReadAt(w) \in 25..26
    BY <1>2, CIPlaces
  <2>4. bucket # Sample /\ Sample # 0
    BY ConstantsAssumption DEF Typed, TypeOK
  <2>5. s <= ValidateAt(w) => Name(w) \notin {"checkout", "mutate", "unmutate", "fake",
                                           "countersign", "restore"}
    BY <1>2, CIPlaces DEF Name
  <2>a. Presentable(b) /\ b.hist = 0
    BY <1>1 DEF CIRun
  <2>b. s < ValidateAt(w) => t.src = b.src /\ t.code = b.code /\ t.hist # Sample
    <3> SUFFICES ASSUME s < ValidateAt(w)
                 PROVE  t.src = b.src /\ t.code = b.code /\ t.hist # Sample
      OBVIOUS
    <3>1. Tree(w).src = b.src /\ Tree(w).code = b.code /\ Tree(w).hist # Sample
      BY <1>1, <1>2, <1>3, <2>3 DEF CIRun
    <3>2. \/ t = Tree(w)
          \/ t = [Tree(w) EXCEPT !.hist = bucket]
          \/ t = [Tree(w) EXCEPT !.art = Rendered(Tree(w))]
          \/ t = [Tree(w) EXCEPT !.man = Pins(Tree(w))]
      BY <1>2, <2>1, <2>3, <2>5 DEF Writes
    <3> QED BY <1>2, <1>3, <2>4, <3>1, <3>2 DEF Trees
  <2>c. s + 1 \in (DiffAt(w) - 2)..DiffAt(w)
        => t.art.src = t.src /\ t.art.code = t.code /\ t.art.hist # Sample
    <3>1. CASE s = DiffAt(w) - 3
      <4>1. t = [Tree(w) EXCEPT !.art = Rendered(Tree(w))] /\ Tree(w).hist # Sample
        BY <1>1, <1>2, <1>3, <2>1, <2>3, <3>1, CIPlaces DEF CIRun, Name
      <4> QED BY <1>2, <1>3, <4>1 DEF Trees, Rendered
    <3>2. CASE s = DiffAt(w) - 2 \/ s = DiffAt(w) - 1
      <4>1. /\ Tree(w).art.src = Tree(w).src /\ Tree(w).art.code = Tree(w).code
            /\ Tree(w).art.hist # Sample
        BY <1>1, <1>2, <1>3, <2>3, <3>2 DEF CIRun
      <4>2. t = Tree(w) \/ t = [Tree(w) EXCEPT !.man = Pins(Tree(w))]
        BY <1>2, <2>1, <2>3, <3>2, CIPlaces DEF Name, Writes
      <4> QED BY <1>2, <1>3, <4>1, <4>2 DEF Trees
    <3> QED BY <1>2, <2>3, <3>1, <3>2
  <2>d. s + 1 = DiffAt(w) => Consistent(t)
    <3> SUFFICES ASSUME s + 1 = DiffAt(w) PROVE Consistent(t)
      OBVIOUS
    <3>1. Name(w) = "consistency"
      BY <1>2, <2>3, CIPlaces DEF Name
    <3> QED BY <1>1, <2>1, <3>1 DEF Green, At, Name, Writes, Judges, Tolerated
  <2>e. s = DiffAt(w) => WellBuilt(b)
    <3> SUFFICES ASSUME s = DiffAt(w) PROVE WellBuilt(b)
      OBVIOUS
    <3>1. Name(w) = "diff"
      BY <1>2, <2>3, CIPlaces DEF Name
    <3>2. Tracked(Tree(w)) = Tracked(b)
      BY <1>1, <1>3, <2>1, <3>1 DEF Green, At, Name, Judges, Tolerated, Clean
    <3>3. /\ Tree(w).art = b.art /\ Tree(w).man = b.man /\ Tree(w).src = b.src
          /\ Tree(w).code = b.code
      BY <1>2, <1>3, <3>2, CleanFields
    <3>4. /\ Tree(w).hist # Sample /\ Consistent(Tree(w))
          /\ Tree(w).art.src = Tree(w).src /\ Tree(w).art.code = Tree(w).code
          /\ Tree(w).art.hist # Sample
      BY <1>1, <1>2, <1>3, <2>3 DEF CIRun
    <3> QED BY <2>4, <2>a, <3>3, <3>4 DEF WellBuilt, Consistent, Presentable
  <2>f. s = ValidateAt(w) /\ (ErrExit \/ w # "aws") => b.src \notin Broken
    <3> SUFFICES ASSUME s = ValidateAt(w), ErrExit \/ w # "aws" PROVE b.src \notin Broken
      OBVIOUS
    <3>1. Name(w) = "validate"
      BY <1>2, <2>3, CIPlaces DEF Name
    <3>2. Validates(Tree(w))
      BY <1>1, <2>1, <3>1 DEF Green, At, Name, Judges, Tolerated
    <3> QED BY <1>1, <1>3, <2>3, <3>2 DEF CIRun, Validates
  <2>g. s >= 24 /\ w = "aws" => t.sign.by # "nobody" /\ t.sign.man = t.man
    <3> SUFFICES ASSUME s >= 24, w = "aws"
                 PROVE  t.sign.by # "nobody" /\ t.sign.man = t.man
      OBVIOUS
    <3>0. s >= 24
      OBVIOUS
    <3>1. Script(w) = Aws /\ (s = 24 \/ s = 25 \/ s = 26)
      <4>1. Script(w) = Aws
        BY ScriptLengths
      <4>2. Len(Script(w)) = 26
        BY <4>1, AwsScript, Zenon
      <4>3. s \in 1..Len(Script(w))
        BY <1>2, Zenon
      <4>4. s \in 1..26
        BY <4>2, <4>3, Zenon
      <4>5. \A k \in 1..26 : k >= 24 => k = 24 \/ k = 25 \/ k = 26
        OBVIOUS
      <4>6. s = 24 \/ s = 25 \/ s = 26
        BY <3>0, <4>4, <4>5, Zenon
      <4> QED BY <4>1, <4>6
    <3>2. Name(w) \notin Writes
      BY <3>1, AwsScript DEF Name, Writes
    <3>3. CASE s = 24
      <4>1. Name(w) = "preflight"
        BY <3>1, <3>3, AwsScript DEF Name
      <4> QED BY <1>1, <2>1, <3>2, <4>1 DEF Green, At, Name, Judges, Tolerated, Ready
    <3>4. CASE s > 24
      BY <1>1, <1>3, <2>1, <3>2, <3>4 DEF CIRun
    <3> QED BY <3>1, <3>3, <3>4
  <2>h. s >= ReadAt(w) => r.man = t.man
    <3> SUFFICES ASSUME s >= ReadAt(w) PROVE r.man = t.man
      OBVIOUS
    <3>1. CASE s = ReadAt(w)
      BY <1>2, <2>1, <2>3, <3>1, CIPlaces DEF Name, Writes
    <3>2. CASE s > ReadAt(w)
      <4>1. Name(w) = "attest"
        BY <1>2, <2>3, <3>2, ReleaseEnds DEF Name
      <4> QED BY <1>1, <1>3, <2>1, <3>2, <4>1 DEF CIRun, Writes
    <3> QED BY <1>2, <2>3, <3>1, <3>2
  <2> HIDE DEF s, b
  <2> QED
    BY SMTT(30), <1>1, <1>2, <2>2, <2>3, <2>a, <2>b, <2>c, <2>d, <2>e, <2>f, <2>g, <2>h
    DEF CIRun, s, b
<1> QED BY <1>4, <1>5

LEMMA CIStays ==
  ASSUME NEW w \in Channels \cap CI, CIRun(w), run'[w] = run[w]
  PROVE  CIRun(w)'
BY DEF CIRun, Busy, Consistent, WellBuilt, Presentable

LEMMA CIReleasesStep ==
  ASSUME Typed, CIInv, NEW w \in Channels, Step(w)
  PROVE  CIReleases'
<1>1. CASE released' = released
  BY <1>1 DEF CIInv, CIReleases, ReleasedBy, Faithful, Signed
<1>2. CASE Name(w) = "attest" /\ Clean(w) /\ released' = {Release(w)}
  <2> DEFINE r == Release(w)
             s == run[w].step
             t == run[w].tree
             b == run[w].base
  <2>1. r.via = w
    BY DEF Release
  <2>2. CASE w \in CI
    <3>1. Tree(w) = t /\ Base(w) = b /\ t \in Trees /\ b \in Trees
      BY <2>2, ChannelTyped DEF Tree, Base, CI, OnTree, Commands
    <3>2. Busy(w) /\ s \in 1..Len(Script(w))
      BY StepEffect, ChannelTyped DEF Busy
    <3>3. /\ s = ReadAt(w) + 1 /\ DiffAt(w) \in 4..5 /\ ValidateAt(w) \in 6..10
          /\ ReadAt(w) \in 25..26
      BY <1>2, <2>2, <3>2, CIPlaces DEF Name
    <3>4. /\ t.src = b.src /\ t.code = b.code /\ t.art = b.art /\ t.man = b.man
          /\ t.sign = b.sign
      BY <1>2, <3>1, CleanFields DEF Clean
    <3>5. /\ Presentable(b) /\ WellBuilt(b) /\ run[w].man = t.man
          /\ ErrExit \/ w # "aws" => b.src \notin Broken
          /\ w = "aws" => t.sign.by # "nobody" /\ t.sign.man = t.man
      BY <2>2, <3>2, <3>3 DEF CIInv, CIRun
    <3>6. /\ r.man = b.man /\ r.art = b.art /\ r.sign = b.sign /\ r.commit = b
      BY <3>1, <3>4, <3>5 DEF Release
    <3>7. Faithful(r) /\ Sample \notin {r.art.hist, r.man.hist}
      BY <3>5, <3>6 DEF Faithful, WellBuilt
    <3>8. w = "aws" => Signed(r)
      <4>1. w = "aws" => b.sign.by = "provider" /\ b.sign.man = b.man
        BY <3>1, <3>4, <3>5 DEF Presentable, Trees, Signs
      <4>2. b.sign \in Signs
        BY <3>1 DEF Trees
      <4> QED BY <3>6, <4>1, <4>2 DEF Signed, Signs
    <3> QED BY <1>2, <2>1, <3>5, <3>6, <3>7, <3>8 DEF CIReleases, ReleasedBy
  <2>3. CASE w \notin CI
    BY <1>2, <2>1, <2>3 DEF CIReleases, ReleasedBy
  <2> QED BY <2>2, <2>3
<1> QED BY <1>1, <1>2, StepReleases

LEMMA CIInvariant == Spec => []CIInv
<1>1. Init => CIInv
  BY FirstTyped DEF Init, CIInv, CIRun, CIReleases, ReleasedBy, Busy
<1>2. Typed /\ CIInv /\ [Next]_vars => CIInv'
  <2> SUFFICES ASSUME Typed, CIInv, [Next]_vars PROVE CIInv'
    OBVIOUS
  <2>1. ASSUME NEW w \in Channels \cap CI PROVE CIRun(w)'
    <3>1. w \notin OnTree /\ CIRun(w)
      BY DEF CI, OnTree, CIInv
    <3>2. ~Kill(w)
      BY <3>1 DEF Kill
    <3> QED BY <3>1, <3>2, OthersElsewhere, CIStarts, CISteps, CIStays
  <2>2. CIReleases'
    <3>1. CASE released' = released
      BY <3>1 DEF CIInv, CIReleases, ReleasedBy, Faithful, Signed
    <3> QED BY <3>1, OthersElsewhere, CIReleasesStep
  <2> QED BY <2>1, <2>2 DEF CIInv
<1> QED BY <1>1, <1>2, TypeCorrect, PTL DEF Spec

(* What AWS and GitHub publish is committed and built from the committed   *)
(* sources, and from AWS also signed: the diff of the first build with the *)
(* commit vouches for the commit, the last look at git for the bundle.     *)
THEOREM CIPublishesTheCommit == Spec => []CIReleasesAreFaithful
<1>1. CIInv => CIReleasesAreFaithful
  BY DEF CIInv, CIReleases, CIReleasesAreFaithful
<1> QED BY <1>1, CIInvariant, PTL

-----------------------------------------------------------------------------
(* The developer's tree, which sdr.py release shares with people, with      *)
(* sdr.py build and with what killed commands have left in it.              *)

LocalAt(i) == "local" \in Channels /\ run["local"].step = i
LocalPast(i) == "local" \in Channels /\ run["local"].step > i
LocalSame == "local" \in Channels => run'["local"] = run["local"]

LEMMA LocalPlaces ==
  ASSUME NEW i \in 1..24
  PROVE  /\ Local[i] = "artifacts" <=> i \in {1, 9, 13, 18}
         /\ Local[i] = "manifest" <=> i \in {2, 10, 14, 19}
         /\ Local[i] = "mutate" <=> i = 5
         /\ Local[i] = "unmutate" <=> i = 6
         /\ Local[i] = "fake" <=> i = 8
         /\ Local[i] = "countersign" <=> i = 11
         /\ Local[i] = "restore" <=> i = 12
         /\ Local[i] = "read" <=> i = 23
         /\ Local[i] = "attest" <=> i = 24
         /\ Local[i] \notin {"history", "checkout"}
<1>1. \/ i = 1 \/ i = 2 \/ i = 3 \/ i = 4 \/ i = 5 \/ i = 6 \/ i = 7 \/ i = 8 \/ i = 9
      \/ i = 10 \/ i = 11 \/ i = 12 \/ i = 13 \/ i = 14 \/ i = 15 \/ i = 16 \/ i = 17
      \/ i = 18 \/ i = 19 \/ i = 20 \/ i = 21 \/ i = 22 \/ i = 23 \/ i = 24
  OBVIOUS
<1> QED BY <1>1, LocalScript

\* One step of sdr.py release, by the place where it is.
LocalMoves ==
  LET s == run["local"].step
      r == run["local"]
  IN  /\ s \in 1..24
      /\ head' = head /\ kills' = kills
      /\ \/ run'["local"].step = 0 /\ tree' = tree /\ s \notin 5..14
         \/ /\ run'["local"].step = s + 1
            /\ s \notin {5, 6, 8, 12} => run'["local"].bak = r.bak
            /\ s \in {5, 8} => run'["local"].bak = tree
            /\ s # 23 => run'["local"].man = r.man
            /\ s = 23 => run'["local"].man = tree.man
            /\ s \in {1, 9, 13, 18} => tree' = [tree EXCEPT !.art = Rendered(tree)]
            /\ s \in {2, 10, 14, 19} => tree' = [tree EXCEPT !.man = Pins(tree)]
            /\ s = 5 => tree' = [tree EXCEPT !.code = "mutant"]
            /\ s = 6 => tree' = [tree EXCEPT !.code = r.bak.code]
            /\ s = 8 => tree' = [tree EXCEPT !.src = Sample, !.hist = Sample]
            /\ s = 11 => tree' = [tree EXCEPT !.sign = Signoff("harness", tree)]
            /\ s = 12 => tree' = [tree EXCEPT !.src = r.bak.src, !.sign = r.bak.sign,
                                             !.hist = r.bak.hist]
            /\ s \notin {1, 2, 5, 6, 8, 9, 10, 11, 12, 13, 14, 18, 19} => tree' = tree
            /\ s = 4 => tree.src \notin Broken
            /\ s = 20 => Consistent(tree)
            /\ s = 22 => tree.sign.by # "nobody" /\ tree.sign.man = tree.man

LEMMA LocalSteps ==
  ASSUME Typed, "local" \in Channels, Step("local")
  PROVE  LocalMoves
<1> DEFINE s == run["local"].step
<1>1. Busy("local") /\ Effect("local")
  BY StepEffect
<1>2. Script("local") = Local /\ Tree("local") = tree /\ "local" \in OnTree
  BY ScriptLengths DEF Tree, OnTree
<1>3. s \in 1..24
  <2>1. s \in 0..Len(Local) /\ s # 0
    BY <1>1, <1>2, ChannelTyped DEF Busy
  <2> QED BY <2>1, LocalScript
<1>4. head' = head /\ kills' = kills
  <2>1. \E r, t : Goes("local", r, t)
    BY DEF Step, Attest, History, Artifacts, Manifest, Checkout, Mutate, Unmutate, Fake,
           Countersign, Restore, Hash, ReadManifest, Judge, CleanStep
  <2> QED BY <2>1, GoesElsewhere
<1>5. Name("local") = Local[s]
  BY <1>2 DEF Name
<1>6. CASE /\ run'["local"].step = 0 /\ tree' = tree
           /\ Name("local") \in Judges \cup {"attest"}
  <2>1. s \notin 5..14
    <3> SUFFICES ASSUME s \in 5..14 PROVE FALSE
      OBVIOUS
    <3>1. \/ s = 5 \/ s = 6 \/ s = 7 \/ s = 8 \/ s = 9
          \/ s = 10 \/ s = 11 \/ s = 12 \/ s = 13 \/ s = 14
      OBVIOUS
    <3> HIDE DEF s
    <3> QED BY <1>5, <1>6, <3>1, LocalScript DEF Judges
  <2> QED BY <1>3, <1>4, <1>6, <2>1 DEF LocalMoves
<1>7. CASE ~(/\ run'["local"].step = 0 /\ tree' = tree
             /\ Name("local") \in Judges \cup {"attest"})
  <2>1. PICK r \in Commands, t \in Trees :
          /\ Moved("local", r, t)
          /\ Name("local") \notin Writes => t = Tree("local")
          /\ Name("local") = "artifacts" => t = [Tree("local") EXCEPT !.art = Rendered(Tree("local"))]
          /\ Name("local") = "manifest" => t = [Tree("local") EXCEPT !.man = Pins(Tree("local"))]
          /\ Name("local") = "mutate" => t = [Tree("local") EXCEPT !.code = "mutant"]
          /\ Name("local") = "unmutate" => t = [Tree("local") EXCEPT !.code = run["local"].bak.code]
          /\ Name("local") = "fake" => t = [Tree("local") EXCEPT !.src = Sample, !.hist = Sample]
          /\ Name("local") = "countersign"
               => t = [Tree("local") EXCEPT !.sign = Signoff("harness", Tree("local"))]
          /\ Name("local") = "restore"
               => t = [Tree("local") EXCEPT !.src = run["local"].bak.src,
                                            !.sign = run["local"].bak.sign,
                                            !.hist = run["local"].bak.hist]
          /\ Name("local") \in {"mutate", "fake"} => r.bak = Tree("local")
          /\ Name("local") \notin {"mutate", "unmutate", "fake", "restore"}
               => r.bak = run["local"].bak
          /\ Name("local") = "read" => r.man = Tree("local").man
          /\ Name("local") # "read" => r.man = run["local"].man
          /\ Name("local") \in Judges => Green("local") \/ Tolerated("local")
    BY <1>1, <1>7 DEF Effect
  <2>2. /\ run'["local"].step = s + 1 /\ run'["local"].bak = r.bak
        /\ run'["local"].man = r.man /\ tree' = t
    BY <1>2, <2>1 DEF Moved
  <2>3. ~Tolerated("local")
    BY DEF Tolerated
  <2>4. s = 4 => tree.src \notin Broken
    <3>1. s = 4 => Name("local") = "validate"
      BY <1>5, LocalScript
    <3> QED BY <1>1, <1>2, <2>1, <2>3, <3>1 DEF Green, At, Name, Judges, Validates
  <2>5. s = 20 => Consistent(tree)
    <3>1. s = 20 => Name("local") = "consistency"
      BY <1>5, LocalScript
    <3> QED BY <1>1, <1>2, <2>1, <2>3, <3>1 DEF Green, At, Name, Judges
  <2>6. s = 22 => tree.sign.by # "nobody" /\ tree.sign.man = tree.man
    <3>1. s = 22 => Name("local") = "preflight"
      BY <1>5, LocalScript
    <3> QED BY <1>1, <1>2, <2>1, <2>3, <3>1 DEF Green, At, Name, Judges, Ready
  <2>7. s \notin {1, 2, 5, 6, 8, 9, 10, 11, 12, 13, 14, 18, 19} => Name("local") \notin Writes
    BY <1>3, <1>5, LocalPlaces DEF Writes
  <2> HIDE DEF s
  <2>8. /\ s \notin {5, 6, 8, 12} => r.bak = run["local"].bak
        /\ s \in {5, 8} => r.bak = tree
        /\ s # 23 => r.man = run["local"].man
        /\ s = 23 => r.man = tree.man
    BY <1>2, <1>3, <1>5, <2>1, LocalPlaces
  <2>9. /\ s \in {1, 9, 13, 18} => t = [tree EXCEPT !.art = Rendered(tree)]
        /\ s \in {2, 10, 14, 19} => t = [tree EXCEPT !.man = Pins(tree)]
        /\ s = 5 => t = [tree EXCEPT !.code = "mutant"]
        /\ s = 6 => t = [tree EXCEPT !.code = run["local"].bak.code]
        /\ s = 8 => t = [tree EXCEPT !.src = Sample, !.hist = Sample]
        /\ s = 11 => t = [tree EXCEPT !.sign = Signoff("harness", tree)]
        /\ s = 12 => t = [tree EXCEPT !.src = run["local"].bak.src,
                                     !.sign = run["local"].bak.sign,
                                     !.hist = run["local"].bak.hist]
    BY <1>2, <1>3, <1>5, <2>1, LocalPlaces
  <2> QED
    BY <1>2, <1>3, <1>4, <2>1, <2>2, <2>4, <2>5, <2>6, <2>7, <2>8, <2>9 DEF LocalMoves, s
<1> QED BY <1>6, <1>7

\* What happens to the tree and to sdr.py release while that takes no step.
HandMoves ==
  /\ "hand" \in Channels /\ LocalSame /\ head' = head /\ kills' = kills
  /\ \/ tree' = [tree EXCEPT !.art = Rendered(tree)]
     \/ tree' = [tree EXCEPT !.man = Pins(tree)]
Untouched ==
  /\ tree' = tree /\ head' = head
  /\ \/ LocalSame /\ kills' = kills
     \/ LocalAt(0) /\ run'["local"].step = 1 /\ kills' = kills
     \/ /\ kills' = kills + 1
        /\ LocalSame \/ ("local" \in Channels /\ run'["local"].step = 0)

PeopleMove ==
  /\ LocalSame /\ kills' = kills
  /\ \/ Edit \/ Sign \/ FetchHistory \/ Revert \/ Commit

LEMMA HandSteps ==
  ASSUME Typed, "hand" \in Channels, Step("hand")
  PROVE  HandMoves \/ (tree' = tree /\ head' = head /\ LocalSame /\ kills' = kills)
<1> DEFINE s == run["hand"].step
<1>1. Busy("hand") /\ Effect("hand")
  BY StepEffect
<1>2. Script("hand") = Build /\ Tree("hand") = tree /\ "hand" \in OnTree
  BY ScriptLengths DEF Tree, OnTree
<1>3. s = 1 \/ s = 2 \/ s = 3
  <2>1. s \in 0..Len(Build) /\ s # 0
    BY <1>1, <1>2, ChannelTyped DEF Busy
  <2> QED BY <2>1, HandScript
<1>4. head' = head /\ kills' = kills /\ LocalSame
  <2>1. \E r, t : Goes("hand", r, t)
    BY DEF Step, Attest, History, Artifacts, Manifest, Checkout, Mutate, Unmutate, Fake,
           Countersign, Restore, Hash, ReadManifest, Judge, CleanStep
  <2> QED BY <2>1, GoesElsewhere DEF LocalSame
<1>5. Name("hand") = "artifacts" \/ Name("hand") = "manifest" \/ Name("hand") = "consistency"
  BY <1>2, <1>3, HandScript DEF Name
<1>6. \/ tree' = tree
      \/ tree' = [tree EXCEPT !.art = Rendered(tree)]
      \/ tree' = [tree EXCEPT !.man = Pins(tree)]
  <2>1. CASE tree' = tree
    BY <2>1
  <2>2. CASE tree' # tree
    <3>1. PICK r \in Commands, t \in Trees :
            /\ Moved("hand", r, t)
            /\ Name("hand") \notin Writes => t = Tree("hand")
            /\ Name("hand") = "artifacts"
                 => t = [Tree("hand") EXCEPT !.art = Rendered(Tree("hand"))]
            /\ Name("hand") = "manifest" => t = [Tree("hand") EXCEPT !.man = Pins(Tree("hand"))]
      BY <1>1, <2>2 DEF Effect
    <3>2. tree' = t
      BY <1>2, <3>1 DEF Moved
    <3> QED BY <1>2, <1>5, <3>1, <3>2 DEF Writes
  <2> QED BY <2>1, <2>2
<1> QED BY <1>4, <1>6 DEF HandMoves

LEMMA TreeSteps ==
  ASSUME Typed, [Next]_vars
  PROVE  \/ "local" \in Channels /\ LocalMoves
         \/ HandMoves
         \/ Untouched
         \/ PeopleMove
<1>1. CASE UNCHANGED vars
  BY <1>1 DEF vars, Untouched, LocalSame
<1>2. ASSUME NEW w \in Channels, Start(w)
      PROVE  Untouched
  <2>1. run'[w].step = 1 /\ \A x \in Channels : x # w => run'[x] = run[x]
    BY <1>2, FirstTyped DEF Start, Typed, TypeOK, Commands
  <2> QED BY <1>2, <2>1 DEF Start, Untouched, LocalSame, LocalAt, Busy
<1>3. ASSUME NEW w \in Channels, Kill(w)
      PROVE  Untouched
  <2>1. run'[w].step = 0 /\ \A x \in Channels : x # w => run'[x] = run[x]
    BY <1>3, FirstTyped DEF Kill, Typed, TypeOK
  <2> QED BY <1>3, <2>1 DEF Kill, Untouched, LocalSame
<1>4. ASSUME NEW w \in Channels, Step(w), w \in CI
      PROVE  Untouched
  <2>1. \E r, t : Goes(w, r, t)
    BY <1>4 DEF Step, Attest, History, Artifacts, Manifest, Checkout, Mutate, Unmutate, Fake,
                Countersign, Restore, Hash, ReadManifest, Judge, CleanStep
  <2>2. w \notin OnTree /\ w # "local"
    BY <1>4 DEF CI, OnTree
  <2> QED BY <2>1, <2>2, GoesElsewhere DEF Untouched, LocalSame
<1>5. ASSUME NEW w \in Channels PROVE w = "local" \/ w = "hand" \/ w \in CI
  BY ConstantsAssumption DEF CI
<1>6. ASSUME NEW w \in Channels, Step(w)
      PROVE  ("local" \in Channels /\ LocalMoves) \/ HandMoves \/ Untouched
  <2>1. CASE w = "local"
    BY <1>6, <2>1, LocalSteps
  <2>2. CASE w = "hand"
    BY <1>6, <2>2, HandSteps DEF Untouched
  <2>3. CASE w \in CI
    BY <1>4, <1>6, <2>3
  <2> QED BY <1>5, <2>1, <2>2, <2>3
<1>7. CASE Edit \/ Sign \/ FetchHistory \/ Revert \/ Commit
  BY <1>7 DEF PeopleMove, LocalSame, Edit, Sign, FetchHistory, Revert, Commit, Works
<1>8. CASE Collect \/ Midnight
  BY <1>8 DEF Collect, Midnight, Untouched, LocalSame
<1> QED BY <1>1, <1>2, <1>3, <1>6, <1>7, <1>8 DEF Next

(* The sources only grow, in the tree and with it in the commit, except     *)
(* for the fiction; and while a release runs nobody commits.  So what a     *)
(* release finds in both at its end it had found at every step before.      *)
Ahead(src, h) == src = Sample \/ (src # Sample /\ src >= h.src)
Tested(src, h) == src = Sample \/ (src # Sample /\ (src > h.src \/ h.src \notin Broken))
Faking == "local" \in Channels /\ run["local"].step \in 9..12

AheadInv ==
  /\ Ahead(tree.src, head)
  /\ Faking => tree.src = Sample /\ Ahead(run["local"].bak.src, head)
  /\ LocalPast(4) /\ ~Faking => Tested(tree.src, head)
  /\ LocalPast(4) /\ Faking => Tested(run["local"].bak.src, head)

\* Sources as numbers.
LEMMA Numbered ==
  ASSUME Typed
  PROVE  /\ head.src \in 0..MaxSrc /\ Sample \notin Nat /\ MaxSrc \in Nat
         /\ tree.src # Sample => tree.src \in Nat
         /\ "local" \in Channels => /\ run["local"] \in Commands /\ run["local"].bak \in Trees
                                    /\ run["local"].step \in Nat
                                    /\ run["local"].bak.src # Sample
                                       => run["local"].bak.src \in Nat
<1>1. "local" \in Channels => run["local"] \in Commands /\ run["local"].bak \in Trees
  BY DEF Typed, TypeOK, Commands
<1> QED BY <1>1, ConstantsAssumption DEF Typed, TypeOK, Trees, Presentable, Commands

(* One step of sdr.py release, field by field.                              *)
LEMMA LocalFields ==
  ASSUME Typed, "local" \in Channels, LocalMoves, run'["local"].step # 0,
         NEW s, s = run["local"].step
  PROVE  /\ s \in 1..24 /\ run'["local"].step = s + 1 /\ head' = head /\ kills' = kills
         /\ s \notin {8, 12} => tree'.src = tree.src /\ tree'.hist = tree.hist
         /\ s \in {9, 10, 11} => run'["local"].bak = run["local"].bak
         /\ s \in {5, 8} => run'["local"].bak = tree
         /\ s = 8 => tree'.src = Sample
         /\ s = 12 => /\ tree'.src = run["local"].bak.src /\ tree'.hist = run["local"].bak.hist
                      /\ tree'.sign = run["local"].bak.sign
         /\ s \in {1, 9, 13, 18} => tree'.art = Rendered(tree)
         /\ s \notin {1, 9, 13, 18} => tree'.art = tree.art
         /\ s \in {2, 10, 14, 19} => tree'.man = Pins(tree)
         /\ s \notin {2, 10, 14, 19} => tree'.man = tree.man
         /\ s \notin {5, 6} => tree'.code = tree.code
         /\ s = 6 => tree'.code = run["local"].bak.code
         /\ s \notin {11, 12} => tree'.sign = tree.sign
         /\ s = 4 => tree.src \notin Broken
         /\ s = 20 => Consistent(tree)
         /\ s = 22 => tree.sign.by # "nobody" /\ tree.sign.man = tree.man
         /\ s # 23 => run'["local"].man = run["local"].man
         /\ s = 23 => run'["local"].man = tree.man
<1>1. s \in 1..24 /\ run'["local"].step = s + 1 /\ head' = head /\ kills' = kills
  BY DEF LocalMoves
<1>2. /\ s \notin {5, 6, 8, 12} => run'["local"].bak = run["local"].bak
      /\ s \in {5, 8} => run'["local"].bak = tree
      /\ s # 23 => run'["local"].man = run["local"].man
      /\ s = 23 => run'["local"].man = tree.man
      /\ s = 4 => tree.src \notin Broken
      /\ s = 20 => Consistent(tree)
      /\ s = 22 => tree.sign.by # "nobody" /\ tree.sign.man = tree.man
  BY DEF LocalMoves
<1>3. /\ s \in {1, 9, 13, 18} => tree' = [tree EXCEPT !.art = Rendered(tree)]
      /\ s \in {2, 10, 14, 19} => tree' = [tree EXCEPT !.man = Pins(tree)]
      /\ s = 5 => tree' = [tree EXCEPT !.code = "mutant"]
      /\ s = 6 => tree' = [tree EXCEPT !.code = run["local"].bak.code]
      /\ s = 8 => tree' = [tree EXCEPT !.src = Sample, !.hist = Sample]
      /\ s = 11 => tree' = [tree EXCEPT !.sign = Signoff("harness", tree)]
      /\ s = 12 => tree' = [tree EXCEPT !.src = run["local"].bak.src,
                                       !.sign = run["local"].bak.sign,
                                       !.hist = run["local"].bak.hist]
      /\ s \notin {1, 2, 5, 6, 8, 9, 10, 11, 12, 13, 14, 18, 19} => tree' = tree
  BY DEF LocalMoves
<1>4. tree \in Trees
  BY DEF Typed, TypeOK
<1> HIDE DEF LocalMoves
<1>5. \/ s \in {1, 9, 13, 18} \/ s \in {2, 10, 14, 19} \/ s = 5 \/ s = 6 \/ s = 8 \/ s = 11
      \/ s = 12 \/ s \notin {1, 2, 5, 6, 8, 9, 10, 11, 12, 13, 14, 18, 19}
  BY <1>1
<1>a. CASE s \in {1, 9, 13, 18}
  BY <1>1, <1>2, <1>3, <1>4, <1>a DEF Trees
<1>b. CASE s \in {2, 10, 14, 19}
  BY <1>1, <1>2, <1>3, <1>4, <1>b DEF Trees
<1>c. CASE s = 5
  BY <1>1, <1>2, <1>3, <1>4, <1>c DEF Trees
<1>d. CASE s = 6
  BY <1>1, <1>2, <1>3, <1>4, <1>d DEF Trees
<1>e. CASE s = 8
  <2>0. tree' = [tree EXCEPT !.src = Sample, !.hist = Sample]
    BY <1>3, <1>e
  <2>1. /\ tree'.src = Sample /\ tree'.art = tree.art /\ tree'.man = tree.man
        /\ tree'.code = tree.code /\ tree'.sign = tree.sign
    BY <1>4, <2>0 DEF Trees
  <2> QED BY <1>1, <1>2, <1>e, <2>1
<1>f. CASE s = 11
  BY <1>1, <1>2, <1>3, <1>4, <1>f DEF Trees
<1>g. CASE s = 12
  <2> DEFINE b == run["local"].bak
  <2>1. tree' = [tree EXCEPT !.src = b.src, !.sign = b.sign, !.hist = b.hist]
    BY <1>3, <1>g
  <2> HIDE DEF b
  <2>2. /\ tree'.src = b.src /\ tree'.hist = b.hist /\ tree'.sign = b.sign /\ tree'.art = tree.art
        /\ tree'.man = tree.man /\ tree'.code = tree.code
    BY <1>4, <2>1 DEF Trees
  <2> QED BY <1>1, <1>2, <1>g, <2>2 DEF b
<1>h. CASE s \notin {1, 2, 5, 6, 8, 9, 10, 11, 12, 13, 14, 18, 19}
  BY <1>1, <1>2, <1>3, <1>4, <1>h DEF Trees
<1> QED BY <1>5, <1>a, <1>b, <1>c, <1>d, <1>e, <1>f, <1>g, <1>h

LEMMA LocalAhead ==
  ASSUME Typed, AheadInv, "local" \in Channels, LocalMoves
  PROVE  AheadInv'
<1> DEFINE s == run["local"].step
           b == run["local"].bak
<1>1. CASE run'["local"].step = 0
  <2>1. tree' = tree /\ head' = head
    BY <1>1, Numbered DEF LocalMoves
  <2> QED BY <1>1, <2>1 DEF AheadInv, Faking, LocalPast, Ahead
<1>2. CASE run'["local"].step # 0
  <2>1. /\ s \in 1..24 /\ run'["local"].step = s + 1 /\ head' = head
        /\ s \notin {8, 12} => tree'.src = tree.src
        /\ s \in {9, 10, 11} => run'["local"].bak = b
        /\ s = 8 => tree'.src = Sample /\ run'["local"].bak = tree
        /\ s = 12 => tree'.src = b.src
        /\ s = 4 => tree.src \notin Broken
    BY <1>2, LocalFields
  <2>2. /\ Faking <=> s \in 9..12
        /\ Faking' <=> s + 1 \in 9..12
        /\ LocalPast(4) <=> s > 4
        /\ LocalPast(4)' <=> s + 1 > 4
    BY <2>1 DEF Faking, LocalPast
  <2>3. Ahead(tree.src, head) /\ (s \in 9..12 => tree.src = Sample /\ Ahead(b.src, head))
    BY <2>2 DEF AheadInv
  <2>4. /\ s > 4 /\ s \notin 9..12 => Tested(tree.src, head)
        /\ s > 4 /\ s \in 9..12 => Tested(b.src, head)
    BY <2>2 DEF AheadInv
  <2>5. s = 4 => Tested(tree.src, head)
    BY <2>1, <2>3, Numbered DEF Tested, Ahead
  <2> HIDE DEF s, b
  <2>6. Ahead(tree'.src, head')
    <3>1. CASE s = 8
      BY <2>1, <3>1 DEF Ahead
    <3>2. CASE s = 12
      BY <2>1, <2>3, <3>2
    <3>3. CASE s \notin {8, 12}
      BY <2>1, <2>3, <3>3
    <3> QED BY <3>1, <3>2, <3>3
  <2>7. s + 1 \in 9..12 => tree'.src = Sample /\ Ahead(run'["local"].bak.src, head')
    BY <2>1, <2>3
  <2>8. s + 1 > 4 /\ s + 1 \notin 9..12 => Tested(tree'.src, head')
    <3>1. CASE s = 4
      BY <2>1, <2>5, <3>1
    <3>2. CASE s = 12
      BY <2>1, <2>4, <3>2
    <3>3. CASE s \notin {4, 12}
      BY <2>1, <2>4, <3>3
    <3> QED BY <3>1, <3>2, <3>3
  <2>9. s + 1 > 4 /\ s + 1 \in 9..12 => Tested(run'["local"].bak.src, head')
    BY <2>1, <2>4
  <2> QED BY <2>2, <2>6, <2>7, <2>8, <2>9 DEF AheadInv
<1> QED BY <1>1, <1>2

(* What people do, field by field.                                          *)
LEMMA PeopleFields ==
  ASSUME Typed, PeopleMove
  PROVE  /\ LocalSame /\ kills' = kills
         /\ \/ /\ head' = head /\ tree.src # Sample
               /\ tree'.src = tree.src + 1 /\ tree'.hist = tree.hist
               /\ tree'.art = tree.art /\ tree'.man = tree.man /\ tree'.code = tree.code
               /\ tree'.sign = tree.sign
            \/ /\ head' = head /\ tree'.src = tree.src /\ tree'.hist = tree.hist
               /\ tree'.art = tree.art /\ tree'.man = tree.man /\ tree'.code = tree.code
               /\ tree'.sign.by = "provider" /\ tree'.sign.man = tree.man
            \/ /\ head' = head /\ tree'.src = tree.src
               /\ tree'.hist = bucket /\ tree'.hist # Sample
               /\ tree'.art = tree.art /\ tree'.man = tree.man /\ tree'.code = tree.code
               /\ tree'.sign = tree.sign
            \/ /\ "local" \in Channels => run["local"].step = 0
               /\ ~Presentable(tree)
               /\ head' = head /\ tree'.src = head.src /\ tree'.hist = tree.hist
            \/ /\ "local" \in Channels => run["local"].step = 0
               /\ tree' = tree /\ head'.src = tree.src /\ tree.src # Sample
<1>1. tree \in Trees /\ head \in Trees /\ Sample \notin Nat /\ bucket \in Nat /\ MaxSrc \in Nat
  BY ConstantsAssumption DEF Typed, TypeOK
<1>2. LocalSame /\ kills' = kills
  BY DEF PeopleMove
<1>3. CASE Edit
  <2>1. tree' = [tree EXCEPT !.src = @ + 1] /\ head' = head /\ tree.src # Sample
    BY <1>1, <1>3 DEF Edit, Works
  <2> QED BY <1>1, <1>2, <2>1 DEF Trees
<1>4. CASE Sign
  <2>1. tree' = [tree EXCEPT !.sign = Signoff("provider", tree)] /\ head' = head
    BY <1>4 DEF Sign, Works
  <2> QED BY <1>1, <1>2, <2>1 DEF Trees, Signoff
<1>5. CASE FetchHistory
  <2>1. tree' = [tree EXCEPT !.hist = bucket] /\ head' = head
    BY <1>5 DEF FetchHistory, Works
  <2> QED BY <1>1, <1>2, <2>1 DEF Trees
<1>6. CASE Revert
  <2>1. tree' = [head EXCEPT !.hist = tree.hist] /\ head' = head /\ ~Presentable(tree)
        /\ ("local" \in Channels => run["local"].step = 0)
    BY <1>6 DEF Revert, Works, Busy
  <2> QED BY <1>1, <1>2, <2>1 DEF Trees
<1>7. CASE Commit
  <2>1. head' = Tracked(tree) /\ tree' = tree /\ Presentable(tree)
        /\ ("local" \in Channels => run["local"].step = 0)
    BY <1>7 DEF Commit, Busy
  <2> QED BY <1>1, <1>2, <2>1 DEF Trees, Tracked, Presentable
<1> QED BY <1>3, <1>4, <1>5, <1>6, <1>7 DEF PeopleMove

LEMMA HandFields ==
  ASSUME Typed, HandMoves
  PROVE  /\ LocalSame /\ kills' = kills /\ head' = head
         /\ tree'.src = tree.src /\ tree'.hist = tree.hist /\ tree'.sign = tree.sign
         /\ tree'.code = tree.code
         /\ \/ tree'.art = Rendered(tree) /\ tree'.man = tree.man
            \/ tree'.art = tree.art /\ tree'.man = Pins(tree)
<1>1. tree \in Trees
  BY DEF Typed, TypeOK
<1> QED BY <1>1 DEF HandMoves, Trees

LEMMA AheadStep == Typed /\ AheadInv /\ [Next]_vars => AheadInv'
<1> SUFFICES ASSUME Typed, AheadInv, [Next]_vars PROVE AheadInv'
  OBVIOUS
<1>1. CASE "local" \in Channels /\ LocalMoves
  BY <1>1, LocalAhead
<1>2. CASE HandMoves
  <2>1. /\ LocalSame /\ head' = head /\ tree'.src = tree.src
    BY <1>2, HandFields
  <2> QED BY <2>1 DEF AheadInv, Faking, LocalPast, LocalSame, Ahead, Tested
<1>3. CASE Untouched
  BY <1>3, Numbered DEF Untouched, AheadInv, Faking, LocalPast, LocalAt, LocalSame, Ahead, Tested
<1>4. CASE PeopleMove
  <2>1. LocalSame
    BY <1>4, PeopleFields
  <2>2. CASE head' = head /\ tree'.src = tree.src
    BY <2>1, <2>2 DEF AheadInv, Faking, LocalPast, LocalSame, Ahead, Tested
  <2>3. CASE head' = head /\ tree.src # Sample /\ tree'.src = tree.src + 1
    <3>1. tree.src \in Nat /\ head.src \in Nat /\ Sample \notin Nat /\ ~Faking
      BY <2>3, Numbered DEF AheadInv
    <3>2. Ahead(tree'.src, head')
      BY <2>3, <3>1 DEF AheadInv, Ahead
    <3>3. LocalPast(4) => Tested(tree'.src, head')
      BY <2>3, <3>1 DEF AheadInv, Ahead, Tested
    <3> QED BY <2>1, <2>3, <3>1, <3>2, <3>3 DEF AheadInv, Faking, LocalPast, LocalSame
  <2>4. CASE /\ "local" \in Channels => run["local"].step = 0
             /\ tree'.src = head'.src /\ tree'.src # Sample
    <3>1. tree'.src >= head'.src
      BY <2>4, PeopleTyped, <1>4, Numbered DEF PeopleMove, Typed, TypeOK, Trees
    <3> QED BY <2>1, <2>4, <3>1 DEF AheadInv, Faking, LocalPast, LocalSame, Ahead
  <2> QED BY <1>4, <2>2, <2>3, <2>4, PeopleFields, Numbered
<1> QED BY <1>1, <1>2, <1>3, <1>4, TreeSteps

\* sdr.py release publishes at its last place, what git calls clean.
LEMMA LocalPublishes ==
  ASSUME Typed, NEW w \in Channels, Name(w) = "attest", Step(w)
  PROVE  /\ w = "local" \/ w \in CI
         /\ w = "local" => run["local"].step = 24
<1>1. w = "local" \/ w = "hand" \/ w \in CI
  BY ConstantsAssumption DEF CI
<1>2. run[w].step \in 1..Len(Script(w))
  BY StepEffect, ChannelTyped DEF Busy
<1>3. w # "hand"
  <2> SUFFICES ASSUME w = "hand" PROVE FALSE
    OBVIOUS
  <2>1. Script(w) = Build
    BY ScriptLengths
  <2>2. run[w].step \in 1..3
    <3>1. Len(Script(w)) = 3
      BY <2>1, HandScript, Zenon
    <3> QED BY <1>2, <3>1, Zenon
  <2>3. run[w].step = 1 \/ run[w].step = 2 \/ run[w].step = 3
    BY <2>2
  <2> QED BY <2>1, <2>3, HandScript DEF Name
<1>4. w = "local" => run["local"].step = 24
  <2> SUFFICES ASSUME w = "local" PROVE run["local"].step = 24
    OBVIOUS
  <2>1. Script(w) = Local
    BY ScriptLengths
  <2>2. run[w].step \in 1..24
    <3>1. Len(Script(w)) = 24
      BY <2>1, LocalScript, Zenon
    <3> QED BY <1>2, <3>1, Zenon
  <2> QED BY <2>1, <2>2, LocalPlaces DEF Name
<1> QED BY <1>1, <1>3, <1>4

LEMMA LocalRelease ==
  ASSUME Typed, "local" \in Channels, Clean("local")
  PROVE  /\ tree \in Trees /\ head \in Trees /\ Presentable(head)
         /\ tree.src = head.src /\ tree.code = head.code /\ tree.art = head.art
         /\ tree.man = head.man /\ tree.sign = head.sign
         /\ Release("local") = [via |-> "local", man |-> run["local"].man, art |-> tree.art,
                               sign |-> tree.sign, commit |-> head]
<1>1. Tree("local") = tree /\ Base("local") = head
  BY DEF Tree, Base, OnTree
<1>2. tree \in Trees /\ head \in Trees /\ Presentable(head)
  BY DEF Typed, TypeOK
<1>3. /\ tree.src = head.src /\ tree.code = head.code /\ tree.art = head.art
      /\ tree.man = head.man /\ tree.sign = head.sign
  BY <1>1, <1>2, CleanFields DEF Clean
<1> QED BY <1>1, <1>2, <1>3 DEF Release

LocalReleasesAreTested == \A r \in ReleasedBy({"local"}) : r.commit.src \notin Broken

LEMMA LocalTested == Spec => [](AheadInv /\ LocalReleasesAreTested)
<1>1. Init => AheadInv /\ LocalReleasesAreTested
  BY FirstTyped, ConstantsAssumption
     DEF Init, AheadInv, LocalReleasesAreTested, ReleasedBy, Ahead, Faking, LocalPast, First, Idle
<1>2. Typed /\ AheadInv /\ LocalReleasesAreTested /\ [Next]_vars
      => AheadInv' /\ LocalReleasesAreTested'
  <2> SUFFICES ASSUME Typed, AheadInv, LocalReleasesAreTested, [Next]_vars
               PROVE  LocalReleasesAreTested'
    BY AheadStep
  <2>1. CASE released' = released
    BY <2>1 DEF LocalReleasesAreTested, ReleasedBy
  <2>2. ASSUME NEW w \in Channels, Step(w), Name(w) = "attest", Clean(w),
               released' = {Release(w)}
        PROVE  LocalReleasesAreTested'
    <3>1. CASE w \in CI
      BY <2>2, <3>1 DEF LocalReleasesAreTested, ReleasedBy, Release, CI
    <3>2. CASE w = "local"
      <4>1. run["local"].step = 24 /\ "local" \in Channels
        BY <2>2, <3>2, LocalPublishes
      <4>2. tree.src = head.src /\ Release("local").commit = head /\ Presentable(head)
        BY <2>2, <3>2, LocalRelease
      <4>3. head.src \notin Broken
        BY <4>1, <4>2, Numbered DEF AheadInv, LocalPast, Faking, Tested, Presentable
      <4> QED BY <2>2, <3>2, <4>2, <4>3 DEF LocalReleasesAreTested, ReleasedBy
    <3> QED BY <2>2, <3>1, <3>2, LocalPublishes
  <2> QED BY <2>1, <2>2, OthersElsewhere, StepReleases
<1> QED BY <1>1, <1>2, TypeCorrect, PTL DEF Spec

PublishedByAChannel == \A r \in released : r.via \in Channels /\ r.via \in {"local"} \cup CI

LEMMA ReleasedVia == Spec => []PublishedByAChannel
<1>1. Init => PublishedByAChannel
  BY DEF Init, PublishedByAChannel
<1>2. Typed /\ PublishedByAChannel /\ [Next]_vars
      => PublishedByAChannel'
  <2> SUFFICES ASSUME Typed, PublishedByAChannel, [Next]_vars
               PROVE  PublishedByAChannel'
    OBVIOUS
  <2>1. CASE released' = released
    BY <2>1 DEF PublishedByAChannel
  <2>2. ASSUME NEW w \in Channels, Step(w), Name(w) = "attest", released' = {Release(w)}
        PROVE  PublishedByAChannel'
    BY <2>2, LocalPublishes DEF Release, PublishedByAChannel
  <2> QED BY <2>1, <2>2, OthersElsewhere, StepReleases
<1> QED BY <1>1, <1>2, TypeCorrect, PTL DEF Spec

(* No channel releases sources whose tests are red, if the shell of the    *)
(* AWS job stops at a red command (or AWS is not used): in a checkout the  *)
(* sources that validate saw are those of the commit, and in the           *)
(* developer's tree they only grow, so that a tree which equals the commit *)
(* at the end also did when validate saw it.                               *)
THEOREM OnlyGreenIsReleased ==
  Spec => []((ErrExit \/ "aws" \notin Channels) => NoRedRelease)
<1>1. CIInv /\ LocalReleasesAreTested /\ PublishedByAChannel
      => ((ErrExit \/ "aws" \notin Channels) => NoRedRelease)
  BY DEF CIInv, CIReleases, LocalReleasesAreTested, PublishedByAChannel, ReleasedBy, NoRedRelease
<1> QED BY <1>1, CIInvariant, LocalTested, ReleasedVia, PTL

(* From its last build on, whatever happens in the tree moves it on: the     *)
(* sources and the history grow, days pass, and a build, of this command or  *)
(* of another, replaces artifacts and manifest by later ones.  Versions are  *)
(* in this order with the fiction before all; so that a tree which has left  *)
(* the commit does not come back to it.                                      *)
Rank(v) == IF v = Sample THEN 0 ELSE v + 1
Grows(v, u) == Rank(v) <= Rank(u)
Older(a, b) ==
  /\ Grows(a.src, b.src) /\ Grows(a.hist, b.hist) /\ a.day <= b.day
  /\ a.code = b.code \/ b.code = "ok"
OlderMan(m, n) == Older(m.art, n.art) /\ Grows(m.src, n.src) /\ Grows(m.hist, n.hist)

LEMMA GrowsOrder ==
  ASSUME NEW u \in Nat \cup {Sample}, NEW v \in Nat \cup {Sample}, NEW w \in Nat \cup {Sample}
  PROVE  /\ Grows(u, u)
         /\ Grows(u, v) /\ Grows(v, w) => Grows(u, w)
         /\ Grows(u, v) /\ Grows(v, u) => u = v
<1>1. /\ u # Sample => u \in Nat
      /\ v # Sample => v \in Nat
      /\ w # Sample => w \in Nat
  OBVIOUS
<1>2. Rank(u) \in Nat /\ Rank(v) \in Nat /\ Rank(w) \in Nat
  BY <1>1 DEF Rank
<1>3. Rank(u) = Rank(v) => u = v
  BY <1>1 DEF Rank
<1> QED BY <1>2, <1>3 DEF Grows

LEMMA NumbersGrow ==
  ASSUME NEW u \in Nat, NEW v \in Nat, u <= v
  PROVE  Grows(u, v) /\ Grows(Sample, v)
BY ConstantsAssumption DEF Grows, Rank

\* The versions in an artifact and in a manifest.
LEMMA Versions ==
  ASSUME NEW a \in Art, NEW m \in Man, NEW t \in Trees
  PROVE  /\ a.src \in Nat \cup {Sample} /\ a.hist \in Nat \cup {Sample} /\ a.day \in Nat
         /\ m.src \in Nat \cup {Sample} /\ m.hist \in Nat \cup {Sample} /\ m.art \in Art
         /\ t.src \in Nat \cup {Sample} /\ t.hist \in Nat \cup {Sample}
         /\ t.art \in Art /\ t.man \in Man
BY ConstantsAssumption DEF Art, Man, Trees

LEMMA OlderOrder ==
  ASSUME NEW a \in Art, NEW b \in Art, NEW c \in Art
  PROVE  /\ Older(a, a)
         /\ Older(a, b) /\ Older(b, c) => Older(a, c)
         /\ Older(a, b) /\ Older(b, a) => a = b
<1>1. /\ a.src \in Nat \cup {Sample} /\ a.hist \in Nat \cup {Sample} /\ a.day \in Nat
      /\ b.src \in Nat \cup {Sample} /\ b.hist \in Nat \cup {Sample} /\ b.day \in Nat
      /\ c.src \in Nat \cup {Sample} /\ c.hist \in Nat \cup {Sample} /\ c.day \in Nat
  BY ConstantsAssumption DEF Art
<1>2. Older(a, a)
  <2>1. Grows(a.src, a.src) /\ Grows(a.hist, a.hist)
    BY <1>1, GrowsOrder
  <2> QED BY <1>1, <2>1 DEF Older
<1>3. ASSUME Older(a, b), Older(b, c) PROVE Older(a, c)
  <2>0. /\ Grows(a.src, b.src) /\ Grows(b.src, c.src)
        /\ Grows(a.hist, b.hist) /\ Grows(b.hist, c.hist)
    BY <1>3 DEF Older
  <2>1. Grows(a.src, c.src) /\ Grows(a.hist, c.hist)
    <3>1. /\ a.hist \in Nat \cup {Sample} /\ b.hist \in Nat \cup {Sample}
          /\ c.hist \in Nat \cup {Sample} /\ Grows(a.hist, b.hist) /\ Grows(b.hist, c.hist)
      BY <1>1, <2>0
    <3>2. Grows(a.src, c.src)
      BY <1>1, <2>0, GrowsOrder
    <3>3. Grows(a.hist, c.hist)
      BY <3>1, GrowsOrder
    <3> QED BY <3>2, <3>3
  <2>2. a.day <= c.day /\ (a.code = c.code \/ c.code = "ok")
    BY <1>1, <1>3 DEF Older
  <2> QED BY <1>3, <2>1, <2>2 DEF Older
<1>4. ASSUME Older(a, b), Older(b, a) PROVE a = b
  <2>1. a.src = b.src /\ a.hist = b.hist
    BY <1>1, <1>4, GrowsOrder DEF Older
  <2>2. a.day = b.day /\ a.code = b.code
    BY <1>1, <1>4 DEF Older
  <2> QED BY <2>1, <2>2 DEF Art
<1> QED BY <1>2, <1>3, <1>4

LEMMA OlderManOrder ==
  ASSUME NEW m \in Man, NEW n \in Man, NEW o \in Man
  PROVE  /\ OlderMan(m, m)
         /\ OlderMan(m, n) /\ OlderMan(n, o) => OlderMan(m, o)
         /\ OlderMan(m, n) /\ OlderMan(n, m) => m = n
<1>1. \A x \in {m, n, o} :
        x.src \in Nat \cup {Sample} /\ x.hist \in Nat \cup {Sample} /\ x.art \in Art
  BY ConstantsAssumption DEF Man
<1>2. OlderMan(m, m)
  BY <1>1, GrowsOrder, OlderOrder DEF OlderMan
<1>3. ASSUME OlderMan(m, n), OlderMan(n, o) PROVE OlderMan(m, o)
  <2>1. /\ Grows(m.src, n.src) /\ Grows(n.src, o.src)
        /\ Grows(m.hist, n.hist) /\ Grows(n.hist, o.hist)
        /\ Older(m.art, n.art) /\ Older(n.art, o.art)
    BY <1>3 DEF OlderMan
  <2>2. /\ m.src \in Nat \cup {Sample} /\ n.src \in Nat \cup {Sample} /\ o.src \in Nat \cup {Sample}
        /\ m.hist \in Nat \cup {Sample} /\ n.hist \in Nat \cup {Sample} /\ o.hist \in Nat \cup {Sample}
        /\ m.art \in Art /\ n.art \in Art /\ o.art \in Art
    BY <1>1
  <2>3. Grows(m.src, o.src)
    BY <2>1, <2>2, GrowsOrder
  <2>4. Grows(m.hist, o.hist)
    BY <2>1, <2>2, GrowsOrder
  <2>5. Older(m.art, o.art)
    BY <2>1, <2>2, OlderOrder
  <2> QED BY <2>3, <2>4, <2>5 DEF OlderMan
<1>4. ASSUME OlderMan(m, n), OlderMan(n, m) PROVE m = n
  <2>1. /\ Grows(m.src, n.src) /\ Grows(n.src, m.src)
        /\ Grows(m.hist, n.hist) /\ Grows(n.hist, m.hist)
        /\ Older(m.art, n.art) /\ Older(n.art, m.art)
    BY <1>4 DEF OlderMan
  <2>2. m.src = n.src /\ m.hist = n.hist /\ m.art = n.art
    <3>1. m.src = n.src
      BY <1>1, <2>1, GrowsOrder
    <3>2. m.hist = n.hist
      BY <1>1, <2>1, GrowsOrder
    <3>3. m.art = n.art
      BY <1>1, <2>1, OlderOrder
    <3> QED BY <3>1, <3>2, <3>3
  <2> QED BY <2>2 DEF Man
<1> QED BY <1>2, <1>3, <1>4

LEMMA TimePasses ==
  ASSUME Typed, [Next]_vars
  PROVE  day <= day' /\ bucket <= bucket'
<1>1. day \in Nat /\ bucket \in Nat
  BY ConstantsAssumption DEF Typed, TypeOK
<1>2. ASSUME NEW w \in Channels, Step(w)
      PROVE  day' = day /\ bucket' = bucket
  <2>1. \E r, t : Goes(w, r, t)
    BY <1>2 DEF Step, Attest, History, Artifacts, Manifest, Checkout, Mutate, Unmutate, Fake,
                Countersign, Restore, Hash, ReadManifest, Judge, CleanStep
  <2> QED BY <2>1 DEF Goes
<1>3. CASE \E w \in Channels : Start(w) \/ Step(w) \/ Kill(w)
  BY <1>1, <1>2, <1>3 DEF Start, Kill
<1>4. CASE Edit \/ Sign \/ Revert \/ FetchHistory \/ Commit \/ Collect \/ Midnight
  BY <1>1, <1>4 DEF Edit, Sign, Revert, FetchHistory, Commit, Collect, Midnight, Works
<1>5. CASE UNCHANGED vars
  BY <1>1, <1>5 DEF vars
<1> QED BY <1>3, <1>4, <1>5 DEF Next

\* The history in the tree, and what restore puts back, came from the bucket.
BucketInv ==
  /\ Grows(tree.hist, bucket)
  /\ Faking => Grows(run["local"].bak.hist, bucket)

LEMMA BucketStep == Typed /\ BucketInv /\ [Next]_vars => BucketInv'
<1> SUFFICES ASSUME Typed, BucketInv, [Next]_vars PROVE BucketInv'
  OBVIOUS
<1>1. /\ bucket \in Nat /\ bucket' \in Nat /\ tree \in Trees /\ tree' \in Trees
      /\ "local" \in Channels => run["local"].bak \in Trees
  BY TypesStay, Numbered, ConstantsAssumption DEF Typed, TypeOK
<1>2. Grows(bucket, bucket') /\ Grows(Sample, bucket')
  BY <1>1, TimePasses, NumbersGrow
<1>3. ASSUME NEW v \in Nat \cup {Sample}, Grows(v, bucket) PROVE Grows(v, bucket')
  BY <1>1, <1>2, <1>3, GrowsOrder
<1>4. /\ tree.hist \in Nat \cup {Sample}
      /\ "local" \in Channels => run["local"].bak.hist \in Nat \cup {Sample}
  BY <1>1, ConstantsAssumption DEF Trees
<1>5. Grows(tree.hist, bucket') /\ (Faking => Grows(run["local"].bak.hist, bucket'))
  BY <1>3, <1>4 DEF BucketInv, Faking
<1>a. CASE "local" \in Channels /\ LocalMoves
  <2> DEFINE s == run["local"].step
  <2>1. CASE run'["local"].step = 0
    <3>1. tree' = tree
      BY <1>a, <2>1, Numbered DEF LocalMoves
    <3> QED BY <1>5, <2>1, <3>1 DEF BucketInv, Faking
  <2>2. CASE run'["local"].step # 0
    <3>1. /\ s \in 1..24 /\ run'["local"].step = s + 1
          /\ s \notin {8, 12} => tree'.hist = tree.hist
          /\ s \in {9, 10, 11} => run'["local"].bak = run["local"].bak
          /\ s = 8 => run'["local"].bak = tree
          /\ s = 12 => tree'.hist = run["local"].bak.hist
      BY <1>a, <2>2, LocalFields
    <3>2. s = 8 => tree'.hist = Sample
      BY <1>1, <1>a, <2>2 DEF LocalMoves, Trees
    <3>3. Faking <=> s \in 9..12
      BY <1>a DEF Faking
    <3>4. Faking' <=> s + 1 \in 9..12
      BY <1>a, <3>1 DEF Faking
    <3> HIDE DEF s
    <3>5. Grows(tree'.hist, bucket')
      BY <1>2, <1>5, <3>1, <3>2, <3>3
    <3>6. Faking' => Grows(run'["local"].bak.hist, bucket')
      BY <1>5, <3>1, <3>3, <3>4
    <3> QED BY <3>5, <3>6 DEF BucketInv
  <2> QED BY <2>1, <2>2
<1>b. CASE HandMoves
  BY <1>5, <1>b, HandFields DEF BucketInv, Faking, LocalSame
<1>c. CASE Untouched
  BY <1>5, <1>c DEF Untouched, BucketInv, Faking, LocalAt, LocalSame
<1>d. CASE PeopleMove
  <2>1. LocalSame /\ (tree'.hist = tree.hist \/ tree'.hist = bucket)
    BY <1>d, PeopleFields
  <2> QED BY <1>2, <1>5, <2>1 DEF BucketInv, Faking, LocalSame
<1> QED BY <1>a, <1>b, <1>c, <1>d, TreeSteps

(* sdr.py release is where it was, or one step further; its verdict of what *)
(* git calls clean stays.                                                   *)
LEMMA LocalProceeds ==
  ASSUME Typed, [Next]_vars, "local" \in Channels, run'["local"].step > 13
  PROVE  /\ run["local"].step >= 13
         /\ \/ run'["local"] = run["local"]
            \/ Step("local") /\ LocalMoves /\ run'["local"].step = run["local"].step + 1
<1>1. run["local"].step \in Nat
  BY Numbered
<1>2. \/ run'["local"] = run["local"] \/ Start("local") \/ Step("local") \/ Kill("local")
  BY OthersElsewhere
<1>3. ~Start("local")
  <2>1. Start("local") => run'["local"].step = 1
    BY FirstTyped DEF Start, Typed, TypeOK, Commands
  <2> QED BY <2>1
<1>4. ~Kill("local")
  BY FirstTyped DEF Kill, Typed, TypeOK
<1>5. Step("local") => LocalMoves
  BY LocalSteps
<1>6. LocalMoves => run'["local"].step = run["local"].step + 1
  BY DEF LocalMoves
<1> QED BY <1>1, <1>2, <1>3, <1>4, <1>5, <1>6

LEMMA LocalReds ==
  ASSUME Typed, "local" \in Channels, Step("local"), run'["local"].step # 0,
         NEW s, s = run["local"].step, s >= 15
  PROVE  /\ s = 15 => run'["local"].red = (run["local"].red \/ ~Clean("local"))
         /\ s = 16 => ~run["local"].red
         /\ s > 15 => run'["local"].red = run["local"].red
<1> DEFINE w == "local"
           n == [run[w] EXCEPT !.step = @ + 1]
<1>1. Busy(w) /\ s \in 1..24 /\ Script(w) = Local
  <2>1. LocalMoves
    BY LocalSteps
  <2> QED BY <2>1, ScriptLengths DEF LocalMoves, Busy
<1>2. Len(Script(w)) = 24 /\ Name(w) = Local[s]
  BY <1>1, LocalScript DEF Name
<1>3. \A m : At(w, m) <=> Name(w) = m
  BY <1>1 DEF At, Name
<1>4. run[w] \in Commands /\ w \in Channels
  BY ChannelTyped
<1>5. n \in Commands /\ n.red = run[w].red
  BY <1>4 DEF Commands
<1>6. Later(w) = IF s = 24 THEN Idle ELSE n
  BY <1>2 DEF Later
<1>7. Idle \in Commands /\ Idle.step = 0
  BY FirstTyped
<1> HIDE DEF n
<1>8. ASSUME NEW r \in Commands, NEW t, Goes(w, r, t)
      PROVE  run'[w].red = r.red /\ r.step # 0
  <2>1. run'[w] = [r EXCEPT !.tree = IF w \in OnTree \/ r = Idle THEN @ ELSE t]
    BY <1>4, <1>8 DEF Goes, Typed, TypeOK
  <2> QED BY <2>1 DEF Commands
<1>9. ASSUME NEW t, NEW r \in {Later(w), Idle}, Goes(w, r, t)
      PROVE  run'[w].red = run[w].red
  BY <1>5, <1>6, <1>7, <1>8, <1>9
<1>10. ASSUME NEW t, NEW a, Goes(w, [Later(w) EXCEPT !.seen = a], t), a \in Art
       PROVE  run'[w].red = run[w].red
  <2>1. /\ [n EXCEPT !.seen = a] \in Commands /\ [n EXCEPT !.seen = a].red = run[w].red
        /\ [Idle EXCEPT !.seen = a] \in Commands /\ [Idle EXCEPT !.seen = a].step = 0
    BY <1>5, <1>7, <1>10 DEF Commands
  <2> QED BY <1>6, <1>8, <1>10, <2>1
<1>11. ASSUME NEW t, NEW m \in Man, Goes(w, [Later(w) EXCEPT !.man = m], t)
       PROVE  run'[w].red = run[w].red
  <2>1. /\ [n EXCEPT !.man = m] \in Commands /\ [n EXCEPT !.man = m].red = run[w].red
        /\ [Idle EXCEPT !.man = m] \in Commands /\ [Idle EXCEPT !.man = m].step = 0
    BY <1>5, <1>7 DEF Commands
  <2> QED BY <1>6, <1>8, <1>11, <2>1
<1> HIDE DEF w
<1>a. /\ s = 15 => Name(w) = "clean"
      /\ s = 16 => Name(w) = "verdict"
      /\ s > 15 => Name(w) \notin {"clean", "history", "checkout", "mutate", "unmutate", "fake",
                                   "countersign", "restore"}
  <2>1. \/ s = 15 \/ s = 16 \/ s = 17 \/ s = 18 \/ s = 19 \/ s = 20 \/ s = 21 \/ s = 22 \/ s = 23
        \/ s = 24
    BY <1>1
  <2> QED BY <1>2, <2>1, LocalScript
<1>b. s = 15 => run'[w].red = (run[w].red \/ ~Clean(w))
  <2> SUFFICES ASSUME s = 15 PROVE run'[w].red = (run[w].red \/ ~Clean(w))
    OBVIOUS
  <2>1. CleanStep(w)
    BY <1>3, <1>a DEF w, Step, Attest, History, Artifacts, Manifest, Checkout, Mutate, Unmutate,
       Fake, Countersign, Restore, Hash, ReadManifest, Judge, CleanStep, Judges, Name
  <2>2. Later(w) = n
    BY <1>6
  <2>3. Goes(w, [n EXCEPT !.red = @ \/ ~Clean(w)], Tree(w))
    BY <2>1, <2>2 DEF CleanStep
  <2>4. PICK b \in BOOLEAN : b = (run[w].red \/ ~Clean(w))
    OBVIOUS
  <2>5. [n EXCEPT !.red = @ \/ ~Clean(w)] = [n EXCEPT !.red = b]
    BY <1>5, <2>4
  <2>6. [n EXCEPT !.red = b] \in Commands /\ [n EXCEPT !.red = b].red = b
    BY <1>5 DEF Commands
  <2> QED BY <1>8, <2>3, <2>4, <2>5, <2>6
<1>c. s = 16 => ~run[w].red
  <2> SUFFICES ASSUME s = 16 PROVE ~run[w].red
    OBVIOUS
  <2>1. At(w, "verdict")
    BY <1>3, <1>a
  <2>2. Judge(w)
    BY <1>3, <1>a DEF w, Step, Attest, History, Artifacts, Manifest, Checkout, Mutate, Unmutate,
       Fake, Countersign, Restore, Hash, ReadManifest, Judge, CleanStep
  <2>3. ~Goes(w, Idle, Tree(w))
    BY <1>7, <1>8
  <2>4. Green(w) \/ Tolerated(w)
    BY <2>2, <2>3 DEF Judge
  <2>5. ~Tolerated(w)
    BY DEF Tolerated, w
  <2> QED BY <1>3, <2>1, <2>4, <2>5 DEF Green
<1>d. s > 15 => run'[w].red = run[w].red
  <2> SUFFICES ASSUME s > 15 PROVE run'[w].red = run[w].red
    OBVIOUS
  <2>1. \/ Attest(w) \/ Artifacts(w) \/ Manifest(w) \/ Hash(w) \/ ReadManifest(w) \/ Judge(w)
    BY <1>3, <1>a DEF w, Step, History, Checkout, Mutate, Unmutate,
       Fake, Countersign, Restore, CleanStep
  <2>2. CASE Attest(w)
    BY <1>9, <2>2 DEF Attest
  <2>3. CASE Artifacts(w) \/ Manifest(w)
    BY <1>9, <2>3 DEF Artifacts, Manifest
  <2>4. Tree(w).art \in Art /\ Tree(w).man \in Man /\ Seen(w) \in Art
    BY <1>4, ChannelTyped, FirstTyped DEF Seen, Trees, Commands
  <2>5. CASE Hash(w)
    BY <1>10, <2>4, <2>5 DEF Hash
  <2>6. CASE ReadManifest(w)
    BY <1>11, <2>4, <2>6 DEF ReadManifest
  <2>7. CASE Judge(w)
    BY <1>9, <1>10, <2>4, <2>7 DEF Judge
  <2> QED BY <2>1, <2>2, <2>3, <2>5, <2>6, <2>7
<1> QED BY <1>b, <1>c, <1>d DEF w

\* What a step may do to the tree and the commit from the last build on.
Onward ==
  /\ head' = head /\ tree'.code = tree.code
  /\ Grows(tree.src, tree'.src) /\ Grows(tree.hist, tree'.hist)
  /\ tree'.art = tree.art \/ tree'.art = Rendered(tree)
  /\ tree'.man = tree.man \/ tree'.man = Pins(tree)
  /\ \/ tree'.sign = tree.sign
     \/ tree'.sign.by = "provider" /\ tree'.sign.man = tree.man

LEMMA TreeGoesOnward ==
  ASSUME Typed, BucketInv, [Next]_vars, LocalPast(12), run'["local"].step # 0
  PROVE  Onward
<1>1. /\ tree \in Trees /\ "local" \in Channels
      /\ run["local"].step > 12 /\ run["local"].step \in Nat
      /\ tree.src # Sample => tree.src \in Nat
      /\ tree.src \in Nat \cup {Sample} /\ tree.hist \in Nat \cup {Sample}
  BY SMTT(30), Numbered, ConstantsAssumption DEF Typed, TypeOK, LocalPast, Trees
<1>2. Grows(tree.src, tree.src) /\ Grows(tree.hist, tree.hist)
  BY <1>1, GrowsOrder
<1>a. CASE LocalMoves
  <2> DEFINE s == run["local"].step
  <2>1. /\ head' = head
        /\ s \notin {8, 12} => tree'.src = tree.src /\ tree'.hist = tree.hist
        /\ s \in {1, 9, 13, 18} => tree'.art = Rendered(tree)
        /\ s \notin {1, 9, 13, 18} => tree'.art = tree.art
        /\ s \in {2, 10, 14, 19} => tree'.man = Pins(tree)
        /\ s \notin {2, 10, 14, 19} => tree'.man = tree.man
        /\ s \notin {5, 6} => tree'.code = tree.code
        /\ s \notin {11, 12} => tree'.sign = tree.sign
    BY <1>1, <1>a, LocalFields
  <2> QED BY <1>1, <1>2, <2>1 DEF Onward
<1>b. CASE HandMoves
  <2>1. /\ LocalSame /\ head' = head /\ tree'.src = tree.src /\ tree'.hist = tree.hist
        /\ tree'.sign = tree.sign /\ tree'.code = tree.code
        /\ \/ tree'.art = Rendered(tree) /\ tree'.man = tree.man
           \/ tree'.art = tree.art /\ tree'.man = Pins(tree)
    BY <1>b, HandFields
  <2> QED BY <1>2, <2>1 DEF Onward
<1>c. CASE Untouched
  BY <1>2, <1>c DEF Onward, Untouched
<1>d. CASE PeopleMove
  <2>1. /\ head' = head /\ tree'.art = tree.art /\ tree'.man = tree.man
        /\ tree'.code = tree.code
        /\ \/ tree'.src = tree.src
           \/ tree.src # Sample /\ tree'.src = tree.src + 1
        /\ tree'.hist = tree.hist \/ tree'.hist = bucket
        /\ \/ tree'.sign = tree.sign
           \/ tree'.sign.by = "provider" /\ tree'.sign.man = tree.man
    BY <1>1, <1>d, PeopleFields
  <2>2. Grows(tree.src, tree'.src)
    BY <1>1, <1>2, <2>1, ConstantsAssumption DEF Grows, Rank
  <2>3. Grows(tree.hist, tree'.hist)
    BY <1>2, <2>1 DEF BucketInv
  <2> QED BY <2>1, <2>2, <2>3 DEF Onward
<1> QED BY <1>1, <1>a, <1>b, <1>c, <1>d, TreeSteps

\* What would be built of the tree grows with it.
LEMMA BuildsGrow ==
  ASSUME Typed, [Next]_vars, Onward
  PROVE  /\ Rendered(tree) \in Art /\ Pins(tree) \in Man
         /\ Rendered(tree)' \in Art /\ Pins(tree)' \in Man
         /\ Older(Rendered(tree), Rendered(tree)')
         /\ tree.art = tree'.art \/ Older(tree.art, Rendered(tree))
            => OlderMan(Pins(tree), Pins(tree)')
<1>1. Typed' /\ tree \in Trees /\ tree' \in Trees
  BY TypesStay DEF Typed, TypeOK
<1>2. Rendered(tree) \in Art /\ Pins(tree) \in Man
  BY <1>1, Written
<1>3. day' \in 0..MaxDay /\ 0 \in 0..MaxDay /\ 0 \in 0..MaxHist
  BY <1>1, ConstantsAssumption DEF Typed, TypeOK
<1>4. Rendered(tree)' \in Art
  BY <1>1, <1>3 DEF Rendered, Art, Trees
<1>5. Pins(tree)' \in Man
  BY <1>1, <1>3 DEF Pins, Man, Trees
<1>6. Older(Rendered(tree), Rendered(tree)')
  <2>1. (IF Dated THEN day ELSE 0) <= (IF Dated THEN day' ELSE 0)
    BY TimePasses
  <2> QED BY <2>1 DEF Rendered, Older, Onward
<1>7. ASSUME tree.art = tree'.art \/ Older(tree.art, Rendered(tree))
      PROVE  OlderMan(Pins(tree), Pins(tree)')
  <2>1. Older(tree.art, tree'.art)
    BY <1>1, <1>2, <1>7, OlderOrder, Versions DEF Onward
  <2>2. Grows(IF ClassC THEN tree.hist ELSE 0, IF ClassC THEN tree'.hist ELSE 0)
    BY GrowsOrder DEF Onward
  <2> QED BY <2>1, <2>2 DEF Pins, OlderMan, Onward
<1> QED BY <1>2, <1>4, <1>5, <1>6, <1>7

(* The artifacts and the manifest in the tree are not later than a build     *)
(* would be now.  Once the last clean step has seen the tree as committed,   *)
(* it is that or a later one; and as long as it is that, what the release    *)
(* has built, checked, found signed and read since then is the commit's.     *)
Matched == LocalPast(15) /\ ~run["local"].red
Back == tree.src = head.src /\ tree.art = head.art /\ tree.man = head.man

MatchInv ==
  /\ BucketInv
  /\ LocalPast(13) => Older(tree.art, Rendered(tree))
  /\ LocalPast(14) => OlderMan(tree.man, Pins(tree))
  /\ LocalPast(16) => ~run["local"].red
  /\ Matched => /\ tree.code = "ok" /\ Grows(head.src, tree.src)
                /\ Older(head.art, tree.art) /\ OlderMan(head.man, tree.man)
  /\ Matched /\ Back =>
       /\ LocalPast(18) => head.art.src = head.src /\ head.art.code = "ok"
       /\ LocalPast(19) => head.man.src = head.src
       /\ LocalPast(20) => head.man.art = head.art
       /\ LocalPast(22) => tree.sign.by # "nobody" /\ tree.sign.man = head.man
       /\ LocalPast(23) => run["local"].man = head.man

LEMMA MatchStep == Typed /\ MatchInv /\ [Next]_vars => MatchInv'
<1> SUFFICES ASSUME Typed, MatchInv, [Next]_vars PROVE MatchInv'
  OBVIOUS
<1> DEFINE s == run["local"].step
           z == run'["local"].step
<1>1. BucketInv /\ BucketInv'
  BY BucketStep DEF MatchInv
<1>2. CASE ~("local" \in Channels /\ z > 13)
  <2>1. Typed'
    BY TypesStay
  <2>2. "local" \in Channels => z \in Nat
    BY <2>1 DEF Typed, TypeOK, Commands
  <2>3. \A i \in {13, 14, 15, 16} : ~LocalPast(i)'
    BY <1>2, <2>2 DEF LocalPast
  <2> QED BY <1>1, <2>3 DEF MatchInv, Matched
<1>3. CASE "local" \in Channels /\ z > 13
  <2>1. /\ s \in Nat /\ s >= 13
        /\ \/ run'["local"] = run["local"] /\ z = s
           \/ Step("local") /\ LocalMoves /\ z = s + 1
    BY <1>3, LocalProceeds, Numbered
  <2>2. Onward
    BY <1>1, <1>3, <2>1, TreeGoesOnward DEF LocalPast
  <2>3. /\ Rendered(tree) \in Art /\ Pins(tree) \in Man
        /\ Rendered(tree)' \in Art /\ Pins(tree)' \in Man
        /\ Older(Rendered(tree), Rendered(tree)')
        /\ tree.art = tree'.art \/ Older(tree.art, Rendered(tree))
           => OlderMan(Pins(tree), Pins(tree)')
    BY <2>2, BuildsGrow
  <2>4. /\ tree \in Trees /\ tree' \in Trees /\ head \in Trees /\ head' = head
        /\ tree.art \in Art /\ tree'.art \in Art /\ head.art \in Art
        /\ tree.man \in Man /\ tree'.man \in Man /\ head.man \in Man
        /\ tree.src \in Nat \cup {Sample} /\ tree'.src \in Nat \cup {Sample}
        /\ head.src \in Nat \cup {Sample}
    <3>1. tree \in Trees /\ tree' \in Trees /\ head \in Trees /\ head' = head
      BY <2>2, TypesStay DEF Typed, TypeOK, Onward
    <3> QED BY <2>3, <3>1, Versions
  <2>5. /\ \A i \in 13..23 : LocalPast(i) <=> s > i
        /\ \A i \in 13..23 : LocalPast(i)' <=> z > i
    BY <1>3 DEF LocalPast
  <2>6. z = s + 1 => /\ s \notin {13, 18} => tree'.art = tree.art
                     /\ s \in {13, 18} => tree'.art = Rendered(tree)
                     /\ s \notin {14, 19} => tree'.man = tree.man
                     /\ s \in {14, 19} => tree'.man = Pins(tree)
                     /\ tree'.src = tree.src /\ tree'.sign = tree.sign
                     /\ s = 20 => tree.man.art = tree.art
                     /\ s = 22 => tree.sign.by # "nobody" /\ tree.sign.man = tree.man
                     /\ s # 23 => run'["local"].man = run["local"].man
                     /\ s = 23 => run'["local"].man = tree.man
    BY <1>3, <2>1, LocalFields DEF Consistent
  <2>7. z = s + 1 => /\ s = 15 => run'["local"].red = (run["local"].red \/ ~Clean("local"))
                     /\ s = 16 => ~run["local"].red
                     /\ s > 15 => run'["local"].red = run["local"].red
    BY <1>3, <2>1, LocalReds
  <2>8. z = s => run' ["local"] = run["local"]
    BY <2>1
  <2> HIDE DEF s, z
  <2>9. Older(tree'.art, Rendered(tree)')
    <3>1. CASE s > 13
      <4>1. Older(tree.art, Rendered(tree))
        BY <2>1, <2>5, <3>1 DEF MatchInv
      <4>2. Older(tree'.art, Rendered(tree))
        BY <2>2, <2>3, <4>1, OlderOrder DEF Onward
      <4> QED BY <2>3, <2>4, <4>2, OlderOrder
    <3>2. CASE s = 13
      BY <1>3, <2>1, <2>3, <2>6, <3>2
    <3> QED BY <2>1, <3>1, <3>2
  <2>10. z > 14 => OlderMan(tree'.man, Pins(tree)')
    <3> SUFFICES ASSUME z > 14 PROVE OlderMan(tree'.man, Pins(tree)')
      OBVIOUS
    <3>1. s > 13 /\ Older(tree.art, Rendered(tree))
      BY <2>1, <2>5 DEF MatchInv
    <3>2. OlderMan(Pins(tree), Pins(tree)')
      BY <2>3, <3>1
    <3>3. CASE s > 14
      <4>1. OlderMan(tree.man, Pins(tree))
        BY <2>5, <3>3, <2>1 DEF MatchInv
      <4>2. OlderMan(tree'.man, Pins(tree))
        BY <2>2, <2>3, <4>1, OlderManOrder DEF Onward
      <4> QED BY <2>3, <2>4, <3>2, <4>2, OlderManOrder
    <3>4. CASE s = 14
      BY <2>1, <2>6, <3>2, <3>4
    <3> QED BY <2>1, <3>1, <3>3, <3>4
  <2>11. z > 16 => ~run'["local"].red
    BY <2>1, <2>5, <2>7, <2>8 DEF MatchInv
  <2>12. s > 15 => /\ Older(tree.art, tree'.art) /\ OlderMan(tree.man, tree'.man)
                   /\ Matched' <=> Matched
    <3> SUFFICES ASSUME s > 15
                 PROVE  /\ Older(tree.art, tree'.art) /\ OlderMan(tree.man, tree'.man)
                        /\ Matched' <=> Matched
      OBVIOUS
    <3>1. Older(tree.art, Rendered(tree)) /\ OlderMan(tree.man, Pins(tree))
      BY <2>1, <2>5 DEF MatchInv
    <3>2. Older(tree.art, tree.art) /\ OlderMan(tree.man, tree.man)
      BY <2>4, OlderOrder, OlderManOrder
    <3>3. Matched' <=> Matched
      BY <2>1, <2>5, <2>7, <2>8 DEF Matched
    <3> QED BY <2>2, <3>1, <3>2, <3>3 DEF Onward
  <2>13. ASSUME Matched'
         PROVE  /\ tree'.code = "ok" /\ Grows(head'.src, tree'.src)
                /\ Older(head'.art, tree'.art) /\ OlderMan(head'.man, tree'.man)
    <3>1. CASE s > 15
      <4>1. /\ tree.code = "ok" /\ Grows(head.src, tree.src)
            /\ Older(head.art, tree.art) /\ OlderMan(head.man, tree.man)
        BY <2>12, <2>13, <3>1 DEF MatchInv
      <4>2. Grows(head.src, tree'.src)
        <5>1. Grows(tree.src, tree'.src)
          BY <2>2 DEF Onward
        <5>2. Grows(head.src, tree.src) /\ Grows(tree.src, tree'.src)
              => Grows(head.src, tree'.src)
          BY <2>4, GrowsOrder
        <5> QED BY <4>1, <5>1, <5>2
      <4>3. Older(head.art, tree'.art) /\ OlderMan(head.man, tree'.man)
        BY <2>4, <2>12, <3>1, <4>1, OlderOrder, OlderManOrder
      <4> QED BY <2>2, <2>4, <4>1, <4>2, <4>3 DEF Onward
    <3>2. CASE s <= 15
      <4>1. s = 15 /\ z = s + 1 /\ "local" \in Channels
        BY <1>3, <2>1, <2>5, <2>13, <3>2 DEF Matched
      <4>2. Clean("local")
        BY <2>7, <2>13, <4>1 DEF Matched
      <4>3. /\ tree.src = head.src /\ tree.code = head.code /\ tree.art = head.art
            /\ tree.man = head.man /\ head.code = "ok"
        BY <4>1, <4>2, LocalRelease DEF Presentable
      <4>4. tree'.src = head.src /\ tree'.art = head.art /\ tree'.man = head.man
        BY <2>6, <4>1, <4>3
      <4>5. /\ Grows(head.src, head.src) /\ Older(head.art, head.art)
            /\ OlderMan(head.man, head.man)
        <5>1. Grows(head.src, head.src)
          BY <2>4, GrowsOrder
        <5>2. Older(head.art, head.art) /\ OlderMan(head.man, head.man)
          BY <2>4, OlderOrder, OlderManOrder
        <5> QED BY <5>1, <5>2
      <4> QED BY <2>2, <2>4, <4>3, <4>4, <4>5 DEF Onward
    <3> QED BY <2>1, <3>1, <3>2
  <2>14. ASSUME Matched', Back', z > 18
         PROVE  /\ head.art.src = head.src /\ head.art.code = "ok"
                /\ z > 19 => head.man.src = head.src
                /\ z > 20 => head.man.art = head.art
                /\ z > 22 => tree'.sign.by # "nobody" /\ tree'.sign.man = head.man
                /\ z > 23 => run'["local"].man = head.man
    <3>1. s > 15 /\ Matched
      BY <2>1, <2>12, <2>14
    <3>2. /\ tree.code = "ok" /\ Grows(head.src, tree.src)
          /\ Older(head.art, tree.art) /\ OlderMan(head.man, tree.man)
      BY <3>1 DEF MatchInv
    <3>3. tree'.src = head.src /\ tree'.art = head.art /\ tree'.man = head.man
      BY <2>4, <2>14 DEF Back
    <3>4. tree.src = head.src
      BY <2>2, <2>4, <3>2, <3>3, GrowsOrder DEF Onward
    <3>5. tree.art = head.art
      BY <2>4, <2>12, <3>1, <3>2, <3>3, OlderOrder
    <3>6. tree.man = head.man
      BY <2>4, <2>12, <3>1, <3>2, <3>3, OlderManOrder
    <3>7. /\ s > 18 => head.art.src = head.src /\ head.art.code = "ok"
          /\ s > 19 => head.man.src = head.src
          /\ s > 20 => head.man.art = head.art
          /\ s > 22 => tree.sign.by # "nobody" /\ tree.sign.man = head.man
          /\ s > 23 => run["local"].man = head.man
      <4>1. Back
        BY <3>4, <3>5, <3>6 DEF Back
      <4>2. /\ LocalPast(18) => head.art.src = head.src /\ head.art.code = "ok"
            /\ LocalPast(19) => head.man.src = head.src
            /\ LocalPast(20) => head.man.art = head.art
            /\ LocalPast(22) => tree.sign.by # "nobody" /\ tree.sign.man = head.man
            /\ LocalPast(23) => run["local"].man = head.man
        BY <3>1, <4>1 DEF MatchInv
      <4> QED BY <2>5, <4>2
    <3>8. Rendered(tree).src = tree.src /\ Rendered(tree).code = tree.code
          /\ Pins(tree).src = tree.src
      BY DEF Rendered, Pins
    <3>9. head.art.src = head.src /\ head.art.code = "ok"
      BY <2>1, <2>6, <2>14, <3>2, <3>3, <3>4, <3>7, <3>8
    <3>10. z > 19 => head.man.src = head.src
      BY <2>1, <2>6, <3>3, <3>4, <3>7, <3>8
    <3>11. z > 20 => head.man.art = head.art
      BY <2>1, <2>6, <3>5, <3>6, <3>7
    <3>12. z > 22 => tree'.sign.by # "nobody" /\ tree'.sign.man = head.man
      <4> SUFFICES ASSUME z > 22 PROVE tree'.sign.by # "nobody" /\ tree'.sign.man = head.man
        OBVIOUS
      <4>1. tree.sign.by # "nobody" /\ tree.sign.man = head.man
        BY <2>1, <2>6, <3>6, <3>7
      <4> QED BY <2>2, <3>6, <4>1 DEF Onward
    <3>13. z > 23 => run'["local"].man = head.man
      BY <2>1, <2>6, <2>8, <3>6, <3>7
    <3> QED BY <3>9, <3>10, <3>11, <3>12, <3>13
  <2>15. /\ LocalPast(13)' => Older(tree.art, Rendered(tree))'
         /\ LocalPast(14)' => OlderMan(tree.man, Pins(tree))'
    BY <2>5, <2>9, <2>10 DEF Older, OlderMan
  <2>16. /\ Matched' => /\ tree'.code = "ok" /\ Grows(head.src, tree.src)'
                         /\ Older(head.art, tree.art)' /\ OlderMan(head.man, tree.man)'
    BY <2>13 DEF Grows, Older, OlderMan
  <2>17. Matched' /\ Back' => z > 18 \/ \A i \in 18..23 : ~LocalPast(i)'
    BY <2>1, <2>5
  <2>18. ASSUME Matched', Back'
         PROVE  /\ LocalPast(18)' => head'.art.src = head'.src /\ head'.art.code = "ok"
                /\ LocalPast(19)' => head'.man.src = head'.src
                /\ LocalPast(20)' => head'.man.art = head'.art
                /\ LocalPast(22)' => tree'.sign.by # "nobody" /\ tree'.sign.man = head'.man
                /\ LocalPast(23)' => run'["local"].man = head'.man
    <3>1. CASE z > 18
      BY <2>4, <2>5, <2>14, <2>18, <3>1
    <3>2. CASE ~(z > 18)
      BY <2>17, <2>18, <3>2
    <3> QED BY <3>1, <3>2
  <2>19. LocalPast(16)' => ~run'["local"].red
    BY <2>5, <2>11
  <2> QED BY <1>1, <2>15, <2>16, <2>18, <2>19 DEF MatchInv
<1> QED BY <1>2, <1>3

LEMMA LocalMatches == Spec => [](MatchInv /\ LocalReleasesAreFaithful /\ SignedByTheProvider)
<1>1. Init => MatchInv /\ LocalReleasesAreFaithful /\ SignedByTheProvider
  <2> SUFFICES ASSUME Init PROVE MatchInv /\ LocalReleasesAreFaithful /\ SignedByTheProvider
    OBVIOUS
  <2>1. \A i \in Nat : ~LocalPast(i)
    BY FirstTyped DEF Init, LocalPast
  <2>2. BucketInv
    BY FirstTyped, ConstantsAssumption DEF Init, BucketInv, Faking, Grows, Rank, First
  <2>3. LocalReleasesAreFaithful /\ SignedByTheProvider
    BY DEF Init, LocalReleasesAreFaithful, SignedByTheProvider, ReleasedBy
  <2> QED BY <2>1, <2>2, <2>3 DEF MatchInv, Matched
<1>2. Typed /\ MatchInv /\ LocalReleasesAreFaithful /\ SignedByTheProvider /\ [Next]_vars
      => MatchInv' /\ LocalReleasesAreFaithful' /\ SignedByTheProvider'
  <2> SUFFICES ASSUME Typed, MatchInv, LocalReleasesAreFaithful, SignedByTheProvider,
                      [Next]_vars
               PROVE  LocalReleasesAreFaithful' /\ SignedByTheProvider'
    BY MatchStep
  <2>1. CASE released' = released
    BY <2>1 DEF LocalReleasesAreFaithful, SignedByTheProvider, ReleasedBy, Faithful, Signed
  <2>2. ASSUME NEW w \in Channels, Step(w), Name(w) = "attest", Clean(w),
               released' = {Release(w)}
        PROVE  LocalReleasesAreFaithful' /\ SignedByTheProvider'
    <3>1. CASE w \in CI
      BY <2>2, <3>1 DEF LocalReleasesAreFaithful, SignedByTheProvider, ReleasedBy, Release, CI
    <3>2. CASE w = "local"
      <4> DEFINE r == Release("local")
      <4>1. run["local"].step = 24 /\ "local" \in Channels
        BY <2>2, <3>2, LocalPublishes
      <4>2. /\ tree \in Trees /\ head \in Trees /\ Presentable(head)
            /\ tree.src = head.src /\ tree.code = head.code /\ tree.art = head.art
            /\ tree.man = head.man /\ tree.sign = head.sign
            /\ r = [via |-> "local", man |-> run["local"].man, art |-> tree.art,
                   sign |-> tree.sign, commit |-> head]
        BY <2>2, <3>2, <4>1, LocalRelease
      <4>3. Back /\ \A i \in 15..23 : LocalPast(i)
        BY <4>1, <4>2 DEF Back, LocalPast
      <4>4. Matched
        BY <4>3 DEF Matched, MatchInv
      <4>5. /\ head.art.src = head.src /\ head.art.code = "ok"
            /\ head.man.src = head.src /\ head.man.art = head.art
            /\ tree.sign.by # "nobody" /\ tree.sign.man = head.man
            /\ run["local"].man = head.man
        BY <4>3, <4>4 DEF MatchInv
      <4>6. Faithful(r)
        BY <4>2, <4>5 DEF Faithful
      <4>7. Signed(r)
        <5>1. tree.sign \in Signs /\ tree.sign.by = "provider"
          BY <4>2, <4>5 DEF Presentable, Trees, Signs
        <5> QED BY <4>2, <4>5, <5>1 DEF Signed, Signs
      <4> HIDE DEF r
      <4>8. released' = {r}
        BY <2>2, <3>2 DEF r
      <4> QED
        BY <4>6, <4>7, <4>8 DEF LocalReleasesAreFaithful, SignedByTheProvider, ReleasedBy
    <3> QED BY <2>2, <3>1, <3>2, LocalPublishes
  <2> QED BY <2>1, <2>2, OthersElsewhere, StepReleases
<1> QED BY <1>1, <1>2, TypeCorrect, PTL DEF Spec

(* What sdr.py release publishes is committed and built from the committed *)
(* sources, whatever was edited, fetched, signed, built a second time and  *)
(* killed in the tree meanwhile: the verdict of its last clean step and    *)
(* the one of the attestation can only agree if nothing happened between.  *)
THEOREM LocalPublishesTheCommit == Spec => []LocalReleasesAreFaithful
BY LocalMatches, PTL

(* And the provider has signed that very manifest: preflight saw a         *)
(* signature on the manifest that is published, and the commit holds none  *)
(* of the harness.                                                         *)
THEOREM LocalReleasesAreSigned == Spec => []SignedByTheProvider
BY LocalMatches, PTL

(* As long as no command was killed, what the mutants and the harness leave *)
(* in the tree is there in a range of steps of sdr.py release only, t being *)
(* the tree, s the step, b what was backed up and m the manifest read.  A   *)
(* build by hand widens the ranges of what is built: it may build a mutant  *)
(* or the fiction at any step where they are there, and the next artifacts  *)
(* and manifest steps of the release replace that.                          *)
Trace(s, t, b, m) ==
  /\ s # 6 => t.code = "ok"
  /\ s = 6 => b.code = "ok"
  /\ s \notin 9..12 => t.src # Sample /\ t.hist # Sample
  /\ s \in 9..12 => b.src # Sample /\ b.hist # Sample /\ b.sign.by # "harness"
  /\ s # 12 => t.sign.by # "harness"
  /\ s \notin 6..9 => t.art.code = "ok"
  /\ s \notin 6..10 => t.man.art.code = "ok"
  /\ s \notin 9..13 => t.art.src # Sample /\ t.art.hist # Sample
  /\ s \notin 9..14 => /\ t.man.src # Sample /\ t.man.hist # Sample
                       /\ t.man.art.src # Sample /\ t.man.art.hist # Sample
  /\ s = 24 => m.hist # Sample

Place == IF "local" \in Channels THEN run["local"].step ELSE 0
TraceInv == kills = 0 => Trace(Place, tree, run["local"].bak, run["local"].man)

(* What is built of a tree shows what the tree shows.                       *)
LEMMA BuiltOf ==
  ASSUME Typed, NEW t
  PROVE  /\ Rendered(t).code = t.code
         /\ Rendered(t).src = t.src /\ Rendered(t).hist = t.hist
         /\ Pins(t).art = t.art /\ Pins(t).src = t.src
         /\ t.hist # Sample => Pins(t).hist # Sample
BY ConstantsAssumption DEF Rendered, Pins

LEMMA LocalTrace ==
  ASSUME Typed, TraceInv, "local" \in Channels, LocalMoves
  PROVE  TraceInv'
<1> DEFINE s == run["local"].step
           b == run["local"].bak
           m == run["local"].man
<1> SUFFICES ASSUME kills' = 0
             PROVE  Trace(run'["local"].step, tree', run'["local"].bak, run'["local"].man)
  BY DEF TraceInv, Place
<1>1. Trace(s, tree, b, m) /\ s \in 1..24
  BY DEF LocalMoves, TraceInv, Place
<1>2. CASE run'["local"].step = 0
  <2>1. tree' = tree /\ s \notin 5..14
    BY <1>2, Numbered DEF LocalMoves
  <2> QED BY <1>1, <1>2, <2>1 DEF Trace
<1>3. CASE run'["local"].step # 0
  <2>1. /\ run'["local"].step = s + 1
        /\ s \notin {8, 12} => tree'.src = tree.src /\ tree'.hist = tree.hist
        /\ s \in {9, 10, 11} => run'["local"].bak = b
        /\ s \in {5, 8} => run'["local"].bak = tree
        /\ s = 12 => tree'.src = b.src /\ tree'.hist = b.hist /\ tree'.sign = b.sign
    BY <1>3, LocalFields
  <2>2. /\ s \in {1, 9, 13, 18} => tree'.art = Rendered(tree)
        /\ s \notin {1, 9, 13, 18} => tree'.art = tree.art
        /\ s \in {2, 10, 14, 19} => tree'.man = Pins(tree)
        /\ s \notin {2, 10, 14, 19} => tree'.man = tree.man
        /\ s \notin {5, 6} => tree'.code = tree.code
        /\ s = 6 => tree'.code = b.code
        /\ s \notin {11, 12} => tree'.sign = tree.sign
        /\ s = 23 => run'["local"].man = tree.man
    BY <1>3, LocalFields
  <2>3. /\ Rendered(tree).code = tree.code
        /\ Rendered(tree).src = tree.src /\ Rendered(tree).hist = tree.hist
        /\ Pins(tree).art = tree.art /\ Pins(tree).src = tree.src
        /\ tree.hist # Sample => Pins(tree).hist # Sample
    BY BuiltOf
  <2> HIDE DEF s, b, m
  <2>4. s + 1 # 6 => tree'.code = "ok"
    BY <1>1, <2>2 DEF Trace
  <2>5. s + 1 = 6 => run'["local"].bak.code = "ok"
    BY <1>1, <2>1 DEF Trace
  <2>6. s + 1 \notin 9..12 => tree'.src # Sample /\ tree'.hist # Sample
    BY <1>1, <2>1 DEF Trace
  <2>7. s + 1 \in 9..12 => /\ run'["local"].bak.src # Sample /\ run'["local"].bak.hist # Sample
                           /\ run'["local"].bak.sign.by # "harness"
    BY <1>1, <2>1 DEF Trace
  <2>8. s + 1 # 12 => tree'.sign.by # "harness"
    BY <1>1, <2>1, <2>2 DEF Trace
  <2>9. s + 1 \notin 6..9 => tree'.art.code = "ok"
    BY <1>1, <2>2, <2>3 DEF Trace
  <2>10. s + 1 \notin 6..10 => tree'.man.art.code = "ok"
    BY <1>1, <2>2, <2>3 DEF Trace
  <2>11. s + 1 \notin 9..13 => tree'.art.src # Sample /\ tree'.art.hist # Sample
    BY <1>1, <2>2, <2>3 DEF Trace
  <2>12. s + 1 \notin 9..14 => /\ tree'.man.src # Sample /\ tree'.man.hist # Sample
                               /\ tree'.man.art.src # Sample /\ tree'.man.art.hist # Sample
    BY <1>1, <2>2, <2>3 DEF Trace
  <2>13. s + 1 = 24 => run'["local"].man.hist # Sample
    BY <1>1, <2>2 DEF Trace
  <2> QED
    BY <2>1, <2>4, <2>5, <2>6, <2>7, <2>8, <2>9, <2>10, <2>11, <2>12, <2>13 DEF Trace
<1> QED BY <1>2, <1>3

LEMMA TraceStep == Typed /\ TraceInv /\ [Next]_vars => TraceInv'
<1> SUFFICES ASSUME Typed, TraceInv, [Next]_vars PROVE TraceInv'
  OBVIOUS
<1>0. Place \in Nat /\ (LocalSame => Place' = Place)
      /\ (LocalSame /\ Place # 0 => run'["local"] = run["local"])
  BY Numbered DEF Place, LocalSame
<1>1. CASE "local" \in Channels /\ LocalMoves
  BY <1>1, LocalTrace
<1>2. CASE HandMoves
  <2>1. /\ LocalSame /\ kills' = kills
        /\ tree'.src = tree.src /\ tree'.hist = tree.hist /\ tree'.sign = tree.sign
        /\ tree'.code = tree.code
        /\ \/ tree'.art = Rendered(tree) /\ tree'.man = tree.man
           \/ tree'.art = tree.art /\ tree'.man = Pins(tree)
    BY <1>2, HandFields
  <2>2. /\ Rendered(tree).code = tree.code
        /\ Rendered(tree).src = tree.src /\ Rendered(tree).hist = tree.hist
        /\ Pins(tree).art = tree.art /\ Pins(tree).src = tree.src
        /\ tree.hist # Sample => Pins(tree).hist # Sample
    BY BuiltOf
  <2> QED BY <1>0, <2>1, <2>2 DEF TraceInv, Trace
<1>3. CASE Untouched
  <2>1. kills' = 0 => kills' = kills
    BY <1>3 DEF Untouched, Typed, TypeOK
  <2>2. tree' = tree
    BY <1>3 DEF Untouched
  <2>3. CASE LocalSame
    BY <1>0, <2>1, <2>2, <2>3 DEF TraceInv, Trace
  <2>4. CASE LocalAt(0) /\ run'["local"].step = 1
    <3>1. Place = 0 /\ Place' = 1
      BY <2>4 DEF Place, LocalAt
    <3> QED BY <2>1, <2>2, <3>1 DEF TraceInv, Trace
  <2>5. CASE kills' # 0
    BY <2>5 DEF TraceInv
  <2>6. kills' = kills + 1 => kills' # 0
    BY DEF Typed, TypeOK
  <2> QED BY <1>3, <2>3, <2>4, <2>5, <2>6 DEF Untouched
<1>4. CASE PeopleMove
  <2>1. LocalSame /\ kills' = kills
    BY <1>4, PeopleFields
  <2>2. CASE /\ tree'.src = tree.src \/ (tree.src # Sample /\ tree'.src # Sample)
             /\ tree'.hist = tree.hist \/ tree'.hist # Sample
             /\ tree'.sign = tree.sign \/ tree'.sign.by = "provider"
             /\ tree'.art = tree.art /\ tree'.man = tree.man /\ tree'.code = tree.code
    BY <1>0, <2>1, <2>2 DEF TraceInv, Trace
  <2>3. CASE Place = 0 /\ ~Presentable(tree)
    <3>1. kills # 0
      BY <2>3 DEF TraceInv, Trace, Presentable
    <3> QED BY <2>1, <3>1 DEF TraceInv
  <2>4. tree.src # Sample => tree.src + 1 # Sample
    BY Numbered
  <2>5. ("local" \in Channels => run["local"].step = 0) => Place = 0
    BY DEF Place
  <2> QED BY <1>4, <2>2, <2>3, <2>4, <2>5, PeopleFields
<1> QED BY <1>1, <1>2, <1>3, <1>4, TreeSteps

LEMMA TraceHolds == Spec => []TraceInv
<1>1. Init => TraceInv
  <2> SUFFICES ASSUME Init PROVE Trace(0, First, run["local"].bak, run["local"].man)
    BY FirstTyped DEF Init, TraceInv, Place
  <2> QED BY ConstantsAssumption DEF Trace, First
<1> QED BY <1>1, TraceStep, TypeCorrect, PTL DEF Spec

(* Between releases the tree shows nothing of the mutants and of the        *)
(* fictional package, for any number of edits, histories and builds by hand *)
(* beside the release, as long as no command was killed.                    *)
THEOREM ReleasesCleanUp == Spec => []HarnessLeavesNoTrace
<1>1. TraceInv => HarnessLeavesNoTrace
  <2> SUFFICES ASSUME TraceInv, kills = 0, "local" \in Channels => run["local"].step = 0
               PROVE  Traceless(tree)
    BY DEF HarnessLeavesNoTrace, Busy
  <2>1. Trace(0, tree, run["local"].bak, run["local"].man)
    BY DEF TraceInv, Place
  <2> QED BY <2>1 DEF Trace, Traceless
<1> QED BY <1>1, TraceHolds, PTL

LocalReleasesAreReal ==
  kills = 0 => \A r \in ReleasedBy({"local"}) : Sample \notin {r.art.hist, r.man.hist}

LEMMA LocalReal == Spec => []LocalReleasesAreReal
<1>1. Init => LocalReleasesAreReal
  BY DEF Init, LocalReleasesAreReal, ReleasedBy
<1>2. Typed /\ TraceInv /\ LocalReleasesAreReal /\ [Next]_vars => LocalReleasesAreReal'
  <2> SUFFICES ASSUME Typed, TraceInv, LocalReleasesAreReal, [Next]_vars, kills' = 0
               PROVE  \A r \in ReleasedBy({"local"})' : Sample \notin {r.art.hist, r.man.hist}
    BY DEF LocalReleasesAreReal
  <2>1. kills = 0
    BY PeopleFields, HandFields, TreeSteps DEF LocalMoves, Untouched, Typed, TypeOK
  <2>2. CASE released' = released
    BY <2>1, <2>2 DEF LocalReleasesAreReal, ReleasedBy
  <2>3. ASSUME NEW w \in Channels, Step(w), Name(w) = "attest", Clean(w),
               released' = {Release(w)}
        PROVE  \A r \in ReleasedBy({"local"})' : Sample \notin {r.art.hist, r.man.hist}
    <3>1. CASE w \in CI
      BY <2>3, <3>1 DEF ReleasedBy, Release, CI
    <3>2. CASE w = "local"
      <4>1. run["local"].step = 24 /\ "local" \in Channels
        BY <2>3, <3>2, LocalPublishes
      <4>2. Release("local").art = tree.art /\ Release("local").man = run["local"].man
        BY <2>3, <3>2, <4>1, LocalRelease
      <4>3. tree.art.hist # Sample /\ run["local"].man.hist # Sample
        BY <2>1, <4>1 DEF TraceInv, Trace, Place
      <4> QED BY <2>3, <3>2, <4>2, <4>3 DEF ReleasedBy
    <3> QED BY <2>3, <3>1, <3>2, LocalPublishes
  <2> QED BY <2>2, <2>3, OthersElsewhere, StepReleases
<1> QED BY <1>1, <1>2, TypeCorrect, TraceHolds, PTL DEF Spec

(* No release shows the history that the harness made up, on any channel,  *)
(* as long as no command in the developer's tree was killed; CI's releases *)
(* never do, since their commit equals what was built from a real one.     *)
THEOREM NoReleaseShowsFiction == Spec => []NoFiction
<1>1. CIInv /\ LocalReleasesAreReal /\ PublishedByAChannel => NoFiction
  BY DEF CIInv, CIReleases, LocalReleasesAreReal, PublishedByAChannel, ReleasedBy, NoFiction
<1> QED BY <1>1, CIInvariant, LocalReal, ReleasedVia, PTL
=============================================================================
