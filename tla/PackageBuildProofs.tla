------------------------- MODULE PackageBuildProofs -------------------------
(***************************************************************************)
(* Proofs that one undisturbed build settles the tree, and that it changes *)
(* nothing in a settled one, for any number of versions, edits and stops,  *)
(* whatever may be edited, and whatever tree the build starts from.  They  *)
(* rest on the order of the scripts alone (ScriptsAreOrdered), a finite    *)
(* fact about PackageFiles.  That the manifest depends on every source     *)
(* also rests on what the scripts read and pin (PinsShowTheSources).       *)
(***************************************************************************)
EXTENDS PackageBuild, TLAPS

(* The files whose last script has run when script n is next. *)
Behind(n, c) ==
  {f \in Derived : /\ \E i \in Writers(f, c) : i < n
                   /\ \A i \in Writers(f, c) : i < n}

Running == mode # "idle"

(* In an undisturbed build every file whose last script has run is settled,
   although the rest of the tree may still hold anything. *)
IInv ==
  /\ Running => step \in 1..(Last + 1)
  /\ calm /\ Running /\ step > InactiveBegins => kept = ClassNow
  /\ calm /\ Running /\ Supported =>
       \A f \in Behind(step, ClassNow) : SettledFile(f, content)
  /\ Running => verdict = "none"
  /\ calm /\ verdict \in {"built", "reproducible", "differs"} => Settled(content)

USE DEF Running

(* One script's files: a file it writes for the last time is settled by it,
   a file settled before stays settled. *)
LEMMA ScriptSettles ==
  ASSUME NEW c \in Class, NEW n \in 1..Last, NEW tree,
         NEW after, after = Produced(Writes(n, c, c), tree),
         \A f \in Behind(n, c) : tree[f] = Gather(Inputs(c)[f], tree)
  PROVE  \A f \in Behind(n + 1, c) : after[f] = Gather(Inputs(c)[f], after)
<1> DEFINE W == Writes(n, c, c)
<1> HIDE DEF W
<1> SUFFICES ASSUME NEW f \in Behind(n + 1, c)
             PROVE  after[f] = Gather(Inputs(c)[f], after)
  OBVIOUS
<1>0. Last \in Nat
  BY DEF Last, BuildSteps
<1>1. f \in Derived /\ f \in File
  BY DEF Behind, File
<1>2. PICK i \in Writers(f, c) :
        /\ \A j \in Writers(f, c) : j <= i
        /\ Inputs(c)[f] = Writes(i, c, c)[f]
        /\ \A g \in Inputs(c)[f] :
             /\ g \in File
             /\ \/ g = f /\ Writers(f, c) = {i}
                \/ \A j \in Writers(g, c) : j < i
  BY <1>1, ScriptsAreOrdered DEF BuildOrder
<1>3. i \in 1..Last /\ i <= n /\ i \in Nat /\ n \in Nat
  BY <1>0, <1>2 DEF Behind, Writers
<1>4. \A g \in File : after[g] = IF g \in DOMAIN W THEN Gather(W[g], tree) ELSE tree[g]
  BY DEF Produced, W
<1>5. \A g : g \in DOMAIN W <=> n \in Writers(g, c)
  BY DEF W, Writers
<1>6. CASE i = n
  <2>1. f \in DOMAIN W /\ Inputs(c)[f] = W[f]
    BY <1>2, <1>5, <1>6 DEF W
  <2>2. after[f] = Gather(Inputs(c)[f], tree)
    BY <1>1, <1>4, <2>1
  <2>3. \A g \in Inputs(c)[f] : g \in File /\ (g # f => after[g] = tree[g])
    <3> SUFFICES ASSUME NEW g \in Inputs(c)[f], g # f PROVE after[g] = tree[g]
      BY <1>2
    <3>1. g \in File /\ n \notin Writers(g, c)
      BY <1>2, <1>3, <1>6
    <3> QED BY <3>1, <1>4, <1>5
  <2>4. CASE f \notin Inputs(c)[f]
    <3>1. \A g \in Inputs(c)[f] : after[g] = tree[g]
      BY <2>3, <2>4
    <3>2. {after[g] : g \in Inputs(c)[f]} = {tree[g] : g \in Inputs(c)[f]}
      BY <3>1
    <3> QED BY <3>2, <2>2 DEF Gather
  <2>5. CASE f \in Inputs(c)[f]
    <3>1. after[f] \subseteq Gather(Inputs(c)[f], after)
      BY <2>5 DEF Gather
    <3>2. \A g \in Inputs(c)[f] : after[g] \subseteq after[f]
      <4> TAKE g \in Inputs(c)[f]
      <4>1. CASE g = f BY <4>1
      <4>2. CASE g # f
        <5>1. after[g] = tree[g] BY <2>3, <4>2
        <5>2. tree[g] \subseteq Gather(Inputs(c)[f], tree) BY DEF Gather
        <5> QED BY <5>1, <5>2, <2>2
      <4> QED BY <4>1, <4>2
    <3>3. Gather(Inputs(c)[f], after) \subseteq after[f]
      BY <3>2 DEF Gather
    <3> QED BY <3>1, <3>3
  <2> QED BY <2>4, <2>5
<1>7. CASE i # n
  <2>1. i < n BY <1>3, <1>7
  <2>2. \A j \in Writers(f, c) : j < n
    <3> TAKE j \in Writers(f, c)
    <3>1. j \in Nat BY DEF Writers
    <3> QED BY <3>1, <1>2, <1>3, <2>1
  <2>3. f \in Behind(n, c)
    BY <1>1, <1>2, <2>1, <2>2 DEF Behind
  <2>4. f \notin DOMAIN W
    BY <1>5, <2>2, <1>3
  <2>5. \A g \in Inputs(c)[f] : after[g] = tree[g]
    <3> TAKE g \in Inputs(c)[f]
    <3>1. g \in File /\ n \notin Writers(g, c)
      BY <1>2, <1>3, <2>1
    <3> QED BY <3>1, <1>4, <1>5
  <2>6. after[f] = tree[f]
    BY <1>1, <1>4, <2>4
  <2>7. {after[g] : g \in Inputs(c)[f]} = {tree[g] : g \in Inputs(c)[f]}
    BY <2>5
  <2>8. tree[f] = Gather(Inputs(c)[f], tree)
    BY <2>3
  <2> QED BY <2>6, <2>7, <2>8 DEF Gather
<1> QED BY <1>6, <1>7

LEMMA NothingBehindAtTheStart ==
  ASSUME NEW c PROVE Behind(1, c) = {}
<1>1. \A f, i : i \in Writers(f, c) => ~(i < 1)
  BY DEF Writers, Last, BuildSteps
<1> QED BY <1>1 DEF Behind

LEMMA AllBehindAtTheEnd ==
  ASSUME NEW c \in Class PROVE Derived \subseteq Behind(Last + 1, c)
<1> SUFFICES ASSUME NEW f \in Derived PROVE f \in Behind(Last + 1, c)
  OBVIOUS
<1>0. Last \in Nat BY DEF Last, BuildSteps
<1>1. \A i \in Writers(f, c) : i \in 1..Last /\ i < Last + 1
  BY <1>0 DEF Writers
<1>2. \E i \in Writers(f, c) : TRUE
  BY ScriptsAreOrdered DEF BuildOrder
<1> QED BY <1>1, <1>2 DEF Behind

LEMMA InitIInv == Init => IInv
  BY DEF Init, IInv

(* Settledness speaks of the tree and of the class, so a step that changes
   neither keeps it. *)
LEMMA SameTree ==
  ASSUME content' = content, version' = version
  PROVE  /\ ClassNow' = ClassNow /\ Supported' = Supported
         /\ Settled(content)' = Settled(content)
         /\ \A f : SettledFile(f, content)' = SettledFile(f, content)
  BY DEF ClassNow, Supported, Settled, SettledFile

LEMMA StartKeeps ==
  ASSUME NEW m \in {"build", "repro"}, Start(m), IInv
  PROVE  IInv'
<1>1. step' = 1 /\ verdict' = "none"
  BY DEF Start
<1>2. Last \in Nat /\ InactiveBegins \in Nat /\ 1 <= InactiveBegins
  <2>1. BuildSteps[6] = "sdr1" /\ 6 \in 1..Last
    BY DEF BuildSteps, Last
  <2> QED BY <2>1 DEF InactiveBegins, Last, BuildSteps
<1>3. Behind(1, ClassNow') = {}
  BY NothingBehindAtTheStart
<1>4. ~(1 > InactiveBegins)
  BY <1>2
<1>5. (calm /\ Running /\ Supported =>
        \A f \in Behind(step, ClassNow) : SettledFile(f, content))'
  BY <1>1, <1>3
<1> QED BY <1>1, <1>2, <1>4, <1>5 DEF IInv

LEMMA EndKeeps ==
  ASSUME NEW v, End(v), IInv, content' = content, version' = version, calm' = calm,
         v \in {"built", "reproducible", "differs"} =>
           mode # "idle" /\ step > Last
  PROVE  IInv'
<1>1. ~Running' /\ verdict' = v
  BY DEF End
<1>2. ASSUME calm, v \in {"built", "reproducible", "differs"} PROVE Settled(content)
  <2>1. Running /\ step = Last + 1
    <3>1. step \in 1..(Last + 1) /\ step > Last /\ Last \in Nat
      BY <1>2 DEF IInv, Last, BuildSteps
    <3> QED BY <3>1, <1>2
  <2> SUFFICES ASSUME Supported PROVE \A f \in Derived : SettledFile(f, content)
    BY DEF Settled
  <2>2. \A f \in Behind(Last + 1, ClassNow) : SettledFile(f, content)
    BY <1>2, <2>1 DEF IInv
  <2>3. ClassNow \in Class
    BY DEF Supported
  <2> QED BY <2>2, <2>3, AllBehindAtTheEnd
<1>3. Settled(content)' = Settled(content)
  BY SameTree
<1> QED BY <1>1, <1>2, <1>3 DEF IInv

LEMMA RunStepKeeps ==
  ASSUME RunStep, IInv PROVE IInv'
<1>0. Last \in Nat /\ InactiveBegins \in Nat
  <2>1. BuildSteps[6] = "sdr1" /\ 6 \in 1..Last
    BY DEF BuildSteps, Last
  <2> QED BY <2>1 DEF InactiveBegins, Last, BuildSteps
<1>1. /\ step \in 1..Last /\ step' = step + 1
      /\ version' = version /\ mode' = mode /\ verdict' = verdict /\ calm' = calm
      /\ kept' = KeptNow
      /\ content' = Produced(Writes(step, ClassNow, KeptNow), content)
      /\ Running /\ verdict = "none"
  BY <1>0 DEF RunStep, IInv
<1>2. ClassNow' = ClassNow /\ Supported' = Supported
  BY <1>1 DEF ClassNow, Supported
<1>3. (Running => step \in 1..(Last + 1))'
  BY <1>0, <1>1
<1>4. calm => KeptNow = ClassNow
  BY <1>0, <1>1 DEF IInv, KeptNow
<1>5. (calm /\ Running /\ step > InactiveBegins => kept = ClassNow)'
  BY <1>1, <1>2, <1>4
<1>6. (calm /\ Running /\ Supported =>
         \A f \in Behind(step, ClassNow) : SettledFile(f, content))'
  <2> SUFFICES ASSUME calm, Supported
               PROVE \A f \in Behind(step + 1, ClassNow) : SettledFile(f, content)'
    BY <1>1, <1>2
  <2>1. ClassNow \in Class
    BY DEF Supported
  <2>2. content' = Produced(Writes(step, ClassNow, ClassNow), content)
    BY <1>1, <1>4
  <2>3. \A f \in Behind(step, ClassNow) : content[f] = Gather(Inputs(ClassNow)[f], content)
    BY <1>1 DEF IInv, SettledFile
  <2>4. \A f \in Behind(step + 1, ClassNow) :
          content'[f] = Gather(Inputs(ClassNow)[f], content')
    BY <1>1, <2>1, <2>2, <2>3, ScriptSettles
  <2> QED BY <2>4, <1>2 DEF SettledFile
<1> QED BY <1>1, <1>3, <1>5, <1>6 DEF IInv

LEMMA NextKeeps == IInv /\ [Next]_vars => IInv'
<1> SUFFICES ASSUME IInv, [Next]_vars PROVE IInv'
  OBVIOUS
<1>1. CASE StartBuild
  BY <1>1, StartKeeps DEF StartBuild
<1>2. CASE StartReproducibility
  BY <1>2, StartKeeps DEF StartReproducibility
<1>3. CASE RunStep
  BY <1>3, RunStepKeeps
<1>4. CASE FailStep
  <2>1. End("failed") BY <1>4 DEF FailStep
  <2> QED BY <2>1, <1>4, EndKeeps DEF FailStep
<1>5. CASE FinishBuild
  <2>1. End("built") /\ mode # "idle" /\ step > Last BY <1>5 DEF FinishBuild
  <2> QED BY <2>1, <1>5, EndKeeps DEF FinishBuild
<1>6. CASE Compare
  <2>1. PICK v : End(v) /\ v \in {"reproducible", "differs"}
    BY <1>6 DEF Compare
  <2>2. mode # "idle" /\ step > Last BY <1>6 DEF Compare
  <2> QED BY <2>1, <2>2, <1>6, EndKeeps DEF Compare
<1>7. CASE Stop
  <2>1. End("stopped") BY <1>7 DEF Stop
  <2> QED BY <2>1, <1>7, EndKeeps DEF Stop
<1>8. CASE \E s \in Editable : Edit(s)
  BY <1>8 DEF Edit, IInv
<1>9. CASE \E f \in Tampered : Tamper(f)
  BY <1>9 DEF Tamper, IInv
<1>10. CASE UNCHANGED vars
  <2>1. content' = content /\ version' = version BY <1>10 DEF vars
  <2> QED BY <1>10, <2>1, SameTree DEF vars, IInv
<1> QED BY <1>1, <1>2, <1>3, <1>4, <1>5, <1>6, <1>7, <1>8, <1>9, <1>10 DEF Next

(* Whatever happened before, a build that nobody disturbs leaves every file
   as its script would make it from the other files as they are. *)
THEOREM OneBuildIsEnough == Spec => []OnePassSettles
<1>1. IInv => OnePassSettles
  BY DEF IInv, OnePassSettles
<1> QED BY <1>1, InitIInv, NextKeeps, PTL DEF Spec

-----------------------------------------------------------------------------
(* A build of a settled tree.                                              *)

(* The files that no script, or every script that writes them, is still to
   write when script n is next.  The others are halfway: build_sdr.py has
   written the guidance of another class, for instance. *)
Steady(n, c) ==
  {f \in File : \/ f \in Derived /\ \A i \in Writers(f, c) : i < n
                \/ \A i \in Writers(f, c) : n <= i}

SettledTree(tree, c) == \A f \in Derived : tree[f] = Gather(Inputs(c)[f], tree)

(* The tree the build started from is known by what it still has of it. *)
Repeats ==
  \E start : /\ SettledTree(start, ClassNow)
             /\ \A f \in Watched : before[f] = start[f]
             /\ \A f \in Steady(step, ClassNow) : content[f] = start[f]

\* The first script that asks for a supported class.
FirstToRefuse == 10

RInv ==
  /\ calm /\ Running /\ ~Supported => step <= FirstToRefuse
  /\ calm /\ mode = "repro" /\ wasSettled /\ Supported => Repeats
  /\ NoFalseAlarm

LEMMA Places ==
  /\ Last = 26 /\ BuildSteps[FirstToRefuse] = "sdr" /\ FirstToRefuse < Last
BY DEF Last, BuildSteps, FirstToRefuse

(* One script on a tree that was settled: what it writes for the last time
   comes out as it was, since what it reads is as it was. *)
LEMMA ScriptRepeats ==
  ASSUME NEW c \in Class, NEW n \in 1..Last, NEW tree, NEW start,
         NEW after, after = Produced(Writes(n, c, c), tree),
         SettledTree(start, c),
         \A f \in Steady(n, c) : tree[f] = start[f]
  PROVE  \A f \in Steady(n + 1, c) : after[f] = start[f]
<1> DEFINE W == Writes(n, c, c)
<1> HIDE DEF W
<1> SUFFICES ASSUME NEW f \in Steady(n + 1, c) PROVE after[f] = start[f]
  OBVIOUS
<1>1. f \in File /\ n \in Nat
  BY Places DEF Steady
<1>2. after[f] = IF f \in DOMAIN W THEN Gather(W[f], tree) ELSE tree[f]
  BY <1>1 DEF Produced, W
<1>3. \A g : n \in Writers(g, c) <=> g \in DOMAIN W
  BY DEF W, Writers
<1>4. \A g : \A i \in Writers(g, c) : i \in Nat
  BY DEF Writers
<1>5. \A g : Writers(g, c) # {} => g \in Derived
  BY ScriptsAreOrdered DEF BuildOrder, Writers
<1>6. CASE n \notin Writers(f, c)
  <2>1. \A i \in Writers(f, c) : (i < n + 1 => i < n) /\ (n + 1 <= i => n <= i)
    BY <1>1, <1>4, <1>6
  <2>2. f \in Steady(n, c)
    BY <2>1 DEF Steady
  <2> QED BY <1>2, <1>3, <1>6, <2>2
<1>7. CASE n \in Writers(f, c)
  <2>0. ~(n + 1 <= n)
    BY <1>1
  <2>1. f \in Derived /\ \A j \in Writers(f, c) : j < n + 1
    BY <1>7, <2>0 DEF Steady
  <2>2. PICK i \in Writers(f, c) :
          /\ \A j \in Writers(f, c) : j <= i
          /\ Inputs(c)[f] = Writes(i, c, c)[f]
          /\ \A g \in Inputs(c)[f] :
               /\ g \in File
               /\ \/ g = f /\ Writers(f, c) = {i}
                  \/ \A j \in Writers(g, c) : j < i
    BY <2>1, ScriptsAreOrdered DEF BuildOrder
  <2>3. i = n
    <3>1. n <= i /\ i < n + 1
      BY <1>7, <2>1, <2>2
    <3>2. i \in Nat
      BY <1>4
    <3> QED BY <1>1, <3>1, <3>2
  <2>4. ASSUME NEW g \in Inputs(c)[f] PROVE tree[g] = start[g]
    <3>1. g \in File
      BY <2>2
    <3>2. CASE g = f /\ Writers(f, c) = {i}
      <4>1. \A j \in Writers(f, c) : n <= j
        BY <1>1, <2>3, <3>2
      <4> QED BY <1>1, <3>2, <4>1 DEF Steady
    <3>3. CASE \A j \in Writers(g, c) : j < n
      <4>1. g \in Steady(n, c)
        BY <1>5, <3>1, <3>3 DEF Steady
      <4> QED BY <4>1
    <3> QED BY <2>2, <2>3, <3>2, <3>3
  <2>5. {tree[g] : g \in Inputs(c)[f]} = {start[g] : g \in Inputs(c)[f]}
    BY <2>4
  <2>6. after[f] = Gather(Inputs(c)[f], tree)
    BY <1>2, <1>3, <1>7, <2>2, <2>3 DEF W
  <2>7. start[f] = Gather(Inputs(c)[f], start)
    BY <2>1 DEF SettledTree
  <2> QED BY <2>5, <2>6, <2>7 DEF Gather
<1> QED BY <1>6, <1>7

\* When the last script has run no file is halfway.
LEMMA SteadyAtTheEnd ==
  ASSUME NEW c PROVE Derived \subseteq Steady(Last + 1, c)
<1>1. \A f : \A i \in Writers(f, c) : i < Last + 1
  BY Places DEF Writers
<1> QED BY <1>1 DEF Steady, File

LEMMA InitRInv == Init => RInv
  BY DEF Init, RInv, NoFalseAlarm

LEMMA StartRepeats ==
  ASSUME NEW m \in {"build", "repro"}, Start(m),
         m = "repro" => before' = [f \in Watched |-> content[f]]
  PROVE  RInv'
<1>1. /\ mode' = m /\ step' = 1 /\ verdict' = "none"
      /\ version' = version /\ content' = content
      /\ wasSettled' = Settled(content)
  BY DEF Start
<1>2. ClassNow' = ClassNow /\ Supported' = Supported
  BY <1>1 DEF ClassNow, Supported
<1>3. 1 <= FirstToRefuse
  BY DEF FirstToRefuse
<1>4. ASSUME m = "repro", Settled(content), Supported PROVE Repeats'
  <2>1. SettledTree(content, ClassNow)
    BY <1>4 DEF Settled, SettledFile, SettledTree
  <2>2. \A f \in Watched : before'[f] = content[f]
    BY <1>4
  <2>3. /\ SettledTree(content, ClassNow')
        /\ \A f \in Watched : before'[f] = content[f]
        /\ \A f \in Steady(step', ClassNow') : content'[f] = content[f]
    BY <1>1, <1>2, <2>1, <2>2
  <2> QED BY <2>3 DEF Repeats
<1> QED BY <1>1, <1>2, <1>3, <1>4 DEF RInv, NoFalseAlarm

LEMMA RunStepRepeats ==
  ASSUME IInv, RInv, RunStep PROVE RInv'
<1>1. /\ step \in 1..Last /\ step' = step + 1 /\ ~Fails(step)
      /\ version' = version /\ mode' = mode /\ verdict' = verdict /\ calm' = calm
      /\ wasSettled' = wasSettled /\ before' = before
      /\ content' = Produced(Writes(step, ClassNow, KeptNow), content)
      /\ Running /\ verdict = "none"
  BY Places DEF RunStep, IInv
<1>2. ClassNow' = ClassNow /\ Supported' = Supported
  BY <1>1 DEF ClassNow, Supported
<1>3. ASSUME calm, ~Supported PROVE step + 1 <= FirstToRefuse
  <2>1. step <= FirstToRefuse
    BY <1>1, <1>3 DEF RInv
  <2>2. step # FirstToRefuse
    BY <1>1, <1>3, Places DEF Fails, Refuses, AsksClass
  <2> QED BY <1>1, <2>1, <2>2, Places DEF FirstToRefuse
<1>4. ASSUME calm, mode = "repro", wasSettled, Supported PROVE Repeats'
  <2>1. PICK start :
          /\ SettledTree(start, ClassNow)
          /\ \A f \in Watched : before[f] = start[f]
          /\ \A f \in Steady(step, ClassNow) : content[f] = start[f]
    BY <1>4 DEF RInv, Repeats
  <2>2. ClassNow \in Class
    BY <1>4 DEF Supported
  <2>3. KeptNow = ClassNow
    <3>1. InactiveBegins \in Nat
      <4>1. BuildSteps[6] = "sdr1" /\ 6 \in 1..Last
        BY DEF BuildSteps, Last
      <4> QED BY <4>1 DEF InactiveBegins, Last, BuildSteps
    <3> QED BY <1>1, <1>4, <3>1 DEF IInv, KeptNow
  <2>4. content' = Produced(Writes(step, ClassNow, ClassNow), content)
    BY <1>1, <2>3
  <2>5. \A f \in Steady(step + 1, ClassNow) : content'[f] = start[f]
    BY <1>1, <2>1, <2>2, <2>4, ScriptRepeats
  <2>6. /\ SettledTree(start, ClassNow')
        /\ \A f \in Watched : before'[f] = start[f]
        /\ \A f \in Steady(step', ClassNow') : content'[f] = start[f]
    BY <1>1, <1>2, <2>1, <2>5
  <2> QED BY <2>6 DEF Repeats
<1> QED BY <1>1, <1>2, <1>3, <1>4 DEF RInv, NoFalseAlarm

(* The comparison finds nothing: a command that gets this far asked for a
   supported class, and every file has had its last script. *)
LEMMA CompareAgrees ==
  ASSUME IInv, RInv, Compare, calm, wasSettled
  PROVE  verdict' # "differs"
<1>1. mode = "repro" /\ step > Last /\ Running
  BY DEF Compare
<1>2. step = Last + 1
  BY <1>1, Places DEF IInv
<1>3. Supported
  BY <1>1, <1>2, Places DEF RInv, FirstToRefuse
<1>4. PICK start :
        /\ \A f \in Watched : before[f] = start[f]
        /\ \A f \in Steady(step, ClassNow) : content[f] = start[f]
  BY <1>1, <1>3 DEF RInv, Repeats
<1>5. \A f \in Watched : before[f] = content[f]
  BY <1>2, <1>4, SteadyAtTheEnd DEF Watched
<1>6. End("reproducible")
  BY <1>5 DEF Compare
<1> QED BY <1>6 DEF End

LEMMA NextRepeats == IInv /\ RInv /\ [Next]_vars => RInv'
<1> SUFFICES ASSUME IInv, RInv, [Next]_vars PROVE RInv'
  OBVIOUS
<1>1. CASE StartBuild
  BY <1>1, StartRepeats DEF StartBuild
<1>2. CASE StartReproducibility
  BY <1>2, StartRepeats DEF StartReproducibility
<1>3. CASE RunStep
  BY <1>3, RunStepRepeats
<1>4. CASE FailStep \/ FinishBuild \/ Stop
  BY <1>4 DEF FailStep, FinishBuild, Stop, End, RInv, NoFalseAlarm
<1>5. CASE Compare
  <2>1. mode' = "idle" /\ calm' = calm /\ wasSettled' = wasSettled
    BY <1>5 DEF Compare, End
  <2>2. calm /\ wasSettled => verdict' # "differs"
    BY <1>5, CompareAgrees
  <2> QED BY <2>1, <2>2 DEF RInv, NoFalseAlarm
<1>6. CASE \E s \in Editable : Edit(s)
  BY <1>6 DEF Edit, RInv, NoFalseAlarm
<1>7. CASE \E f \in Tampered : Tamper(f)
  BY <1>7 DEF Tamper, RInv, NoFalseAlarm
<1>8. CASE UNCHANGED vars
  <2>1. ClassNow' = ClassNow /\ Supported' = Supported /\ Repeats' = Repeats
    BY <1>8 DEF vars, ClassNow, Supported, Repeats
  <2> QED BY <1>8, <2>1 DEF vars, RInv, NoFalseAlarm
<1> QED BY <1>1, <1>2, <1>3, <1>4, <1>5, <1>6, <1>7, <1>8 DEF Next

(* The reproducibility check reports no difference in a tree that agrees with
   itself and that nobody touches: whatever came before, whatever class the
   profile names, and although build_sdr.py writes the guidance of two other
   classes on the way (sdr.py cmd_reproducibility). *)
THEOREM ReproducibilityIsHonest == Spec => []NoFalseAlarm
<1>1. RInv => NoFalseAlarm
  BY DEF RInv
<1> QED BY <1>1, InitIInv, NextKeeps, InitRInv, NextRepeats, PTL DEF Spec

-----------------------------------------------------------------------------
(* Types, and the sources in the tree.                                     *)

(* Every source is in the tree in its present version, whoever builds. *)
SourcesStand == \A s \in Source : content[s] = Token(s)

LEMMA ClassesNamed ==
  ASSUME TypeOK
  PROVE  ClassNow \in Images(ClassIn) /\ KeptNow \in Images(ClassIn)
<1>1. version["profile"] \in DOMAIN ClassIn
  BY ConstantsAssumption DEF TypeOK, Source
<1>2. ClassNow \in Images(ClassIn)
  BY <1>1 DEF ClassNow, Images
<1> QED BY <1>2 DEF TypeOK, KeptNow

\* What the manifest fingerprints is in the tree.
LEMMA PinnedFiles ==
  ASSUME NEW c \in Class
  PROVE  Pinned(c) \subseteq Inputs(c)["manifest"] /\ Pinned(c) \subseteq File
<1>1. Inputs(c)["manifest"] = Manifest(c)["manifest"]
  BY PinsShowTheSources
<1>2. Pinned(c) \subseteq Inputs(c)["manifest"]
  BY <1>1 DEF Manifest
<1>3. "manifest" \in Derived
  BY DEF Derived
<1>4. Inputs(c)["manifest"] \subseteq File
  BY <1>3, ScriptsAreOrdered DEF BuildOrder
<1> QED BY <1>2, <1>4

LEMMA InitTyped == Init => TypeOK /\ SourcesStand
<1> SUFFICES ASSUME Init PROVE TypeOK /\ SourcesStand
  OBVIOUS
<1>1. version \in [Source -> 0..MaxVersion]
  BY ConstantsAssumption DEF Init
<1>2. \A t \in Source \X {0} : t \in Tokens
  <2>1. 0 \in 0..MaxVersion
    BY ConstantsAssumption
  <2> QED BY <2>1 DEF Tokens
<1>3. content \in [File -> SUBSET Tokens]
  <2>1. content \in [File -> SUBSET (Source \X {0})]
    BY ConstantsAssumption, CloneHoldsTheSources DEF Init
  <2> QED BY <1>2, <2>1
<1>4. DOMAIN pins \subseteq File
  BY PinnedFiles, ConstantsAssumption DEF Init
<1>5. kept \in Images(ClassIn)
  BY ConstantsAssumption DEF Init, Images
<1>6. before \in [Watched -> SUBSET Tokens]
  BY DEF Init
<1>7. step \in 0..(Last + 1) /\ edits \in 0..MaxEdits /\ stops \in 0..MaxStops
  BY Places, ConstantsAssumption DEF Init
<1>8. TypeOK
  BY <1>1, <1>3, <1>4, <1>5, <1>6, <1>7 DEF Init, TypeOK
<1>9. \A s \in Source : version[s] = 0 /\ content[s] = {<<s, 0>>}
  BY ConstantsAssumption, CloneHoldsTheSources DEF Init
<1> QED BY <1>8, <1>9 DEF SourcesStand, Token

\* A script gathers source versions from files of the tree, into derived files.
LEMMA RunStepTyped ==
  ASSUME IInv, TypeOK, SourcesStand, RunStep
  PROVE  TypeOK' /\ SourcesStand'
<1> DEFINE w == Writes(step, ClassNow, KeptNow)
<1>1. /\ step \in 1..Last /\ step' = step + 1 /\ ~Fails(step)
      /\ version' = version /\ kept' = KeptNow
      /\ content' = Produced(w, content)
  BY Places DEF RunStep, IInv
<1>2. AsksClass(step) => ClassNow \in Class
  BY <1>1 DEF Fails, Refuses, Supported
<1>3. \A f \in DOMAIN w : f \in Derived /\ w[f] \subseteq File
  BY <1>1, <1>2, ClassesNamed, ScriptsStayInTheTree
<1> HIDE DEF w
<1>4. ASSUME NEW f \in File PROVE content'[f] \in SUBSET Tokens
  <2>1. content'[f] = IF f \in DOMAIN w THEN Gather(w[f], content) ELSE content[f]
    BY <1>1 DEF Produced
  <2>2. CASE f \in DOMAIN w
    <3>1. \A g \in w[f] : content[g] \subseteq Tokens
      BY <1>3, <2>2 DEF TypeOK
    <3> QED BY <2>1, <2>2, <3>1 DEF Gather
  <2>3. CASE f \notin DOMAIN w
    BY <2>1, <2>3 DEF TypeOK
  <2> QED BY <2>2, <2>3
<1>5. content' \in [File -> SUBSET Tokens]
  BY <1>1, <1>4 DEF Produced
<1>6. DOMAIN pins' \subseteq File
  <2>1. CASE BuildSteps[step] = "manifest"
    <3>1. ClassNow \in Class
      BY <1>2, <2>1 DEF AsksClass
    <3>2. DOMAIN pins' = Pinned(ClassNow)
      BY <2>1 DEF RunStep
    <3> QED BY <3>1, <3>2, PinnedFiles
  <2>2. CASE BuildSteps[step] # "manifest"
    BY <2>2 DEF RunStep, TypeOK
  <2> QED BY <2>1, <2>2
<1>7. kept' \in Images(ClassIn)
  BY <1>1, ClassesNamed
<1>8. step' \in 0..(Last + 1)
  BY <1>1, Places
<1>9. TypeOK'
  BY <1>1, <1>5, <1>6, <1>7, <1>8 DEF RunStep, TypeOK
<1>10. \A s \in Source : content'[s] = content[s]
  BY <1>1, <1>3, ScriptsStayInTheTree DEF Produced, File
<1> QED BY <1>1, <1>9, <1>10 DEF SourcesStand, Token

LEMMA EditTyped ==
  ASSUME TypeOK, SourcesStand, NEW s \in Editable, Edit(s)
  PROVE  TypeOK' /\ SourcesStand'
<1>1. s \in Source /\ s \in File
  BY ConstantsAssumption DEF File
<1>2. version[s] \in 0..MaxVersion /\ version[s] < MaxVersion /\ MaxVersion \in Nat
  BY <1>1, ConstantsAssumption DEF TypeOK, Edit
<1>3. version[s] + 1 \in 0..MaxVersion
  BY <1>2
<1>4. version' = [version EXCEPT ![s] = version[s] + 1]
      /\ content' = [content EXCEPT ![s] = {<<s, version[s] + 1>>}]
  BY DEF Edit
<1>5. version' \in [Source -> 0..MaxVersion]
  BY <1>1, <1>3, <1>4 DEF TypeOK
<1>6. {<<s, version[s] + 1>>} \in SUBSET Tokens
  <2>1. <<s, version[s] + 1>> \in Source \X (0..MaxVersion)
    BY <1>1, <1>3
  <2> QED BY <2>1 DEF Tokens
<1>7. content' \in [File -> SUBSET Tokens]
  BY <1>4, <1>6 DEF TypeOK
<1>8. edits' \in 0..MaxEdits
  BY ConstantsAssumption DEF TypeOK, Edit
<1>9. TypeOK'
  BY <1>5, <1>7, <1>8 DEF TypeOK, Edit
<1>10. ASSUME NEW t \in Source PROVE content'[t] = {<<t, version'[t]>>}
  <2>1. t \in File /\ content[t] = {<<t, version[t]>>}
    BY DEF File, SourcesStand, Token
  <2> QED BY <1>1, <1>4, <2>1 DEF TypeOK
<1> QED BY <1>9, <1>10 DEF SourcesStand, Token

LEMMA TamperTyped ==
  ASSUME TypeOK, SourcesStand, NEW f \in Tampered, Tamper(f)
  PROVE  TypeOK' /\ SourcesStand'
<1>1. f \in Derived /\ f \in File /\ f \notin Source
  BY ConstantsAssumption, ScriptsStayInTheTree DEF File
<1>2. Hand(f) \in SUBSET Tokens
  BY DEF Hand, Tokens
<1>3. content' = [content EXCEPT ![f] = Hand(f)]
  BY DEF Tamper
<1>4. content' \in [File -> SUBSET Tokens]
  BY <1>2, <1>3 DEF TypeOK
<1>5. edits' \in 0..MaxEdits
  BY ConstantsAssumption DEF TypeOK, Tamper
<1>6. TypeOK'
  BY <1>4, <1>5 DEF TypeOK, Tamper
<1>7. \A s \in Source : content'[s] = content[s]
  BY <1>1, <1>3 DEF TypeOK, File
<1> QED BY <1>6, <1>7 DEF SourcesStand, Token, Tamper

LEMMA NextTyped ==
  IInv /\ TypeOK /\ SourcesStand /\ [Next]_vars => TypeOK' /\ SourcesStand'
<1> SUFFICES ASSUME IInv, TypeOK, SourcesStand, [Next]_vars
             PROVE  TypeOK' /\ SourcesStand'
  OBVIOUS
<1>0. Watched \subseteq File
  BY DEF Watched, File
<1>9. ASSUME NEW m \in {"build", "repro"}, Start(m)
      PROVE  /\ mode' \in {"idle", "build", "repro"} /\ step' \in 0..(Last + 1)
             /\ verdict' = "none" /\ {calm', wasSettled'} \subseteq BOOLEAN
             /\ version' = version /\ content' = content /\ pins' = pins
             /\ kept' = kept /\ edits' = edits /\ stops' = stops
  <2>1. wasSettled' \in BOOLEAN
    BY <1>9 DEF Start, Settled
  <2>2. step' \in 0..(Last + 1)
    BY <1>9, Places DEF Start
  <2> QED BY <1>9, <2>1, <2>2 DEF Start
<1>1. CASE StartBuild
  BY <1>1, <1>9 DEF StartBuild, TypeOK, SourcesStand, Token
<1>2. CASE StartReproducibility
  <2>1. before' \in [Watched -> SUBSET Tokens]
    BY <1>0, <1>2 DEF StartReproducibility, TypeOK
  <2> QED BY <1>2, <1>9, <2>1 DEF StartReproducibility, TypeOK, SourcesStand, Token
<1>3. CASE RunStep
  BY <1>3, RunStepTyped
<1>4. CASE FailStep \/ FinishBuild \/ Compare
  BY <1>4, Places DEF FailStep, FinishBuild, Compare, End, TypeOK, SourcesStand, Token
<1>5. CASE Stop
  BY <1>5, Places, ConstantsAssumption DEF Stop, End, TypeOK, SourcesStand, Token
<1>6. CASE \E s \in Editable : Edit(s)
  BY <1>6, EditTyped
<1>7. CASE \E f \in Tampered : Tamper(f)
  BY <1>7, TamperTyped
<1>8. CASE UNCHANGED vars
  BY <1>8 DEF vars, TypeOK, SourcesStand, Token
<1> QED BY <1>1, <1>2, <1>3, <1>4, <1>5, <1>6, <1>7, <1>8 DEF Next

(* Every file is made of source versions there are, whatever is stopped, edited
   or built for a class the package does not support. *)
THEOREM TypeCorrect == Spec => []TypeOK
<1> QED BY InitTyped, NextTyped, InitIInv, NextKeeps, PTL DEF Spec

-----------------------------------------------------------------------------
(* What the manifest depends on.                                           *)

\* In a settled tree a file shows whatever is behind the files it is made of.
LEMMA BackShows ==
  ASSUME NEW c, NEW F, NEW tree, NEW all, SettledTree(tree, c),
         \A f \in F : tree[f] \subseteq all
  PROVE  \A f \in Back(c, F) : tree[f] \subseteq all
<1> SUFFICES ASSUME NEW f \in F \cap Derived, NEW g \in Inputs(c)[f]
             PROVE  tree[g] \subseteq all
  BY DEF Back
<1>1. tree[f] = UNION {tree[h] : h \in Inputs(c)[f]}
  BY DEF SettledTree, Gather
<1> QED BY <1>1

(* What a signoff binds, for any number of edits and stops: the manifest of an
   undisturbed build has seen every source as it is now, but for the registries
   of the gates (build_manifest.py). *)
THEOREM SignoffCoversTheSources == Spec => []ManifestSeesEverySource
<1>1. ASSUME SourcesStand, IInv, calm, verdict = "built", Supported,
             NEW s \in Source \ {"gates"}
      PROVE  Token(s) \subseteq content["manifest"]
  <2> DEFINE all == content["manifest"]
  <2>1. ClassNow \in Class
    BY <1>1 DEF Supported
  <2>2. SettledTree(content, ClassNow)
    BY <1>1 DEF IInv, Settled, SettledFile, SettledTree
  <2>3. "manifest" \in Derived
    BY DEF Derived
  <2>4. \A f \in Inputs(ClassNow)["manifest"] : content[f] \subseteq all
    BY <2>2, <2>3 DEF SettledTree, Gather
  <2>5. CASE s = "lock"
    <3>1. "lock" \in Inputs(ClassNow)["manifest"]
      BY <2>1, PinsShowTheSources DEF Manifest
    <3>2. content[s] \subseteq all
      BY <2>4, <2>5, <3>1
    <3> QED BY <1>1, <3>2 DEF SourcesStand
  <2>6. CASE s # "lock"
    <3>1. \A f \in Pinned(ClassNow) : content[f] \subseteq all
      BY <2>1, <2>4, PinnedFiles
    <3> HIDE DEF all
    <3>2. \A f \in Back(ClassNow, Pinned(ClassNow)) : content[f] \subseteq all
      BY <2>2, <3>1, BackShows
    <3>3. \A f \in Back(ClassNow, Back(ClassNow, Pinned(ClassNow))) :
            content[f] \subseteq all
      BY <2>2, <3>2, BackShows
    <3>4. s \in Back(ClassNow, Back(ClassNow, Pinned(ClassNow)))
      BY <2>1, <2>6, PinsShowTheSources
    <3>5. content[s] \subseteq all
      BY <3>3, <3>4
    <3> QED BY <1>1, <3>5 DEF SourcesStand, all
  <2> QED BY <2>5, <2>6
<1>2. SourcesStand /\ IInv => ManifestSeesEverySource
  BY <1>1 DEF ManifestSeesEverySource
<1> QED BY <1>2, InitTyped, NextTyped, InitIInv, NextKeeps, PTL DEF Spec
=============================================================================
