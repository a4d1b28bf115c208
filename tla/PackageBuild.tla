---------------------------- MODULE PackageBuild ----------------------------
(***************************************************************************)
(* sdr.py build and its reproducibility check, run in a working tree that  *)
(* people edit at any moment.  A build is its scripts one after another    *)
(* (PackageFiles!BuildSteps); each reads and writes files of the tree, the *)
(* first that fails ends the build, and anyone may stop it.                *)
(***************************************************************************)
EXTENDS PackageFiles

CONSTANTS
  MaxVersion,   \* how often a source changes
  MaxEdits,     \* how many changes of sources and generated files in all
  MaxStops,     \* how many builds are stopped by hand
  Editable,     \* the sources that change
  Tampered,     \* the generated files somebody edits
  ClassIn,      \* the certification class in each version of the profile
  Rejected      \* <<source, version>> that the script reading it refuses

ASSUME ConstantsAssumption ==
  /\ {MaxVersion, MaxEdits, MaxStops} \subseteq Nat
  /\ Editable \subseteq Source
  /\ Tampered \subseteq Derived
  /\ DOMAIN ClassIn = 0..MaxVersion
  /\ ClassIn[0] \in Class

Writers(f, c) == {i \in 1..Last : f \in DOMAIN Writes(i, c, c)}

(* The order of the scripts, a fact about PackageFiles that TLC evaluates: no
   script writes a source; every derived file has a writer, its last writer
   makes it from the files it should be made of, and no script from that one on
   changes what it was made from, except that a file may grow that no other
   script writes. *)
BuildOrder ==
  \A c \in Class :
    /\ \A n \in 1..Last : DOMAIN Writes(n, c, c) \subseteq Derived
    /\ \A f \in Derived :
         \E i \in Writers(f, c) :
           /\ \A j \in Writers(f, c) : j <= i
           /\ Inputs(c)[f] = Writes(i, c, c)[f]
           /\ \A g \in Inputs(c)[f] :
                /\ g \in File
                /\ \/ g = f /\ Writers(f, c) = {i}
                   \/ \A j \in Writers(g, c) : j < i

ASSUME ScriptsAreOrdered == BuildOrder

\* The scripts that ask class_support.unsupported_class_message.
AsksClass(n) ==
  BuildSteps[n] \in {"sdr", "cpo", "ocr", "scg", "events", "docx", "decisions", "graph",
                    "manifest", "consistency", "reports"}

(* No script writes a source or reads what is not in the tree, whatever class
   the profile names and the inactive classes were built for. *)
ASSUME ScriptsStayInTheTree ==
  /\ Source \cap Derived = {}
  /\ \A n \in 1..Last : \A c, k \in Images(ClassIn) :
       (AsksClass(n) => c \in Class) =>
         \A f \in DOMAIN Writes(n, c, k) : f \in Derived /\ Writes(n, c, k)[f] \subseteq File

(* What the manifest is computed from, and the sources behind it. *)
Back(c, F) == F \cup UNION {Inputs(c)[f] : f \in F \cap Derived}
ASSUME PinsShowTheSources ==
  \A c \in Class :
    /\ Inputs(c)["manifest"] = Manifest(c)["manifest"]
    /\ Source \ {"gates", "lock"} \subseteq Back(c, Back(c, Pinned(c)))

VARIABLES
  version,   \* the version of each source
  content,   \* the contents of each file: the source versions that made it
  pins,      \* what the manifest says of each file it fingerprints
  mode,      \* "idle", "build", or "repro": the command that runs
  step,      \* the script a running build is about to run
  kept,      \* the class build_inactive_classes.py read when it began
  before,    \* what the reproducibility check hashed before its build
  verdict,   \* how the last command ended
  calm,      \* no change of the tree since the last command began
  wasSettled,\* was the tree settled when the last command began
  edits, stops

vars == <<version, content, pins, mode, step, kept, before, verdict, calm, wasSettled,
          edits, stops>>

Token(s) == {<<s, version[s]>>}
Hand(f) == {<<f, "by hand">>}

ClassNow == ClassIn[version["profile"]]
Supported == ClassNow \in Class

Gather(reads, tree) == UNION {tree[g] : g \in reads}

(* The whole tree agrees with itself: every derived file is what its script
   would make of the other files as they are.  Nothing is claimed of a tree
   for a class the package does not support. *)
SettledFile(f, tree) == tree[f] = Gather(Inputs(ClassNow)[f], tree)
Settled(tree) == Supported => \A f \in Derived : SettledFile(f, tree)

Watched == Derived \ (DOMAIN Profiles \cup DOMAIN Registry)

(* validate_upstream.py: the dataset is the one the lock names. *)
Locked == version["dataset"] = version["lock"]

(* validate_package_consistency.py: what the manifest pins is on disk. *)
Consistent == \A f \in DOMAIN pins : content[f] = pins[f]

Refuses(n) == AsksClass(n) /\ ~Supported

(* A platform without guidance ends build_notes.py, a check that is no known
   Config rule ends build_collector_registry.py. *)
Rejects(n) ==
  \/ BuildSteps[n] = "notes" /\ <<"platform", version["platform"]>> \in Rejected
  \/ BuildSteps[n] = "registry" /\ <<"maps", version["maps"]>> \in Rejected

Fails(n) == \/ BuildSteps[n] = "upstream" /\ ~Locked
            \/ BuildSteps[n] = "consistency" /\ ~Consistent
            \/ Refuses(n)
            \/ Rejects(n)

-----------------------------------------------------------------------------
\* The tree after a script that wrote w.
Produced(w, tree) ==
  [f \in File |-> IF f \in DOMAIN w THEN Gather(w[f], tree) ELSE tree[f]]

(* A clone holds the generated files too: they are committed. *)
Cloned(class) ==
  LET after[n \in 0..Last] ==
        IF n = 0 THEN [f \in File |-> IF f \in Source THEN {<<f, 0>>} ELSE {}]
        ELSE Produced(Writes(n, class, class), after[n - 1])
  IN  after[Last]

ASSUME CloneHoldsTheSources ==
  \A c \in Class :
    /\ Cloned(c) \in [File -> SUBSET (Source \X {0})]
    /\ \A s \in Source : Cloned(c)[s] = {<<s, 0>>}

Init ==
  /\ version = [s \in Source |-> 0]
  /\ content = Cloned(ClassIn[0])
  /\ pins = [f \in Pinned(ClassIn[0]) |-> Cloned(ClassIn[0])[f]]
  /\ mode = "idle"
  /\ step = 0
  /\ kept = ClassIn[0]
  /\ before = [f \in Watched |-> {}]
  /\ verdict = "none"
  /\ calm = FALSE
  /\ wasSettled = FALSE
  /\ edits = 0
  /\ stops = 0

Start(m) ==
  /\ mode = "idle"
  /\ mode' = m
  /\ step' = 1
  /\ verdict' = "none"
  /\ calm' = TRUE
  /\ wasSettled' = Settled(content)
  /\ UNCHANGED <<version, content, pins, kept, edits, stops>>

StartBuild == Start("build") /\ UNCHANGED before

StartReproducibilityOnce ==
  Start("repro") /\ before' = IF \A f \in Watched : before[f] = {}
                             THEN [f \in Watched |-> content[f]] ELSE before
(* cmd_reproducibility hashes the watched directories, builds, compares. *)
StartReproducibility ==
  Start("repro") /\ before' = [f \in Watched |-> content[f]]

End(v) ==
  /\ mode' = "idle"
  /\ step' = 0
  /\ verdict' = v

\* build_inactive_classes.py reads the profile once, when it starts.
InactiveBegins == CHOOSE n \in 1..Last : BuildSteps[n] = "sdr1"
KeptNowStale == kept
KeptNowEmpty == IF step <= InactiveBegins THEN "" ELSE kept
KeptNow == IF step <= InactiveBegins THEN ClassNow ELSE kept

RunStep ==
  /\ mode # "idle"
  /\ step <= Last
  /\ ~Fails(step)
  /\ kept' = KeptNow
  /\ content' = Produced(Writes(step, ClassNow, KeptNow), content)
  /\ pins' = IF BuildSteps[step] = "manifest"
             THEN [f \in Pinned(ClassNow) |-> content[f]] ELSE pins
  /\ step' = step + 1
  /\ UNCHANGED <<version, mode, before, verdict, calm, wasSettled, edits, stops>>

FailStep ==
  /\ mode # "idle"
  /\ step <= Last
  /\ Fails(step)
  /\ End("failed")
  /\ UNCHANGED <<version, content, pins, kept, before, calm, wasSettled, edits, stops>>

FinishBuild ==
  /\ mode = "build"
  /\ step > Last
  /\ End("built")
  /\ UNCHANGED <<version, content, pins, kept, before, calm, wasSettled, edits, stops>>

Compare ==
  /\ mode = "repro"
  /\ step > Last
  /\ End(IF \A f \in Watched : before[f] = content[f] THEN "reproducible" ELSE "differs")
  /\ UNCHANGED <<version, content, pins, kept, before, calm, wasSettled, edits, stops>>

\* Ctrl-C, a closed terminal, a runner that is taken away.
Stop ==
  /\ mode # "idle"
  /\ stops < MaxStops
  /\ stops' = stops + 1
  /\ End("stopped")
  /\ UNCHANGED <<version, content, pins, kept, before, calm, wasSettled, edits>>

(* A person, a collection or midnight changes a source. *)
Edit(s) ==
  /\ edits < MaxEdits
  /\ version[s] < MaxVersion
  /\ edits' = edits + 1
  /\ version' = [version EXCEPT ![s] = @ + 1]
  /\ content' = [content EXCEPT ![s] = {<<s, version[s] + 1>>}]
  /\ calm' = FALSE
  /\ UNCHANGED <<pins, mode, step, kept, before, verdict, wasSettled, stops>>

Tamper(f) ==
  /\ edits < MaxEdits
  /\ edits' = edits + 1
  /\ content' = [content EXCEPT ![f] = Hand(f)]
  /\ calm' = FALSE
  /\ UNCHANGED <<version, pins, mode, step, kept, before, verdict, wasSettled, stops>>

Next ==
  \/ StartBuild
  \/ StartReproducibility
  \/ RunStep
  \/ FailStep
  \/ FinishBuild
  \/ Compare
  \/ Stop
  \/ \E s \in Editable : Edit(s)
  \/ \E f \in Tampered : Tamper(f)

(* A script that runs ends, and somebody builds again. *)
Fairness ==
  /\ WF_vars(RunStep \/ FailStep \/ FinishBuild \/ Compare)
  /\ WF_vars(StartBuild)

Spec == Init /\ [][Next]_vars /\ Fairness

-----------------------------------------------------------------------------
Tokens == (Source \X (0..MaxVersion)) \cup {<<f, "by hand">> : f \in Tampered}

(* Every variable holds a value of its kind. *)
TypeOK ==
  /\ version \in [Source -> 0..MaxVersion]
  /\ content \in [File -> SUBSET Tokens]
  /\ DOMAIN pins \subseteq File
  /\ mode \in {"idle", "build", "repro"}
  /\ step \in 0..(Last + 1)
  /\ kept \in Images(ClassIn)
  /\ before \in [Watched -> SUBSET Tokens]
  /\ verdict \in {"none", "built", "failed", "stopped", "reproducible", "differs"}
  /\ {calm, wasSettled} \subseteq BOOLEAN
  /\ edits \in 0..MaxEdits
  /\ stops \in 0..MaxStops

(* One build is enough.  The order of the scripts (sdr.py:282-285 warns that
   another order "silently builds against stale inputs") leaves no file that a
   second build would change, whatever earlier builds were stopped half way,
   failed, or ran for another class, and however generated files were edited. *)
OnePassSettles ==
  calm /\ verdict \in {"built", "reproducible", "differs"} => Settled(content)

(* The reproducibility check does not cry wolf: on a tree that agrees with
   itself, and that nobody touches meanwhile, the second build changes no
   watched file, although build_sdr.py rewrites the record store for three
   classes in turn and keeps what it scaffolded before. *)
NoFalseAlarm ==
  calm /\ verdict = "differs" => ~wasSettled

(* What a signoff binds: after an undisturbed build the manifest depends on
   every source as it is now, except the gate registries, which describe the
   framework and not the package. *)
ManifestSeesEverySource ==
  calm /\ verdict = "built" /\ Supported =>
    \A s \in Source \ {"gates"} : Token(s) \subseteq content["manifest"]

Buildable == Supported /\ Locked /\ \A s \in Source : <<s, version[s]>> \notin Rejected

(* If the sources end in a state that can be built, building again and again
   repairs the tree, whatever was stopped, tampered with or left half built. *)
EventuallySettled ==
  <>[]Buildable => []<>Settled(content)
=============================================================================
