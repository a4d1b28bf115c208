---------------------------- MODULE PackageFiles ----------------------------
(***************************************************************************)
(* The files of the certification package and the scripts that compute     *)
(* them: sdr.py build, its 23 scripts under validation/scripts, and what   *)
(* each output is computed from.                                           *)
(*                                                                         *)
(* The data are abstracted to their provenance.  A source is a file people *)
(* write (or the calendar); a derived file is a function of the files its  *)
(* script reads, so it is described by the set of those files.  Three      *)
(* "files" are parts of sdr/records/records-store.json: records is what    *)
(* people author, guidance the fill_guidance blocks build_sdr.py rewrites  *)
(* on every run, scaffoldX the placeholder entries it adds for the rules   *)
(* of Class X and never removes.                                           *)
(***************************************************************************)
EXTENDS Naturals, Sequences, FiniteSets, TLC

Class == {"a", "b", "c"}

\* Outputs that exist once per class.
ProfileOf  == [a |-> "profileA",  b |-> "profileB",  c |-> "profileC"]
ScaffoldOf == [a |-> "scaffoldA", b |-> "scaffoldB", c |-> "scaffoldC"]
SdrOf      == [a |-> "sdrA",  b |-> "sdrB",  c |-> "sdrC"]
ExtOf      == [a |-> "extA",  b |-> "extB",  c |-> "extC"]
TxtOf      == [a |-> "txtA",  b |-> "txtB",  c |-> "txtC"]
DocxOf     == [a |-> "docxA", b |-> "docxB", c |-> "docxC"]
MasOf      == [a |-> "masA",  b |-> "masB",  c |-> "masC"]

Images(f) == {f[x] : x \in DOMAIN f}

(* What people write: the pinned dataset and the lock that names its hash,
   the offering profile, the authored records, the review register, the
   platform guidance, the collector maps, the MAS inventory, the test and
   gate registries, the requirements, the hand-written package scope; and
   the two inputs that are not in the repository: the metric history and
   the calendar (the UTC day of build_sdr.py, now of the graph). *)
Source == {"dataset", "lock", "profile", "records", "register", "platform",
           "maps", "inventory", "gates", "requirements", "scope",
           "history", "day"}

-----------------------------------------------------------------------------
(* One definition per script: the files it writes, each with the files it  *)
(* is computed from.  c is the class the script builds for.                *)

Catalogs ==
  [ruleCatalog |-> {"dataset"}, ksiCatalog |-> {"dataset"}]

RuleNotes == "ruleNotes" :> {"dataset", "ruleCatalog", "profile", "platform"}
KsiNotes  == "ksiNotes"  :> {"dataset", "ksiCatalog", "profile", "platform"}
FamilyNames == "familyNames" :> {"dataset"}
Notes == RuleNotes @@ KsiNotes @@ FamilyNames

ClassAProfile == "profileA" :> {"ruleCatalog", "dataset", "familyNames"}
ClassProfiles == [profileB |-> {"ruleCatalog", "familyNames"},
                  profileC |-> {"ruleCatalog", "familyNames"}]
Overlay   == "overlay" :> {"ruleCatalog", "familyNames"}
Readiness == "readiness" :> {"ruleCatalog", "familyNames"}
KsiProfile == "ksiProfile" :> {"ksiCatalog", "ruleCatalog", "dataset"}
NonProvider == "nonProvider" :> {"ruleCatalog", "dataset"}
Profiles == ClassAProfile @@ ClassProfiles @@ Overlay @@ Readiness
              @@ KsiProfile @@ NonProvider

Registry == "registry" :> {"maps"}

(* build_sdr.py for class c.  The SDR renders the records of the rules and
   indicators in scope and the windows of the metric history that end today;
   entries it lacks are scaffolded in the same run, and kept for good. *)
Scope(c) == {"profile", ProfileOf[c], "ksiProfile"}
HistoryWindows == {"history", "day"}
RecordText == {"records"}
Scaffold(c) == ScaffoldOf[c] :> ({ScaffoldOf[c]} \cup Scope(c))
Guidance(c) == "guidance" :> (Scope(c) \cup {"ruleNotes", "ksiNotes", "familyNames"})
Official(c) == SdrOf[c] :> (Scope(c) \cup RecordText \cup HistoryWindows \cup {"familyNames"})
Extensions(c) == ExtOf[c] :> (Scope(c) \cup RecordText
                                \cup {"ruleNotes", "ksiNotes", "familyNames"})
HumanText(c) == TxtOf[c] :> (Scope(c) \cup RecordText \cup HistoryWindows \cup {"familyNames"})
Sdr(c) == Scaffold(c) @@ Guidance(c) @@ Official(c) @@ Extensions(c) @@ HumanText(c)

Docx(c) == DocxOf[c] :> {"profile", ProfileOf[c], "ksiProfile", "records", ScaffoldOf[c],
                         "ruleNotes", "ksiNotes", "familyNames"}

RequiredInformation(c) == {"dataset", "profile", ProfileOf[c]}
Cpo(c) == "cpo" :> (RequiredInformation(c) \cup {"profile"})
Ocr    == "ocr" :> {"profile"}
Scg    == "scg" :> {"profile"}
Events == "events" :> {"profile"}
Oscal  == "oscal" :> Images(SdrOf)
Crosswalk == "crosswalk" :> {"ksiCatalog", "familyNames"}
Decisions(c) ==
  "decisions" :> ({"profile", "dataset", "ruleCatalog"}
                    \cup IF c = "a" THEN {"profileA"} ELSE {})

\* The review blocks of the graph nodes come from the review register, their
\* evidence's freshness from the time of the build.
ReviewBlocks   == {"register"}
EvidenceNodes(c) == {"records", ScaffoldOf[c], "day"}
Graph(c) == "graph" :> (ReviewBlocks \cup EvidenceNodes(c)
                          \cup {"profile", ProfileOf[c], "ksiProfile", SdrOf[c]})

KnownIds    == {"ruleCatalog", "ksiCatalog", "dataset"}
GateEntries == {"gates", "profile"}
TestMap == "testMap" :> (KnownIds \cup GateEntries \cup {"ksiProfile"} \cup Images(ProfileOf))

Bindings == {"registry", "maps", "profile"}
MasCoverage(c) ==
  MasOf[c] :> ({"inventory", "profile", "records", ScaffoldOf[c], "ksiProfile", "dataset",
                ProfileOf[c]} \cup Bindings)
Mas == MasCoverage("a") @@ MasCoverage("b") @@ MasCoverage("c")

Sbom == "sbom" :> {"requirements"}

(* The manifest hashes the artifacts of the active class and, so that a
   signoff also notices a change no artifact shows, the profile and the
   whole record store; for Class C the metric history as well.  The review
   register is left out. *)
PinnedArtifacts(c) ==
  {SdrOf[c], ExtOf[c], TxtOf[c], DocxOf[c], "cpo", "ocr", "scg", "events", "graph",
   "decisions", "crosswalk", MasOf[c], "sbom", "scope"}
RecordStore == {"records", "guidance"} \cup Images(ScaffoldOf)
PinnedInputs(c) ==
  {"profile"} \cup RecordStore \cup (IF c = "c" THEN {"history"} ELSE {})
Pinned(c) == PinnedArtifacts(c) \cup PinnedInputs(c)
ManifestNoGraph(c) ==   \* mutant: the graph, and with it the register, is left out
  [manifest |-> (Pinned(c) \ {"graph"}) \cup {"lock", "requirements"}]
Manifest(c) == [manifest |-> Pinned(c) \cup {"lock", "requirements"}]

CoverageReport == "coverage" :> {"graph"}
ReviewerPackage == "reviewer" :> {"graph", "decisions", "profile"}
Reports == CoverageReport @@ ReviewerPackage
View == "view" :> {"graph"}

-----------------------------------------------------------------------------
(* The scripts in the order of sdr.py build.  build_inactive_classes.py    *)
(* runs build_sdr.py and build_docx.py for the two other classes, before   *)
(* the active class is built.                                              *)

BuildSteps ==
  <<"upstream", "catalogs", "notes", "profiles", "registry",
    "sdr1", "docx1", "sdr2", "docx2",
    "sdr", "cpo", "ocr", "scg", "events", "oscal", "docx", "crosswalk", "decisions",
    "graph", "testMap", "mas", "sbom", "manifest", "consistency", "reports", "view">>

Last == Len(BuildSteps)

\* The classes build_inactive_classes.py builds when the profile says c.
Inactive(c) == CASE c = "a" -> <<"b", "c">>
                 [] c = "b" -> <<"a", "c">>
                 [] c = "c" -> <<"a", "b">>
                 [] OTHER   -> <<>>

(* What step n writes, and from what: c is the class the profile names when
   the step runs, k the class it named when the inactive classes began. *)
Writes(n, c, k) ==
  LET step  == BuildSteps[n]
      other == Inactive(k)
  IN  CASE step = "catalogs"  -> Catalogs
        [] step = "notes"     -> Notes
        [] step = "profiles"  -> Profiles
        [] step = "registry"  -> Registry
        [] step = "sdr1" /\ other # <<>>  -> Sdr(other[1])
        [] step = "docx1" /\ other # <<>> -> Docx(other[1])
        [] step = "sdr2" /\ other # <<>>  -> Sdr(other[2])
        [] step = "docx2" /\ other # <<>> -> Docx(other[2])
        [] step = "sdr"       -> Sdr(c)
        [] step = "cpo"       -> Cpo(c)
        [] step = "ocr"       -> Ocr
        [] step = "scg"       -> Scg
        [] step = "events"    -> Events
        [] step = "oscal"     -> Oscal
        [] step = "docx"      -> Docx(c)
        [] step = "crosswalk" -> Crosswalk
        [] step = "decisions" -> Decisions(c)
        [] step = "graph"     -> Graph(c)
        [] step = "testMap"   -> TestMap
        [] step = "mas"       -> Mas
        [] step = "sbom"      -> Sbom
        [] step = "manifest"  -> Manifest(c)
        [] step = "reports"   -> Reports
        [] step = "view"      -> View
        [] OTHER              -> <<>>

Derived == DOMAIN Catalogs \cup DOMAIN Notes \cup DOMAIN Profiles \cup DOMAIN Registry
             \cup Images(ScaffoldOf) \cup Images(SdrOf) \cup Images(ExtOf)
             \cup Images(TxtOf) \cup Images(DocxOf) \cup Images(MasOf)
             \cup {"guidance", "cpo", "ocr", "scg", "events", "oscal", "crosswalk",
                   "decisions", "graph", "testMap", "sbom", "manifest",
                   "coverage", "reviewer", "view"}
File == Source \cup Derived

(* The files each derived file is computed from when Class c is active,
   whatever the order of the scripts: every class has its own SDR, and the
   guidance in the record store is that of the active class. *)
Inputs(c) ==
  Sdr(c) @@ Sdr(Inactive(c)[1]) @@ Sdr(Inactive(c)[2]) @@ Docx("a") @@ Docx("b") @@ Docx("c")
    @@ Catalogs @@ Notes @@ Profiles @@ Registry @@ Cpo(c) @@ Ocr @@ Scg @@ Events @@ Oscal
    @@ Crosswalk @@ Decisions(c) @@ Graph(c) @@ TestMap @@ Mas @@ Sbom @@ Manifest(c)
    @@ Reports @@ View
=============================================================================
