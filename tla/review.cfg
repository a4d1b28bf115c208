\* Two sessions, the producers, an editor and the third-party driver on one KSI.
SPECIFICATION Spec
CONSTANTS
    story = story
    evidence = evidence
    example = example
    Template <- ShippedTemplate
    Prose = {story}
    Drafted = {story}
    Structured = {evidence}
    Evidence = {evidence}
    HumanTexts = {h1}
    DraftTexts = {d1}
    ExampleTexts = {example}
    TBD = TBD
    Collector = collector
    ThirdParty = {scan}
    Sessions = {s1, s2}
    None = None
    MaxOpens = 2
    MaxWrites = 3
    MaxKills = 1
    MaxNow = 2
SYMMETRY SessionSymmetry
INVARIANTS
    TypeOK
    EveryValueHasAnAuthor
    GatePassMeansHumanWord
PROPERTIES
    DecidedIsNotPending
CHECK_DEADLOCK FALSE
