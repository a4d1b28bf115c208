---------------------------- MODULE RecordReview ----------------------------
(***************************************************************************)
(* The record store, the proposals made about it and the people who decide *)
(* them.  records-store.json holds prose fields and, for a KSI, the         *)
(* structured fields tests and evidence.  Two producers write sidecars:    *)
(* copies of the whole store in which they filled fields.  A review         *)
(* session (sdr.py review) loads store, log and sidecars once, asks a human *)
(* about the proposals it found, and in the end writes the whole store and  *)
(* then the whole log.  Meanwhile other sessions, people with an editor and *)
(* the third-party evidence driver write the same store.  The gate compares *)
(* the store with the decisions in the log.                                 *)
(*                                                                         *)
(* Sources: automation/review/review_proposals.py,                         *)
(* validation/scripts/validate_reviews.py, unreviewed_text.py,             *)
(* automation/prefill/prefill_from_facts.py, automation/ai/                *)
(* draft_narratives.py, automation/collectors/apply_third_party_evidence.py *)
(*                                                                         *)
(* Data abstraction.  A prose value is a label and a text; a structured     *)
(* value is a set of dated entries, one or none for each location.  A hash  *)
(* of a value is the value.  A log is a sequence of batches, one for each   *)
(* finished session.  A log file that is missing or cannot be read behaves  *)
(* as the empty log, for the session and for the gate alike.                *)
(***************************************************************************)
EXTENDS Naturals, Sequences

CONSTANTS
    Prose,        \* narrative and extension fields
    Drafted,      \* the prose fields the drafter writes: implementation, validation
    Structured,   \* tests and evidence of KSIs
    Evidence,     \* the structured fields that third-party evidence goes to
    HumanTexts, DraftTexts, ExampleTexts,
    TBD,          \* the template's "TBD: ..." text
    None,
    Collector,    \* evidence location of a collected fact
    ThirdParty,   \* evidence locations of exports
    Template,     \* the record store before anybody worked on it
    Sessions,
    MaxOpens,     \* bound: review sessions started
    MaxWrites,    \* bound: producer runs, edits by hand and applied exports
    MaxKills,     \* bound: sessions that are killed
    MaxNow        \* bound: last observation time

Fields == Prose \cup Structured

Texts == HumanTexts \cup DraftTexts \cup ExampleTexts \cup {TBD}

Labels == {"none", "draft", "example"}

ProseValue == [label : Labels, text : Texts]

Fact == [loc : ThirdParty \cup {Collector}, at : 1 .. MaxNow]

\* A list of entries has one entry for each location.
OnePerLocation(v) == \A d, e \in v : d.loc = e.loc => d = e

IsValue(f, v) == IF f \in Prose THEN v \in ProseValue
                 ELSE v \in SUBSET Fact /\ OnePerLocation(v)

IsStore(r) == r = [f \in Fields |-> r[f]] /\ \A f \in Fields : IsValue(f, r[f])

ASSUME ReviewAssumption ==
    /\ Drafted \subseteq Prose
    /\ Evidence \subseteq Structured
    /\ Prose \cap Structured = {}
    /\ Collector \notin ThirdParty
    /\ HumanTexts \cap (DraftTexts \cup ExampleTexts) = {}
    /\ TBD \notin DraftTexts \cup ExampleTexts
    /\ IsStore(Template)
    /\ None \notin ProseValue
    /\ \A v \in SUBSET Fact : v # None
    /\ \A f \in Prose : Template[f].label = "none" => Template[f].text = TBD
    /\ \A f \in Structured : Template[f] = {}
    /\ {MaxOpens, MaxWrites, MaxKills, MaxNow} \subseteq Nat /\ MaxNow > 0

VARIABLES
    now,        \* observation time of the newest facts
    store,      \* sdr/records/records-store.json
    log,        \* sdr/reviews/field-review-log.json
    prefill,    \* records-store.prefilled.json, or None
    draft,      \* records-store.ai-draft.json, or None
    pc,         \* where each review session is
    asked,      \* the proposals the session asks about
    copy,       \* the session's copy of the store
    book,       \* the session's copy of the log
    accepted,   \* history: what human decisions applied, field by field
    ledger,     \* history: the batches of all finished sessions
    overlap,    \* history: two sessions overlapped, or a log was torn
    opens, writes, kills    \* what the bounds count

files == <<store, log, prefill, draft>>
session == <<pc, asked, copy, book>>
counts == <<opens, writes, kills>>
vars == <<now, store, log, prefill, draft, pc, asked, copy, book,
          accepted, ledger, overlap, opens, writes, kills>>

-----------------------------------------------------------------------------
(* Values and proposals. *)

Plain(text) == [label |-> "none", text |-> text]

\* is_unreviewed
Unreviewed(f, v) == f \in Prose /\ v.label # "none"

\* strip_label
Strip(f, v) == IF f \in Prose THEN Plain(v.text) ELSE v

IsTbd(f, v) == IF f \in Prose THEN v.text = TBD ELSE v = {}

\* The fields each source has a proposal for, in order of precedence.
PrefillProposes(r, pre) ==
    {f \in Structured : pre # None /\ pre[f] # r[f]}
DraftProposes(r, ai) ==
    {f \in Drafted : ai # None /\ ai[f].label = "draft" /\ ai[f] # r[f]}
ExampleProposes(r, ai) ==
    {f \in Prose \ DraftProposes(r, ai) : Unreviewed(f, r[f])}

Proposal(f, v, source) == [field |-> f, proposed |-> v, source |-> source]

Proposals(r, pre, ai) ==
    {Proposal(f, pre[f], "prefill") : f \in PrefillProposes(r, pre)}
    \cup {Proposal(f, ai[f], "ai-draft") : f \in DraftProposes(r, ai)}
    \cup {Proposal(f, r[f], "template-example") : f \in ExampleProposes(r, ai)}

\* The batches of log l that decide field f, and the last decision of them.
Deciding(l, f) == {i \in DOMAIN l : f \in DOMAIN l[i]}

LatestOf(l, f, batches) ==
    IF batches = {} THEN None
    ELSE l[CHOOSE i \in batches : \A j \in batches : j <= i][f]

\* Mutant: the first decision on a field wins.
FirstOn(l, f) ==
    IF Deciding(l, f) = {} THEN None
    ELSE l[CHOOSE i \in Deciding(l, f) : \A j \in Deciding(l, f) : i <= j][f]

LatestOn(l, f) == LatestOf(l, f, Deciding(l, f))

\* split_decided
Decided(p, l) ==
    /\ Deciding(l, p.field) # {}
    /\ LatestOn(l, p.field).proposed = p.proposed

Pending(r, pre, ai, l) == {p \in Proposals(r, pre, ai) : ~ Decided(p, l)}

-----------------------------------------------------------------------------
(* Decisions. *)

Accept == [decision |-> "accepted", text |-> None]
Reject == [decision |-> "rejected", text |-> None]
Edits  == [decision : {"edited"}, text : HumanTexts]

\* Structured fields are accepted or rejected as collected.
Choices(p) == {Accept, Reject} \cup (IF p.field \in Prose THEN Edits ELSE {})

Applied(p, choice) ==
    CASE choice.decision = "accepted" -> Strip(p.field, p.proposed)
      [] choice.decision = "edited"   -> Plain(choice.text)
      [] choice.decision = "rejected" -> None

Entry(p, choice) ==
    [decision |-> choice.decision, proposed |-> p.proposed, applied |-> Applied(p, choice)]

FieldsOf(ps) == {p.field : p \in ps}

ProposalFor(ps, f) == CHOOSE p \in ps : p.field = f

Batch(choice) ==
    [f \in FieldsOf(DOMAIN choice) |->
        LET p == ProposalFor(DOMAIN choice, f) IN Entry(p, choice[p])]

\* Mutant: a rejected proposal is applied as well.
ApplyRejectedToo(r, choice) ==
    [f \in Fields |-> IF f \in FieldsOf(DOMAIN choice)
                      THEN Strip(f, ProposalFor(DOMAIN choice, f).proposed)
                      ELSE r[f]]

\* apply_decisions on the loaded store: a rejection leaves the field alone.
Apply(r, choice) ==
    [f \in Fields |->
        IF f \in FieldsOf(DOMAIN choice) /\ Batch(choice)[f].applied # None
        THEN Batch(choice)[f].applied ELSE r[f]]

-----------------------------------------------------------------------------
Init ==
    /\ now = 1
    /\ store = Template
    /\ log = <<>>
    /\ prefill = None
    /\ draft = None
    /\ pc = [s \in Sessions |-> "away"]
    /\ asked = [s \in Sessions |-> {}]
    /\ copy = [s \in Sessions |-> Template]
    /\ book = [s \in Sessions |-> <<>>]
    /\ accepted = [f \in Fields |-> {}]
    /\ ledger = <<>>
    /\ overlap = FALSE
    /\ opens = 0
    /\ writes = 0
    /\ kills = 0

Tick ==
    /\ now < MaxNow
    /\ now' = now + 1
    /\ UNCHANGED <<files, session, accepted, ledger, overlap, counts>>

-----------------------------------------------------------------------------
(* The producers of sidecars.  Each reads the store, fills the fields it has *)
(* facts for in a copy and writes the copy over its last sidecar.            *)

Fillable == {f \in Structured : IsTbd(f, store[f])}

\* The sidecar is written even when no structured field is filled: prefill also
\* drafts a summary line that no review ever moves to the store.
RunPrefill ==
    \E fs \in SUBSET Fillable :
        /\ prefill' = [f \in Fields |-> IF f \in fs THEN {[loc |-> Collector, at |-> now]}
                                        ELSE store[f]]
        /\ UNCHANGED <<now, store, log, draft, session, accepted, ledger, overlap, opens, kills>>

Draftable == {f \in Drafted : IsTbd(f, store[f]) \/ Unreviewed(f, store[f])}

\* A rule's draft may be the curated example, with its own label.
Drafts == [label : {"draft"}, text : DraftTexts] \cup [label : {"example"}, text : ExampleTexts]

RunDrafter ==
    \E fs \in (SUBSET Draftable) \ {{}} :
    \E new \in [fs -> Drafts] :
        /\ draft' = [f \in Fields |-> IF f \in fs THEN new[f] ELSE store[f]]
        /\ UNCHANGED <<now, store, log, prefill, session, accepted, ledger,
                       overlap, opens, kills>>

-----------------------------------------------------------------------------
(* Other writers of the store. *)

\* A person edits a field of the JSON file.
EditByHand ==
    /\ \E f \in Prose, text \in HumanTexts : store' = [store EXCEPT ![f] = Plain(text)]
    /\ UNCHANGED <<now, log, prefill, draft, session, accepted, ledger,
                   overlap, opens, kills>>

\* _is_newer: the content hashes differ.  The timestamps it would compare are
\* not fields of an evidence entry, whose date is in lastUpdated.
IsNewer(entry, prior) == entry # prior

\* Mutant: a newer entry is added beside the one at its location.
UpsertBeside(entries, entry) ==
    LET prior == {p \in entries : p.loc = entry.loc} IN
    IF \A p \in prior : IsNewer(entry, p) THEN entries \cup {entry} ELSE entries

\* _upsert_evidence with one located entry.
Upsert(entries, entry) ==
    LET prior == {p \in entries : p.loc = entry.loc} IN
    IF \A p \in prior : IsNewer(entry, p) THEN (entries \ prior) \cup {entry} ELSE entries

\* An export observed at some time up to now is applied to the KSIs it is bound to.
ApplyThirdParty ==
    /\ \E entry \in [loc : ThirdParty, at : 1 .. now] :
          store' = [f \in Fields |-> IF f \in Evidence THEN Upsert(store[f], entry)
                                     ELSE store[f]]
    /\ UNCHANGED <<now, log, prefill, draft, session, accepted, ledger,
                   overlap, opens, kills>>

-----------------------------------------------------------------------------
(* A review session. *)

Leave(s) == pc' = [pc EXCEPT ![s] = "away"]

Forget(s) ==
    /\ asked' = [asked EXCEPT ![s] = {}]
    /\ copy' = [copy EXCEPT ![s] = Template]
    /\ book' = [book EXCEPT ![s] = <<>>]

\* run: store, sidecars and log are loaded once; --all asks the decided
\* proposals again.
Open(s) ==
    /\ pc[s] = "away"
    /\ opens < MaxOpens
    /\ opens' = opens + 1
    /\ \E items \in {Pending(store, prefill, draft, log), Proposals(store, prefill, draft)} :
          items # {} /\ asked' = [asked EXCEPT ![s] = items]
    /\ copy' = [copy EXCEPT ![s] = store]
    /\ book' = [book EXCEPT ![s] = log]
    /\ pc' = [pc EXCEPT ![s] = "walking"]
    /\ overlap' = (overlap \/ \E t \in Sessions : pc[t] # "away")
    /\ UNCHANGED <<now, files, accepted, ledger, writes, kills>>

\* No decision was made: nothing is written.
Quit(s) ==
    /\ pc[s] = "walking"
    /\ Leave(s) /\ Forget(s)
    /\ UNCHANGED <<now, files, accepted, ledger, overlap, counts>>

\* The named human's decisions on some of the proposals are applied to the copies.
Decide(s) ==
    /\ pc[s] = "walking"
    /\ \E ps \in (SUBSET asked[s]) \ {{}} :
       \E choice \in [ps -> UNION {Choices(p) : p \in ps}] :
          /\ \A p \in ps : choice[p] \in Choices(p)
          /\ copy' = [copy EXCEPT ![s] = Apply(@, choice)]
          /\ book' = [book EXCEPT ![s] = Append(@, Batch(choice))]
          /\ accepted' = [f \in Fields |->
                            IF f \in FieldsOf(ps)
                            THEN accepted[f] \cup ({Batch(choice)[f].applied} \ {None})
                            ELSE accepted[f]]
    /\ pc' = [pc EXCEPT ![s] = "decided"]
    /\ UNCHANGED <<now, files, asked, ledger, overlap, counts>>

WriteStore(s) ==
    /\ pc[s] = "decided"
    /\ store' = copy[s]
    /\ pc' = [pc EXCEPT ![s] = "stored"]
    /\ UNCHANGED <<now, log, prefill, draft, asked, copy, book, accepted,
                   ledger, overlap, counts>>

\* Mutant: the new log holds this session's batch only.
WriteLogAnew(s) ==
    /\ pc[s] = "stored"
    /\ log' = <<book[s][Len(book[s])]>>
    /\ ledger' = Append(ledger, book[s][Len(book[s])])
    /\ Leave(s) /\ Forget(s)
    /\ UNCHANGED <<now, store, prefill, draft, accepted, overlap, counts>>

WriteLog(s) ==
    /\ pc[s] = "stored"
    /\ log' = book[s]
    /\ ledger' = Append(ledger, book[s][Len(book[s])])
    /\ Leave(s) /\ Forget(s)
    /\ UNCHANGED <<now, store, prefill, draft, accepted, overlap, counts>>

\* The session is killed before a write, or in the middle of writing the log,
\* which leaves a file that does not parse.
Kill(s) ==
    /\ pc[s] # "away"
    /\ kills < MaxKills
    /\ kills' = kills + 1
    /\ \/ UNCHANGED <<log, overlap>>
       \/ pc[s] = "stored" /\ log' = <<>> /\ overlap' = TRUE
    /\ Leave(s) /\ Forget(s)
    /\ UNCHANGED <<now, store, prefill, draft, accepted, ledger, opens, writes>>

-----------------------------------------------------------------------------
Review(s) == Open(s) \/ Quit(s) \/ Decide(s) \/ WriteStore(s) \/ WriteLog(s) \/ Kill(s)

\* The bound is on the others' writes; their counter is no part of the program.
Others ==
    /\ writes < MaxWrites
    /\ writes' = writes + 1
    /\ RunPrefill \/ RunDrafter \/ EditByHand \/ ApplyThirdParty

Next ==
    \/ Tick
    \/ Others
    \/ \E s \in Sessions : Review(s)

Spec == Init /\ [][Next]_vars

-----------------------------------------------------------------------------
(* The gate: validate_reviews on the field log. *)

AppliesValue(e) == e # None /\ e.decision \in {"accepted", "edited"}

GatePasses == \A f \in Fields :
    AppliesValue(LatestOn(log, f)) => store[f] = LatestOn(log, f).applied

-----------------------------------------------------------------------------
(* Invariants. *)

IsProposal(p) ==
    /\ p = Proposal(p.field, p.proposed, p.source)
    /\ p.field \in Fields
    /\ IsValue(p.field, p.proposed)

IsEntry(f, e) ==
    /\ e = [decision |-> e.decision, proposed |-> e.proposed, applied |-> e.applied]
    /\ e.decision \in {"accepted", "edited", "rejected"}
    /\ IsValue(f, e.proposed)
    /\ e.applied # None => IsValue(f, e.applied)

IsBatch(b) == DOMAIN b \in (SUBSET Fields) \ {{}} /\ \A f \in DOMAIN b : IsEntry(f, b[f])

IsLog(l) == l \in Seq({l[i] : i \in DOMAIN l}) /\ \A i \in DOMAIN l : IsBatch(l[i])

\* Every file holds what its readers expect, and so does every session: lists of
\* entries have one entry for each location (apply_third_party_evidence.py:83-111).
TypeOK ==
    /\ now \in 1 .. MaxNow
    /\ IsStore(store) /\ IsLog(log)
    /\ prefill # None => IsStore(prefill)
    /\ draft # None => IsStore(draft)
    /\ pc \in [Sessions -> {"away", "walking", "decided", "stored"}]
    /\ DOMAIN asked = Sessions /\ DOMAIN copy = Sessions /\ DOMAIN book = Sessions
    /\ \A s \in Sessions :
          /\ \A p \in asked[s] : IsProposal(p)
          /\ IsStore(copy[s]) /\ IsLog(book[s])
    /\ DOMAIN accepted = Fields
    /\ IsLog(ledger)
    /\ overlap \in BOOLEAN
    /\ {opens, writes, kills} \subseteq Nat

\* Value v of field f was put there by somebody: prose that a machine wrote is
\* still labelled or is among the values that humans applied, and a collected
\* fact came in one of those.
HasAuthor(f, v, applied) ==
    IF f \in Prose
    THEN v.label = "none" /\ v.text \in DraftTexts \cup ExampleTexts => v \in applied
    ELSE \A e \in v : e.loc = Collector => \E w \in applied : e \in w

\* No drafted or example sentence and no collected fact becomes the provider's
\* record without a named human's acceptance of it, however sessions, edits and
\* sidecars interleave (review_proposals.py:24-31).
EveryValueHasAnAuthor == \A f \in Fields : HasAuthor(f, store[f], accepted[f])

\* A passing gate means what it says (review_proposals.py:17-22).  Whatever
\* sessions overlap, are killed or tear their log: a field whose latest logged
\* decision applied a value holds a value that a human decision applied to that
\* very field.  And as long as sessions come one after the other and no log was
\* torn, also with sessions stopped between their two writes, it holds the value
\* of the latest decision anybody took on it.
GatePassMeansHumanWord ==
    GatePasses =>
        \A f \in Fields :
            /\ AppliesValue(LatestOn(log, f)) => store[f] \in accepted[f]
            /\ ~ overlap /\ AppliesValue(LatestOn(ledger, f)) =>
                  store[f] = LatestOn(ledger, f).applied

\* While sessions come one after the other and no log is torn, the log is the
\* ledger, and the session at work holds that log, with its own batch once it
\* has decided.
OneAfterTheOther ==
    ~ overlap =>
        /\ log = ledger
        /\ \A s, t \in Sessions : pc[s] # "away" /\ pc[t] # "away" => s = t
        /\ \A s \in Sessions :
              /\ pc[s] = "walking" => book[s] = log
              /\ pc[s] \in {"decided", "stored"} =>
                    book[s] = Append(log, book[s][Len(book[s])])

\* A session that decided has a batch to write.
BatchesAreReady == \A s \in Sessions : pc[s] \in {"decided", "stored"} => book[s] # <<>>

\* Every value has an author in the store and in every session's copy.
CopiesHaveAuthors ==
    \A f \in Fields :
        /\ HasAuthor(f, store[f], accepted[f])
        /\ \A s \in Sessions : HasAuthor(f, copy[s][f], accepted[f])

\* What the batches of a log applied to a field, human decisions applied to it.
IsAccepted(l) ==
    \A i \in DOMAIN l : \A f \in DOMAIN l[i] :
        AppliesValue(l[i][f]) => l[i][f].applied \in accepted[f]

\* The log and every session's copy of it record decisions that were taken.
LogsAreAccepted == IsAccepted(log) /\ \A s \in Sessions : IsAccepted(book[s])

\* The inductive invariant of the proofs.
IInv == TypeOK /\ OneAfterTheOther /\ BatchesAreReady /\ CopiesHaveAuthors /\ LogsAreAccepted

-----------------------------------------------------------------------------
(* Action properties. *)

\* What a session decided is decided: when its log is written, no proposal it
\* decided is pending any more, even if another session wrote in between or the
\* field had been decided on another proposal (review_proposals.py:222-236).
DecidedIsNotPending ==
    [][\A s \in Sessions : WriteLog(s) =>
          LET batch == book[s][Len(book[s])] IN
          \A p \in Pending(store', prefill', draft', log') :
              p.field \in DOMAIN batch => batch[p.field].proposed # p.proposed]_vars
=============================================================================
