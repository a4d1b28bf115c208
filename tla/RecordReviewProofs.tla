------------------------- MODULE RecordReviewProofs -------------------------
(***************************************************************************)
(* Theorems about RecordReview for any number of sessions, fields, texts   *)
(* and locations: its inductive invariant, and from it the authorship of   *)
(* every value, the meaning of a passing gate and the end of a decided     *)
(* proposal.                                                               *)
(***************************************************************************)
EXTENDS RecordReview, SequenceTheorems, WellFoundedInduction, TLAPS

-----------------------------------------------------------------------------
(* Values and decisions. *)

\* The texts of the three writers and the template's are texts.
LEMMA PlainIsValue ==
    ASSUME NEW text \in Texts, NEW f \in Prose
    PROVE  IsValue(f, Plain(text))
BY DEF IsValue, Plain, ProseValue, Labels

\* Accepting a proposal strips its label and leaves a value of its field.
LEMMA StripIsValue ==
    ASSUME NEW f \in Fields, NEW v, IsValue(f, v)
    PROVE  IsValue(f, Strip(f, v))
BY PlainIsValue DEF IsValue, Strip, ProseValue

\* What a decision logs is an entry of its field.
LEMMA EntryIsEntry ==
    ASSUME NEW p, IsProposal(p), NEW choice \in Choices(p)
    PROVE  IsEntry(p.field, Entry(p, choice))
<1>1. CASE choice = Accept
  BY <1>1, StripIsValue DEF IsProposal, Accept, Applied, Entry, IsEntry
<1>2. CASE choice = Reject
  BY <1>2 DEF IsProposal, Reject, Applied, Entry, IsEntry
<1>3. CASE p.field \in Prose /\ choice \in Edits
  <2>1. choice.decision = "edited" /\ choice.text \in Texts
    BY <1>3 DEF Edits, Texts
  <2>2. IsValue(p.field, Plain(choice.text))
    BY <1>3, <2>1, PlainIsValue
  <2>3. Entry(p, choice) = [decision |-> "edited", proposed |-> p.proposed,
                            applied |-> Plain(choice.text)]
    BY <2>1 DEF Entry, Applied
  <2> QED BY <2>2, <2>3 DEF IsProposal, IsEntry
<1> QED BY <1>1, <1>2, <1>3 DEF Choices

\* A field that was decided has a proposal among the decided ones.
LEMMA ProposalForIsOne ==
    ASSUME NEW ps, NEW f \in FieldsOf(ps)
    PROVE  ProposalFor(ps, f) \in ps /\ ProposalFor(ps, f).field = f
BY DEF FieldsOf, ProposalFor

\* The decisions of a session, as Decide takes them.
IsDecision(ps, choice) ==
    /\ ps # {} /\ DOMAIN choice = ps
    /\ \A p \in ps : IsProposal(p) /\ choice[p] \in Choices(p)

\* A session's decisions make a batch, with an entry for each decided field.
LEMMA BatchIsBatch ==
    ASSUME NEW ps, NEW choice, IsDecision(ps, choice)
    PROVE  IsBatch(Batch(choice)) /\ DOMAIN Batch(choice) = FieldsOf(ps)
<1>1. DOMAIN Batch(choice) = FieldsOf(ps)
  BY DEF Batch, IsDecision
<1>2. FieldsOf(ps) \in (SUBSET Fields) \ {{}}
  <2>1. \A p \in ps : p.field \in Fields /\ p.field \in FieldsOf(ps)
    BY DEF FieldsOf, IsDecision, IsProposal
  <2>2. FieldsOf(ps) \subseteq Fields
    BY <2>1 DEF FieldsOf
  <2>3. FieldsOf(ps) # {}
    BY <2>1 DEF IsDecision
  <2> QED BY <2>2, <2>3
<1>3. ASSUME NEW f \in FieldsOf(ps) PROVE IsEntry(f, Batch(choice)[f])
  <2> DEFINE p == ProposalFor(ps, f)
  <2>1. p \in ps /\ p.field = f
    BY ProposalForIsOne
  <2>2. Batch(choice)[f] = Entry(p, choice[p])
    BY DEF Batch, IsDecision
  <2>3. IsProposal(p) /\ choice[p] \in Choices(p)
    BY <2>1 DEF IsDecision
  <2> HIDE DEF p
  <2> QED BY <2>1, <2>2, <2>3, EntryIsEntry
<1> QED BY <1>1, <1>2, <1>3 DEF IsBatch

\* Applying decisions to a store makes a store.
LEMMA ApplyIsStore ==
    ASSUME NEW r, IsStore(r), NEW ps, NEW choice, IsDecision(ps, choice)
    PROVE  IsStore(Apply(r, choice))
<1>1. DOMAIN choice = ps
  BY DEF IsDecision
<1>2. ASSUME NEW f \in Fields PROVE IsValue(f, Apply(r, choice)[f])
  <2>1. CASE f \in FieldsOf(ps) /\ Batch(choice)[f].applied # None
    <3>1. IsEntry(f, Batch(choice)[f])
      BY <2>1, BatchIsBatch DEF IsBatch
    <3> QED BY <1>1, <2>1, <3>1 DEF Apply, IsEntry
  <2>2. CASE ~ (f \in FieldsOf(ps) /\ Batch(choice)[f].applied # None)
    BY <1>1, <2>2 DEF Apply, IsStore
  <2> QED BY <2>1, <2>2
<1>3. Apply(r, choice) = [f \in Fields |-> Apply(r, choice)[f]]
  BY DEF Apply
<1> QED BY <1>2, <1>3 DEF IsStore

\* A log with one more batch is a log.
LEMMA AppendIsLog ==
    ASSUME NEW l, IsLog(l), NEW b, IsBatch(b)
    PROVE  /\ IsLog(Append(l, b)) /\ Append(l, b) # <<>>
           /\ Append(l, b) = Append(l, Append(l, b)[Len(Append(l, b))])
<1> DEFINE S == {l[i] : i \in DOMAIN l} \cup {b}
           a == Append(l, b)
           E == {a[i] : i \in DOMAIN a}
<1>1. l \in Seq(S) /\ b \in S
  BY DEF IsLog
<1>2. /\ a \in Seq(S) /\ Len(a) = Len(l) + 1
      /\ \A i \in 1 .. Len(l) : a[i] = l[i]
      /\ a[Len(l) + 1] = b
  BY <1>1, AppendProperties
<1>3. /\ Len(l) \in Nat /\ DOMAIN l = 1 .. Len(l)
      /\ DOMAIN a = 1 .. Len(l) + 1 /\ a \in [1 .. Len(l) + 1 -> S]
  <2> HIDE DEF a, S
  <2> QED BY <1>1, <1>2, LenProperties
<1>4. \A i \in DOMAIN a : IsBatch(a[i])
  BY <1>2, <1>3 DEF IsLog
<1>5. a \in Seq(E)
  <2>1. a \in [1 .. Len(l) + 1 -> E]
    <3>1. \A i \in 1 .. Len(l) + 1 : a[i] \in E
      BY <1>3
    <3> HIDE DEF a, E
    <3> QED BY <1>3, <3>1
  <2>2. Len(l) + 1 \in Nat
    BY <1>3
  <2> HIDE DEF a, E
  <2> QED BY <2>1, <2>2, SeqDef
<1> HIDE DEF a
<1>6. a # <<>>
  BY <1>2, <1>3, EmptySeq
<1>7. a = Append(l, a[Len(a)])
  BY <1>2, <1>3 DEF a
<1> QED BY <1>4, <1>5, <1>6, <1>7 DEF IsLog, a

\* The batches of a log with one more are its batches and that one.
LEMMA AppendEntries ==
    ASSUME NEW l, IsLog(l), NEW b, IsBatch(b)
    PROVE  \A i \in DOMAIN Append(l, b) :
               (i \in DOMAIN l /\ Append(l, b)[i] = l[i]) \/ Append(l, b)[i] = b
<1> DEFINE S == {l[i] : i \in DOMAIN l} \cup {b}
           a == Append(l, b)
<1>1. l \in Seq(S) /\ b \in S
  BY DEF IsLog
<1>2. /\ a \in Seq(S) /\ Len(a) = Len(l) + 1
      /\ \A i \in 1 .. Len(l) : a[i] = l[i]
      /\ a[Len(l) + 1] = b
  BY <1>1, AppendProperties
<1> HIDE DEF a, S
<1>3. Len(l) \in Nat /\ DOMAIN l = 1 .. Len(l) /\ DOMAIN a = 1 .. Len(a)
  BY <1>1, <1>2, LenProperties
<1>4. \A i \in DOMAIN a : i \in 1 .. Len(l) \/ i = Len(l) + 1
  BY <1>2, <1>3
<1> QED BY <1>2, <1>3, <1>4 DEF a

\* The last batch of a log that has one is a batch of it.
LEMMA LastIsBatch ==
    ASSUME NEW l, IsLog(l), l # <<>>
    PROVE  Len(l) \in DOMAIN l /\ IsBatch(l[Len(l)])
<1>1. Len(l) \in Nat \ {0} /\ DOMAIN l = 1 .. Len(l)
  BY EmptySeq, LenProperties DEF IsLog
<1> QED BY <1>1 DEF IsLog

\* The empty log is a log.
LEMMA EmptyIsLog == IsLog(<<>>)
BY DEF IsLog

-----------------------------------------------------------------------------
(* The producers and the other writers. *)

\* A store in which some fields are replaced by values of theirs is a store.
LEMMA ReplacedIsStore ==
    ASSUME NEW r, IsStore(r), NEW fs \in SUBSET Fields, NEW new,
           \A f \in fs : IsValue(f, new[f])
    PROVE  IsStore([f \in Fields |-> IF f \in fs THEN new[f] ELSE r[f]])
BY DEF IsStore

\* The sidecar of prefill is a store.
LEMMA PrefillIsStore ==
    ASSUME TypeOK, RunPrefill
    PROVE  IsStore(prefill')
<1>1. PICK fs \in SUBSET Fillable :
          prefill' = [f \in Fields |-> IF f \in fs THEN {[loc |-> Collector, at |-> now]}
                                          ELSE store[f]]
  BY DEF RunPrefill
<1> DEFINE new == [f \in fs |-> {[loc |-> Collector, at |-> now]}]
<1>2. \A f \in fs : f \in Structured /\ new[f] = {[loc |-> Collector, at |-> now]}
  BY DEF Fillable
<1>3. \A f \in fs : IsValue(f, new[f])
  <2>1. {[loc |-> Collector, at |-> now]} \in SUBSET Fact
    BY DEF Fact, TypeOK
  <2>2. (\A f \in Structured : f \notin Prose) /\ OnePerLocation({[loc |-> Collector, at |-> now]})
    BY ReviewAssumption DEF OnePerLocation
  <2> QED BY <1>2, <2>1, <2>2 DEF IsValue
<1>4. prefill' = [f \in Fields |-> IF f \in fs THEN new[f] ELSE store[f]]
  BY <1>1
<1>5. fs \in SUBSET Fields /\ IsStore(store)
  BY <1>2 DEF Fields, TypeOK
<1> HIDE DEF new
<1>6. IsStore(prefill')
  BY <1>3, <1>4, <1>5, ReplacedIsStore
<1> QED BY <1>1, <1>2, <1>6

\* The sidecar of the drafter is a store.
LEMMA DraftIsStore ==
    ASSUME TypeOK, RunDrafter
    PROVE  IsStore(draft')
<1>1. PICK fs \in SUBSET Draftable : \E new \in [fs -> Drafts] :
          draft' = [f \in Fields |-> IF f \in fs THEN new[f] ELSE store[f]]
  BY DEF RunDrafter
<1>2. PICK new \in [fs -> Drafts] :
          draft' = [f \in Fields |-> IF f \in fs THEN new[f] ELSE store[f]]
  BY <1>1
<1>3. \A f \in fs : f \in Prose
  BY ReviewAssumption DEF ReviewAssumption, Draftable
<1>4. \A f \in fs : IsValue(f, new[f])
  BY <1>3 DEF IsValue, Drafts, ProseValue, Labels, Texts
<1>5. fs \in SUBSET Fields /\ IsStore(store)
  BY <1>3 DEF Fields, TypeOK
<1> QED BY <1>2, <1>4, <1>5, ReplacedIsStore

\* An upsert adds its entry or nothing, and keeps no fact that was not there.
LEMMA UpsertAddsItsEntry ==
    ASSUME NEW entries, NEW entry
    PROVE  Upsert(entries, entry) \subseteq entries \cup {entry}
BY DEF Upsert

\* An upsert keeps one entry for each location.
LEMMA UpsertIsOnePerLocation ==
    ASSUME NEW entries, OnePerLocation(entries), NEW entry
    PROVE  OnePerLocation(Upsert(entries, entry))
<1> DEFINE prior == {p \in entries : p.loc = entry.loc}
<1>1. CASE \A p \in prior : IsNewer(entry, p)
  <2>1. Upsert(entries, entry) = (entries \ prior) \cup {entry}
    BY <1>1 DEF Upsert
  <2>2. \A d \in entries \ prior : d.loc # entry.loc
    OBVIOUS
  <2> HIDE DEF prior
  <2> QED BY <2>1, <2>2 DEF OnePerLocation
<1>2. CASE ~ \A p \in prior : IsNewer(entry, p)
  BY <1>2 DEF Upsert
<1> QED BY <1>1, <1>2

\* A store that a person edits, or that an export is applied to, is a store.
LEMMA OthersStoreIsStore ==
    ASSUME TypeOK, EditByHand \/ ApplyThirdParty
    PROVE  IsStore(store')
<1>0. IsStore(store)
  BY DEF TypeOK
<1>1. CASE EditByHand
  <2>1. PICK f \in Prose, text \in HumanTexts : store' = [store EXCEPT ![f] = Plain(text)]
    BY <1>1 DEF EditByHand
  <2>2. IsValue(f, Plain(text))
    BY PlainIsValue DEF Texts
  <2> QED BY <1>0, <2>1, <2>2 DEF IsStore, Fields
<1>2. CASE ApplyThirdParty
  <2>1. PICK entry \in [loc : ThirdParty, at : 1 .. now] :
            store' = [f \in Fields |-> IF f \in Evidence THEN Upsert(store[f], entry)
                                       ELSE store[f]]
    BY <1>2 DEF ApplyThirdParty
  <2>2. entry \in Fact
    <3>1. MaxNow \in Nat /\ now \in 1 .. MaxNow
      BY ReviewAssumption DEF TypeOK
    <3>2. 1 .. now \subseteq 1 .. MaxNow
      BY <3>1
    <3> QED BY <2>1, <3>2 DEF Fact
  <2>3. \A f \in Evidence : f \in Fields /\ f \notin Prose
    BY ReviewAssumption DEF ReviewAssumption, Fields
  <2>4. \A f \in Evidence : IsValue(f, Upsert(store[f], entry))
    BY <1>0, <2>2, <2>3, UpsertAddsItsEntry, UpsertIsOnePerLocation DEF IsStore, IsValue
  <2> QED BY <1>0, <2>1, <2>4 DEF IsStore
<1> QED BY <1>1, <1>2

-----------------------------------------------------------------------------
(* The session's steps. *)

\* A proposal of a field's value is one.
LEMMA MadeIsProposal ==
    ASSUME NEW f \in Fields, NEW v, IsValue(f, v), NEW source
    PROVE  IsProposal(Proposal(f, v, source))
BY DEF IsProposal, Proposal

\* What a session can be asked about are proposals for fields.
LEMMA ProposalsAreProposals ==
    ASSUME TypeOK, NEW p \in Proposals(store, prefill, draft)
    PROVE  IsProposal(p)
<1>1. ASSUME NEW f \in PrefillProposes(store, prefill)
      PROVE  IsProposal(Proposal(f, prefill[f], "prefill"))
  <2>1. f \in Fields /\ IsStore(prefill)
    BY DEF PrefillProposes, Fields, TypeOK
  <2> QED BY <2>1, MadeIsProposal DEF IsStore
<1>2. ASSUME NEW f \in DraftProposes(store, draft)
      PROVE  IsProposal(Proposal(f, draft[f], "ai-draft"))
  <2>1. f \in Fields /\ IsStore(draft)
    BY ReviewAssumption DEF DraftProposes, Fields, TypeOK
  <2> QED BY <2>1, MadeIsProposal DEF IsStore
<1>3. ASSUME NEW f \in ExampleProposes(store, draft)
      PROVE  IsProposal(Proposal(f, store[f], "template-example"))
  <2>1. f \in Fields /\ IsStore(store)
    BY DEF ExampleProposes, Fields, TypeOK
  <2> QED BY <2>1, MadeIsProposal DEF IsStore
<1> QED BY <1>1, <1>2, <1>3 DEF Proposals

\* A session opens with proposals and with the files as they are.
LEMMA OpenEffect ==
    ASSUME TypeOK, NEW s \in Sessions, Open(s)
    PROVE  \E items :
              /\ asked' = [asked EXCEPT ![s] = items]
              /\ \A p \in items : IsProposal(p)
<1>1. PICK items \in {Pending(store, prefill, draft, log), Proposals(store, prefill, draft)} :
          asked' = [asked EXCEPT ![s] = items]
  BY DEF Open
<1>2. \A p \in items : p \in Proposals(store, prefill, draft)
  BY DEF Pending
<1> QED BY <1>1, <1>2, ProposalsAreProposals

\* A session decides some of what it asks, and its copies take the decisions.
LEMMA DecideEffect ==
    ASSUME TypeOK, NEW s \in Sessions, Decide(s)
    PROVE  \E ps, choice :
              /\ IsDecision(ps, choice)
              /\ copy' = [copy EXCEPT ![s] = Apply(copy[s], choice)]
              /\ book' = [book EXCEPT ![s] = Append(book[s], Batch(choice))]
              /\ accepted' = [f \in Fields |->
                                IF f \in FieldsOf(ps)
                                THEN accepted[f] \cup ({Batch(choice)[f].applied} \ {None})
                                ELSE accepted[f]]
<1>1. PICK ps \in (SUBSET asked[s]) \ {{}} :
      \E choice \in [ps -> UNION {Choices(p) : p \in ps}] :
          /\ \A p \in ps : choice[p] \in Choices(p)
          /\ copy' = [copy EXCEPT ![s] = Apply(@, choice)]
          /\ book' = [book EXCEPT ![s] = Append(@, Batch(choice))]
          /\ accepted' = [f \in Fields |->
                            IF f \in FieldsOf(ps)
                            THEN accepted[f] \cup ({Batch(choice)[f].applied} \ {None})
                            ELSE accepted[f]]
  BY DEF Decide
<1>2. PICK choice \in [ps -> UNION {Choices(p) : p \in ps}] :
          /\ \A p \in ps : choice[p] \in Choices(p)
          /\ copy' = [copy EXCEPT ![s] = Apply(@, choice)]
          /\ book' = [book EXCEPT ![s] = Append(@, Batch(choice))]
          /\ accepted' = [f \in Fields |->
                            IF f \in FieldsOf(ps)
                            THEN accepted[f] \cup ({Batch(choice)[f].applied} \ {None})
                            ELSE accepted[f]]
  BY <1>1
<1>3. IsDecision(ps, choice)
  <2>1. DOMAIN choice = ps
    OBVIOUS
  <2>2. \A p \in ps : IsProposal(p)
    BY DEF TypeOK
  <2> QED BY <1>1, <1>2, <2>1, <2>2 DEF IsDecision
<1> QED BY <1>2, <1>3

-----------------------------------------------------------------------------
(* The initial states. *)

\* The shipped template's values have an author: the template itself, or nobody
\* is needed.
LEMMA TemplateHasAuthors ==
    ASSUME NEW f \in Fields, NEW applied
    PROVE  HasAuthor(f, Template[f], applied)
<1>1. CASE f \in Prose
  <2>1. Template[f].label = "none" => Template[f].text = TBD
    BY <1>1, ReviewAssumption
  <2>2. TBD \notin DraftTexts \cup ExampleTexts
    BY ReviewAssumption
  <2> QED BY <1>1, <2>1, <2>2 DEF HasAuthor
<1>2. CASE f \notin Prose
  <2>1. Template[f] = {}
    BY <1>2, ReviewAssumption DEF Fields
  <2> QED BY <1>2, <2>1 DEF HasAuthor
<1> QED BY <1>1, <1>2

\* The shipped template satisfies the inductive invariant.
LEMMA InitIInv == Init => IInv
<1> SUFFICES ASSUME Init PROVE IInv
  OBVIOUS
<1>1. IsStore(Template) /\ {0} \subseteq Nat /\ 1 \in 1 .. MaxNow
  BY ReviewAssumption
<1>2. TypeOK
  BY <1>1, EmptyIsLog DEF Init, TypeOK
<1>3. OneAfterTheOther /\ BatchesAreReady /\ LogsAreAccepted
  BY DEF Init, OneAfterTheOther, BatchesAreReady, LogsAreAccepted, IsAccepted
<1>4. CopiesHaveAuthors
  BY TemplateHasAuthors DEF Init, CopiesHaveAuthors
<1> QED BY <1>2, <1>3, <1>4 DEF IInv

-----------------------------------------------------------------------------
(* The invariant is inductive, conjunct by conjunct. *)

\* Every step leaves well-typed files and sessions.
LEMMA TypeStep == TypeOK /\ BatchesAreReady /\ [Next]_vars => TypeOK'
<1> SUFFICES ASSUME TypeOK, BatchesAreReady, [Next]_vars PROVE TypeOK'
  OBVIOUS
<1>1. CASE Tick
  <2>1. now' \in 1 .. MaxNow
    BY <1>1, ReviewAssumption DEF Tick, TypeOK
  <2> QED BY <1>1, <2>1 DEF Tick, TypeOK, files, session, counts
<1>2. ASSUME writes' = writes + 1, RunPrefill PROVE TypeOK'
  <2>1. IsStore(prefill')
    BY <1>2, PrefillIsStore
  <2>2. UNCHANGED <<now, store, log, draft, session, accepted, ledger, overlap, opens, kills>>
    BY <1>2 DEF RunPrefill
  <2> QED BY <1>2, <2>1, <2>2 DEF TypeOK, session
<1>3. ASSUME writes' = writes + 1, RunDrafter PROVE TypeOK'
  <2>1. IsStore(draft')
    BY <1>3, DraftIsStore
  <2>2. UNCHANGED <<now, store, log, prefill, session, accepted, ledger, overlap,
                    opens, kills>>
    BY <1>3 DEF RunDrafter
  <2> QED BY <1>3, <2>1, <2>2 DEF TypeOK, session
<1>4. ASSUME writes' = writes + 1, EditByHand \/ ApplyThirdParty PROVE TypeOK'
  <2>1. IsStore(store')
    BY <1>4, OthersStoreIsStore
  <2>2. UNCHANGED <<now, log, prefill, draft, session, accepted, ledger, overlap,
                    opens, kills>>
    BY <1>4 DEF EditByHand, ApplyThirdParty
  <2> QED BY <1>4, <2>1, <2>2 DEF TypeOK, session
<1>5. ASSUME NEW s \in Sessions, Open(s) PROVE TypeOK'
  <2>1. PICK items : asked' = [asked EXCEPT ![s] = items] /\ \A p \in items : IsProposal(p)
    BY <1>5, OpenEffect
  <2>2. /\ copy' = [copy EXCEPT ![s] = store] /\ book' = [book EXCEPT ![s] = log]
        /\ pc' = [pc EXCEPT ![s] = "walking"] /\ opens' = opens + 1 /\ overlap' \in BOOLEAN
        /\ UNCHANGED <<now, files, accepted, ledger, writes, kills>>
    BY <1>5 DEF Open
  <2> QED BY <2>1, <2>2 DEF TypeOK, files
<1>6. ASSUME NEW s \in Sessions, Decide(s) PROVE TypeOK'
  <2>1. PICK ps, choice :
           /\ IsDecision(ps, choice)
           /\ copy' = [copy EXCEPT ![s] = Apply(copy[s], choice)]
           /\ book' = [book EXCEPT ![s] = Append(book[s], Batch(choice))]
           /\ DOMAIN accepted' = Fields
    BY <1>6, DecideEffect
  <2>2. IsStore(Apply(copy[s], choice)) /\ IsLog(Append(book[s], Batch(choice)))
    BY <2>1, ApplyIsStore, BatchIsBatch, AppendIsLog DEF TypeOK
  <2>3. pc' = [pc EXCEPT ![s] = "decided"]
        /\ UNCHANGED <<now, files, asked, ledger, overlap, counts>>
    BY <1>6 DEF Decide
  <2> QED BY <2>1, <2>2, <2>3 DEF TypeOK, files, counts
<1>7. ASSUME NEW s \in Sessions, WriteStore(s) PROVE TypeOK'
  BY <1>7 DEF WriteStore, TypeOK, counts
<1>8. ASSUME NEW s \in Sessions, Quit(s) \/ WriteLog(s) \/ Kill(s) PROVE TypeOK'
  <2>1. /\ pc' = [pc EXCEPT ![s] = "away"] /\ asked' = [asked EXCEPT ![s] = {}]
        /\ copy' = [copy EXCEPT ![s] = Template] /\ book' = [book EXCEPT ![s] = <<>>]
        /\ UNCHANGED <<now, store, prefill, draft, accepted, opens, writes>>
    BY <1>8 DEF Quit, WriteLog, Kill, Leave, Forget, files, counts
  <2>2. log' \in {log, book[s], <<>>}
    BY <1>8 DEF Quit, WriteLog, Kill, files
  <2>3. ledger' = ledger
        \/ (pc[s] = "stored" /\ ledger' = Append(ledger, book[s][Len(book[s])]))
    BY <1>8 DEF Quit, WriteLog, Kill
  <2>4. overlap' \in BOOLEAN /\ kills' \in Nat
    <3>1. CASE Quit(s) \/ WriteLog(s)
      BY <3>1 DEF Quit, WriteLog, TypeOK, counts
    <3>2. CASE Kill(s)
      <4>1. kills' = kills + 1 /\ (overlap' = overlap \/ overlap' = TRUE)
        BY <3>2 DEF Kill
      <4>2. kills \in Nat /\ overlap \in BOOLEAN
        BY DEF TypeOK
      <4>3. overlap' \in BOOLEAN
        BY <4>1, <4>2, Zenon
      <4> QED BY <4>1, <4>2, <4>3
    <3> QED BY <1>8, <3>1, <3>2
  <2>5. IsStore(Template)
    BY ReviewAssumption
  <2>6. IsLog(log')
    BY <2>2, EmptyIsLog DEF TypeOK
  <2>7. IsLog(ledger')
    <3>1. CASE ledger' = ledger
      BY <3>1 DEF TypeOK
    <3>2. CASE pc[s] = "stored" /\ ledger' = Append(ledger, book[s][Len(book[s])])
      <4>1. IsBatch(book[s][Len(book[s])])
        BY <3>2, LastIsBatch DEF TypeOK, BatchesAreReady
      <4> QED BY <3>2, <4>1, AppendIsLog DEF TypeOK
    <3> QED BY <2>3, <3>1, <3>2
  <2> QED BY <2>1, <2>4, <2>5, <2>6, <2>7, EmptyIsLog DEF TypeOK
<1>9. CASE UNCHANGED vars
  BY <1>9 DEF vars, TypeOK
<1> QED BY <1>1, <1>2, <1>3, <1>4, <1>5, <1>6, <1>7, <1>8, <1>9 DEF Next, Others, Review

\* A session that has decided keeps its batch until it leaves.
LEMMA BatchesStep == TypeOK /\ BatchesAreReady /\ [Next]_vars => BatchesAreReady'
<1> SUFFICES ASSUME TypeOK, BatchesAreReady, [Next]_vars PROVE BatchesAreReady'
  OBVIOUS
<1>1. CASE Tick \/ Others \/ UNCHANGED vars
  BY <1>1 DEF Tick, Others, RunPrefill, RunDrafter, EditByHand, ApplyThirdParty, vars,
              session, BatchesAreReady
<1>2. ASSUME NEW s \in Sessions, Open(s) \/ Quit(s) \/ WriteLog(s) \/ Kill(s)
      PROVE  BatchesAreReady'
  <2>1. \E p \in {"walking", "away"} : pc' = [pc EXCEPT ![s] = p]
    BY <1>2 DEF Open, Quit, WriteLog, Kill, Leave
  <2>2. \A t \in Sessions \ {s} : book'[t] = book[t]
    BY <1>2 DEF Open, Quit, WriteLog, Kill, Forget, TypeOK
  <2> QED BY <2>1, <2>2 DEF BatchesAreReady, TypeOK
<1>3. ASSUME NEW s \in Sessions, Decide(s) PROVE BatchesAreReady'
  <2>1. PICK ps, choice :
           IsDecision(ps, choice)
           /\ book' = [book EXCEPT ![s] = Append(book[s], Batch(choice))]
    BY <1>3, DecideEffect
  <2>2. Append(book[s], Batch(choice)) # <<>>
    BY <2>1, BatchIsBatch, AppendIsLog DEF TypeOK
  <2>3. pc' = [pc EXCEPT ![s] = "decided"]
    BY <1>3 DEF Decide
  <2> QED BY <2>1, <2>2, <2>3 DEF BatchesAreReady, TypeOK
<1>4. ASSUME NEW s \in Sessions, WriteStore(s) PROVE BatchesAreReady'
  BY <1>4 DEF WriteStore, BatchesAreReady, TypeOK
<1> QED BY <1>1, <1>2, <1>3, <1>4 DEF Next, Review

\* While no session overlaps another, the log, the ledger and the one session at
\* work agree.
LEMMA OneStep ==
    TypeOK /\ BatchesAreReady /\ OneAfterTheOther /\ [Next]_vars => OneAfterTheOther'
<1> SUFFICES ASSUME TypeOK, BatchesAreReady, OneAfterTheOther, [Next]_vars, ~ overlap'
             PROVE  OneAfterTheOther'
  BY DEF OneAfterTheOther
<1>1. CASE Tick \/ Others \/ UNCHANGED vars
  BY <1>1 DEF Tick, Others, RunPrefill, RunDrafter, EditByHand, ApplyThirdParty, vars,
              files, session, OneAfterTheOther
<1>2. ASSUME NEW s \in Sessions, Open(s) PROVE OneAfterTheOther'
  <2>1. ~ overlap /\ \A t \in Sessions : pc[t] = "away"
    BY <1>2 DEF Open
  <2>2. pc' = [pc EXCEPT ![s] = "walking"] /\ book' = [book EXCEPT ![s] = log]
        /\ log' = log /\ ledger' = ledger
    BY <1>2 DEF Open, files
  <2> QED BY <2>1, <2>2 DEF OneAfterTheOther, TypeOK
<1>3. ASSUME NEW s \in Sessions, Quit(s) PROVE OneAfterTheOther'
  <2>1. pc' = [pc EXCEPT ![s] = "away"] /\ book' = [book EXCEPT ![s] = <<>>]
        /\ log' = log /\ ledger' = ledger /\ overlap' = overlap
    BY <1>3 DEF Quit, Leave, Forget, files
  <2> QED BY <2>1 DEF OneAfterTheOther, TypeOK
<1>4. ASSUME NEW s \in Sessions, Decide(s) PROVE OneAfterTheOther'
  <2>1. PICK ps, choice :
           IsDecision(ps, choice)
           /\ book' = [book EXCEPT ![s] = Append(book[s], Batch(choice))]
    BY <1>4, DecideEffect
  <2>2. pc[s] = "walking" /\ pc' = [pc EXCEPT ![s] = "decided"]
        /\ log' = log /\ ledger' = ledger /\ overlap' = overlap
    BY <1>4 DEF Decide, files
  <2>3. book[s] = log
    BY <2>2 DEF OneAfterTheOther
  <2>4. book'[s] = Append(log, book'[s][Len(book'[s])])
    BY <2>1, <2>3, BatchIsBatch, AppendIsLog DEF TypeOK
  <2> QED BY <2>1, <2>2, <2>4 DEF OneAfterTheOther, TypeOK
<1>5. ASSUME NEW s \in Sessions, WriteStore(s) PROVE OneAfterTheOther'
  BY <1>5 DEF WriteStore, OneAfterTheOther, TypeOK
<1>6. ASSUME NEW s \in Sessions, WriteLog(s) PROVE OneAfterTheOther'
  <2>1. pc[s] = "stored" /\ pc' = [pc EXCEPT ![s] = "away"]
        /\ book' = [book EXCEPT ![s] = <<>>] /\ log' = book[s]
        /\ ledger' = Append(ledger, book[s][Len(book[s])]) /\ overlap' = overlap
    BY <1>6 DEF WriteLog, Leave, Forget
  <2>2. log' = ledger'
    BY <2>1 DEF OneAfterTheOther
  <2>3. \A t \in Sessions : pc'[t] = "away"
    BY <2>1 DEF OneAfterTheOther, TypeOK
  <2> QED BY <2>2, <2>3 DEF OneAfterTheOther
<1>7. ASSUME NEW s \in Sessions, Kill(s) PROVE OneAfterTheOther'
  <2>1. pc' = [pc EXCEPT ![s] = "away"] /\ book' = [book EXCEPT ![s] = <<>>]
        /\ log' = log /\ ledger' = ledger /\ overlap' = overlap
    BY <1>7 DEF Kill, Leave, Forget
  <2> QED BY <2>1 DEF OneAfterTheOther, TypeOK
<1> QED BY <1>1, <1>2, <1>3, <1>4, <1>5, <1>6, <1>7 DEF Next, Review

-----------------------------------------------------------------------------
(* Authorship. *)

\* A value keeps its author when more values are applied.
LEMMA AuthorsStay ==
    ASSUME NEW f, NEW v, NEW before, NEW after, before \subseteq after,
           HasAuthor(f, v, before)
    PROVE  HasAuthor(f, v, after)
BY DEF HasAuthor

\* What a session's decisions leave in a field was there or was applied by them.
LEMMA ApplyHasAuthors ==
    ASSUME NEW f \in Fields, NEW r, NEW before, NEW after,
           NEW ps, NEW choice, IsDecision(ps, choice),
           HasAuthor(f, r[f], before), before \subseteq after,
           f \in FieldsOf(ps) => {Batch(choice)[f].applied} \ {None} \subseteq after
    PROVE  HasAuthor(f, Apply(r, choice)[f], after)
<1>0. DOMAIN choice = ps
  BY DEF IsDecision
<1>1. CASE f \in FieldsOf(ps) /\ Batch(choice)[f].applied # None
  <2>1. Apply(r, choice)[f] \in after
    BY <1>0, <1>1 DEF Apply
  <2> QED BY <2>1 DEF HasAuthor
<1>2. CASE ~ (f \in FieldsOf(ps) /\ Batch(choice)[f].applied # None)
  <2>1. Apply(r, choice)[f] = r[f]
    BY <1>0, <1>2 DEF Apply
  <2> QED BY <2>1, AuthorsStay
<1> QED BY <1>1, <1>2

\* What an editor or an export leaves in a field needs no acceptance it has not.
LEMMA OthersHaveAuthors ==
    ASSUME TypeOK, NEW f \in Fields, EditByHand \/ ApplyThirdParty,
           HasAuthor(f, store[f], accepted[f])
    PROVE  HasAuthor(f, store'[f], accepted[f])
<1>0. DOMAIN store = Fields
  BY DEF TypeOK, IsStore
<1>1. CASE EditByHand
  <2>1. PICK g \in Prose, text \in HumanTexts : store' = [store EXCEPT ![g] = Plain(text)]
    BY <1>1 DEF EditByHand
  <2>2. text \notin DraftTexts \cup ExampleTexts
    BY ReviewAssumption
  <2>3. CASE f = g
    BY <1>0, <2>1, <2>2, <2>3 DEF HasAuthor, Plain
  <2>4. CASE f # g
    BY <1>0, <2>1, <2>4
  <2> QED BY <2>3, <2>4
<1>2. CASE ApplyThirdParty
  <2>1. PICK entry \in [loc : ThirdParty, at : 1 .. now] :
            store' = [g \in Fields |-> IF g \in Evidence THEN Upsert(store[g], entry)
                                       ELSE store[g]]
    BY <1>2 DEF ApplyThirdParty
  <2>2. CASE f \in Evidence
    <3>1. store'[f] \subseteq store[f] \cup {entry}
      BY <2>1, <2>2, UpsertAddsItsEntry
    <3>2. entry.loc # Collector /\ f \notin Prose
      BY <2>2, ReviewAssumption
    <3> QED BY <3>1, <3>2 DEF HasAuthor
  <2>3. CASE f \notin Evidence
    BY <2>1, <2>3
  <2> QED BY <2>2, <2>3
<1> QED BY <1>1, <1>2

\* Every step leaves every value of the store and of the copies with an author.
LEMMA AuthorStep ==
    TypeOK /\ CopiesHaveAuthors /\ [Next]_vars => CopiesHaveAuthors'
<1> SUFFICES ASSUME TypeOK, CopiesHaveAuthors, [Next]_vars, NEW f \in Fields
             PROVE  /\ HasAuthor(f, store'[f], accepted'[f])
                    /\ \A s \in Sessions : HasAuthor(f, copy'[s][f], accepted'[f])
  BY DEF CopiesHaveAuthors
<1>1. /\ HasAuthor(f, store[f], accepted[f])
      /\ \A s \in Sessions : HasAuthor(f, copy[s][f], accepted[f])
  BY DEF CopiesHaveAuthors
<1>2. CASE Tick \/ (Others /\ (RunPrefill \/ RunDrafter)) \/ UNCHANGED vars
  BY <1>1, <1>2 DEF Tick, RunPrefill, RunDrafter, vars, files, session
<1>3. CASE EditByHand \/ ApplyThirdParty
  <2>1. accepted' = accepted /\ copy' = copy
    BY <1>3 DEF EditByHand, ApplyThirdParty, session
  <2> QED BY <1>1, <1>3, <2>1, OthersHaveAuthors
<1>4. ASSUME NEW s \in Sessions, Decide(s)
      PROVE  /\ HasAuthor(f, store'[f], accepted'[f])
             /\ \A t \in Sessions : HasAuthor(f, copy'[t][f], accepted'[f])
  <2>1. PICK ps, choice :
          /\ IsDecision(ps, choice)
          /\ copy' = [copy EXCEPT ![s] = Apply(copy[s], choice)]
          /\ accepted' = [g \in Fields |->
                            IF g \in FieldsOf(ps)
                            THEN accepted[g] \cup ({Batch(choice)[g].applied} \ {None})
                            ELSE accepted[g]]
    BY <1>4, DecideEffect
  <2>2. /\ accepted[f] \subseteq accepted'[f]
        /\ f \in FieldsOf(ps) => {Batch(choice)[f].applied} \ {None} \subseteq accepted'[f]
    BY <2>1
  <2>3. store' = store
    BY <1>4 DEF Decide, files
  <2>4. HasAuthor(f, Apply(copy[s], choice)[f], accepted'[f])
    BY <1>1, <2>1, <2>2, ApplyHasAuthors
  <2>5. \A t \in Sessions : copy'[t] = IF t = s THEN Apply(copy[s], choice) ELSE copy[t]
    BY <2>1 DEF TypeOK
  <2> QED BY <1>1, <2>2, <2>3, <2>4, <2>5, AuthorsStay
<1>5. ASSUME NEW s \in Sessions, Open(s) \/ WriteStore(s) \/ Quit(s) \/ WriteLog(s) \/ Kill(s)
      PROVE  /\ HasAuthor(f, store'[f], accepted'[f])
             /\ \A t \in Sessions : HasAuthor(f, copy'[t][f], accepted'[f])
  <2>1. accepted' = accepted /\ store' \in {store, copy[s]}
    BY <1>5 DEF Open, WriteStore, Quit, WriteLog, Kill, files
  <2>2. \A t \in Sessions : copy'[t] \in {copy[t], store, Template}
    BY <1>5 DEF Open, WriteStore, Quit, WriteLog, Kill, Forget, TypeOK
  <2> QED BY <1>1, <2>1, <2>2, TemplateHasAuthors
<1> QED BY <1>2, <1>3, <1>4, <1>5 DEF Next, Others, Review

-----------------------------------------------------------------------------
(* The log and what was decided. *)

\* What was accepted for a log stays so when more values are applied.
LEMMA AcceptedStays ==
    ASSUME NEW l, IsLog(l), IsAccepted(l),
           \A f \in Fields : accepted[f] \subseteq accepted'[f]
    PROVE  \A i \in DOMAIN l : \A f \in DOMAIN l[i] :
               AppliesValue(l[i][f]) => l[i][f].applied \in accepted'[f]
<1>1. \A i \in DOMAIN l : DOMAIN l[i] \subseteq Fields
  BY DEF IsLog, IsBatch
<1> QED BY <1>1 DEF IsAccepted

\* What a decision applies is a value.
LEMMA AppliedIsSome ==
    ASSUME NEW p, IsProposal(p), NEW choice \in Choices(p), AppliesValue(Entry(p, choice))
    PROVE  Entry(p, choice).applied # None
<1>1. ~ IsValue(p.field, None) /\ p.field \in Fields
  BY ReviewAssumption DEF IsProposal, IsValue
<1>2. CASE choice = Accept
  BY <1>1, <1>2, StripIsValue DEF IsProposal, Accept, Applied, Entry
<1>3. CASE choice = Reject
  BY <1>3 DEF Reject, Entry, AppliesValue
<1>4. CASE p.field \in Prose /\ choice \in Edits
  <2>1. choice.decision = "edited" /\ choice.text \in Texts
    BY <1>4 DEF Edits, Texts
  <2>2. IsValue(p.field, Plain(choice.text))
    BY <1>4, <2>1, PlainIsValue
  <2>3. Entry(p, choice).applied = Plain(choice.text)
    BY <2>1 DEF Entry, Applied
  <2> QED BY <1>1, <2>2, <2>3
<1> QED BY <1>2, <1>3, <1>4 DEF Choices

\* What a batch applied is accepted once its session has decided.
LEMMA BatchIsAccepted ==
    ASSUME NEW ps, NEW choice, IsDecision(ps, choice),
           accepted' = [f \in Fields |->
                          IF f \in FieldsOf(ps)
                          THEN accepted[f] \cup ({Batch(choice)[f].applied} \ {None})
                          ELSE accepted[f]],
           NEW f \in DOMAIN Batch(choice), AppliesValue(Batch(choice)[f])
    PROVE  Batch(choice)[f].applied \in accepted'[f]
<1> DEFINE p == ProposalFor(ps, f)
<1>1. f \in FieldsOf(ps) /\ f \in Fields /\ DOMAIN choice = ps
  BY BatchIsBatch DEF IsBatch, IsDecision
<1>2. p \in ps /\ p.field = f
  BY <1>1, ProposalForIsOne
<1>3. Batch(choice)[f] = Entry(p, choice[p])
  BY <1>1 DEF Batch
<1>4. IsProposal(p) /\ choice[p] \in Choices(p)
  BY <1>2 DEF IsDecision
<1> HIDE DEF p
<1>5. Batch(choice)[f].applied # None
  BY <1>3, <1>4, AppliedIsSome
<1> QED BY <1>1, <1>5

\* Every step leaves logs whose decisions were taken.
LEMMA LogsStep ==
    TypeOK /\ LogsAreAccepted /\ [Next]_vars => LogsAreAccepted'
<1> SUFFICES ASSUME TypeOK, LogsAreAccepted, [Next]_vars PROVE LogsAreAccepted'
  OBVIOUS
<1> DEFINE Holds(l) == \A i \in DOMAIN l : \A f \in DOMAIN l[i] :
                           AppliesValue(l[i][f]) => l[i][f].applied \in accepted'[f]
<1>0. IsLog(log) /\ \A s \in Sessions : IsLog(book[s])
  BY DEF TypeOK
<1>1. CASE Tick \/ Others \/ UNCHANGED vars
  BY <1>1 DEF Tick, Others, RunPrefill, RunDrafter, EditByHand, ApplyThirdParty, vars,
              files, session, LogsAreAccepted, IsAccepted
<1>2. ASSUME NEW s \in Sessions, Decide(s) PROVE LogsAreAccepted'
  <2>1. PICK ps, choice :
          /\ IsDecision(ps, choice)
          /\ book' = [book EXCEPT ![s] = Append(book[s], Batch(choice))]
          /\ accepted' = [f \in Fields |->
                            IF f \in FieldsOf(ps)
                            THEN accepted[f] \cup ({Batch(choice)[f].applied} \ {None})
                            ELSE accepted[f]]
    BY <1>2, DecideEffect
  <2>2. log' = log
    BY <1>2 DEF Decide, files
  <2>3. \A f \in Fields : accepted[f] \subseteq accepted'[f]
    BY <2>1
  <2>4. Holds(log) /\ \A t \in Sessions : Holds(book[t])
    BY <1>0, <2>3, AcceptedStays DEF LogsAreAccepted
  <2>5. \A f \in DOMAIN Batch(choice) : AppliesValue(Batch(choice)[f]) =>
            Batch(choice)[f].applied \in accepted'[f]
    BY <2>1, BatchIsAccepted
  <2>6. Holds(Append(book[s], Batch(choice)))
    <3> DEFINE l == book[s]
               b == Batch(choice)
               a == Append(l, b)
    <3>1. IsLog(l) /\ IsBatch(b)
      BY <1>0, <2>1, BatchIsBatch
    <3>2. \A i \in DOMAIN a : (i \in DOMAIN l /\ a[i] = l[i]) \/ a[i] = b
      BY <3>1, AppendEntries
    <3>3. Holds(l)
      BY <2>4
    <3> HIDE DEF l, a, b
    <3>4. \A f \in DOMAIN b : AppliesValue(b[f]) => b[f].applied \in accepted'[f]
      BY <2>5 DEF b
    <3> QED BY <3>2, <3>3, <3>4 DEF a, b, l
  <2>7. \A t \in Sessions : book'[t] = IF t = s THEN Append(book[s], Batch(choice)) ELSE book[t]
    BY <2>1 DEF TypeOK
  <2>8. \A t \in Sessions : Holds(book'[t])
    <3> HIDE DEF Holds
    <3> QED BY <2>4, <2>6, <2>7
  <2> QED BY <2>2, <2>4, <2>8 DEF LogsAreAccepted, IsAccepted
<1>3. ASSUME NEW s \in Sessions, Open(s) \/ WriteStore(s) \/ Quit(s) \/ WriteLog(s) \/ Kill(s)
      PROVE  LogsAreAccepted'
  <2>1. accepted' = accepted /\ log' \in {log, book[s], <<>>}
    BY <1>3 DEF Open, WriteStore, Quit, WriteLog, Kill, files
  <2>2. \A t \in Sessions : book'[t] \in {book[t], log, <<>>}
    BY <1>3 DEF Open, WriteStore, Quit, WriteLog, Kill, Forget, TypeOK
  <2>3. Holds(log) /\ Holds(<<>>) /\ \A t \in Sessions : Holds(book[t])
    BY <2>1 DEF LogsAreAccepted, IsAccepted
  <2> HIDE DEF Holds
  <2>4. Holds(log') /\ \A t \in Sessions : Holds(book'[t])
    BY <2>1, <2>2, <2>3
  <2> QED BY <2>4 DEF LogsAreAccepted, IsAccepted, Holds
<1> QED BY <1>1, <1>2, <1>3 DEF Next, Review

-----------------------------------------------------------------------------
(* The theorems. *)

\* The inductive invariant of the store, the log and the sessions holds for any
\* number of sessions, fields and writers (review_proposals.py:434-525).
THEOREM InvariantHolds == Spec => []IInv
<1>1. Init => IInv
  BY InitIInv
<1>2. IInv /\ [Next]_vars => IInv'
  BY TypeStep, BatchesStep, OneStep, AuthorStep, LogsStep DEF IInv
<1> QED BY <1>1, <1>2, PTL DEF Spec

\* Every file holds what its readers expect (review_proposals.py:364-377).
THEOREM TypeCorrect == Spec => []TypeOK
<1>1. IInv => TypeOK
  BY DEF IInv
<1> QED BY <1>1, InvariantHolds, PTL

\* No drafted or example sentence and no collected fact becomes the provider's
\* record without a named human's acceptance of it (review_proposals.py:24-31).
THEOREM HumansAuthorTheRecord == Spec => []EveryValueHasAnAuthor
<1>1. IInv => EveryValueHasAnAuthor
  BY DEF IInv, CopiesHaveAuthors, EveryValueHasAnAuthor
<1> QED BY <1>1, InvariantHolds, PTL

\* Some numbers up to n have a last one.  By the well-foundedness of the numbers:
\* the distance to n has a least value.
LEMMA LastOfSome ==
    ASSUME NEW n \in Nat, NEW D \in SUBSET (1 .. n), D # {}
    PROVE  \E i \in D : \A j \in D : j <= i
<1> DEFINE Back == {n - i : i \in D}
           R == OpToRel(<, Nat)
<1>1. Back \in SUBSET Nat /\ Back # {}
  <2>1. \A i \in D : n - i \in Nat
    OBVIOUS
  <2>2. \E i \in D : n - i \in Back
    OBVIOUS
  <2> QED BY <2>1, <2>2
<1>2. IsWellFoundedOn(R, Nat)
  BY NatLessThanWellFounded
<1>3. \A x, y \in Nat : <<y, x>> \in R <=> y < x
  BY DEF OpToRel
<1> HIDE DEF R, Back
<1>4. PICK m \in Back : \A k \in Back : ~ (<<k, m>> \in R)
  BY <1>1, <1>2, WFMin
<1>5. \A k \in Back : k \in Nat /\ m \in Nat /\ ~ (k < m)
  BY <1>1, <1>3, <1>4
<1>6. PICK i \in D : m = n - i
  BY <1>4 DEF Back
<1>7. ASSUME NEW j \in D PROVE j <= i
  <2>1. n - j \in Back
    BY DEF Back
  <2>2. ~ (n - j < n - i)
    BY <1>5, <1>6, <2>1
  <2>3. i \in Nat /\ j \in Nat
    OBVIOUS
  <2> QED BY <2>2, <2>3
<1> QED BY <1>7

\* A decision that is found in a log is one of its decisions on the field.
LEMMA LatestIsLogged ==
    ASSUME NEW l, IsLog(l), NEW f, LatestOn(l, f) # None
    PROVE  \E i \in DOMAIN l : f \in DOMAIN l[i] /\ LatestOn(l, f) = l[i][f]
<1> DEFINE D == Deciding(l, f)
           S == {i \in D : \A j \in D : j <= i}
<1>1. D # {} /\ LatestOn(l, f) = l[CHOOSE i \in D : \A j \in D : j <= i][f]
  BY DEF LatestOn, LatestOf
<1>2. \E i \in D : \A j \in D : j <= i
  <2>1. DOMAIN l = 1 .. Len(l) /\ Len(l) \in Nat
    BY LenProperties DEF IsLog
  <2>2. D \subseteq 1 .. Len(l)
    BY <2>1 DEF Deciding
  <2> HIDE DEF D
  <2> QED BY <1>1, <2>1, <2>2, LastOfSome
<1>3. (CHOOSE i \in D : \A j \in D : j <= i) \in D
  <2> HIDE DEF D
  <2> QED BY <1>2
<1> QED BY <1>1, <1>3 DEF Deciding

\* A passing gate means that a field whose latest logged decision applied a value
\* holds a value that a human applied to it, whatever overlapped, was killed or
\* torn; and the value of the latest decision anybody took on it, as long as
\* sessions come one after the other and no log was torn, stopped sessions
\* included (validate_reviews.py:215-255).
THEOREM GateSpeaksForHumans == Spec => []GatePassMeansHumanWord
<1>1. IInv => GatePassMeansHumanWord
  <2> SUFFICES ASSUME IInv, GatePasses, NEW f \in Fields
               PROVE  /\ AppliesValue(LatestOn(log, f)) => store[f] \in accepted[f]
                      /\ ~ overlap /\ AppliesValue(LatestOn(ledger, f)) =>
                            store[f] = LatestOn(ledger, f).applied
    BY DEF GatePassMeansHumanWord
  <2>1. ASSUME AppliesValue(LatestOn(log, f)) PROVE store[f] \in accepted[f]
    <3>1. store[f] = LatestOn(log, f).applied
      BY <2>1 DEF GatePasses
    <3>2. PICK i \in DOMAIN log : f \in DOMAIN log[i] /\ LatestOn(log, f) = log[i][f]
      BY <2>1, LatestIsLogged DEF AppliesValue, IInv, TypeOK
    <3>3. AppliesValue(log[i][f])
      BY <2>1, <3>2
    <3>4. log[i][f].applied \in accepted[f]
      BY <3>2, <3>3 DEF IInv, LogsAreAccepted, IsAccepted
    <3> QED BY <3>1, <3>2, <3>4
  <2>2. ASSUME ~ overlap, AppliesValue(LatestOn(ledger, f))
        PROVE  store[f] = LatestOn(ledger, f).applied
    <3>1. log = ledger
      BY <2>2 DEF IInv, OneAfterTheOther
    <3> QED BY <2>2, <3>1 DEF GatePasses
  <2> QED BY <2>1, <2>2
<1> QED BY <1>1, InvariantHolds, PTL

\* A proposal that a session decided is not pending once its log is written,
\* whatever other sessions did (review_proposals.py:222-236).
THEOREM DecisionsEndProposals == Spec => DecidedIsNotPending
<1>1. IInv /\ [Next]_vars =>
         [\A s \in Sessions : WriteLog(s) =>
            LET batch == book[s][Len(book[s])] IN
            \A p \in Pending(store', prefill', draft', log') :
                p.field \in DOMAIN batch => batch[p.field].proposed # p.proposed]_vars
  <2> SUFFICES ASSUME IInv, NEW s \in Sessions, WriteLog(s),
                      NEW p \in Pending(store', prefill', draft', log'),
                      p.field \in DOMAIN book[s][Len(book[s])]
               PROVE  book[s][Len(book[s])][p.field].proposed # p.proposed
    OBVIOUS
  <2> DEFINE l == book[s]
             n == Len(l)
  <2>1. log' = l /\ IsLog(l) /\ l # <<>>
    BY DEF WriteLog, IInv, TypeOK, BatchesAreReady
  <2>2. n \in Nat /\ DOMAIN l = 1 .. n /\ n \in DOMAIN l /\ IsBatch(l[n])
    <3> HIDE DEF l
    <3> QED BY <2>1, LastIsBatch, LenProperties DEF IsLog
  <2>3. n \in Deciding(l, p.field) /\ \A i \in Deciding(l, p.field) : i \in 1 .. n
    BY <2>2 DEF Deciding
  <2>4. \A i \in Deciding(l, p.field) :
            (\A j \in Deciding(l, p.field) : j <= i) <=> i = n
    <3> HIDE DEF l, n
    <3> QED BY <2>2, <2>3
  <2>5. (CHOOSE i \in Deciding(l, p.field) : \A j \in Deciding(l, p.field) : j <= i) = n
    <3> HIDE DEF l, n
    <3> QED BY <2>3, <2>4
  <2>6. LatestOn(l, p.field) = l[n][p.field]
    <3> HIDE DEF l, n
    <3> QED BY <2>3, <2>5 DEF LatestOn, LatestOf
  <2>7. ~ Decided(p, l)
    BY <2>1 DEF Pending
  <2> QED BY <2>3, <2>6, <2>7 DEF Decided
<1> QED BY <1>1, InvariantHolds, PTL DEF Spec, DecidedIsNotPending

=============================================================================
