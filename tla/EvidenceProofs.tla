---------------------------- MODULE EvidenceProofs ----------------------------
(***************************************************************************)
(* Theorems about EvidenceEntries, for all tools, exports, profiles, KSIs  *)
(* and keys: no observation is lost behind another, and what a cleared     *)
(* production-assurance package holds is what its sources and its signer   *)
(* stand for.                                                              *)
(***************************************************************************)
EXTENDS EvidenceEntries, TLAPS

-----------------------------------------------------------------------------
(* The inductive invariant: entries are records whose pointer ends in the  *)
(* slug of the observation they show, and of the one they were hashed with *)

IsEntry(e) ==
  /\ e = [body |-> e.body, digest |-> e.digest, sig |-> e.sig]
  /\ e.body = [shows |-> e.body.shows, fact |-> e.body.fact,
               at |-> <<e.body.at[1], e.body.at[2]>>]
  /\ e.sig # None => e.sig = [key |-> e.sig.key, hash |-> e.sig.hash]

Located(e) ==
  /\ e.body.fact # None => e.body.at[2] = Slug(e.body.fact)
  /\ e.digest # None /\ e.digest.fact # None => e.body.at[2] = Slug(e.digest.fact)

\* As the code is, the observation last applied stands, older or not.
LastStands ==
  \A f \in applied : \A k \in KSIsOf(f) :
    \E e \in store[k] : Observation(f) \in Trace(e)

IInv ==
  /\ profile \in Profiles
  /\ applied \subseteq Facts
  /\ DOMAIN store = KSIs
  /\ \A k \in KSIs : \A e \in store[k] : IsEntry(e) /\ Located(e)
  /\ LastStands

-----------------------------------------------------------------------------
(* From a fact to an entry.                                                *)

\* The opaque identity of a fact is None or tagged, so that its slug tells
\* facts apart that are of different things.
LEMMA ObservationFields ==
  ASSUME NEW f \in Facts
  PROVE  /\ Observation(f) # None
         /\ Slug(Observation(f)) = <<f.source, f.check, ScopeId(f), RecordRef(f)>>
<1>1. DOMAIN f = {"source", "check", "scope", "record", "seen", "status"}
  BY FactAssumption
<1>2. Observation(f) # None
  BY FactAssumption
<1>3. /\ Observation(f).source = f.source
      /\ Observation(f).check = f.check
      /\ Observation(f).scope = ScopeId(f)
      /\ Observation(f).record = RecordRef(f)
  BY <1>1 DEF Observation
<1> QED BY <1>2, <1>3 DEF Slug

LEMMA SlugTellsIdentity ==
  ASSUME NEW f \in Facts, NEW g \in Facts,
         Slug(Observation(f)) = Slug(Observation(g))
  PROVE  Identity(f) = Identity(g)
<1>1. /\ f.source = g.source /\ f.check = g.check
      /\ ScopeId(f) = ScopeId(g) /\ RecordRef(f) = RecordRef(g)
  BY ObservationFields
<1>2. f.scope = g.scope
  BY <1>1, FactAssumption DEF ScopeId
<1>3. (IF f.record = <<Blank, Blank>> THEN None ELSE f.record)
        = IF g.record = <<Blank, Blank>> THEN None ELSE g.record
  BY <1>1, FactAssumption DEF RecordRef, Composite
<1> QED BY <1>1, <1>2, <1>3 DEF Identity

\* A derived entry is an entry, at the slug of its observation.
LEMMA DerivedEntry ==
  ASSUME NEW f \in Facts, NEW base \in Base
  PROVE  LET n == Derive(f, base) IN
         /\ IsEntry(n) /\ Located(n)
         /\ n.body.fact = Observation(f) /\ n.digest = n.body /\ n.digest # None
         /\ n.body.at = <<base, Slug(Observation(f))>>
         /\ n.body.at[2] = Slug(Observation(f))
<1> DEFINE n == Derive(f, base)
           o == Observation(f)
           b == [shows |-> o, fact |-> o, at |-> <<base, Slug(o)>>]
<1>1. n = [body |-> b, digest |-> b, sig |-> None]
  BY DEF Derive
<1>2. n.body # None
  BY FactAssumption
<1>3. n.body = b /\ n.digest = b /\ n.sig = None
  BY <1>1
<1>4. b.shows = o /\ b.fact = o /\ b.at = <<base, Slug(o)>>
      /\ b.at[1] = base /\ b.at[2] = Slug(o)
  OBVIOUS
<1> HIDE DEF n, b
<1>5. IsEntry(n)
  BY <1>1, <1>3, <1>4 DEF IsEntry, b
<1>6. Located(n)
  BY <1>3, <1>4 DEF Located
<1> QED BY <1>2, <1>3, <1>4, <1>5, <1>6 DEF n

-----------------------------------------------------------------------------
(* One run of apply_third_party_evidence.py.                               *)

\* What a run takes in are facts of the enabled adapters, one to a pointer:
\* within an export by the refusal, between exports by the source.
LEMMA IncomingFacts ==
  ASSUME profile \in Profiles, NEW files \in Files, NEW keyed,
         \A s \in Active(files) : ~Refused(files[s], keyed)
  PROVE  /\ Incoming(files) \subseteq Facts
         /\ \A f, g \in Incoming(files) :
              Slug(Observation(f)) = Slug(Observation(g)) => f = g
<1>1. ASSUME NEW s \in Active(files)
      PROVE  /\ files[s] \in Exports[s] /\ s \in Source
             /\ \A f \in Taken(files[s]) : f \in Facts /\ f.source = s
  <2>1. s \in Adapters /\ files[s] # None
    BY <1>1, EvidenceAssumption DEF Active
  <2>2. files[s] \in Exports[s] /\ s \in Source
    BY <2>1 DEF Files, Source
  <2>3. \A f \in files[s] : f \in Facts /\ f.source = s
    BY <2>2, EvidenceAssumption DEF Facts
  <2> QED BY <2>2, <2>3 DEF Taken
<1>2. Incoming(files) \subseteq Facts
  BY <1>1 DEF Incoming
<1>3. ASSUME NEW f \in Incoming(files), NEW g \in Incoming(files),
             Slug(Observation(f)) = Slug(Observation(g))
      PROVE  f = g
  <2>1. PICK s \in Active(files) : f \in Taken(files[s])
    BY DEF Incoming
  <2>2. PICK t \in Active(files) : g \in Taken(files[t])
    BY DEF Incoming
  <2>3. f.source = g.source
    BY <1>2, <1>3, ObservationFields
  <2>4. s = t
    BY <1>1, <2>1, <2>2, <2>3
  <2> QED BY <1>3, <2>1, <2>2, <2>4 DEF Refused
<1> QED BY <1>2, <1>3

\* An entry that survives the upsert was there or is derived from a fact.
LEMMA UpsertedEntries ==
  ASSUME NEW E, NEW N, NEW e \in Upsert(E, N)
  PROVE  e \in E \/ e \in N
BY DEF Upsert

\* The application of exports keeps every observation and adds its own.
LEMMA ApplyKeeps ==
  ASSUME IInv, NEW files \in Files, NEW base \in Base, NEW keyed,
         Apply(files, base, keyed)
  PROVE  IInv'
<1> DEFINE F == {f \in Incoming(files) : KSIsOf(f) # {}}
           N(k) == New(files, k, base)
<1>1. /\ Incoming(files) \subseteq Facts
      /\ \A f, g \in Incoming(files) :
           Slug(Observation(f)) = Slug(Observation(g)) => f = g
  BY IncomingFacts DEF Apply, IInv
<1>2. /\ store' = [k \in KSIs |-> Upsert(store[k], N(k))]
      /\ applied' = Supersede(F)
      /\ profile' = profile
  BY DEF Apply
<1>3. ASSUME NEW k \in KSIs, NEW n \in N(k)
      PROVE  \E f \in F : n = Derive(f, base) /\ k \in KSIsOf(f)
  BY <1>3 DEF New
<1>4. ASSUME NEW f \in F, NEW k \in KSIsOf(f)
      PROVE  Derive(f, base) \in N(k)
  BY <1>4 DEF New
<1>5. F \subseteq Facts
  BY <1>1
<1> HIDE DEF N
<1>6. applied' \subseteq Facts
  BY <1>2, <1>5 DEF Supersede, IInv
<1>7. ASSUME NEW k \in KSIs, NEW e \in store'[k]
      PROVE  IsEntry(e) /\ Located(e)
  <2>1. e \in store[k] \/ e \in N(k)
    BY <1>2, UpsertedEntries
  <2>2. CASE e \in store[k]
    BY <2>2 DEF IInv
  <2>3. CASE e \in N(k)
    BY <1>3, <1>5, <2>3, DerivedEntry
  <2> QED BY <2>1, <2>2, <2>3
<1>8. ASSUME NEW f \in applied', NEW k \in KSIsOf(f), k \in KSIs
      PROVE  \E e \in store'[k] : Observation(f) \in Trace(e)
  <2>1. store'[k] = Upsert(store[k], N(k))
    BY <1>2, <1>8
  <2>2. CASE f \in F
    <3> DEFINE n == Derive(f, base)
    <3>1. n \in N(k)
      BY <1>4, <1>8, <2>2
    <3>2. n.body.fact = Observation(f) /\ n.digest = n.body /\ n.digest # None
      BY <1>5, <2>2, DerivedEntry
    <3> HIDE DEF n
    <3>3. CASE \A e \in store[k] : e.body.at = n.body.at => Newer(n, e)
      <4>1. n \in store'[k]
        BY <2>1, <3>1, <3>3 DEF Upsert
      <4> QED BY <3>2, <4>1 DEF Trace
    <3>4. CASE \E e \in store[k] : e.body.at = n.body.at /\ ~Newer(n, e)
      <4>1. PICK e \in store[k] : e.body.at = n.body.at /\ n.digest = e.digest
        BY <3>4 DEF Newer, CollectedAt
      <4>2. ASSUME NEW m \in N(k), m.body.at = e.body.at
            PROVE  m = n
        <5>1. PICK g \in F : m = Derive(g, base)
          BY <1>3, <1>8
        <5>2. Slug(Observation(g)) = Slug(Observation(f))
          BY <1>5, <2>2, <4>1, <4>2, <5>1, DerivedEntry DEF n
        <5> QED BY <1>1, <2>2, <5>1, <5>2 DEF n
      <4>3. e \in store'[k]
        BY <2>1, <4>1, <4>2 DEF Upsert, Newer
      <4> QED BY <3>2, <4>1, <4>3 DEF Trace
    <3> QED BY <3>3, <3>4
  <2>3. CASE f \notin F
    <3>1. f \in applied /\ \A g \in F : Identity(g) # Identity(f)
      BY <1>2, <2>3 DEF Supersede
    <3>2. PICK e \in store[k] : Observation(f) \in Trace(e)
      BY <1>8, <3>1 DEF IInv, LastStands
    <3>3. f \in Facts /\ Observation(f) # None
      BY <3>1, ObservationFields DEF IInv
    <3>4. e.body.at[2] = Slug(Observation(f))
      BY <1>8, <3>2, <3>3 DEF IInv, Located, Trace
    <3>5. ASSUME NEW n \in N(k), n.body.at = e.body.at
          PROVE  FALSE
      <4>1. PICK g \in F : n = Derive(g, base)
        BY <1>3, <1>8
      <4>2. Slug(Observation(g)) = Slug(Observation(f))
        BY <1>5, <3>4, <3>5, <4>1, DerivedEntry
      <4> QED BY <1>5, <3>1, <3>3, <4>2, SlugTellsIdentity
    <3>6. e \in store'[k]
      BY <2>1, <3>5 DEF Upsert
    <3> QED BY <3>2, <3>6
  <2> QED BY <2>2, <2>3
<1>9. \A f \in applied' : KSIsOf(f) \subseteq KSIs
  BY EvidenceAssumption DEF KSIsOf, Declared
<1>10. LastStands'
  BY <1>8, <1>9 DEF LastStands, KSIsOf, Declared, Trace, Observation,
                    ScopeId, RecordRef, Composite
<1>11. DOMAIN store' = KSIs
  BY <1>2
<1> QED BY <1>2, <1>6, <1>7, <1>10, <1>11 DEF IInv, IsEntry, Located, Slug

-----------------------------------------------------------------------------
(* The other actions.                                                      *)

\* An action that leaves applied and profile alone, and keeps an entry with the
\* same trace for every entry, keeps the observations.
LEMMA TracesKept ==
  ASSUME IInv, profile' \in Profiles, applied' \subseteq applied,
         DOMAIN store' = KSIs,
         \A k \in KSIs : \A e \in store'[k] : IsEntry(e) /\ Located(e),
         \A f \in applied' : \A k \in KSIs : \A e \in store[k] :
           Observation(f) \in Trace(e) =>
             \E d \in store'[k] : Observation(f) \in Trace(d)
  PROVE  IInv'
<1>1. \A f \in applied' : KSIsOf(f) \subseteq KSIs
  BY EvidenceAssumption DEF KSIsOf, Declared
<1>2. \A f \in applied' : \A k \in KSIsOf(f) :
        \E e \in store'[k] : Observation(f) \in Trace(e)
  BY <1>1 DEF IInv, LastStands
<1>3. LastStands'
  BY <1>2 DEF LastStands, KSIsOf, Declared, Trace, Observation,
              ScopeId, RecordRef, Composite
<1> QED BY <1>3 DEF IInv, IsEntry, Located, Slug

\* The prefill only writes where there was nothing.
LEMMA PrefillKeeps ==
  ASSUME IInv, NEW k \in KSIs, NEW F \in Exports[Platform], NEW base \in Base,
         AcceptPrefill(k, F, base)
  PROVE  IInv'
<1> DEFINE G == {f \in F : k \in KSIsOf(f) /\ f.status # "error"}
<1>1. /\ store[k] = {}
      /\ store' = [store EXCEPT ![k] = {Derive(f, base) : f \in G}]
      /\ profile' = profile /\ applied' = applied
  BY DEF AcceptPrefill
<1>2. G \subseteq Facts
  BY DEF Facts, Source
<1> HIDE DEF G
<1>3. \A e \in store'[k] : IsEntry(e) /\ Located(e)
  <2>1. store'[k] = {Derive(f, base) : f \in G}
    BY <1>1 DEF IInv
  <2> QED BY <1>2, <2>1, DerivedEntry
<1>4. \A j \in KSIs \ {k} : store'[j] = store[j]
  BY <1>1 DEF IInv
<1>5. DOMAIN store' = KSIs
  BY <1>1 DEF IInv
<1>6. \A j \in KSIs : \A e \in store'[j] : IsEntry(e) /\ Located(e)
  BY <1>3, <1>4 DEF IInv
<1>7. \A j \in KSIs : \A e \in store[j] : e \in store'[j]
  BY <1>1, <1>4
<1> QED BY <1>1, <1>5, <1>6, <1>7, TracesKept DEF IInv

\* A signature changes neither what an entry shows nor its digest.
LEMMA SignedEntry ==
  ASSUME NEW e, NEW key, IsEntry(e), Located(e)
  PROVE  IsEntry(Signed(e, key)) /\ Located(Signed(e, key))
         /\ Trace(Signed(e, key)) = Trace(e)
<1>1. CASE e.digest = None
  BY <1>1 DEF Signed
<1>2. CASE e.digest # None
  <2> DEFINE g == [key |-> key, hash |-> e.digest]
  <2>1. Signed(e, key) = [e EXCEPT !.sig = g]
    BY <1>2 DEF Signed
  <2>2. g = [key |-> g.key, hash |-> g.hash]
    OBVIOUS
  <2> HIDE DEF g
  <2>3. Signed(e, key) = [body |-> e.body, digest |-> e.digest, sig |-> g]
    BY <2>1 DEF IsEntry
  <2>4. /\ Signed(e, key).body = e.body
        /\ Signed(e, key).digest = e.digest
        /\ Signed(e, key).sig = g
    BY <2>3
  <2> QED BY <2>2, <2>3, <2>4 DEF IsEntry, Located, Trace
<1> QED BY <1>1, <1>2

LEMMA SignKeeps ==
  ASSUME IInv, NEW key \in Keys, Sign(key)
  PROVE  IInv'
<1>1. /\ store' = [k \in KSIs |-> {Signed(e, key) : e \in store[k]}]
      /\ profile' = profile /\ applied' = applied
  BY DEF Sign
<1>2. \A k \in KSIs : \A e \in store'[k] : IsEntry(e) /\ Located(e)
  BY <1>1, SignedEntry DEF IInv
<1>3. ASSUME NEW f \in applied', NEW k \in KSIs, NEW e \in store[k],
             Observation(f) \in Trace(e)
      PROVE  \E d \in store'[k] : Observation(f) \in Trace(d)
  <2>1. Signed(e, key) \in store'[k]
    BY <1>1
  <2>2. Trace(Signed(e, key)) = Trace(e)
    BY SignedEntry DEF IInv
  <2> QED BY <1>3, <2>1, <2>2
<1> QED BY <1>1, <1>2, <1>3, TracesKept DEF IInv

\* However a person edits an entry, its pointer keeps the slug.
LEMMA EditedEntry ==
  ASSUME NEW e, IsEntry(e), Located(e), NEW d \in EditedForms(e)
  PROVE  IsEntry(d) /\ Located(d)
<1> DEFINE B(shows, fact, at) == [shows |-> shows, fact |-> fact, at |-> at]
           R(b, digest, sig) == [body |-> b, digest |-> digest, sig |-> sig]
<1>1. /\ e = R(e.body, e.digest, e.sig)
      /\ e.body = B(e.body.shows, e.body.fact, <<e.body.at[1], e.body.at[2]>>)
      /\ e.sig # None => e.sig = [key |-> e.sig.key, hash |-> e.sig.hash]
  BY DEF IsEntry
<1>2. CASE d = [e EXCEPT !.body.shows = Reworded]
  <2>1. d = R(B(Reworded, e.body.fact, <<e.body.at[1], e.body.at[2]>>), e.digest, e.sig)
    BY <1>1, <1>2
  <2> QED BY <1>1, <2>1 DEF IsEntry, Located
<1>3. CASE d = [e EXCEPT !.body.at = IF Placeholder(e) THEN <<"store", @[2]>>
                                     ELSE <<"typed", @[2]>>]
  <2>1. PICK w \in {"store", "typed"} :
          d = R(B(e.body.shows, e.body.fact, <<w, e.body.at[2]>>), e.digest, e.sig)
    <3>1. CASE Placeholder(e)
      BY <1>1, <1>3, <3>1
    <3>2. CASE ~Placeholder(e)
      BY <1>1, <1>3, <3>2
    <3> QED BY <3>1, <3>2
  <2> QED BY <1>1, <2>1 DEF IsEntry, Located
<1>4. CASE d = [e EXCEPT !.digest = None]
  <2>1. d = R(e.body, None, e.sig)
    BY <1>1, <1>4
  <2> QED BY <1>1, <2>1 DEF IsEntry, Located
<1>5. CASE d = [e EXCEPT !.sig = None]
  <2>1. d = R(e.body, e.digest, None)
    BY <1>1, <1>5
  <2> QED BY <1>1, <2>1 DEF IsEntry, Located
<1>6. CASE d = [e EXCEPT !.body.fact = None]
  <2>1. d = R(B(e.body.shows, None, <<e.body.at[1], e.body.at[2]>>), e.digest, e.sig)
    BY <1>1, <1>6
  <2> QED BY <1>1, <2>1 DEF IsEntry, Located
<1>7. CASE d = [e EXCEPT !.digest = e.body]
  <2>1. d = R(e.body, e.body, e.sig)
    BY <1>1, <1>7
  <2> QED BY <1>1, <2>1 DEF IsEntry, Located
<1> QED BY <1>2, <1>3, <1>4, <1>5, <1>6, <1>7 DEF EditedForms

\* A person who takes an observation out of an entry takes the fact back.
LEMMA ForgetsTheFact ==
  ASSUME IInv, NEW O
  PROVE  Forget(O) \subseteq applied /\ \A f \in Forget(O) : Observation(f) \notin O
BY DEF Forget, IInv

LEMMA EditKeeps ==
  ASSUME IInv, NEW k \in KSIs, NEW e \in store[k], NEW d \in EditedForms(e),
         EditEntry(k, e, d)
  PROVE  IInv'
<1>1. /\ store' = [store EXCEPT ![k] = (@ \ {e}) \cup {d}]
      /\ applied' = Forget(Trace(e) \ Trace(d))
      /\ profile' = profile
  BY DEF EditEntry
<1>2. /\ DOMAIN store' = KSIs
      /\ store'[k] = (store[k] \ {e}) \cup {d}
      /\ \A j \in KSIs \ {k} : store'[j] = store[j]
  BY <1>1 DEF IInv
<1>3. IsEntry(d) /\ Located(d)
  BY EditedEntry DEF IInv
<1>4. \A j \in KSIs : \A x \in store'[j] : IsEntry(x) /\ Located(x)
  BY <1>2, <1>3 DEF IInv
<1>5. applied' \subseteq applied
      /\ \A f \in applied' : Observation(f) \in Trace(e) => Observation(f) \in Trace(d)
  BY <1>1, ForgetsTheFact
<1>6. ASSUME NEW f \in applied', NEW j \in KSIs, NEW x \in store[j],
             Observation(f) \in Trace(x)
      PROVE  \E y \in store'[j] : Observation(f) \in Trace(y)
  <2>1. CASE j = k /\ x = e
    BY <1>2, <1>5, <1>6, <2>1
  <2>2. CASE ~(j = k /\ x = e)
    BY <1>2, <1>6, <2>2
  <2> QED BY <2>1, <2>2
<1> QED BY <1>1, <1>2, <1>4, <1>5, <1>6, TracesKept DEF IInv

LEMMA RemoveKeeps ==
  ASSUME IInv, NEW k \in KSIs, NEW e \in store[k], RemoveEntry(k, e)
  PROVE  IInv'
<1>1. /\ store' = [store EXCEPT ![k] = @ \ {e}]
      /\ applied' = Forget(Trace(e))
      /\ profile' = profile
  BY DEF RemoveEntry
<1>2. /\ DOMAIN store' = KSIs
      /\ store'[k] = store[k] \ {e}
      /\ \A j \in KSIs \ {k} : store'[j] = store[j]
  BY <1>1 DEF IInv
<1>3. \A j \in KSIs : \A x \in store'[j] : IsEntry(x) /\ Located(x)
  BY <1>2 DEF IInv
<1>4. applied' \subseteq applied /\ \A f \in applied' : Observation(f) \notin Trace(e)
  BY <1>1, ForgetsTheFact
<1>5. ASSUME NEW f \in applied', NEW j \in KSIs, NEW x \in store[j],
             Observation(f) \in Trace(x)
      PROVE  x \in store'[j]
  BY <1>2, <1>4, <1>5
<1> QED BY <1>1, <1>2, <1>3, <1>4, <1>5, TracesKept DEF IInv

LEMMA CopyKeeps ==
  ASSUME IInv, NEW j \in KSIs, NEW k \in KSIs, NEW e \in store[j], CopyEntry(j, e, k)
  PROVE  IInv'
<1>1. /\ store' = [store EXCEPT ![k] = @ \cup {e}]
      /\ profile' = profile /\ applied' = applied
  BY DEF CopyEntry
<1>2. /\ DOMAIN store' = KSIs
      /\ store'[k] = store[k] \cup {e}
      /\ \A i \in KSIs \ {k} : store'[i] = store[i]
  BY <1>1 DEF IInv
<1>3. \A i \in KSIs : \A x \in store'[i] : IsEntry(x) /\ Located(x)
  BY <1>2 DEF IInv
<1>4. \A i \in KSIs : store[i] \subseteq store'[i]
  BY <1>2
<1> QED BY <1>1, <1>2, <1>3, <1>4, TracesKept DEF IInv

LEMMA NextKeeps ==
  ASSUME IInv, [Next]_vars
  PROVE  IInv'
<1>1. ASSUME NEW p \in Profiles, Declare(p) PROVE IInv'
  BY <1>1, TracesKept DEF Declare, IInv
<1>2. ASSUME NEW files \in Files, NEW base \in Base, NEW keyed \in BOOLEAN,
             Apply(files, base, keyed)
      PROVE  IInv'
  BY <1>2, ApplyKeeps
<1>3. ASSUME NEW k \in KSIs, NEW F \in Exports[Platform], NEW base \in Base,
             AcceptPrefill(k, F, base)
      PROVE  IInv'
  BY <1>3, PrefillKeeps
<1>4. ASSUME NEW key \in Keys, Sign(key) PROVE IInv'
  BY <1>4, SignKeeps
<1>5. ASSUME NEW k \in KSIs, NEW e \in store[k],
             \/ \E d \in EditedForms(e) : EditEntry(k, e, d)
             \/ RemoveEntry(k, e)
             \/ \E j \in KSIs \ {k} : CopyEntry(k, e, j)
      PROVE  IInv'
  BY <1>5, EditKeeps, RemoveKeeps, CopyKeeps
<1>6. CASE UNCHANGED vars
  BY <1>6, TracesKept DEF vars, IInv
<1> QED BY <1>1, <1>2, <1>3, <1>4, <1>5, <1>6 DEF Next

(* The invariant holds in every reachable state, whatever is exported,
   applied, signed, edited and declared, in any order (EvidenceEntries). *)
THEOREM InvariantHolds == Spec => []IInv
<1>1. Init => IInv
  BY DEF Init, IInv, LastStands
<1>2. IInv /\ [Next]_vars => IInv'
  BY NextKeeps
<1> QED BY <1>1, <1>2, PTL DEF Spec

(* Of each record of a source what was last applied, or a newer observation, is
   in the store until a person takes it out: no observation replaces one of
   another scope or record (apply_third_party_evidence.py:83-118, evidence_wiring.py:393-420). *)
THEOREM NoObservationIsLost == Spec => []ObservationsSurvive
<1>1. IInv => ObservationsSurvive
  BY DEF IInv, LastStands, ObservationsSurvive
<1> QED BY <1>1, InvariantHolds, PTL

(* The gates of a production-assurance package together stand for what the
   package shows: every entry is of an operated source, under a KSI it is
   evidence for, at its own pointer, and signed word for word by the pinned key
   where one is required (validate_evidence.py:420-592, sdr.py:915-990). *)
THEOREM ClearedEvidenceHolds == Spec => []ProductionEvidenceHolds
<1>1. ASSUME IInv, profile.production, Cleared, NEW k \in KSIs, NEW e \in store[k]
      PROVE  LET o == e.body.fact IN
             /\ k \in Targets[<<o.source, o.check>>]
             /\ IF o.source = Platform THEN profile.aws ELSE o.source \in profile.enabled
             /\ e.body.at = <<"store", Slug(o)>>
             /\ Required => e.sig = [key |-> profile.key, hash |-> e.body]
  <2> DEFINE o == e.body.fact
  <2>1. Verified(e) /\ SourceBound(k, e) /\ PointerBound(e)
    BY <1>1 DEF Cleared, ProductionGate
  <2>2. e.digest # None /\ ~Placeholder(e) /\ Claims(e) /\ ~Hard(e)
    BY <2>1 DEF Verified
  <2>3. PICK c \in Operated : c = <<o.source, o.check>> /\ k \in Targets[c]
    BY <2>1, <2>2 DEF SourceBound
  <2>4. IF o.source = Platform THEN profile.aws ELSE o.source \in profile.enabled
    BY <2>3 DEF Operated
  <2>5. e.body.at = <<"store", Slug(o)>>
    BY <2>1, <2>2 DEF PointerBound
  <2>6. e.digest = e.body /\ ~BadSignature(e)
    BY <2>2 DEF Hard
  <2>7. ASSUME Required PROVE e.sig = [key |-> profile.key, hash |-> e.body]
    <3>1. e.sig # None /\ e.sig.hash = e.body /\ e.sig.key = profile.key
      BY <2>6, <2>7 DEF BadSignature
    <3> QED BY <1>1, <3>1 DEF IInv, IsEntry
  <2> QED BY <2>3, <2>4, <2>5, <2>7
<1>2. IInv => ProductionEvidenceHolds
  BY <1>1 DEF ProductionEvidenceHolds
<1> QED BY <1>2, InvariantHolds, PTL

-----------------------------------------------------------------------------
(* No raw identifier in the store.                                         *)

(* What TypeOK asks of an entry: its words, the ones it was hashed with and
   the ones that were signed show opaque identifiers only. *)
Clean(e) ==
  /\ IsBody(e.body)
  /\ e.digest # None => IsBody(e.digest)
  /\ e.sig # None => e.sig.key \in Keys /\ IsBody(e.sig.hash)

Bounded == applies \in 0..MaxApplies /\ edits \in 0..MaxEdits

Private == Bounded /\ \A k \in KSIs : \A e \in store[k] : Clean(e)

LEMMA OpaqueObservation ==
  ASSUME NEW f \in Facts
  PROVE  Opaque(Observation(f))
<1>1. DOMAIN f = {"source", "check", "scope", "record", "seen", "status"}
  BY FactAssumption
<1>2. /\ Observation(f).scope = ScopeId(f)
      /\ Observation(f).record = RecordRef(f)
  BY <1>1 DEF Observation
<1>3. \A g \in Facts : ScopeId(f) \notin {g.scope} \ {None}
  BY TaggedAssumption DEF ScopeId
<1>4. \A g \in Facts : RecordRef(f) \notin {g.record} \ {None}
  BY TaggedAssumption DEF RecordRef, Composite
<1> QED BY <1>2, <1>3, <1>4 DEF Opaque

LEMMA DerivedIsClean ==
  ASSUME NEW f \in Facts, NEW base \in Base
  PROVE  Clean(Derive(f, base))
<1> DEFINE n == Derive(f, base)
           o == Observation(f)
           b == [shows |-> o, fact |-> o, at |-> <<base, Slug(o)>>]
<1>1. n.body = b /\ n.digest = b /\ n.sig = None
  BY DEF Derive
<1>2. b.shows = o /\ b.fact = o /\ b.at[1] = base
  OBVIOUS
<1> HIDE DEF n, b
<1>3. IsBody(b)
  BY <1>2, OpaqueObservation DEF IsBody, Base
<1> QED BY <1>1, <1>3 DEF Clean, n

LEMMA SignedIsClean ==
  ASSUME NEW e, IsEntry(e), Clean(e), NEW key \in Keys
  PROVE  Clean(Signed(e, key))
<1>1. CASE e.digest = None
  BY <1>1 DEF Signed
<1>2. CASE e.digest # None
  <2> DEFINE g == [key |-> key, hash |-> e.digest]
  <2>1. Signed(e, key) = [e EXCEPT !.sig = g]
    BY <1>2 DEF Signed
  <2>2. g.key = key /\ g.hash = e.digest
    OBVIOUS
  <2> HIDE DEF g
  <2>3. Signed(e, key) = [body |-> e.body, digest |-> e.digest, sig |-> g]
    BY <2>1 DEF IsEntry
  <2>4. /\ Signed(e, key).body = e.body
        /\ Signed(e, key).digest = e.digest
        /\ Signed(e, key).sig = g
    BY <2>3
  <2> QED BY <1>2, <2>2, <2>4 DEF Clean
<1> QED BY <1>1, <1>2

LEMMA EditedIsClean ==
  ASSUME NEW e, IsEntry(e), Clean(e), NEW d \in EditedForms(e)
  PROVE  Clean(d)
<1> DEFINE B(shows, fact, at) == [shows |-> shows, fact |-> fact, at |-> at]
           R(b, digest, sig) == [body |-> b, digest |-> digest, sig |-> sig]
<1>1. /\ e = R(e.body, e.digest, e.sig)
      /\ e.body = B(e.body.shows, e.body.fact, <<e.body.at[1], e.body.at[2]>>)
  BY DEF IsEntry
<1>2. CASE d = [e EXCEPT !.body.shows = Reworded]
  <2>1. d = R(B(Reworded, e.body.fact, <<e.body.at[1], e.body.at[2]>>), e.digest, e.sig)
    BY <1>1, <1>2
  <2> QED BY <2>1 DEF Clean, IsBody
<1>3. CASE d = [e EXCEPT !.body.at = IF Placeholder(e) THEN <<"store", @[2]>>
                                     ELSE <<"typed", @[2]>>]
  <2>1. PICK w \in {"store", "typed"} :
          d = R(B(e.body.shows, e.body.fact, <<w, e.body.at[2]>>), e.digest, e.sig)
    <3>1. CASE Placeholder(e)
      BY <1>1, <1>3, <3>1
    <3>2. CASE ~Placeholder(e)
      BY <1>1, <1>3, <3>2
    <3> QED BY <3>1, <3>2
  <2> QED BY <2>1 DEF Clean, IsBody
<1>4. CASE d = [e EXCEPT !.digest = None]
  <2>1. d = R(e.body, None, e.sig)
    BY <1>1, <1>4
  <2> QED BY <2>1 DEF Clean
<1>5. CASE d = [e EXCEPT !.sig = None]
  <2>1. d = R(e.body, e.digest, None)
    BY <1>1, <1>5
  <2> QED BY <2>1 DEF Clean
<1>6. CASE d = [e EXCEPT !.body.fact = None]
  <2>1. d = R(B(e.body.shows, None, <<e.body.at[1], e.body.at[2]>>), e.digest, e.sig)
    BY <1>1, <1>6
  <2> QED BY <2>1 DEF Clean, IsBody
<1>7. CASE d = [e EXCEPT !.digest = e.body]
  <2>1. d = R(e.body, e.body, e.sig)
    BY <1>1, <1>7
  <2> QED BY <2>1 DEF Clean
<1> QED BY <1>2, <1>3, <1>4, <1>5, <1>6, <1>7 DEF EditedForms

LEMMA NextPrivate ==
  ASSUME IInv, Private, [Next]_vars
  PROVE  Private'
<1>0. Bounded /\ \A k \in KSIs : \A e \in store[k] : IsEntry(e) /\ Clean(e)
  BY DEF IInv, Private
<1>1. ASSUME NEW p \in Profiles, Declare(p) PROVE Private'
  BY <1>0, <1>1 DEF Declare, Private, Bounded
<1>2. ASSUME NEW files \in Files, NEW base \in Base, NEW keyed \in BOOLEAN,
             Apply(files, base, keyed)
      PROVE  Private'
  <2>1. Bounded'
    BY <1>0, <1>2, EvidenceAssumption DEF Bounded, Apply
  <2>2. Incoming(files) \subseteq Facts
    BY <1>2, IncomingFacts DEF Apply, IInv
  <2>3. ASSUME NEW k \in KSIs, NEW e \in store'[k] PROVE Clean(e)
    <3>1. store'[k] = Upsert(store[k], New(files, k, base))
      BY <1>2 DEF Apply
    <3>2. e \in store[k] \/ e \in New(files, k, base)
      BY <2>3, <3>1, UpsertedEntries
    <3> QED BY <1>0, <2>2, <3>2, DerivedIsClean DEF New
  <2> QED BY <2>1, <2>3 DEF Private, Clean, IsBody, Opaque
<1>3. ASSUME NEW k \in KSIs, NEW F \in Exports[Platform], NEW base \in Base,
             AcceptPrefill(k, F, base)
      PROVE  Private'
  <2> DEFINE G == {f \in F : k \in KSIsOf(f) /\ f.status # "error"}
  <2>1. store' = [store EXCEPT ![k] = {Derive(f, base) : f \in G}] /\ Bounded'
    BY <1>0, <1>3 DEF AcceptPrefill, Bounded
  <2>2. G \subseteq Facts
    BY DEF Facts, Source
  <2> HIDE DEF G
  <2>3. ASSUME NEW j \in KSIs, NEW e \in store'[j] PROVE Clean(e)
    <3>1. store'[j] = IF j = k THEN {Derive(f, base) : f \in G} ELSE store[j]
      BY <2>1 DEF IInv
    <3>2. CASE j = k
      BY <2>2, <2>3, <3>1, <3>2, DerivedIsClean
    <3>3. CASE j # k
      BY <1>0, <2>3, <3>1, <3>3
    <3> QED BY <3>2, <3>3
  <2> QED BY <2>1, <2>3 DEF Private, Clean, IsBody, Opaque
<1>4. ASSUME NEW key \in Keys, Sign(key) PROVE Private'
  <2>1. store' = [k \in KSIs |-> {Signed(e, key) : e \in store[k]}] /\ Bounded'
    BY <1>0, <1>4 DEF Sign, Bounded
  <2>2. \A k \in KSIs : \A e \in store'[k] : Clean(e)
    BY <1>0, <2>1, SignedIsClean
  <2> QED BY <2>1, <2>2 DEF Private, Clean, IsBody, Opaque
<1>5. ASSUME NEW k \in KSIs, NEW e \in store[k], NEW d \in EditedForms(e),
             EditEntry(k, e, d)
      PROVE  Private'
  <2>1. store' = [store EXCEPT ![k] = (@ \ {e}) \cup {d}]
    BY <1>5 DEF EditEntry
  <2>2. Bounded'
    BY <1>0, <1>5, EvidenceAssumption DEF EditEntry, Bounded
  <2>3. Clean(d)
    BY <1>0, EditedIsClean
  <2>4. \A j \in KSIs : \A x \in store'[j] : x \in store[j] \/ x = d
    BY <2>1 DEF IInv
  <2>5. \A j \in KSIs : \A x \in store'[j] : Clean(x)
    BY <1>0, <2>3, <2>4
  <2> QED BY <2>2, <2>5 DEF Private, Clean, IsBody, Opaque
<1>6. ASSUME NEW k \in KSIs, NEW e \in store[k], RemoveEntry(k, e)
      PROVE  Private'
  <2>1. \A j \in KSIs : \A x \in store'[j] : x \in store[j]
    BY <1>6 DEF RemoveEntry, IInv
  <2>2. Bounded'
    BY <1>0, <1>6, EvidenceAssumption DEF RemoveEntry, Bounded
  <2>3. \A j \in KSIs : \A x \in store'[j] : Clean(x)
    BY <1>0, <2>1
  <2> QED BY <2>2, <2>3 DEF Private, Clean, IsBody, Opaque
<1>7. ASSUME NEW k \in KSIs, NEW e \in store[k], NEW j \in KSIs, CopyEntry(k, e, j)
      PROVE  Private'
  <2>1. \A i \in KSIs : \A x \in store'[i] : x \in store[i] \/ x = e
    BY <1>7 DEF CopyEntry, IInv
  <2>2. Bounded'
    BY <1>0, <1>7, EvidenceAssumption DEF CopyEntry, Bounded
  <2>3. \A i \in KSIs : \A x \in store'[i] : Clean(x)
    BY <1>0, <2>1
  <2> QED BY <2>2, <2>3 DEF Private, Clean, IsBody, Opaque
<1>8. CASE UNCHANGED vars
  BY <1>0, <1>8 DEF vars, Private, Bounded
<1> QED BY <1>1, <1>2, <1>3, <1>4, <1>5, <1>6, <1>7, <1>8 DEF Next

(* No raw identifier of an account, a tenant or a record gets into the record
   store: not into the text of an entry, nor into the words it was hashed and
   signed with, whatever people do with the entries (EvidenceEntries). *)
THEOREM TypeCorrect == Spec => []TypeOK
<1>1. Init => Private
  BY EvidenceAssumption DEF Init, Private, Bounded
<1>2. IInv /\ Private => TypeOK
  BY DEF IInv, Private, Clean, Bounded, TypeOK
<1>3. IInv /\ Private /\ [Next]_vars => Private'
  BY NextPrivate
<1> QED BY <1>1, <1>2, <1>3, InvariantHolds, PTL DEF Spec

-----------------------------------------------------------------------------
(* To apply the same again costs nothing.                                  *)

(* An entry that a run adds, though the store has one of the same words: the
   one that was there had lost its digest, which is only cleared where no
   digest is asked for, and there the new one is cleared as well. *)
LEMMA RepeatedEntry ==
  ASSUME NEW f \in Facts, NEW base \in Base, NEW n, n = Derive(f, base),
         NEW e, e.body = n.body, Newer(n, e), ~Hard(e), ~Placeholder(e)
  PROVE  e.digest = None /\ ~Placeholder(n) /\ ~Hard(n)
<1>1. /\ n.digest = n.body /\ n.digest # None
      /\ n.body.fact = Observation(f) /\ Observation(f) # None
  BY DerivedEntry, ObservationFields
<1>2. n.sig = None
  BY DEF Derive
<1>3. Claims(e) /\ Claims(n) /\ ~Placeholder(n)
  BY <1>1 DEF Claims, Placeholder
<1>4. e.digest # e.body
  BY <1>1 DEF Newer
<1>5. e.digest = None
  BY <1>3, <1>4 DEF Hard
<1>6. ~Required
  BY <1>5 DEF Hard
<1>7. ~BadSignature(n)
  BY <1>2, <1>6 DEF BadSignature
<1> QED BY <1>1, <1>3, <1>5, <1>7 DEF Hard

(* A run that brings no entry with words that were not there. *)
LEMMA RepeatKeeps ==
  ASSUME IInv, Cleared, NEW files \in Files, NEW base \in Base, NEW keyed \in BOOLEAN,
         Apply(files, base, keyed),
         \A k \in KSIs : \A n \in New(files, k, base) :
           \E e \in store[k] : e.body = n.body
  PROVE  Cleared'
<1>1. /\ store' = [k \in KSIs |-> Upsert(store[k], New(files, k, base))]
      /\ profile' = profile
  BY DEF Apply
<1>2. Incoming(files) \subseteq Facts
  BY IncomingFacts DEF Apply, IInv
<1>3. \A k \in KSIs : \A e \in store[k] : ~Hard(e) /\ ~Placeholder(e)
  BY DEF Cleared, IntegrityGate, PlaceholderGate
<1>4. ASSUME NEW k \in KSIs, NEW x \in store'[k], x \notin store[k]
      PROVE  ~Placeholder(x) /\ ~Hard(x) /\ ~profile.production
  <2>1. x \in Upsert(store[k], New(files, k, base))
    BY <1>1
  <2>2. /\ x \in New(files, k, base)
        /\ \A e \in store[k] : e.body.at = x.body.at => Newer(x, e)
    BY <1>4, <2>1 DEF Upsert
  <2>3. PICK f \in Incoming(files) : x = Derive(f, base)
    BY <2>2 DEF New
  <2>4. PICK e \in store[k] : e.body = x.body
    BY <2>2
  <2>5. Newer(x, e) /\ ~Hard(e) /\ ~Placeholder(e)
    BY <1>3, <2>2, <2>4
  <2>6. e.digest = None /\ ~Placeholder(x) /\ ~Hard(x)
    BY <1>2, <2>3, <2>4, <2>5, RepeatedEntry
  <2>7. ~profile.production
    BY <2>6 DEF Cleared, ProductionGate, Verified
  <2> QED BY <2>6, <2>7
<1>5. \A e : (Hard(e))' <=> Hard(e)
  BY <1>1 DEF Hard, Required, BadSignature, Placeholder, Claims
<1>6. (\A k \in KSIs : \A e \in store[k] : ~Placeholder(e) /\ ~Hard(e))'
  BY <1>3, <1>4, <1>5 DEF Placeholder
<1>7. profile.production => \A k \in KSIs : store'[k] \subseteq store[k]
  BY <1>4
<1>8. \A e : Verified(e)' <=> Verified(e)
  BY <1>5 DEF Verified, Placeholder, Claims
<1>9. \A k, e : (SourceBound(k, e)' <=> SourceBound(k, e))
                  /\ (PointerBound(e)' <=> PointerBound(e))
  BY <1>1 DEF SourceBound, PointerBound, Operated, Claims, Placeholder, Slug
<1>10. ProductionGate'
  BY <1>1, <1>7, <1>8, <1>9 DEF Cleared, ProductionGate
<1>11. SignerGate' /\ StoreGate'
  BY <1>1 DEF Cleared, SignerGate, StoreGate
<1>12. IntegrityGate' /\ PlaceholderGate'
  BY <1>6 DEF IntegrityGate, PlaceholderGate
<1> QED BY <1>10, <1>11, <1>12 DEF Cleared

(* Whatever the store holds: a run whose entries are all there costs a package
   its clearance under no profile and no signature policy
   (apply_third_party_evidence.py and upsert_evidence). *)
THEOREM RepeatsAreHarmless == Spec => RepeatKeepsCleared
<1>1. ASSUME IInv, Cleared, ~Cleared',
             NEW files \in Files, NEW base \in Base, NEW keyed \in BOOLEAN,
             Apply(files, base, keyed)
      PROVE  \E k \in KSIs : \E n \in New(files, k, base) :
               \A e \in store[k] : e.body # n.body
  BY <1>1, RepeatKeeps
<1>2. IInv => [Cleared /\ ~Cleared' =>
       \A files \in Files, base \in Base, keyed \in BOOLEAN :
         Apply(files, base, keyed) =>
           \E k \in KSIs : \E n \in New(files, k, base) :
             \A e \in store[k] : e.body # n.body]_vars
  BY <1>1
<1> QED BY <1>2, InvariantHolds, PTL DEF RepeatKeepsCleared
=============================================================================
