--------------------------- MODULE EvidenceEntries ---------------------------
(***************************************************************************)
(* The evidence under the KSIs of the record store.  A tool exports facts; *)
(* apply_third_party_evidence.py derives an entry from each and puts it    *)
(* under the KSIs its check is declared for.  Facts of the AWS collectors  *)
(* come in through an accepted prefill.  A signer signs digests, people    *)
(* edit the store and the offering profile, and two gates judge the        *)
(* entries: validate_evidence.py, and sdr.py preflight, which asks more of *)
(* a production-assurance package.  The KSIs are those in scope whose      *)
(* implementation is filled in: preflight skips the evidence of others.    *)
(*                                                                         *)
(* A digest is the payload it was computed over, an opaque identifier is   *)
(* tagged and stands for a keyed hash, the text of an entry is the         *)
(* observation it shows.  A record is a pair of components of its identity,*)
(* which may be Blank, or None if the mapping declares no identity.        *)
(* Locations of one KSI are distinct, also after a person edited them.     *)
(***************************************************************************)
EXTENDS Naturals, Sequences

CONSTANTS
  KSIs,
  Platform,   \* the AWS collectors and Config rules, as one source
  Adapters,   \* the evidence adapters and mappings
  Targets,    \* source and declared check -> the KSIs it is evidence for
  Skipping,   \* mappings that skip a record of an undeclared check
  Exports,    \* source -> the sets of facts it may hand over
  Profiles,   \* what the offering profile may say of sources, signer and store
  Keys,
  Blank, None, Reworded,
  MaxApplies, \* bound: runs of apply_third_party_evidence.py
  MaxEdits    \* bound: edits of the record store by hand

Source == Adapters \cup {Platform}
Base == {"placeholder", "store"}
Files == {files \in [Adapters -> UNION {Exports[s] : s \in Adapters} \cup {None}] :
            \A s \in Adapters : files[s] \in Exports[s] \cup {None}}

ASSUME EvidenceAssumption ==
  /\ Platform \notin Adapters /\ Skipping \subseteq Adapters
  /\ \A c \in DOMAIN Targets : c[1] \in Source /\ Targets[c] \subseteq KSIs
  /\ \A s \in Source : \A F \in Exports[s] : \A f \in F : f.source = s
  /\ \A p \in Profiles : p.enabled \subseteq Adapters /\ p.key \in Keys \cup {None}
  /\ None \notin Keys \cup {Blank}
  /\ {MaxApplies, MaxEdits} \subseteq Nat

VARIABLES
  profile,  \* the offering profile
  store,    \* the evidence of each KSI in records-store.json
  applied,  \* history: the last fact applied of every record of a source
  applies, edits    \* what the bounds count

vars == <<profile, store, applied, applies, edits>>

-----------------------------------------------------------------------------
(* From a fact to an entry.                                                *)

DropAbsent(r) == SelectSeq(r, LAMBDA x : x # Blank)   \* mutant
\* composite_record_id: components keep their positions.
Composite(r) == r

RecordRef(f) ==
  IF f.record = None \/ f.record = <<Blank, Blank>> THEN None
  ELSE <<"rec", Composite(f.record)>>
RawScope(f) == f.scope   \* mutant: the identifier of the account or tenant
ScopeId(f) == IF f.scope = None THEN None ELSE <<"scope", f.scope>>
Observation(f) == [f EXCEPT !.scope = ScopeId(f), !.record = RecordRef(f)]
Slug(o) == <<o.source, o.check, o.scope, o.record>>

\* fact_to_evidence.  body is the bound payload.
Derive(f, base) ==
  LET o == Observation(f)
      body == [shows |-> o, fact |-> o, at |-> <<base, Slug(o)>>]
  IN  [body |-> body, digest |-> body, sig |-> None]

Placeholder(e) == e.body.at[1] = "placeholder"
Claims(e) == e.body.fact # None

-----------------------------------------------------------------------------
(* One run: all enabled sources that have an export file, or none of them. *)
(* files is the export file of each adapter, None if there is none.        *)

Declared(f) == <<f.source, f.check>> \in DOMAIN Targets
KSIsOf(f) == IF Declared(f) THEN Targets[<<f.source, f.check>>] ELSE {}
Taken(file) == {f \in file : f.source \in Skipping => Declared(f)}
Active(files) == {s \in profile.enabled : files[s] # None}

\* The fact contract, the declared vocabulary, the scope key, one fact a pointer.
Refused(file, keyed) ==
  \/ \E f \in Taken(file) :
       \/ f.seen = None
       \/ ~Declared(f)
       \/ ~keyed /\ (ScopeId(f) # None \/ RecordRef(f) # None)
  \/ \E f, g \in Taken(file) :
       f # g /\ Slug(Observation(f)) = Slug(Observation(g))

Incoming(files) == UNION {Taken(files[s]) : s \in Active(files)}
New(files, k, base) ==
  {Derive(f, base) : f \in {g \in Incoming(files) : k \in KSIsOf(g)}}

AlwaysNewer(n, e) == TRUE   \* mutant: also an identical observation replaces
\* fact_to_evidence puts no time of collection in an entry, only in its fact.
CollectedAt(e) == None
Newer(n, e) ==
  /\ n.digest # e.digest
  /\ CollectedAt(n) # None /\ CollectedAt(e) # None
       => CollectedAt(n) >= CollectedAt(e)
Upsert(E, N) ==
  {e \in E : ~\E n \in N : n.body.at = e.body.at /\ Newer(n, e)}
  \cup {n \in N : \A e \in E : e.body.at = n.body.at => Newer(n, e)}

\* What an observation is of, in the tool's own words.
Identity(f) ==
  <<f.source, f.check, f.scope,
    IF f.record = <<Blank, Blank>> THEN None ELSE f.record>>
Supersede(F) ==
  {f \in applied : \A g \in F : Identity(g) # Identity(f)} \cup F

-----------------------------------------------------------------------------
(* The gates.                                                              *)

Required == profile.key # None /\ profile.required

\* The signature block of an entry whose digest recomputes.
BadSignature(e) ==
  IF e.sig = None THEN Required
  ELSE e.sig.hash # e.digest \/ profile.key = None \/ e.sig.key # profile.key

\* classify_entry: the outcomes hard and verified; the rest are findings.
Hard(e) ==
  CASE e.digest = None -> Required \/ e.sig # None
    [] e.digest # None /\ Placeholder(e) -> FALSE
    [] e.digest # None /\ ~Placeholder(e) /\ ~Claims(e) -> Required \/ e.sig # None
    [] OTHER -> e.digest # e.body \/ BadSignature(e)
Verified(e) == e.digest # None /\ ~Placeholder(e) /\ Claims(e) /\ ~Hard(e)

AllKnown == DOMAIN Targets   \* mutant: everything the repository knows binds
Operated ==
  {c \in DOMAIN Targets : IF c[1] = Platform THEN profile.aws
                          ELSE c[1] \in profile.enabled}
SourceBound(k, e) ==
  Claims(e) => \E c \in Operated :
                 c = <<e.body.fact.source, e.body.fact.check>> /\ k \in Targets[c]
PointerBound(e) ==
  Claims(e) /\ ~Placeholder(e) => e.body.at = <<"store", Slug(e.body.fact)>>

SignerGate == profile.production /\ profile.key # None => ~profile.software
StoreGate == profile.production => profile.store \notin {"unstated", "denied"}
PlaceholderGate == \A k \in KSIs : \A e \in store[k] : ~Placeholder(e)
IntegrityGate == \A k \in KSIs : \A e \in store[k] : ~Hard(e)
ProductionGate ==
  profile.production =>
    \A k \in KSIs : \A e \in store[k] :
      Verified(e) /\ SourceBound(k, e) /\ PointerBound(e)
Cleared ==
  IntegrityGate /\ PlaceholderGate /\ ProductionGate /\ SignerGate /\ StoreGate

-----------------------------------------------------------------------------
Facts == UNION UNION {Exports[s] : s \in Source}

ASSUME FactAssumption ==
  \A f \in Facts :
    /\ DOMAIN f = {"source", "check", "scope", "record", "seen", "status"}
    /\ None \notin {<<"scope", f.scope>>, <<"rec", f.record>>, Observation(f)}
    /\ \A base \in Base : None # Derive(f, base).body

\* A keyed hash is no identifier of a source.
ASSUME TaggedAssumption ==
  \A f, g \in Facts : <<"scope", f.scope>> # g.scope /\ <<"rec", f.record>> # g.record

Opaque(o) ==
  \A f \in Facts : o.scope \notin {f.scope} \ {None}
                      /\ o.record \notin {f.record} \ {None}
IsBody(b) ==
  /\ b.fact # None => Opaque(b.fact)
  /\ b.shows # Reworded => Opaque(b.shows)
  /\ b.at[1] \in {"placeholder", "store", "typed"}

\* Types, and no raw identifier of a scope or a record anywhere in the store.
TypeOK ==
  /\ profile \in Profiles
  /\ \A k \in KSIs : \A e \in store[k] :
       /\ IsBody(e.body)
       /\ e.digest # None => IsBody(e.digest)
       /\ e.sig # None => e.sig.key \in Keys /\ IsBody(e.sig.hash)
  /\ applied \subseteq Facts
  /\ applies \in 0..MaxApplies /\ edits \in 0..MaxEdits

Init ==
  /\ profile \in Profiles
  /\ store = [k \in KSIs |-> {}]
  /\ applied = {}
  /\ applies = 0 /\ edits = 0

Declare(p) ==
  /\ profile' = p
  /\ UNCHANGED <<store, applied, applies, edits>>

\* Without a base URI of the evidence store the pointers are placeholders.
Apply(files, base, keyed) ==
  /\ applies < MaxApplies
  /\ \A s \in Active(files) : ~Refused(files[s], keyed)
  /\ store' = [k \in KSIs |-> Upsert(store[k], New(files, k, base))]
  /\ applied' = Supersede({f \in Incoming(files) : KSIsOf(f) # {}})
  /\ applies' = applies + 1
  /\ UNCHANGED <<profile, edits>>

\* prefill_from_facts.py fills evidence that is empty; a failed read is none.
\* It stops at a fact of an account if it has no scope key.
AcceptPrefill(k, F, base) ==
  LET G == {f \in F : k \in KSIsOf(f) /\ f.status # "error"}
  IN  /\ store[k] = {} /\ G # {}
      /\ store' = [store EXCEPT ![k] = {Derive(f, base) : f \in G}]
      /\ UNCHANGED <<profile, applied, applies, edits>>

\* sign_entry asks for a digest, not whether it recomputes.  Its callers sign
\* every entry of the store in one pass.
Signed(e, key) ==
  IF e.digest = None THEN e
  ELSE [e EXCEPT !.sig = [key |-> key, hash |-> e.digest]]
Sign(key) ==
  /\ store' = [k \in KSIs |-> {Signed(e, key) : e \in store[k]}]
  /\ UNCHANGED <<profile, applied, applies, edits>>

(* An entry as a person leaves it: the text reworded, the placeholder replaced
   as preflight asks, another pointer typed, the digest, the signature or the
   source fact deleted, or the digest recomputed. *)
EditedForms(e) ==
  {[e EXCEPT !.body.shows = Reworded],
   [e EXCEPT !.body.at = IF Placeholder(e) THEN <<"store", @[2]>> ELSE <<"typed", @[2]>>],
   [e EXCEPT !.digest = None], [e EXCEPT !.sig = None],
   [e EXCEPT !.body.fact = None], [e EXCEPT !.digest = e.body]}

Free(k, at) == \A e \in store[k] : e.body.at # at

\* Where an entry records an observation, or once did by its digest.
Trace(e) == {e.body.fact} \cup (IF e.digest = None THEN {} ELSE {e.digest.fact})
Forget(O) ==
  {f \in applied : \A g \in Facts :
     Observation(g) \in O => Identity(g) # Identity(f)}

EditEntry(k, e, d) ==
  /\ edits < MaxEdits
  /\ d # e /\ (d.body.at # e.body.at => Free(k, d.body.at))
  /\ store' = [store EXCEPT ![k] = (@ \ {e}) \cup {d}]
  /\ applied' = Forget(Trace(e) \ Trace(d))
  /\ edits' = edits + 1
  /\ UNCHANGED <<profile, applies>>

RemoveEntry(k, e) ==
  /\ edits < MaxEdits
  /\ store' = [store EXCEPT ![k] = @ \ {e}]
  /\ applied' = Forget(Trace(e))
  /\ edits' = edits + 1
  /\ UNCHANGED <<profile, applies>>

CopyEntry(j, e, k) ==
  /\ edits < MaxEdits
  /\ Free(k, e.body.at)
  /\ store' = [store EXCEPT ![k] = @ \cup {e}]
  /\ edits' = edits + 1
  /\ UNCHANGED <<profile, applied, applies>>

Next ==
  \/ \E p \in Profiles : Declare(p)
  \/ \E files \in Files, base \in Base, keyed \in BOOLEAN : Apply(files, base, keyed)
  \/ \E k \in KSIs, F \in Exports[Platform], base \in Base : AcceptPrefill(k, F, base)
  \/ \E key \in Keys : Sign(key)
  \/ \E k \in KSIs : \E e \in store[k] :
       \/ \E d \in EditedForms(e) : EditEntry(k, e, d)
       \/ RemoveEntry(k, e)
       \/ \E j \in KSIs \ {k} : CopyEntry(k, e, j)

Spec == Init /\ [][Next]_vars

-----------------------------------------------------------------------------
(* Properties.                                                             *)

(* Under production-assurance every entry of a cleared package stands under a
   KSI it is evidence for, comes from a source the offering operates now, and
   points to its own observation in the store; where a signer is required, the
   pinned key signed every word of it, with whatever was exported, applied,
   signed, edited or declared in between. *)
ProductionEvidenceHolds ==
  profile.production /\ Cleared =>
    \A k \in KSIs : \A e \in store[k] :
      LET o == e.body.fact IN
      /\ k \in Targets[<<o.source, o.check>>]
      /\ IF o.source = Platform THEN profile.aws ELSE o.source \in profile.enabled
      /\ e.body.at = <<"store", Slug(o)>>
      /\ Required => e.sig = [key |-> profile.key, hash |-> e.body]

(* Of every record of a source something was applied of, the store has what was
   last applied, or a newer observation of the same, until a person takes it
   out: none disappears behind one of another scope or another record, within
   an export or from one export to the next, and an empty export clears nothing
   (AUD-F27, AUD-F77). *)
ObservationsSurvive ==
  \A f \in applied : \A k \in KSIsOf(f) :
    \E e \in store[k] : \E g \in Facts :
      /\ Identity(g) = Identity(f) /\ Observation(g) \in Trace(e)
      /\ g = f \/ g.seen > f.seen

(* To apply exports that say nothing new never costs a package its clearance:
   no signature is lost to the same observation.  An application that does so
   brought an entry that was not there. *)
RepeatKeepsCleared ==
  [][Cleared /\ ~Cleared' =>
       \A files \in Files, base \in Base, keyed \in BOOLEAN :
         Apply(files, base, keyed) =>
           \E k \in KSIs : \E n \in New(files, k, base) :
             \A e \in store[k] : e.body # n.body]_vars

(* An entry stands whose placeholder a person replaced with the real location,
   as preflight asks for: "replace each with the real evidence location before
   submission". *)
ReplacedPlaceholderStands ==
  \A k \in KSIs : \A e \in store[k] :
    e.digest # None /\ e.digest.at[1] = "placeholder" /\ ~Required /\ e.sig = None
      /\ e.body = [e.digest EXCEPT !.at = <<"store", @[2]>>]
    => ~Hard(e)

=============================================================================
