------------------------ MODULE HistoryContentProofs ------------------------
(***************************************************************************)
(* Lemmas about the content of the metric history, for every number of     *)
(* KSIs, every retention window and every resolution of the clock: what    *)
(* one run of the appender preserves.  MetricHistoryProofs cites them.     *)
(***************************************************************************)
EXTENDS HistoryContent, FiniteSetTheorems, TLAPS

-----------------------------------------------------------------------------
(* Numbers. *)

\* A non-empty set of naturals has a least element: the well-founded order of
\* the naturals, in the form the proofs below use it.
LEMMA NatHasLeast ==
    ASSUME NEW T \in SUBSET Nat, T # {}
    PROVE  \E m \in T : \A n \in T : m <= n
<1> DEFINE R == OpToRel(<, Nat)
<1>1. IsWellFoundedOn(R, Nat)
  BY NatLessThanWellFounded
<1>2. \A x, y \in Nat : <<y, x>> \in R <=> y < x
  BY DEF OpToRel
<1> HIDE DEF R
<1>3. PICK x \in T : \A y \in T : ~ (<<y, x>> \in R)
  BY <1>1, WFMin
<1>4. \A y \in T : ~ (y < x)
  BY <1>2, <1>3
<1>5. x \in Nat /\ \A y \in T : y \in Nat
  OBVIOUS
<1>6. \A y \in T : x <= y
  BY <1>4, <1>5
<1> QED BY <1>6

\* A non-empty set of naturals with an upper bound has a greatest element.
LEMMA BoundedHasGreatest ==
    ASSUME NEW T \in SUBSET Nat, T # {}, NEW b \in Nat, \A n \in T : n <= b
    PROVE  \E m \in T : \A n \in T : n <= m
<1> DEFINE D == {b - n : n \in T}
<1>1. D \in SUBSET Nat /\ D # {}
  <2>1. \A n \in T : b - n \in Nat
    OBVIOUS
  <2> QED BY <2>1
<1>2. PICK d \in D : \A e \in D : d <= e
  BY <1>1, NatHasLeast
<1>3. PICK m \in T : d = b - m
  BY <1>2
<1>4. \A n \in T : b - m <= b - n
  BY <1>2, <1>3
<1>5. \A n \in T : n <= m
  BY <1>4
<1> QED BY <1>5

\* A later tick is not on an earlier day.
LEMMA DayOfIsMonotone ==
    ASSUME NEW s \in Nat, NEW t \in Nat, s <= t
    PROVE  /\ DayOf(s) \in Nat /\ DayOf(t) \in Nat
           /\ DayOf(s) <= DayOf(t)
BY ContentAssumption DEF DayOf

-----------------------------------------------------------------------------
(* The newest observation of a list. *)

\* Newest picks the last observation of a non-empty list.
LEMMA NewestIsLast ==
    ASSUME NEW obs, HasNewest(obs), obs # {}
    PROVE  Newest(obs) \in obs /\ \A o \in obs : o.pos <= Newest(obs).pos
BY DEF HasNewest, Newest

\* Every part of a list that has a last observation has one too.
LEMMA PartHasNewest ==
    ASSUME NEW obs \in SUBSET Observation, HasNewest(obs),
           NEW part \in SUBSET obs
    PROVE  HasNewest(part)
<1> SUFFICES ASSUME part # {}
             PROVE  \E n \in part : \A o \in part : o.pos <= n.pos
  BY DEF HasNewest
<1> DEFINE T == {o.pos : o \in part}
<1>1. T \in SUBSET Nat /\ T # {}
  BY DEF Observation
<1>2. PICK n \in obs : \A o \in obs : o.pos <= n.pos
  BY DEF HasNewest
<1>3. n.pos \in Nat /\ \A m \in T : m <= n.pos
  BY <1>2 DEF Observation
<1>4. PICK m \in T : \A i \in T : i <= m
  <2> HIDE DEF T
  <2> QED BY <1>1, <1>3, BoundedHasGreatest
<1>5. PICK o \in part : m = o.pos
  BY <1>4
<1> QED BY <1>4, <1>5

\* A chain head is a stamp, or None at the start of a chain.
LEMMA ChainHeadType ==
    ASSUME NEW obs \in SUBSET Observation, HasNewest(obs),
           NEW anchor \in Stamp \cup {None}
    PROVE  ChainHead(obs, anchor) \in Stamp \cup {None}
BY NewestIsLast DEF ChainHead, Observation

-----------------------------------------------------------------------------
(* Growing and pruning one KSI's list. *)

\* The chain of one KSI: typed, ordered and intact from its anchor.
GoodChain(obs, anchor) ==
    /\ obs \in SUBSET Observation
    /\ anchor \in Stamp \cup {None}
    /\ OrderedLog(obs)
    /\ ChainIntact(obs, anchor)

\* A contribution that append_run can be given over this list: the appender's
\* date is not after its timestamp, and the clock has not gone back.
Timely(obs, c) == c.today <= DayOf(c.at) /\ \A o \in obs : o.at <= c.at

\* chain_observation appends a well-formed observation behind every other one.
LEMMA LinkedIsLast ==
    ASSUME NEW obs, NEW anchor, GoodChain(obs, anchor),
           NEW c \in Contribution, NEW k \in KSIs, c.out[k] # None
    PROVE  LET o == ChainObservation(obs, anchor, c, k)
           IN  o \in Observation /\ \A p \in obs : p.pos < o.pos
<1> DEFINE o == ChainObservation(obs, anchor, c, k)
<1>1. ChainHead(obs, anchor) \in Stamp \cup {None}
  BY ChainHeadType DEF GoodChain, OrderedLog
<1>2. c.out[k] \in Fractions /\ c.stamp \in Stamp /\ c.at \in Nat /\ c.today \in Nat
  BY DEF Contribution
<1>3. o.pos \in Nat /\ \A p \in obs : p.pos < o.pos
  <2>1. CASE obs = {}
    BY <2>1 DEF ChainObservation
  <2>2. CASE obs # {}
    <3>1. Newest(obs) \in obs /\ \A p \in obs : p.pos <= Newest(obs).pos
      BY <2>2, NewestIsLast DEF GoodChain, OrderedLog
    <3>2. \A p \in obs : p.pos \in Nat
      BY DEF GoodChain, Observation
    <3>3. o.pos = Newest(obs).pos + 1
      BY <2>2 DEF ChainObservation
    <3> QED BY <3>1, <3>2, <3>3
  <2> QED BY <2>1, <2>2
<1>4. o \in Observation
  BY <1>1, <1>2, <1>3 DEF ChainObservation, Observation
<1> QED BY <1>3, <1>4

\* Appending one linked observation keeps the chain good.
LEMMA GrownIsGood ==
    ASSUME NEW obs, NEW anchor, GoodChain(obs, anchor),
           NEW c \in Contribution, NEW k \in KSIs, c.out[k] # None,
           Timely(obs, c)
    PROVE  GoodChain(obs \cup {ChainObservation(obs, anchor, c, k)}, anchor)
<1> DEFINE o == ChainObservation(obs, anchor, c, k)
           grown == obs \cup {o}
<1>1. o \in Observation /\ \A p \in obs : p.pos < o.pos
  BY LinkedIsLast
<1>2. o.at = c.at /\ o.date = c.today /\ o.prev = ChainHead(obs, anchor)
  BY DEF ChainObservation
<1> HIDE DEF o
<1>3. grown \in SUBSET Observation /\ anchor \in Stamp \cup {None}
  BY <1>1 DEF GoodChain
<1>4. \A p \in grown : p.pos \in Nat /\ p.at \in Nat
  BY <1>3 DEF Observation
<1>5. OrderedLog(grown)
  <2>1. HasNewest(grown)
    BY <1>1, <1>4 DEF HasNewest
  <2>2. \A x, y \in grown : x.pos = y.pos => x = y
    BY <1>1, <1>4 DEF GoodChain, OrderedLog
  <2>3. \A x, y \in grown : x.pos <= y.pos => x.at <= y.at
    BY <1>1, <1>2, <1>4 DEF GoodChain, OrderedLog, Timely
  <2>4. \A x \in grown : x.date <= DayOf(x.at)
    BY <1>2 DEF GoodChain, OrderedLog, Timely
  <2> QED BY <2>1, <2>2, <2>3, <2>4 DEF OrderedLog
<1>6. ChainIntact(grown, anchor)
  <2> SUFFICES ASSUME NEW x \in grown
               PROVE  x.prev = ChainHead({p \in grown : p.pos < x.pos}, anchor)
    BY DEF ChainIntact
  <2>1. CASE x = o
    <3>1. {p \in grown : p.pos < x.pos} = obs
      BY <1>1, <1>4, <2>1
    <3> QED BY <1>2, <2>1, <3>1
  <2>2. CASE x \in obs
    <3>1. {p \in grown : p.pos < x.pos} = {p \in obs : p.pos < x.pos}
      BY <1>1, <1>4, <2>2
    <3> QED BY <2>2, <3>1 DEF GoodChain, ChainIntact
  <2> QED BY <2>1, <2>2
<1> QED BY <1>3, <1>5, <1>6 DEF GoodChain, o

\* prune_observations drops a prefix of the chain: what is stamped before the
\* cutoff lies before what is kept.
LEMMA PrunedIsPrefix ==
    ASSUME NEW obs, NEW anchor, GoodChain(obs, anchor), NEW cutoff \in Int
    PROVE  \A d \in PrunedObs(obs, cutoff), o \in obs \ PrunedObs(obs, cutoff) :
               d.pos < o.pos
<1> SUFFICES ASSUME NEW d \in PrunedObs(obs, cutoff),
                    NEW o \in obs \ PrunedObs(obs, cutoff)
             PROVE  d.pos < o.pos
  OBVIOUS
<1>1. d \in obs /\ DayOf(d.at) < cutoff /\ o \in obs /\ ~ (DayOf(o.at) < cutoff)
  BY DEF PrunedObs
<1>2. d.pos \in Nat /\ o.pos \in Nat /\ d.at \in Nat /\ o.at \in Nat
  BY <1>1 DEF GoodChain, Observation
<1>3. SUFFICES ASSUME o.pos <= d.pos PROVE FALSE
  BY <1>2
<1>4. o.at <= d.at
  BY <1>1, <1>3 DEF GoodChain, OrderedLog
<1>5. DayOf(o.at) \in Nat /\ DayOf(d.at) \in Nat /\ DayOf(o.at) <= DayOf(d.at)
  BY <1>2, <1>4, DayOfIsMonotone
<1> QED BY <1>1, <1>5

\* Pruning keeps the chain good from its new anchor, the newest dropped hash.
LEMMA PrunedIsGood ==
    ASSUME NEW obs, NEW anchor, GoodChain(obs, anchor), NEW cutoff \in Int
    PROVE  LET dropped == PrunedObs(obs, cutoff)
           IN  GoodChain(obs \ dropped,
                         IF dropped # {} THEN Newest(dropped).hash ELSE anchor)
<1> DEFINE dropped == PrunedObs(obs, cutoff)
           kept == obs \ dropped
           anchor2 == IF dropped # {} THEN Newest(dropped).hash ELSE anchor
<1>1. dropped \subseteq obs /\ kept \subseteq obs
  BY DEF PrunedObs
<1>2. HasNewest(dropped) /\ HasNewest(kept)
  BY <1>1, PartHasNewest DEF GoodChain, OrderedLog
<1>3. \A d \in dropped, o \in kept : d.pos < o.pos
  BY PrunedIsPrefix
<1>4. \A o \in obs : o.pos \in Nat
  BY DEF GoodChain, Observation
<1> HIDE DEF dropped
<1>5. dropped # {} => Newest(dropped) \in dropped
  BY <1>2, NewestIsLast
<1>6. anchor2 \in Stamp \cup {None}
  BY <1>1, <1>5 DEF GoodChain, Observation
<1>7. OrderedLog(kept)
  BY <1>1, <1>2 DEF GoodChain, OrderedLog
<1>8. ChainIntact(kept, anchor2)
  <2> SUFFICES ASSUME NEW o \in kept
               PROVE  o.prev = ChainHead({p \in kept : p.pos < o.pos}, anchor2)
    BY DEF ChainIntact
  <2> DEFINE before == {p \in obs : p.pos < o.pos}
             keptBefore == {p \in kept : p.pos < o.pos}
  <2>1. o.prev = ChainHead(before, anchor)
    BY <1>1 DEF GoodChain, ChainIntact
  <2>2. before = dropped \cup keptBefore
    BY <1>1, <1>3
  <2>3. CASE keptBefore = {}
    BY <2>1, <2>2, <2>3 DEF ChainHead
  <2>4. CASE keptBefore # {}
    <3>1. HasNewest(before) /\ HasNewest(keptBefore)
      BY <1>1, PartHasNewest DEF GoodChain, OrderedLog
    <3>2. Newest(before) \in before /\ \A p \in before : p.pos <= Newest(before).pos
      BY <2>2, <2>4, <3>1, NewestIsLast
    <3>3. /\ Newest(keptBefore) \in keptBefore
          /\ \A p \in keptBefore : p.pos <= Newest(keptBefore).pos
      BY <2>4, <3>1, NewestIsLast
    <3> DEFINE b == Newest(before)
               kb == Newest(keptBefore)
    <3> HIDE DEF b, kb
    <3>4. b \in before /\ kb \in keptBefore
          /\ (\A p \in before : p.pos <= b.pos) /\ (\A p \in keptBefore : p.pos <= kb.pos)
      BY <3>2, <3>3 DEF b, kb
    <3>5. b \in keptBefore
      BY <1>3, <1>4, <2>2, <3>4
    <3>6. b.pos = kb.pos /\ b \in obs /\ kb \in obs
      BY <1>1, <1>4, <2>2, <3>4, <3>5
    <3>7. b = kb
      BY <3>6 DEF GoodChain, OrderedLog
    <3>8. Newest(before) = Newest(keptBefore) /\ before # {}
      BY <2>2, <2>4, <3>7 DEF b, kb
    <3> QED BY <2>1, <2>4, <3>8 DEF ChainHead
  <2> QED BY <2>3, <2>4
<1>9. GoodChain(kept, anchor2)
  BY <1>1, <1>6, <1>7, <1>8 DEF GoodChain
<1> QED BY <1>9 DEF dropped

-----------------------------------------------------------------------------
(* The daily rollup. *)

\* Rolling a datapoint in gives points, none of them older than the cutoff, and
\* each is the day's new rollup or was in the series already.
LEMMA RolledPoints ==
    ASSUME NEW series \in SUBSET Point, NEW date \in Nat, NEW val \in Fractions,
           NEW cutoff \in Int
    PROVE  \A p \in RollIntoSeries(series, date, val, cutoff) :
               /\ p \in Point
               /\ p.date >= cutoff
               /\ p.date = date \/ p \in series
<1> DEFINE sameDay == {p \in series : p.date = date}
           old == CHOOSE p \in sameDay : TRUE
           point == IF sameDay = {} THEN FirstPoint(date, val)
                    ELSE MergeDailyPoint(old, val)
<1>1. point \in Point /\ point.date = date
  <2>1. CASE sameDay = {}
    BY <2>1 DEF FirstPoint, Point
  <2>2. CASE sameDay # {}
    <3>1. old \in sameDay
      BY <2>2
    <3>2. /\ old.date = date /\ old.runs + 1 \in Nat
          /\ old.val \in Fractions /\ old.min \in Fractions /\ old.max \in Fractions
      BY <3>1 DEF Point
    <3> HIDE DEF old
    <3>3. point = MergeDailyPoint(old, val)
      BY <2>2
    <3>4. \A a, b \in Fractions : Lesser(a, b) \in Fractions /\ Greater(a, b) \in Fractions
      BY DEF Lesser, Greater
    <3>5. MergeDailyPoint(old, val) \in Point /\ MergeDailyPoint(old, val).date = date
      BY <3>2, <3>4 DEF MergeDailyPoint, Point
    <3> QED BY <3>3, <3>5
  <2> QED BY <2>1, <2>2
<1> HIDE DEF point
<1>2. RollIntoSeries(series, date, val, cutoff)
        = {p \in (series \ sameDay) \cup {point} : p.date >= cutoff}
  BY DEF RollIntoSeries, point
<1> QED BY <1>1, <1>2

-----------------------------------------------------------------------------
(* One run of the appender. *)

\* The files of an intact history, KSI by KSI.
LEMMA IntactParts ==
    ASSUME NEW h, IntactHistory(h), NEW k \in KSIs
    PROVE  /\ GoodChain(h.obs[k], h.anchor[k])
           /\ PointsBacked(h.obs[k], h.series[k])
           /\ h.series[k] \in SUBSET Point
<1>1. h.obs[k] \in SUBSET Observation /\ h.anchor[k] \in Stamp \cup {None}
      /\ h.series[k] \in SUBSET Point
  BY DEF IntactHistory, History, Hashes
<1> QED BY <1>1 DEF IntactHistory, VerifyHistory, GoodChain

\* The KSI's list after an append: good, backing its series, never empty.
LEMMA AppendedKSI ==
    ASSUME NEW h, IntactHistory(h), NEW c \in Contribution,
           NEW k \in Appends(c), Timely(h.obs[k], c)
    PROVE  LET cutoff  == Cutoff(c.today)
               dropped == PrunedObs(Grown(h, c, k), cutoff)
               kept    == Grown(h, c, k) \ dropped
           IN  /\ GoodChain(kept, IF dropped # {} THEN Newest(dropped).hash
                                   ELSE h.anchor[k])
               /\ PointsBacked(kept, RollIntoSeries(h.series[k], c.today, c.out[k], cutoff))
<1> DEFINE cutoff  == Cutoff(c.today)
           grown   == Grown(h, c, k)
           dropped == PrunedObs(grown, cutoff)
           kept    == grown \ dropped
           new     == ChainObservation(h.obs[k], h.anchor[k], c, k)
           rolled  == RollIntoSeries(h.series[k], c.today, c.out[k], cutoff)
<1>1. /\ k \in KSIs /\ c.out[k] # None /\ c.out[k] \in Fractions
      /\ c.today \in Nat /\ cutoff \in Int
  BY ContentAssumption DEF Appends, Contribution, Cutoff
<1>2. /\ GoodChain(h.obs[k], h.anchor[k])
      /\ PointsBacked(h.obs[k], h.series[k])
      /\ h.series[k] \in SUBSET Point
  BY <1>1, IntactParts
<1>3. GoodChain(grown, h.anchor[k])
  BY <1>1, <1>2, GrownIsGood DEF Grown
<1>4. GoodChain(kept, IF dropped # {} THEN Newest(dropped).hash ELSE h.anchor[k])
  BY <1>1, <1>3, PrunedIsGood
<1>5. \A o \in grown : o.date >= cutoff => o \in kept
  <2>1. SUFFICES ASSUME NEW o \in grown, o.date >= cutoff, DayOf(o.at) < cutoff
                 PROVE  FALSE
    BY DEF PrunedObs
  <2>2. o.at \in Nat /\ o.date \in Nat /\ o.date <= DayOf(o.at)
    BY <1>3, <2>1 DEF GoodChain, Observation, OrderedLog
  <2>3. DayOf(o.at) \in Nat
    BY <2>2, DayOfIsMonotone
  <2> QED BY <1>1, <2>1, <2>2, <2>3
<1>6. PointsBacked(kept, rolled)
  <2> SUFFICES ASSUME NEW p \in rolled
               PROVE  \E o \in kept : o.date = p.date
    BY DEF PointsBacked
  <2>1. p.date >= cutoff /\ (p.date = c.today \/ p \in h.series[k])
    BY <1>1, <1>2, RolledPoints
  <2>2. new \in grown /\ new.date = c.today /\ h.obs[k] \subseteq grown
    BY DEF Grown, ChainObservation
  <2>3. \E o \in grown : o.date = p.date
    BY <1>2, <2>1, <2>2 DEF PointsBacked
  <2> QED BY <1>5, <2>1, <2>3
<1> QED BY <1>4, <1>6

\* The fields of the appended history, with append_run's locals unfolded.
LEMMA AppendRunFields ==
    ASSUME NEW h, NEW c, NEW k \in KSIs
    PROVE  LET cutoff  == Cutoff(c.today)
               dropped == PrunedObs(Grown(h, c, k), cutoff)
               r       == AppendRun(h, c)
           IN  /\ r.obs[k] = IF k \in Appends(c) THEN Grown(h, c, k) \ dropped ELSE h.obs[k]
               /\ r.anchor[k] = IF k \in Appends(c) /\ dropped # {}
                                THEN Newest(dropped).hash ELSE h.anchor[k]
               /\ r.series[k] = IF k \in Appends(c)
                                THEN RollIntoSeries(h.series[k], c.today, c.out[k], cutoff)
                                ELSE h.series[k]
BY DEF AppendRun

\* append_run keeps an intact history intact: the verifier has nothing to report
\* about what it writes if it had nothing to report about what it read.
THEOREM AppendRunKeepsIntact ==
    ASSUME NEW h, IntactHistory(h), NEW c \in Contribution,
           \A k \in KSIs : Timely(h.obs[k], c)
    PROVE  IntactHistory(AppendRun(h, c))
<1> DEFINE r == AppendRun(h, c)
<1>1. \A k \in KSIs : /\ GoodChain(r.obs[k], r.anchor[k])
                     /\ PointsBacked(r.obs[k], r.series[k])
                     /\ r.series[k] \in SUBSET Point
  <2> SUFFICES ASSUME NEW k \in KSIs
               PROVE  /\ GoodChain(r.obs[k], r.anchor[k])
                      /\ PointsBacked(r.obs[k], r.series[k])
                      /\ r.series[k] \in SUBSET Point
    OBVIOUS
  <2>1. CASE k \in Appends(c)
    <3> DEFINE dropped == PrunedObs(Grown(h, c, k), Cutoff(c.today))
    <3>0. /\ r.obs[k] = Grown(h, c, k) \ dropped
          /\ r.anchor[k] = IF dropped # {} THEN Newest(dropped).hash ELSE h.anchor[k]
          /\ r.series[k] = RollIntoSeries(h.series[k], c.today, c.out[k], Cutoff(c.today))
      BY <2>1, AppendRunFields
    <3>5. Timely(h.obs[k], c)
      OBVIOUS
    <3>6. /\ GoodChain(Grown(h, c, k) \ dropped,
                       IF dropped # {} THEN Newest(dropped).hash ELSE h.anchor[k])
          /\ PointsBacked(Grown(h, c, k) \ dropped,
                          RollIntoSeries(h.series[k], c.today, c.out[k], Cutoff(c.today)))
      BY <2>1, <3>5, AppendedKSI
    <3> HIDE DEF r, dropped
    <3>1. /\ GoodChain(r.obs[k], r.anchor[k])
          /\ PointsBacked(r.obs[k], r.series[k])
      BY <3>0, <3>6
    <3>2. /\ h.series[k] \in SUBSET Point /\ c.today \in Nat
          /\ c.out[k] \in Fractions /\ Cutoff(c.today) \in Int
      BY <2>1, IntactParts, ContentAssumption DEF Appends, Contribution, Cutoff
    <3>4. r.series[k] \in SUBSET Point
      BY <3>0, <3>2, RolledPoints
    <3> QED BY <3>1, <3>4
  <2>2. CASE k \notin Appends(c)
    <3>1. r.obs[k] = h.obs[k] /\ r.anchor[k] = h.anchor[k] /\ r.series[k] = h.series[k]
      BY <2>2, AppendRunFields
    <3>2. /\ GoodChain(h.obs[k], h.anchor[k]) /\ PointsBacked(h.obs[k], h.series[k])
          /\ h.series[k] \in SUBSET Point
      BY IntactParts
    <3> HIDE DEF r
    <3> QED BY <3>1, <3>2
  <2> QED BY <2>1, <2>2
<1>2. /\ DOMAIN r.obs = KSIs /\ r.obs = [k \in KSIs |-> r.obs[k]]
      /\ r.anchor = [k \in KSIs |-> r.anchor[k]]
      /\ r.series = [k \in KSIs |-> r.series[k]]
      /\ r.heads = Heads(r.obs, r.anchor)
      /\ r.sig = None /\ r.attemptAt = c.at
      /\ r.lastAt \in {h.lastAt, c.at}
      /\ r = [obs |-> r.obs, series |-> r.series, anchor |-> r.anchor, heads |-> r.heads,
              lastAt |-> r.lastAt, attemptAt |-> r.attemptAt, sig |-> r.sig]
  BY DEF AppendRun
<1>3. /\ r.obs \in [KSIs -> SUBSET Observation]
      /\ r.series \in [KSIs -> SUBSET Point]
      /\ r.anchor \in Hashes
  BY <1>1, <1>2 DEF GoodChain, Hashes
<1>4. Heads(r.obs, r.anchor) \in Hashes
  <2>1. \A k \in KSIs : ChainHead(r.obs[k], r.anchor[k]) \in Stamp \cup {None}
    BY <1>1, ChainHeadType DEF GoodChain, OrderedLog
  <2> QED BY <2>1 DEF Heads, Hashes
<1>5. c.at \in Nat /\ h.lastAt \in Nat \cup {None}
  BY DEF Contribution, IntactHistory, History
<1>6. r \in History
  <2> HIDE DEF r
  <2> QED BY <1>2, <1>3, <1>4, <1>5 DEF History
<1>7. VerifyHistory(r)
  <2> HIDE DEF r
  <2> QED BY <1>1, <1>2 DEF VerifyHistory, GoodChain
<1>8. \A k \in KSIs : OrderedLog(r.obs[k])
  BY <1>1 DEF GoodChain
<1> QED BY <1>6, <1>7, <1>8 DEF IntactHistory

\* What an append leaves in a list was there before or is its own.
LEMMA AppendRunObs ==
    ASSUME NEW h, NEW c, NEW k \in KSIs
    PROVE  \A o \in AppendRun(h, c).obs[k] : o \in h.obs[k] \/ o.at = c.at
<1>1. \A o \in Grown(h, c, k) : o \in h.obs[k] \/ o.at = c.at
  BY DEF Grown, ChainObservation
<1>2. AppendRun(h, c).obs[k] \subseteq Grown(h, c, k) \/ AppendRun(h, c).obs[k] = h.obs[k]
  <2>1. k \in Appends(c) \/ k \notin Appends(c)
    OBVIOUS
  <2> QED BY <2>1, AppendRunFields
<1> QED BY <1>1, <1>2

\* Signing changes neither observations nor points, and keeps a history intact.
LEMMA SignKeepsIntact ==
    ASSUME NEW h, IntactHistory(h)
    PROVE  /\ IntactHistory(SignHistory(h))
           /\ SignHistory(h).obs = h.obs
           /\ SignHistory(h).lastAt = h.lastAt
<1>1. /\ h \in History /\ h.heads = Heads(h.obs, h.anchor)
      /\ DigestOf(h) = [heads |-> h.heads, anchors |-> h.anchor]
  BY DEF IntactHistory, VerifyHistory, DigestOf
<1>2. DigestOf(h) \in Digest /\ DigestOf(h).heads = h.heads
  BY <1>1 DEF Digest, History
<1>3. SignHistory(h) \in History
  BY <1>1, <1>2 DEF SignHistory, History
<1>4. /\ SignHistory(h).obs = h.obs /\ SignHistory(h).anchor = h.anchor
      /\ SignHistory(h).series = h.series /\ SignHistory(h).heads = h.heads
      /\ SignHistory(h).lastAt = h.lastAt
  BY <1>1, <1>2 DEF SignHistory, History
<1> QED BY <1>3, <1>4 DEF IntactHistory, VerifyHistory

\* The first run starts from an intact history.
LEMMA EmptyHistoryIsIntact == IntactHistory(EmptyHistory)
<1>1. EmptyHistory \in History
  BY DEF EmptyHistory, History, Hashes
<1>2. \A k \in KSIs : EmptyHistory.obs[k] = {} /\ EmptyHistory.series[k] = {}
  BY DEF EmptyHistory
<1>3. EmptyHistory.heads = Heads(EmptyHistory.obs, EmptyHistory.anchor)
  BY DEF EmptyHistory, Heads, ChainHead
<1> QED
  BY <1>1, <1>2, <1>3
  DEF IntactHistory, VerifyHistory, OrderedLog, HasNewest, ChainIntact, PointsBacked

-----------------------------------------------------------------------------
(* The daily rollup. *)

\* The point of a day that had one already takes in the day's next observation.
LEMMA MergeReplays ==
    ASSUME NEW obs \in SUBSET Observation, IsFiniteSet(obs),
           NEW o \in Observation \ obs,
           NEW p \in Point, p.date = o.date, PointReplays(p, obs)
    PROVE  PointReplays(MergeDailyPoint(p, o.val), obs \cup {o})
<1> DEFINE day == ObservationsOn(obs, o.date)
           vals == ValuesOn(obs, o.date)
           m == MergeDailyPoint(p, o.val)
<1>1. ObservationsOn(obs \cup {o}, o.date) = day \cup {o}
  BY DEF ObservationsOn
<1>2. ValuesOn(obs \cup {o}, o.date) = vals \cup {o.val}
  BY <1>1 DEF ValuesOn
<1>3. Cardinality(day \cup {o}) = Cardinality(day) + 1
  <2>1. day \in SUBSET obs /\ o \notin day
    BY DEF ObservationsOn
  <2> QED BY <2>1, FS_Subset, FS_AddElement
<1>4. /\ vals \in SUBSET Nat /\ o.val \in Nat
      /\ p.val \in Nat /\ p.min \in Nat /\ p.max \in Nat
  BY ContentAssumption DEF ValuesOn, ObservationsOn, Observation, Point
<1>5. /\ IsLeast(p.val, vals) /\ IsLeast(p.min, vals) /\ IsGreatest(p.max, vals)
      /\ p.runs = Cardinality(day)
  BY DEF PointReplays
<1> HIDE DEF day, vals
<1>6. Lesser(p.min, p.val) = p.val
  BY <1>4, <1>5 DEF IsLeast, Lesser
<1>7. /\ m.date = o.date /\ m.runs = p.runs + 1
      /\ m.val = Lesser(p.val, o.val) /\ m.min = Lesser(p.val, o.val)
      /\ m.max = Greater(p.max, o.val)
  <2>1. m.max = Greater(p.max, o.val)
    BY <1>4, <1>5 DEF MergeDailyPoint, Greater, IsLeast, IsGreatest
  <2> QED BY <1>6, <2>1 DEF MergeDailyPoint
<1> HIDE DEF m
<1>8. IsLeast(m.val, vals \cup {o.val}) /\ IsGreatest(m.max, vals \cup {o.val})
  <2>1. IsLeast(m.val, vals \cup {o.val})
    <3>1. /\ m.val = IF p.val <= o.val THEN p.val ELSE o.val
          /\ p.val \in vals /\ \A n \in vals : p.val <= n /\ n \in Nat
      BY <1>4, <1>5, <1>7 DEF IsLeast, Lesser
    <3> QED BY <1>4, <3>1 DEF IsLeast
  <2>2. IsGreatest(m.max, vals \cup {o.val})
    <3>1. /\ m.max = IF p.max <= o.val THEN o.val ELSE p.max
          /\ p.max \in vals /\ \A n \in vals : n <= p.max /\ n \in Nat
      BY <1>4, <1>5, <1>7 DEF IsGreatest, Greater
    <3> QED BY <1>4, <3>1 DEF IsGreatest
  <2> QED BY <2>1, <2>2
<1> QED BY <1>1, <1>2, <1>3, <1>5, <1>7, <1>8 DEF PointReplays, day, vals, m

\* The first observation of a day makes its point.
LEMMA FirstReplays ==
    ASSUME NEW obs \in SUBSET Observation, NEW o \in Observation,
           ObservationsOn(obs, o.date) = {}
    PROVE  PointReplays(FirstPoint(o.date, o.val), obs \cup {o})
<1>1. ObservationsOn(obs \cup {o}, o.date) = {o}
  BY DEF ObservationsOn
<1>2. ValuesOn(obs \cup {o}, o.date) = {o.val}
  BY <1>1 DEF ValuesOn
<1>3. Cardinality({o}) = 1
  BY FS_Singleton
<1>4. o.val \in Nat
  BY ContentAssumption DEF Observation
<1>5. IsLeast(o.val, {o.val}) /\ IsGreatest(o.val, {o.val})
  BY <1>4 DEF IsLeast, IsGreatest
<1> QED BY <1>1, <1>2, <1>3, <1>5 DEF PointReplays, FirstPoint

\* A point says the same of two lists that agree on its day.
LEMMA SameDayReplays ==
    ASSUME NEW p, NEW obs, NEW obs2,
           ObservationsOn(obs2, p.date) = ObservationsOn(obs, p.date)
    PROVE  PointReplays(p, obs) <=> PointReplays(p, obs2)
BY DEF PointReplays, ValuesOn

\* The last observation of a list is the one that every other one precedes.
LEMMA LastIsNewest ==
    ASSUME NEW obs \in SUBSET Observation, NEW o \in obs, \A p \in obs \ {o} : p.pos < o.pos
    PROVE  Newest(obs) = o
<1>1. \A p \in obs : p.pos \in Nat
  BY DEF Observation
<1>2. \A p \in obs : p.pos <= o.pos
  BY <1>1
<1>3. HasNewest(obs) /\ obs # {}
  BY <1>2 DEF HasNewest
<1>4. Newest(obs) \in obs /\ o.pos <= Newest(obs).pos
  BY <1>3, NewestIsLast
<1> QED BY <1>1, <1>4

\* One append keeps the promise of the rollup: of the days that stay in the window
\* no observation is pruned, and the day of the append gets one observation more.
LEMMA RollupStays ==
    ASSUME NEW obs \in SUBSET Observation, IsFiniteSet(obs), HasNewest(obs),
           NEW series \in SUBSET Point,
           RollupReplays(obs, series),
           NEW o \in Observation, \A p \in obs : p.pos < o.pos,
           \A p \in obs \cup {o} : p.date <= DayOf(p.at) /\ p.date <= o.date,
           NEW cutoff, cutoff = Cutoff(o.date)
    PROVE  RollupReplays((obs \cup {o}) \ PrunedObs(obs \cup {o}, cutoff),
                         RollIntoSeries(series, o.date, o.val, cutoff))
<1> DEFINE grown == obs \cup {o}
           kept == grown \ PrunedObs(grown, cutoff)
           sameDay == {p \in series : p.date = o.date}
           old == CHOOSE p \in sameDay : TRUE
           point == IF sameDay = {} THEN FirstPoint(o.date, o.val)
                    ELSE MergeDailyPoint(old, o.val)
           rolled == RollIntoSeries(series, o.date, o.val, cutoff)
<1>1. /\ \A p \in grown : p \in Observation /\ p.pos \in Nat /\ p.date \in Nat /\ p.at \in Nat
      /\ \A p \in series : p.date \in Nat
      /\ cutoff \in Int /\ cutoff <= o.date /\ cutoff = o.date - RetainDays
  BY ContentAssumption DEF Observation, Point, Cutoff
<1>2. \A p \in grown : DayOf(p.at) \in Nat
  BY <1>1, DayOfIsMonotone
<1>3. o \notin obs
  BY <1>1
<1>4. rolled = {p \in (series \ sameDay) \cup {point} : p.date >= cutoff}
  BY DEF RollIntoSeries
<1>5. \A p \in grown : p.date >= cutoff => p \in kept
  BY <1>1, <1>2 DEF PrunedObs
<1>6. \A d \in Nat : d >= cutoff => ObservationsOn(kept, d) = ObservationsOn(grown, d)
  BY <1>5 DEF ObservationsOn
<1>7. o \in kept /\ Newest(kept) = o
  <2>1. o \in kept
    BY <1>1, <1>5
  <2>2. kept \in SUBSET Observation /\ \A p \in kept \ {o} : p.pos < o.pos
    BY <1>1
  <2> HIDE DEF kept
  <2> QED BY <2>1, <2>2, LastIsNewest
<1>8. sameDay = {} => ObservationsOn(obs, o.date) = {}
  <2> SUFFICES ASSUME sameDay = {}, NEW p \in obs, p.date = o.date PROVE FALSE
    BY DEF ObservationsOn
  <2>1. Cardinality({q \in series : q.date = p.date}) = 0
    BY FS_EmptySet
  <2>2. p.date < Cutoff(Newest(obs).date)
    BY <2>1 DEF RollupReplays, DayHasPoint
  <2>3. Newest(obs) \in obs
    BY NewestIsLast
  <2>4. Newest(obs).date \in Nat /\ Newest(obs).date <= o.date
    BY <1>1, <2>3
  <2> QED BY <1>1, <2>2, <2>4, ContentAssumption DEF Cutoff
<1>9. point.date = o.date /\ PointReplays(point, grown)
  <2>1. CASE sameDay = {}
    BY <1>8, <2>1, FirstReplays DEF FirstPoint
  <2>2. CASE sameDay # {}
    <3>1. old \in sameDay
      BY <2>2
    <3>2. old \in Point /\ old.date = o.date /\ PointReplays(old, obs)
      BY <3>1 DEF RollupReplays
    <3> HIDE DEF old
    <3>3. PointReplays(MergeDailyPoint(old, o.val), grown)
      BY <1>3, <3>2, MergeReplays
    <3> QED BY <2>2, <3>2, <3>3 DEF MergeDailyPoint
  <2> QED BY <2>1, <2>2
<1> HIDE DEF kept, point, old, rolled
<1>10. ASSUME NEW p \in rolled PROVE PointReplays(p, kept)
  <2>1. CASE p = point
    <3>1. ObservationsOn(kept, p.date) = ObservationsOn(grown, p.date)
      BY <1>1, <1>6, <1>9, <2>1
    <3> QED BY <1>9, <2>1, <3>1, SameDayReplays
  <2>2. CASE p # point
    <3>1. p \in series /\ p.date # o.date /\ p.date >= cutoff /\ p.date \in Nat
      BY <1>1, <1>4, <1>10, <2>2
    <3>2. ObservationsOn(grown, p.date) = ObservationsOn(obs, p.date)
      BY <3>1 DEF ObservationsOn
    <3>3. ObservationsOn(kept, p.date) = ObservationsOn(obs, p.date)
      BY <1>6, <3>1, <3>2
    <3>4. PointReplays(p, obs)
      BY <3>1 DEF RollupReplays
    <3> QED BY <3>3, <3>4, SameDayReplays
  <2> QED BY <2>1, <2>2
<1>11. ASSUME NEW p \in kept PROVE DayHasPoint(p, kept, rolled)
  <2>1. p \in grown /\ p.date \in Nat
    BY <1>1 DEF kept
  <2>2. CASE p.date < cutoff
    BY <1>7, <2>2 DEF DayHasPoint
  <2>3. CASE p.date >= cutoff /\ p.date = o.date
    <3>1. {q \in rolled : q.date = p.date} = {point}
      BY <1>1, <1>4, <1>9, <2>3
    <3> QED BY <3>1, FS_Singleton DEF DayHasPoint
  <2>4. CASE p.date >= cutoff /\ p.date # o.date
    <3>1. {q \in rolled : q.date = p.date} = {q \in series : q.date = p.date}
      BY <1>1, <1>4, <1>9, <2>4
    <3>2. p \in obs
      BY <2>1, <2>4
    <3>3. ~ p.date < Cutoff(Newest(obs).date)
      <4>1. Newest(obs) \in obs
        BY <3>2, NewestIsLast
      <4> QED BY <1>1, <2>1, <2>4, <4>1, ContentAssumption DEF Cutoff
    <3> QED BY <3>1, <3>2, <3>3 DEF DayHasPoint, RollupReplays
  <2> QED BY <1>1, <2>1, <2>2, <2>3, <2>4
<1> QED BY <1>10, <1>11 DEF RollupReplays, kept, rolled

\* Every list of the history is finite and replayed by its series.
HistoryReplays(h) ==
    \A k \in KSIs : IsFiniteSet(h.obs[k]) /\ RollupReplays(h.obs[k], h.series[k])

\* append_run keeps the promise of the rollup, given that nothing in the history is
\* dated after the appender's own date.
THEOREM AppendRunReplays ==
    ASSUME NEW h, IntactHistory(h), HistoryReplays(h), NEW c \in Contribution,
           \A k \in KSIs : Timely(h.obs[k], c),
           \A k \in KSIs : \A o \in h.obs[k] : o.date <= c.today
    PROVE  HistoryReplays(AppendRun(h, c))
<1> SUFFICES ASSUME NEW k \in KSIs, NEW r, r = AppendRun(h, c)
             PROVE  IsFiniteSet(r.obs[k]) /\ RollupReplays(r.obs[k], r.series[k])
  BY DEF HistoryReplays
<1> DEFINE obs == h.obs[k]
           series == h.series[k]
           o == ChainObservation(obs, h.anchor[k], c, k)
           cutoff == Cutoff(c.today)
<1>1. CASE k \notin Appends(c)
  <2>1. r.obs[k] = obs /\ r.series[k] = series
    BY <1>1, AppendRunFields
  <2> QED BY <2>1 DEF HistoryReplays
<1>2. CASE k \in Appends(c)
  <2>1. /\ r.obs[k] = (obs \cup {o}) \ PrunedObs(obs \cup {o}, cutoff)
        /\ r.series[k] = RollIntoSeries(series, c.today, c.out[k], cutoff)
    BY <1>2, AppendRunFields DEF Grown
  <2>2. GoodChain(obs, h.anchor[k]) /\ series \in SUBSET Point
    BY IntactParts
  <2>3. o.date = c.today /\ o.val = c.out[k] /\ o.at = c.at
    BY DEF ChainObservation
  <2>4. o \in Observation /\ \A p \in obs : p.pos < o.pos
    BY <1>2, <2>2, LinkedIsLast DEF Appends
  <2> HIDE DEF o
  <2>5. /\ obs \in SUBSET Observation /\ HasNewest(obs)
        /\ \A p \in obs : p.date <= DayOf(p.at)
    BY <2>2 DEF GoodChain, OrderedLog
  <2>6. IsFiniteSet(obs) /\ RollupReplays(obs, series)
    BY DEF HistoryReplays
  <2>7. \A p \in obs \cup {o} : p.date <= DayOf(p.at) /\ p.date <= o.date
    <3>1. c.today <= DayOf(c.at) /\ c.today \in Nat
      BY DEF Timely, Contribution
    <3> QED BY <2>3, <2>5, <3>1
  <2> HIDE DEF obs, series
  <2>8. RollupReplays((obs \cup {o}) \ PrunedObs(obs \cup {o}, cutoff),
                      RollIntoSeries(series, o.date, o.val, cutoff))
    BY <2>2, <2>3, <2>4, <2>5, <2>6, <2>7, RollupStays
  <2>9. IsFiniteSet((obs \cup {o}) \ PrunedObs(obs \cup {o}, cutoff))
    <3>1. IsFiniteSet(obs \cup {o})
      BY <2>6, FS_AddElement
    <3>2. (obs \cup {o}) \ PrunedObs(obs \cup {o}, cutoff) \in SUBSET (obs \cup {o})
      OBVIOUS
    <3> QED BY <3>1, <3>2, FS_Subset
  <2> QED BY <2>1, <2>3, <2>8, <2>9
<1> QED BY <1>1, <1>2

\* A history without observations replays, and signing leaves the rollup alone.
LEMMA EmptyAndSignedReplay ==
    /\ HistoryReplays(EmptyHistory)
    /\ \A h \in History : HistoryReplays(h) => HistoryReplays(SignHistory(h))
<1>1. HistoryReplays(EmptyHistory)
  BY FS_EmptySet DEF HistoryReplays, EmptyHistory, RollupReplays
<1>2. ASSUME NEW h \in History
      PROVE  SignHistory(h).obs = h.obs /\ SignHistory(h).series = h.series
  BY DEF SignHistory, History
<1> QED BY <1>1, <1>2 DEF HistoryReplays

=============================================================================
