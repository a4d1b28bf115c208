--------------------------- MODULE HistoryContent ---------------------------
(***************************************************************************)
(* The content of metric-history.json and the pure functions that compute  *)
(* the next content from the last one: append_run and its helpers          *)
(* (automation/metrics/append_metrics.py) and the hash chain               *)
(* (automation/metrics/history_integrity.py).                              *)
(*                                                                         *)
(* Data abstraction.  A datapoint is its passing fraction, one of the      *)
(* numbers in Fractions.  Time is a number of ticks, TicksPerDay to a UTC  *)
(* day.  SHA-256 is taken to be collision free: the hash of an observation *)
(* is named by the append that computed it, its stamp, because one append  *)
(* computes one hash for each KSI.  The `observations` list of a KSI is a  *)
(* set whose members carry their list position in `pos`: filtering keeps   *)
(* the order, and only the order matters.  `series` is a set of points,    *)
(* one for each date.  The 30-day and one-year summaries and the per-metric*)
(* series are recomputed from `series` in the same call and are left out.  *)
(***************************************************************************)
EXTENDS Integers, FiniteSets

CONSTANTS
    Runs,         \* the CI jobs, by the run id they publish under
    KSIs,         \* Key Security Indicators of the collector registry
    Fractions,    \* passing fractions a datapoint can have
    None,         \* Python's None: no datapoint, no hash, no timestamp
    RetainDays,   \* RETAIN_DAYS: 400 in the code, a small number for TLC
    TicksPerDay   \* clock resolution: timestamps are ticks, dates are days

ASSUME ContentAssumption ==
    /\ Fractions \subseteq Nat
    /\ RetainDays \in Nat
    /\ TicksPerDay \in Nat \ {0}
    /\ None \notin Nat

-----------------------------------------------------------------------------
(* Values. *)

DayOf(t) == t \div TicksPerDay

\* The append that computed a hash: attempt number `attempt` of the execution
\* number `gen` of the job with id `run`.  <<run, gen>> is also the provenance
\* (run_id, facts_sha256) of the observation: one collection per execution.
Stamp == [run : Runs, gen : Nat, attempt : Nat]

Observation == [hash : Stamp, prev : Stamp \cup {None}, pos : Nat,
                at : Nat, date : Nat, val : Fractions]

Point == [date : Nat, val : Fractions, runs : Nat, min : Fractions, max : Fractions]

Hashes == [KSIs -> Stamp \cup {None}]

Digest == [heads : Hashes, anchors : Hashes]

\* A signature field that is null is no signature.
ASSUME NoneIsNoDigest == None \notin Digest

History == [obs       : [KSIs -> SUBSET Observation],
            series    : [KSIs -> SUBSET Point],
            anchor    : Hashes,                \* meta.chain_anchor
            heads     : Hashes,                \* meta.chain_heads
            lastAt    : Nat \cup {None},       \* meta.last_observed_at
            attemptAt : Nat \cup {None},       \* meta.last_attempt.observed_at
            sig       : Digest \cup {None}]    \* meta.history_signature

\* What one call of append_run reads besides the history: the facts of the
\* run (one outcome per KSI, collected on `day`), the date the appender took
\* as today, and the observed_at it stamped.
Contribution == [stamp : Stamp, out : [KSIs -> Fractions \cup {None}],
                 day : Nat, today : Nat, at : Nat]

\* A history file that does not exist reads as {}.
EmptyHistory ==
    [obs |-> [k \in KSIs |-> {}], series |-> [k \in KSIs |-> {}],
     anchor |-> [k \in KSIs |-> None], heads |-> [k \in KSIs |-> None],
     lastAt |-> None, attemptAt |-> None, sig |-> None]

-----------------------------------------------------------------------------
(* The hash chain. *)

\* observations[-1] of a non-empty list.
Newest(obs) == CHOOSE o \in obs : \A p \in obs : p.pos <= o.pos

ChainHead(obs, anchor) == IF obs = {} THEN anchor ELSE Newest(obs).hash

Heads(obs, anchor) == [k \in KSIs |-> ChainHead(obs[k], anchor[k])]

\* history_digest: one value over every chain head and the pruning anchors.
DigestOf(h) == [heads |-> Heads(h.obs, h.anchor), anchors |-> h.anchor]

ChainObservation(obs, anchor, c, k) ==
    [hash |-> c.stamp,
     prev |-> ChainHead(obs, anchor),
     pos  |-> IF obs = {} THEN 1 ELSE Newest(obs).pos + 1,
     at   |-> c.at,
     date |-> c.today,
     val  |-> c.out[k]]

-----------------------------------------------------------------------------
(* The daily rollup. *)

Lesser(a, b)  == IF a <= b THEN a ELSE b
Greater(a, b) == IF a <= b THEN b ELSE a

FirstPoint(date, val) ==
    [date |-> date, val |-> val, runs |-> 1, min |-> val, max |-> val]

\* Mutant: the runs of a day are added up.
MergeDailyPointSummed(p, val) ==
    [p EXCEPT !.val = @ + val, !.runs = @ + 1]

\* Mutant: the day's last run wins.
MergeDailyPointLatest(p, val) ==
    [p EXCEPT !.val = val, !.runs = @ + 1, !.min = Lesser(@, val), !.max = Greater(@, val)]

\* The day's fraction is the one of the worst run; min and max remember the spread.
MergeDailyPoint(p, val) ==
    [date |-> p.date,
     val  |-> Lesser(p.val, val),
     runs |-> p.runs + 1,
     min  |-> Lesser(Lesser(p.min, p.val), val),
     max  |-> Greater(Greater(p.max, p.val), val)]

RollIntoSeries(series, date, val, cutoff) ==
    LET sameDay == {p \in series : p.date = date}
        point   == IF sameDay = {} THEN FirstPoint(date, val)
                   ELSE MergeDailyPoint(CHOOSE p \in sameDay : TRUE, val)
    IN  {p \in (series \ sameDay) \cup {point} : p.date >= cutoff}

-----------------------------------------------------------------------------
(* One run of the appender. *)

\* The KSIs that get a datapoint: something was evaluated, and it was
\* collected on the appender's own date (require_fresh).
Appends(c) == {k \in KSIs : c.out[k] # None /\ c.day = c.today}

Cutoff(today) == today - RetainDays

\* Mutant: the first day of the retention window is pruned too.
PrunedObsInclusive(obs, cutoff) == {o \in obs : DayOf(o.at) <= cutoff}

PrunedObs(obs, cutoff) == {o \in obs : DayOf(o.at) < cutoff}

\* observations of KSI k after the append and before pruning
Grown(h, c, k) == h.obs[k] \cup {ChainObservation(h.obs[k], h.anchor[k], c, k)}

AppendRun(h, c) ==
    LET cutoff     == Cutoff(c.today)
        dropped(k) == PrunedObs(Grown(h, c, k), cutoff)
        obs        == [k \in KSIs |-> IF k \in Appends(c)
                                      THEN Grown(h, c, k) \ dropped(k)
                                      ELSE h.obs[k]]
        anchor     == [k \in KSIs |-> IF k \in Appends(c) /\ dropped(k) # {}
                                      THEN Newest(dropped(k)).hash
                                      ELSE h.anchor[k]]
    IN  [obs       |-> obs,
         series    |-> [k \in KSIs |->
                          IF k \in Appends(c)
                          THEN RollIntoSeries(h.series[k], c.today, c.out[k], cutoff)
                          ELSE h.series[k]],
         anchor    |-> anchor,
         heads     |-> Heads(obs, anchor),
         lastAt    |-> IF Appends(c) = {} THEN h.lastAt ELSE c.at,
         attemptAt |-> c.at,
         sig       |-> None]

\* publish with --sign-key-arn: record_heads, then the signature of the digest.
SignHistory(h) == [h EXCEPT !.heads = DigestOf(h).heads, !.sig = DigestOf(h)]

\* _run_observations: the observations stamped with this observed_at.
RunObservations(h, at) == [k \in KSIs |-> {o \in h.obs[k] : o.at = at}]

-----------------------------------------------------------------------------
(* verify_history, one operator for each problem code the abstraction keeps. *)

\* chain-break and bad-anchor
ChainIntact(obs, anchor) ==
    \A o \in obs : o.prev = ChainHead({p \in obs : p.pos < o.pos}, anchor)

\* unbacked-point
PointsBacked(obs, series) == \A p \in series : \E o \in obs : o.date = p.date

VerifyHistory(h) ==
    /\ \A k \in KSIs : /\ ChainIntact(h.obs[k], h.anchor[k])
                       /\ PointsBacked(h.obs[k], h.series[k])
    /\ h.heads = Heads(h.obs, h.anchor)         \* head-mismatch

-----------------------------------------------------------------------------
(* What append_run keeps true of the content: the verifier's conditions and  *)
(* the facts about positions and timestamps they rest on.                    *)

HasNewest(obs) == obs # {} => \E n \in obs : \A o \in obs : o.pos <= n.pos

\* The list order is strict, follows the timestamps, and no observation is
\* dated after the day it was stamped on.
OrderedLog(obs) ==
    /\ HasNewest(obs)
    /\ \A o, p \in obs : o.pos = p.pos => o = p
    /\ \A o, p \in obs : o.pos <= p.pos => o.at <= p.at
    /\ \A o \in obs : o.date <= DayOf(o.at)

IntactHistory(h) ==
    /\ h \in History
    /\ \A k \in KSIs : OrderedLog(h.obs[k])
    /\ VerifyHistory(h)

-----------------------------------------------------------------------------
(* What the daily rollup promises of one KSI's series and observations. *)

ObservationsOn(obs, date) == {o \in obs : o.date = date}

ValuesOn(obs, date) == {o.val : o \in ObservationsOn(obs, date)}

IsLeast(n, S)    == n \in S /\ \A m \in S : n <= m
IsGreatest(n, S) == n \in S /\ \A m \in S : m <= n

\* The worst fraction, the spread and the number of the day's observations.
PointReplays(p, obs) ==
    /\ IsLeast(p.val, ValuesOn(obs, p.date))
    /\ IsLeast(p.min, ValuesOn(obs, p.date))
    /\ IsGreatest(p.max, ValuesOn(obs, p.date))
    /\ p.runs = Cardinality(ObservationsOn(obs, p.date))

\* One point for the day of the observation, unless the window has left that day.
DayHasPoint(o, obs, series) ==
    \/ Cardinality({p \in series : p.date = o.date}) = 1
    \/ o.date < Cutoff(Newest(obs).date)

RollupReplays(obs, series) ==
    /\ \A p \in series : PointReplays(p, obs)
    /\ \A o \in obs : DayHasPoint(o, obs, series)
=============================================================================
