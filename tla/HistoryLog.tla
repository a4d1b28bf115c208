----------------------------- MODULE HistoryLog -----------------------------
(***************************************************************************)
(* What the durable metric history promises, without runners, requests or  *)
(* retries: it is an append-only log.  Runs land one after the other, each *)
(* landing folds one contribution into the content that the landing before *)
(* it left, no append lands twice, and the landings are in the order of    *)
(* their timestamps.  Nothing else ever changes the content.               *)
(***************************************************************************)
EXTENDS HistoryContent, Sequences

VARIABLES
    history,   \* the content of the durable object
    log        \* the contributions folded into it, oldest first

logVars == <<history, log>>

Init == /\ history = EmptyHistory
        /\ log = <<>>

Land(c) ==
    /\ Appends(c) # {}
    /\ \A i \in DOMAIN log : log[i].stamp # c.stamp /\ log[i].at <= c.at
    /\ history' \in {AppendRun(history, c), SignHistory(AppendRun(history, c))}
    /\ log' = Append(log, c)

\* The contribution that a step lands is the last one of the new log.
Next == \E n \in {Len(log')} : n > 0 /\ log'[n] \in Contribution /\ Land(log'[n])

Spec == Init /\ [][Next]_logVars
=============================================================================
