-------------------------- MODULE MCEvidenceEntries --------------------------
(***************************************************************************)
(* A small instance of EvidenceEntries for TLC: a scanner whose mapping    *)
(* skips undeclared checks, another that refuses them, and the AWS         *)
(* collectors.                                                             *)
(***************************************************************************)
EXTENDS EvidenceEntries, TLC

CONSTANTS scan, edr, aws, k1, k2, x, tenant, account

Fact(s, check, scope, record, seen, status) ==
  [source |-> s, check |-> check, scope |-> scope, record |-> record,
   seen |-> seen, status |-> status]

MCTargets == <<scan, "vuln">> :> {k1} @@ <<edr, "sensor">> :> {k1, k2}
               @@ <<aws, "trail">> :> {k2}

First  == Fact(scan, "vuln", None, <<x, Blank>>, 1, "FAIL")
Second == Fact(scan, "vuln", None, <<Blank, x>>, 1, "PASS")

MCExports ==
  scan :> {{}, {First}, {Second}, {[First EXCEPT !.seen = 2]},
           {First, Fact(scan, "other", None, None, 1, "PASS")},
           {Fact(scan, "vuln", None, None, 1, "PASS"),
            Fact(scan, "vuln", None, None, 1, "FAIL")}}
  @@ edr :> {{Fact(edr, "sensor", tenant, None, 1, "PASS")},
             {Fact(edr, "sensor", None, None, None, "PASS")},
             {Fact(edr, "other", None, None, 1, "PASS")}}
  @@ aws :> {{Fact(aws, "trail", account, None, 1, "PASS"),
              Fact(aws, "trail", None, None, 1, "error")}}

Says(enabled, onAws, production, key, required, software, evidenceStore) ==
  [enabled |-> enabled, aws |-> onAws, production |-> production, key |-> key,
   required |-> required, software |-> software, store |-> evidenceStore]

MCProfiles ==
  {Says({scan, edr}, TRUE, FALSE, None, FALSE, FALSE, "unstated"),
   Says({scan}, FALSE, TRUE, "new", TRUE, FALSE, "attested"),
   Says({edr}, TRUE, TRUE, "new", FALSE, FALSE, "silent"),
   Says({scan, edr}, TRUE, TRUE, "old", TRUE, TRUE, "denied")}
=============================================================================
