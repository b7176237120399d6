---------------------------- MODULE MCAlertEngine ----------------------------
(* Small instances of AlertEngine for TLC. *)
EXTENDS AlertEngine

Hot == [condition |-> "hot", for |-> 1, clearAfter |-> 4, limit |-> 0,
        severity |-> "warning"]
Silent == [condition |-> "silent", for |-> 0, clearAfter |-> 0, limit |-> 3,
           severity |-> "warning"]
Expired == [condition |-> "expired", for |-> 0, clearAfter |-> 0, limit |-> 0,
            severity |-> "critical"]
Expires == [Expired EXCEPT !.condition = "expires", !.limit = 2]

MCHotTargets == [heat |-> {"temperature"}]
MCHotRules == {[heat |-> Hot]}
MCReadingRules == {[heat |-> Hot], [quiet |-> Silent]}
MCReadingTargets == [heat |-> {"temperature"}, quiet |-> {"temperature"}]

(* Certificate rules, with an earlier warning or not, a heat rule, more     *)
(* patient or less: each may be saved over any other.                       *)
MCSavedRules ==
  {[over |-> Expired, soon |-> Expires],
   [soon |-> [Expires EXCEPT !.limit = 4]],
   [heat |-> Hot], [heat |-> [Hot EXCEPT !.for = 2]]}
MCCertificateTargets == [over |-> {"certificate"}, soon |-> {"certificate"},
                         heat |-> {"temperature"}]

(* No alert yet, or one from before alerts had a hash. *)
MCNoAlerts == {<< >>}
MCOldAlert == [key |-> <<"heat", "temperature">>, hash |-> NoHash, raisedAt |-> 0, clearedAt |-> 0,
               clearedBy |-> "open", acknowledged |-> FALSE, raisedMono |-> 0, clearedMono |-> 0,
               quiet |-> 0, heard |-> FALSE, credible |-> TRUE]
MCOldAlerts == {<< >>, <<MCOldAlert>>}

MCNoCertificate == {[known |-> FALSE, notAfter |-> 0, synced |-> FALSE]}
MCCertificates == {[known |-> TRUE, notAfter |-> 4, synced |-> TRUE],
                   [known |-> TRUE, notAfter |-> 9, synced |-> FALSE]}

(* What the wall clock may be off by. *)
MCRight == {0}
MCAheadOrRight == {0, 6}
MCBehind == {-5}
MCBehindOrRight == {-5, 0}
=============================================================================
