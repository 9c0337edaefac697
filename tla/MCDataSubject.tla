--------------------------- MODULE MCDataSubject ---------------------------
(* One report by any of the three routes; one deletion whose message may be *)
(* run twice and overlap scoring, a SHAP request and two grants.            *)
EXTENDS DataSubject

CONSTANTS x1, r1, q1, q2

MCTxs == {x1}
MCReports == {r1}
MCRequests == {q1}
MCRectifications == {q2}
=============================================================================
