----------------------------- MODULE MCArticle -----------------------------
(* A small instance of PhasedPipeline for TLC: one snapshot, two           *)
(* preflights, one outage and one crash.                                   *)
EXTENDS PhasedPipeline
=============================================================================
