----------------------------- MODULE MCInsights -----------------------------
(* An instance of Insights: two hosts and one domain. *)
EXTENDS Insights
CONSTANTS h1, h2, d1
=============================================================================
