----------------------------- MODULE MCMatcher -----------------------------
(* All filters and topics of up to MaxLen parts.                           *)
EXTENDS Matcher

=============================================================================
