----------------------------- MODULE MCSsoLogin -----------------------------
(* SsoLogin on a small instance: two browsers, two requests at a time.       *)
EXTENDS SsoLogin

\* Listed but not verified, verified but not listed, and both.
MCClaims == AllClaims \ {[listed |-> FALSE, verified |-> FALSE]}
=============================================================================
