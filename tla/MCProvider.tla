----------------------------- MODULE MCProvider -----------------------------
(* Provider for TLC; its constants are given in the .cfg.                    *)
EXTENDS ProviderInvariant

CONSTANTS c1, m1

\* The MAC of a single claim.
OneMAC == [c \in {c1} |-> m1]
=============================================================================
