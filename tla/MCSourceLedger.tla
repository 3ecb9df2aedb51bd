--------------------------- MODULE MCSourceLedger ---------------------------
\* SourceLedger for TLC: incarnations are opaque identities.
EXTENDS SourceLedger, TLC

LedgerSymmetry == Permutations(Incarnations)
=============================================================================
