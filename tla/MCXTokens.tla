----------------------------- MODULE MCXTokens -----------------------------
\* Instances of XTokens for TLC.
EXTENDS XTokens
=============================================================================
