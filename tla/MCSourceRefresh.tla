-------------------------- MODULE MCSourceRefresh --------------------------
\* Instances of SourceRefresh for TLC.
EXTENDS SourceRefresh, TLC
=============================================================================
