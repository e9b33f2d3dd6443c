------------------------- MODULE MCReadModelPublish -------------------------
\* Instances of ReadModelPublish for TLC.
EXTENDS ReadModelPublish
=============================================================================
