------------------------- MODULE MCTranscriptLedger -------------------------
\* Instances of TranscriptLedger for TLC.
EXTENDS TranscriptLedger
=============================================================================
