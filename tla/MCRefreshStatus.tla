---------------------------- MODULE MCRefreshStatus ----------------------------
\* Instances of RefreshStatus for TLC.
EXTENDS RefreshStatus
=============================================================================
