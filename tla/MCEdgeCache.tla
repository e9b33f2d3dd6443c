---------------------------- MODULE MCEdgeCache ----------------------------
\* Instances of EdgeCache for TLC.
EXTENDS EdgeCache

Page(host, view, limit) == [host |-> host, view |-> view, limit |-> limit]

\* The second page of the newsletter archive.
SecondPages == {Page("base", "daily-newsletter", 20)}
=============================================================================
