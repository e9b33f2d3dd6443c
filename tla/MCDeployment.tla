---------------------------- MODULE MCDeployment ----------------------------
\* Instances of Deployment for TLC.
EXTENDS Deployment

Page(host, view, limit) == [host |-> host, view |-> view, limit |-> limit]

\* A page on the alternate host, in the last batch but one of a purge.
ListedPage == {Page("www", "original-x-posts", 1000)}
=============================================================================
