-------------------------- MODULE MCDigestDelivery --------------------------
\* Instances of DigestDelivery for TLC.
EXTENDS DigestDelivery, TLC
=============================================================================
