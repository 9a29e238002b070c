----------------------------- MODULE MCIdentity -----------------------------
EXTENDS Identity
=============================================================================
