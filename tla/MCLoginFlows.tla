----------------------------- MODULE MCLoginFlows -----------------------------
\* Login flows for TLC.
EXTENDS LoginFlows
=============================================================================
