--------------------------- MODULE MCProposalFlow ---------------------------
\* Small instances of ProposalFlow for TLC.
EXTENDS ProposalFlow

CONSTANTS r1, r2
=============================================================================
