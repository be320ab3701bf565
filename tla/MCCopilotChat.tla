--------------------------- MODULE MCCopilotChat ---------------------------
EXTENDS CopilotChat

CONSTANTS p, q
=============================================================================
