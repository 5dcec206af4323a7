--------------------------- MODULE MCRegistration ---------------------------
\* Two registrars of prompts and two names: one is claimed through MustAdd only and
\* has an argument of known values, one is also written through SDK().
EXTENDS Completion

CONSTANTS r1, r2
==============================================================================
