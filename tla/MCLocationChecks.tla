--------------------------- MODULE MCLocationChecks ---------------------------
\* Two locations, the goal and one that earns sustain, and two characters.
EXTENDS LocationChecks
=============================================================================
