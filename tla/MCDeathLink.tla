------------------------------ MODULE MCDeathLink ------------------------------
\* One forgiven death, a graced first one, and an echo latch that would outlive
\* a death screen and a respawn.
EXTENDS DeathLink
=============================================================================
