----------------------------- MODULE MCRapCache -----------------------------
\* Small instances of RapCache.
EXTENDS RapCache
=============================================================================
