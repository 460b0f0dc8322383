--------------------------- MODULE MCPublications ---------------------------
EXTENDS Publications
=============================================================================
