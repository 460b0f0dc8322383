--------------------------- MODULE MCProfileStore ---------------------------
EXTENDS ProfileStore
=============================================================================
