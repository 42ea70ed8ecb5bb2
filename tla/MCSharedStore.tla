--------------------------- MODULE MCSharedStore ---------------------------
EXTENDS SharedStore
=============================================================================
