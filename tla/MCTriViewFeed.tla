--------------------------- MODULE MCTriViewFeed ---------------------------
EXTENDS TriViewFeed
=============================================================================
