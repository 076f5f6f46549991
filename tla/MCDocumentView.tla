--------------------------- MODULE MCDocumentView ---------------------------
EXTENDS DocumentView

CONSTANTS f1, f2, f3
=============================================================================
