--------------------------- MODULE MCRequestPath ---------------------------
EXTENDS RequestPath, TLC

CONSTANTS acme, globex, r1, r2, r3, a1, a2

TwoAndOne == (r1 :> acme) @@ (r2 :> acme) @@ (r3 :> globex)
=============================================================================
