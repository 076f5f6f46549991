------------------------------ MODULE MCBrowser ------------------------------
(***************************************************************************)
(* The session of Browser, and the arithmetic of its list on small lists.  *)
(***************************************************************************)
EXTENDS Browser

P == INSTANCE Paging

(* Paging_proofs proves these for every list and every size.               *)
ASSUME PagingOnSmallLists ==
    \A total \in 0 .. 9, size, next \in 1 .. 4 :
        /\ P!EveryRowOnOnePage(total, size)
        /\ \A p \in 1 .. P!Pages(total, size) :
              /\ P!KeepsAnchor(total, p, size, next)
              /\ P!StaysInside(total, p, size, next)
              /\ P!FooterIsTrue(total, p, size)
=============================================================================
