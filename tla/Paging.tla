-------------------------------- MODULE Paging --------------------------------
(***************************************************************************)
(* The arithmetic of the list of documents: what the browser computes from *)
(* page, size and total, and which rows the server sends for a page.  Rows *)
(* are numbered from 1, the newest first.                                  *)
(***************************************************************************)
EXTENDS Integers

MaxPageSize == 100

Lesser(a, b) == IF a <= b THEN a ELSE b
Greater(a, b) == IF a >= b THEN a ELSE b

-----------------------------------------------------------------------------
(* The server.                                                             *)

ServerPage(page) == Greater(1, page)
ServerSize(size) == Lesser(MaxPageSize, Greater(1, size))

(* ORDER BY ... OFFSET (page - 1) * size LIMIT size, of `total` rows.      *)
Rows(total, page, size) ==
    LET offset == (ServerPage(page) - 1) * ServerSize(size)
    IN  offset + 1 .. Lesser(offset + ServerSize(size), total)

-----------------------------------------------------------------------------
(* The browser.                                                            *)

(* Math.max(1, Math.ceil(total / size))                                    *)
Pages(total, size) == Greater(1, (total + size - 1) \div size)

(* "Showing first-last of total"                                           *)
First(total, page, size) == IF total = 0 THEN 0 ELSE (page - 1) * size + 1
Last(total, page, size) == Lesser(page * size, total)

(* changeSize: the page of the new size that holds the row on top.         *)
ChangeSize(page, size, next) ==
    LET anchor == (page - 1) * size
    IN  Greater(1, anchor \div next + 1)

-----------------------------------------------------------------------------
(* "the row you were looking at stays on screen" (changeSize): the page of *)
(* the new size has the first row of the old page, in a list that has it.  *)
KeepsAnchor(total, page, size, next) ==
    (page - 1) * size < total =>
        (page - 1) * size + 1 \in Rows(total, ChangeSize(page, size, next), next)

(* Changing the size never leads behind the last page.                     *)
StaysInside(total, page, size, next) ==
    page <= Pages(total, size) => ChangeSize(page, size, next) <= Pages(total, next)

(* What the footer says is what the server sent.                           *)
FooterIsTrue(total, page, size) ==
    page <= Pages(total, size) =>
        IF total = 0 THEN Rows(total, page, size) = {}
        ELSE Rows(total, page, size)
               = First(total, page, size) .. Last(total, page, size)

(* Turning the pages shows every row, once.                                *)
EveryRowOnOnePage(total, size) ==
    \A k \in 1 .. total :
        /\ \E p \in 1 .. Pages(total, size) : k \in Rows(total, p, size)
        /\ \A p, q \in 1 .. Pages(total, size) :
              k \in Rows(total, p, size) /\ k \in Rows(total, q, size) => p = q
=============================================================================
