---------------------------- MODULE Paging_proofs ----------------------------
(***************************************************************************)
(* The list of documents pages correctly, whatever its length and whatever *)
(* size up to the server's cap is chosen.                                  *)
(***************************************************************************)
EXTENDS Paging, TLAPS

Sizes == 1 .. MaxPageSize

(* Integer division: the quotient times the divisor is the largest multiple*)
(* not above the dividend.                                                 *)
LEMMA Division ==
    ASSUME NEW a \in Nat, NEW b \in Nat \ {0}
    PROVE  /\ a \div b \in Nat
           /\ (a \div b) * b <= a
           /\ a < (a \div b) * b + b
  BY SMT

LEMMA NextMultiple ==
    ASSUME NEW a \in Int, NEW b \in Int
    PROVE  (a + 1) * b = a * b + b
  BY SMT

(* A smaller factor is at least one whole step below.                      *)
LEMMA Multiples ==
    ASSUME NEW a \in Nat, NEW b \in Nat, NEW c \in Nat, a < b
    PROVE  a * c + c <= b * c
  BY SMT

(* For sizes the browser offers, the server clamps nothing.                *)
LEMMA NothingClamped ==
    ASSUME NEW total \in Nat, NEW page \in Nat \ {0}, NEW size \in Sizes
    PROVE  Rows(total, page, size)
             = (page - 1) * size + 1 .. Lesser((page - 1) * size + size, total)
  BY DEF Rows, ServerPage, ServerSize, Sizes, MaxPageSize, Lesser, Greater

(* The number of pages: enough for the last row, and the last is not empty.*)
LEMMA PagesEnough ==
    ASSUME NEW total \in Nat, NEW size \in Sizes
    PROVE  /\ Pages(total, size) \in Nat \ {0}
           /\ total <= Pages(total, size) * size
           /\ total > 0 => Pages(total, size) * size < total + size
<1> DEFINE n == (total + size - 1) \div size
<1>1. /\ total + size - 1 \in Nat
      /\ size \in Nat \ {0}
  BY DEF Sizes, MaxPageSize
<1>2. /\ n \in Nat
      /\ n * size <= total + size - 1
      /\ total + size - 1 < n * size + size
  BY <1>1, Division
<1>3. CASE n = 0
  <2>1. Pages(total, size) = 1 /\ total = 0
    BY <1>1, <1>2, <1>3 DEF Pages, Greater
  <2> QED
    BY <1>1, <2>1
<1>4. CASE n # 0
  <2>1. Pages(total, size) = n
    BY <1>2, <1>4 DEF Pages, Greater
  <2> HIDE DEF n
  <2>2. n * size \in Nat
    BY <1>1, <1>2
  <2> QED
    BY <1>1, <1>2, <1>4, <2>1, <2>2
<1> QED
  BY <1>3, <1>4

(* On a page there is, the first row is a row of the list.                 *)
LEMMA FirstRowExists ==
    ASSUME NEW total \in Nat \ {0}, NEW size \in Sizes,
           NEW page \in 1 .. Pages(total, size)
    PROVE  (page - 1) * size < total
<1>1. /\ Pages(total, size) \in Nat \ {0}
      /\ Pages(total, size) * size < total + size
  BY PagesEnough
<1>2. size \in Nat /\ page - 1 \in Nat /\ page - 1 < Pages(total, size)
  BY <1>1 DEF Sizes, MaxPageSize
<1>3. (page - 1) * size + size <= Pages(total, size) * size
  BY <1>1, <1>2, Multiples
<1>4. (page - 1) * size \in Nat /\ Pages(total, size) * size \in Nat
  BY <1>1, <1>2
<1> QED
  BY <1>1, <1>2, <1>3, <1>4

(* A row of the list is on a page there is.                                *)
LEMMA RowHasPage ==
    ASSUME NEW total \in Nat, NEW size \in Sizes, NEW p \in Nat \ {0},
           (p - 1) * size < total
    PROVE  p <= Pages(total, size)
<1>1. Pages(total, size) \in Nat \ {0} /\ total <= Pages(total, size) * size
  BY PagesEnough
<1>2. size \in Nat /\ p - 1 \in Nat
  BY DEF Sizes, MaxPageSize
<1> SUFFICES ASSUME Pages(total, size) < p PROVE FALSE
  BY <1>1
<1>3. Pages(total, size) * size <= (p - 1) * size
  <2>1. CASE Pages(total, size) = p - 1
    <3>1. Pages(total, size) * size = (p - 1) * size
      BY <2>1, Zenon
    <3>2. (p - 1) * size \in Nat
      BY <1>2
    <3> QED
      BY <3>1, <3>2
  <2>2. CASE Pages(total, size) < p - 1
    <3>1. Pages(total, size) * size + size <= (p - 1) * size
      BY <1>1, <1>2, <2>2, Multiples
    <3>2. Pages(total, size) * size \in Nat /\ (p - 1) * size \in Nat
      BY <1>1, <1>2
    <3> QED
      BY <1>2, <3>1, <3>2
  <2> QED
    BY <1>1, <1>2, <2>1, <2>2
<1>4. Pages(total, size) * size \in Nat /\ (p - 1) * size \in Nat
  BY <1>1, <1>2
<1> QED
  BY <1>1, <1>3, <1>4

(* What changeSize computes.                                               *)
LEMMA ChangedPage ==
    ASSUME NEW page \in Nat \ {0}, NEW size \in Sizes, NEW next \in Sizes
    PROVE  LET anchor == (page - 1) * size
               p == ChangeSize(page, size, next)
           IN  /\ anchor \in Nat
               /\ p \in Nat \ {0}
               /\ (p - 1) * next <= anchor
               /\ anchor < (p - 1) * next + next
<1> DEFINE anchor == (page - 1) * size
           q == anchor \div next
<1>1. size \in Nat /\ next \in Nat \ {0} /\ page - 1 \in Nat
  BY DEF Sizes, MaxPageSize
<1>2. anchor \in Nat
  BY <1>1
<1>3. q \in Nat /\ q * next <= anchor /\ anchor < q * next + next
  <2> HIDE DEF anchor
  <2> QED
    BY <1>1, <1>2, Division
<1>4. ChangeSize(page, size, next) = q + 1
  <2>1. ChangeSize(page, size, next) = Greater(1, q + 1)
    BY DEF ChangeSize
  <2> HIDE DEF q
  <2> QED
    BY <1>3, <2>1 DEF Greater
<1>5. (q + 1) - 1 = q
  <2> HIDE DEF q
  <2> QED
    BY <1>3
<1> HIDE DEF q, anchor
<1>6. /\ q + 1 \in Nat \ {0}
      /\ ((q + 1) - 1) * next <= anchor
      /\ anchor < ((q + 1) - 1) * next + next
  BY <1>3, <1>5
<1> QED
  BY <1>2, <1>4, <1>6 DEF anchor

(* "the row you were looking at stays on screen": changing the page size   *)
(* shows a page that has the first row of the old one (changeSize,         *)
(* list_for_tenant).                                                       *)
THEOREM AnchorStaysOnScreen ==
    ASSUME NEW total \in Nat, NEW page \in Nat \ {0},
           NEW size \in Sizes, NEW next \in Sizes
    PROVE  KeepsAnchor(total, page, size, next)
<1> DEFINE anchor == (page - 1) * size
           p == ChangeSize(page, size, next)
<1>1. /\ anchor \in Nat
      /\ p \in Nat \ {0}
      /\ (p - 1) * next <= anchor
      /\ anchor < (p - 1) * next + next
  BY ChangedPage
<1>2. Rows(total, p, next)
        = (p - 1) * next + 1 .. Lesser((p - 1) * next + next, total)
  <2> HIDE DEF p
  <2> QED
    BY <1>1, NothingClamped
<1> HIDE DEF p, anchor
<1>3. next \in Nat /\ p - 1 \in Nat
  BY <1>1 DEF Sizes, MaxPageSize
<1>4. (p - 1) * next \in Nat
  BY <1>3
<1>5. anchor < total => anchor + 1 \in Rows(total, p, next)
  BY <1>1, <1>2, <1>3, <1>4 DEF Lesser
<1> QED
  BY <1>5 DEF KeepsAnchor, p, anchor

(* Changing the page size on a page there is never leads behind the last   *)
(* page (changeSize, Pages).                                               *)
THEOREM ChangeSizeStaysInside ==
    ASSUME NEW total \in Nat \ {0}, NEW page \in Nat \ {0},
           NEW size \in Sizes, NEW next \in Sizes
    PROVE  StaysInside(total, page, size, next)
<1> SUFFICES ASSUME page <= Pages(total, size)
             PROVE  ChangeSize(page, size, next) <= Pages(total, next)
  BY DEF StaysInside
<1> DEFINE anchor == (page - 1) * size
           p == ChangeSize(page, size, next)
<1>1. /\ anchor \in Nat
      /\ p \in Nat \ {0}
      /\ (p - 1) * next <= anchor
  BY ChangedPage
<1>2. anchor < total
  BY FirstRowExists, PagesEnough
<1> HIDE DEF p, anchor
<1>3. (p - 1) * next \in Nat
  BY <1>1 DEF Sizes, MaxPageSize
<1>4. (p - 1) * next < total
  BY <1>1, <1>2, <1>3
<1>5. p <= Pages(total, next)
  BY <1>1, <1>4, RowHasPage
<1> QED
  BY <1>5 DEF p

(* The footer "Showing first-last of total" names the rows the server sent *)
(* for this page (DocumentsPage, list_for_tenant).                         *)
THEOREM FooterNamesTheRows ==
    ASSUME NEW total \in Nat, NEW page \in Nat \ {0}, NEW size \in Sizes
    PROVE  FooterIsTrue(total, page, size)
<1>1. size \in Nat /\ page - 1 \in Nat
  BY DEF Sizes, MaxPageSize
<1>2. (page - 1) * size \in Nat
  BY <1>1
<1>3. page * size = (page - 1) * size + size
  <2>1. page = (page - 1) + 1 /\ page - 1 \in Int /\ size \in Int
    BY <1>1
  <2> QED
    BY <2>1, NextMultiple
<1>4. Rows(total, page, size)
        = (page - 1) * size + 1 .. Lesser((page - 1) * size + size, total)
  BY NothingClamped
<1>5. CASE total = 0
  <2> DEFINE o == (page - 1) * size
  <2>1. Lesser(o + size, total) = 0
    <3> HIDE DEF o
    <3>1. o \in Nat
      BY <1>2 DEF o
    <3> QED
      BY <1>1, <1>5, <3>1 DEF Lesser, Sizes, MaxPageSize
  <2>2. Rows(total, page, size) = {}
    <3> HIDE DEF o
    <3>1. o \in Nat /\ Rows(total, page, size) = o + 1 .. Lesser(o + size, total)
      BY <1>2, <1>4 DEF o
    <3> QED
      BY <2>1, <3>1
  <2> QED
    BY <1>5, <2>2 DEF FooterIsTrue
<1>6. CASE total # 0
  <2>1. /\ First(total, page, size) = (page - 1) * size + 1
        /\ Last(total, page, size) = Lesser((page - 1) * size + size, total)
    BY <1>3, <1>6 DEF First, Last
  <2> QED
    BY <1>4, <1>6, <2>1 DEF FooterIsTrue
<1> QED
  BY <1>5, <1>6

(* Turning the pages shows every row of the list, on one page only         *)
(* (list_for_tenant; of a list that does not change meanwhile).            *)
THEOREM PagesPartitionTheList ==
    ASSUME NEW total \in Nat, NEW size \in Sizes
    PROVE  EveryRowOnOnePage(total, size)
<1>1. size \in Nat \ {0} /\ Pages(total, size) \in Nat \ {0}
  <2>1. size \in Nat \ {0}
    BY DEF Sizes, MaxPageSize
  <2> QED
    BY <2>1, PagesEnough
<1> SUFFICES ASSUME NEW k \in 1 .. total
             PROVE  /\ \E p \in 1 .. Pages(total, size) : k \in Rows(total, p, size)
                    /\ \A p, q \in 1 .. Pages(total, size) :
                          k \in Rows(total, p, size) /\ k \in Rows(total, q, size)
                             => p = q
  BY DEF EveryRowOnOnePage
<1>2. \E p \in 1 .. Pages(total, size) : k \in Rows(total, p, size)
  <2> DEFINE q == (k - 1) \div size
  <2>1. q \in Nat /\ q * size <= k - 1 /\ k - 1 < q * size + size
    BY <1>1, Division
  <2> HIDE DEF q
  <2>2. q * size \in Nat /\ q + 1 \in Nat \ {0} /\ (q + 1) - 1 = q
    BY <1>1, <2>1
  <2>3. ((q + 1) - 1) * size < total
    BY <1>1, <2>1, <2>2
  <2>4. q + 1 <= Pages(total, size)
    BY <2>2, <2>3, RowHasPage
  <2>5. Rows(total, q + 1, size) = q * size + 1 .. Lesser(q * size + size, total)
    BY <2>2, NothingClamped
  <2>6. k \in Rows(total, q + 1, size)
    BY <1>1, <2>1, <2>2, <2>5 DEF Lesser
  <2> QED
    BY <1>1, <2>2, <2>4, <2>6
<1>3. ASSUME NEW p \in 1 .. Pages(total, size), NEW q \in 1 .. Pages(total, size),
             k \in Rows(total, p, size), k \in Rows(total, q, size)
      PROVE  ~(p < q)
  <2>1. p - 1 \in Nat /\ q - 1 \in Nat /\ p \in Nat \ {0} /\ q \in Nat \ {0}
    BY <1>1
  <2>2. (p - 1) * size \in Nat /\ (q - 1) * size \in Nat
    BY <1>1, <2>1
  <2>3. k <= (p - 1) * size + size /\ (q - 1) * size + 1 <= k
    <3>1. /\ Rows(total, p, size)
               = (p - 1) * size + 1 .. Lesser((p - 1) * size + size, total)
          /\ Rows(total, q, size)
               = (q - 1) * size + 1 .. Lesser((q - 1) * size + size, total)
      BY <2>1, NothingClamped
    <3> QED
      BY <1>1, <1>3, <2>2, <3>1 DEF Lesser
  <2> SUFFICES ASSUME p < q PROVE FALSE
    OBVIOUS
  <2>4. (p - 1) * size + size <= (q - 1) * size
    BY <1>1, <2>1, Multiples
  <2> QED
    BY <1>1, <2>2, <2>3, <2>4
<1>4. \A p, q \in 1 .. Pages(total, size) :
         k \in Rows(total, p, size) /\ k \in Rows(total, q, size) => p = q
  BY <1>1, <1>3
<1> QED
  BY <1>2, <1>4
=============================================================================
