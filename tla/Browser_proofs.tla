---------------------------- MODULE Browser_proofs ----------------------------
(***************************************************************************)
(* What a tab shows, and as whom, for any number of logins, questions and  *)
(* requests on their way.                                                  *)
(***************************************************************************)
EXTENDS Browser, SequenceTheorems, TLAPS

-----------------------------------------------------------------------------
(* Sequences.                                                              *)

LEMMA SeqOfFunction ==
    ASSUME NEW S, NEW n \in Nat, NEW t \in [1 .. n -> S]
    PROVE  t \in Seq(S) /\ Len(t) = n /\ DOMAIN t = 1 .. n
    OBVIOUS

LEMMA RemoveAtFacts ==
    ASSUME NEW S, NEW s \in Seq(S), NEW i \in 1 .. Len(s)
    PROVE  /\ RemoveAt(s, i) \in Seq(S)
           /\ Len(RemoveAt(s, i)) = Len(s) - 1
           /\ DOMAIN RemoveAt(s, i) = 1 .. Len(s) - 1
           /\ \A j \in 1 .. Len(s) - 1 :
                RemoveAt(s, i)[j] = IF j < i THEN s[j] ELSE s[j + 1]
<1> DEFINE a == SubSeq(s, 1, i - 1)
           b == SubSeq(s, i + 1, Len(s))
<1>1. Len(s) \in Nat /\ i \in Nat /\ 1 <= i /\ i <= Len(s) /\ DOMAIN s = 1 .. Len(s)
      OBVIOUS
<1>2. /\ a \in Seq(S) /\ Len(a) = i - 1
      /\ \A j \in 1 .. i - 1 : a[j] = s[j]
      BY <1>1, SubSeqProperties
<1>3. /\ b \in Seq(S) /\ Len(b) = Len(s) - i
      /\ \A j \in 1 .. Len(s) - i : b[j] = s[i + j]
  <2> DEFINE m == i + 1
  <2>1. /\ m \in Int /\ Len(s) \in Int /\ \A j \in m .. Len(s) : s[j] \in S
        /\ Len(s) - m + 1 = Len(s) - i
        /\ (IF m <= Len(s) THEN Len(s) - m + 1 ELSE 0) = Len(s) - i
        /\ \A j \in 1 .. Len(s) - i : m + j - 1 = i + j
    <3> DEFINE n == Len(s)
    <3>1. n \in Nat /\ i \in 1 .. n /\ m = i + 1
          BY <1>1
    <3>2. \A j \in m .. n : s[j] \in S
          BY <1>1
    <3> HIDE DEF n, m
    <3>3. /\ m \in Int /\ n \in Int /\ n - m + 1 = n - i
          /\ (IF m <= n THEN n - m + 1 ELSE 0) = n - i
          BY <3>1
    <3>4. \A j \in 1 .. n - i : m + j - 1 = i + j
          BY <3>1
    <3>5. QED
          BY <3>2, <3>3, <3>4 DEF n
  <2>2. b = SubSeq(s, m, Len(s))
        OBVIOUS
  <2> HIDE DEF m, b
  <2>3. /\ SubSeq(s, m, Len(s)) \in Seq(S)
        /\ Len(SubSeq(s, m, Len(s))) = IF m <= Len(s) THEN Len(s) - m + 1 ELSE 0
        /\ \A j \in 1 .. Len(s) - m + 1 : SubSeq(s, m, Len(s))[j] = s[m + j - 1]
        BY <2>1, SubSeqProperties
  <2>4. QED
        BY <2>1, <2>2, <2>3
<1> HIDE DEF a, b
<1>4. RemoveAt(s, i) = a \o b
      BY DEF RemoveAt, a, b
<1>5. /\ a \o b \in Seq(S) /\ Len(a \o b) = Len(s) - 1
  <2>1. a \o b \in Seq(S) /\ Len(a \o b) = Len(a) + Len(b)
        BY <1>2, <1>3, ConcatProperties
  <2>2. QED
        BY <1>1, <1>2, <1>3, <2>1
<1>6. ASSUME NEW j \in 1 .. Len(s) - 1
      PROVE  (a \o b)[j] = IF j < i THEN s[j] ELSE s[j + 1]
  <2> USE <1>1
  <2>1. CASE j < i
        BY <1>2, <1>3, <2>1
  <2>2. CASE j >= i
    <3>1. j - (i - 1) \in 1 .. Len(s) - i /\ i + (j - (i - 1)) = j + 1
          BY <1>1, <2>2
    <3>2. (a \o b)[j] = b[j - (i - 1)]
          BY <1>1, <1>2, <1>3, <2>2
    <3>3. b[j - (i - 1)] = s[i + (j - (i - 1))]
          BY <1>3, <3>1
    <3>4. QED
          BY <2>2, <3>1, <3>2, <3>3
  <2>3. j < i \/ j >= i
        OBVIOUS
  <2>4. QED
        BY <2>1, <2>2, <2>3
<1>7. QED
      BY <1>4, <1>5, <1>6

-----------------------------------------------------------------------------
(* The invariant.                                                          *)

(* Who a request was sent for, when the tokens in `gone` are out of date   *)
(* and `me` is signed in: what is still on its way for the page carries    *)
(* the token of the user the header names, or none.                        *)
RequestFits(r, gone, me) ==
    /\ r.answer = "refused" => r.who \in gone \cup {0}
    /\ r.answer \in {"rows", "pending"} => r.who # 0
    /\ r.live => r.who \in {0, me}
    /\ gone = {} => r.who # 0

RequestsFit == \A i \in DOMAIN requests : RequestFits(requests[i], expired, identity)

(* The token of this page belongs to the user it names.                    *)
Session == identity # 0 => token \in {0, identity}

(* Of the answers the page waits for, the last asked is the one it needs.  *)
LastAsks ==
    \A i \in DOMAIN requests :
        requests[i].live =>
            \/ requests[i].q = question \/ requests[i].late
            \/ \E j \in DOMAIN requests : j > i /\ requests[j].live

IInv == /\ TypeOK /\ RequestsFit /\ Session /\ LastAsks
        /\ ShownIsTheAnswer /\ SignedInUntilExpiry

LEMMA NoResultFacts ==
    /\ NoResult \in [who : Logins, q : Questions, pending : BOOLEAN, late : BOOLEAN]
    /\ NoResult.pending = FALSE
<1>1. 0 \in Logins
      BY BrowserBounds DEF Logins
<1>2. QED
      BY <1>1, QuestionAssumption DEF NoResult

LEMMA InitIInv == Init => IInv
<1> SUFFICES ASSUME Init PROVE IInv
    OBVIOUS
<1>1. /\ requests = << >> /\ requests \in Seq(Request) /\ Len(requests) = 0
      /\ DOMAIN requests = {}
  <2>1. requests = << >> /\ << >> \in Seq(Request) /\ Len(<< >>) = 0
        BY EmptySeq DEF Init
  <2>2. DOMAIN requests = 1 .. 0
        BY <2>1, LenProperties
  <2>3. QED
        BY <2>1, <2>2
<1>2. TypeOK
  <2>1. /\ logins = 0 /\ expired = {} /\ token = 0 /\ identity = 0
        /\ page = "login" /\ question = "" /\ result = NoResult /\ error = FALSE
        /\ settled = FALSE
        BY DEF Init
  <2>2. logins \in Logins /\ token \in 0 .. logins /\ identity \in 0 .. logins
    <3>1. 0 \in 0 .. MaxLogins /\ 0 \in 0 .. 0
          BY BrowserBounds
    <3>2. QED
          BY <2>1, <3>1 DEF Logins
  <2>3. Len(requests) <= MaxRequests
        BY <1>1, BrowserBounds
  <2>4. QED
        BY <1>1, <2>1, <2>2, <2>3, NoResultFacts, QuestionAssumption DEF TypeOK
<1>3. QED
      BY <1>1, <1>2 DEF Init, IInv, RequestsFit, Session, LastAsks,
                        ShownIsTheAnswer, SignedInUntilExpiry

-----------------------------------------------------------------------------
(* What happens to the requests.                                           *)

Asked(t, q) == [who |-> t, q |-> q, live |-> TRUE, late |-> FALSE, answer |-> "none"]

LEMMA AskFacts ==
    ASSUME NEW rest \in Seq(Request), NEW t \in Logins, NEW q \in Questions,
           Ask(rest, t, q)
    PROVE  /\ requests' \in Seq(Request)
           /\ Len(requests') = Len(rest) + 1
           /\ DOMAIN requests' = 1 .. Len(rest) + 1
           /\ DOMAIN rest = 1 .. Len(rest) /\ Len(rest) \in Nat
           /\ requests'[Len(rest) + 1] = Asked(t, q)
           /\ \A i \in 1 .. Len(rest) : requests'[i] = rest[i]
<1>1. Asked(t, q) \in Request
      BY DEF Asked, Request
<1>2. requests' = Append(rest, Asked(t, q))
      BY DEF Ask, Asked
<1>3. QED
      BY <1>1, <1>2, AppendProperties

LEMMA RequestsShape ==
    ASSUME TypeOK
    PROVE  /\ requests \in Seq(Request) /\ Len(requests) \in Nat
           /\ DOMAIN requests = 1 .. Len(requests)
           /\ \A i \in 1 .. Len(requests) : requests[i] \in Request
    BY DEF TypeOK

(* The page that asked is gone: nothing on its way is for the page now.    *)
LEMMA OrphanFacts ==
    ASSUME TypeOK
    PROVE  /\ Orphans \in Seq(Request) /\ Len(Orphans) = Len(requests)
           /\ DOMAIN Orphans = 1 .. Len(requests)
           /\ \A i \in 1 .. Len(requests) :
                /\ ~Orphans[i].live
                /\ Orphans[i].who = requests[i].who
                /\ Orphans[i].answer = requests[i].answer
<1> DEFINE n == Len(requests)
<1>1. /\ n \in Nat /\ DOMAIN requests = 1 .. n
      /\ \A i \in 1 .. n : requests[i] \in Request
      BY RequestsShape
<1>2. \A i \in 1 .. n : /\ Unmounted(requests[i]) \in Request
                        /\ ~Unmounted(requests[i]).live
                        /\ Unmounted(requests[i]).who = requests[i].who
                        /\ Unmounted(requests[i]).answer = requests[i].answer
      BY <1>1 DEF Unmounted, Request
<1>3. Orphans = [i \in 1 .. n |-> Unmounted(requests[i])]
      BY <1>1 DEF Orphans
<1>4. Orphans \in [1 .. n -> Request]
      BY <1>2, <1>3
<1>5. QED
      BY <1>1, <1>2, <1>3, <1>4, SeqOfFunction

(* A page opens: nothing is shown, and at most one request is for it.      *)
LEMMA OpenFacts ==
    ASSUME NEW rest \in Seq(Request), Len(rest) <= MaxRequests,
           \A i \in 1 .. Len(rest) : ~rest[i].live,
           token' \in Logins, OpenAny(rest)
    PROVE  /\ page' \in {"search", "documents"}
           /\ question' \in Questions
           /\ result' = NoResult /\ error' = FALSE
           /\ requests' \in Seq(Request) /\ Len(requests') <= MaxRequests
           /\ \A i \in DOMAIN requests' :
                \/ i \in 1 .. Len(rest) /\ requests'[i] = rest[i]
                \/ requests'[i] = Asked(token', question')
<1>1. PICK p \in {"search", "documents"}, q \in Questions : Open(p, q, rest)
      BY QuestionAssumption DEF OpenAny
<1>2. CASE Len(rest) < MaxRequests /\ Ask(rest, token', q)
      BY <1>1, <1>2, AskFacts, BrowserBounds DEF Open
<1>3. CASE requests' = rest
  <2>1. DOMAIN rest = 1 .. Len(rest)
        OBVIOUS
  <2>2. QED
        BY <1>1, <1>3, <2>1 DEF Open
<1>4. QED
      BY <1>1, <1>2, <1>3 DEF Open

-----------------------------------------------------------------------------
(* The session.                                                            *)

(* After a page has opened for the user of the token, or the login page    *)
(* has come up, the invariant holds, whatever was there before.            *)
LEMMA OpenedKeeps ==
    ASSUME IInv, NEW rest \in Seq(Request), Len(rest) <= MaxRequests,
           \A i \in 1 .. Len(rest) :
               ~rest[i].live /\ RequestFits(rest[i], expired, identity),
           expired' = expired, settled' = settled,
           logins' \in Logins, logins <= logins',
           token' \in 0 .. logins', identity' \in 0 .. logins',
           expired = {} /\ identity' # 0 => token' = identity',
           \/ OpenAny(rest) /\ identity' # 0 /\ token' \in {0, identity'}
           \/ ShowLogin(rest) /\ identity' = 0
    PROVE  IInv'
<1>1. /\ TypeOK /\ logins \in Nat /\ logins' \in Nat /\ logins' <= MaxLogins
      /\ expired \subseteq 1 .. logins /\ MaxLogins \in Nat
      BY BrowserBounds DEF IInv, TypeOK, Logins
<1>2. expired' \in SUBSET (1 .. logins') /\ 0 \notin expired'
      BY <1>1
<1>3. \A i \in 1 .. Len(rest) : RequestFits(rest[i], expired', identity')
      BY DEF RequestFits
<1>4. CASE OpenAny(rest) /\ identity' # 0 /\ token' \in {0, identity'}
  <2>1. token' \in Logins
        BY <1>1 DEF Logins
  <2>2. /\ page' \in {"search", "documents"} /\ question' \in Questions
        /\ result' = NoResult /\ error' = FALSE
        /\ requests' \in Seq(Request) /\ Len(requests') <= MaxRequests
        /\ \A i \in DOMAIN requests' :
              \/ i \in 1 .. Len(rest) /\ requests'[i] = rest[i]
              \/ requests'[i] = Asked(token', question')
        BY <1>4, <2>1, OpenFacts
  <2>3. TypeOK'
        BY <1>1, <1>2, <1>4, <2>2, NoResultFacts DEF IInv, TypeOK
  <2>4. RequestFits(Asked(token', question'), expired', identity')
        BY <1>4 DEF RequestFits, Asked
  <2>5. RequestsFit'
        BY <1>3, <2>2, <2>4 DEF RequestsFit
  <2>6. LastAsks'
        BY <2>2 DEF LastAsks, Asked
  <2>7. Session' /\ ShownIsTheAnswer' /\ SignedInUntilExpiry'
        BY <1>4, <2>2 DEF Session, ShownIsTheAnswer, SignedInUntilExpiry, NoResult
  <2>8. QED
        BY <2>3, <2>5, <2>6, <2>7 DEF IInv
<1>5. CASE ShowLogin(rest) /\ identity' = 0
  <2>1. /\ page' = "login" /\ question' = "" /\ result' = NoResult /\ error' = FALSE
        /\ requests' = rest /\ DOMAIN rest = 1 .. Len(rest)
    <3>1. DOMAIN rest = 1 .. Len(rest)
          BY LenProperties
    <3>2. QED
          BY <1>5, <3>1 DEF ShowLogin
  <2>2. TypeOK'
        BY <1>1, <1>2, <1>5, <2>1, NoResultFacts, QuestionAssumption DEF IInv, TypeOK
  <2>3. RequestsFit'
        BY <1>3, <2>1 DEF RequestsFit
  <2>4. LastAsks'
        BY <2>1 DEF LastAsks
  <2>5. Session' /\ ShownIsTheAnswer' /\ SignedInUntilExpiry'
        BY <1>5, <2>1 DEF Session, ShownIsTheAnswer, SignedInUntilExpiry, NoResult
  <2>6. QED
        BY <2>2, <2>3, <2>4, <2>5 DEF IInv
<1>6. QED
      BY <1>4, <1>5

LEMMA OrphansFit ==
    ASSUME IInv
    PROVE  /\ Orphans \in Seq(Request) /\ Len(Orphans) <= MaxRequests
           /\ \A i \in 1 .. Len(Orphans) :
                 ~Orphans[i].live /\ RequestFits(Orphans[i], expired, identity)
<1>1. /\ Orphans \in Seq(Request) /\ Len(Orphans) = Len(requests)
      /\ \A i \in 1 .. Len(requests) :
            /\ ~Orphans[i].live
            /\ Orphans[i].who = requests[i].who
            /\ Orphans[i].answer = requests[i].answer
      BY OrphanFacts DEF IInv
<1>2. /\ Len(requests) <= MaxRequests
      /\ \A i \in 1 .. Len(requests) : RequestFits(requests[i], expired, identity)
      BY RequestsShape DEF IInv, TypeOK, RequestsFit
<1>3. QED
      BY <1>1, <1>2 DEF RequestFits

LEMMA SessionKeeps ==
    ASSUME IInv, Login \/ Logout \/ Reload \/ Navigate
    PROVE  IInv'
<1>1. /\ TypeOK /\ logins \in Nat /\ logins \in Logins /\ logins <= MaxLogins
      /\ expired \subseteq 1 .. logins /\ MaxLogins \in Nat
      /\ token \in 0 .. logins /\ identity \in 0 .. logins
      BY BrowserBounds DEF IInv, TypeOK, Logins
<1>2. /\ requests \in Seq(Request) /\ Len(requests) <= MaxRequests
      /\ \A i \in 1 .. Len(requests) : RequestFits(requests[i], expired, identity)
      BY RequestsShape DEF IInv, TypeOK, RequestsFit
<1>3. CASE Login
  <2>1. \A i \in 1 .. Len(requests) : ~requests[i].live
        BY <1>3, RequestsShape DEF Login, IInv, TypeOK
  <2>2. /\ logins' = logins + 1 /\ token' = logins' /\ identity' = logins'
        /\ logins < MaxLogins /\ OpenAny(requests)
        /\ expired' = expired /\ settled' = settled
        BY <1>3 DEF Login
  <2>3. /\ logins' \in Logins /\ logins <= logins' /\ identity' # 0
        /\ token' \in 0 .. logins' /\ identity' \in 0 .. logins'
        BY <1>1, <2>2 DEF Logins
  <2>4. QED
        BY <1>2, <2>1, <2>2, <2>3, OpenedKeeps
<1>4. CASE Logout
  <2>1. /\ token' = 0 /\ identity' = 0 /\ ShowLogin(Orphans)
        /\ UNCHANGED <<logins, expired, settled>>
        BY <1>4 DEF Logout
  <2>2. token' \in 0 .. logins' /\ identity' \in 0 .. logins' /\ logins <= logins'
        BY <1>1, <2>1
  <2>3. QED
        BY <1>1, <2>1, <2>2, OrphansFit, OpenedKeeps
<1>5. CASE Reload
  <2>1. /\ << >> \in Seq(Request) /\ Len(<< >>) = 0
        /\ Len(<< >>) <= MaxRequests
        /\ \A i \in 1 .. Len(<< >>) :
              ~<< >>[i].live /\ RequestFits(<< >>[i], expired, identity)
    <3>1. << >> \in Seq(Request) /\ Len(<< >>) = 0
          BY EmptySeq
    <3>2. 1 .. Len(<< >>) = {} /\ Len(<< >>) <= MaxRequests
          BY <3>1, BrowserBounds
    <3>3. QED
          BY <3>1, <3>2
  <2>2. /\ identity # 0 /\ token' = token /\ identity' \in {0, token}
        /\ UNCHANGED <<logins, expired, settled>>
        /\ IF identity' = 0 THEN ShowLogin(<< >>) ELSE OpenAny(<< >>)
        BY <1>5 DEF Reload
  <2>3. /\ token' \in 0 .. logins' /\ identity' \in 0 .. logins'
        /\ logins' \in Logins /\ logins <= logins'
        BY <1>1, <2>2
  <2>4. expired = {} /\ identity' # 0 => token' = identity'
        BY <2>2
  <2>5. CASE identity' = 0
        BY <2>1, <2>2, <2>3, <2>4, <2>5, OpenedKeeps
  <2>6. CASE identity' # 0
        BY <2>1, <2>2, <2>3, <2>4, <2>6, OpenedKeeps
  <2>7. QED
        BY <2>5, <2>6
<1>6. CASE Navigate
  <2>1. /\ identity # 0 /\ token' = token /\ OpenAny(Orphans)
        /\ UNCHANGED <<logins, expired, identity, settled>>
        BY <1>6 DEF Navigate
  <2>2. /\ token' \in 0 .. logins' /\ identity' \in 0 .. logins' /\ logins <= logins'
        /\ token' \in {0, identity'} /\ identity' # 0
        /\ expired = {} => token' = identity'
        BY <1>1, <2>1 DEF IInv, Session, SignedInUntilExpiry
  <2>3. QED
        BY <1>1, <2>1, <2>2, OrphansFit, OpenedKeeps
<1>7. QED
      BY <1>3, <1>4, <1>5, <1>6

-----------------------------------------------------------------------------
(* The page.                                                               *)

(* A request is sent with the parameters the page has from now on: it is   *)
(* the last, and the one the page needs.                                   *)
LEMMA SendingKeeps ==
    ASSUME IInv, NEW q \in Questions, Ask(requests, token, q),
           Len(requests) < MaxRequests, question' = q, page # "login",
           result' = result, error' \in BOOLEAN,
           UNCHANGED <<sessionVars, page, settled>>
    PROVE  IInv'
<1> DEFINE n == Len(requests)
<1>1. /\ TypeOK /\ n \in Nat /\ requests \in Seq(Request)
      /\ DOMAIN requests = 1 .. n /\ token \in Logins /\ identity # 0
      /\ UNCHANGED <<logins, expired, token, identity>>
  <2>1. /\ TypeOK /\ token \in 0 .. logins /\ logins \in 0 .. MaxLogins
        /\ identity # 0 /\ UNCHANGED <<logins, expired, token, identity>>
        BY DEF IInv, TypeOK, Logins, sessionVars
  <2>2. token \in Logins
        BY <2>1, BrowserBounds DEF Logins
  <2>3. QED
        BY <2>1, <2>2, RequestsShape
<1>2. /\ requests' \in Seq(Request) /\ Len(requests') = n + 1
      /\ DOMAIN requests' = 1 .. n + 1
      /\ requests'[n + 1] = Asked(token, q)
      /\ \A i \in 1 .. n : requests'[i] = requests[i]
      BY <1>1, AskFacts
<1> HIDE DEF n
<1>3. /\ n + 1 \in DOMAIN requests' /\ requests'[n + 1].live
      /\ requests'[n + 1].q = q
      /\ \A i \in DOMAIN requests' : i \in 1 .. n \/ i = n + 1
      BY <1>1, <1>2 DEF Asked
<1>4. Len(requests') <= MaxRequests
      BY <1>1, <1>2, BrowserBounds DEF n
<1>5. TypeOK'
      BY <1>1, <1>2, <1>4 DEF TypeOK
<1>6. RequestFits(Asked(token, q), expired, identity)
      BY <1>1 DEF IInv, Session, SignedInUntilExpiry, RequestFits, Asked
<1>7. RequestsFit'
      BY <1>1, <1>2, <1>3, <1>6 DEF IInv, RequestsFit
<1>8. LastAsks'
  <2> SUFFICES ASSUME NEW i \in DOMAIN requests', requests'[i].live
               PROVE  \/ requests'[i].q = question' \/ requests'[i].late
                      \/ \E j \in DOMAIN requests' : j > i /\ requests'[j].live
      BY DEF LastAsks
  <2>1. CASE i = n + 1
        BY <1>3, <2>1
  <2>2. CASE i \in 1 .. n
    <3>1. n + 1 > i
          BY <1>1, <2>2
    <3>2. QED
          BY <1>3, <3>1
  <2>3. QED
        BY <1>3, <2>1, <2>2
<1>9. ShownIsTheAnswer' /\ Session' /\ SignedInUntilExpiry'
      BY <1>1, <1>3 DEF IInv, ShownIsTheAnswer, Session, SignedInUntilExpiry
<1>10. QED
      BY <1>5, <1>7, <1>8, <1>9 DEF IInv

LEMMA ChangeTermKeeps ==
    ASSUME IInv, ChangeTerm
    PROVE  IInv'
<1>1. PICK q \in Questions :
        /\ question' = q
        /\ IF Asks(page, q)
             THEN /\ Len(requests) < MaxRequests
                  /\ Ask(requests, token, q)
                  /\ error' = FALSE
                  /\ UNCHANGED result
             ELSE /\ result' = NoResult
                  /\ requests' = [i \in DOMAIN requests |->
                                    [requests[i] EXCEPT !.late = @ \/ requests[i].live]]
                  /\ UNCHANGED error
      BY DEF ChangeTerm
<1>2. page = "search" /\ UNCHANGED <<sessionVars, page, settled>>
      BY DEF ChangeTerm
<1>3. CASE Asks(page, q)
      BY <1>1, <1>2, <1>3, SendingKeeps
<1>4. CASE ~Asks(page, q)
  <2> DEFINE n == Len(requests)
  <2>1. /\ TypeOK /\ n \in Nat /\ DOMAIN requests = 1 .. n
        /\ \A i \in 1 .. n : requests[i] \in Request
        /\ UNCHANGED <<logins, expired, token, identity>>
        BY <1>2, RequestsShape DEF IInv, sessionVars
  <2> HIDE DEF n
  <2>2. ASSUME NEW i \in 1 .. n
        PROVE  LET r == [requests[i] EXCEPT !.late = @ \/ requests[i].live]
               IN  /\ r \in Request /\ r.who = requests[i].who
                   /\ r.answer = requests[i].answer /\ r.live = requests[i].live
                   /\ r.live => r.late
        BY <2>1 DEF Request
  <2>3. /\ requests' \in [1 .. n -> Request]
        /\ \A i \in 1 .. n :
              /\ requests'[i].who = requests[i].who
              /\ requests'[i].answer = requests[i].answer
              /\ requests'[i].live = requests[i].live
              /\ requests'[i].live => requests'[i].late
        BY <1>1, <1>4, <2>1, <2>2
  <2>4. requests' \in Seq(Request) /\ Len(requests') = n /\ DOMAIN requests' = 1 .. n
        BY <2>1, <2>3, SeqOfFunction
  <2>5. result' = NoResult /\ question' \in Questions /\ error' = error
        BY <1>1, <1>4
  <2>6. TypeOK'
        BY <1>2, <2>1, <2>4, <2>5, NoResultFacts DEF TypeOK, n
  <2>7. RequestsFit'
        BY <2>1, <2>3, <2>4 DEF IInv, RequestsFit, RequestFits
  <2>8. LastAsks'
        BY <2>3, <2>4 DEF LastAsks
  <2>9. Session' /\ ShownIsTheAnswer' /\ SignedInUntilExpiry'
        BY <2>1, <2>5 DEF IInv, Session, ShownIsTheAnswer, SignedInUntilExpiry
  <2>10. QED
        BY <2>6, <2>7, <2>8, <2>9 DEF IInv
<1>5. QED
      BY <1>3, <1>4

LEMMA PageKeeps ==
    ASSUME IInv, ChangeFilter \/ PollFires
    PROVE  IInv'
<1>1. question \in Questions /\ error \in BOOLEAN
      BY DEF IInv, TypeOK
<1>2. CASE ChangeFilter
      BY <1>1, <1>2, SendingKeeps DEF ChangeFilter
<1>3. CASE PollFires
      BY <1>1, <1>3, SendingKeeps DEF PollFires, PollQuestion, pageVars
<1>4. QED
      BY <1>2, <1>3

-----------------------------------------------------------------------------
(* Answers.                                                                *)

LEMMA ServeKeeps ==
    ASSUME IInv, NEW i, Serve(i)
    PROVE  IInv'
<1> DEFINE n == Len(requests)
<1>1. /\ TypeOK /\ n \in Nat /\ requests \in Seq(Request) /\ DOMAIN requests = 1 .. n
      /\ i \in 1 .. n /\ requests[i] \in Request
      /\ UNCHANGED <<sessionVars, pageVars, settled>>
      BY RequestsShape DEF IInv, Serve
<1>2. PICK a \in {"refused", "rows", "pending", "failed"} :
        /\ a = "refused" => requests[i].who \in expired \cup {0}
        /\ a \in {"rows", "pending"} => requests[i].who \notin expired \cup {0}
        /\ requests' = [requests EXCEPT ![i].answer = a]
      BY DEF Serve
<1> DEFINE r == [requests[i] EXCEPT !.answer = a]
<1>3. /\ r \in Request /\ r.answer = a /\ r.who = requests[i].who
      /\ r.q = requests[i].q /\ r.live = requests[i].live /\ r.late = requests[i].late
      BY <1>1 DEF Request
<1>4. requests' = [requests EXCEPT ![i] = r]
      BY <1>1, <1>2
<1> HIDE DEF r, n
<1>5. /\ requests' \in Seq(Request) /\ Len(requests') = n /\ DOMAIN requests' = 1 .. n
      /\ requests'[i] = r
      /\ \A j \in 1 .. n : j # i => requests'[j] = requests[j]
  <2>1. /\ requests' \in Seq(Request) /\ Len(requests') = n
        /\ \A j \in 1 .. n : requests'[j] = IF j = i THEN r ELSE requests[j]
        BY <1>1, <1>3, <1>4, ExceptSeq DEF n
  <2>2. QED
        BY <1>1, <2>1, LenProperties
<1>6. \A j \in 1 .. n : /\ requests'[j].who = requests[j].who
                        /\ requests'[j].q = requests[j].q
                        /\ requests'[j].live = requests[j].live
                        /\ requests'[j].late = requests[j].late
      BY <1>3, <1>5
<1>7. TypeOK'
  <2>1. UNCHANGED <<logins, expired, token, identity, page, question, result, error, settled>>
        BY <1>1 DEF sessionVars, pageVars
  <2>2. Len(requests') <= MaxRequests
        BY <1>1, <1>5 DEF TypeOK, n
  <2>3. page = "login" => \A j \in DOMAIN requests' : ~requests'[j].live
        BY <1>1, <1>5, <1>6 DEF TypeOK
  <2>4. QED
        BY <1>1, <1>5, <2>1, <2>2, <2>3 DEF TypeOK
<1>8. RequestsFit'
  <2>1. UNCHANGED <<expired, identity>>
        BY <1>1 DEF sessionVars
  <2>2. RequestFits(requests[i], expired, identity)
        BY <1>1 DEF IInv, RequestsFit
  <2>3. RequestFits(r, expired, identity)
        BY <1>2, <1>3, <2>2 DEF RequestFits
  <2>4. QED
        BY <1>1, <1>5, <2>1, <2>3 DEF IInv, RequestsFit
<1>9. LastAsks'
      BY <1>1, <1>5, <1>6 DEF IInv, LastAsks, pageVars
<1>10. Session' /\ ShownIsTheAnswer' /\ SignedInUntilExpiry'
      BY <1>1, <1>5, <1>6 DEF IInv, Session, ShownIsTheAnswer, SignedInUntilExpiry,
                              sessionVars, pageVars
<1>11. QED
      BY <1>7, <1>8, <1>9, <1>10 DEF IInv

(* What is left of the requests when the i-th has arrived: request j of    *)
(* them is request From(i, j) of before, late if it was overtaken.         *)
From(i, j) == IF j < i THEN j ELSE j + 1

LEMMA ArriveFacts ==
    ASSUME TypeOK, NEW i, Arrive(i)
    PROVE  /\ i \in 1 .. Len(requests) /\ Len(requests) \in Nat
           /\ requests' \in Seq(Request) /\ Len(requests') = Len(requests) - 1
           /\ DOMAIN requests' = 1 .. Len(requests) - 1
           /\ \A j \in 1 .. Len(requests) - 1 :
                 /\ From(i, j) \in 1 .. Len(requests) /\ From(i, j) # i
                 /\ requests'[j].who = requests[From(i, j)].who
                 /\ requests'[j].q = requests[From(i, j)].q
                 /\ requests'[j].answer = requests[From(i, j)].answer
                 /\ requests'[j].live = requests[From(i, j)].live
                 /\ requests[From(i, j)].late => requests'[j].late
                 /\ j < i /\ requests[i].live /\ requests[j].live => requests'[j].late
<1> DEFINE n == Len(requests)
<1>1. /\ n \in Nat /\ requests \in Seq(Request) /\ DOMAIN requests = 1 .. n
      /\ i \in 1 .. n /\ \A j \in 1 .. n : requests[j] \in Request
      /\ requests' = RemoveAt(Overtaken(i), i)
      BY RequestsShape DEF Arrive
<1> HIDE DEF n
<1> DEFINE s == Overtaken(i)
<1>2. s = [j \in 1 .. n |->
              [requests[j] EXCEPT !.late = @ \/ (j < i /\ requests[i].live /\ requests[j].live)]]
      BY <1>1 DEF Overtaken
<1>3. ASSUME NEW j \in 1 .. n
      PROVE  /\ s[j] \in Request /\ s[j].who = requests[j].who /\ s[j].q = requests[j].q
             /\ s[j].answer = requests[j].answer /\ s[j].live = requests[j].live
             /\ requests[j].late => s[j].late
             /\ j < i /\ requests[i].live /\ requests[j].live => s[j].late
  <2> DEFINE now == requests[j].late \/ (j < i /\ requests[i].live /\ requests[j].live)
             r == [requests[j] EXCEPT !.late = now]
  <2>1. s[j] = r
        BY <1>2
  <2>2. now \in BOOLEAN /\ requests[j] \in Request
        BY <1>1 DEF Request
  <2>3. /\ requests[j].late => now
        /\ j < i /\ requests[i].live /\ requests[j].live => now
        OBVIOUS
  <2> HIDE DEF now, s
  <2>4. /\ r \in Request /\ r.who = requests[j].who /\ r.q = requests[j].q
        /\ r.answer = requests[j].answer /\ r.live = requests[j].live /\ r.late = now
        BY <2>2 DEF Request
  <2> HIDE DEF r
  <2>5. QED
        BY <2>1, <2>3, <2>4
<1>4. s \in [1 .. n -> Request]
      BY <1>2, <1>3
<1>5. s \in Seq(Request) /\ Len(s) = n
      BY <1>1, <1>4, SeqOfFunction
<1> HIDE DEF s
<1>6. /\ requests' \in Seq(Request) /\ Len(requests') = n - 1
      /\ DOMAIN requests' = 1 .. n - 1
      /\ \A j \in 1 .. n - 1 : requests'[j] = IF j < i THEN s[j] ELSE s[j + 1]
      BY <1>1, <1>5, RemoveAtFacts DEF s
<1>7. ASSUME NEW j \in 1 .. n - 1
      PROVE  /\ From(i, j) \in 1 .. n /\ From(i, j) # i
             /\ requests'[j] = s[From(i, j)]
             /\ j < i => From(i, j) = j
  <2>1. /\ From(i, j) \in 1 .. n /\ From(i, j) # i /\ (j < i => From(i, j) = j)
        BY <1>1 DEF From
  <2>2. requests'[j] = s[From(i, j)]
        BY <1>6 DEF From
  <2>3. QED
        BY <2>1, <2>2
<1>8. QED
      BY <1>1, <1>3, <1>6, <1>7 DEF n

LEMMA OthersRemain ==
    ASSUME TypeOK, NEW i, Arrive(i), NEW m \in 1 .. Len(requests), m # i,
           requests[m].live
    PROVE  \E j \in DOMAIN requests' : requests'[j].live /\ From(i, j) = m
<1> DEFINE j == IF m < i THEN m ELSE m - 1
           n == Len(requests)
<1>1. n \in Nat /\ i \in 1 .. n /\ m \in 1 .. n
      BY ArriveFacts
<1> HIDE DEF n
<1>2. j \in 1 .. n - 1 /\ From(i, j) = m
      BY <1>1 DEF From
<1> HIDE DEF j
<1>3. j \in DOMAIN requests' /\ requests'[j].live
      BY <1>2, ArriveFacts DEF n
<1>4. QED
      BY <1>2, <1>3

LEMMA ArriveKeeps ==
    ASSUME IInv, NEW i, Arrive(i)
    PROVE  IInv'
<1> DEFINE n == Len(requests)
           r == requests[i]
<1>1. /\ TypeOK /\ n \in Nat /\ i \in 1 .. n /\ DOMAIN requests = 1 .. n
      /\ r \in Request /\ RequestFits(r, expired, identity)
      BY ArriveFacts, RequestsShape DEF IInv, RequestsFit
<1>2. /\ requests' \in Seq(Request) /\ Len(requests') = n - 1
      /\ DOMAIN requests' = 1 .. n - 1
      /\ \A j \in 1 .. n - 1 :
            /\ From(i, j) \in 1 .. n /\ From(i, j) # i
            /\ requests'[j].who = requests[From(i, j)].who
            /\ requests'[j].q = requests[From(i, j)].q
            /\ requests'[j].answer = requests[From(i, j)].answer
            /\ requests'[j].live = requests[From(i, j)].live
            /\ requests[From(i, j)].late => requests'[j].late
            /\ j < i /\ r.live /\ requests[j].live => requests'[j].late
      BY <1>1, ArriveFacts
<1>3. \A m \in 1 .. n : m # i /\ requests[m].live =>
          \E j \in DOMAIN requests' : requests'[j].live /\ From(i, j) = m
      BY <1>1, OthersRemain
<1>4. /\ UNCHANGED <<logins, expired, identity, page, question, settled>>
      /\ token' = IF r.answer = "refused" THEN 0 ELSE token
      /\ IF r.live THEN Show(r) ELSE UNCHANGED <<result, error>>
      BY DEF Arrive, ClearsToken
<1> HIDE DEF n, r
<1>5. /\ result' \in [who : Logins, q : Questions, pending : BOOLEAN, late : BOOLEAN]
      /\ error' \in BOOLEAN
  <2>1. CASE UNCHANGED <<result, error>>
        BY <1>1, <2>1 DEF TypeOK
  <2>2. CASE Show(r)
    <3>1. CASE /\ result' = [who |-> r.who, q |-> r.q, late |-> r.late,
                             pending |-> r.answer = "pending" /\ page = "documents"]
               /\ UNCHANGED error
          BY <1>1, <3>1 DEF TypeOK, Request
    <3>2. CASE error' = TRUE /\ result' \in {NoResult, result}
          BY <1>1, <3>2, NoResultFacts DEF TypeOK
    <3>3. QED
          BY <2>2, <3>1, <3>2 DEF Show
  <2>3. QED
        BY <1>4, <2>1, <2>2
<1>6. TypeOK'
  <2>1. token' \in 0 .. logins
        BY <1>1, <1>4, BrowserBounds DEF TypeOK, Logins
  <2>2. Len(requests') <= MaxRequests
        BY <1>1, <1>2, BrowserBounds DEF TypeOK, n
  <2>3. page = "login" => /\ result' = NoResult
                          /\ \A j \in DOMAIN requests' : ~requests'[j].live
    <3>1. page = "login" => \A m \in 1 .. n : ~requests[m].live
          BY <1>1 DEF TypeOK
    <3>2. page = "login" => result = NoResult /\ ~r.live
          BY <1>1, <3>1 DEF TypeOK, r
    <3>3. QED
          BY <1>2, <1>4, <3>1, <3>2
  <2>4. QED
        BY <1>1, <1>2, <1>4, <1>5, <2>1, <2>2, <2>3 DEF TypeOK
<1>7. RequestsFit'
  <2> SUFFICES ASSUME NEW j \in 1 .. n - 1
               PROVE  RequestFits(requests'[j], expired, identity)
      BY <1>2, <1>4 DEF RequestsFit
  <2>1. RequestFits(requests[From(i, j)], expired, identity)
        BY <1>1, <1>2 DEF IInv, RequestsFit
  <2>2. QED
        BY <1>2, <2>1 DEF RequestFits
<1>8. LastAsks'
  <2> SUFFICES ASSUME NEW j \in 1 .. n - 1, requests'[j].live
               PROVE  \/ requests'[j].q = question \/ requests'[j].late
                      \/ \E k \in DOMAIN requests' : k > j /\ requests'[k].live
      BY <1>2, <1>4 DEF LastAsks
  <2>1. PICK k \in 1 .. n : k = From(i, j) /\ k # i /\ requests[k].live
        BY <1>2
  <2>2. \/ requests[k].q = question \/ requests[k].late
        \/ \E m \in 1 .. n : m > k /\ requests[m].live
        BY <1>1, <2>1 DEF IInv, LastAsks
  <2>3. ASSUME NEW m \in 1 .. n, m > k, requests[m].live
        PROVE  \/ requests'[j].late
               \/ \E l \in DOMAIN requests' : l > j /\ requests'[l].live
    <3>1. CASE m = i
      <4>1. j < i /\ k = j
            BY <1>1, <2>1, <2>3, <3>1 DEF From
      <4>2. QED
            BY <1>2, <2>1, <2>3, <3>1, <4>1 DEF r
    <3>2. CASE m # i
      <4>1. PICK l \in DOMAIN requests' : requests'[l].live /\ From(i, l) = m
            BY <1>3, <2>3, <3>2
      <4>2. l > j
            BY <1>1, <1>2, <2>1, <2>3, <4>1 DEF From
      <4>3. QED
            BY <4>1, <4>2
    <3>3. QED
          BY <3>1, <3>2
  <2>4. QED
        BY <1>2, <2>1, <2>2, <2>3
<1>9. Session' /\ SignedInUntilExpiry'
  <2>1. token' \in {0, token} /\ (token' # token => expired # {})
        BY <1>1, <1>4 DEF RequestFits
  <2>2. QED
        BY <1>4, <2>1 DEF IInv, Session, SignedInUntilExpiry
<1>10. ShownIsTheAnswer'
  <2> SUFFICES ASSUME result' # NoResult
               PROVE  /\ result'.who = identity
                      /\ \/ result'.q = question \/ result'.late \/ error'
                         \/ \E j \in DOMAIN requests' : requests'[j].live
      BY <1>4 DEF ShownIsTheAnswer
  <2>1. CASE ~r.live
    <3>1. UNCHANGED <<result, error>>
          BY <1>4, <2>1
    <3>2. /\ result.who = identity
          /\ \/ result.q = question \/ result.late \/ error
             \/ \E m \in 1 .. n : requests[m].live
          BY <1>1, <3>1 DEF IInv, ShownIsTheAnswer
    <3>3. ASSUME NEW m \in 1 .. n, requests[m].live
          PROVE  \E j \in DOMAIN requests' : requests'[j].live
          BY <1>3, <2>1, <3>3 DEF r
    <3>4. QED
          BY <3>1, <3>2, <3>3
  <2>2. CASE r.live /\ r.answer \in {"rows", "pending"}
    <3>1. result'.who = r.who /\ result'.q = r.q /\ result'.late = r.late
          BY <1>4, <2>2 DEF Show
    <3>2. r.who = identity
          BY <1>1, <2>2 DEF RequestFits
    <3>3. \/ r.q = question \/ r.late
          \/ \E m \in 1 .. n : m > i /\ requests[m].live
          BY <1>1, <2>2 DEF IInv, LastAsks, r
    <3>4. ASSUME NEW m \in 1 .. n, m > i, requests[m].live
          PROVE  \E j \in DOMAIN requests' : requests'[j].live
          BY <1>1, <1>3, <3>4
    <3>5. QED
          BY <3>1, <3>2, <3>3, <3>4
  <2>3. CASE r.live /\ r.answer \notin {"rows", "pending"}
    <3>1. error' = TRUE /\ result' = result
          BY <1>4, <2>3 DEF Show
    <3>2. QED
          BY <3>1 DEF IInv, ShownIsTheAnswer
  <2>4. QED
        BY <2>1, <2>2, <2>3
<1>11. QED
      BY <1>6, <1>7, <1>8, <1>9, <1>10 DEF IInv

LEMMA NextKeepsIInv == IInv /\ [Next]_vars => IInv'
<1> SUFFICES ASSUME IInv, [Next]_vars
             PROVE  IInv'
    OBVIOUS
<1>1. CASE Login \/ Logout \/ Reload \/ Navigate
      BY <1>1, SessionKeeps
<1>2. CASE ChangeTerm
      BY <1>2, ChangeTermKeeps
<1>3. CASE ChangeFilter \/ PollFires
      BY <1>3, PageKeeps
<1>4. CASE \E i \in 1 .. MaxRequests : Serve(i) \/ Arrive(i)
      BY <1>4, ServeKeeps, ArriveKeeps
<1>5. CASE Expire
  <2>1. /\ expired' \in SUBSET (1 .. logins) /\ expired \subseteq expired'
        /\ expired' # {}
        /\ UNCHANGED <<logins, token, identity, pageVars, requests, settled>>
        BY <1>5 DEF Expire, IInv, TypeOK
  <2>2. TypeOK'
        BY <2>1 DEF IInv, TypeOK, pageVars
  <2>3. RequestsFit'
        BY <2>1 DEF IInv, RequestsFit, RequestFits
  <2>4. Session' /\ LastAsks' /\ ShownIsTheAnswer' /\ SignedInUntilExpiry'
        BY <2>1 DEF IInv, Session, LastAsks, ShownIsTheAnswer, SignedInUntilExpiry,
                    pageVars
  <2>5. QED
        BY <2>2, <2>3, <2>4 DEF IInv
<1>6. CASE Settle \/ UNCHANGED vars
  <2>1. /\ UNCHANGED <<logins, expired, token, identity, page, question, result,
                       error, requests>>
        /\ settled' \in BOOLEAN
        BY <1>6 DEF Settle, vars, sessionVars, pageVars, IInv, TypeOK
  <2>2. TypeOK'
        BY <2>1 DEF IInv, TypeOK
  <2>3. QED
        BY <2>1, <2>2 DEF IInv, RequestsFit, Session, LastAsks, ShownIsTheAnswer,
                          SignedInUntilExpiry
<1>7. QED
      BY <1>1, <1>2, <1>3, <1>4, <1>5, <1>6 DEF Next

(* What a request on its way carries, and what the page shows, stay those  *)
(* of the page, the session and the token that sent it (request, useState).*)
THEOREM InductiveInvariant == Spec => []IInv
    BY InitIInv, NextKeepsIInv, PTL DEF Spec

(* The header names a user exactly while a page other than the login is    *)
(* up, and the login page shows nothing and waits for nothing of a user    *)
(* who has left (AuthContext, the unmounted pages).                        *)
THEOREM Typing == Spec => []TypeOK
    BY InductiveInvariant, PTL DEF IInv

(* In whatever order answers arrive, after whatever logouts, logins,       *)
(* reloads and changes of the parameters: no page shows rows fetched for   *)
(* another user, and what it shows answers the parameters it has, unless   *)
(* an error is shown beside it, an answer is still on its way, or it was   *)
(* overtaken (run, load).                                                  *)
THEOREM PagesShowTheirAnswer == Spec => []ShownIsTheAnswer
    BY InductiveInvariant, PTL DEF IInv

(* No answer signs anybody out before a token has expired, though request  *)
(* clears the token of now and not the one it was sent with: a refusal     *)
(* needs a request without a token, or an expired one (client.ts).         *)
THEOREM NobodyIsSignedOut == Spec => []SignedInUntilExpiry
    BY InductiveInvariant, PTL DEF IInv
=============================================================================
