--------------------------- MODULE DocumentStore ---------------------------
(***************************************************************************)
(* The source of truth: the Postgres document rows with their outbox rows, *)
(* and the raw objects in S3, as the API's write path (index_service) and  *)
(* its soft delete (document_service) change them.  Every action is one    *)
(* transaction or one S3 call of a request; requests of many users, on     *)
(* many API threads, interleave between them.                              *)
(***************************************************************************)
EXTENDS Naturals, Sequences

CONSTANTS
    Docs,        \* document ids; the API mints a fresh uuid per request
    Contents,    \* the kinds of content users submit, a subset of AllContents
    MaxVersion   \* bound: a row is soft-deleted only below this version

\* "inline"  : a body below the threshold, kept in the row
\* "text"    : an object in S3, and extraction.extract returns text
\* "scan"    : it raises NeedsOCR or UnsupportedType
\* "corrupt" : it raises anything else (python-docx on a broken zip)
AllContents == {"inline", "text", "scan", "corrupt"}

ASSUME ContentsAssumption == Contents \subseteq AllContents
ASSUME VersionAssumption == MaxVersion \in Nat /\ MaxVersion >= 1

VARIABLES
    row,         \* the documents table; ABSENT where there is no row
    raw,         \* what S3 holds under {tenant}/{doc}/raw
    uploading,   \* requests whose bytes are in S3 and whose row is not yet
    outbox       \* index_outbox in seq order, entries are events

storeVars == <<row, raw, uploading, outbox>>

Statuses == {"ABSENT", "PENDING", "LIVE", "FAILED", "DELETED"}
Row == [status : Statuses, ver : Nat, body : {"none", "inline", "s3"}]
Event == [doc : Docs, op : {"UPSERT", "DELETE"}, ver : Nat]

NoRow == [status |-> "ABSENT", ver |-> 0, body |-> "none"]

StoreTypeOK ==
    /\ row \in [Docs -> Row]
    /\ raw \in [Docs -> (AllContents \ {"inline"}) \cup {"none"}]
    /\ uploading \in SUBSET Docs
    /\ outbox \in Seq(Event)

StoreInit ==
    /\ row = [d \in Docs |-> NoRow]
    /\ raw = [d \in Docs |-> "none"]
    /\ uploading = {}
    /\ outbox = << >>

-----------------------------------------------------------------------------
(* Plausible bugs, used only to show that a property can fail.             *)

CreateWithoutOutbox(d, body) ==
    /\ row' = [row EXCEPT ![d] =
                 [status |-> "PENDING", ver |-> 1, body |-> body]]
    /\ UNCHANGED outbox

DeleteWithoutVersionBump(d) ==
    /\ row' = [row EXCEPT ![d].status = "DELETED"]
    /\ outbox' = Append(outbox, [doc |-> d, op |-> "DELETE", ver |-> row[d].ver])

RowBeforeBlob(d) == raw[d] = "none" /\ row[d] = NoRow

-----------------------------------------------------------------------------
(* create_with_outbox: the row, PENDING at version 1, and its UPSERT event *)
(* commit in one transaction.                                              *)
CreateWithOutbox(d, body) ==
    /\ row' = [row EXCEPT ![d] =
                 [status |-> "PENDING", ver |-> 1, body |-> body]]
    /\ outbox' = Append(outbox, [doc |-> d, op |-> "UPSERT", ver |-> 1])

(* An id is minted once: no row and no object carries it yet.              *)
Fresh(d) == row[d] = NoRow /\ raw[d] = "none"

(* index_document below the threshold: the body travels in the row.        *)
IndexInline(d) ==
    /\ "inline" \in Contents
    /\ Fresh(d)
    /\ CreateWithOutbox(d, "inline")
    /\ UNCHANGED <<raw, uploading>>

(* index_upload, and index_document above the threshold: first the bytes...*)
PutRaw(d) ==
    /\ Fresh(d)
    /\ \E c \in Contents \ {"inline"} : raw' = [raw EXCEPT ![d] = c]
    /\ uploading' = uploading \cup {d}
    /\ UNCHANGED <<row, outbox>>

(* ...whose landing is what the insert waits for...                        *)
BytesLanded(d) == d \in uploading

(* ...then the row that points at them.                                    *)
InsertRow(d) ==
    /\ BytesLanded(d)
    /\ CreateWithOutbox(d, "s3")
    /\ uploading' = uploading \ {d}
    /\ UNCHANGED raw

(* The API worker dies, or Postgres refuses the insert, between the two:   *)
(* an orphan object stays behind.                                          *)
UploadAborts(d) ==
    /\ d \in uploading
    /\ uploading' = uploading \ {d}
    /\ UNCHANGED <<row, raw, outbox>>

(* The transaction body of soft_delete.                                    *)
DeleteWithOutbox(d) ==
    /\ row' = [row EXCEPT ![d].status = "DELETED", ![d].ver = @ + 1]
    /\ outbox' = Append(outbox,
                   [doc |-> d, op |-> "DELETE", ver |-> row[d].ver + 1])

(* soft_delete: FOR UPDATE on a row that is not DELETED; no such row is a  *)
(* 404 that changes nothing.                                               *)
SoftDelete(d) ==
    /\ row[d].status \notin {"ABSENT", "DELETED"}
    /\ row[d].ver < MaxVersion
    /\ DeleteWithOutbox(d)
    /\ UNCHANGED <<raw, uploading>>

StoreNext ==
    \E d \in Docs : \/ IndexInline(d)
                    \/ PutRaw(d)
                    \/ InsertRow(d)
                    \/ UploadAborts(d)
                    \/ SoftDelete(d)

-----------------------------------------------------------------------------
(* What the write path promises.                                           *)

(* The row and its outbox entry commit together: every version a row has   *)
(* ever had owns exactly one event, the events of a document are queued in *)
(* version order, and no event runs ahead of its row                       *)
(* (create_with_outbox, soft_delete).                                      *)
EveryVersionHasItsEvent ==
    /\ \A i \in DOMAIN outbox : outbox[i].ver \in 1 .. row[outbox[i].doc].ver
    /\ \A i, j \in DOMAIN outbox :
          i < j /\ outbox[i].doc = outbox[j].doc => outbox[i].ver < outbox[j].ver
    /\ \A d \in Docs : \A v \in 1 .. row[d].ver :
          \E i \in DOMAIN outbox : outbox[i].doc = d /\ outbox[i].ver = v

(* S3 lands before the row, so a row never points at bytes that are not    *)
(* there, whatever becomes of the request that wrote them (index_upload,   *)
(* index_document).                                                        *)
RowPointsAtBytes ==
    \A d \in Docs : row[d].body = "s3" => raw[d] # "none"
=============================================================================
