# Verification of the document search

TLA+ models of the distributed document search in `src/`, the TLC runs that
check them on small instances, and TLAPS proofs of what matters most. A reader
needs the repository and this directory, nothing else.

    tlc -workers 4 -config MCIndexPipeline_calm.cfg MCIndexPipeline   # a run
    tlapm IndexPipeline_proofs.tla                                     # the proofs

1. [The system](#1-the-system)
2. [The modules](#2-the-modules)
3. [The runs](#3-the-runs)
4. [What the code does not do](#4-what-the-code-does-not-do)
5. [Fairness](#5-fairness)
6. [The proofs](#6-the-proofs)
7. [Abstractions and what is not modelled](#7-abstractions-and-what-is-not-modelled)
8. [The plan](#8-the-plan)

## 1. The system

A user's request enters through the gateway, which authenticates and counts it
and proxies it to the API. The API writes documents to Postgres (small bodies,
metadata, status) and S3 (large bodies, uploads), and in the same transaction an
outbox entry. The indexer moves outbox entries to Kafka (relay thread) and from
Kafka to Elasticsearch (consumer thread), writes the document's status back and
increments the tenant's cache version in Redis. Searches read Elasticsearch
through two caches. A page of the frontend polls a document until it is LIVE.

| component | state | operations | hard because | correct when |
| --- | --- | --- | --- | --- |
| Write path (`index_service`) | `documents`, `index_outbox`, S3 `/raw` | create from text, create from upload | two stores, one transaction; a request may die between them | a row has its outbox entry and its bytes |
| Soft delete (`document_service`) | status and version of the row, outbox | `soft_delete` | races with indexing | downstream hears of every deletion |
| Outbox relay (`indexer`) | `published_at`, the batch in memory | claim, commit, publish | several relays, crashes, failing and repeated publishes | everything stamped reaches the topic, once, in order |
| Index consumer (`indexer`) | offsets, retries, `/text` in S3, Elasticsearch, status, dead letters | poll, handle, retry, dead-letter, commit | at-least-once delivery, a row that changes while it works, a crash between any two calls, partitions that go to another consumer | the index follows the rows; nothing is forgotten or resurrected; nothing stays PENDING |
| Search (`search_service`) | L1 per process, L2 and `inv:{tenant}` in Redis | search | several caches, a version read at the start of a request, a Redis that may forget | nobody gets another's, or an outdated, answer |
| Document reads (`document_service`) | none | get with progress, list, presigned link | two transactions for one answer; pages and sizes of a list | the progress shown is a state the document was in; the pages of the list are its rows |
| Gateway: login, keys, tenants | keypair in memory, key caches of the API, `tenants.status` | login, verify, look up the tenant | keys die with the process; tokens outlive suspensions | valid requests pass, suspended tenants do nothing |
| Gateway: rate limit | `rl:{tenant}:{minute}` in Redis | check | concurrent workers, the turn of the minute | each tenant has its own limit |
| Gateway: proxy | its threads | forward, time out | waits for an API that waits for it | every request is answered, and truthfully |
| Text extraction (`indexer`) | none | extract | anything may be raised | a bad file ends FAILED and blocks nobody |
| Frontend, a document's page | the document shown, timers | load, poll, reveal | overlapping polls, timers restarted by answers | it ends on what the server says |
| Frontend, other pages, session | token, identity, parameters, results | log in, log out, reload, search, list, poll | answers out of order, after the page, the session or the token is gone | what is shown was asked by who is signed in, and answers the question on the page |
| Bootstrap | schema, seeds, index, bucket | look, create if missing | three services start at once, and again whenever one dies | all of them come up, with what they use, and undo nothing |
| Health, metrics, logging | counters | report | | no protocol depends on it |
| Deployment | `docker-compose.yml` | restart policy, threads | | |

The hazards of this code, each at its line with the properties that cover it,
are the `hazards` of `PROJECT.json`; the properties below were chosen for them.

## 2. The modules

    DocumentStore          Postgres rows, outbox, S3, as the API writes them
      OutboxRelay          + relay threads, Kafka's partition logs
        IndexPipeline      + consumer thread, Elasticsearch, dead letters, cache versions
          ConsumerGroup    + members that lose, keep writing for, and take over partitions
    VersionedReplica       what the index promises; IndexPipeline and ConsumerGroup refine it
    SearchCache            L1, L2, versions, refresh, time
    RequestPath            gateway, rate limit, proxy, keys, the API's checks
    DocumentView           progress of a document and the page that polls it
    Browser                session, search page and list of one tab
    Paging                 the arithmetic of the list
    Bootstrap              services that create what they need as they start

The theorems about `M` are in `M_proofs`, for `IndexPipeline` (with what it
extends), `ConsumerGroup`, `SearchCache`, `RequestPath`, `DocumentView`,
`Browser`, `Paging` and `Bootstrap`. `ConsumerGroup_proofs` extends
`IndexPipeline_proofs` and cites its lemmas.

The pipeline modules extend each other: each adds variables and actions and
keeps the ones below. `MC*.tla` name the model values and give functions such as
`PartitionOf` their values; `Bootstrap` needs none.

**DocumentStore.** `row[d]` is the document's row (`ABSENT` before the insert),
`raw[d]` what S3 holds under `{tenant}/{doc}/raw`, `uploading` the requests
between `s3.put` and the insert, `outbox` the table in `seq` order. Actions:
`IndexInline`, `PutRaw`, `InsertRow`, `UploadAborts`, `SoftDelete`. The content
of a document is one of four kinds that the pipeline treats differently: inline
text, an object that extracts, one that raises `NeedsOCR` or `UnsupportedType`
(`scan`), one on which extraction raises anything else (`corrupt`).

**OutboxRelay.** `claim_unpublished` is two actions, the locking `SELECT`
(`SelectUnpublished`) and the commit of the stamp (`CommitClaim`), and
`drain_once` is one `Publish` per event. Failing calls are actions of their own
(`PublishRaises`, `ClaimRaises`; `Publish` may append a record twice), each
spending one of `MaxFaults`; `RelayCrash` spends one of `MaxCrashes`. A publish
that times out leaves its record with the producer: it is in `late` until it
arrives (`LateLands`), at any later moment and more than once if
acknowledgements are lost, or until the producer gives it up (`LateExpires`).

**IndexPipeline.** `step` says which call the consumer thread makes next:
`begin` is the branch of `handle` on operation and status, `body`, `index`,
`mark_live`, `delete`, `invalidate`, `mark_failed` its calls, `dlq_mark` and
`dlq_publish` those of `_dead_letter`, `commit` the commit after a partition,
`dead` a thread that an exception ended (`ThreadDies`: in `poll`, in
`_dead_letter`, in `commit`). `position`, `done` and `committed` are
the consumer's offsets. `target` is the version read before a slow extraction
and written after it. `es[d]` is Elasticsearch under external versioning, a
tombstone included; `ForgetTombstone` is `index.gc_deletes`. `unbumped` records
tenants whose index changed since their last INCR.

**ConsumerGroup.** The consumer of `IndexPipeline` is the thread of `owner`;
`former[m]` is what the thread of any other member is at. `Evict` is the
heartbeat thread that leaves the group when `max_poll_interval_ms` has passed
since the last poll, and gives the partitions to another member, which resumes at
the committed offsets. The former owner goes on with every call of `handle`,
`_dead_letter` and `loop` (`Former*`), on the same rows, bodies and index, until
its `commit` raises. `TakeOver` is the same after a thread has ended, and
`ProcessDies` a process that is restarted. Each of them but `TakeOver` spends one
of `MaxLosses`. `outlived` records the documents whose tombstone Elasticsearch
forgot while a former owner was between reading the row and indexing it
(`Extracting`); nothing in the code prevents that, and no guard of the model
does. A crash of the owner is `ProcessDies` here, so `MaxCrashes` is 0
in these runs.

**VersionedReplica.** The abstract specification of the index: per document, a
copy that moves forwards to versions the table has reached, is findable at
version 1 only, and may forget the version of a deletion.

**SearchCache.** `req[w]` is the request of API thread `w`, whose phase names the
call it makes next. An answer is abstracted to whom and which question it
answers and how many changes of the index it saw. `applied`, `visible` and
`owed` stand for the indexer and for Elasticsearch's refresh. Time is ticks:
entries of L1 count down (the strict comparison of `_l1_get` gives an entry
`L1TTL + 1` ticks), entries of L2 count up.

**RequestPath.** `gate[r]` and `api[r]` are where the gateway and the API stand
with request `r`. A request occupies one of `GatewayThreads` from `_before` to
its reply; `FetchKeys`, the API's call for the key set, needs one too. A key is
its generation: `GatewayRestarts` makes the next one. `expired` holds the requests
whose token is out of date, which gateway and API check separately. `TimeOut`
replies 503 and leaves the API at work. A `check` of the rate limit that raises
may have counted the request (`GatewayRaises`).

**DocumentView.** The server side is reduced to what `fetch` can see of a
document: its status, whether its latest outbox entry is stamped, and a consumer
that may mark it late. `fetch[f]` is a request of the page, with what it still
has to read; `page`, `paced` and `revealed` are the state of the component and
of its hook.

**Browser.** A login is its number, and so is its token. `token` is what
localStorage holds, `identity` what the header shows: they are set together and
cleared apart, because a 401 clears the token only. `requests` are on their way
in the order they were sent, each with the token of that moment, its parameters,
and whether the page that asked is still there (`live`); React drops what arrives
for a page that is not. `late` marks an answer that a later one has overtaken.

**Paging.** `Rows` is what the server selects for a page; `Pages`, `First`,
`Last` and `ChangeSize` are what the list computes in the browser. There is no
state; `MCBrowser` evaluates the four properties on small lists and
`Paging_proofs` proves them.

**Bootstrap.** `stage[s]` is the thing service `s` ensures at the moment, and
`missed` the services that looked and did not find it. `Create` inserts it or,
when another was faster, raises; the process dies and `Start` is Docker's
`restart: unless-stopped`. `Recreate` makes the containers anew: Elasticsearch
has no volume.

## 3. The runs

Runs that pass (distinct states in brackets):

| run | what it shows |
| --- | --- |
| `MCIndexPipeline_calm` (584,000) | Two documents of two tenants in two partitions, all kinds of content, deletions at any moment, nothing failing. The topic is in version order, a LIVE document nobody deleted is findable, each change of the index is followed by its INCR, extracted text is kept. |
| `MCIndexPipeline_redelivery` (590,000) | One document, two indexers, two failing calls, two crashes. Versions reach 3, because the late `mark_live` lets a user delete a document twice, and records arrive late. No version goes without its event, nothing is relayed twice without cause, a deleted document still findable is owed a deletion, nothing is resurrected, every FAILED has its reason. |
| `MCConsumerGroup_group` (160,000) | Two indexers, one of which loses its partitions, by slowness, an exception or a crash, and may go on writing for longer than Elasticsearch remembers a deletion. Offsets cover handled records, the index implements `VersionedReplica`, every document settles, every deletion takes effect while a consumer is left, and a deleted document comes back only when a former owner outlived its tombstone. |
| `MCSearchCache_answers` (1,050,000) | Two tenants, two threads, one lost Redis: answers belong to their question; an INCR retires what came before it unless Redis lost its counters; no answer is older than both TTLs; L1 is bounded. |
| `MCRequestPath_requests` (143,000) | Three requests of two tenants, two gateway threads, and one event: a restart, a suspension, an expiry or the turn of the minute. Suspended tenants do nothing, current tokens are never refused, limits are the tenant's own, replies are true, everybody is answered. |
| `MCDocumentView_page` (11,000) | Overlapping polls with torn reads and answers in any order: a failure is shown at its stage, page and stepper end on the final state or on an error. |
| `MCBrowser_session` (95,000) | Two users one after the other in one tab, two requests on their way, tokens that expire. What is shown was asked by who is signed in and answers the page's question once nothing is on its way; nobody is signed out before an expiry; a list does not stay on PENDING. As an assumption TLC evaluates: the properties of `Paging` for lists of up to 9 rows and sizes up to 4. |
| `Bootstrap_starts` (20,000) | Three services that start, race, fail, die and are recreated. Whoever serves has what it uses, no start changes a tenant's status, all end up serving. |

The bounds, and why they are enough:

- *Documents, partitions, tenants: two each* where they interact (`calm`): the
  pairs a mistake needs are there (two keys, two partitions in one poll, two
  counters). Failures need one document and interleave far more, so
  `redelivery` has one.
- `MaxVersion` 2 or 3 bounds deletions of one document. 2 is every document's
  normal end; 3 is reached only through the race on the status.
- `MaxFaults`, `MaxCrashes`, `MaxLosses`, `MaxStops`, `MaxEvents` bound failures
  in a behaviour, not when they happen. With two faults and two crashes
  (`redelivery`) a failure during the recovery from another is covered.
  `MaxLosses` is 1: that is two threads on one partition, and a thread that lost
  it meets nobody but the new owner.
- `ConsumerGroup` gives all partitions to one member. A record's key is its
  document, so members that own different partitions share nothing; who shares
  a partition is a former owner and the owner of it.
- What a run leaves out on purpose is in another configuration: `calm` has no
  failures and one relay, so that its properties hold, and `late`, `two` and
  `retry` refute them with one failure or a second relay (section 4).
- Two questions, two logins, two requests (`Browser`): an answer to another
  question, of another user, and one overtaken by another. `MaxRequests` also
  stops the interval while two polls are out.
  `MaxAttempts` is 2 (3 in the code) and `RelayBatch`, `MaxPoll` are 2 (100):
  one retry before the last attempt, batches that are full and batches that are
  not.
- In the runs with crashes or losses all records are in one partition. With two, a crash
  between the commits of two partitions loses records (section 4), and with it
  every promise about what is owed.
- `L1TTL` 1, `L2TTL` 2, `L1Size` 0: the shortest that tell the two caches, an
  expired entry and an entry past the size check apart. One process suffices
  because another would reach the same caches of its own only through Redis.
- `GatewayThreads` 2 against three requests: all threads can wait at once.
  `Limit` 1 against two requests of one tenant: the limit is reached.
- `CHECK_DEADLOCK FALSE` everywhere: the systems legitimately stop when every
  document is handled, every request answered or every budget spent.

Each property of each passing run is also checked against a mutant of the model, a
plausible bug such as a missing lock, a key without the tenant or a swapped pair
of reads, and fails there. The operators are in each module under "Plausible
bugs".

## 4. What the code does not do

TLC finds behaviours of the code that a comment or document of the repository
excludes. Four runs are expected to fail with one, and the `findings` of
`PROJECT.json` quote what they contradict:

- `MCOutboxRelay_kafka_down`. `claim_unpublished` commits `published_at` before
  `drain_once` publishes. A publish that raises drops the rest of the batch: it
  is stamped and nobody will select it again. The same happens to a relay that
  dies there (`MaxFaults = 0`, `MaxCrashes = 1`).
- `MCIndexPipeline_live_means`. `mark` updates a row whatever its status. A user
  deletes a document while it is being indexed, `mark_live` turns DELETED into
  LIVE, the deletion removes the copy: the row is LIVE for ever and no search
  finds it. (`mark_failed` does the same with FAILED.)
- `MCIndexPipeline_commit`. `consumer.commit()` stands inside the loop over the
  partitions of a poll and commits the position of all of them.
- `MCConsumerGroup_slow`. A consumer that has not polled for
  `max_poll_interval_ms` has left the group when it commits. `commit` raises,
  nothing catches it, the thread ends, and the process lives on without it and is
  not restarted. With one indexer, documents stay PENDING. What `poll` or
  `_dead_letter` raises ends the thread in the same way (`ThreadDies`).

Eight more configurations, which are kept beside the runs, end in a violation of
the property named with them:

- `MCConsumerGroup_tombstone`. A deleted document comes back for good. An owner
  extracts until it is evicted, the next owner applies the deletion, Elasticsearch
  forgets the tombstone after `index.gc_deletes` (one minute, which `elastic.py`
  does not raise), and the former owner then indexes version 1
  (`NoResurrection`), against "ES itself rejects a stale event"
  (`consumer.py:101`). `DeletedDisappears` and `ReturnsOnlyIfOutlived` name this
  as the exception (`outlived`), and show that it is the only one besides a dead
  letter, a lost event and an empty group.
- `MCOutboxRelay_two`. Two relays may publish a DELETE before its UPSERT: one
  holds the batch with the UPSERT, the other claims and publishes the next
  (`LogInVersionOrder`), against "an UPSERT can never overtake the DELETE after
  it" (`relay.py:24`).
- `MCOutboxRelay_late`. One relay may as well: `.get(timeout=10)` raises, the
  DELETE is published with the next batch, and the producer, which nobody asked
  to forget the UPSERT, delivers it then (`LogInVersionOrder` again). After both,
  the index stays right because `handle` re-reads the row: `redelivery` runs with
  two relays and late records.
- `MCIndexPipeline_retry`. INCR fails after `mark_live`. The retry finds LIVE and
  returns, the record counts as applied, and cached searches are not
  retired (`CachedSearchesRetired`), against "One INCR retires every cached query"
  (`consumer.py:123`).
- `MCIndexPipeline_unlettered`. A crash between `mark_failed` and the publish to
  the dead-letter topic leaves a FAILED document without a dead letter: the
  redelivered record is skipped (`FailureIsLettered`), against "only after the
  batch is applied or dead-lettered" (`consumer.py:153`). `FailureIsExplained`,
  which holds, allows for a crash (`crashes > 0`).
- `MCDocumentView_deleted`. A document that failed is deleted between the two
  reads of a load, its latest outbox entry is then the DELETE, not stamped yet,
  and the failure is shown at the stage "queued" (`EveryFailureAtItsStage`),
  against "A failure marks the stage it stopped at"
  (`managers/documents.py:20-21`). `FailureAtItsStage`, which holds, is about
  documents nobody deleted.
- `MCBrowser_overtaken`. An answer that overtakes a later one stays on the
  screen, on the search page and on the list (`ShownIsTheUrls`; `late` in
  `ShownIsTheAnswer`), against "keeps the url shareable" (`SearchPage.tsx:45`).
- `MCBrowser_refused`. A 401 clears the token of now, not the one it refused: the
  answer to a request of before signs out who has just signed in. The identity
  stays in the header until a reload, and every request from then on is refused
  (`ShownTenantHasItsToken`), against "The tenant shown here is decoded from it"
  (`AuthContext.tsx:21-22`). `SignedInUntilExpiry`, which holds, assumes that
  nothing expired.

Another that a module shows when the checked property is changed:

- *A search is stale for a minute.* INCR precedes Elasticsearch's refresh, so a
  search in between caches the old result under the new version, for the 60 s of
  Redis, against the five of `DESIGN.md:373`: `StaleFiveSeconds` in
  `MCSearchCache_answers`. `AgeBounded` is the bound that does hold.

And some that the models contain, and properties allow for:

- A request that got 503 may be stored later (`RepliesAreTrue` allows it for
  failures only); a user who retries creates a second document.
- The stepper's timer (550 ms) is restarted by every answer of a poll (400 ms):
  after the first stage, it moves only once polling has stopped.
- An error on the list hides the list and its controls, and nothing clears it
  (`error` in `ListSettles`); a poll of the page of a document likewise.
- When documents disappear while somebody is on the last page of the list, the
  page shown lies behind the end, empty, below a total that is not zero. The
  theorems on `Paging` are about pages that exist.
- Services that start on an empty deployment race, and the loser dies and is
  started again: "safe to run on every service start" (`bootstrap.py`) holds
  through Docker's restart policy. Seeds an operator deletes come back with the
  next start.
- Elasticsearch has no volume. When only its container is recreated under a
  running indexer, nobody calls `ensure_index` and the first document creates an
  index without the mapping; `Bootstrap` recreates all containers together. In
  either case nothing fills the new index again.

## 5. Fairness

- **IndexPipeline.** Weak fairness of each relay thread's normal steps and of
  the consumer thread's: both loop for ever and Postgres, Kafka and
  Elasticsearch answer or raise within timeouts. The producer's `LateStep` is
  fair too: it delivers a record or gives it up after its own timeouts and
  retries; which of the two is open. No fairness of users, failures,
  crashes or `ForgetTombstone`. A dead consumer thread never steps again.
- **ConsumerGroup.** The same, and weak fairness of a former owner's thread,
  which loops like any other, and of `TakeOver`: the group's coordinator notices
  a member that has stopped polling. Evictions, crashes and failing calls are not
  fair. `EveryPendingSettles` and `DeletedDisappears` except a group in which
  nobody is left, for good (`[]NobodyLeft`), and what the relay or the dead-letter
  topic took, and `DeletedDisappears` a document whose tombstone a former owner
  outlived; `NothingPendingForever` excepts nothing and is refuted.
- **RequestPath.** Weak fairness of each request's steps in the gateway and in
  the API. `TimeOut` is among them: a timeout that is set expires. That the key
  endpoint answers is not assumed beyond a free thread. Nobody has to send.
- **DocumentView.** Weak fairness of each request's progress and of the
  interval. `RevealFires` is fair only once polling has stopped, for the reason
  given in section 4. That the server ever settles a document is not
  assumed here; it is what `EveryPendingSettles` shows.
- **Browser.** Weak fairness of the server's answer to each request, of the
  arrival of the oldest, of the interval, and of `Settle`: the pipeline settles
  documents, which `EveryPendingSettles` shows. Users need not do anything.
- **Bootstrap.** Weak fairness of each service's start (Docker), look and
  creation (the stores answer or refuse). Failures, deaths and the operator are
  bounded and not fair.
- **SearchCache** checks safety only.

## 6. The proofs

Every invariant, action property and refinement that a passing run checks is
also a theorem, and so is `StampedIsRelayed`, for every number of documents, partitions, tenants, processes,
threads, requests, questions and logins, every limit, lifetime and batch size,
and every number of failures, crashes and losses; only the services and things of
`Bootstrap` are the ones it names. Some have hypotheses, which
are listed with them and which the code needs: section 4 names the behaviours
without them. The bounds that cap unbounded counters (`MaxVersion`, `MaxEvents`,
`MaxChanges`, ...) are arbitrary numbers in the proofs.

Assumed is what the modules assume of their constants: that limits are numbers,
positive where the code divides or loops by them; that there is a partition, an
API process, a gateway thread; that each document, request and thread has its
tenant, partition and process; and, for the cardinalities of `SearchCache`, that
the threads of the API are finitely many (gunicorn's are).

Few of these properties are inductive. Below, for each module, the theorems and
the invariant they rest on.

### The pipeline: `IndexPipeline_proofs`

| theorem | property | provided |
| --- | --- | --- |
| `TypeInvariant`, `TypeCorrect` | `TypeOK`; `committed`, `done` <= `position` <= the end of the log | |
| `InductiveInvariant` | `IInv`, below | |
| `OutboxComplete` | `EveryVersionHasItsEvent` | |
| `BytesBeforeRow` | `RowPointsAtBytes` | |
| `PipelineImplementsReplica` | `ImplementsReplica` | |
| `DeletedStayDeleted` | `NoResurrection` | |
| `SearchInvariant`, `LiveMeansIndexed`, `TextIsKept` | `LiveIsSearchable`, `ReindexFindsText` | |
| `FailuresAreExplained` | `FailureIsExplained` | |
| `EventsAreRelayedOnce` | `NoEventRelayedTwice` | |
| `StampsAreKept` | `StampedIsRelayed` | nothing has failed (`Calm`) |
| `ChangesRetireSearches` | `CachedSearchesRetired` | nothing has failed (`Calm`) |
| `OneRelayKeepsOrder` | `LogInVersionOrder` | one relay, which publishes nothing while a record it gave up may still arrive (`[]WaitsForLate`) |
| `OnePartitionCommits` | `CommittedIsHandled` | one partition |
| `StaleCopiesAreOwed` | `StaleCopyIsOwed` | no restart finds `committed` ahead of `done` |
| `OnePartitionOwesStaleCopies` | `StaleCopyIsOwed` | one partition |

`Calm` says that no call has failed and no process has crashed so far: one of
either may lose a claimed batch or an INCR. The passing runs that check these
properties are of that kind too (`calm` has no faults and one relay, `redelivery`
one partition); `StampedIsRelayed` is checked by `kafka_down` only, which refutes
it with one fault. `WaitsForLate` is a condition on behaviours: the code does nothing
for it, `calm` satisfies it because nothing is ever late there, and
`MCOutboxRelay_late` shows that the order is lost without it.

`TypeOK` is not inductive: that the record the consumer works on exists needs
`CursorsOK`. `ImplementsReplica` says that each write to the index takes a
version the table has reached, and the version written was read several steps
earlier, from a row or from a record of the topic. Hence `IInv`:

- `TypeInv`: `TypeOK` and `CursorsOK`;
- `RowsOK`: a row is all there or not at all, PENDING is version 1, DELETED a
  later one, an S3 body exists (it survives the late `mark`, which changes no
  version);
- `OpsOK`, `EveryVersionHasItsEvent`: an UPSERT is the event of version 1, a
  DELETE of a later one, one event per version;
- `LogFromOutbox`: the topic holds outbox entries only, whatever was repeated,
  reordered or lost;
- `TargetOK`: what is about to be written is version 1 if it will be findable,
  and otherwise a version from 2 up to the row's;
- `CopyOK`: the index lags, and shows only version 1.

`InitIInv` and `NextKeepsIInv` establish it, with one lemma for each group of
actions and part. For the refinement `StepRefines` maps `SoftDelete` and the
inserts to `Write`, `Index` and `Delete` to `Follow` or a stutter,
`ForgetTombstone` to `Forget`, and everything else to a stutter. On top of it:

- `NoDeletionHandled` for `NoResurrection`: while the consumer is about to index
  a document, no DELETE of it stands among the records it has handled. It holds
  because `handle` indexes only PENDING rows, at version 1, before any deletion
  exists; a deletion that arrives meanwhile is not handled before the thread
  returns to its loop.
- `SearchInv`: what the consumer's next call takes for granted. A copy is in the
  index when the document is marked LIVE, the text is kept when it is indexed,
  the copy is gone when a deletion is announced (`AtHand`), and version 1 is
  never written as a tombstone (`ShownOnce`), because
  an external version that is not newer would otherwise hide the document.
- `FailedAtHand`: a failure that nothing explains yet is that of the record at
  hand, and the thread is about to publish the dead letter, or is dead.
- `Owing`: while calm, a tenant is owed an INCR only between the write to the
  index and the end of the record, for the tenant of the record at hand.
- `HandledDeletions`: a deletion the cursor has passed took effect or was
  dead-lettered. With it, a stale copy whose event is stamped and in the topic
  must have that event ahead of the cursor. A restart keeps it when it resumes at
  or before `done`, the hypothesis of `StaleCopiesAreOwed`, which
  one partition gives: `commit` is then called with the whole poll handled.
- `Claims`: no two relays hold the same entry, nobody has stamped what a relay
  selected, everybody stamped what he publishes or left with his producer. `FOR UPDATE SKIP LOCKED` keeps it.
  `NoEventRelayedTwice` follows by counting copies: an entry goes from "not
  spent" to "spent" once, and every other copy spends a fault.
- `Ordered`: with one relay the topic follows the outbox. What was brought there
  is older than all that is still claimed (`LandedFirst`), what is stamped older
  than what is not (`StampedFirst`), and a claim takes the oldest
  (`ClaimedFirst`), and a record that is late comes after all that has
  arrived and before all that is claimed (`LateIsLast`), which is where
  `WaitsForLate` is used. With two relays one claim can overtake another.

### Several consumers: `ConsumerGroup_proofs`

| theorem | property | provided |
| --- | --- | --- |
| `GroupInvariant` | `GroupInv`, below | |
| `GroupTyping` | `GroupTypeOK` | |
| `GroupImplementsReplica` | `ImplementsReplica` | |
| `OnePartitionGroupCommits` | `CommittedIsHandled` | one partition |
| `OnlyTheOutlivedReturn` | `ReturnsOnlyIfOutlived` | one partition |

`GroupInv` is `IInv` and `MembersOK`: for the thread of each member that does
not own the partitions, `FormerOK` says that its record still stands in the
topic and that `TargetOK` holds of its own target. The row may have moved on
since it was read, which is why the target of an index is bounded by 1 and of a
deletion by the row's version of now. The topic and the rows only
grow, so `FormerOK` survives whatever the owner does; an eviction hands
`TargetOK` of the owner to `FormerOK` of the evicted. The writes of former owners
then refine `Follow` for the same reason the owner's do.

`OnlyTheOutlivedReturn` rests on `DeletionInv`, in three parts:

- `NoDeletionHandled`, as for one consumer: the owner is not about to index a
  document while a DELETE of it stands among the records handled.
- `HandOp`: what the owner is indexing or marking is an UPSERT, so that a DELETE
  it finishes went through `delete` or is dead-lettered.
- `Refused`: of a document that a former owner is still on its way to index, and
  whose tombstone was not forgotten meanwhile, every deletion that stands behind
  `done`, or has just been applied, is dead-lettered or left a version from 2 on
  in Elasticsearch, which refuses the former owner's version 1.

An eviction turns the first part into the third: whoever is evicted while it
indexes leaves no deletion behind the offsets that the next owner starts at
(`NothingBehind`). From then on only the new owner's `delete` moves the version, and only
`GroupForgets` takes it away, which makes the document `outlived`. One partition
is needed because the argument cites `CommittedIsHandled`: a new owner that
started past an unhandled deletion would never apply it.

### Searches: `SearchCache_proofs`

| theorem | property |
| --- | --- |
| `Typing` | `TypeOK` |
| `EveryAnswerFitsItsQuestion` | `AnswersTheQuestion` |
| `NoAnswerOlderThanTheVersion` | `InvalidationHolds` |
| `NoAnswerOlderThanBothTTLs` | `AgeBounded` |
| `DictionariesBounded` | `L1Bounded` |

They speak of `Kept(k, x)`: `x` is under the key `k` in a dictionary, in Redis,
or in the hand of a thread that will put it there. `KeptAnswersItsKey` says that
it answers the question of `k`. `InvalidationHolds` needs three facts while Redis
has lost nothing: versions and yardsticks grow (`Yardsticks`); what is kept
under a tenant's current version saw what was searchable when that version was
made (`CurrentIsFresh`), since a thread searches after it has read the version;
and what is kept under the key of a request still under way saw its yardstick,
although the version may have moved on (`WithinReach`). `EntriesYoung` bounds age
plus remaining life of an entry of L1 by both TTLs, and `RequestsYoung` the age of
what is on its way there. `SizesOK` counts the threads that have passed the size
check as entries already: only the check raises the sum, and it clears first.

### Requests: `RequestPath_proofs`

| theorem | property | rests on |
| --- | --- | --- |
| `Typing` | `TypeOK` | |
| `NothingRunsForTheSuspended` | `SuspendedRunsNothing` | `MayActInv`: what the API has while its tenant is active may run, and what executes or is stored is of these |
| `GoodTokensWork` | `FreshTokenAccepted` | `TokenInv`: the API's 401, not yet passed on, is true as well |
| `UsersAreToldTheTruth` | `RepliesAreTrue` | `OutcomeInv`: stored exactly when the API answered 202, and a refusal only once the API has stopped |
| `LimitsAreKept` | `LimitIsTheTenants` | `CountInv`: Redis's counter is the number of the tenant's requests counted in this minute, those whose `check` raised after the INCR included, and at most `Limit` of them are past the check |

### Pages: `DocumentView_proofs`, `Browser_proofs`, `Paging_proofs`

`DocumentView_proofs` proves `TypeOK` (`Typing`) and `FailureAtItsStage`
(`FailuresAtTheirStage`). `TypeInv` knows the order of the two reads of a load
and that only a row that is not DELETED leads to the second,
`MarkedAfterStamp` that a status other than PENDING implies a stamped entry, and
`SeenAfterStamp` that a load that has read FAILED will find it stamped, or has:
`queued` is read after the status, and a stamp is not taken back. A deletion adds
an unstamped entry, hence `~deleted` in the property.

`Browser_proofs` proves `TypeOK` (`Typing`), `ShownIsTheAnswer`
(`PagesShowTheirAnswer`) and `SignedInUntilExpiry` (`NobodyIsSignedOut`), from
`RequestsFit` (an answer "refused" carries no token or an expired one; what the
page waits for was asked by the user it names or without a token), `Session` (the
token of this page is that of the user it names, or gone) and `LastAsks` (of the
answers the page waits for, the last asked is to its present parameters). The
lemmas are about removing from and appending to the queue of requests
(`RemoveAtFacts`, `SendingKeeps`, `OthersRemain`).

`Paging_proofs` proves, for lists of every length, every page, and every two
sizes up to the server's cap of 100:

| theorem | property of `Paging` |
| --- | --- |
| `AnchorStaysOnScreen` | `KeepsAnchor`: "the row you were looking at stays on screen" |
| `ChangeSizeStaysInside` | `StaysInside`: never behind the last page |
| `FooterNamesTheRows` | `FooterIsTrue`: the rows named are the rows selected |
| `PagesPartitionTheList` | `EveryRowOnOnePage` |

They assume nothing but that the size is one the server does not clamp, which is
true of the sizes the list offers. They rest on `Division` (what integer
division rounds to), `PagesEnough` (the number of pages reaches the last row and
the last page is not empty) and `ChangedPage`.

### Starts: `Bootstrap_proofs`

For the three services and four things the module names, and every number of
faults and stops: `Typing`, `NobodyServesTooEarly` (`ServingHasWhatItUses`) and
`StartsKeepTenants` (`StartsChangeNoTenant`, an action property). The invariant
`Ensured` says that everything in a service's plan before the thing it is at
exists, and that is everything once it serves. It survives because nothing but
the recreation of the containers, which stops all services, removes the index.

### What is only model-checked

Liveness: `EveryPendingSettles`, `DeletedDisappears`, `EveryRequestAnswered`,
`PageSettles`, `EverythingRevealed`, `ListSettles` and `EveryServiceComesUp`,
whose proofs need ENABLED. What section 4 refutes has a theorem only under a
hypothesis that excludes the refuting behaviour (`StampedIsRelayed`,
`LogInVersionOrder`, `CachedSearchesRetired`, `CommittedIsHandled`; in a group
`NoResurrection` becomes `ReturnsOnlyIfOutlived`) or has none. The proof
modules use no induction over data: sequences are described by what they contain
at each index, and sums by cardinalities of sets.

## 7. Abstractions and what is not modelled

- *The group's coordinator* is external: it names one owner of all partitions and
  refuses the commits of others. Cooperative moves of single partitions, which
  this client does not use, are left out.
- *Ids are fresh.* A document id is a uuid; a `Docs` element is used once.
- *A call that raised may have taken effect.* Where this differs from a failure
  of the following call it is written out (INCR of both kinds, `mark_failed`, both kinds
  of publish, the commit of offsets, SETEX). A publish to the dead-letter topic
  that raised takes effect at once or not: nobody reads that topic.
- *Elasticsearch* is versions and presence under external versioning. Its
  refresh appears in `SearchCache` only.
- *S3 reads that fail* on `/text` fall back to extraction, with the same result.
- *SearchCache*: `Queries` stands for all of the key's other parts; no tick
  falls between the check and the insert of `_l1_put`, which are adjacent lines,
  while other threads may run there. Losing Redis loses all of it. The cache key
  of documents that `_invalidate` deletes has no reader.
- *RequestPath*: Redis does not lose the counters of a minute (it has no volume,
  and a restart would begin the minute anew); each request is sent once and stands for one that writes; whether
  a password is right is left out; the two gateway processes are one pool of
  threads with one key, as `--preload` gives them one; the API's own threads are
  not limited; the computation of the minute and INCR are one step. A token the
  API refuses ends in "refused", which the code reports as a 500, because
  `verify` does not catch what `PyJWKClient` raises.
- *DocumentView*: the server may do whatever the pipeline may, the late `mark`
  included, and a document is deleted once. The page stays open.
- *Browser*: one tab. Two tabs share localStorage and not React's state, so one
  may show a tenant while its requests carry another's token (`AuthContext.tsx`);
  that is not modelled. Login is one step, and refused logins change nothing. The
  upload page, and its navigation after an answer, are left out. A search shows
  no PENDING documents, because the index has none.
- *Paging*: the list counts its rows and selects them in two statements; the
  theorems are about a list that does not change between them, or while somebody
  turns its pages.
- *Bootstrap*: tables are one thing and so are seeds (one transaction); changes
  of a schema that exists are nothing `create_all` makes. The order in which
  docker-compose starts containers is not assumed, since restarts ignore it.

Not modelled: parsing of files (libraries), request validation and response
formats, health, metrics and logs (they report), deployment beyond the facts
used above, the query language of searches, the table of the gateway's routes,
presigned links (a read that changes nothing), the upload page.

## 8. The plan

Done, in this order: the pipeline bottom up (`DocumentStore`, `OutboxRelay`,
`IndexPipeline`), because losing or resurrecting a document is the worst the
system can do; `VersionedReplica` and the proofs; the paths of a user's question
(`SearchCache`), of a request (`RequestPath`) and of a user who waits
(`DocumentView`); then several consumers (`ConsumerGroup`), the rest of the
frontend (`Browser`, `Paging` with its proofs) and the starts (`Bootstrap`).

The proofs followed in the order of the modules; every safety property of a
passing run now has its theorem (section 6).

To do, the most important first:

1. `ConsumerGroup`: the theorems of `IndexPipeline` that hold in a group as well.
   `StaleCopyIsOwed`, and what remains of `LiveIsSearchable` when a former owner
   marks a document late.
2. `SearchCache` composed with the consumer of `IndexPipeline`, so that the
   failures of INCR meet the caches, and `InvalidationHolds` for the composition.
3. `StaleFiveSeconds` under the hypothesis that makes it true: no search falls
   between an INCR and the refresh after it.
