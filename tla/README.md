# Formal model of evc-mesh-mcp

This directory holds TLA+ models of the MCP server in `src/`, TLC
configurations that check them on small instances, and proofs that the TLA+
proof system (tlapm) checks for every instance. It is meant to be read next to
the code: every definition that models code names its lines in
`PROJECT.json` under `map`.

## The system

The program is a Go server that turns MCP tool calls into requests to the
Mesh REST API ("the Mesh API" below, which is not part of this repository). It
runs over stdio, for one agent, or over HTTP (SSE and Streamable HTTP), where
many agents share one process and two `Server` values (the full and the core
profile).

| component | code | state it keeps | operations | hard because |
| --- | --- | --- | --- | --- |
| Authentication front door | `main.go` 332-603, 745-924, `ratelimit.go` | positive and negative session cache, buckets per address | gate, second lookup in `sseContextFunc`, two eviction loops | goroutines, verdicts in flight, clock reads outside locks, TTLs |
| Retry of 429 | `internal/mcp/retry429.go`, `rest_client.go` 220-290 | four retry slots per client | `do429` | timers, cancellation, shared slots, response bodies |
| Checkout leases and current task | `tools.go` 3564-3676, 3933-4010, `turn_outcomes.go` | `checkouts`, `activeProjects`, `activeTaskIDs` | checkout, extend, release, turn-outcome commands, `remember` | the lease lives elsewhere; lost answers, late answers, restarts |
| get_my_tasks snapshots | `my_tasks_snapshot.go` | up to 128 bases, 32 MiB, 30 minutes | exchange, delta, render | eviction against clients that hold a revision |
| Startup and deferred login of stdio mode | `main.go` 31-84, 164-236, `client_info.go` 96-118, `server.go` 121-132 | `session`, `deferredSession` | login at the start with retries, then by the first call | concurrent first calls, failures, restarts |
| Client registry of sse mode | `main.go` 926-957 | one REST client per agent key | `GetClient` | check-then-act |
| Read counter, session tracker | `read_counter.go`, `session_tracker.go`, `main.go` 375-385 | counts per agent and tool | increment, snapshot, flush to file | concurrent increments, a crash or a full disk in a write |
| Multi-step handlers | `tools.go`, `project_updates.go`, `start_after.go`, `runtime_tools.go`, `turn_outcomes.go` | none here, several Mesh calls each | one tool call, several requests | one step of several failing, lost answers, repeats |
| Documents and their comments | `docs.go`, `doc_comments.go` | none | page walks, paths, threads; `base_version` and the advice of a 409 | the collection changes during the walk; agents that follow the advice |
| Compact reads and task lists | `compact_read.go`, `list_tasks.go`, `start_after.go` | none | `commentsAfter`, a page cut to a budget, date comparison | bounds and off-by-one |
| Memory recall | `tools.go` 2925-3562, `recall_profiles.go` | none | requests; the ranking is the API's | one request after another |
| Registration and annotations | `server.go` 254-990, `annotations.go` | none | which tools there are, and what a host is told of them | hints a host acts on unasked |
| OAuth metadata, argument shaping | the remaining files | none | | stateless |

What makes each component correct, in a sentence: a revoked credential stops
working in bounded time and a valid one is never declared dead; the budget of
an address holds and is charged only for its own attempts; a throttled read is
retried neither early nor past its budget and always returns; an agent that
was told of a lease can end it by `task_id`; what a memory is stamped with
belongs together; a list reconstructed from deltas is the list; a process acts
as one agent for its life; a call that an agent or a host repeats doubles
nothing that is known to be done; a paged read misses nothing that stayed; what
an answer says of a text is so.

## Modules

| module | models | used by |
| --- | --- | --- |
| `AuthGate` | the front door: cache, limiter, gates, second lookup | `MCAuthGate`, `AuthGateProofs` |
| `Retry429` | `do429` for the calls of one client | `MCRetry429`, `Retry429Proofs` |
| `CheckoutLease` | the three maps of a `Server`, the tools that use them, and the leases in the Mesh API | `MCCheckoutLease`, `CheckoutLeaseProofs` |
| `MyTasksSnapshots` | conditional get_my_tasks: the base cache, the view, the delta and the consumer | `MCMyTasksSnapshots`, `ListingProofs` |
| `CommentWalk` | `commentsAfter` over a thread that changes, and an agent that follows it | `MCCommentWalk`, `ThreadProofs` |
| `GetTaskSince` | `handleGetTask` with `since` and its optional parts, and an agent that re-reads a task | `MCGetTaskSince`, `ThreadProofs` |
| `RestRequests` | the requests of the REST client, and what each changes | `ToolScripts` |
| `ToolScripts` | the requests of every stateless handler, and what a failure does to the call | `ToolCalls` |
| `ToolCalls` | a tool call, made of the requests of its script, and its repeats | `MCToolCalls`, `ToolCallsProofs` |
| `RowReader` | abstract: a changing collection read in windows that follow each other | `ListingProofs`; implemented by `PageWalks` |
| `PageWalks` | the paged reads: list_docs, list_doc_comments, list_tasks | `MCPageWalks`, `ListingProofs` |
| `DocEdits` | get_doc and update_doc, with agents that follow the advice of a 409 | `MCDocEdits`, `DocEditsProofs` |
| `OneIdentity` | abstract: a process that serves nobody until it has an identity, and then one | implemented by `ServerProcess` |
| `ServerProcess` | what the calls of a process share: the login, the registry of clients, the read counter | `MCServerProcess`, `ServerProcessProofs` |

Each `MC` module only adds the symmetry set of its runs and the pages, lookups
or sizes they are given. A definition whose
name starts with that of another one and whose comment says "Mutant of" is not
part of the specification: it is the form a plausible bug would give that
definition, kept to show that a property notices it.

### AuthGate

A request is a record whose `pc` follows the code of `requireCredential` and of
`GetOrAuthenticate`: `peek` (`peekValid`), `limit` (`allow`, or `over` for an
OAuth token), `lookup` (up to the `RUnlock`), `asking` (before the request to
the Mesh API), `landing` (its verdict is on its way back; the write lock comes
next), `penalty` (a rejected OAuth token is charged). A request that the gate
admits comes to a second lookup, made by `sseContextFunc` when the transport
takes the request; a message on an open SSE stream starts there. `EvictExpired` and `EvictIdle` are rounds of the two loops;
`Switch` lets the Mesh API change its mind about a credential at any time.

Time is a number of ticks. A step reads the clock (`ClockRead`) no earlier than
the step before it and at most `Slack` ticks before it takes its lock, because
the code reads `time.Now()` before `Lock`; a verdict arrives at most `Flight`
ticks after the Mesh API gave it (the HTTP timeout). History variables record
when the Mesh API last changed its mind, what the limiter really let through
in the current minute, and (`late`, set by `Meets`) which requests met their
bucket in it with the clock of an earlier minute: `BudgetPerMinute`,
`GuessOverrun` and `Justified429` say what the limiter is worth with those,
and without them.

The OAuth metadata is taken to be configured (otherwise an OAuth token is
treated as an agent key at the gate). Requests that are answered before any
state is read (no credential, one in the query string, an OAuth token at an SSE
endpoint) are left out.

### Retry429

A call is a record with the clock of its own that `do429` uses, the time since
its first attempt; `gone` is the instant at which its caller went. `sending` is an exchange, `drain` the reading of the body of
a 429, `slot` the wait for a retry slot, `recheck` the second look at the
budget, `sleep` the wait itself. `Tick` advances all clocks; it never passes an
instant at which a timer of a call is due (`Due`), so timers are punctual and
an exchange ends by the client's timeout. Cancellation by the caller may come
at any time; an exchange may still bring an answer afterwards. Jitter is any
value up to a quarter of the delay. What is in a body is not modelled: a 429 that
is returned after `drain` has what could be read of its first 64 KiB, an error of
the reading is ignored (`retry429.go:168`), and its headers are kept.

### CheckoutLease

`lease` is the truth in the Mesh API, the other maps are the `sync.Map`s of the
`Server`. A tool call sends one request (`Ask`, `Present`), the Mesh API
answers (`Grant`, `Released`, ...; the answer may be lost, `delivered =
FALSE`), and the handler updates its maps, one operation at a time
(`StoreToken`, `StoreProject`, `StoreTask`, `Forget`). The Mesh API is modelled
from its use: a free card is given to whoever asks, the holder may be given a
new token, release needs the holder and the token, a command ends the sender's
own lease. A lease expires no earlier than its answer arrives (its TTL is at
least a minute, the HTTP timeout 30 seconds). `Restart` empties the maps.
`Contended` and `Parallel` say whether calls on one card, or calls of one agent,
may overlap. A card has the names in `Name`; a checkout answer may leave the
project out (`ProjectNamed`). `batch` and `recent` record which cards an agent's
checkouts gave it in its present and its last run of overlapping calls.
`remember` stands for the consumers of the current task;
`set_project_knowledge` reads the task only, and the side-channel file that
takes precedence when it exists is left out.

### MyTasksSnapshots

A page is a function from ids to tasks; a task has its place in the page, its
status, its priority rank and its version, which stands for the rest of its
content. Any member of `Pages` may be the API's answer to any call, so cards
come, go, move and change as they like. A revision is a digest of scope and
body in the code and the pair of them here. A call is two steps, because only
`exchange` holds the lock: `Exchange` reads the page and settles on unchanged,
delta or cold; `Answer` looks the status categories up, renders and hands the
answer to the consumer. A lookup is a function from statuses to categories, and
`"none"` is a status it could not resolve (the request failed or the status is
unknown). The consumer follows `docs/my-tasks-snapshots.md` and the reference
consumer of the tests: it replaces its snapshot on cold, applies a delta only
to the base the delta names, and drops what it holds when a delta does not fit.
`InView` is the active-only selection; `Changed`, `Applies` and `Rebuilt` are
the delta and its application. The cache counts ticks to expiry; a body's size
is the number of its tasks and one more; `Restart` loses cache and nonce, so old
revisions are of another scope. `full=true`, which bypasses all of this, upstream
errors, which change nothing, and the slimming of items are left out.

### CommentWalk

`list_comments` with `after` has no counterpart in the Mesh API: the handler
walks the whole thread, newest first, 200 rows a request, collects what is
above the cursor (a uuid) or later (a timestamp), and returns one page of that.
A comment is the number of its creation, a thread the set of those that exist,
a comment's place the number of newer ones; what the walk has collected is a
set of pairs of page and comment, because a comment can be met on two pages.
`Post` and `Delete` come between any two requests. `ReadOn`, `Show` and
`Refuse` are the three ways a page can be dealt with, `Break` is a failed
request. The agent asks for the oldest `Limit` newer comments and takes the last
of them as its next cursor; `CreatedAt` may give comments the same instant.
Rows that do not decode, and an empty page that claims more, do not come from
the API as modelled and are left out. `Slice` is the handler's paging of the
delta for any order, page and limit.

### GetTaskSince

`handleGetTask` makes up to five requests in a fixed order (`Order`): the task,
then each part that was asked for. A call carries what it has so far; `ReadTask`,
`ReadComments` and `ReadPart` are the requests that succeed, `Throttled` is a 429
for a part (`markPartialFailure`), `Fail` is any other error, which fails the
call. Between any two requests the task may be edited and comments written or
deleted. An instant is the number of writes so far, so the timestamps of
different writes differ; a body is the instant of its edit, a comment that of
its creation, and a `since` that is left out lies before all instants. A comment
may or may not count as an update of its task: that is up to the API.

The agent keeps the last body it was sent and every comment, and re-anchors
`since` as the description of the tool says: on `task.updated_at`, or on its own
time when it called (its clock is taken to be the server's). It does so only
when the answer `Covers` what is new, that is when the comments are in it and
either `comments_has_more` is false or fewer rows came than `comments_limit`. An
agent that re-anchors on any answer, or on the time at which the answer came,
loses comments. The lookup of the status slug between the task and its parts,
which never fails the call, and the shape of the answer are left out.

### RestRequests, ToolScripts, ToolCalls

Most tools keep nothing: a handler checks its arguments and makes one to six
requests. `RestRequests` says of each request whether it reads, sets or adds;
`ToolScripts` writes each handler as the set of the sequences it may send,
`P ++ Q` being one step after another. A step says what its failure does to the
call: `error`, `named` (an error that says what has been done), `report` (the
answer names it), `skip`, `fallback`; which other steps it waits for; and
whether the handler looks a name up in the answer. A request's payload and the
answer's shape are left out. `ToolCalls` runs a script against an API that may
answer, refuse, say 404, or carry a write out and lose the answer; an agent
repeats a call that ended in a plain error, a host repeats a call of a tool that
is annotated idempotent. What a looked-up name stands for may change between any
two requests. A POST that the API takes as a setting (a status, a memory under
its key) is one that doubles nothing; which those are is the API's, and taken
from the annotations of the tools that send nothing else.

### PageWalks and RowReader

A tool reads a collection of rows in the API's order, while others add and remove
rows between its requests (`rows`, each row at its `Place`). `FetchPage` is a page of the two walks
(`fetchProjectDocuments`, `fetchDocComments`), `NextSlice` the agent's next call
of list_docs, `ListTasks` a call of list_tasks that cuts its page to the budget
(`Fit`, `Keep`, `NextPage`) and names the page that begins at the first row left
out. The abstract `RowReader` forgets pages, sizes, cuts and callers: a reading
goes on from the offset it has reached. `ReadsRowByRow` is the refinement, with
`off` for the offset `start` of the next page; it fails when the continuation of
a cut page repeats or leaves out a row. `DocumentPaths` is `documentPaths`, `Top`
and `Replies` are `threadDocComments`. Any document may be unlisted while those
beneath it are listed, as `docs.go:118-120` has it: the path of such a document
is then the end of its path from the root (`Ends`), and only one that is listed
with all above it (`FromRoot`) is promised a path of its own.

### DocEdits

An agent has one change to make to one document, named by uuid or by path. It
reads and replaces, or appends; `Resolve` is the extra request for a path,
`Patch` the write, `TimeOut` a write whose answer does not come and that may
still `Land`, `ConflictResult` what the handler makes of a 409, `Heed` the agent
that does what the answer tells it. People edit documents without a version,
edit originals on Team Relay and move documents. A copy of a Team Relay document
may fall behind; it is refreshed when it is opened and the interval has elapsed
(`Elapse`). A text is the sequence of the changes in it. What the Mesh API does
with a write (`Answers`, `Written`) is taken from what the handler's advice
relies on. `"conflict"` is a 409 without a known code and without a version
(`docs.go:630-635`), with which any write may be refused: its answer gives no
advice, and the agent stops.

### ServerProcess and OneIdentity

In stdio mode: `StartUp` is one attempt of `authenticateWithRetry`; a process
without a session serves, and its calls go through `Check`, `Lock`, `Recheck`,
`LogIn` or `LogInFails`, the steps of `deferredAuthMiddleware` (the session is read
without the lock, then under it). In sse mode: a call looks its agent's client up
(`LookUp`) and, on a miss, makes one and stores it over what others stored
(`Store`). `CountRead` is `recordMemoryRead`; `Flush`, `WriteTmp` and `Rename` are
the flush goroutine; the write and the rename may fail. `Crash` ends the process at
any instant; files stay. OAuth tokens get a client per request, which nothing is
shared through, and are left out. `OneIdentity` is the promise of the stdio part:
identity, the calls being served, and the number of the process.

## Runs

Every run finishes within three minutes with two workers.

| run | instance | what it shows |
| --- | --- | --- |
| `auth_oauth` | 2 requests, 1 OAuth token, TTLs 3/2/1, flight 1, slack 1, 5 instants | `RevocationLag`, `DeadTokenAnswer`, `AdmissionCarriesOver` |
| `auth_mixed` | 2 requests, 1 agent key, 1 OAuth token, 1 address, RPM 1, slack 1, 4 minutes, steady credentials | `BudgetPerMinute`, `GuessOverrun` when both kinds of credential share a bucket, requests come late over the turn of a minute and idle buckets are deleted |
| `retry_two` | 2 calls, 1 slot, 3 attempts, budget 3, fair | `SlotsBalanced`, `CallBounded`, `SilentAfterCancel`, `RetryOnTime`, `EveryCallReturns` |
| `lease_orderly` | 2 agents, 2 calls, 2 cards of 2 names, 2 leases, answers with and without the project | `LeaseStaysReleasable`, `ReleasedForgotten`, `StampOfLastCheckout` when the calls of an agent may overlap, but not those on one card |
| `lease_handover` | 2 agents, 2 calls that may overlap on 1 card | violates `LeaseStaysReleasable` |
| `snap_stable` | 1 consumer, 2 calls, 3 kinds of params, 4 pages of three sizes, steady lookups, a restart, expiry | `HeldIsColdView`, `DeltaApplies`, `AnswerIsFresh`, `CacheBounded`, `NeverAcrossScopes` |
| `comments_follow` | 6 comments, pages of 2, at most 2 pages, 2 shown at a time, fair | `NothingSkipped`, `EverythingShown` |
| `task_since` | 3 writes, limits 2, 3 and one that is refused, fair | `UnchangedIsHeld`, `NothingMissed`, `CatchesUp` |
| `tool_calls` | the 74 stateless tools, 3 tries of a call, 2 ids, 3 changes of a name | `RepeatsOnlyLost`, `HintsHold`, `NothingSilentlyLost`, `TargetAsNamed` |
| `page_readers` | 5 rows, at most 2 pages of 2, slices of 2, limits 0, 2, 3 and 9, 3 changes | `MissedOnlyByDeletion`, `EveryCommentPlaced`, `PathsOpenTheirRow`; `PageWalks` implements `RowReader` |
| `doc_edits` | 2 agents, a document of Mesh and a Team Relay copy, 3 paths, 1 change by people, 1 lost answer | `TypeOK`, `ClaimsTrue`, `WrittenOnce`, `NoBlindOverwrite`, `EditLands` |
| `server_shared` | 2 calls, 2 agents, 3 attempts, 3 clients, 1 read per agent, 1 replacement of the process | `LateCallsShare`, `PublishedIsWhole`, `EveryCallAnswered`; `ServerProcess` implements `OneIdentity` |

Type correctness of a module with proofs is proved, and run only where a mutant
of the code can break it; proved without a run are also
`Justified429`, `CancelObeyed`, `NewerOnly`, `NeverMistaken` and `ReadToTheEnd`.

Bounds. `Horizon` is long enough for an entry to be made, to expire, to be
evicted and to be made again, and for a verdict to be in flight across a change
of mind. Two requests are enough for every race the code can have between a
verification and another request for the same credential; the buckets and
entries of different addresses and credentials do not interact. `MaxCount`
stops new requests, never one in progress, so a bucket still goes past its
limit. In `auth_mixed`, where the limiter is the question, credentials keep their
standing with Mesh (`Fickle` is empty; `auth_oauth` lets it change), and four
minutes are enough for a bucket to become idle and be deleted. `MaxToken` 2 gives
a card to two holders in turn, or twice to one, or both cards to one agent.

Fairness. For `EveryCallReturns`, `retry_two` assumes weak fairness of each call's steps (goroutines
are scheduled; an exchange ends with an answer or by the HTTP timeout) and
strong fairness of `Tick`: time goes on although other calls come and go. Strong
fairness is needed because a new call that has something due disables `Tick`
for an instant, again and again. For `EverythingShown`, `comments_follow`
assumes that a handler goes on (weak fairness), that the agent keeps asking by
timestamp (among its questions by uuid, whose cursor may be gone for good) and
that none of the requests of these walks fails for ever (strong fairness). The
writing and deleting of comments is not fair: it merely ends, because the
number of comments is bounded. A thread that keeps changing its total can keep
every walk from ending; the code promises nothing else. For `CatchesUp`,
`task_since` assumes that a handler goes on (weak fairness), that the agent keeps
asking for the thread with the largest limit, and that the requests of these
calls do not fail for ever (strong fairness).

For `EveryCallAnswered`, `server_shared` assumes that requests end and goroutines
run (weak fairness), and that a mutex is handed to whoever waits for it (strong
fairness of `Lock`: Go's mutexes turn to a first-come order after a millisecond
of waiting). For `EditLands`, `doc_edits` assumes that agents go on and that the
sync interval elapses (weak fairness); the changes of people and the lost
answers merely end, because they are bounded.

In `MyTasksSnapshots`, `TodoCap` 1 over two todo cards makes the cap bite and its
order matter; `CacheBytes` 7 makes the byte bound evict (the bound on entries,
`Entries` 2, is never the tighter one here; the proof of `CacheBounded` is for all
values of both), and a page of seven tasks is larger than the cache; the pages
differ by an edit, a change of priority that turns the order over, and one is
without versions; two calls at once are enough for answers out of order.
The rollback mode (`ColdFull`) is covered by the proofs only. In `CommentWalk`,
the thread (three to six comments, pages of two, walks of at most two pages)
may outgrow a walk, comments move from one page to the other in between, and
the delta has more pages than the agent is shown at a time. In `GetTaskSince`,
three writes are enough for an edit and two comments in every order around the
requests of a call, and for a thread that is longer than the smaller limit.

In `ToolCalls`, three tries are a call, its repeat by the agent and one more by
the host. In `PageWalks`, a walk ends early, at its last page and at the cap; a
cut page continues on pages of one, two and three rows; three changes can undo
each other. In `DocEdits`, one change by people and one lost answer, at any
instant, reach every code a 409 has, and the 409 without one. In `ServerProcess`, two calls are every race
for a lock or a miss; three clients are two misses and one more in the next
process.

## Findings

* `lease_handover`: the late `Delete` of a release takes the token that the next
  holder has stored since.

Disagreements seen while modelling, which no run is kept for:

* `ratelimit.go:66`: `allow` computes the window before it takes the lock. A
  goroutine delayed across the turn of a minute replaces the bucket of the new
  minute by one of the old, and the next request starts the new minute from zero.
  So neither the budget of attempts nor that of guesses holds as it stands:
  `BudgetPerMinute` and `GuessOverrun` count the requests that were late, and say how
  much each of them adds. `Justified429` excepts the late request itself.
* `tools.go:3958`: project and task of an agent are two maps, so two parallel
  checkouts can leave a pair that belongs to no card. `StampOfLastCheckout` says what
  is left: each half is from a checkout of the present or the last run of overlapping
  calls, and an agent that makes one call at a time, with answers that name the
  project, gets a pair.
* The token map is keyed by the caller's spelling of the id, so a card taken by
  UUID and finished by short id keeps a token, which the Mesh API refuses.
  `ReleasedForgotten` is about the name by which the end was reported.
* `my_tasks_snapshot.go:435`: a failed lookup while a delta is rendered compares the
  two pages whole, and the delta names tasks that the consumer was never shown.
  The consumer recovers by asking without a revision; `HeldIsColdViewHolds` shows,
  for any lookups, that it never holds a wrong list.
* Unchanged is decided on the stored body alone, so when a status changes category
  it confirms the view of before. The items of a delta carry their descriptions,
  which the cold answer omits.
* `move_task` is annotated idempotent, which `annotations.go:24-25` explains as
  "repeating the call with the same arguments leaves the same result"; its optional
  comment (`tools.go:840`) is added again. `HintsHold` names this one exception.
* `update_doc` is annotated idempotent as well, although an append that is
  repeated is there twice (`WrittenOnce` says when).
* `doc_comments.go:113-116`: "the create either happened or it did not, and an error
  means it did not". When the answer is lost the comment may be there, and the
  tool says NOTHING WAS POSTED.
* `report_error` answers "reported" when neither the event nor the agent's status
  could be written, and `move_task` is silent about a comment that was not
  (`BestEffort`; `NothingSilentlyLost` is about all other writes).
* get_canonical says that there are no canonical entries when the reads it made
  have failed.
* list_docs computes a path from the first ancestor in the listing: beneath a document
  that is not listed, or was not fetched because the walk was cut at its cap, a path
  may be that of another document (`docs.go:118-120` knows; `PathsOpenTheirRow` says
  when it is not).
* A path that came to mean another document between an agent's read and its write
  may take the write, if the versions agree (`NoBlindOverwrite` names this case).
* `session_tracker.go:8` speaks of usage "per agent session"; in sse mode one tracker
  is shared by all agents of a `Server`.

## Proofs

The proofs hold for every value of the constants that satisfies the named
assumptions of the modules (`KeyAssumption`, `TimeAssumption`,
`RequestsAssumption`, `BudgetAssumption`, `RetryAssumption`, `CallAssumption`,
`SwitchAssumption`, `BoundsAssumption`, `DataAssumption`, `NothingAssumption`,
`NamesAssumption`, `DocsAssumption`, `SizesAssumption`, `RowsAssumption`,
`ThreadsAssumption`, `TreeAssumption` and those that say a number is one). They say
that sizes and times are numbers, that sets of calls, requests and clients are
finite, and that names of different kinds differ; that a reply to a comment
answers no other reply (`doc_comments.go:291-293`: "Threading is one level deep
server-side"); and that the documents of a project are a tree in which those under
one parent differ in their slug.

Induction over data is out of reach of the library's induction theorems here. Where
an argument needs it, the proof takes the least number that would break the claim
(`Least`, from the well-foundedness of `<` on the naturals).

`AuthGateProofs`. `TypeCorrect`. `TrustInv` strengthens `RevocationLag` and
`DeadTokenAnswer`: the expiry of an entry is bounded by the last instant at
which the Mesh API agreed with it, and a verdict in flight is no older than
`Flight`; without the part about verdicts in flight the landing of an old one
would break it. `CarryInv` adds that a request in its second lookup whose entry
has not expired still finds it: a later verification only prolongs it, an
eviction only removes what has expired. `BudgetInv`, for any `Slack`, relates the
bucket of the current window to the two history counts and to the requests that were
late: each of them can put an old bucket in the place of the current one at most
once in a minute, and then the count begins again. So does `OverrunInv`: an OAuth
request is past the limiter between its look at the budget and its charge. Between
two late requests, once the budget is used up nobody gets past any more, so what was
let through, the rejections and those still past together no longer grow, and there
are fewer of the last than requests in all (`GuessOverrunHolds`).

`Retry429Proofs`. `RetryInv` gives, for each `pc`, what the clock, the wait and
the deadline of a call satisfy; `CallBounded`, `SilentAfterCancel` and
`RetryOnTime` follow; for `CancelObeyed` the proof goes through the ways out of a wait.
`SlotsBalanced` is proved on its own with the library's facts about the
cardinality of finite sets, one step for a call that takes a slot and one for a
call that gives it back.

`CheckoutLeaseProofs`. `LeaseInv`, for calls that do not overlap on a card:
tokens are numbered, and what a call with an answer is about to store or forget
fits the lease (`Pending`). The lemma `OthersPending` says once that calls on
other cards do not notice. `ForgottenInv` adds `ReleasedForgotten`, for any names.
`StampInv`, for calls that overlap as they like, says that an agent's project and
task are each among those of its last runs of overlapping calls, and follows them
through the three last steps of a checkout.

`ListingProofs`, about the reads that list rows.
`MyTasksSnapshots`: the invariant adds to `TypeOK`, `EntriesBounded`,
`NeverAcrossScopes` and `HeldIsColdView` that an unchanged answer in flight names
the revision the consumer asked about (`UnchangedIsKnown`): the answer is given
after the lock is gone. `ReceivedIsColdView` is the heart: whatever the lookups
of the two calls said, a delta that applies rebuilds a cold view. With one
steady lookup `DeltaAppliesHolds` and `AnswerIsFreshHolds` follow. `InsertBounded`
shows that the eviction leaves room for one; `Counted` says that the byte count
the cache keeps is the number of rows of its entries, taken as pairs of an entry
and a row, so a sum needs no induction, and `CacheBoundedHolds` follows.
`PageWalks`: `ReadsRowByRowHolds` maps each step of the tools to a step of
`RowReader`: a page to the reading of a window, the next slice to a new
reading, what others do to a change. A page of list_tasks that was cut goes on at its
first row left out because the number of rows kept divides the offset of the page
(`Keep`). `WholeSoFarHolds` and `AllRead` are about `RowReader` alone: neighbouring
windows join (`Neighbours`), so what was read of a collection that stayed as it was is
its beginning, and all of it at the end. `MissedInv` holds while rows come and go: a row
that stayed and was passed without being taken is counted in `Missed`; an insertion
moves no row back over the end of what was read, a removal moves one at most, and
a window takes every row that it covers. So at the end `Missed` is no more than the
removals (`MissedOnlyByDeletionHolds`). A complete walk of a collection
that did not change has read its rows, all of them (`Whole`); hence every comment
has its place (`EveryCommentPlacedHolds`, with `ThreadsAssumption`). That
`documentPaths` gives a document of the walk the end of its path from the root, and
all of it to one that is listed with those above it, and that no two documents have
the same path from the root, go by the depth of a document in the tree
(`PathsExist`, `PathLengths`, `PathsEndTheirs`, `PathsFromRoot`, `PathsDiffer`;
`PathsOpenTheirRowHolds`).

`ThreadProofs`, about the two ways to read a thread.
`CommentWalk`: the walk compares totals only, and `NothingSkippedHolds`
says that this is enough. `Below(c)`, the number of comments not newer than
`c`, never grows; so a comment that was beyond the pages read when the total
was T is beyond them whenever the total is T again (`Ahead`). The invariant
`Covered` says that whatever lies between the cursor and a collected comment is
ahead or was collected from the same page or a later one, which puts it earlier
in the oldest-first answer: the first page of the answer has no holes, although
rows may repeat and even be out of order. The theorem assumes `Exact`: a
timestamp names one comment, or the agent uses uuids. `NewerOnlyHolds` needs no
such thing. `EachRowOnOnePage` is about the pages of the delta alone: whatever
the limit and the length, each row is on exactly one of them.
`GetTaskSince`: the filters are safe because both instants an agent may
anchor on, that of its call and that of the last edit, precede the reading of the
thread; this is what `Stamps` and `TaskRead` say. `BodyHeld` and `NothingMissed`
then carry each other from call to call, and `AllCovered` says what a page is
worth to the agent: `PageReachesBack` shows that whatever a page of the newest
rows leaves out is not newer than `since`, if the filter dropped a row of it.

`ServerProcessProofs`. The invariant adds to `TypeOK` where a call can be
(`Control`: the one that logs in holds the lock, and while it does there is no
session) and what the writer of the file has in hand (`Writing`). Without the
first, a login could replace an identity; `Recheck` is what keeps it. The steps
are then mapped one by one to `LogIn`, `Serve`, `End`, `Replace` or a stutter of
`OneIdentity`, and `ServedAsSomebody` is carried back through the refinement. A
snapshot is of a past the counter has left behind, because counts only grow:
that is `PublishedIsPast`. Its totals are the sums of its rows because every
increment goes to one row of each of its three tables (`AllAgree`, for the
counter, the snapshot being written and the two files): `PublishedIsWholeHolds`.

`ToolCallsProofs`, in two halves. The first is about the scripts alone: every
script of every one of the 74 tools keeps four rules (`EverySound`). After a row is
added no request ends the call in a plain error (`NoReturn`); a write is best
effort, or its failure ends the call or is told, and so is what it waits for
(`Told`); a write after a lookup comes after one that cannot have come to
nothing (`Aims`); and a tool writes no more than its annotations say (`Hinted`).
The scripts are made of few pieces, and so are these proofs: what only reads
keeps the rules, and a step added to a good script leaves it good (`AddStep`).
The second half is the invariant `CallInv`, which follows a call and its repeats
through a script that keeps the rules; it gives the four properties of the run
for any number of tries, ids and changes of a name.

`DocEditsProofs`. `ClaimsTrueHolds` says that what `update_doc` tells an agent of
its write is so. `OnceInv` follows the change of each agent through every text
there is, those that agents have read and those of replacements that may still
land among them: an agent whose change is still to be written (`Unwritten`,
`SeenWithout`) finds it in none of them, so a write never adds it to a text that
has it. `ReadInv` says that an agent which remembers the current version of a
document has read its current text, and that a late replacement which the
version still admits holds that text; with it a write that Mesh accepts takes
nothing away that its agent had not read, except as the property
names. Both hold for any number of agents, documents and changes of people
(`WrittenOnceHolds`, `NoBlindOverwriteHolds`).

Only model-checked: `EveryCallReturns`, `EverythingShown`, `CatchesUp`,
`EditLands` and `EveryCallAnswered`: liveness under fairness, which the prover does not
reach. Every other property of a passing run is a theorem.

## Not modelled

* `rerankRecallItems`, `mergeGraphResults` and the helpers around them (`tools.go`
  3145-3534): only tests call them; the server passes the API's ranking on.
* The session tracker: totals for session_report, and a warning.
* `unconfiguredMiddleware`, which answers every call alike; the labels and the
  hooks of `client_info.go`, which only log; the chat token, which is read again
  from its file by every request.
* Whether the counter file survives the machine: `WriteFile` does not sync it.
* OAuth metadata documents, tool schemas and texts, the flattening and slimming of
  answers, the formatting of arguments, URLs, dates and queries. They keep no
  state and have no interleavings; unit tests reach them.

## Plan

What is left, in order of worth: the composition of `Retry429` with `ToolCalls`, which
now share only the outcome of a request; that an agent which names its documents by
uuid never takes a change away.
