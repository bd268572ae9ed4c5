-------------------------- MODULE MyTasksSnapshots --------------------------
(***************************************************************************)
(* Conditional get_my_tasks: the bounded cache of complete snapshots the   *)
(* server keeps (my_tasks_snapshot.go), the answer it gives to a call that *)
(* names the revision it holds (unchanged, delta or cold), and the         *)
(* consumer that rebuilds its snapshot from the answer the way             *)
(* docs/my-tasks-snapshots.md and the reference consumer of the tests do.  *)
(*                                                                         *)
(* A page is a function from task ids to tasks; a task keeps its place in  *)
(* the page, its status, its priority rank and its version, which stands   *)
(* for all of its content (the API bumps it on every change).  A page the  *)
(* API may answer with at any moment is any member of Pages.  A revision,  *)
(* in the code a digest of scope and body, is the scope and the page.      *)
(* A call is two steps, for the cache is locked in the first only: other   *)
(* calls run before the status lookup and the answer.                      *)
(***************************************************************************)
EXTENDS Integers, FiniteSets

CONSTANTS
  Consumers,    \* holders of snapshots (one per session and namespace)
  Calls,        \* handler invocations that may be under way at once
  Params,       \* effective filters, limit and namespace of a call
  Filtering,    \* the Params with an explicit status_category
  Stateless,    \* the Params of stateless HTTP without snapshot_session
  Pages,        \* what the API may answer: functions from ids to tasks
  Lookups,      \* outcomes of the status lookup: functions to categories
  Ranks,        \* priority ranks, a set of naturals
  Statuses,     \* status ids
  TodoCap,      \* myTasksColdTodoCap (5 in the code)
  Entries,      \* myTasksCacheEntries (128)
  CacheBytes,   \* myTasksCacheBytes (32 MiB), in units of Size
  TTL,          \* myTasksCacheTTL, in ticks
  ColdFull,     \* MESH_MCP_MY_TASKS_COLD=full
  MaxRestarts,  \* bound on server restarts
  NoCall, NoRevision, NoSnapshot  \* nothing under way, named or retained

Categories == {"backlog", "todo", "in_progress", "review", "done"}
NoCategory == "none"
Omitted == 0         \* the text of a task told without its description

Task == [place : Nat, status : Statuses, rank : Ranks, version : Nat]

ASSUME BoundsAssumption ==
  /\ Entries \in Nat \ {0} /\ CacheBytes \in Nat /\ TTL \in Nat
  /\ TodoCap \in Nat /\ MaxRestarts \in Nat /\ ColdFull \in BOOLEAN
ASSUME DataAssumption ==
  /\ Filtering \subseteq Params /\ Stateless \subseteq Params
  /\ Ranks \subseteq Nat
  /\ \A p \in Pages : IsFiniteSet(DOMAIN p) /\ p \in [DOMAIN p -> Task]
  /\ Lookups \subseteq [Statuses -> Categories \cup {NoCategory}]

VARIABLES
  nonce,    \* the process's nonce: it is part of every scope
  bases,    \* revision -> ticks to its expiry, for every base retained
  bytes,    \* the cache's own count of the bodies' bytes
  call,     \* what each invocation carries from the cache to its answer
  held      \* each consumer's retained snapshot
vars == <<nonce, bases, bytes, call, held>>

Revision == [nonce : 0..MaxRestarts, params : Params, page : Pages]
Busy == [by : Consumers, rev : Revision, known : Revision \cup {NoRevision},
         reply : {"unchanged", "delta", "cold"}]
ASSUME NothingAssumption == NoCall \notin Busy /\ NoRevision \notin Revision

-----------------------------------------------------------------------------
(* The view: what a cold answer shows of a page *)

Size(page) == Cardinality(DOMAIN page) + 1

\* validateMyTasksSnapshot: a base needs every task's authoritative version.
Versioned(page) == \A t \in DOMAIN page : page[t].version >= 1

Unresolved(page, lookup) ==
  \E t \in DOMAIN page : lookup[page[t].status] = NoCategory

Before(page, t, u) ==
  \/ page[t].rank < page[u].rank
  \/ page[t].rank = page[u].rank /\ page[t].place < page[u].place

\* in_progress and review, and the first TodoCap todo by priority.
ActiveOnly(page, lookup) ==
  LET cat(t) == lookup[page[t].status]
      todo == {t \in DOMAIN page : cat(t) = "todo"}
  IN {t \in DOMAIN page :
        \/ cat(t) \in {"in_progress", "review"}
        \/ /\ t \in todo
           /\ Cardinality({u \in todo : Before(page, u, t)}) < TodoCap}

\* The ids a call with these params sees; the whole page when it filters
\* itself, in the rollback mode, and when a category cannot be resolved.
InView(params, page, lookup) ==
  IF ColdFull \/ params \in Filtering \/ Unresolved(page, lookup)
    THEN DOMAIN page ELSE ActiveOnly(page, lookup)

Told(task, text) == [place |-> task.place, status |-> task.status,
  rank |-> task.rank, version |-> task.version, text |-> text]

ColdTasks(rev, lookup) ==
  [t \in InView(rev.params, rev.page, lookup) |->
     Told(rev.page[t], IF ColdFull THEN rev.page[t].version ELSE Omitted)]

\* The envelope: upstream's own fields, the count, and what the view leaves out.
Envelope(rev, lookup) ==
  [total |-> Cardinality(DOMAIN rev.page),
   count |-> Cardinality(InView(rev.params, rev.page, lookup)),
   omitted |->
     IF ColdFull \/ rev.params \in Filtering THEN {}
     ELSE IF Unresolved(rev.page, lookup) THEN {"unavailable"}
     ELSE {<<c, Cardinality({t \in DOMAIN rev.page :
                  /\ t \notin InView(rev.params, rev.page, lookup)
                  /\ lookup[rev.page[t].status] = c})>> : c \in Categories}]

Cold(rev, lookup) == [rev |-> rev, tasks |-> ColdTasks(rev, lookup),
                      envelope |-> Envelope(rev, lookup)]

-----------------------------------------------------------------------------
(* The delta, and the consumer that applies it *)

SameContent(task, other) ==
  /\ task.status = other.status /\ task.rank = other.rank
  /\ task.version = other.version

\* Mutant of Changed: an item counts as changed only when its id is new.
ChangedNewIds(old, new, lookup) ==
  InView(new.params, new.page, lookup) \ InView(old.params, old.page, lookup)

\* Mutant of Changed: the base is compared whole, not put through the view.
ChangedAgainstWhole(old, new, lookup) ==
  {t \in InView(new.params, new.page, lookup) :
     t \notin DOMAIN old.page \/ ~SameContent(old.page[t], new.page[t])}

\* The members of the new view whose content the old view does not have.
Changed(old, new, lookup) ==
  {t \in InView(new.params, new.page, lookup) :
     ~ /\ t \in InView(old.params, old.page, lookup)
       /\ SameContent(old.page[t], new.page[t])}

\* Every id of the order is held or comes with the delta.
Applies(snapshot, old, new, lookup) ==
  InView(new.params, new.page, lookup) \ Changed(old, new, lookup)
    \subseteq DOMAIN snapshot.tasks

Rebuilt(snapshot, old, new, lookup) ==
  [rev |-> new,
   tasks |-> [t \in InView(new.params, new.page, lookup) |->
     IF t \in Changed(old, new, lookup)
       THEN Told(new.page[t], new.page[t].version)
       ELSE [snapshot.tasks[t] EXCEPT !.place = new.page[t].place]],
   envelope |-> Envelope(new, lookup)]

Received(m, snapshot, lookup) ==
  IF m.reply = "cold" THEN Cold(m.rev, lookup)
  ELSE IF m.reply = "unchanged" THEN snapshot
  ELSE IF /\ snapshot # NoSnapshot /\ snapshot.rev = m.known
          /\ Applies(snapshot, m.known, m.rev, lookup)
         THEN Rebuilt(snapshot, m.known, m.rev, lookup)
         ELSE NoSnapshot

-----------------------------------------------------------------------------
(* The cache *)

\* What these bodies add up to: for each its envelope, and its tasks.
Rows(revs) == UNION {{r} \X DOMAIN r.page : r \in revs}
SizeOf(revs) == Cardinality(revs) + Cardinality(Rows(revs))

Live == {r \in DOMAIN bases : bases[r] > 0}

\* Mutant of Previous: a base is looked up by its revision alone.
PreviousAnyScope(known, rev) == known \in Live

\* The base a call may build on: it is of the call's own scope.
Previous(known, rev) ==
  /\ known \in Live
  /\ known.nonce = rev.nonce /\ known.params = rev.params

\* After evicting these the new body fits both bounds.
Fits(kept, gone, rev) ==
  /\ Cardinality(kept \ gone) < Entries
  /\ bytes - SizeOf((DOMAIN bases \ kept) \cup gone) + Size(rev.page) <= CacheBytes

\* What the loop may evict: oldest expirations first, and not one too many.
Evictions(kept, rev) ==
  {gone \in SUBSET kept :
     /\ Fits(kept, gone, rev)
     /\ \A g \in gone, k \in kept \ gone : bases[g] <= bases[k]
     /\ gone # {} => \E g \in gone : /\ \A h \in gone : bases[h] <= bases[g]
                                     /\ ~Fits(kept, gone \ {g}, rev)}

Retain(revs) == [r \in revs |-> bases[r]]

\* An oversized body purges the expired and is never a base.
KeepOut(rev) ==
  /\ bases' = Retain(Live)
  /\ bytes' = bytes - SizeOf(DOMAIN bases \ Live)

\* Mutant of Insert: the body it replaces is not taken off the count.
InsertUncounted(rev) ==
  LET kept == Live \ {rev} IN
  \E gone \in Evictions(kept, rev) :
    /\ bases' = [r \in (kept \ gone) \cup {rev} |->
                   IF r = rev THEN TTL ELSE bases[r]]
    /\ bytes' = bytes - SizeOf((DOMAIN bases \ Live) \cup gone) + Size(rev.page)

Insert(rev) ==
  LET kept == Live \ {rev} IN
  \E gone \in Evictions(kept, rev) :
    /\ bases' = [r \in (kept \ gone) \cup {rev} |->
                   IF r = rev THEN TTL ELSE bases[r]]
    /\ bytes' = bytes - SizeOf((DOMAIN bases \ kept) \cup gone) + Size(rev.page)

\* Mutant of Reply: the same tasks in the same page pass for unchanged.
ReplySameIds(known, rev, accept) ==
  LET base == Previous(known, rev) /\ Size(rev.page) <= CacheBytes IN
  IF base /\ DOMAIN known.page = DOMAIN rev.page THEN "unchanged"
  ELSE IF base /\ accept THEN "delta" ELSE "cold"

Reply(known, rev, accept) ==
  LET base == Previous(known, rev) /\ Size(rev.page) <= CacheBytes IN
  IF base /\ known = rev THEN "unchanged"
  ELSE IF base /\ accept THEN "delta" ELSE "cold"

-----------------------------------------------------------------------------
(* The calls *)

Init ==
  /\ nonce = 0
  /\ bases = [r \in {} |-> 0] /\ bytes = 0
  /\ call = [k \in Calls |-> NoCall]
  /\ held = [c \in Consumers |-> NoSnapshot]

\* The revision a consumer may name: the one it retains, or none.
Knowable(c) ==
  {NoRevision} \cup IF held[c] = NoSnapshot THEN {} ELSE {held[c].rev}

\* The page is read and rendered, then exchanged under the lock.
Exchange(k, c, params, page, known, accept) ==
  LET rev == [nonce |-> nonce, params |-> params, page |-> page] IN
  /\ call[k] = NoCall
  /\ Versioned(page) /\ params \notin Stateless
  /\ known \in Knowable(c)
  /\ IF Size(page) > CacheBytes THEN KeepOut(rev) ELSE Insert(rev)
  /\ call' = [call EXCEPT ![k] = [by |-> c, rev |-> rev, known |-> known,
                                  reply |-> Reply(known, rev, accept)]]
  /\ UNCHANGED <<nonce, held>>

\* One lookup outcome serves the whole answer (myTasksCats).
Answer(k, lookup) ==
  /\ call[k] # NoCall
  /\ call' = [call EXCEPT ![k] = NoCall]
  /\ held' = [held EXCEPT ![call[k].by] = Received(call[k], @, lookup)]
  /\ UNCHANGED <<nonce, bases, bytes>>

\* A page without versions, or a stateless call: cold without a revision,
\* which leaves the consumer nothing to name.
AnswerUnconditionally(c, params, page) ==
  /\ ~Versioned(page) \/ params \in Stateless
  /\ held' = [held EXCEPT ![c] = NoSnapshot]
  /\ UNCHANGED <<nonce, bases, bytes, call>>

Tick ==
  /\ \E r \in DOMAIN bases : bases[r] > 0
  /\ bases' = [r \in DOMAIN bases |-> IF bases[r] > 0 THEN bases[r] - 1 ELSE 0]
  /\ UNCHANGED <<nonce, bytes, call, held>>

\* The process ends: cache, nonce and calls under way are lost with it.
Restart ==
  /\ nonce < MaxRestarts
  /\ nonce' = nonce + 1
  /\ bases' = [r \in {} |-> 0] /\ bytes' = 0
  /\ call' = [k \in Calls |-> NoCall]
  /\ UNCHANGED held

\* A consumer restarts or compacts its context.
Forget(c) ==
  /\ held[c] # NoSnapshot
  /\ held' = [held EXCEPT ![c] = NoSnapshot]
  /\ UNCHANGED <<nonce, bases, bytes, call>>

Next ==
  \/ \E k \in Calls, c \in Consumers, params \in Params, page \in Pages,
        accept \in BOOLEAN :
       \E known \in Knowable(c) : Exchange(k, c, params, page, known, accept)
  \/ \E k \in Calls, lookup \in Lookups : Answer(k, lookup)
  \/ \E c \in Consumers, params \in Params, page \in Pages :
       AnswerUnconditionally(c, params, page)
  \/ Tick
  \/ Restart
  \/ \E c \in Consumers : Forget(c)

Spec == Init /\ [][Next]_vars

-----------------------------------------------------------------------------
(* Properties *)

\* Types: the cache holds revisions of this process with at most TTL to run,
\* a call carries a reply, a snapshot carries the revision it was told with.
TypeOK ==
  /\ nonce \in 0..MaxRestarts
  /\ DOMAIN bases \subseteq Revision /\ IsFiniteSet(DOMAIN bases)
  /\ bases \in [DOMAIN bases -> 0..TTL]
  /\ \A r \in DOMAIN bases : r.nonce = nonce
  /\ call \in [Calls -> Busy \cup {NoCall}]
  /\ held = [c \in Consumers |-> held[c]]
  /\ \A c \in Consumers : held[c] # NoSnapshot => held[c].rev \in Revision

\* The cache holds to both its bounds, and its byte counter is the sum of the
\* bodies it retains: were it ever more, the eviction loop would empty the
\* cache, still see no room and spin under the lock (exchange).
EntriesBounded == Cardinality(DOMAIN bases) <= Entries
CacheBounded ==
  /\ EntriesBounded
  /\ bytes = SizeOf(DOMAIN bases)
  /\ bytes <= CacheBytes

\* What a consumer retains under a revision is a cold view of exactly the
\* page that revision names, however it was put together: by cold answers,
\* by deltas on deltas, by answers of calls that ran at once.  A description
\* that came with a delta is that of the version shown.
IsColdView(snapshot, lookup) ==
  /\ DOMAIN snapshot.tasks = InView(snapshot.rev.params, snapshot.rev.page, lookup)
  /\ \A t \in DOMAIN snapshot.tasks :
       \E text \in {Omitted, snapshot.rev.page[t].version} :
         snapshot.tasks[t] = Told(snapshot.rev.page[t], text)
  /\ snapshot.envelope = Envelope(snapshot.rev, lookup)
HeldIsColdView ==
  \A c \in Consumers : held[c] # NoSnapshot =>
    \E lookup \in Lookups : IsColdView(held[c], lookup)

\* The consumer holds the cold view, so a delta on the base it holds names no
\* task it neither holds nor is sent (renderMyTasks, the comment on view).
DeltaApplies ==
  \A k \in Calls : call[k] # NoCall /\ call[k].reply = "delta" =>
    LET m == call[k]
        snapshot == held[m.by]
    IN snapshot # NoSnapshot /\ snapshot.rev = m.known =>
         \A lookup \in Lookups : Applies(snapshot, m.known, m.rev, lookup)

\* An answer on the revision held never crosses a scope: neither another
\* filter's snapshot nor one of the process before is ever a base.
NeverAcrossScopes ==
  \A k \in Calls : call[k] # NoCall /\ call[k].reply # "cold" =>
    /\ call[k].known.params = call[k].rev.params
    /\ call[k].known.nonce = nonce

\* After an answer the consumer has what a cold response to the same call
\* would have shown it: the tests compare the two byte for byte.
AnswerIsFresh ==
  [][\A k \in Calls, lookup \in Lookups :
       LET m == call[k]
           before == held[m.by]
           after == held'[m.by]
           accepted == m.reply = "cold" \/ (before # NoSnapshot /\ before.rev = m.known)
       IN Answer(k, lookup) /\ accepted /\ after # NoSnapshot =>
            after.rev = m.rev /\ IsColdView(after, lookup)]_vars
=============================================================================
