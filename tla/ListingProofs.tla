--------------------------- MODULE ListingProofs ---------------------------
(***************************************************************************)
(* Proofs about the reads that list rows.                                  *)
(*                                                                         *)
(* MyTasksSnapshots: the number and the size of the bases, the scopes, and *)
(* the exactness of what a consumer rebuilds, for all pages, lookups,      *)
(* bounds and numbers of consumers and calls.                              *)
(*                                                                         *)
(* PageWalks: the row at each place of a listing (Indices and the lemmas   *)
(* after it), the size of a page and of what is kept of it, the windows    *)
(* that a tool reads (RowReader), what a reading misses, complete walks,   *)
(* and the paths and threads made of them.  A definition that recurs is    *)
(* reasoned about through the least number that would break it (Least).    *)
(***************************************************************************)
EXTENDS MyTasksSnapshots, PageWalks, FiniteSetTheorems, SequenceTheorems, TLAPS

\* An answer "unchanged" names the revision the consumer named itself.
UnchangedIsKnown ==
  \A k \in Calls : call[k] # NoCall /\ call[k].reply = "unchanged" =>
    call[k].known = call[k].rev

IInv == TypeOK /\ EntriesBounded /\ UnchangedIsKnown /\ NeverAcrossScopes
        /\ HeldIsColdView

-----------------------------------------------------------------------------
(* What a consumer is given *)

\* A cold answer is a cold view (compactMyTasksCold).
LEMMA ColdIsColdView ==
  ASSUME NEW rev \in Revision, NEW lookup \in Lookups
  PROVE  Cold(rev, lookup).rev = rev /\ IsColdView(Cold(rev, lookup), lookup)
BY DEF Cold, IsColdView, ColdTasks

\* A delta that applies to a cold view of its base gives a cold view of the
\* new page, whatever lookup the base was shown with (myTasksDelta).
LEMMA RebuiltIsColdView ==
  ASSUME NEW old \in Revision, NEW new \in Revision,
         NEW first \in Lookups, NEW lookup \in Lookups, NEW snapshot,
         snapshot.rev = old, IsColdView(snapshot, first),
         Applies(snapshot, old, new, lookup)
  PROVE  /\ Rebuilt(snapshot, old, new, lookup).rev = new
         /\ IsColdView(Rebuilt(snapshot, old, new, lookup), lookup)
<1> DEFINE r == Rebuilt(snapshot, old, new, lookup)
           V == InView(new.params, new.page, lookup)
           C == Changed(old, new, lookup)
<1>1. r.rev = new /\ r.envelope = Envelope(new, lookup)
  BY DEF Rebuilt
<1>2. DOMAIN r.tasks = V
  BY DEF Rebuilt
<1>3. ASSUME NEW t \in V
      PROVE  \E text \in {Omitted, new.page[t].version} :
               r.tasks[t] = Told(new.page[t], text)
  <2>1. CASE t \in C
    BY <2>1 DEF Rebuilt
  <2>2. CASE t \notin C
    <3>1. SameContent(old.page[t], new.page[t])
      BY <2>2 DEF Changed
    <3>2. t \in DOMAIN snapshot.tasks
      BY <2>2 DEF Applies
    <3>3. PICK text \in {Omitted, old.page[t].version} :
            snapshot.tasks[t] = Told(old.page[t], text)
      BY <3>2 DEF IsColdView
    <3>4. r.tasks[t] = [snapshot.tasks[t] EXCEPT !.place = new.page[t].place]
      BY <2>2 DEF Rebuilt
    <3>5. r.tasks[t] = Told(new.page[t], text)
      BY <3>1, <3>3, <3>4 DEF Told, SameContent
    <3> QED BY <3>1, <3>3, <3>5 DEF SameContent
  <2> QED BY <2>1, <2>2
<1> QED BY <1>1, <1>2, <1>3 DEF IsColdView

\* What an answer leaves the consumer with is a cold view again.
LEMMA ReceivedIsColdView ==
  ASSUME NEW m \in Busy, NEW lookup \in Lookups, NEW snapshot,
         snapshot # NoSnapshot => /\ snapshot.rev \in Revision
                                  /\ \E l \in Lookups : IsColdView(snapshot, l),
         Received(m, snapshot, lookup) # NoSnapshot
  PROVE  /\ Received(m, snapshot, lookup).rev \in Revision
         /\ \E l \in Lookups : IsColdView(Received(m, snapshot, lookup), l)
<1>1. m.rev \in Revision /\ m.reply \in {"unchanged", "delta", "cold"}
  BY DEF Busy
<1>2. CASE m.reply = "cold"
  BY <1>1, <1>2, ColdIsColdView DEF Received
<1>3. CASE m.reply = "unchanged"
  BY <1>3 DEF Received
<1>4. CASE m.reply = "delta"
  <2>1. /\ snapshot # NoSnapshot /\ snapshot.rev = m.known
        /\ Applies(snapshot, m.known, m.rev, lookup)
        /\ Received(m, snapshot, lookup) = Rebuilt(snapshot, m.known, m.rev, lookup)
    BY <1>4 DEF Received
  <2>2. PICK first \in Lookups : IsColdView(snapshot, first)
    BY <2>1
  <2>3. m.known \in Revision
    BY <2>1
  <2> QED BY <1>1, <2>1, <2>2, <2>3, RebuiltIsColdView
<1> QED BY <1>1, <1>2, <1>3, <1>4

-----------------------------------------------------------------------------
(* The cache *)

\* Dropping bases keeps the cache well formed and within its bound.
LEMMA RetainBounded ==
  ASSUME TypeOK, EntriesBounded, NEW S \in SUBSET DOMAIN bases
  PROVE  /\ IsFiniteSet(S) /\ Cardinality(S) <= Entries
         /\ Retain(S) \in [S -> 0..TTL]
         /\ S \subseteq Revision /\ \A r \in S : r.nonce = nonce
<1>1. IsFiniteSet(S) /\ Cardinality(S) <= Cardinality(DOMAIN bases)
  BY FS_Subset DEF TypeOK
<1>2. Cardinality(S) \in Nat /\ Cardinality(DOMAIN bases) \in Nat
  BY <1>1, FS_CardinalityType DEF TypeOK
<1>3. Retain(S) \in [S -> 0..TTL]
  BY DEF Retain, TypeOK
<1>4. Cardinality(S) <= Entries
  BY <1>1, <1>2, BoundsAssumption DEF EntriesBounded
<1> QED BY <1>1, <1>3, <1>4 DEF TypeOK

\* exchange: after the eviction loop there is room for one more base.
LEMMA InsertBounded ==
  ASSUME TypeOK, EntriesBounded, NEW rev \in Revision, rev.nonce = nonce,
         Insert(rev)
  PROVE  /\ DOMAIN bases' \subseteq Revision /\ IsFiniteSet(DOMAIN bases')
         /\ bases' \in [DOMAIN bases' -> 0..TTL]
         /\ \A r \in DOMAIN bases' : r.nonce = nonce
         /\ Cardinality(DOMAIN bases') <= Entries
<1> DEFINE kept == Live \ {rev}
<1>1. PICK gone \in Evictions(kept, rev) :
        bases' = [r \in (kept \ gone) \cup {rev} |->
                    IF r = rev THEN TTL ELSE bases[r]]
  BY DEF Insert
<1> DEFINE S == kept \ gone
<1>2. Cardinality(S) < Entries
  BY <1>1 DEF Evictions, Fits
<1>3. S \subseteq DOMAIN bases /\ rev \notin S
  BY DEF Live
<1>4. IsFiniteSet(S) /\ S \subseteq Revision /\ \A r \in S : r.nonce = nonce
  BY <1>3, RetainBounded
<1>5. DOMAIN bases' = S \cup {rev}
  BY <1>1
<1>6. IsFiniteSet(S \cup {rev}) /\ Cardinality(S \cup {rev}) = Cardinality(S) + 1
  BY <1>3, <1>4, FS_AddElement
<1>7. Cardinality(S) \in Nat
  BY <1>4, FS_CardinalityType
<1>8. Cardinality(S \cup {rev}) <= Entries
  BY <1>2, <1>6, <1>7, BoundsAssumption
<1>9. TTL \in 0..TTL
  BY BoundsAssumption
<1>10. \A r \in S : bases[r] \in 0..TTL
  BY <1>3 DEF TypeOK
<1>11. bases' \in [S \cup {rev} -> 0..TTL]
  BY <1>1, <1>9, <1>10
<1> HIDE DEF S
<1> QED BY <1>4, <1>5, <1>6, <1>8, <1>11

-----------------------------------------------------------------------------
(* The byte counter *)

\* A set of bodies whose size is a number: they are finitely many, and all
\* their tasks together are.
Countable(revs) == IsFiniteSet(revs) /\ IsFiniteSet(Rows(revs))

Counted == Countable(DOMAIN bases) /\ bytes = SizeOf(DOMAIN bases) /\ bytes <= CacheBytes

LEMMA NothingCounted == Countable({}) /\ SizeOf({}) = 0
<1>1. Rows({}) = {}
  BY DEF Rows
<1> QED BY <1>1, FS_EmptySet DEF Countable, SizeOf

\* What the cache takes a body to weigh is what SizeOf adds for it.
LEMMA OneCounted ==
  ASSUME NEW rev, IsFiniteSet(DOMAIN rev.page)
  PROVE  Countable({rev}) /\ SizeOf({rev}) = Size(rev.page)
<1>1. Rows({rev}) = {rev} \X DOMAIN rev.page
  BY DEF Rows
<1>2. IsFiniteSet({rev}) /\ Cardinality({rev}) = 1
  BY FS_Singleton
<1>3. /\ IsFiniteSet({rev} \X DOMAIN rev.page)
      /\ Cardinality({rev} \X DOMAIN rev.page) = 1 * Cardinality(DOMAIN rev.page)
  BY <1>2, FS_Product
<1>4. Cardinality(DOMAIN rev.page) \in Nat
  BY FS_CardinalityType
<1>5. Cardinality({rev} \X DOMAIN rev.page) = Cardinality(DOMAIN rev.page)
  BY <1>3, <1>4
<1>6. Countable({rev})
  BY <1>1, <1>2, <1>3 DEF Countable
<1>7. SizeOf({rev}) = 1 + Cardinality(DOMAIN rev.page)
  BY <1>1, <1>2, <1>5 DEF SizeOf
<1> QED BY <1>4, <1>6, <1>7 DEF Size

LEMMA FewerCounted ==
  ASSUME NEW S, NEW T \in SUBSET S, Countable(S)
  PROVE  Countable(T)
<1>1. Rows(T) \subseteq Rows(S)
  BY DEF Rows
<1> QED BY <1>1, FS_Subset DEF Countable

LEMMA CardinalityApart ==
  ASSUME NEW A, NEW B, IsFiniteSet(A), IsFiniteSet(B), A \cap B = {}
  PROVE  /\ IsFiniteSet(A \cup B)
         /\ Cardinality(A) \in Nat /\ Cardinality(B) \in Nat
         /\ Cardinality(A \cup B) = Cardinality(A) + Cardinality(B)
<1>1. Cardinality(A) \in Nat /\ Cardinality(B) \in Nat
  BY FS_CardinalityType
<1>2. Cardinality(A \cap B) = 0
  BY FS_EmptySet
<1>3. /\ IsFiniteSet(A \cup B)
      /\ Cardinality(A \cup B) = Cardinality(A) + Cardinality(B) - Cardinality(A \cap B)
  BY FS_Union
<1> QED BY <1>1, <1>2, <1>3

\* The sizes of bodies kept apart add up.
LEMMA CountedApart ==
  ASSUME NEW S, NEW T, Countable(S), Countable(T), S \cap T = {}
  PROVE  /\ Countable(S \cup T)
         /\ SizeOf(S \cup T) = SizeOf(S) + SizeOf(T)
         /\ SizeOf(S) \in Nat /\ SizeOf(T) \in Nat
<1>1. Rows(S \cup T) = Rows(S) \cup Rows(T) /\ Rows(S) \cap Rows(T) = {}
  BY DEF Rows
<1>2. /\ IsFiniteSet(S \cup T) /\ Cardinality(S) \in Nat /\ Cardinality(T) \in Nat
      /\ Cardinality(S \cup T) = Cardinality(S) + Cardinality(T)
  BY CardinalityApart DEF Countable
<1>3. /\ IsFiniteSet(Rows(S) \cup Rows(T))
      /\ Cardinality(Rows(S)) \in Nat /\ Cardinality(Rows(T)) \in Nat
      /\ Cardinality(Rows(S) \cup Rows(T)) = Cardinality(Rows(S)) + Cardinality(Rows(T))
  BY <1>1, CardinalityApart DEF Countable
<1>4. Countable(S \cup T)
  BY <1>1, <1>2, <1>3 DEF Countable
<1>5. SizeOf(S \cup T) =
        (Cardinality(S) + Cardinality(T)) + (Cardinality(Rows(S)) + Cardinality(Rows(T)))
  BY <1>1, <1>2, <1>3 DEF SizeOf
<1>6. SizeOf(S) \in Nat /\ SizeOf(T) \in Nat
  BY <1>2, <1>3 DEF SizeOf
<1>7. SizeOf(S \cup T) = SizeOf(S) + SizeOf(T)
  BY <1>2, <1>3, <1>5 DEF SizeOf
<1> QED BY <1>4, <1>6, <1>7

\* What goes is taken off the counter, all of it, once.
LEMMA TakenOff ==
  ASSUME Counted, NEW gone \in SUBSET DOMAIN bases
  PROVE  /\ Countable(DOMAIN bases \ gone)
         /\ bytes - SizeOf(gone) = SizeOf(DOMAIN bases \ gone)
         /\ SizeOf(DOMAIN bases \ gone) \in Nat
         /\ SizeOf(DOMAIN bases \ gone) <= CacheBytes
<1>1. Countable(gone) /\ Countable(DOMAIN bases \ gone)
  BY FewerCounted DEF Counted
<1>2. (DOMAIN bases \ gone) \cup gone = DOMAIN bases
  OBVIOUS
<1>3. /\ SizeOf(DOMAIN bases) = SizeOf(DOMAIN bases \ gone) + SizeOf(gone)
      /\ SizeOf(DOMAIN bases \ gone) \in Nat /\ SizeOf(gone) \in Nat
  <2>1. (DOMAIN bases \ gone) \cap gone = {}
    OBVIOUS
  <2> QED BY <1>1, <1>2, <2>1, CountedApart
<1> QED BY <1>1, <1>3, BoundsAssumption DEF Counted

LEMMA InsertCounted ==
  ASSUME TypeOK, Counted, NEW rev \in Revision, Insert(rev)
  PROVE  Counted'
<1> DEFINE kept == Live \ {rev}
<1>1. PICK gone \in Evictions(kept, rev) :
        /\ bases' = [r \in (kept \ gone) \cup {rev} |->
                       IF r = rev THEN TTL ELSE bases[r]]
        /\ bytes' = bytes - SizeOf((DOMAIN bases \ kept) \cup gone) + Size(rev.page)
  BY DEF Insert
<1> DEFINE out == (DOMAIN bases \ kept) \cup gone
           in == kept \ gone
<1>2. gone \subseteq kept /\ kept \subseteq DOMAIN bases
  BY DEF Evictions, Live
<1>3. bytes - SizeOf(out) + Size(rev.page) <= CacheBytes
  BY <1>1 DEF Evictions, Fits
<1>4. out \in SUBSET DOMAIN bases /\ DOMAIN bases \ out = in /\ in \cap {rev} = {}
  BY <1>2
<1>5. DOMAIN bases' = in \cup {rev}
  BY <1>1
<1>6. bytes' = bytes - SizeOf(out) + Size(rev.page)
  BY <1>1
<1>7. IsFiniteSet(DOMAIN rev.page)
  BY DataAssumption DEF Revision
<1> HIDE DEF in, out
<1>8. Countable(in) /\ bytes - SizeOf(out) = SizeOf(in)
  BY <1>4, TakenOff
<1>9. Countable({rev}) /\ SizeOf({rev}) = Size(rev.page)
  BY <1>7, OneCounted
<1>10. /\ Countable(in \cup {rev})
       /\ SizeOf(in \cup {rev}) = SizeOf(in) + SizeOf({rev})
  BY <1>4, <1>8, <1>9, CountedApart
<1> QED BY <1>3, <1>5, <1>6, <1>8, <1>9, <1>10 DEF Counted

LEMMA CountedStep ==
  ASSUME TypeOK, Counted, [Next]_vars
  PROVE  Counted'
<1>1. CASE UNCHANGED <<bases, bytes>>
  BY <1>1 DEF Counted
<1>2. ASSUME NEW k \in Calls, NEW c \in Consumers, NEW params \in Params,
             NEW list \in Pages, NEW accept \in BOOLEAN, NEW known,
             Exchange(k, c, params, list, known, accept)
      PROVE  Counted'
  <2> DEFINE rev == [nonce |-> nonce, params |-> params, page |-> list]
  <2>1. rev \in Revision
    BY DEF TypeOK, Revision
  <2>2. CASE Insert(rev)
    BY <2>1, <2>2, InsertCounted
  <2>3. CASE KeepOut(rev)
    <3>1. Live \subseteq DOMAIN bases /\ DOMAIN bases \ (DOMAIN bases \ Live) = Live
      BY DEF Live
    <3>2. DOMAIN bases' = Live /\ bytes' = bytes - SizeOf(DOMAIN bases \ Live)
      BY <2>3 DEF KeepOut, Retain
    <3>3. /\ Countable(Live) /\ bytes - SizeOf(DOMAIN bases \ Live) = SizeOf(Live)
          /\ SizeOf(Live) <= CacheBytes
      <4>1. DOMAIN bases \ Live \in SUBSET DOMAIN bases
        OBVIOUS
      <4> QED BY <3>1, <4>1, TakenOff
    <3> QED BY <3>2, <3>3 DEF Counted
  <2> QED BY <1>2, <2>2, <2>3 DEF Exchange
<1>3. CASE Tick
  <2>1. DOMAIN bases' = DOMAIN bases /\ bytes' = bytes
    BY <1>3 DEF Tick
  <2> QED BY <2>1 DEF Counted
<1>4. CASE Restart
  <2>1. DOMAIN bases' = {} /\ bytes' = 0
    BY <1>4 DEF Restart
  <2> QED BY <2>1, NothingCounted, BoundsAssumption DEF Counted
<1> QED BY <1>1, <1>2, <1>3, <1>4 DEF Next, Answer, AnswerUnconditionally, Forget, vars

-----------------------------------------------------------------------------
(* The invariant *)

\* A cache emptied or not yet used is within its bound.
LEMMA EmptyBounded ==
  /\ DOMAIN [r \in {} |-> 0] = {} /\ IsFiniteSet({})
  /\ Cardinality({}) <= Entries
  /\ [r \in {} |-> 0] \in [{} -> 0..TTL]
<1>1. IsFiniteSet({}) /\ Cardinality({}) = 0
  BY FS_EmptySet
<1> QED BY <1>1, BoundsAssumption

LEMMA InitInv == Init => IInv
<1> SUFFICES ASSUME Init PROVE IInv
  OBVIOUS
<1>1. DOMAIN bases = {}
  BY DEF Init
<1>2. TypeOK
  <2>1. nonce \in 0..MaxRestarts
    BY BoundsAssumption DEF Init
  <2>2. /\ DOMAIN bases \subseteq Revision /\ IsFiniteSet(DOMAIN bases)
        /\ bases \in [DOMAIN bases -> 0..TTL]
        /\ \A r \in DOMAIN bases : r.nonce = nonce
    BY <1>1, EmptyBounded DEF Init
  <2>3. call \in [Calls -> Busy \cup {NoCall}]
    BY DEF Init
  <2>4. /\ held = [c \in Consumers |-> held[c]]
        /\ \A c \in Consumers : held[c] # NoSnapshot => held[c].rev \in Revision
    BY DEF Init
  <2> QED BY <2>1, <2>2, <2>3, <2>4 DEF TypeOK
<1>3. EntriesBounded
  BY <1>1, EmptyBounded DEF EntriesBounded
<1>4. UnchangedIsKnown /\ NeverAcrossScopes
  BY DEF Init, UnchangedIsKnown, NeverAcrossScopes
<1>5. HeldIsColdView
  BY DEF Init, HeldIsColdView
<1> QED BY <1>2, <1>3, <1>4, <1>5 DEF IInv

\* exchange builds a reply only on a base of the call's own scope, and says
\* unchanged only of the revision that was named.
LEMMA ReplyInScope ==
  ASSUME NEW known, NEW rev, NEW accept
  PROVE  /\ Reply(known, rev, accept) \in {"unchanged", "delta", "cold"}
         /\ Reply(known, rev, accept) # "cold" =>
              known.params = rev.params /\ known.nonce = rev.nonce
         /\ Reply(known, rev, accept) = "unchanged" => known = rev
BY DEF Reply, Previous

LEMMA ExchangeInv ==
  ASSUME IInv, NEW k \in Calls, NEW c \in Consumers, NEW params \in Params,
         NEW list \in Pages, NEW accept \in BOOLEAN, NEW known \in Knowable(c),
         Exchange(k, c, params, list, known, accept)
  PROVE  IInv'
<1> DEFINE rev == [nonce |-> nonce, params |-> params, page |-> list]
           m == [by |-> c, rev |-> rev, known |-> known,
                 reply |-> Reply(known, rev, accept)]
<1> USE DEF IInv
<1>1. rev \in Revision /\ rev.nonce = nonce
  BY DEF TypeOK, Revision
<1>2. known \in Revision \cup {NoRevision}
  BY DEF Knowable, TypeOK
<1>3. m \in Busy
  BY <1>1, <1>2, ReplyInScope DEF Busy
<1>4. call' = [call EXCEPT ![k] = m] /\ UNCHANGED <<nonce, held>>
  BY DEF Exchange
<1>5. /\ DOMAIN bases' \subseteq Revision /\ IsFiniteSet(DOMAIN bases')
      /\ bases' \in [DOMAIN bases' -> 0..TTL]
      /\ \A r \in DOMAIN bases' : r.nonce = nonce
      /\ Cardinality(DOMAIN bases') <= Entries
  <2>1. CASE Insert(rev)
    BY <1>1, <2>1, InsertBounded
  <2>2. CASE KeepOut(rev)
    <3>1. Live \in SUBSET DOMAIN bases
      BY DEF Live
    <3>2. bases' = Retain(Live) /\ DOMAIN bases' = Live
      BY <2>2 DEF KeepOut, Retain
    <3> QED BY <3>1, <3>2, RetainBounded
  <2> QED BY <2>1, <2>2 DEF Exchange
<1>6. TypeOK'
  <2>1. call' \in [Calls -> Busy \cup {NoCall}]
    BY <1>3, <1>4 DEF TypeOK
  <2> HIDE DEF m, rev
  <2> QED BY <1>4, <1>5, <2>1 DEF TypeOK
<1>7. EntriesBounded'
  BY <1>5 DEF EntriesBounded
<1>8. call'[k] = m /\ \A j \in Calls \ {k} : call'[j] = call[j]
  BY <1>4 DEF TypeOK
<1>9. m.known = known /\ m.rev = rev /\ m.reply = Reply(known, rev, accept)
  OBVIOUS
<1>10. UnchangedIsKnown'
  <2> SUFFICES ASSUME NEW j \in Calls, call'[j] # NoCall,
                      call'[j].reply = "unchanged"
               PROVE  call'[j].known = call'[j].rev
    BY DEF UnchangedIsKnown
  <2>1. CASE j = k
    BY <1>8, <1>9, <2>1, ReplyInScope
  <2>2. CASE j # k
    BY <1>8, <2>2 DEF UnchangedIsKnown
  <2> QED BY <2>1, <2>2
<1>11. NeverAcrossScopes'
  <2> SUFFICES ASSUME NEW j \in Calls, call'[j] # NoCall, call'[j].reply # "cold"
               PROVE  /\ call'[j].known.params = call'[j].rev.params
                      /\ call'[j].known.nonce = nonce
    BY <1>4 DEF NeverAcrossScopes
  <2>1. CASE j = k
    BY <1>1, <1>8, <1>9, <2>1, ReplyInScope
  <2>2. CASE j # k
    BY <1>8, <2>2 DEF NeverAcrossScopes
  <2> QED BY <2>1, <2>2
<1>12. HeldIsColdView'
  BY <1>4 DEF HeldIsColdView
<1> QED BY <1>6, <1>7, <1>10, <1>11, <1>12

LEMMA AnswerInv ==
  ASSUME IInv, NEW k \in Calls, NEW lookup \in Lookups, Answer(k, lookup)
  PROVE  IInv'
<1> USE DEF IInv
<1> DEFINE m == call[k]
           after == Received(m, held[m.by], lookup)
<1>1. m \in Busy /\ m.by \in Consumers
  BY DEF Answer, TypeOK, Busy
<1>2. /\ call' = [call EXCEPT ![k] = NoCall]
      /\ UNCHANGED <<nonce, bases, bytes>>
      /\ held' = [held EXCEPT ![m.by] = after]
  BY DEF Answer
<1>3. held'[m.by] = after /\ \A c \in Consumers \ {m.by} : held'[c] = held[c]
  BY <1>1, <1>2 DEF TypeOK
<1>4. held' = [c \in Consumers |-> held'[c]]
  BY <1>1, <1>2 DEF TypeOK
<1>5. after # NoSnapshot => /\ after.rev \in Revision
                            /\ \E l \in Lookups : IsColdView(after, l)
  BY <1>1, ReceivedIsColdView DEF TypeOK, HeldIsColdView
<1>6. \A j \in Calls : call'[j] # NoCall => call'[j] = call[j]
  BY <1>2 DEF TypeOK
<1>7. TypeOK'
  <2>1. call' \in [Calls -> Busy \cup {NoCall}]
    BY <1>2 DEF TypeOK
  <2>2. \A c \in Consumers : held'[c] # NoSnapshot => held'[c].rev \in Revision
    BY <1>3, <1>5 DEF TypeOK
  <2> HIDE DEF m, after
  <2> QED BY <1>2, <1>4, <2>1, <2>2 DEF TypeOK
<1>8. EntriesBounded'
  BY <1>2 DEF EntriesBounded
<1>9. UnchangedIsKnown' /\ NeverAcrossScopes'
  BY <1>2, <1>6 DEF UnchangedIsKnown, NeverAcrossScopes
<1>10. HeldIsColdView'
  BY <1>3, <1>5 DEF HeldIsColdView
<1> QED BY <1>7, <1>8, <1>9, <1>10

\* A consumer that is left with nothing disturbs nobody.
LEMMA DropInv ==
  ASSUME IInv, NEW c \in Consumers, held' = [held EXCEPT ![c] = NoSnapshot],
         UNCHANGED <<nonce, bases, bytes, call>>
  PROVE  IInv'
<1> USE DEF IInv
<1>1. /\ held'[c] = NoSnapshot
      /\ \A d \in Consumers \ {c} : held'[d] = held[d]
      /\ held' = [d \in Consumers |-> held'[d]]
  BY DEF TypeOK
<1>2. TypeOK'
  BY <1>1 DEF TypeOK
<1>3. HeldIsColdView'
  BY <1>1 DEF HeldIsColdView
<1> QED BY <1>2, <1>3 DEF EntriesBounded, UnchangedIsKnown, NeverAcrossScopes

LEMMA TickInv == IInv /\ Tick => IInv'
<1> SUFFICES ASSUME IInv, Tick PROVE IInv'
  OBVIOUS
<1> USE DEF IInv
<1>1. /\ DOMAIN bases' = DOMAIN bases
      /\ \A r \in DOMAIN bases : bases'[r] = IF bases[r] > 0 THEN bases[r] - 1 ELSE 0
      /\ UNCHANGED <<nonce, bytes, call, held>>
  BY DEF Tick
<1>2. bases' \in [DOMAIN bases' -> 0..TTL]
  <2>1. ASSUME NEW r \in DOMAIN bases
        PROVE (IF bases[r] > 0 THEN bases[r] - 1 ELSE 0) \in 0..TTL
    <3>1. bases[r] \in 0..TTL
      BY DEF TypeOK
    <3> QED BY <3>1, BoundsAssumption
  <2> QED BY <2>1 DEF Tick
<1>3. TypeOK'
  BY <1>1, <1>2 DEF TypeOK
<1> QED BY <1>1, <1>3 DEF EntriesBounded, UnchangedIsKnown, NeverAcrossScopes,
                          HeldIsColdView

LEMMA RestartInv == IInv /\ Restart => IInv'
<1> SUFFICES ASSUME IInv, Restart PROVE IInv'
  OBVIOUS
<1> USE DEF IInv
<1>1. nonce' \in 0..MaxRestarts
  <2>1. nonce \in 0..MaxRestarts /\ nonce < MaxRestarts /\ nonce' = nonce + 1
    BY DEF TypeOK, Restart
  <2> QED BY <2>1, BoundsAssumption
<1>2. DOMAIN bases' = {} /\ bases' \in [DOMAIN bases' -> 0..TTL]
  BY EmptyBounded DEF Restart
<1>3. call' \in [Calls -> Busy \cup {NoCall}] /\ \A k \in Calls : call'[k] = NoCall
  BY DEF Restart
<1>4. held' = held
  BY DEF Restart
<1>5. TypeOK'
  <2>1. IsFiniteSet(DOMAIN bases') /\ DOMAIN bases' \subseteq Revision
    BY <1>2, EmptyBounded
  <2> QED BY <1>1, <1>2, <1>3, <1>4, <2>1 DEF TypeOK
<1>6. EntriesBounded'
  BY <1>2, EmptyBounded DEF EntriesBounded
<1>7. UnchangedIsKnown' /\ NeverAcrossScopes'
  BY <1>3 DEF UnchangedIsKnown, NeverAcrossScopes
<1>8. HeldIsColdView'
  BY <1>4 DEF HeldIsColdView
<1> QED BY <1>5, <1>6, <1>7, <1>8

LEMMA NextInv == IInv /\ [Next]_vars => IInv'
<1> SUFFICES ASSUME IInv, [Next]_vars PROVE IInv'
  OBVIOUS
<1>1. ASSUME NEW k \in Calls, NEW c \in Consumers, NEW params \in Params,
             NEW list \in Pages, NEW accept \in BOOLEAN, NEW known \in Knowable(c),
             Exchange(k, c, params, list, known, accept)
      PROVE  IInv'
  BY <1>1, ExchangeInv
<1>2. ASSUME NEW k \in Calls, NEW lookup \in Lookups, Answer(k, lookup)
      PROVE  IInv'
  BY <1>2, AnswerInv
<1>3. ASSUME NEW c \in Consumers, NEW params \in Params, NEW list \in Pages,
             AnswerUnconditionally(c, params, list)
      PROVE  IInv'
  BY <1>3, DropInv DEF AnswerUnconditionally
<1>4. CASE Tick
  BY <1>4, TickInv
<1>5. CASE Restart
  BY <1>5, RestartInv
<1>6. ASSUME NEW c \in Consumers, Forget(c)
      PROVE  IInv'
  BY <1>6, DropInv DEF Forget
<1>7. CASE UNCHANGED vars
  BY <1>7 DEF vars, IInv, TypeOK, EntriesBounded, UnchangedIsKnown,
              NeverAcrossScopes, HeldIsColdView
<1> QED BY <1>1, <1>2, <1>3, <1>4, <1>5, <1>6, <1>7 DEF Next

LEMMA Invariance == Spec => []IInv
BY InitInv, NextInv, PTL DEF Spec

-----------------------------------------------------------------------------
(* The theorems *)

\* Type correctness of the cache, the calls and the snapshots.
THEOREM TypeCorrect == Spec => []TypeOK
<1>1. IInv => TypeOK
  BY DEF IInv
<1> QED BY <1>1, Invariance, PTL

\* The cache never holds more than myTasksCacheEntries bases.
THEOREM EntriesBoundedHolds == Spec => []EntriesBounded
<1>1. IInv => EntriesBounded
  BY DEF IInv
<1> QED BY <1>1, Invariance, PTL

\* Nor more bytes than myTasksCacheBytes, and the counter it goes by is what the
\* bases it holds add up to, whatever is replaced, evicted or has expired: the
\* eviction loop never sees an empty cache without room.
THEOREM CacheBoundedHolds == Spec => []CacheBounded
<1>1. Init => Counted
  <2>1. ASSUME Init PROVE Counted
    <3>1. DOMAIN bases = {} /\ bytes = 0
      BY <2>1 DEF Init
    <3> QED BY <3>1, NothingCounted, BoundsAssumption DEF Counted
  <2> QED BY <2>1
<1>2. Counted /\ EntriesBounded => CacheBounded
  BY DEF Counted, CacheBounded
<1>3. TypeOK /\ Counted /\ [Next]_vars => Counted'
  BY CountedStep
<1> QED BY <1>1, <1>2, <1>3, TypeCorrect, EntriesBoundedHolds, PTL DEF Spec

\* An unchanged or delta answer is built on a base of the call's own scope.
THEOREM NeverAcrossScopesHolds == Spec => []NeverAcrossScopes
<1>1. IInv => NeverAcrossScopes
  BY DEF IInv
<1> QED BY <1>1, Invariance, PTL

\* Whatever the lookups answer, what a consumer retains under a revision is a
\* cold view of exactly the page the revision names.
THEOREM HeldIsColdViewHolds == Spec => []HeldIsColdView
<1>1. IInv => HeldIsColdView
  BY DEF IInv
<1> QED BY <1>1, Invariance, PTL

\* While status lookups always say the same, no delta on the base a consumer
\* holds names a task it neither holds nor is sent.
THEOREM DeltaAppliesHolds ==
  ASSUME NEW steady \in Lookups, Lookups = {steady}
  PROVE  Spec => []DeltaApplies
<1>1. IInv => DeltaApplies
  <2> SUFFICES ASSUME IInv, NEW k \in Calls, call[k] # NoCall,
                      held[call[k].by] # NoSnapshot,
                      held[call[k].by].rev = call[k].known,
                      NEW lookup \in Lookups
               PROVE  Applies(held[call[k].by], call[k].known, call[k].rev, lookup)
    BY DEF DeltaApplies
  <2>1. call[k].by \in Consumers
    BY DEF IInv, TypeOK, Busy
  <2>2. IsColdView(held[call[k].by], lookup)
    BY <2>1 DEF IInv, HeldIsColdView
  <2>3. DOMAIN held[call[k].by].tasks =
          InView(call[k].known.params, call[k].known.page, lookup)
    BY <2>2 DEF IsColdView
  <2> QED BY <2>3 DEF Applies, Changed
<1> QED BY <1>1, Invariance, PTL

\* While status lookups always say the same, an answer leaves the consumer with
\* what a cold response to that call would have shown.
THEOREM AnswerIsFreshHolds ==
  ASSUME NEW steady \in Lookups, Lookups = {steady}
  PROVE  Spec => AnswerIsFresh
<1> DEFINE Fresh(k, lookup) ==
      LET m == call[k]
          before == held[m.by]
          after == held'[m.by]
          accepted == m.reply = "cold" \/ (before # NoSnapshot /\ before.rev = m.known)
      IN Answer(k, lookup) /\ accepted /\ after # NoSnapshot =>
           after.rev = m.rev /\ IsColdView(after, lookup)
<1>1. ASSUME IInv, IInv', NEW k \in Calls, NEW lookup \in Lookups
      PROVE  Fresh(k, lookup)
  <2> DEFINE m == call[k]
             before == held[m.by]
             after == held'[m.by]
  <2> SUFFICES ASSUME Answer(k, lookup), after # NoSnapshot,
                      m.reply = "cold" \/ (before # NoSnapshot /\ before.rev = m.known)
               PROVE  after.rev = m.rev /\ IsColdView(after, lookup)
    OBVIOUS
  <2>1. m \in Busy /\ m # NoCall /\ m.by \in Consumers
    BY <1>1 DEF Answer, IInv, TypeOK, Busy
  <2>2. after = Received(m, before, lookup)
    BY <1>1, <2>1 DEF Answer, IInv, TypeOK
  <2>3. IsColdView(after, lookup)
    BY <1>1, <2>1 DEF IInv, HeldIsColdView
  <2>4. after.rev = m.rev
    <3>1. CASE m.reply = "cold"
      BY <2>2, <3>1 DEF Received, Cold
    <3>2. CASE m.reply = "unchanged"
      <4>1. m.known = m.rev
        BY <1>1, <2>1, <3>2 DEF IInv, UnchangedIsKnown
      <4> QED BY <2>2, <3>2, <4>1 DEF Received
    <3>3. CASE m.reply = "delta"
      <4>1. after = Rebuilt(before, m.known, m.rev, lookup)
        BY <2>2, <3>3 DEF Received
      <4>2. Rebuilt(before, m.known, m.rev, lookup).rev = m.rev
        BY DEF Rebuilt
      <4> QED BY <4>1, <4>2
    <3> QED BY <2>1, <3>1, <3>2, <3>3 DEF Busy
  <2> QED BY <2>3, <2>4
<1>2. IInv /\ IInv' => \A k \in Calls, lookup \in Lookups : Fresh(k, lookup)
  BY <1>1
<1>3. IInv /\ IInv' /\ [Next]_vars =>
        [\A k \in Calls, lookup \in Lookups : Fresh(k, lookup)]_vars
  BY <1>2
<1> QED BY <1>3, Invariance, PTL DEF Spec, AnswerIsFresh

-----------------------------------------------------------------------------
(***************************************************************************)
(* Numbers.                                                                *)
(***************************************************************************)
\* A set of numbers has a least one, and one that is bounded a greatest.
LEMMA Least ==
  ASSUME NEW S \in SUBSET Nat, S # {}
  PROVE  \E n \in S : \A m \in S : n <= m
<1> DEFINE R == {p \in Nat \X Nat : p[1] < p[2]}
<1>1. IsWellFoundedOn(R, Nat)
  BY NatLessThanWellFounded, Zenon DEF OpToRel
<1> HIDE DEF R
<1>2. PICK n \in S : \A m \in S : ~ (<<m, n>> \in R)
  BY <1>1, WFMin
<1>3. \A m \in S : ~(m < n)
  BY <1>2 DEF R
<1>. QED
  BY <1>3

LEMMA Greatest ==
  ASSUME NEW b \in Nat, NEW S \in SUBSET (0..b), S # {}
  PROVE  \E n \in S : \A m \in S : m <= n
<1> DEFINE T == {b - m : m \in S}
<1>1. T \in SUBSET Nat /\ T # {}
  <2>1. \A m \in S : m \in 0..b /\ b - m \in Nat
    OBVIOUS
  <2>. QED
    BY <2>1
<1>2. PICK k \in T : \A m \in T : k <= m
  BY <1>1, Least
<1>3. PICK n \in S : k = b - n
  BY <1>2
<1>4. \A m \in S : b - m \in T
  OBVIOUS
<1> HIDE DEF T
<1>5. \A m \in S : b - n <= b - m
  BY <1>2, <1>3, <1>4
<1>. QED
  BY <1>3, <1>5

-----------------------------------------------------------------------------
(***************************************************************************)
(* The order of the rows.                                                  *)
(***************************************************************************)
LEMMA Indices ==
  /\ IsFiniteSet(Row)
  /\ \A r \in Row : Index[r] \in 1..Len(Order) /\ Order[Index[r]] = r
  /\ \A r, s \in Row : Index[r] = Index[s] => r = s
<1>1. \A r \in Row : Index[r] \in 1..Len(Order) /\ Order[Index[r]] = r
  BY DEF Row, Index
<1>2. \A r, s \in Row : Index[r] = Index[s] => r = s
  BY <1>1
<1>3. Index \in Injection(Row, 1..Len(Order))
  <2>1. Index \in [Row -> 1..Len(Order)]
    BY <1>1 DEF Index
  <2>. QED
    BY <1>2, <2>1 DEF Injection, IsInjective
<1>4. Len(Order) \in Nat
  BY RowsAssumption, LenProperties
<1>5. IsFiniteSet(1..Len(Order))
  BY <1>4, FS_Interval
<1>. QED
  BY <1>1, <1>2, <1>3, <1>5, FS_Injection

\* The rows of v listed before r.
Preceding(v, r) == {s \in v : Index[s] < Index[r]}

LEMMA Listable ==
  ASSUME NEW v \in SUBSET Row
  PROVE  IsFiniteSet(v) /\ Cardinality(v) \in Nat
BY Indices, FS_Subset, FS_CardinalityType

\* The rows of v have different places, from 0 on, in the order of the API.
LEMMA Places ==
  ASSUME NEW v \in SUBSET Row
  PROVE  /\ \A r \in Row : Place(v, r) \in Nat
         /\ \A r, s \in v : Index[r] < Index[s] => Place(v, r) < Place(v, s)
         /\ \A r \in v : Place(v, r) < Cardinality(v)
         /\ \A r, s \in v : Place(v, r) = Place(v, s) => r = s
<1>1. \A r \in Row : IsFiniteSet(Preceding(v, r)) /\ Place(v, r) = Cardinality(Preceding(v, r))
  BY Listable, FS_Subset DEF Preceding, Place
<1>2. \A r \in Row : Place(v, r) \in Nat
  BY <1>1, FS_CardinalityType
<1>3. ASSUME NEW r \in v, NEW T \in SUBSET v, Preceding(v, r) \subseteq T, r \in T
      PROVE  Place(v, r) < Cardinality(T)
  <2>1. IsFiniteSet(T) /\ Cardinality(T) \in Nat
    BY Listable
  <2>2. Index[r] \in Int
    BY Indices
  <2>3. r \notin Preceding(v, r)
    BY <2>2 DEF Preceding
  <2>4. /\ Cardinality(Preceding(v, r)) <= Cardinality(T)
        /\ Cardinality(Preceding(v, r)) = Cardinality(T) => T = Preceding(v, r)
    BY <1>3, <2>1, FS_Subset
  <2>. QED
    BY <1>1, <1>2, <1>3, <2>1, <2>3, <2>4
<1>4. ASSUME NEW r \in v, NEW s \in v, Index[r] < Index[s]
      PROVE  Place(v, r) < Place(v, s)
  <2>1. Index[r] \in Int /\ Index[s] \in Int /\ \A x \in v : Index[x] \in Int
    BY Indices
  <2>2. Preceding(v, r) \subseteq Preceding(v, s) /\ r \in Preceding(v, s) /\ Preceding(v, s) \in SUBSET v
    BY <1>4, <2>1 DEF Preceding
  <2>. QED
    BY <1>1, <1>3, <2>2
<1>5. \A r \in v : Place(v, r) < Cardinality(v)
  BY <1>3 DEF Preceding
<1>6. ASSUME NEW r \in v, NEW s \in v, Place(v, r) = Place(v, s)
      PROVE  r = s
  <2>1. Index[r] \in Int /\ Index[s] \in Int
    BY Indices
  <2>2. ~(Index[r] < Index[s]) /\ ~(Index[s] < Index[r])
    BY <1>2, <1>4, <1>6
  <2>. QED
    BY <2>1, <2>2, Indices
<1>. QED
  BY <1>2, <1>4, <1>5, <1>6

\* A listing has each row once, at its place.
LEMMA Listed ==
  ASSUME NEW v \in SUBSET Row
  PROVE  /\ Listing(v) \in Seq(v) /\ Len(Listing(v)) = Cardinality(v)
         /\ \A r \in v : Listing(v)[Place(v, r) + 1] = r
         /\ \A i \in 1..Len(Listing(v)) : Place(v, Listing(v)[i]) = i - 1
<1> DEFINE n == Cardinality(v)
           f == [r \in v |-> Place(v, r) + 1]
<1>1. IsFiniteSet(v) /\ n \in Nat
  BY Listable
<1>2. \A r \in v : Place(v, r) \in Nat /\ Place(v, r) + 1 \in 1..n
  BY <1>1, Places
<1>3. f \in Injection(v, 1..n)
  <2>1. f \in [v -> 1..n]
    BY <1>2
  <2>2. \A r, s \in v : f[r] = f[s] => r = s
    BY <1>2, Places
  <2> HIDE DEF f
  <2>. QED
    BY <2>1, <2>2 DEF Injection, IsInjective
<1>4. IsFiniteSet(1..n) /\ Cardinality(1..n) = n
  BY <1>1, FS_Interval
<1>5. f \in Surjection(v, 1..n)
  <2> HIDE DEF f, n
  <2>. QED
    BY <1>1, <1>3, <1>4, FS_Injection DEF n
<1>6. \A i \in 1..n : \E r \in v : Place(v, r) = i - 1
  <2>1. \A i \in 1..n : \E r \in v : f[r] = i
    BY <1>5 DEF Surjection
  <2>. QED
    BY <1>2, <2>1
<1>7. \A i \in 1..n : Listing(v)[i] \in v /\ Place(v, Listing(v)[i]) = i - 1
  BY <1>6 DEF Listing
<1>8. Listing(v) \in [1..n -> v]
  BY <1>7 DEF Listing
<1>9. Listing(v) \in Seq(v) /\ Len(Listing(v)) = n
  <2> HIDE DEF n
  <2>. QED
    BY <1>1, <1>8, LenProperties, IsASeq
<1>10. \A r \in v : Listing(v)[Place(v, r) + 1] = r
  <2> SUFFICES ASSUME NEW r \in v
               PROVE  Listing(v)[Place(v, r) + 1] = r
    OBVIOUS
  <2> DEFINE s == Listing(v)[Place(v, r) + 1]
  <2>1. s \in v /\ Place(v, s) = (Place(v, r) + 1) - 1
    BY <1>2, <1>7
  <2> HIDE DEF s
  <2>2. Place(v, s) = Place(v, r)
    BY <1>2, <2>1
  <2>. QED
    BY <2>1, <2>2, Places DEF s
<1>. QED
  BY <1>7, <1>9, <1>10

-----------------------------------------------------------------------------
(***************************************************************************)
(* Pages.                                                                  *)
(***************************************************************************)
PageLen == RowsAsked(kind, limit)

LEMMA PageSizes ==
  ASSUME PagedTypeOK
  PROVE  /\ PageLen \in Nat \ {0} /\ start \in Nat
         /\ rows \in Seq(Row) /\ Len(rows) \in Nat /\ Len(rows) = Cardinality(visible)
<1>1. PageLen \in Nat \ {0}
  BY SizesAssumption DEF PagedTypeOK, PageLen, RowsAsked
<1>2. page - 1 \in Nat
  BY DEF PagedTypeOK
<1>3. start \in Nat
  BY <1>1, <1>2 DEF start, PageLen
<1>4. rows \in Seq(visible) /\ Len(rows) = Cardinality(visible)
  BY Listed DEF rows, PagedTypeOK
<1>5. rows \in Seq(Row) /\ Len(rows) \in Nat
  BY <1>4, SeqMonotonic, LenProperties DEF PagedTypeOK
<1>. QED
  BY <1>1, <1>3, <1>4, <1>5

\* A page is the rows from start on, and full when there are more.
LEMMA PageRows ==
  ASSUME PagedTypeOK
  PROVE  /\ Page \in Seq(Row) /\ Len(Page) \in Nat
         /\ \A i \in 1..Len(Page) : Page[i] = rows[start + i]
         /\ start + PageLen <= Len(rows) => Len(Page) = PageLen
         /\ start <= Len(rows) /\ start + PageLen >= Len(rows) =>
              start + Len(Page) = Len(rows)
         /\ start >= Len(rows) => Page = <<>>
<1> DEFINE a == start + 1
           b == Upto(start + PageLen, Len(rows))
<1>1. /\ PageLen \in Nat \ {0} /\ start \in Nat
      /\ rows \in Seq(Row) /\ Len(rows) \in Nat
  BY PageSizes
<1>2. a \in Nat \ {0} /\ b \in Nat /\ b <= Len(rows) /\ a >= 1
  BY <1>1 DEF Upto
<1>3. Page = SubSeq(rows, a, b)
  BY DEF Page, PageLen
<1>4. CASE start >= Len(rows)
  <2>1. b < a
    BY <1>1, <1>4 DEF Upto
  <2> HIDE DEF a, b
  <2>2. Page = <<>>
    BY <1>1, <1>2, <1>3, <2>1, SubSeqEmpty
  <2>. QED
    BY <1>1, <1>4, <2>2, EmptySeq
<1>5. CASE start < Len(rows)
  <2>1. a <= b + 1 /\ a \in 1..Len(rows)+1 /\ b \in a-1..Len(rows)
    BY <1>1, <1>5 DEF Upto
  <2>2. b - start = IF start + PageLen <= Len(rows) THEN PageLen ELSE Len(rows) - start
    BY <1>1, <1>5 DEF Upto
  <2>3. Page \in Seq(Row) /\ Len(Page) = b - start /\ \A i \in 1..(b - start) : Page[i] = rows[start + i]
    <3>1. b - a + 1 = b - start /\ \A i \in 1..(b - start) : a + i - 1 = start + i
      BY <1>1, <1>2
    <3>2. a <= b
      BY <1>1, <1>5 DEF Upto
    <3> HIDE DEF a, b
    <3>3. /\ Page \in Seq(Row) /\ Len(Page) = b - a + 1
          /\ \A i \in 1..(b - a + 1) : Page[i] = rows[a + i - 1]
      BY <1>1, <1>2, <1>3, <2>1, <3>2, SubSeqProperties
    <3>. QED
      BY <3>1, <3>3
  <2>. QED
    BY <1>1, <1>5, <2>2, <2>3
<1>. QED
  BY <1>1, <1>4, <1>5

\* What is kept of a page that is cut: at least one row, fewer than all, and
\* the page that is named next begins after the last one kept.
LEMMA KeptRows ==
  ASSUME PagedTypeOK, Cut
  PROVE  /\ Fit \in 1..(Len(Page) - 1) /\ Keep(Fit) \in 1..Fit
         /\ NextPage(Keep(Fit)) \in Nat \ {0}
         /\ (NextPage(Keep(Fit)) - 1) * Keep(Fit) = start + Keep(Fit)
<1>1. start \in Nat /\ Len(Page) \in Nat /\ Len(Page) >= 2
  BY PageSizes, PageRows DEF Cut
<1>2. \E n \in 1..Len(Page) :
        /\ \A m \in 1..n : WithinBudget(m)
        /\ n < Len(Page) => ~WithinBudget(n + 1)
  <2> DEFINE S == {n \in 1..Len(Page) : n = Len(Page) \/ ~WithinBudget(n + 1)}
  <2>1. Len(Page) \in S /\ S \in SUBSET Nat
    BY <1>1
  <2>2. PICK n \in S : \A m \in S : n <= m
    <3> HIDE DEF S
    <3>. QED
      BY <2>1, Least
  <2>3. ASSUME NEW m \in 1..n
        PROVE  WithinBudget(m)
    <3>1. CASE m = 1
      BY <3>1 DEF WithinBudget
    <3>2. CASE m # 1
      <4> DEFINE p == m - 1
      <4>1. p \in 1..Len(Page) /\ p < n /\ p + 1 = m /\ p # Len(Page)
        BY <1>1, <2>2, <2>3, <3>2
      <4> HIDE DEF p
      <4>2. p \notin S
        BY <2>2, <4>1
      <4>3. WithinBudget(p + 1)
        BY <4>1, <4>2
      <4>. QED
        BY <4>1, <4>3, Zenon
    <3>. QED
      BY <3>1, <3>2
  <2>4. n \in 1..Len(Page) /\ (n < Len(Page) => ~WithinBudget(n + 1))
    BY <1>1, <2>2
  <2>. QED
    BY <2>3, <2>4
<1>3. Fit \in 1..Len(Page) /\ Fit < Len(Page)
  BY <1>2 DEF Fit, Cut
<1>4. Fit \in 1..(Len(Page) - 1) /\ Fit \in Nat \ {0}
  BY <1>1, <1>3
<1> DEFINE n == Fit
<1> HIDE DEF n
<1>5. n \in Nat \ {0} /\ n = Fit
  BY <1>4 DEF n
<1>6. \E k \in 1..n : start % k = 0 /\ \A j \in (k + 1)..n : start % j # 0
  <2> DEFINE S == {k \in 1..n : start % k = 0}
  <2>1. 1 \in S /\ S \in SUBSET (0..n)
    BY <1>1, <1>5
  <2>2. PICK k \in S : \A j \in S : j <= k
    <3> HIDE DEF S
    <3>. QED
      BY <1>5, <2>1, Greatest
  <2>3. \A j \in (k + 1)..n : j \in 1..n /\ ~(j <= k)
    BY <1>5, <2>2
  <2>. QED
    BY <2>2, <2>3
<1> DEFINE k == Keep(n)
<1>7. k \in 1..n /\ start % k = 0
  BY <1>6 DEF Keep
<1> HIDE DEF k
<1>8. k \in Nat \ {0}
  BY <1>5, <1>7
<1>9. start \div k \in Nat /\ start = k * (start \div k) + (start % k)
  BY <1>1, <1>8
<1>10. start = (start \div k) * k
  BY <1>7, <1>8, <1>9
<1> DEFINE q == start \div k
<1>11. NextPage(k) = q + 2
  BY DEF NextPage
<1> HIDE DEF q
<1>12. q \in Nat /\ start = q * k
  BY <1>9, <1>10 DEF q
<1>13. NextPage(k) - 1 = q + 1 /\ (q + 1) * k = q * k + k
  BY <1>8, <1>11, <1>12
<1>. QED
  BY <1>4, <1>5, <1>7, <1>8, <1>11, <1>12, <1>13 DEF k

\* The n rows from start on, fewer at the end: what a request reads.
Ahead(n) == SubSeq(rows, start + 1, Upto(start + n, Len(rows)))

\* A request of any of the tools reads the rows from start on, and the next
\* one starts where they end.
LEMMA WalkGoesOn ==
  ASSUME PagedTypeOK, FetchPage \/ ListTasks
  PROVE  /\ \E n \in Nat \ {0} :
              /\ start' = start + n /\ got' = got \o Ahead(n)
              /\ kind # "tasks" => n = PageLen
              /\ n < PageLen => phase' = "walking"
         /\ Ahead(PageLen) = Page
         /\ got' \in Seq(Row) /\ page' \in Nat \ {0} /\ limit' \in Nat
         /\ UNCHANGED <<kind, offset, visible, rows, stayed, still, changes, removed>>
<1>1. /\ PageLen \in Nat \ {0} /\ start \in Nat
      /\ rows \in Seq(Row) /\ Len(rows) \in Nat
  BY PageSizes
<1>2. Page = Ahead(PageLen) /\ Page \in Seq(Row) /\ Len(Page) \in Nat
  BY PageRows DEF Page, Ahead, PageLen
<1>3. /\ page \in Nat \ {0} /\ limit \in Nat /\ got \in Seq(Row)
  BY DEF PagedTypeOK
<1>4. UNCHANGED <<kind, offset, visible, stayed, still, changes, removed>>
  BY DEF FetchPage, ListTasks
<1>5. UNCHANGED rows
  BY <1>4 DEF rows
<1>6. ASSUME UNCHANGED limit, page' = page + 1, got' = got \o Page
      PROVE  /\ start' = start + PageLen /\ got' = got \o Ahead(PageLen)
             /\ got' \in Seq(Row) /\ page' \in Nat \ {0} /\ limit' \in Nat
  <2>1. PageLen' = PageLen
    BY <1>4, <1>6 DEF PageLen
  <2>2. start' = (page' - 1) * PageLen' /\ start = (page - 1) * PageLen
    BY DEF start, PageLen
  <2> DEFINE z == PageLen
  <2> HIDE DEF z
  <2>3. z \in Nat /\ start' = page * z /\ start = (page - 1) * z
    BY <1>1, <1>3, <1>6, <2>1, <2>2 DEF z
  <2>4. start' = start + z
    BY <1>3, <2>3
  <2>. QED
    BY <1>2, <1>3, <1>6, <2>4, ConcatProperties DEF z
<1>7. CASE FetchPage \/ (ListTasks /\ ~Cut)
  <2>1. UNCHANGED limit /\ page' = page + 1 /\ got' = got \o Page
    BY <1>7 DEF FetchPage, ListTasks
  <2>. QED
    BY <1>1, <1>2, <1>4, <1>5, <1>6, <2>1
<1>8. CASE ListTasks /\ Cut
  <2> DEFINE k == Keep(Fit)
  <2>1. /\ Fit \in 1..(Len(Page) - 1) /\ k \in 1..Fit
        /\ NextPage(k) \in Nat \ {0} /\ (NextPage(k) - 1) * k = start + k
    BY <1>8, KeptRows
  <2>2. /\ got' = got \o SubSeq(Page, 1, k) /\ limit' = k /\ page' = NextPage(k)
        /\ phase' = "walking" /\ kind = "tasks"
    BY <1>8 DEF ListTasks
  <2> HIDE DEF k
  <2>3. k \in Nat \ {0} /\ k < Len(Page)
    BY <1>2, <2>1
  <2>4. start' = start + k
    <3>1. start' = (page' - 1) * RowsAsked(kind', limit')
      BY DEF start
    <3>2. RowsAsked(kind', limit') = k
      BY <1>4, <2>2, <2>3 DEF RowsAsked
    <3>. QED
      BY <2>1, <2>2, <3>1, <3>2
  <2>5. SubSeq(Page, 1, k) = Ahead(k)
    <3>1. /\ start < Len(rows) /\ start + Len(Page) <= Len(rows)
          /\ \A i \in 1..Len(Page) : Page[i] = rows[start + i]
      BY <1>1, <1>2, <2>3, PageRows, EmptySeq
    <3>2. Upto(start + k, Len(rows)) = start + k
      BY <1>1, <1>2, <2>3, <3>1 DEF Upto
    <3>3. \A i \in (start + 1)..(start + k) : rows[i] \in Row
      BY <1>1, <1>2, <2>3, <3>1, ElementOfSeq
    <3> DEFINE w == SubSeq(rows, start + 1, start + k)
               u == SubSeq(Page, 1, k)
    <3>4. /\ w \in Seq(Row) /\ Len(w) = k /\ \A i \in 1..k : w[i] = rows[start + i]
      <4>1. /\ start + 1 \in Int /\ start + k \in Int /\ start + 1 <= start + k
            /\ (start + k) - (start + 1) + 1 = k
            /\ \A i \in 1..k : (start + 1) + i - 1 = start + i
        BY <1>1, <2>3
      <4>. QED
        BY <3>3, <4>1, SubSeqProperties
    <3>5. /\ u \in Seq(Row) /\ Len(u) = k /\ \A i \in 1..k : u[i] = Page[i]
      <4>1. /\ 1 \in Int /\ k \in Int /\ 1 <= k /\ k - 1 + 1 = k
            /\ \A i \in 1..k : 1 + i - 1 = i /\ i \in 1..Len(Page)
        BY <1>2, <2>3
      <4>2. \A i \in 1..k : Page[i] \in Row
        BY <1>2, <4>1, ElementOfSeq
      <4>. QED
        BY <4>1, <4>2, SubSeqProperties
    <3>6. \A i \in 1..k : u[i] = w[i]
      BY <1>2, <2>3, <3>1, <3>4, <3>5
    <3>7. w = u
      <4> HIDE DEF w, u
      <4>. QED
        BY <3>4, <3>5, <3>6, SeqEqual
    <3>. QED
      BY <3>2, <3>7 DEF Ahead
  <2>6. SubSeq(Page, 1, k) \in Seq(Row)
    <3>1. \A i \in 1..k : Page[i] \in Row
      BY <1>2, <2>3, ElementOfSeq
    <3>. QED
      BY <2>3, <3>1, SubSeqProperties
  <2>7. got' \in Seq(Row)
    BY <1>3, <2>2, <2>6, ConcatProperties
  <2>. QED
    BY <1>2, <1>4, <1>5, <2>1, <2>2, <2>3, <2>4, <2>5, <2>7
<1>. QED
  BY <1>7, <1>8

-----------------------------------------------------------------------------
(***************************************************************************)
(* Type correctness, and what is read, row by row.                         *)
(***************************************************************************)
\* A slice is the rows of the listing from offset on.
LEMMA SliceRows ==
  ASSUME PagedTypeOK, NEW L \in Seq(Row)
  PROVE  /\ SliceOf(L) \in Seq(Row)
         /\ RowsOf(SliceOf(L)) = {L[i] : i \in (offset + 1)..Upto(offset + Slice, Len(L))}
<1> DEFINE a == Upto(offset, Len(L)) + 1
           b == Upto(offset + Slice, Len(L))
           s == SliceOf(L)
<1>1. Len(L) \in Nat /\ offset \in Nat /\ Slice \in Nat
  BY LenProperties, SizesAssumption DEF PagedTypeOK
<1>2. a \in 1..(Len(L) + 1) /\ b \in 0..Len(L)
  BY <1>1 DEF Upto
<1>3. \A i \in a..b : L[i] \in Row
  BY <1>1, <1>2, ElementOfSeq
<1>4. s = SubSeq(L, a, b)
  BY DEF SliceOf
<1>5. a..b = (offset + 1)..b
  BY <1>1 DEF Upto
<1> HIDE DEF a, b, s
<1>6. /\ s \in Seq(Row)
      /\ Len(s) = IF a <= b THEN b - a + 1 ELSE 0
      /\ \A i \in 1..(b - a + 1) : s[i] = L[a + i - 1]
  BY <1>1, <1>2, <1>3, <1>4, SubSeqProperties
<1>7. ASSUME NEW x
      PROVE  x \in RowsOf(s) <=> \E i \in a..b : x = L[i]
  <2>1. ASSUME NEW j \in 1..Len(s), x = s[j]
        PROVE  \E i \in a..b : x = L[i]
    <3>1. a <= b /\ a + j - 1 \in a..b /\ j \in 1..(b - a + 1)
      BY <1>2, <1>6, <2>1
    <3>. QED
      BY <1>6, <2>1, <3>1
  <2>2. ASSUME NEW i \in a..b, x = L[i]
        PROVE  \E j \in 1..Len(s) : x = s[j]
    <3> DEFINE j == i - a + 1
    <3>1. j \in 1..(b - a + 1) /\ j \in 1..Len(s) /\ a + j - 1 = i
      BY <1>2, <1>6, <2>2
    <3> HIDE DEF j
    <3>. QED
      BY <1>6, <2>2, <3>1
  <2>. QED
    BY <2>1, <2>2 DEF RowsOf
<1>. QED
  BY <1>5, <1>6, <1>7 DEF b, s

LEMMA PagedInitType == PagedInit => PagedTypeOK
<1> SUFFICES ASSUME PagedInit
             PROVE  PagedTypeOK
  OBVIOUS
<1>1. <<>> \in Seq(Row)
  BY EmptySeq
<1>2. \A l \in Limits : Clamped(l) \in Nat
  BY SizesAssumption DEF Clamped, Upto
<1>3. limit \in Nat
  BY <1>2 DEF PagedInit
<1>4. 0 \in 0..MaxChanges
  BY SizesAssumption
<1>. QED
  BY <1>1, <1>3, <1>4 DEF PagedInit, PagedTypeOK

LEMMA PagedNextType == PagedTypeOK /\ [PagedNext]_pagedVars => PagedTypeOK'
<1> SUFFICES ASSUME PagedTypeOK, [PagedNext]_pagedVars
             PROVE  PagedTypeOK'
  OBVIOUS
<1>1. CASE FetchPage
  <2>1. /\ got' \in Seq(Row) /\ page' \in Nat \ {0} /\ limit' \in Nat
    BY <1>1, WalkGoesOn
  <2>2. phase' \in {"walking", "done", "cut", "failed"}
    BY <1>1 DEF FetchPage, PhaseAfter
  <2>3. shown' \in Seq(Row)
    <3>1. shown \in Seq(Row) /\ SliceOf(got') \in Seq(Row)
      BY <2>1, SliceRows DEF PagedTypeOK
    <3>2. shown \o SliceOf(got') \in Seq(Row)
      BY <3>1, ConcatProperties
    <3>. QED
      BY <1>1, <2>1, <3>1, <3>2 DEF FetchPage
  <2>. QED
    BY <1>1, <2>1, <2>2, <2>3 DEF PagedTypeOK, FetchPage
<1>2. CASE FetchFails
  BY <1>2 DEF PagedTypeOK, FetchFails, agentVars
<1>3. CASE NextSlice
  <2>1. <<>> \in Seq(Row) /\ offset + Slice \in Nat
    BY EmptySeq, SizesAssumption DEF PagedTypeOK
  <2>. QED
    BY <1>3, <2>1 DEF PagedTypeOK, NextSlice
<1>4. CASE ListTasks
  <2>1. /\ got' \in Seq(Row) /\ page' \in Nat \ {0} /\ limit' \in Nat
    BY <1>4, WalkGoesOn
  <2>2. phase' \in {"walking", "done", "cut", "failed"}
    BY <1>4 DEF ListTasks
  <2>. QED
    BY <1>4, <2>1, <2>2 DEF PagedTypeOK, ListTasks
<1>5. ASSUME NEW r \in Row, AddRow(r)
      PROVE  PagedTypeOK'
  <2>1. changes + 1 \in 0..MaxChanges /\ removed \in 0..(changes + 1)
    BY <1>5, SizesAssumption DEF PagedTypeOK, AddRow, Change
  <2>. QED
    BY <1>5, <2>1 DEF PagedTypeOK, AddRow, Change, agentVars, walkVars
<1>6. ASSUME NEW r \in Row, RemoveRow(r)
      PROVE  PagedTypeOK'
  <2>1. changes + 1 \in 0..MaxChanges /\ removed + 1 \in 0..(changes + 1)
    BY <1>6, SizesAssumption DEF PagedTypeOK, RemoveRow, Change
  <2>. QED
    BY <1>6, <2>1 DEF PagedTypeOK, RemoveRow, Change, agentVars, walkVars
<1>7. CASE UNCHANGED pagedVars
  BY <1>7 DEF PagedTypeOK, pagedVars, agentVars, walkVars
<1>. QED
  BY <1>1, <1>2, <1>3, <1>4, <1>5, <1>6, <1>7 DEF PagedNext

\* The variables of the paged reads hold what they are meant to hold.
THEOREM PagedTypeCorrect == PagedSpec => []PagedTypeOK
BY PagedInitType, PagedNextType, PTL DEF PagedSpec

\* Every step of a tool is one of the reader: it reads the rows that follow,
\* starts anew, or reads nothing.
LEMMA ReaderSteps ==
  ASSUME PagedTypeOK, PagedTypeOK', [PagedNext]_pagedVars
  PROVE  [Reader!Next]_(Reader!vars)
<1>1. CASE FetchPage \/ ListTasks
  <2>1. PICK n \in Nat \ {0} : start' = start + n /\ got' = got \o Ahead(n)
    BY <1>1, WalkGoesOn
  <2>2. start \in Nat /\ UNCHANGED <<rows, still>>
    BY <1>1, WalkGoesOn, PageSizes
  <2>3. start' \in Nat /\ start' > start /\ start' - start = n
    BY <2>1, <2>2
  <2>4. Reader!Window(start, n) = Ahead(n)
    BY DEF Reader!Window, Reader!Upto, Ahead, Upto
  <2>. QED
    BY <2>1, <2>2, <2>3, <2>4 DEF Reader!Next, Reader!Read
<1>2. CASE NextSlice
  <2>1. start' = 0
    <3>1. page' - 1 = 0 /\ PageLen' \in Nat
      BY <1>2, SizesAssumption DEF NextSlice, PagedTypeOK, PageLen, RowsAsked
    <3>. QED
      BY <3>1 DEF start, PageLen
  <2>. QED
    BY <1>2, <2>1 DEF NextSlice, rows, Reader!Next, Reader!Restart
<1>3. CASE FetchFails \/ UNCHANGED pagedVars
  BY <1>3 DEF FetchFails, pagedVars, agentVars, walkVars, rows, start, Reader!vars
<1>4. ASSUME NEW r \in Row, AddRow(r) \/ RemoveRow(r)
      PROVE  Reader!Change
  <2>1. rows' \in Seq(Row)
    <3>1. visible' \in SUBSET Row
      BY DEF PagedTypeOK
    <3>2. Listing(visible') \in Seq(visible')
      BY <3>1, Listed
    <3>3. Listing(visible') \in Seq(Row)
      BY <3>1, <3>2, SeqMonotonic
    <3>. QED
      BY <3>3 DEF rows
  <2>. QED
    BY <1>4, <2>1
    DEF AddRow, RemoveRow, Change, agentVars, walkVars, start, Reader!Change
<1>. QED
  BY <1>1, <1>2, <1>3, <1>4 DEF PagedNext, Reader!Next

\* However a tool pages, cuts and starts over, it reads windows of its
\* collection that follow each other.
THEOREM ReadsRowByRowHolds == PagedSpec => ReadsRowByRow
<1>1. PagedInit => Reader!Init
  <2> SUFFICES ASSUME PagedInit
               PROVE  Reader!Init
    OBVIOUS
  <2>1. PagedTypeOK
    BY PagedInitType
  <2>2. start = 0
    <3>1. page - 1 = 0 /\ PageLen \in Nat
      BY <2>1, PageSizes DEF PagedInit
    <3>. QED
      BY <3>1 DEF start, PageLen
  <2>. QED
    BY <2>1, <2>2, PageSizes DEF PagedInit, Reader!Init
<1>. QED
  BY <1>1, ReaderSteps, PagedInitType, PagedNextType, PTL
  DEF PagedSpec, ReadsRowByRow, Reader!Spec

-----------------------------------------------------------------------------
(***************************************************************************)
(* What a reading misses.  A row that stayed is behind the reader when its *)
(* place is before the end of what was read, or passed over, and it was    *)
(* not taken.  An insertion only moves rows on, a removal moves one row    *)
(* back past that end, and a window read takes every row that it covers.   *)
(***************************************************************************)
Behind(v, st, T, b) == {r \in st \ T : Place(v, r) < b}

LEMMA NoneSlipsBack ==
  ASSUME NEW v \in SUBSET Row, NEW x \in Row, NEW st \in SUBSET v, NEW T, NEW b \in Nat
  PROVE  Behind(v \cup {x}, st \cap (v \cup {x}), T, b) \subseteq Behind(v, st, T, b)
<1>1. ASSUME NEW r \in Row
      PROVE  Place(v, r) <= Place(v \cup {x}, r)
  <2>1. Preceding(v, r) \in SUBSET Preceding(v \cup {x}, r) /\ IsFiniteSet(Preceding(v \cup {x}, r))
    <3>1. Preceding(v \cup {x}, r) \in SUBSET Row
      BY DEF Preceding
    <3>. QED
      BY <3>1, Listable DEF Preceding
  <2>. QED
    BY <2>1, FS_Subset DEF Place, Preceding
<1>2. \A r \in Row : Place(v, r) \in Nat /\ Place(v \cup {x}, r) \in Nat
  BY Places
<1>. QED
  BY <1>1, <1>2 DEF Behind

LEMMA OneSlipsBack ==
  ASSUME NEW v \in SUBSET Row, NEW x \in v, NEW st \in SUBSET v, NEW T, NEW b \in Nat,
         NEW n \in Nat, Cardinality(Behind(v, st, T, b)) <= n
  PROVE  Cardinality(Behind(v \ {x}, st \cap (v \ {x}), T, b)) <= n + 1
<1> DEFINE B == Behind(v, st, T, b)
           C == Behind(v \ {x}, st \cap (v \ {x}), T, b)
<1>1. ASSUME NEW r \in Row
      PROVE  Place(v, r) <= Place(v \ {x}, r) + 1
  <2> DEFINE S == Preceding(v, r)
  <2>1. S \in SUBSET Row /\ Preceding(v \ {x}, r) = S \ {x}
    BY DEF Preceding
  <2>2. IsFiniteSet(S) /\ Cardinality(S) \in Nat
    BY <2>1, Listable
  <2>3. Place(v, r) = Cardinality(S) /\ Place(v \ {x}, r) = Cardinality(S \ {x})
    BY <2>1 DEF Place, Preceding
  <2> HIDE DEF S
  <2>4. Cardinality(S \ {x}) = IF x \in S THEN Cardinality(S) - 1 ELSE Cardinality(S)
    BY <2>2, FS_RemoveElement
  <2>. QED
    BY <2>2, <2>3, <2>4
<1>2. \A r \in Row : Place(v, r) \in Nat /\ Place(v \ {x}, r) \in Nat
  BY Places
<1>3. \A r \in C : r \in st /\ r \notin T /\ (Place(v, r) < b \/ Place(v, r) = b)
  BY <1>1, <1>2 DEF Behind
<1>4. \A r \in C : r \in B \/ (r \in v /\ Place(v, r) = b)
  BY <1>3 DEF Behind
<1>5. B \in SUBSET Row /\ C \in SUBSET Row
  BY DEF Behind
<1> HIDE DEF B, C
<1>6. IsFiniteSet(B) /\ Cardinality(B) \in Nat /\ IsFiniteSet(C) /\ Cardinality(C) \in Nat
  BY <1>5, Listable
<1>7. \E s : C \subseteq B \cup {s}
  <2>1. CASE \E s \in v : Place(v, s) = b
    <3>1. PICK s \in v : Place(v, s) = b
      BY <2>1
    <3>2. \A r \in v : Place(v, r) = b => r = s
      BY <3>1, Places
    <3>. QED
      BY <1>4, <3>2
  <2>2. CASE ~ \E s \in v : Place(v, s) = b
    BY <1>4, <2>2
  <2>. QED
    BY <2>1, <2>2
<1>8. PICK s : C \subseteq B \cup {s}
  BY <1>7
<1>9. IsFiniteSet(B \cup {s}) /\ Cardinality(B \cup {s}) <= Cardinality(B) + 1
  <2>1. IsFiniteSet(B \cup {s})
    BY <1>6, FS_AddElement, Zenon
  <2>2. Cardinality(B \cup {s}) = IF s \in B THEN Cardinality(B) ELSE Cardinality(B) + 1
    BY <1>6, FS_AddElement, Zenon
  <2>. QED
    BY <1>6, <2>1, <2>2
<1>10. Cardinality(C) <= Cardinality(B \cup {s}) /\ Cardinality(B \cup {s}) \in Nat
  BY <1>8, <1>9, FS_Subset, FS_CardinalityType
<1>11. Cardinality(B) <= n
  BY DEF B
<1>. QED
  BY <1>6, <1>9, <1>10, <1>11 DEF C

\* The rows of two sequences, one after the other.
LEMMA RowsOfBoth ==
  ASSUME NEW s \in Seq(Row), NEW t \in Seq(Row)
  PROVE  RowsOf(s \o t) = RowsOf(s) \cup RowsOf(t)
<1> DEFINE u == s \o t
<1>1. /\ u \in Seq(Row) /\ Len(u) = Len(s) + Len(t) /\ Len(s) \in Nat /\ Len(t) \in Nat
      /\ \A i \in 1..(Len(s) + Len(t)) : u[i] = IF i <= Len(s) THEN s[i] ELSE t[i - Len(s)]
  BY ConcatProperties, LenProperties
<1> HIDE DEF u
<1>2. \A i \in 1..Len(u) : u[i] \in RowsOf(s) \cup RowsOf(t)
  BY <1>1 DEF RowsOf
<1>3. \A i \in 1..Len(s) : i \in 1..Len(u) /\ u[i] = s[i]
  BY <1>1
<1>4. \A i \in 1..Len(t) : Len(s) + i \in 1..Len(u) /\ u[Len(s) + i] = t[i]
  <2> SUFFICES ASSUME NEW i \in 1..Len(t)
               PROVE  Len(s) + i \in 1..Len(u) /\ u[Len(s) + i] = t[i]
    OBVIOUS
  <2> DEFINE k == Len(s) + i
  <2>1. k \in 1..Len(u) /\ ~(k <= Len(s)) /\ k - Len(s) = i
    BY <1>1
  <2> HIDE DEF k
  <2>2. u[k] = t[i]
    BY <1>1, <2>1
  <2>. QED
    BY <2>1, <2>2 DEF k
<1>5. RowsOf(u) \subseteq RowsOf(s) \cup RowsOf(t)
  BY <1>2 DEF RowsOf
<1>6. RowsOf(s) \subseteq RowsOf(u) /\ RowsOf(t) \subseteq RowsOf(u)
  BY <1>3, <1>4 DEF RowsOf
<1>. QED
  BY <1>5, <1>6 DEF u

\* A window has every listed row whose place it covers, and there only.
LEMMA WindowTakes ==
  ASSUME PagedTypeOK, NEW n \in Nat \ {0}
  PROVE  /\ Ahead(n) \in Seq(Row)
         /\ \A r \in visible : Place(visible, r) >= start /\ Place(visible, r) < start + n =>
              /\ Place(visible, r) - start + 1 \in 1..Len(Ahead(n))
              /\ Ahead(n)[Place(visible, r) - start + 1] = r
<1> DEFINE a == start + 1
           b == Upto(start + n, Len(rows))
<1>1. /\ start \in Nat /\ rows \in Seq(Row) /\ Len(rows) \in Nat
      /\ Len(rows) = Cardinality(visible)
  BY PageSizes
<1>2. a \in Int /\ b \in Int /\ a >= 1 /\ b <= Len(rows) /\ b <= start + n
  BY <1>1 DEF Upto
<1>3. \A i \in a..b : rows[i] \in Row
  BY <1>1, <1>2, ElementOfSeq
<1>4. Ahead(n) = SubSeq(rows, a, b)
  BY DEF Ahead
<1>5. \A p \in Nat : p >= start /\ p < start + n /\ p < Len(rows) => p + 1 \in a..b
  BY <1>1 DEF Upto
<1> HIDE DEF a, b
<1>6. /\ Ahead(n) \in Seq(Row)
      /\ Len(Ahead(n)) = IF a <= b THEN b - a + 1 ELSE 0
      /\ \A i \in 1..(b - a + 1) : Ahead(n)[i] = rows[a + i - 1]
  BY <1>2, <1>3, <1>4, SubSeqProperties
<1>7. ASSUME NEW r \in visible, Place(visible, r) >= start, Place(visible, r) < start + n
      PROVE  /\ Place(visible, r) - start + 1 \in 1..Len(Ahead(n))
             /\ Ahead(n)[Place(visible, r) - start + 1] = r
  <2> DEFINE p == Place(visible, r)
             j == p - start + 1
  <2>1. p \in Nat /\ p < Len(rows) /\ rows[p + 1] = r
    <3>1. visible \in SUBSET Row
      BY DEF PagedTypeOK
    <3>2. p \in Nat /\ p < Cardinality(visible)
      BY <3>1, Places
    <3>3. Listing(visible)[p + 1] = r
      BY <3>1, Listed
    <3>. QED
      BY <1>1, <3>2, <3>3 DEF rows
  <2>2. p >= start /\ p < start + n
    BY <1>7
  <2> HIDE DEF p
  <2>3. p + 1 \in a..b
    BY <1>5, <2>1, <2>2
  <2>4. j \in 1..(b - a + 1) /\ a <= b /\ a + j - 1 = p + 1
    BY <1>1, <1>2, <2>1, <2>2, <2>3 DEF a
  <2>5. j \in 1..Len(Ahead(n)) /\ Ahead(n)[j] = rows[a + j - 1]
    BY <1>6, <2>4
  <2>. QED
    BY <2>1, <2>4, <2>5 DEF p
<1>. QED
  BY <1>6, <1>7

\* The rows shown, or read by the call under way and to be shown by it.
Taken ==
  IF phase # "walking" THEN RowsOf(shown)
  ELSE IF kind = "docs" THEN RowsOf(shown) \cup RowsOf(SliceOf(got))
  ELSE RowsOf(got)

\* How far the reading has come: for list_docs the slices answered, and of the
\* one asked for what the walk has read.
Reach ==
  IF kind # "docs" THEN start
  ELSE IF phase # "walking" \/ start >= offset + Slice THEN offset + Slice
  ELSE IF start >= offset THEN start ELSE offset

\* The reading goes on.
Unfinished ==
  \/ phase = "walking"
  \/ kind = "docs" /\ phase \in {"done", "cut"} /\ offset + Slice < Len(got)

Missed == Behind(visible, stayed, Taken, Reach)

MissedInv ==
  /\ Unfinished => Cardinality(Missed) <= removed
  /\ phase = "walking" /\ kind # "tasks" => Len(got) = start
  /\ MissedOnlyByDeletion

\* A walk that ends has come to the end of the listing.
LEMMA DoneAtTheEnd ==
  ASSUME PagedTypeOK, FetchPage \/ ListTasks, phase' = "done"
  PROVE  start' >= Len(rows)
<1>1. /\ PageLen \in Nat \ {0} /\ start \in Nat /\ Len(rows) \in Nat
  BY PageSizes
<1>2. PICK n \in Nat \ {0} :
        /\ start' = start + n /\ got' = got \o Ahead(n)
        /\ n < PageLen => phase' = "walking"
        /\ kind # "tasks" => n = PageLen
  BY WalkGoesOn
<1>3. n >= PageLen
  BY <1>1, <1>2
<1>4. ~HasMore \/ Page = <<>>
  BY DEF FetchPage, ListTasks, PhaseAfter
<1>5. ASSUME Page = <<>>
      PROVE  start >= Len(rows)
  <2>1. Len(Page) = 0
    BY <1>5, EmptySeq
  <2>. QED
    BY <1>1, <2>1, PageRows
<1>. QED
  BY <1>1, <1>2, <1>3, <1>4, <1>5 DEF HasMore, PageLen

\* A listed row that a request of list_docs or list_doc_comments covers stands
\* in the walk's listing at its place.
LEMMA WalkTakes ==
  ASSUME PagedTypeOK, FetchPage, Len(got) = start
  PROVE  /\ got' = got \o Page /\ got' \in Seq(Row) /\ Len(got') = start + Len(Page)
         /\ start' = start + PageLen /\ Len(Page) \in Nat /\ Len(Page) <= PageLen
         /\ \A i \in 1..Len(got) : got'[i] = got[i]
         /\ \A r \in visible : Place(visible, r) >= start /\ Place(visible, r) < start' =>
              /\ Place(visible, r) + 1 \in 1..Len(got')
              /\ got'[Place(visible, r) + 1] = r
         /\ phase' = "walking" => Len(Page) = PageLen
<1>1. /\ PageLen \in Nat \ {0} /\ start \in Nat /\ Len(rows) \in Nat
  BY PageSizes
<1>2. Page \in Seq(Row) /\ Len(Page) \in Nat /\ Len(Page) <= PageLen
  <2>1. CASE start >= Len(rows)
    BY <1>1, <2>1, PageRows, EmptySeq
  <2>2. CASE start < Len(rows)
    BY <1>1, <2>2, PageRows
  <2>. QED
    BY <1>1, <2>1, <2>2
<1>3. got' = got \o Page /\ got \in Seq(Row) /\ kind # "tasks"
  BY DEF FetchPage, PagedTypeOK
<1>4. /\ got' \in Seq(Row) /\ Len(got') = start + Len(Page)
      /\ \A i \in 1..(start + Len(Page)) :
           got'[i] = IF i <= start THEN got[i] ELSE Page[i - start]
  BY <1>2, <1>3, ConcatProperties
<1>5. start' = start + PageLen /\ Ahead(PageLen) = Page
  BY <1>3, WalkGoesOn
<1>6. ASSUME NEW r \in visible, Place(visible, r) >= start, Place(visible, r) < start'
      PROVE  /\ Place(visible, r) + 1 \in 1..Len(got')
             /\ got'[Place(visible, r) + 1] = r
  <2> DEFINE p == Place(visible, r)
  <2>1. p \in Nat
    BY Places DEF PagedTypeOK
  <2>2. p - start + 1 \in 1..Len(Page) /\ Page[p - start + 1] = r
    BY <1>1, <1>5, <1>6, WindowTakes
  <2> HIDE DEF p
  <2>3. p + 1 \in 1..(start + Len(Page)) /\ ~(p + 1 <= start) /\ (p + 1) - start = p - start + 1
    BY <1>1, <1>2, <2>1, <2>2
  <2>. QED
    BY <1>4, <2>2, <2>3 DEF p
<1>7. phase' = "walking" => Len(Page) = PageLen
  <2> SUFFICES ASSUME phase' = "walking"
               PROVE  Len(Page) = PageLen
    OBVIOUS
  <2>1. HasMore
    BY DEF FetchPage, PhaseAfter
  <2>. QED
    BY <1>1, <2>1, PageRows DEF HasMore, PageLen
<1>8. \A i \in 1..Len(got) : got'[i] = got[i]
  BY <1>1, <1>2, <1>4
<1>. QED
  BY <1>2, <1>3, <1>4, <1>5, <1>6, <1>7, <1>8

\* list_doc_comments and list_tasks: what is missed after a request was missed
\* before it.
LEMMA WindowMissesNone ==
  ASSUME PagedTypeOK, FetchPage \/ ListTasks, kind # "docs",
         NEW r \in stayed, r \notin RowsOf(got'), Place(visible, r) < start'
  PROVE  phase = "walking" /\ r \in Missed
<1>1. PICK n \in Nat \ {0} : start' = start + n /\ got' = got \o Ahead(n)
  BY WalkGoesOn
<1>2. start \in Nat /\ r \in visible /\ Place(visible, r) \in Nat
  BY PageSizes, Places DEF PagedTypeOK
<1>3. Ahead(n) \in Seq(Row) /\ got \in Seq(Row)
  BY WindowTakes DEF PagedTypeOK
<1>4. r \notin RowsOf(got) /\ r \notin RowsOf(Ahead(n))
  BY <1>1, <1>3, RowsOfBoth
<1>5. ~(Place(visible, r) >= start)
  <2> SUFFICES ASSUME Place(visible, r) >= start
               PROVE  FALSE
    OBVIOUS
  <2>1. \E i \in 1..Len(Ahead(n)) : Ahead(n)[i] = r
    BY <1>1, <1>2, WindowTakes
  <2>. QED
    BY <1>4, <2>1 DEF RowsOf
<1>6. phase = "walking"
  BY DEF FetchPage, ListTasks
<1>. QED
  BY <1>2, <1>4, <1>5, <1>6 DEF Missed, Behind, Taken, Reach

\* list_docs: the same for the rows of the slices asked for so far.
LEMMA SliceMissesNone ==
  ASSUME PagedTypeOK, FetchPage, kind = "docs", Len(got) = start,
         NEW r \in stayed, r \notin RowsOf(shown), r \notin RowsOf(SliceOf(got')),
         Place(visible, r) < offset \/
           (Place(visible, r) < offset + Slice /\ Place(visible, r) < start')
  PROVE  r \in Missed
<1> DEFINE p == Place(visible, r)
           e == offset + Slice
<1>1. /\ start \in Nat /\ offset \in Nat /\ Slice \in Nat \ {0}
      /\ r \in visible /\ p \in Nat /\ got \in Seq(Row) /\ phase = "walking"
  BY PageSizes, Places, SizesAssumption DEF PagedTypeOK, FetchPage
<1>2. /\ got' \in Seq(Row) /\ Len(got') \in Nat /\ Len(got') >= start
      /\ \A i \in 1..start : got'[i] = got[i]
      /\ p >= start /\ p < start' => p + 1 \in 1..Len(got') /\ got'[p + 1] = r
  BY <1>1, WalkTakes
<1>3. RowsOf(SliceOf(got)) = {got[i] : i \in (offset + 1)..Upto(e, start)}
  BY <1>1, SliceRows
<1>4. RowsOf(SliceOf(got')) = {got'[i] : i \in (offset + 1)..Upto(e, Len(got'))}
  BY <1>2, SliceRows
<1> HIDE DEF p
<1>5. r \notin RowsOf(SliceOf(got))
  <2>1. \A i \in (offset + 1)..Upto(e, start) :
          i \in (offset + 1)..Upto(e, Len(got')) /\ got[i] = got'[i]
    BY <1>1, <1>2 DEF Upto
  <2>. QED
    BY <1>3, <1>4, <2>1
<1>6. p < Reach
  <2> SUFFICES ASSUME ~(p < Reach)
               PROVE  FALSE
    OBVIOUS
  <2>1. Reach = IF start >= e THEN e ELSE IF start >= offset THEN start ELSE offset
    BY <1>1 DEF Reach
  <2>2. p >= start /\ p < e /\ p < start' /\ p >= offset
    BY <1>1, <2>1 DEF p
  <2>3. p + 1 \in (offset + 1)..Upto(e, Len(got')) /\ got'[p + 1] = r
    BY <1>1, <1>2, <2>2 DEF Upto
  <2>. QED
    BY <1>4, <2>3
<1>. QED
  BY <1>1, <1>5, <1>6 DEF p, Missed, Behind, Taken

LEMMA FewerMissed ==
  ASSUME NEW S \in SUBSET Row, NEW T \in SUBSET S, NEW n \in Nat, Cardinality(S) <= n
  PROVE  Cardinality(T) <= n
BY Listable, FS_Subset

LEMMA MissedInit == PagedInit => MissedInv
<1> SUFFICES ASSUME PagedInit
             PROVE  MissedInv
  OBVIOUS
<1>1. PagedTypeOK
  BY PagedInitType
<1>2. start = 0
  <2>1. page - 1 = 0 /\ PageLen \in Nat
    BY <1>1, PageSizes DEF PagedInit
  <2>. QED
    BY <2>1 DEF start, PageLen
<1>3. Reach = 0
  BY <1>2, SizesAssumption DEF PagedInit, Reach
<1>4. Missed = {}
  <2>1. \A r \in visible : Place(visible, r) \in Nat
    BY <1>1, Places DEF PagedTypeOK
  <2>. QED
    BY <1>1, <1>3, <2>1 DEF Missed, Behind, PagedTypeOK
<1>5. Cardinality(Missed) = 0
  BY <1>4, FS_EmptySet
<1>6. Len(got) = 0
  BY EmptySeq DEF PagedInit
<1>. QED
  BY <1>2, <1>5, <1>6 DEF PagedInit, MissedInv, MissedOnlyByDeletion, Finished

\* A request that reads.
LEMMA MissedRead ==
  ASSUME PagedTypeOK, PagedTypeOK', MissedInv, FetchPage \/ ListTasks
  PROVE  MissedInv'
<1>1. phase = "walking" /\ Cardinality(Missed) <= removed
  BY DEF FetchPage, ListTasks, MissedInv, Unfinished
<1>2. UNCHANGED <<kind, offset, visible, rows, stayed, removed>>
  BY WalkGoesOn
<1>3. /\ stayed \in SUBSET visible /\ visible \in SUBSET Row /\ removed \in Nat
      /\ start' \in Nat /\ start \in Nat /\ offset \in Nat /\ Slice \in Nat \ {0}
  <2>1. PICK n \in Nat \ {0} : start' = start + n
    BY WalkGoesOn
  <2>2. start \in Nat
    BY PageSizes
  <2>3. start' \in Nat
    BY <2>1, <2>2
  <2>4. stayed \in SUBSET visible /\ visible \in SUBSET Row /\ removed \in Nat /\ offset \in Nat
    BY DEF PagedTypeOK
  <2>. QED
    BY <2>2, <2>3, <2>4, SizesAssumption
<1>4. Missed \in SUBSET Row
  BY <1>3 DEF Missed, Behind
<1>5. \A r \in visible : Place(visible, r) \in Nat /\ Place(visible, r) < Len(rows)
  BY <1>3, Places, PageSizes
<1>6. CASE kind # "docs"
  <2>1. /\ phase' # "walking" /\ phase' # "cut" => RowsOf(shown') = RowsOf(got')
        /\ phase' = "walking" => Taken' = RowsOf(got')
        /\ Reach' = start'
    BY <1>2, <1>6 DEF FetchPage, ListTasks, Taken, Reach, PhaseAfter
  <2>2. ASSUME phase' = "walking"
        PROVE  Cardinality(Missed') <= removed'
    <3>1. Missed' \subseteq Missed
      BY <1>2, <1>6, <2>1, <2>2, WindowMissesNone DEF Missed, Behind
    <3>. QED
      BY <1>1, <1>2, <1>3, <1>4, <3>1, FewerMissed
  <2>3. ASSUME phase' = "done"
        PROVE  Cardinality(stayed' \ RowsOf(shown')) <= removed'
    <3>1. start' >= Len(rows)
      BY <2>3, DoneAtTheEnd
    <3>2. stayed \ RowsOf(got') \subseteq Missed
      <4> SUFFICES ASSUME NEW r \in stayed, r \notin RowsOf(got')
                   PROVE  r \in Missed
        OBVIOUS
      <4>1. Place(visible, r) < start'
        BY <1>3, <1>5, <3>1, PageSizes
      <4>. QED
        BY <1>6, <4>1, WindowMissesNone
    <3>3. stayed' \ RowsOf(shown') \subseteq Missed
      BY <1>2, <2>1, <2>3, <3>2
    <3>. QED
      BY <1>1, <1>2, <1>3, <1>4, <3>3, FewerMissed
  <2>4. Unfinished' <=> phase' = "walking"
    BY <1>2, <1>6 DEF Unfinished
  <2>5. ASSUME phase' = "walking", kind' # "tasks"
        PROVE  Len(got') = start'
    <3>1. FetchPage /\ kind # "tasks"
      BY <1>2, <2>5 DEF ListTasks
    <3>2. Len(got) = start
      BY <1>1, <3>1 DEF MissedInv
    <3>. QED
      BY <2>5, <3>1, <3>2, WalkTakes
  <2>. QED
    BY <2>2, <2>3, <2>4, <2>5 DEF MissedInv, MissedOnlyByDeletion, Finished
<1>7. CASE kind = "docs"
  <2>1. FetchPage /\ Len(got) = start
    BY <1>1, <1>7 DEF ListTasks, MissedInv
  <2>2. /\ got' \in Seq(Row) /\ Len(got') = start + Len(Page) /\ start' = start + PageLen
        /\ Len(Page) \in Nat /\ Len(Page) <= PageLen /\ PageLen \in Nat
        /\ phase' = "walking" => Len(Page) = PageLen
    BY <2>1, WalkTakes, PageSizes
  <2>3. SliceOf(got') \in Seq(Row) /\ shown \in Seq(Row)
    BY <2>2, SliceRows DEF PagedTypeOK
  <2>4. phase' # "walking" => RowsOf(shown') = RowsOf(shown) \cup RowsOf(SliceOf(got'))
    BY <1>7, <2>1, <2>3, RowsOfBoth DEF FetchPage
  <2>5. phase' = "walking" => shown' = shown
    BY <1>7, <2>1 DEF FetchPage
  <2>6. SliceOf(got)' = SliceOf(got')
    BY <1>2 DEF SliceOf
  <2>7. Taken' = RowsOf(shown) \cup RowsOf(SliceOf(got'))
    BY <1>2, <1>7, <2>4, <2>5, <2>6 DEF Taken, RowsOf
  <2>8. ASSUME NEW r \in stayed, r \notin Taken',
               Place(visible, r) < offset \/
                 (Place(visible, r) < offset + Slice /\ Place(visible, r) < start')
        PROVE  r \in Missed
    BY <1>7, <2>1, <2>7, <2>8, SliceMissesNone
  <2>9. ASSUME Unfinished'
        PROVE  Cardinality(Missed') <= removed'
    <3>1. Missed' \subseteq Missed
      <4> SUFFICES ASSUME NEW r \in stayed, r \notin Taken', Place(visible, r) < Reach'
                   PROVE  r \in Missed
        BY <1>2 DEF Missed, Behind
      <4>1. Reach' = IF phase' # "walking" \/ start' >= offset + Slice THEN offset + Slice
                     ELSE IF start' >= offset THEN start' ELSE offset
        BY <1>2, <1>7 DEF Reach
      <4>2. Place(visible, r) \in Nat
        BY <1>3, <1>5
      <4>3. phase' # "walking" => offset + Slice < start'
        BY <1>2, <1>3, <2>2, <2>9 DEF Unfinished
      <4>4. Place(visible, r) < offset \/
              (Place(visible, r) < offset + Slice /\ Place(visible, r) < start')
        BY <1>3, <4>1, <4>2, <4>3
      <4>. QED
        BY <2>8, <4>4
    <3>. QED
      BY <1>1, <1>2, <1>3, <1>4, <3>1, FewerMissed
  <2>10. ASSUME phase' = "done", offset' + Slice >= Len(got')
         PROVE  Cardinality(stayed' \ RowsOf(shown')) <= removed'
    <3>1. start' >= Len(rows) /\ Len(rows) \in Nat
      BY <2>10, DoneAtTheEnd, PageSizes
    <3>2. Len(got') >= Len(rows)
      <4>1. CASE start >= Len(rows)
        BY <1>3, <2>2, <3>1, <4>1
      <4>2. CASE start < Len(rows)
        BY <1>3, <2>2, <3>1, <4>2, PageRows
      <4>. QED
        BY <1>3, <3>1, <4>1, <4>2
    <3>3. stayed' \ RowsOf(shown') \subseteq Missed
      <4> SUFFICES ASSUME NEW r \in stayed, r \notin RowsOf(shown')
                   PROVE  r \in Missed
        BY <1>2
      <4>1. r \notin Taken'
        BY <2>4, <2>7, <2>10
      <4>2. Place(visible, r) < offset + Slice /\ Place(visible, r) < start'
        BY <1>2, <1>3, <1>5, <2>2, <2>10, <3>1, <3>2
      <4>. QED
        BY <2>8, <4>1, <4>2
    <3>. QED
      BY <1>1, <1>2, <1>3, <1>4, <3>3, FewerMissed
  <2>11. phase' = "walking" => Len(got') = start'
    BY <2>2
  <2>. QED
    BY <1>2, <1>7, <2>9, <2>10, <2>11 DEF MissedInv, MissedOnlyByDeletion, Finished
<1>. QED
  BY <1>6, <1>7

\* A row that is added or removed.
LEMMA MissedChange ==
  ASSUME PagedTypeOK, PagedTypeOK', MissedInv, NEW x \in Row, AddRow(x) \/ RemoveRow(x)
  PROVE  MissedInv'
<1>1. /\ stayed \in SUBSET visible /\ visible \in SUBSET Row /\ removed \in Nat
      /\ start \in Nat /\ offset \in Nat /\ Slice \in Nat
  BY PageSizes, SizesAssumption DEF PagedTypeOK
<1>2. /\ UNCHANGED <<kind, offset, shown, phase, page, limit, got>>
      /\ stayed' = stayed \cap visible'
  BY DEF AddRow, RemoveRow, Change, agentVars, walkVars
<1>3. start' = start
  BY <1>2 DEF start
<1>4. Taken' = Taken
  BY <1>2 DEF Taken, RowsOf, SliceOf
<1>5. Reach' = Reach /\ Reach \in Nat
  BY <1>1, <1>2, <1>3 DEF Reach
<1>6. Unfinished' <=> Unfinished
  BY <1>2 DEF Unfinished
<1>7. removed' \in {removed, removed + 1} /\ removed' >= removed
  BY <1>1 DEF AddRow, RemoveRow
<1>8. ASSUME Unfinished
      PROVE  Cardinality(Missed') <= removed'
  <2>1. Cardinality(Missed) <= removed
    BY <1>8 DEF MissedInv
  <2>2. Missed' = Behind(visible', stayed \cap visible', Taken, Reach)
    BY <1>2, <1>4, <1>5 DEF Missed, Behind
  <2>3. Missed \in SUBSET Row
    BY <1>1 DEF Missed, Behind
  <2>4. CASE AddRow(x)
    <3>1. visible' = visible \cup {x}
      BY <2>4 DEF AddRow, Change
    <3>2. Missed' \subseteq Missed
      BY <1>1, <1>5, <2>2, <3>1, NoneSlipsBack DEF Missed
    <3>3. Cardinality(Missed') <= removed
      BY <1>1, <2>1, <2>3, <3>2, FewerMissed
    <3>. QED
      BY <2>4, <3>3 DEF AddRow
  <2>5. CASE RemoveRow(x)
    <3>1. visible' = visible \ {x} /\ x \in visible /\ removed' = removed + 1
      BY <2>5 DEF RemoveRow, Change
    <3>2. Cardinality(Behind(visible \ {x}, stayed \cap (visible \ {x}), Taken, Reach))
            <= removed + 1
      BY <1>1, <1>5, <2>1, <3>1, OneSlipsBack DEF Missed
    <3>. QED
      BY <2>2, <3>1, <3>2
  <2>. QED
    BY <2>4, <2>5
<1>9. ASSUME Finished'
      PROVE  Cardinality(stayed' \ RowsOf(shown')) <= removed'
  <2>1. Finished
    BY <1>2, <1>9 DEF Finished
  <2>2. Cardinality(stayed \ RowsOf(shown)) <= removed
    BY <2>1 DEF MissedInv, MissedOnlyByDeletion
  <2>3. /\ stayed' \ RowsOf(shown') \subseteq stayed \ RowsOf(shown)
        /\ stayed \ RowsOf(shown) \in SUBSET Row
    BY <1>1, <1>2
  <2>4. Cardinality(stayed' \ RowsOf(shown')) <= removed
    BY <1>1, <2>2, <2>3, FewerMissed
  <2>5. Cardinality(stayed' \ RowsOf(shown')) \in Nat
    BY <2>3, Listable
  <2>. QED
    BY <1>1, <1>7, <2>4, <2>5
<1>10. phase' = "walking" /\ kind' # "tasks" => Len(got') = start'
  BY <1>2, <1>3 DEF MissedInv
<1>. QED
  BY <1>6, <1>8, <1>9, <1>10 DEF MissedInv, MissedOnlyByDeletion

LEMMA MissedNext == PagedTypeOK /\ PagedTypeOK' /\ MissedInv /\ [PagedNext]_pagedVars => MissedInv'
<1> SUFFICES ASSUME PagedTypeOK, PagedTypeOK', MissedInv, [PagedNext]_pagedVars
             PROVE  MissedInv'
  OBVIOUS
<1>1. CASE FetchFails
  BY <1>1 DEF FetchFails, MissedInv, Unfinished, MissedOnlyByDeletion, Finished
<1>2. CASE NextSlice
  <2>1. /\ phase' = "walking" /\ got' = <<>> /\ page' = 1 /\ offset' = offset + Slice
        /\ kind = "docs" /\ phase # "walking" /\ Unfinished
        /\ UNCHANGED <<kind, shown, visible, stayed, removed, limit>>
    BY <1>2 DEF NextSlice, Unfinished
  <2>2. /\ offset \in Nat /\ Slice \in Nat \ {0} /\ offset' \in Nat
        /\ <<>> \in Seq(Row) /\ Len(<<>>) = 0
    BY EmptySeq, SizesAssumption DEF PagedTypeOK
  <2>3. start' = 0
    <3>1. page' - 1 = 0 /\ PageLen' \in Nat
      BY <2>1, SizesAssumption DEF PageLen, RowsAsked
    <3>. QED
      BY <3>1 DEF start, PageLen
  <2>4. RowsOf(SliceOf(got))' = {}
    <3>1. SliceOf(got)' = <<>>
      <4>1. Upto(offset', 0) = 0 /\ Upto(offset' + Slice, 0) = 0
        <5>1. \A o \in Nat : Upto(o, 0) = 0
          BY DEF Upto
        <5>2. offset' \in Nat /\ Slice \in Nat
          BY SizesAssumption DEF PagedTypeOK
        <5>3. \A m, n \in Nat : m + n \in Nat
          OBVIOUS
        <5>. QED
          BY <5>1, <5>2, <5>3, Zenon
      <4>2. SliceOf(got)' = SubSeq(<<>>, 0 + 1, 0)
        BY <2>1, <2>2, <4>1 DEF SliceOf
      <4>. QED
        BY <4>2, SubSeqEmpty
    <3>. QED
      BY <2>2, <3>1 DEF RowsOf
  <2>5. Taken' = RowsOf(shown) /\ Taken = RowsOf(shown)
    BY <2>1, <2>4 DEF Taken, RowsOf
  <2>6. Reach' = offset + Slice /\ Reach = offset + Slice
    BY <2>1, <2>2, <2>3 DEF Reach
  <2>7. Missed' = Missed
    BY <2>1, <2>5, <2>6 DEF Missed, Behind
  <2>. QED
    BY <2>1, <2>2, <2>3, <2>7 DEF MissedInv, MissedOnlyByDeletion, Finished
<1>3. CASE UNCHANGED pagedVars
  <2>1. Unfinished' = Unfinished /\ Missed' = Missed /\ start' = start
    BY <1>3 DEF pagedVars, agentVars, walkVars, Unfinished, Missed, Behind, Taken, Reach,
                RowsOf, SliceOf, start
  <2>. QED
    BY <1>3, <2>1 DEF pagedVars, agentVars, walkVars, MissedInv, MissedOnlyByDeletion,
                      Finished, RowsOf
<1>. QED
  BY <1>1, <1>2, <1>3, MissedRead, MissedChange DEF PagedNext

\* A row that stayed and was not shown is paid for by a row that was removed,
\* in every paged read, for all page sizes, budgets, caps and orders.
THEOREM MissedOnlyByDeletionHolds == PagedSpec => []MissedOnlyByDeletion
<1>1. MissedInv => MissedOnlyByDeletion
  BY DEF MissedInv
<1>. QED
  BY <1>1, PagedInitType, PagedNextType, MissedInit, MissedNext, PTL DEF PagedSpec

-----------------------------------------------------------------------------
(***************************************************************************)
(* Reading in windows (RowReader), for any rows: whatever the sizes of the *)
(* windows, and however often the reading is begun again, what was read of *)
(* a collection that stayed as it was is its beginning, each row once and  *)
(* in order.                                                               *)
(*                                                                         *)
(* The windows follow each other, so each step joins two neighbouring      *)
(* pieces of one sequence; the lemma Neighbours is that join, for windows  *)
(* that reach past the end as well.                                        *)
(***************************************************************************)
Reading == rows \in Seq(Row) /\ start \in Nat
RowsInv == Reading /\ Reader!WholeSoFar

\* Two neighbouring windows of a sequence are one: the cut of a page is
\* nowhere to be seen in what is read.
LEMMA Neighbours ==
  ASSUME NEW s \in Seq(Row), NEW a \in Nat, NEW b \in Nat, a < b
  PROVE  SubSeq(s, 1, Reader!Upto(a, Len(s))) \o SubSeq(s, a + 1, Reader!Upto(b, Len(s)))
           = SubSeq(s, 1, Reader!Upto(b, Len(s)))
<1>0. Len(s) \in Nat
  BY LenProperties
<1>1. CASE a <= Len(s)
  <2>1. PICK c \in a..Len(s) : c = Reader!Upto(b, Len(s))
    BY <1>0, <1>1 DEF Reader!Upto
  <2>2. Reader!Upto(a, Len(s)) = a
    BY <1>1 DEF Reader!Upto
  <2>3. 1 \in 1..(Len(s) + 1) /\ a \in (1 - 1)..Len(s)
    BY <1>0, <1>1
  <2>4. SubSeq(s, 1, a) \o SubSeq(s, a + 1, c) = SubSeq(s, 1, c)
    BY <2>3, ConcatAdjacentSubSeq
  <2>. QED
    BY <2>1, <2>2, <2>4
<1>2. CASE Len(s) < a
  <2>1. Reader!Upto(a, Len(s)) = Len(s) /\ Reader!Upto(b, Len(s)) = Len(s)
    BY <1>0, <1>2 DEF Reader!Upto
  <2>2. SubSeq(s, a + 1, Len(s)) = <<>>
    BY <1>0, <1>2, SubSeqEmpty
  <2>3. SubSeq(s, 1, Len(s)) = s /\ s \o <<>> = s
    BY SubSeqFull, ConcatEmptySeq
  <2>. QED
    BY <2>1, <2>2, <2>3
<1>3. a <= Len(s) \/ Len(s) < a
  BY <1>0
<1>. QED
  BY <1>1, <1>2, <1>3

\* Nothing is read at the start of a reading.
LEMMA NoRowsYet ==
  ASSUME NEW s \in Seq(Row)
  PROVE  SubSeq(s, 1, Reader!Upto(0, Len(s))) = <<>>
<1>1. Len(s) \in Nat
  BY LenProperties
<1>2. Reader!Upto(0, Len(s)) = 0
  BY <1>1 DEF Reader!Upto
<1>. QED
  BY <1>2, SubSeqEmpty

LEMMA RowsInit == Reader!Init => RowsInv
<1> SUFFICES ASSUME Reader!Init
             PROVE  RowsInv
  OBVIOUS
<1>1. rows \in Seq(Row) /\ start = 0 /\ got = <<>>
  BY DEF Reader!Init
<1>2. Reader!WholeSoFar
  BY <1>1, NoRowsYet DEF Reader!WholeSoFar
<1>. QED
  BY <1>1, <1>2 DEF RowsInv, Reading

LEMMA RowsNext == RowsInv /\ [Reader!Next]_Reader!vars => RowsInv'
<1> SUFFICES ASSUME RowsInv, [Reader!Next]_Reader!vars
             PROVE  RowsInv'
  OBVIOUS
<1> USE DEF RowsInv, Reading
<1>1. CASE Reader!Read
  <2>1. Reading'
    BY <1>1 DEF Reader!Read
  <2>2. ASSUME still'
        PROVE  got' = SubSeq(rows', 1, Reader!Upto(start', Len(rows')))
    <3>1. got = SubSeq(rows, 1, Reader!Upto(start, Len(rows)))
      BY <1>1, <2>2 DEF Reader!Read, Reader!WholeSoFar
    <3>2. start + (start' - start) = start'
      <4>1. start \in Nat /\ start' \in Nat
        BY <1>1 DEF Reader!Read
      <4>2. \A a, b \in Nat : a + (b - a) = b
        OBVIOUS
      <4>. QED
        BY <4>1, <4>2
    <3>3. got' = SubSeq(rows, 1, Reader!Upto(start, Len(rows))) \o SubSeq(rows, start + 1, Reader!Upto(start', Len(rows)))
      BY <1>1, <3>1, <3>2 DEF Reader!Read, Reader!Window
    <3>4. rows' = rows /\ start' \in Nat /\ start < start'
      BY <1>1 DEF Reader!Read
    <3>. QED
      BY <3>3, <3>4, Neighbours
  <2>. QED
    BY <2>1, <2>2 DEF Reader!WholeSoFar
<1>2. CASE Reader!Restart
  <2>1. Reading'
    BY <1>2 DEF Reader!Restart
  <2>2. got' = <<>> /\ rows' = rows /\ start' = 0
    BY <1>2 DEF Reader!Restart
  <2>. QED
    BY <2>1, <2>2, NoRowsYet DEF Reader!WholeSoFar
<1>3. CASE Reader!Change
  BY <1>3 DEF Reader!Change, Reader!WholeSoFar
<1>4. CASE UNCHANGED Reader!vars
  BY <1>4 DEF Reader!vars, Reader!WholeSoFar
<1>. QED
  BY <1>1, <1>2, <1>3, <1>4 DEF Reader!Next

\* Every reader that implements RowReader, as the walks of list_docs,
\* list_doc_comments and list_tasks do (PageWalks!ReadsRowByRow), has read,
\* while nothing changed, the collection up to its offset: no row twice, none
\* left out.
THEOREM WholeSoFarHolds == Reader!Spec => []Reader!WholeSoFar
<1>1. Reader!Init => RowsInv
  BY RowsInit
<1>2. RowsInv /\ [Reader!Next]_Reader!vars => RowsInv'
  BY RowsNext
<1>3. RowsInv => Reader!WholeSoFar
  BY DEF RowsInv
<1>. QED
  BY <1>1, <1>2, <1>3, PTL DEF Reader!Spec

\* When the reading comes to an end of a collection that stayed as it was, all
\* of it has been read.
THEOREM AllRead == Reader!Spec => [](still /\ start >= Len(rows) => got = rows)
<1>1. Reader!Init => RowsInv
  BY RowsInit
<1>2. RowsInv /\ [Reader!Next]_Reader!vars => RowsInv'
  BY RowsNext
<1>3. RowsInv => (still /\ start >= Len(rows) => got = rows)
  <2> SUFFICES ASSUME RowsInv, still, start >= Len(rows)
               PROVE  got = rows
    OBVIOUS
  <2>1. Len(rows) \in Nat /\ start \in Nat
    BY LenProperties DEF RowsInv, Reading
  <2>2. Reader!Upto(start, Len(rows)) = Len(rows)
    BY <2>1 DEF Reader!Upto
  <2>. QED
    BY <2>2, SubSeqFull DEF RowsInv, Reading, Reader!WholeSoFar
<1>. QED
  BY <1>1, <1>2, <1>3, PTL DEF Reader!Spec

-----------------------------------------------------------------------------
(***************************************************************************)
(* Complete walks of a collection that did not change.                     *)
(***************************************************************************)
EndReached == phase = "done" /\ still => start >= Len(rows)

LEMMA EndNext == PagedTypeOK /\ EndReached /\ [PagedNext]_pagedVars => EndReached'
<1> SUFFICES ASSUME PagedTypeOK, EndReached, [PagedNext]_pagedVars, phase' = "done", still'
             PROVE  start' >= Len(rows')
  BY DEF EndReached
<1>1. CASE FetchPage \/ ListTasks
  BY <1>1, DoneAtTheEnd, WalkGoesOn
<1>2. CASE FetchFails \/ NextSlice
  BY <1>2 DEF FetchFails, NextSlice
<1>3. ASSUME NEW r \in Row, AddRow(r) \/ RemoveRow(r)
      PROVE  FALSE
  BY <1>3 DEF AddRow, RemoveRow, Change
<1>4. CASE UNCHANGED pagedVars
  BY <1>4 DEF EndReached, pagedVars, agentVars, walkVars, start, rows
<1>. QED
  BY <1>1, <1>2, <1>3, <1>4 DEF PagedNext

Whole == phase = "done" /\ still => got = rows

LEMMA WholeWalk == PagedSpec => []Whole
<1>1. PagedInit => EndReached
  BY DEF PagedInit, EndReached
<1>2. EndReached /\ (still /\ start >= Len(rows) => got = rows) => Whole
  BY DEF EndReached, Whole
<1>3. PagedSpec => Reader!Spec
  BY ReadsRowByRowHolds DEF ReadsRowByRow
<1>4. PagedSpec => []EndReached
  BY <1>1, PagedInitType, PagedNextType, EndNext, PTL DEF PagedSpec
<1>. QED
  BY <1>2, <1>3, <1>4, AllRead, PTL

\* The rows of the listing are those that are visible.
LEMMA RowsListed ==
  ASSUME PagedTypeOK
  PROVE  RowsOf(rows) = visible
<1>1. visible \in SUBSET Row
  BY DEF PagedTypeOK
<1>2. /\ rows \in Seq(visible) /\ Len(rows) = Cardinality(visible) /\ Len(rows) \in Nat
      /\ \A r \in visible : rows[Place(visible, r) + 1] = r
  BY <1>1, Listed, PageSizes DEF rows
<1>3. \A i \in 1..Len(rows) : rows[i] \in visible
  BY <1>2, ElementOfSeq
<1>4. \A r \in visible : Place(visible, r) + 1 \in 1..Len(rows)
  BY <1>1, <1>2, Places
<1>. QED
  BY <1>2, <1>3, <1>4 DEF RowsOf

\* Every comment of a thread that is listed whole is shown, at the top or under
\* the comment it answers.
THEOREM EveryCommentPlacedHolds == PagedSpec => []EveryCommentPlaced
<1>1. ASSUME PagedTypeOK, Whole
      PROVE  EveryCommentPlaced
  <2> SUFFICES ASSUME phase = "done", still
               PROVE  /\ Len(got) = Cardinality(visible)
                      /\ visible = Top \cup UNION {Replies(p) : p \in Top}
                      /\ Orphans = {r \in visible : Answers[r] # NoRow /\ Answers[r] \notin visible}
    BY DEF EveryCommentPlaced
  <2>1. got = rows
    BY <1>1 DEF Whole
  <2>2. RowsOf(got) = visible /\ Len(got) = Cardinality(visible)
    BY <1>1, <2>1, RowsListed, PageSizes
  <2>3. visible \in SUBSET Row
    BY <1>1 DEF PagedTypeOK
  <2>4. ASSUME NEW r \in visible, r \notin Top
        PROVE  Answers[r] \in Top /\ r \in Replies(Answers[r])
    <3>1. Known(r) /\ Answers[r] \in visible
      BY <2>2, <2>4 DEF Top, Known
    <3>2. Answers[Answers[r]] = NoRow
      BY <2>3, <3>1, ThreadsAssumption
    <3>3. ~Known(Answers[r])
      BY <2>2, <2>3, <3>2, RowsAssumption DEF Known
    <3>. QED
      BY <2>2, <3>1, <3>3 DEF Top, Replies
  <2>5. Top \subseteq visible /\ \A p : Replies(p) \subseteq visible
    BY <2>2 DEF Top, Replies
  <2>6. visible = Top \cup UNION {Replies(p) : p \in Top}
    BY <2>4, <2>5
  <2>7. Orphans = {r \in visible : Answers[r] # NoRow /\ Answers[r] \notin visible}
    BY <2>2 DEF Orphans, Top, Known
  <2>. QED
    BY <2>2, <2>6, <2>7
<1>. QED
  BY <1>1, WholeWalk, PagedTypeCorrect, PTL

-----------------------------------------------------------------------------
(***************************************************************************)
(* Paths.  A path is defined from the path of the document above, and the  *)
(* documents are a tree, so both that there are paths and that they differ *)
(* go by the depth of a document.                                          *)
(***************************************************************************)
Depths == {depth \in [Row -> 0..Len(Order)] :
             \A r \in Row : Above[r] \in Row => depth[Above[r]] < depth[r]}

\* The path of r, given those of the documents above it.
Onward(f, docs, r) ==
  IF Above[r] \in docs THEN Append(f[Above[r]], Slug[r]) ELSE <<Slug[r]>>

LEMMA PathsExist ==
  ASSUME NEW docs \in SUBSET Row
  PROVE  \A r \in docs : DocumentPaths(docs)[r] = Onward(DocumentPaths(docs), docs, r)
<1>1. PICK depth \in Depths : TRUE
  BY TreeAssumption DEF Depths
<1>2. /\ \A r \in Row : depth[r] \in Nat /\ depth[r] <= Len(Order)
      /\ \A r \in Row : Above[r] \in Row => depth[Above[r]] < depth[r]
      /\ Len(Order) \in Nat
  BY RowsAssumption, LenProperties DEF Depths
<1> DEFINE Upward(f, n) == \A r \in docs : depth[r] < n => f[r] = Onward(f, docs, r)
           S == {n \in Nat : ~ \E f : Upward(f, n)}
<1>3. S = {}
  <2> SUFFICES ASSUME S # {}
               PROVE  FALSE
    OBVIOUS
  <2>1. PICK n \in S : \A m \in S : n <= m
    <3>1. S \in SUBSET Nat
      OBVIOUS
    <3> HIDE DEF S
    <3>. QED
      BY <3>1, Least
  <2>2. n # 0
    <3>1. \A r \in docs : ~(depth[r] < 0)
      BY <1>2
    <3>2. Upward([r \in docs |-> <<>>], 0)
      BY <3>1
    <3>. QED
      BY <3>2
  <2>3. n - 1 \in Nat /\ n - 1 \notin S
    BY <2>1, <2>2
  <2>4. PICK f : Upward(f, n - 1)
    BY <2>3
  <2> DEFINE g == [r \in docs |-> Onward(f, docs, r)]
  <2>5. ASSUME NEW r \in docs, depth[r] < n
        PROVE  g[r] = Onward(g, docs, r)
    <3>1. CASE Above[r] \in docs
      <4>1. depth[Above[r]] < n - 1
        BY <1>2, <2>1, <2>5, <3>1
      <4>2. f[Above[r]] = Onward(f, docs, Above[r])
        BY <2>4, <3>1, <4>1
      <4>3. g[Above[r]] = f[Above[r]]
        BY <3>1, <4>2
      <4>. QED
        BY <3>1, <4>3 DEF Onward
    <3>2. CASE Above[r] \notin docs
      BY <3>2 DEF Onward
    <3>. QED
      BY <3>1, <3>2
  <2>6. Upward(g, n)
    BY <2>5
  <2>. QED
    BY <2>1, <2>6
<1>4. PICK f : Upward(f, Len(Order) + 1)
  <2> DEFINE n == Len(Order) + 1
  <2>1. n \in Nat
    BY <1>2
  <2> HIDE DEF n
  <2>2. \A m \in Nat : \E f : Upward(f, m)
    BY <1>3
  <2>. QED
    BY <2>1, <2>2 DEF n
<1>5. \A r \in docs : f[r] = Onward(f, docs, r)
  <2>1. \A r \in docs : depth[r] < Len(Order) + 1
    BY <1>2
  <2>. QED
    BY <1>4, <2>1
<1> DEFINE g == [r \in docs |-> f[r]]
           path == CHOOSE p : p = [r \in docs |-> Onward(p, docs, r)]
<1>6. g = [r \in docs |-> Onward(g, docs, r)]
  BY <1>5 DEF Onward
<1>7. path = [r \in docs |-> Onward(path, docs, r)]
  <2> HIDE DEF g
  <2>. QED
    BY <1>6
<1>8. DocumentPaths(docs) = path
  BY DEF DocumentPaths, Onward
<1> HIDE DEF path
<1>9. \A r \in docs : path[r] = Onward(path, docs, r)
  BY <1>7
<1>. QED
  BY <1>8, <1>9

\* A document below another has a longer path than one that is at the top.
LEMMA PathLengths ==
  ASSUME NEW docs \in SUBSET Row
  PROVE  LET path == DocumentPaths(docs)
             Slugs == {Slug[r] : r \in Row}
         IN \A r \in docs : path[r] \in Seq(Slugs) /\ Len(path[r]) >= 1
<1>1. PICK depth \in Depths : TRUE
  BY TreeAssumption DEF Depths
<1>2. /\ \A r \in Row : depth[r] \in Nat
      /\ \A r \in Row : Above[r] \in Row => depth[Above[r]] < depth[r]
  BY DEF Depths
<1> DEFINE path == DocumentPaths(docs)
           Slugs == {Slug[r] : r \in Row}
           Fine(r) == path[r] \in Seq(Slugs) /\ Len(path[r]) >= 1
           S == {depth[r] : r \in {r \in docs : ~Fine(r)}}
<1>3. \A r \in docs : path[r] = Onward(path, docs, r)
  BY PathsExist
<1> HIDE DEF path
<1>4. S = {}
  <2> SUFFICES ASSUME S # {}
               PROVE  FALSE
    OBVIOUS
  <2>1. PICK n \in S : \A m \in S : n <= m
    <3>1. S \in SUBSET Nat
      BY <1>2
    <3> HIDE DEF S
    <3>. QED
      BY <3>1, Least
  <2>2. PICK r \in docs : ~Fine(r) /\ n = depth[r]
    BY <2>1
  <2>3. Slug[r] \in Slugs
    OBVIOUS
  <2>4. CASE Above[r] \in docs
    <3>1. ~(depth[r] <= depth[Above[r]])
      BY <1>2, <2>4
    <3>2. depth[Above[r]] \notin S
      BY <2>1, <2>2, <3>1
    <3>3. Fine(Above[r])
      BY <2>4, <3>2
    <3>4. path[r] = Append(path[Above[r]], Slug[r])
      BY <1>3, <2>4 DEF Onward
    <3> HIDE DEF Slugs
    <3>5. path[r] \in Seq(Slugs) /\ Len(path[r]) = Len(path[Above[r]]) + 1
      BY <2>3, <3>3, <3>4, AppendProperties
    <3>6. Len(path[Above[r]]) \in Nat
      BY <3>3, LenProperties
    <3>. QED
      BY <2>2, <3>3, <3>5, <3>6
  <2>5. CASE Above[r] \notin docs
    <3>1. path[r] = <<Slug[r]>>
      BY <1>3, <2>5 DEF Onward
    <3> HIDE DEF Slugs
    <3>2. path[r] \in Seq(Slugs) /\ Len(path[r]) = 1
      BY <2>3, <3>1
    <3>. QED
      BY <2>2, <3>2
  <2>. QED
    BY <2>4, <2>5
<1>5. \A r \in docs : Fine(r)
  BY <1>4
<1>. QED
  BY <1>5 DEF path

\* In a listing that has with each document the one above it, no two documents
\* have the same path.
LEMMA PathsDiffer ==
  ASSUME NEW docs \in SUBSET Row, \A r \in docs : Above[r] \in docs \cup {NoRow}
  PROVE  \A r, s \in docs : DocumentPaths(docs)[r] = DocumentPaths(docs)[s] => r = s
<1>1. PICK depth \in Depths : TRUE
  BY TreeAssumption DEF Depths
<1>2. /\ \A r \in Row : depth[r] \in Nat
      /\ \A r \in Row : Above[r] \in Row => depth[Above[r]] < depth[r]
  BY DEF Depths
<1> DEFINE path == DocumentPaths(docs)
           Slugs == {Slug[r] : r \in Row}
           Alone(r) == \A s \in docs : path[r] = path[s] => r = s
           S == {depth[r] : r \in {r \in docs : ~Alone(r)}}
<1>3. \A r \in docs : /\ path[r] = Onward(path, docs, r)
                       /\ path[r] \in Seq(Slugs) /\ Len(path[r]) >= 1
  BY PathsExist, PathLengths
<1> HIDE DEF path
<1>4. ASSUME NEW r \in docs, NEW s \in docs, Above[r] \in docs, Above[s] \notin docs
      PROVE  path[r] # path[s]
  <2>1. path[r] = Append(path[Above[r]], Slug[r]) /\ path[s] = <<Slug[s]>>
    BY <1>3, <1>4 DEF Onward
  <2>2. Slug[r] \in Slugs
    OBVIOUS
  <2> HIDE DEF Slugs
  <2>3. Len(path[r]) = Len(path[Above[r]]) + 1 /\ Len(path[Above[r]]) \in Nat
    BY <1>3, <1>4, <2>1, <2>2, AppendProperties, LenProperties
  <2>4. Len(path[s]) = 1
    BY <2>1
  <2>. QED
    BY <1>3, <1>4, <2>3, <2>4
<1>5. S = {}
  <2> SUFFICES ASSUME S # {}
               PROVE  FALSE
    OBVIOUS
  <2>1. PICK n \in S : \A m \in S : n <= m
    <3>1. S \in SUBSET Nat
      BY <1>2
    <3> HIDE DEF S
    <3>. QED
      BY <3>1, Least
  <2>2. PICK r \in docs : ~Alone(r) /\ n = depth[r]
    BY <2>1
  <2>3. PICK s \in docs : path[r] = path[s] /\ r # s
    BY <2>2
  <2>4. Slug[r] \in Slugs /\ Slug[s] \in Slugs
    OBVIOUS
  <2>5. CASE Above[r] \in docs /\ Above[s] \in docs
    <3>1. ~(depth[r] <= depth[Above[r]])
      BY <1>2, <2>5
    <3>2. depth[Above[r]] \notin S
      BY <2>1, <2>2, <3>1
    <3>3. Alone(Above[r])
      BY <2>5, <3>2
    <3>4. Append(path[Above[r]], Slug[r]) = Append(path[Above[s]], Slug[s])
      BY <1>3, <2>3, <2>5 DEF Onward
    <3>5. path[Above[r]] = path[Above[s]] /\ Slug[r] = Slug[s]
      <4> DEFINE t == path[Above[r]]
                 u == path[Above[s]]
                 d == Slug[r]
                 e == Slug[s]
      <4>1. t \in Seq(Slugs) /\ u \in Seq(Slugs)
        BY <1>3, <2>5
      <4>2. Append(t, d) = Append(u, e)
        BY <3>4
      <4> HIDE DEF Slugs, t, u, d, e
      <4>3. d \in Slugs /\ e \in Slugs
        BY <2>4 DEF d, e
      <4>4. t = u /\ d = e
        BY <4>1, <4>2, <4>3, AppendInjective
      <4>. QED
        BY <4>4 DEF t, u, d, e
    <3>6. Above[r] = Above[s]
      BY <2>5, <3>3, <3>5
    <3>. QED
      BY <2>3, <3>5, <3>6, TreeAssumption
  <2>6. CASE Above[r] \notin docs /\ Above[s] \notin docs
    <3>1. <<Slug[r]>> = <<Slug[s]>>
      BY <1>3, <2>3, <2>6 DEF Onward
    <3>2. Slug[r] = Slug[s] /\ Above[r] = Above[s]
      BY <2>6, <3>1
    <3>. QED
      BY <2>3, <3>2, TreeAssumption
  <2>7. CASE ~(Above[r] \in docs <=> Above[s] \in docs)
    BY <1>4, <2>3, <2>7
  <2>. QED
    BY <2>5, <2>6, <2>7
<1>6. \A r \in docs : Alone(r)
  BY <1>5
<1>. QED
  BY <1>6 DEF path

\* What one sequence ends with, it still does when both are longer by the same.
LEMMA EndsAppend ==
  ASSUME NEW E, NEW t \in Seq(E), NEW u, NEW e \in E, Ends(t, u)
  PROVE  Ends(Append(t, e), Append(u, e))
<1>1. PICK n \in 1..Len(t) : u = SubSeq(t, n, Len(t))
  BY DEF Ends
<1>2. n \in 1..Len(Append(t, e)) /\ Len(Append(t, e)) = Len(t) + 1
  BY AppendProperties, LenProperties
<1>3. Append(u, e) = SubSeq(Append(t, e), n, Len(t) + 1)
  BY <1>1
<1>. QED
  BY <1>2, <1>3 DEF Ends

LEMMA EndsLast ==
  ASSUME NEW E, NEW t \in Seq(E), NEW e \in E
  PROVE  Ends(Append(t, e), <<e>>)
<1>1. Len(Append(t, e)) = Len(t) + 1 /\ Len(t) \in Nat
  BY AppendProperties, LenProperties
<1>2. <<e>> = SubSeq(Append(t, e), Len(t) + 1, Len(t) + 1)
  OBVIOUS
<1>. QED
  BY <1>1, <1>2 DEF Ends

\* Over any listing, a document that is listed with all that are above it has
\* the path it has over the whole tree.
LEMMA PathsFromRoot ==
  ASSUME NEW docs \in SUBSET Row, NEW r \in Row, FromRoot(r, docs)
  PROVE  r \in docs /\ DocumentPaths(docs)[r] = DocumentPaths(Row)[r]
<1>1. PICK depth \in Depths : TRUE
  BY TreeAssumption DEF Depths
<1>2. /\ \A q \in Row : depth[q] \in Nat
      /\ \A q \in Row : Above[q] \in Row => depth[Above[q]] < depth[q]
  BY DEF Depths
<1>3. PICK S \in SUBSET docs : r \in S /\ \A q \in S : Above[q] \in S \cup {NoRow}
  BY DEF FromRoot
<1> DEFINE path == DocumentPaths(docs)
           live == DocumentPaths(Row)
           Same(q) == path[q] = live[q]
           D == {depth[q] : q \in {q \in S : ~Same(q)}}
<1>4. /\ \A q \in docs : path[q] = Onward(path, docs, q)
      /\ \A q \in Row : live[q] = Onward(live, Row, q)
  BY PathsExist
<1> HIDE DEF path, live
<1>5. D = {}
  <2> SUFFICES ASSUME D # {}
               PROVE  FALSE
    OBVIOUS
  <2>1. PICK n \in D : \A m \in D : n <= m
    <3>1. D \in SUBSET Nat
      BY <1>2
    <3> HIDE DEF D
    <3>. QED
      BY <3>1, Least
  <2>2. PICK q \in S : ~Same(q) /\ n = depth[q]
    BY <2>1
  <2>3. q \in docs /\ q \in Row /\ NoRow \notin Row /\ S \subseteq docs
    BY <1>3, RowsAssumption
  <2>4. CASE Above[q] \in S
    <3>1. Above[q] \in docs /\ Above[q] \in Row
      BY <2>3, <2>4
    <3>2. depth[Above[q]] < depth[q]
      BY <1>2, <2>3, <3>1
    <3>3. ~(depth[q] <= depth[Above[q]])
      BY <1>2, <2>3, <3>1, <3>2
    <3>4. depth[Above[q]] \notin D
      BY <2>1, <2>2, <3>3
    <3>5. Same(Above[q])
      BY <2>4, <3>4
    <3>. QED
      BY <1>4, <2>2, <2>3, <3>1, <3>5 DEF Onward
  <2>5. CASE Above[q] = NoRow
    BY <1>4, <2>2, <2>3, <2>5 DEF Onward
  <2>. QED
    BY <1>3, <2>4, <2>5
<1>6. \A q \in S : Same(q)
  BY <1>5
<1>. QED
  BY <1>3, <1>6 DEF path, live

\* A path over a listing is the end of the one over the whole tree.
LEMMA PathsEndTheirs ==
  ASSUME NEW docs \in SUBSET Row
  PROVE  \A r \in docs : Ends(DocumentPaths(Row)[r], DocumentPaths(docs)[r])
<1>1. PICK depth \in Depths : TRUE
  BY TreeAssumption DEF Depths
<1>2. /\ \A q \in Row : depth[q] \in Nat
      /\ \A q \in Row : Above[q] \in Row => depth[Above[q]] < depth[q]
  BY DEF Depths
<1> DEFINE path == DocumentPaths(docs)
           live == DocumentPaths(Row)
           Slugs == {Slug[r] : r \in Row}
           Fine(q) == Ends(live[q], path[q])
           D == {depth[q] : q \in {q \in docs : ~Fine(q)}}
<1>3. /\ \A q \in docs : path[q] = Onward(path, docs, q)
      /\ \A q \in Row : live[q] = Onward(live, Row, q)
      /\ \A q \in Row : live[q] \in Seq(Slugs) /\ Len(live[q]) >= 1
      /\ \A q \in docs : path[q] \in Seq(Slugs) /\ Len(path[q]) >= 1
  BY PathsExist, PathLengths
<1> HIDE DEF path, live
<1>4. D = {}
  <2> SUFFICES ASSUME D # {}
               PROVE  FALSE
    OBVIOUS
  <2>1. PICK n \in D : \A m \in D : n <= m
    <3>1. D \in SUBSET Nat
      BY <1>2
    <3> HIDE DEF D
    <3>. QED
      BY <3>1, Least
  <2>2. PICK q \in docs : ~Fine(q) /\ n = depth[q]
    BY <2>1
  <2>3. q \in Row /\ NoRow \notin Row /\ Slug[q] \in Slugs
    BY RowsAssumption
  <2>4. CASE Above[q] \in docs
    <3>1. Above[q] \in Row
      BY <2>4
    <3>2. ~(depth[q] <= depth[Above[q]])
      BY <1>2, <2>3, <3>1
    <3>3. depth[Above[q]] \notin D
      BY <2>1, <2>2, <3>2
    <3>4. Fine(Above[q])
      BY <2>4, <3>3
    <3>5. /\ path[q] = Append(path[Above[q]], Slug[q])
          /\ live[q] = Append(live[Above[q]], Slug[q])
      BY <1>3, <2>3, <2>4, <3>1 DEF Onward
    <3>6. live[Above[q]] \in Seq(Slugs)
      BY <1>3, <3>1
    <3> HIDE DEF Slugs
    <3>7. Ends(live[q], path[q])
      BY <2>3, <3>4, <3>5, <3>6, EndsAppend
    <3>. QED
      BY <2>2, <3>7
  <2>5. CASE Above[q] \notin docs
    <3>1. path[q] = <<Slug[q]>>
      BY <1>3, <2>5 DEF Onward
    <3>2. \E t \in Seq(Slugs) : live[q] = Append(t, Slug[q])
      <4>1. CASE Above[q] \in Row
        BY <1>3, <2>3, <4>1 DEF Onward
      <4>2. CASE Above[q] \notin Row
        <5>1. live[q] = <<Slug[q]>>
          BY <1>3, <2>3, <4>2 DEF Onward
        <5> HIDE DEF Slugs
        <5>2. <<>> \in Seq(Slugs) /\ Append(<<>>, Slug[q]) = <<Slug[q]>>
          BY <2>3
        <5>. QED
          BY <5>1, <5>2
      <4>. QED
        BY <4>1, <4>2
    <3> HIDE DEF Slugs
    <3>3. Ends(live[q], path[q])
      BY <2>3, <3>1, <3>2, EndsLast
    <3>. QED
      BY <2>2, <3>3
  <2>. QED
    BY <2>4, <2>5
<1>5. \A q \in docs : Fine(q)
  BY <1>4
<1>. QED
  BY <1>5 DEF path, live

\* The path list_docs gives a document is the end of its path from the root,
\* whichever page of the listing the documents above it were on; one that is
\* listed with all that are above it opens by its path, and no other does.
THEOREM PathsOpenTheirRowHolds == PagedSpec => []PathsOpenTheirRow
<1>1. ASSUME PagedTypeOK, Whole
      PROVE  PathsOpenTheirRow
  <2> DEFINE listed == DocumentPaths(PathBase)
             live == DocumentPaths(Row)
  <2> SUFFICES ASSUME kind = "docs", phase = "done", still, NEW r \in RowsOf(got)
               PROVE  /\ r \in PathBase
                      /\ Ends(live[r], listed[r])
                      /\ FromRoot(r, visible) =>
                           /\ listed[r] = live[r]
                           /\ \A s \in Row : live[s] = listed[r] => s = r
    BY DEF PathsOpenTheirRow
  <2>1. RowsOf(got) = visible /\ PathBase = visible
    BY <1>1, RowsListed DEF Whole, PathBase
  <2>2. visible \in SUBSET Row /\ r \in PathBase /\ r \in Row /\ PathBase \in SUBSET Row
    BY <1>1, <2>1 DEF PagedTypeOK
  <2>3. Ends(live[r], listed[r])
    BY <2>2, PathsEndTheirs
  <2>4. ASSUME FromRoot(r, visible)
        PROVE  listed[r] = live[r]
    <3>1. FromRoot(r, PathBase)
      BY <2>1, <2>4
    <3>. QED
      BY <2>2, <3>1, PathsFromRoot
  <2>5. \A s, t \in Row : live[s] = live[t] => s = t
    BY PathsDiffer, RowsAssumption
  <2> HIDE DEF live, listed
  <2>. QED
    BY <2>2, <2>3, <2>4, <2>5
<1>. QED
  BY <1>1, WholeWalk, PagedTypeCorrect, PTL
====
