------------------------- MODULE ListScreens_proofs -------------------------
(***************************************************************************)
(* Theorems about ListScreens for any number of expenses, decisions, pages *)
(* and clicks.                                                             *)
(*                                                                         *)
(* What a list of pending expenses shows is bound to be right only while   *)
(* no decision is under way: before that, a cancelled request may bring    *)
(* back a page, and take away the mark that it has to be asked for again.  *)
(* The decision that ends last makes up for it, since its invalidation     *)
(* marks every list or asks for it.                                        *)
(***************************************************************************)
EXTENDS ListScreens, FiniteSetTheorems, WellFoundedInduction, TLAPS

-----------------------------------------------------------------------------
(* The invariant. *)

Lists == [total : Nat, items : SUBSET Expense]

Snapshots == [data : SUBSET Lists, stale : BOOLEAN, failed : BOOLEAN]
Entries == [data : SUBSET Lists, fetch : {"idle", "asked", "answered"},
            answer : SUBSET Lists, before : Snapshots,
            stale : BOOLEAN, failed : BOOLEAN, late : BOOLEAN, missed : BOOLEAN]

Remembered == UNION {[S -> SUBSET Lists] : S \in SUBSET QueueKeys}
Decisions == [phase : {"sent", "taken", "refused"}, id : Expense, pages : Remembered]

\* What the variables hold, but for the cache.
TypeInv ==
    /\ status \in [Expense -> Status]
    /\ screen \in Screens /\ page \in Pages
    /\ typed \in {Blank, Term} /\ term \in {Blank, Term} /\ only \in Filters
    /\ kept = {} \/ \E k \in Key : kept = {k}
    /\ decision \in [Mutation -> Decisions \cup {NoDecision}]
    /\ decided \subseteq Expense

\* Whoever was told that a decision was taken was told so after it was.
DecidedInv ==
    /\ \A e \in decided : status[e] = "DECIDED"
    /\ \A m \in Mutation : decision[m].phase = "taken" => status[decision[m].id] = "DECIDED"

\* The expenses a list of pending ones must not show.
Gone == IF \A m \in Mutation : decision[m] = NoDecision THEN decided ELSE {}

\* Data and answer of an entry show none of S, or it is known that they may.
Lacks(d, S) == d.items \cap S = {}
Fresh(c, S) ==
    /\ c.stale \/ c.missed \/ \A d \in c.data : Lacks(d, S)
    /\ c.late \/ \A d \in c.answer : Lacks(d, S)

\* The trail has no rows of pending expenses at all.
NoRows(c) == \A d \in c.data \cup c.answer : d.items = {}

\* What is bound to hold of the entry c of key k.
Good(k, c, S) ==
    /\ c \in Entries
    /\ c.fetch = "idle" => c.answer = {}
    /\ k.only = "PENDING" => IF k.screen = "trail" THEN NoRows(c) ELSE Fresh(c, S)

CacheInv ==
    /\ DOMAIN cache \subseteq Key
    /\ \A k \in DOMAIN cache : Good(k, cache[k], Gone)

ListsInv == TypeInv /\ DecidedInv /\ CacheInv /\ PageBelongsToItsSearch

-----------------------------------------------------------------------------
(* Entries of the cache. *)

LEMMA SnapshotOfEntry ==
    ASSUME NEW c \in Entries
    PROVE  /\ [data |-> c.data, stale |-> c.stale, failed |-> c.failed] \in Snapshots
           /\ NotAsked \in Snapshots /\ c.before \in Snapshots
BY DEF Entries, Snapshots, NotAsked

\* Asking keeps data and what is known of them.
LEMMA Asked ==
    ASSUME NEW c \in Entries
    PROVE  /\ Ask(c) \in Entries
           /\ Ask(c).data = c.data /\ Ask(c).stale = c.stale /\ Ask(c).missed = c.missed
           /\ Ask(c).answer = {} /\ Ask(c).fetch = "asked"
<1>1. [data |-> c.data, stale |-> c.stale, failed |-> c.failed] \in Snapshots
  BY SnapshotOfEntry
<1>2. QED
  BY <1>1 DEF Ask, Entries, Loaded

\* What the library does with an entry, cancelling and writing excepted.
LEMMA GoodSteps ==
    ASSUME NEW k \in Key, NEW S, NEW c, Good(k, c, S), NEW old \in BOOLEAN
    PROVE  /\ Good(k, Ask(c), S) /\ Good(k, Mount(c, old), S) /\ Good(k, Fail(c), S)
           /\ Good(k, Arrive(c), S)
<1>1. c \in Entries
  BY DEF Good
<1>2. Good(k, Ask(c), S)
  BY <1>1, Asked DEF Good, Fresh, NoRows
<1>3. Good(k, Mount(c, old), S)
  BY <1>2 DEF Mount
<1>4. Good(k, Fail(c), S)
  <2>1. Fail(c) \in Entries
    BY <1>1, SnapshotOfEntry DEF Fail, Entries
  <2>2. /\ Fail(c).data = c.data /\ Fail(c).answer = {} /\ Fail(c).stale
    BY <1>1 DEF Fail, Entries
  <2>3. QED
    BY <2>1, <2>2 DEF Good, Fresh, NoRows
<1>5. Good(k, Arrive(c), S)
  <2>1. Arrive(c) \in Entries
    BY <1>1, SnapshotOfEntry DEF Arrive, Entries
  <2>2. /\ Arrive(c).data = c.answer /\ Arrive(c).answer = {} /\ Arrive(c).missed = c.late
    BY <1>1 DEF Arrive, Entries
  <2>3. QED
    BY <2>1, <2>2 DEF Good, Fresh, NoRows
<1>6. QED
  BY <1>2, <1>3, <1>4, <1>5

\* An entry nobody has used.
LEMMA GoodEmpty ==
    ASSUME NEW k \in Key, NEW S
    PROVE  Good(k, Empty, S)
<1>1. Empty \in Entries
  BY DEF Empty, Entries, Snapshots, NotAsked
<1>2. Empty.data = {} /\ Empty.answer = {}
  BY DEF Empty
<1>3. QED
  BY <1>1, <1>2 DEF Good, Fresh, NoRows

\* An invalidated list is asked for at once or when it is next in use.
LEMMA GoodInvalidated ==
    ASSUME NEW k \in Key, k.screen # "trail", NEW S, NEW c \in Entries,
           c.fetch = "idle" => c.answer = {}, NEW yes \in BOOLEAN
    PROVE  Good(k, Invalidate(c, yes), S)
<1> DEFINE marked == [c EXCEPT !.stale = TRUE]
<1>1. /\ marked \in Entries /\ marked.stale
      /\ marked.answer = c.answer /\ marked.fetch = c.fetch
  BY DEF Entries
<1>2. Ask(marked) \in Entries /\ Ask(marked).stale /\ Ask(marked).answer = {} /\ Ask(marked).fetch = "asked"
  BY <1>1, Asked
<1>3. CASE Invalidate(c, yes) = Ask(marked)
  BY <1>2, <1>3 DEF Good, Fresh
<1>4. CASE Invalidate(c, yes) = [marked EXCEPT !.late = @ \/ Fetching(c)]
  <2>1. Fetching(c) \in BOOLEAN
    BY DEF Fetching
  <2>2. /\ Invalidate(c, yes) \in Entries /\ Invalidate(c, yes).stale
        /\ Invalidate(c, yes).answer = c.answer /\ Invalidate(c, yes).fetch = c.fetch
        /\ Fetching(c) => Invalidate(c, yes).late
    BY <1>1, <1>4, <2>1 DEF Entries
  <2>3. QED
    BY <2>2 DEF Good, Fresh, Fetching
<1>5. QED
  BY <1>3, <1>4 DEF Invalidate

\* Cancelled requests and data written over others: types, and requests that rest.
Rests(c) == c \in Entries /\ (c.fetch = "idle" => c.answer = {})

LEMMA CancelledRests ==
    ASSUME NEW c, Rests(c)
    PROVE  Rests(Cancel(c))
<1>1. CASE Fetching(c)
  <2>1. /\ c.before.data \in SUBSET Lists /\ c.before.stale \in BOOLEAN
        /\ c.before.failed \in BOOLEAN
    BY DEF Rests, Entries, Snapshots
  <2>2. Cancel(c) \in Entries
    BY <1>1, <2>1, SnapshotOfEntry DEF Rests, Cancel, Entries
  <2>3. Cancel(c).answer = {}
    BY <1>1 DEF Cancel, Rests, Entries
  <2>4. QED
    BY <2>2, <2>3 DEF Rests
<1>2. CASE ~Fetching(c)
  BY <1>2 DEF Cancel
<1>3. QED
  BY <1>1, <1>2

LEMMA WrittenRests ==
    ASSUME NEW c, Rests(c), NEW d \in Lists
    PROVE  Rests(Write(c, d))
BY DEF Rests, Write, Entries

-----------------------------------------------------------------------------
(* The server's answers. *)

LEMMA PagesAreNumbers == Pages \subseteq Int /\ 1 \in Pages
BY DEF Pages

LEMMA KeysAreKeys ==
    ASSUME NEW s \in Screens, NEW p \in Pages, NEW t \in {Blank, Term}, NEW o \in Filters
    PROVE  KeyOf(s, p, t, o) \in Key
BY DEF KeyOf, Queue, Key, Screens

LEMMA CurrentIsAKey == TypeInv => Current \in Key
BY KeysAreKeys DEF TypeInv, Current

\* A list of pending expenses has none that is decided.
LEMMA MatchesArePending ==
    ASSUME TypeInv, NEW k \in Key
    PROVE  /\ Matches(k) \subseteq Expense
           /\ k.only = "PENDING" =>
                 /\ \A e \in Matches(k) : status[e] = "PENDING"
                 /\ k.screen = "trail" => Matches(k) = {}
<1>1. CASE k \in {Queue(p) : p \in Pages}
  <2>1. k.screen = "approvals"
    BY <1>1 DEF Queue
  <2>2. Matches(k) = PendingOf
    BY <2>1 DEF Matches
  <2>3. QED
    BY <2>1, <2>2 DEF PendingOf
<1>2. CASE k \in [screen : {"ledger", "trail"}, page : Pages, term : {Blank, Term}, only : Filters]
  <2>1. Found(k.term) \subseteq Expense
    BY ListAssumption DEF Found
  <2>2. CASE k.screen = "ledger"
    <3>1. Matches(k) = LedgerOf(k.term, k.only)
      BY <2>2 DEF Matches
    <3>2. QED
      BY <2>1, <2>2, <3>1 DEF LedgerOf, All
  <2>3. CASE k.screen = "trail"
    <3>1. Matches(k) = TrailOf(k.term, k.only)
      BY <2>3 DEF Matches
    <3>2. QED
      BY <2>1, <2>3, <3>1 DEF TrailOf, All
  <2>4. QED
    BY <1>2, <2>2, <2>3
<1>3. QED
  BY <1>1, <1>2 DEF Key

LEMMA GoodReads ==
    ASSUME TypeInv, DecidedInv, NEW k \in Key, NEW c, Good(k, c, Gone)
    PROVE  /\ Good(k, Read(c, [total |-> Cardinality(Matches(k)), items |-> {}], FALSE), Gone)
           /\ \A counted \in c.answer :
                 Good(k, Read(c, [counted EXCEPT !.items = PageOf(k)], TRUE), Gone)
<1>1. c \in Entries
  BY DEF Good
<1>2. ASSUME NEW v \in Lists, NEW complete \in BOOLEAN,
             v.items \subseteq Matches(k)
      PROVE  Good(k, Read(c, v, complete), Gone)
  <2>1. Read(c, v, complete) \in Entries
    BY <1>1 DEF Read, Entries
  <2>2. /\ Read(c, v, complete).answer = {v} /\ Read(c, v, complete).fetch # "idle"
        /\ Read(c, v, complete).data = c.data /\ Read(c, v, complete).stale = c.stale
        /\ Read(c, v, complete).missed = c.missed
    BY <1>1 DEF Read, Entries
  <2>3. \A e \in Gone : status[e] = "DECIDED"
    BY DEF Gone, DecidedInv
  <2>4. k.only = "PENDING" => Lacks(v, Gone) /\ (k.screen = "trail" => v.items = {})
    BY <1>2, <2>3, MatchesArePending DEF Lacks
  <2>5. QED
    BY <2>1, <2>2, <2>4 DEF Good, Fresh, NoRows
<1>3. [total |-> Cardinality(Matches(k)), items |-> {}] \in Lists
  <2>1. Cardinality(Matches(k)) \in Nat
    BY MatchesArePending, ListAssumption, FS_Subset, FS_CardinalityType
  <2>2. QED
    BY <2>1 DEF Lists
<1>4. PageOf(k) \subseteq Matches(k) /\ PageOf(k) \in SUBSET Expense
  BY MatchesArePending DEF PageOf
<1>5. ASSUME NEW counted \in c.answer
      PROVE  /\ [counted EXCEPT !.items = PageOf(k)] \in Lists
             /\ [counted EXCEPT !.items = PageOf(k)].items = PageOf(k)
  <2>1. counted \in Lists
    BY <1>1 DEF Entries
  <2>2. QED
    BY <1>4, <2>1 DEF Lists
<1>6. QED
  BY <1>2, <1>3, <1>4, <1>5

-----------------------------------------------------------------------------
(* Steps of the screen and of requests. *)

LEMMA GoodCurrent ==
    ASSUME TypeInv, CacheInv, NEW k \in Key
    PROVE  Good(k, Entry(k), Gone)
BY GoodEmpty DEF CacheInv, Entry

LEMMA GoodPut ==
    ASSUME CacheInv, NEW k \in Key, NEW c, Good(k, c, Gone), cache' = Put(k, c),
           UNCHANGED <<decision, decided>>
    PROVE  CacheInv'
<1>1. Gone' = Gone
  BY DEF Gone
<1>2. DOMAIN cache' = DOMAIN cache \cup {k} /\ cache'[k] = c
      /\ \A x \in DOMAIN cache \ {k} : cache'[x] = cache[x]
  BY DEF Put
<1>3. QED
  BY <1>1, <1>2 DEF CacheInv

LEMMA GoodChange ==
    ASSUME CacheInv, NEW k \in DOMAIN cache, NEW c, Good(k, c, Gone),
           cache' = [cache EXCEPT ![k] = c], UNCHANGED <<decision, decided>>
    PROVE  CacheInv'
<1>1. Gone' = Gone
  BY DEF Gone
<1>2. DOMAIN cache' = DOMAIN cache /\ cache'[k] = c
      /\ \A x \in DOMAIN cache \ {k} : cache'[x] = cache[x]
  OBVIOUS
<1>3. QED
  BY <1>1, <1>2 DEF CacheInv

LEMMA GoodStays ==
    ASSUME CacheInv, UNCHANGED <<cache, decision, decided>>
    PROVE  CacheInv'
BY DEF CacheInv, Gone

LEMMA Turning ==
    ASSUME TypeInv, CacheInv, NEW k \in Key, Turn(k), UNCHANGED <<decision, decided>>
    PROVE  CacheInv' /\ (kept' = {} \/ \E x \in Key : kept' = {x})
<1>1. kept' = {} \/ \E x \in Key : kept' = {x}
  BY CurrentIsAKey DEF Turn, TypeInv
<1>2. PICK old \in BOOLEAN :
         cache' = IF k = Current THEN cache ELSE Put(k, Mount(Entry(k), old))
  BY DEF Turn
<1>3. Good(k, Mount(Entry(k), old), Gone)
  BY GoodCurrent, GoodSteps
<1>4. QED
  BY <1>1, <1>2, <1>3, GoodPut, GoodStays

\* The user or the timer turns to another list.
LEMMA Turns ==
    ASSUME ListsInv,
           \/ \E p \in Pages : GoTo(p)
           \/ Debounce
           \/ \E o \in Filters : Filter(o)
           \/ ClearFilters
    PROVE  ListsInv'
<1> USE DEF ListsInv
<1>1. UNCHANGED <<status, screen, decision, decided>>
  BY DEF GoTo, Debounce, Filter, ClearFilters
<1>2. DecidedInv'
  BY <1>1 DEF DecidedInv
<1>3. ASSUME NEW p \in Pages, GoTo(p)
      PROVE  ListsInv'
  <2>1. KeyOf(screen, p, term, only) \in Key
    BY KeysAreKeys DEF TypeInv
  <2>2. CacheInv' /\ (kept' = {} \/ \E x \in Key : kept' = {x})
    BY <1>1, <1>3, <2>1, Turning DEF GoTo
  <2>3. TypeInv'
    BY <1>1, <1>3, <2>2 DEF GoTo, TypeInv
  <2>4. PageBelongsToItsSearch'
    BY <1>3 DEF GoTo, PageBelongsToItsSearch
  <2>5. QED
    BY <1>2, <2>2, <2>3, <2>4
<1>4. ASSUME page' = 1, NEW t \in {Blank, Term}, NEW o \in Filters, Turn(KeyOf(screen, 1, t, o)),
             typed' \in {Blank, Term}, term' \in {Blank, Term}, only' \in Filters
      PROVE  ListsInv'
  <2>1. KeyOf(screen, 1, t, o) \in Key
    BY KeysAreKeys, PagesAreNumbers DEF TypeInv
  <2>2. CacheInv' /\ (kept' = {} \/ \E x \in Key : kept' = {x})
    BY <1>1, <1>4, <2>1, Turning
  <2>3. TypeInv'
    BY <1>1, <1>4, <2>2, PagesAreNumbers DEF TypeInv
  <2>4. PageBelongsToItsSearch'
    BY <1>4 DEF PageBelongsToItsSearch
  <2>5. QED
    BY <1>2, <2>2, <2>3, <2>4
<1>5. CASE Debounce
  BY <1>4, <1>5 DEF Debounce, TypeInv
<1>6. ASSUME NEW o \in Filters, Filter(o)
      PROVE  ListsInv'
  BY <1>4, <1>6 DEF Filter, TypeInv
<1>7. CASE ClearFilters
  BY <1>4, <1>7, ListAssumption DEF ClearFilters, TypeInv, All
<1>8. QED
  BY <1>3, <1>5, <1>6, <1>7

\* Another screen.
LEMMA Navigates ==
    ASSUME ListsInv, NEW to \in Screens, Navigate(to)
    PROVE  ListsInv'
<1> USE DEF ListsInv
<1> DEFINE k == KeyOf(to, 1, Blank, All)
<1>1. k \in Key
  BY KeysAreKeys, PagesAreNumbers, ListAssumption DEF All
<1>2. PICK old \in BOOLEAN : cache' = Put(k, Mount(Entry(k), old))
  BY DEF Navigate
<1> HIDE DEF k
<1>3. Good(k, Mount(Entry(k), old), Gone)
  BY <1>1, GoodCurrent, GoodSteps
<1>4. CacheInv'
  BY <1>1, <1>2, <1>3, GoodPut DEF Navigate
<1>5. TypeInv' /\ DecidedInv' /\ PageBelongsToItsSearch'
  BY PagesAreNumbers, ListAssumption
     DEF Navigate, TypeInv, DecidedInv, PageBelongsToItsSearch, All
<1>6. QED
  BY <1>4, <1>5

\* What leaves the view alone, and statuses and decisions.
LEMMA ViewStands ==
    ASSUME ListsInv, UNCHANGED <<status, view, decision, decided>>
    PROVE  TypeInv' /\ DecidedInv' /\ PageBelongsToItsSearch'
BY DEF ListsInv, TypeInv, DecidedInv, PageBelongsToItsSearch, view

LEMMA Requests ==
    ASSUME ListsInv,
           \/ \E k \in DOMAIN cache : Count(k) \/ Select(k) \/ Answer(k) \/ AnswerLost(k)
           \/ Refetch \/ Reconnect
    PROVE  ListsInv'
<1> USE DEF ListsInv
<1>1. UNCHANGED <<status, view, decision, decided>>
  BY DEF Count, Select, Answer, AnswerLost, Refetch, Reconnect
<1>2. ASSUME NEW k \in DOMAIN cache, Count(k) \/ Select(k) \/ Answer(k) \/ AnswerLost(k)
      PROVE  CacheInv'
  <2>1. k \in Key /\ Good(k, cache[k], Gone)
    BY DEF CacheInv
  <2>2. CASE Count(k)
    BY <1>1, <2>1, <2>2, GoodReads, GoodChange DEF Count
  <2>3. CASE Select(k)
    BY <1>1, <2>1, <2>3, GoodReads, GoodChange DEF Select
  <2>4. CASE Answer(k)
    BY <1>1, <2>1, <2>4, GoodSteps, GoodChange DEF Answer
  <2>5. CASE AnswerLost(k)
    BY <1>1, <2>1, <2>5, GoodSteps, GoodChange DEF AnswerLost
  <2>6. QED
    BY <1>2, <2>2, <2>3, <2>4, <2>5
<1>3. Current \in Key /\ Good(Current, Entry(Current), Gone)
  BY CurrentIsAKey, GoodCurrent
<1>4. ASSUME NEW c, Good(Current, c, Gone), cache' = Put(Current, c)
      PROVE  CacheInv'
  BY <1>1, <1>3, <1>4, GoodPut
<1>5. ASSUME Refetch PROVE CacheInv'
  BY <1>3, <1>4, <1>5, GoodSteps DEF Refetch
<1>6. ASSUME Reconnect PROVE CacheInv'
  BY <1>3, <1>4, <1>6, GoodSteps DEF Reconnect
<1>7. QED
  BY <1>1, <1>2, <1>5, <1>6, ViewStands

-----------------------------------------------------------------------------
(* Steps of decisions. *)

LEMMA RestingCache ==
    ASSUME CacheInv, NEW k \in DOMAIN cache
    PROVE  k \in Key /\ Rests(cache[k])
BY DEF CacheInv, Good, Rests

\* While a decision is under way, a list of pending expenses may show anything.
LEMMA AnythingGoes ==
    ASSUME NEW k \in Key, NEW c, Rests(c), k.screen # "trail"
    PROVE  Good(k, c, {})
BY DEF Good, Rests, Fresh, Lacks

LEMMA Decides ==
    ASSUME ListsInv, NEW m \in Mutation, NEW e \in Expense, Decide(m, e)
    PROVE  ListsInv'
<1> USE DEF ListsInv
<1> DEFINE calm == [k \in DOMAIN cache |-> IF k \in QueueKeys THEN Cancel(cache[k]) ELSE cache[k]]
           made == [phase |-> "sent", id |-> e,
                    pages |-> [k \in QueueKeys \cap DOMAIN cache |-> calm[k].data]]
<1>1. \A k \in DOMAIN cache : Rests(calm[k])
  BY RestingCache, CancelledRests
<1>2. made \in Decisions
  <2>1. made.pages \in [QueueKeys \cap DOMAIN cache -> SUBSET Lists]
    BY <1>1 DEF Rests, Entries
  <2>2. made.pages \in Remembered
    BY <2>1 DEF Remembered
  <2>3. QED
    BY <2>2 DEF Decisions
<1>3. decision' = [decision EXCEPT ![m] = made]
  BY DEF Decide
<1>4. TypeInv'
  BY <1>2, <1>3 DEF Decide, TypeInv, view
<1>5. made # NoDecision /\ made.phase = "sent"
  BY DEF NoDecision
<1>6. DecidedInv'
  <2>1. \A x \in Mutation : decision'[x].phase = "taken" => x # m
    BY <1>3, <1>5 DEF TypeInv
  <2>2. QED
    BY <1>3, <2>1 DEF Decide, DecidedInv, TypeInv
<1>7. Gone' = {}
  <2>1. decision'[m] # NoDecision
    BY <1>3, <1>5 DEF TypeInv
  <2>2. QED
    BY <2>1 DEF Gone
<1>8. ASSUME NEW k \in DOMAIN cache
      PROVE  Good(k, cache'[k], {})
  <2>1. CASE k \in QueueKeys
    <3>1. k \in Key /\ k.screen # "trail"
      BY <2>1 DEF QueueKeys
    <3>2. Rests(cache'[k])
      <4>1. CASE ~\E d \in calm[k].data : e \in d.items
        BY <1>1, <4>1 DEF Decide
      <4>2. CASE \E d \in calm[k].data : e \in d.items
        <5>1. PICK d \in calm[k].data : d = CHOOSE x \in calm[k].data : TRUE
          BY <4>2
        <5>2. d \in Lists
          BY <1>1 DEF Rests, Entries
        <5>3. Without(d, e) \in Lists
          BY <5>2 DEF Without, Lists
        <5>4. cache'[k] = Write(calm[k], Without(d, e))
          BY <2>1, <4>2, <5>1 DEF Decide
        <5>5. QED
          BY <1>1, <5>3, <5>4, WrittenRests
      <4>3. QED
        BY <4>1, <4>2
    <3>3. QED
      BY <3>1, <3>2, AnythingGoes
  <2>2. CASE k \notin QueueKeys
    <3>1. cache'[k] = cache[k]
      BY <2>2 DEF Decide
    <3>2. Good(k, cache[k], Gone) /\ k \in Key
      BY DEF CacheInv
    <3>3. QED
      BY <3>1, <3>2 DEF Good, Fresh, Lacks
  <2>3. QED
    BY <2>1, <2>2
<1>9. CacheInv'
  <2>1. DOMAIN cache' = DOMAIN cache
    BY DEF Decide
  <2>2. QED
    BY <1>7, <1>8, <2>1 DEF CacheInv
<1>10. PageBelongsToItsSearch'
  BY DEF Decide, PageBelongsToItsSearch, view
<1>11. QED
  BY <1>4, <1>6, <1>9, <1>10

LEMMA Reaches ==
    ASSUME ListsInv, NEW m \in Mutation, Reach(m)
    PROVE  ListsInv'
<1> USE DEF ListsInv
<1>1. decision[m] \in Decisions
  BY DEF Reach, TypeInv, NoDecision
<1>2. PICK r \in {"taken", "refused"} :
         /\ decision' = [decision EXCEPT ![m].phase = r]
         /\ \/ status[decision[m].id] = "PENDING"
               /\ status' = [status EXCEPT ![decision[m].id] = "DECIDED"]
            \/ r = "refused" /\ status' = status
  BY DEF Reach
<1>3. UNCHANGED <<cache, view, decided>>
  BY DEF Reach
<1>4. /\ decision'[m] = [decision[m] EXCEPT !.phase = r]
      /\ \A x \in Mutation \ {m} : decision'[x] = decision[x]
  BY <1>2 DEF TypeInv
<1>5. /\ decision'[m] \in Decisions
      /\ decision'[m].phase = r /\ decision'[m].id = decision[m].id
  BY <1>1, <1>4 DEF Decisions
<1>6. /\ status' \in [Expense -> Status]
      /\ \A e \in Expense : status[e] = "DECIDED" => status'[e] = "DECIDED"
      /\ r = "taken" => status'[decision[m].id] = "DECIDED"
  BY <1>1, <1>2 DEF TypeInv, Decisions, Status
<1>7. TypeInv'
  <2>1. decision' \in [Mutation -> Decisions \cup {NoDecision}]
    BY <1>2, <1>4, <1>5 DEF TypeInv
  <2>2. QED
    BY <1>3, <1>6, <2>1 DEF TypeInv, view
<1>8. DecidedInv'
  <2>1. \A e \in decided' : status'[e] = "DECIDED"
    BY <1>3, <1>6 DEF DecidedInv, TypeInv
  <2>2. ASSUME NEW x \in Mutation, decision'[x].phase = "taken"
        PROVE  status'[decision'[x].id] = "DECIDED"
    <3>1. CASE x = m
      BY <1>5, <1>6, <2>2, <3>1
    <3>2. CASE x # m
      <4>1. decision[x].phase = "taken" /\ decision'[x] = decision[x]
        BY <1>4, <2>2, <3>2
      <4>2. decision[x] \in Decisions
        BY <4>1 DEF TypeInv, NoDecision
      <4>3. decision[x].id \in Expense
        BY <4>2 DEF Decisions
      <4>4. QED
        BY <1>6, <4>1, <4>3 DEF DecidedInv
    <3>3. QED
      BY <3>1, <3>2
  <2>3. QED
    BY <2>1, <2>2 DEF DecidedInv
<1>9. CacheInv'
  <2>1. decision[m] # NoDecision /\ decision'[m] # NoDecision
    BY <1>1, <1>5 DEF Decisions, NoDecision
  <2>2. Gone' = Gone
    BY <2>1 DEF Gone
  <2>3. QED
    BY <1>3, <2>2 DEF CacheInv
<1>10. PageBelongsToItsSearch'
  BY <1>3 DEF PageBelongsToItsSearch, view
<1>11. QED
  BY <1>7, <1>8, <1>9, <1>10

\* The pages that are written back.
LEMMA RollbackRests ==
    ASSUME CacheInv, NEW pages \in Remembered, NEW k \in DOMAIN cache
    PROVE  /\ Rests(RolledBack(cache, pages)[k])
           /\ k.screen = "trail" => RolledBack(cache, pages)[k] = cache[k]
<1>1. PICK S \in SUBSET QueueKeys : pages \in [S -> SUBSET Lists]
  BY DEF Remembered
<1>2. CASE k \in DOMAIN pages /\ pages[k] # {}
  <2>1. PICK d \in pages[k] : d = CHOOSE x \in pages[k] : TRUE
    BY <1>2
  <2>2. d \in Lists /\ k.screen = "approvals"
    BY <1>1, <1>2 DEF QueueKeys
  <2>3. RolledBack(cache, pages)[k] = Write(cache[k], d)
    BY <1>2, <2>1 DEF RolledBack
  <2>4. QED
    BY <2>2, <2>3, RestingCache, WrittenRests
<1>3. CASE ~(k \in DOMAIN pages /\ pages[k] # {})
  BY <1>3, RestingCache DEF RolledBack
<1>4. QED
  BY <1>2, <1>3

LEMMA Settles ==
    ASSUME ListsInv, NEW m \in Mutation, Settle(m)
    PROVE  ListsInv'
<1> USE DEF ListsInv
<1>1. decision[m] \in Decisions
  BY DEF Settle, TypeInv, NoDecision
<1>2. decision[m].id \in Expense /\ decision[m].pages \in Remembered
  BY <1>1 DEF Decisions
<1>3. UNCHANGED <<status, view>> /\ decision' = [decision EXCEPT ![m] = NoDecision]
  BY DEF Settle
<1>4. /\ decided' \subseteq Expense
      /\ \A e \in decided' : status'[e] = "DECIDED"
  BY <1>2, <1>3 DEF Settle, TypeInv, DecidedInv
<1>5. TypeInv'
  BY <1>3, <1>4 DEF TypeInv, view
<1>6. DecidedInv'
  <2>1. \A x \in Mutation : decision'[x].phase = "taken" => decision'[x] = decision[x]
    BY <1>3 DEF TypeInv, NoDecision
  <2>2. QED
    BY <1>3, <1>4, <2>1 DEF DecidedInv
<1>7. PICK c : /\ DOMAIN c = DOMAIN cache
               /\ cache' = Invalidated(c)
               /\ \A k \in DOMAIN cache : Rests(c[k]) /\ (k.screen = "trail" => c[k] = cache[k])
  <2>1. CASE decision[m].phase = "taken"
    BY <2>1, RestingCache DEF Settle
  <2>2. CASE decision[m].phase # "taken"
    <3>1. cache' = Invalidated(RolledBack(cache, decision[m].pages))
      BY <2>2 DEF Settle
    <3>2. DOMAIN RolledBack(cache, decision[m].pages) = DOMAIN cache
      BY DEF RolledBack
    <3>3. QED
      BY <1>2, <3>1, <3>2, RollbackRests
  <2>3. QED
    BY <2>1, <2>2
<1>8. ASSUME NEW k \in DOMAIN cache
      PROVE  Good(k, cache'[k], Gone')
  <2>1. k \in Key /\ Rests(c[k])
    BY <1>7, RestingCache
  <2>2. CASE k.screen = "trail"
    <3>1. cache'[k] = cache[k]
      BY <1>7, <2>2 DEF Invalidated
    <3>2. Good(k, cache[k], Gone)
      BY DEF CacheInv
    <3>3. QED
      BY <2>2, <3>1, <3>2 DEF Good
  <2>3. CASE k.screen # "trail"
    <3>1. cache'[k] = Invalidate(c[k], k = Current)
      BY <1>7, <2>3 DEF Invalidated
    <3>2. QED
      BY <2>1, <2>3, <3>1, GoodInvalidated DEF Rests
  <2>4. QED
    BY <2>2, <2>3
<1>9. CacheInv'
  <2>1. DOMAIN cache' = DOMAIN cache
    BY <1>7 DEF Invalidated
  <2>2. QED
    BY <1>8, <2>1 DEF CacheInv
<1>10. PageBelongsToItsSearch'
  BY <1>3 DEF PageBelongsToItsSearch, view
<1>11. QED
  BY <1>5, <1>6, <1>9, <1>10

-----------------------------------------------------------------------------
(* The theorems. *)

LEMMA ListsBegin == Init => ListsInv
<1> SUFFICES ASSUME Init PROVE ListsInv
  OBVIOUS
<1>1. TypeInv
  BY PagesAreNumbers, ListAssumption DEF Init, TypeInv, Status, Screens, All
<1>2. DecidedInv
  BY DEF Init, DecidedInv, NoDecision
<1>3. CacheInv
  <2>1. Current \in Key
    BY <1>1, CurrentIsAKey
  <2>2. Good(Current, Ask(Empty), Gone)
    BY <2>1, GoodEmpty, GoodSteps
  <2>3. QED
    BY <2>1, <2>2 DEF Init, CacheInv
<1>4. PageBelongsToItsSearch
  BY DEF Init, PageBelongsToItsSearch
<1>5. QED
  BY <1>1, <1>2, <1>3, <1>4 DEF ListsInv

LEMMA ListsStay ==
    ASSUME ListsInv, [Next]_vars
    PROVE  ListsInv'
<1> USE DEF ListsInv
<1>1. ASSUME NEW t \in {Blank, Term}, Type(t)
      PROVE  ListsInv'
  <2>1. CacheInv'
    BY <1>1, GoodStays DEF Type
  <2>2. TypeInv' /\ DecidedInv' /\ PageBelongsToItsSearch'
    BY <1>1 DEF Type, TypeInv, DecidedInv, PageBelongsToItsSearch
  <2>3. QED
    BY <2>1, <2>2
<1>2. ASSUME NEW e \in Expense, Elsewhere(e)
      PROVE  ListsInv'
  <2>1. /\ status' \in [Expense -> Status]
        /\ \A x \in Expense : status[x] = "DECIDED" => status'[x] = "DECIDED"
    BY <1>2 DEF Elsewhere, TypeInv, Status
  <2>2. CacheInv'
    BY <1>2, GoodStays DEF Elsewhere
  <2>3. TypeInv'
    BY <1>2, <2>1 DEF Elsewhere, TypeInv, view
  <2>4. DecidedInv'
    <3>1. \A m \in Mutation : decision[m].phase = "taken" => decision[m].id \in Expense
      BY DEF TypeInv, Decisions, NoDecision
    <3>2. QED
      BY <1>2, <2>1, <3>1 DEF Elsewhere, DecidedInv, TypeInv
  <2>5. PageBelongsToItsSearch'
    BY <1>2 DEF Elsewhere, PageBelongsToItsSearch, view
  <2>6. QED
    BY <2>2, <2>3, <2>4, <2>5
<1>3. CASE UNCHANGED vars
  BY <1>3, ViewStands, GoodStays DEF vars, view
<1>4. QED
  BY <1>1, <1>2, <1>3, Turns, Navigates, Requests, Decides, Reaches, Settles DEF Next

\* Everything the lists are bound to show, for any number of expenses and decisions.
THEOREM Invariance == Spec => []ListsInv
<1>1. QED
  BY ListsBegin, ListsStay, PTL DEF Spec

\* The type invariant of ListScreens.
THEOREM TypeCorrect == Spec => []TypeOK
<1>1. ListsInv => TypeOK
  <2> SUFFICES ASSUME ListsInv PROVE TypeOK
    OBVIOUS
  <2>1. kept \subseteq Key /\ Cardinality(kept) <= 1
    BY FS_EmptySet, FS_Singleton DEF ListsInv, TypeInv
  <2>2. QED
    BY <2>1 DEF ListsInv, TypeInv, CacheInv, TypeOK
<1>2. QED
  BY <1>1, Invariance, PTL

\* useResetPageOnChange: no request carries a page that was chosen under another
\* search or filter.
THEOREM PagesOfTheirSearch == Spec => []PageBelongsToItsSearch
<1>1. ListsInv => PageBelongsToItsSearch
  BY DEF ListsInv
<1>2. QED
  BY <1>1, Invariance, PTL

\* useApproveExpense and useRejectExpense: however many decisions, rollbacks and
\* requests overlap, an expense this tab decided is in no list of pending expenses
\* once they are over, unless the list is marked or was asked for too early.
THEOREM DecidedAreGone == Spec => []DecidedStayGone
<1>1. ListsInv => DecidedStayGone
  <2> SUFFICES ASSUME ListsInv, Quiet,
                      NEW k \in DOMAIN cache, k.only = "PENDING",
                      ~cache[k].stale, ~cache[k].missed, NEW d \in cache[k].data
               PROVE  d.items \cap decided = {}
    BY DEF DecidedStayGone
  <2>1. Good(k, cache[k], decided)
    BY DEF ListsInv, CacheInv, Quiet, Gone
  <2>2. QED
    BY <2>1 DEF Good, NoRows, Fresh, Lacks
<1>2. QED
  BY <1>1, Invariance, PTL

=============================================================================
