---------------------------- MODULE ChronoIndex ----------------------------
(***************************************************************************)
(* The in-memory index of chronovec.cpp: one writer at a time under        *)
(* writer_mutex (inserts, deletes, batches, vacuum), and searches that     *)
(* take no lock.  Writers publish one page image or one directory per      *)
(* step and make their timestamp visible with a separate commit; a search  *)
(* pins a snapshot, loads the directory, then loads and scans one page     *)
(* after another.                                                          *)
(*                                                                         *)
(* A write call is a sequence of steps driven by `wpc'; between any two of *)
(* them a search may take one of its own.  What the build, the caller and  *)
(* the machine decide are parameters.  StoreBuffered: the release store of *)
(* a reader's pin may become visible after its later loads, as C++ allows  *)
(* and x86 does.  MayRefuse: a vector of a batch is not finite.  MayThrow: *)
(* memory or the fixed-size arena runs out in the middle of a call.  In    *)
(* the last two the call ends, the lock is released, and whatever the call *)
(* published stays.                                                        *)
(***************************************************************************)
EXTENDS PageImages, Integers, Sequences

CONSTANTS Readers,
          MaxPages,        \* bound: page descriptors ever made
          MaxClock,        \* bound: timestamps ever allocated
          MaxBatch,        \* bound: rows of one batch
          BlockSize,       \* rows a batch validates and applies at a time
          Skips,           \* how far a call's timestamp is ahead of the clock: 1
                           \* when the index picks it, 0 for a caller's `same commit'
          Budgets,         \* budget_versions the callers pass; 0 is no limit
          SparseBelow,     \* a page with fewer versions is a merge source
          PackTo,          \* the fill a merge packs to
          MaxMerges,       \* MAX_MERGES_PER_VACUUM
          SizeRange,       \* size_t arithmetic is modulo this
          StoreBuffered,   \* a pin may become visible after later loads
          MayRefuse,       \* a batch may hold a vector that prepare refuses
          MayThrow         \* memory or the arena may run out

ASSUME BoundsAssumption ==
  /\ MaxPages \in Nat /\ MaxClock \in Nat /\ MaxBatch \in Nat \ {0}
  /\ BlockSize \in Nat \ {0} /\ Skips \subseteq Nat
  /\ Budgets \subseteq Nat
  /\ SizeRange \in Nat \ {0} /\ MaxMerges \in Nat
  /\ MaxClock + 1 < MAX_TS
ASSUME SwitchAssumption == 
  StoreBuffered \in BOOLEAN /\ MayRefuse \in BOOLEAN /\ MayThrow \in BOOLEAN

Pages == 1..MaxPages
Capacity == Cardinality(Slots)
NoPayload == <<0, 0>>

VARIABLES
  image,       \* the published image of each descriptor
  store,       \* the payload in each slot, shared by all images of a page
  directory,   \* the pages of the published directory
  nextPage,    \* next_page_id
  locations,   \* where the versions of each id are
  retired,     \* the retirement queue
  clock,       \* the last timestamp allocated
  committed,   \* the last timestamp visible to new snapshots
  horizon,     \* history: the newest `oldest' any vacuum was given
  history      \* history: what the committed calls promised

writer_shared == <<image, store, directory, nextPage, locations, retired, clock,
                   committed, horizon, history>>

VARIABLES
  wpc,         \* the step the holder of writer_mutex is at
  call,        \* its call: kind, timestamp, rows, budget
  toClose,     \* rows whose old version is still to be closed
  toPlace,     \* rows still to be placed
  draft,       \* the private clone being filled, and the rows put in it
  unlisted,    \* published rows not yet in `locations'
  doomed,      \* stamps vacuum will clear, by page
  wanted       \* pages consolidation still wants to remove

writer_local == <<wpc, call, toClose, toPlace, draft, unlisted, doomed, wanted>>

VARIABLES
  asked,       \* the snapshot each reader asked for, and the clock it called at
  rpc,         \* the step its search is at
  own,         \* the pin it stored last
  pin,         \* the pin a vacuum reads
  snap,        \* the snapshot it resolved
  left,        \* pages of its directory not yet scanned
  held,        \* the page image it is scanning
  found        \* the records it has collected

reader_vars == <<asked, rpc, own, pin, snap, left, held, found>>

vars == <<writer_shared, writer_local, reader_vars>>

\* A search has its answer once it has scanned the last of its pages.
Done(r) == rpc[r] = "scan" /\ left[r] = {}

Abstract == INSTANCE SnapshotStore WITH
  now <- committed,
  search <- [r \in Readers |->
               [step |-> IF rpc[r] = "idle" THEN "idle" ELSE IF Done(r) THEN "answered"
                         ELSE "called",
                since |-> asked[r].since, at |-> asked[r].at]],
  answer <- [r \in Readers |-> IF Done(r) THEN found[r] ELSE {}]

NoCall == [kind |-> "none", ts |-> 0, ids |-> <<>>, deletes |-> 0, taken |-> 0, budget |-> 0]
NotAsked == [since |-> 0, at |-> 0]
NoDraft == [page |-> 0, img |-> EmptyImage, rows |-> {}]
NoImage == [page |-> 0, img |-> EmptyImage]
Unpinned == MAX_TS
Nothing == [p \in Pages |-> {}]

Init ==
  /\ image = [p \in Pages |-> EmptyImage]
  /\ store = [p \in Pages |-> [s \in Slots |-> NoPayload]]
  /\ directory = {} /\ nextPage = 1
  /\ locations = [id \in Ids |-> {}]
  /\ retired = <<>>
  /\ clock = 0 /\ committed = 0 /\ horizon = 0 /\ history = {}
  /\ wpc = "idle" /\ call = NoCall /\ toClose = {} /\ toPlace = {}
  /\ draft = NoDraft /\ unlisted = {} /\ doomed = Nothing /\ wanted = 0
  /\ asked = [r \in Readers |-> NotAsked]
  /\ rpc = [r \in Readers |-> "idle"]
  /\ own = [r \in Readers |-> Unpinned] /\ pin = [r \in Readers |-> Unpinned]
  /\ snap = [r \in Readers |-> 0] /\ left = [r \in Readers |-> {}]
  /\ held = [r \in Readers |-> NoImage] /\ found = [r \in Readers |-> {}]

-----------------------------------------------------------------------------
(* Writers.                                                                *)

Smaller(m, n) == IF m < n THEN m ELSE n

\* tick: a call with no timestamp takes the next one; a caller's own may be
\* ahead of it, or equal to the clock.
Stamps == {clock + skip : skip \in Skips} \cap 1..MaxClock

\* A call takes the lock and a timestamp.  Its first `deletes' rows delete
\* their id, the others write it.
Begin(kind, ids, deletes, ts) ==
  /\ wpc = "idle"
  /\ clock' = ts
  /\ call' = [NoCall EXCEPT !.kind = kind, !.ts = ts, !.ids = ids, !.deletes = deletes]
  /\ UNCHANGED <<image, store, directory, nextPage, locations, retired, committed,
                 horizon, history, draft, unlisted, doomed, wanted, reader_vars>>

\* All the deleted ids are closed first, then the rows follow one by one.
RowsAfterDeletes(ids, deletes) ==
  /\ toClose' = 1..Smaller(deletes + 1, Len(ids))
  /\ toPlace' = (deletes + 1)..Len(ids)
  /\ wpc' = "close"

BeginInsert ==
  \E id \in Ids, ts \in Stamps :
    Begin("insert", <<id>>, 0, ts) /\ RowsAfterDeletes(<<id>>, 0)

BeginDelete ==
  \E id \in Ids, ts \in Stamps :
    Begin("delete", <<id>>, 1, ts) /\ RowsAfterDeletes(<<id>>, 1)

BeginBatch ==
  /\ clock < MaxClock
  /\ \E n \in 1..MaxBatch : \E ids \in [1..n -> Ids] : Begin("rows", ids, 0, clock + 1)
  /\ toClose' = {} /\ toPlace' = {}
  /\ wpc' = "block"

\* Two rows of S are of the same id.
Repeats(S, ids) == \E j, k \in S : j # k /\ ids[j] = ids[k]

\* Mutant of RowByRow: a repeated id is not looked for.
OnlyWhenEmpty(S, ids) == directory = {}

\* A block with a repeated id, or on an empty directory, goes row by row.
RowByRow(S, ids) == directory = {} \/ Repeats(S, ids)

First(S, k) == k \in S /\ \A j \in S : k <= j

OpenAt(id) == {l \in locations[id] : IsOpen(image[l[1]][l[2]], id)}

\* cv_apply_changes refuses a repeated id, and a delete of an id that has no
\* open version, before it takes a timestamp.
BeginChanges ==
  /\ clock < MaxClock
  /\ \E n \in 1..MaxBatch : \E ids \in [1..n -> Ids], deletes \in 0..n :
       /\ ~Repeats(DOMAIN ids, ids)
       /\ \A k \in 1..deletes : OpenAt(ids[k]) # {}
       /\ Begin("changes", ids, deletes, clock + 1)
       /\ RowsAfterDeletes(ids, deletes)

\* Mutant of Abandon: the rows of a call that failed stay to be closed.
AbandonRows ==
  /\ wpc' = "idle" /\ call' = NoCall /\ UNCHANGED toClose /\ toPlace' = {}
  /\ draft' = NoDraft /\ unlisted' = {} /\ doomed' = Nothing /\ wanted' = 0

\* The call is over; if it did not commit, an exception released the lock.
Abandon ==
  /\ wpc' = "idle" /\ call' = NoCall /\ toClose' = {} /\ toPlace' = {}
  /\ draft' = NoDraft /\ unlisted' = {} /\ doomed' = Nothing /\ wanted' = 0

\* The next block of a batch: in rounds, all its ids are closed first.
StartBlock ==
  /\ wpc = "block"
  /\ LET last == Smaller(call.taken + BlockSize, Len(call.ids))
         block == (call.taken + 1)..last
         byRow == RowByRow(block, call.ids)
     IN /\ call' = [call EXCEPT !.kind = IF byRow THEN "rows" ELSE "rounds", !.taken = last]
        /\ toClose' = IF byRow THEN {k \in block : First(block, k)} ELSE block
        /\ toPlace' = block
  /\ wpc' = "close"
  /\ UNCHANGED <<writer_shared, draft, unlisted, doomed, wanted, reader_vars>>

\* A row of the next block is not finite, or zero under cosine.
RefuseBlock ==
  /\ MayRefuse
  /\ wpc = "block"
  /\ Abandon
  /\ UNCHANGED <<writer_shared, reader_vars>>

AfterClose(k) ==
  /\ toClose' = toClose \ {k}
  /\ wpc' = IF toClose' # {} THEN "close"
            ELSE IF toPlace = {} THEN "commit" ELSE "place"
  /\ UNCHANGED <<call, toPlace, draft, unlisted, doomed, wanted>>

\* close_current for the next row.  A delete requires an open version; there
\* is one to close for a row that is written only if the id had one.
Close ==
  /\ wpc = "close"
  /\ \E k \in toClose :
       /\ First(toClose, k)
       /\ LET id == call.ids[k] IN
          \/ /\ OpenAt(id) = {}
             /\ IF k \in toPlace THEN AfterClose(k) ELSE Abandon
             /\ UNCHANGED <<image, retired>>
          \/ \E l \in OpenAt(id) :
               /\ image' = [image EXCEPT ![l[1]] = Closed(@, l[2], call.ts)]
               /\ retired' = Append(retired, [end |-> call.ts, id |-> id,
                                              begin |-> image[l[1]][l[2]].begin])
               /\ AfterClose(k)
  /\ UNCHANGED <<store, directory, nextPage, locations, clock, committed, horizon,
                 history, reader_vars>>

\* choose_page on an empty directory.
FirstPage ==
  /\ wpc = "place" /\ directory = {} /\ nextPage <= MaxPages
  /\ directory' = {nextPage}
  /\ nextPage' = nextPage + 1
  /\ UNCHANGED <<image, store, locations, retired, clock, committed, horizon, history,
                 writer_local, reader_vars>>

\* A row goes to a free slot of a clone: the cell into the private image,
\* the vector and its code into the store that the published images share.
Fill(p, img, rows) ==
  \E k \in toPlace, s \in FreeSlots(img) :
    /\ call.kind # "rounds" => First(toPlace, k)
    /\ draft' = [page |-> p,
                  img |-> Filled(img, s, [id |-> call.ids[k], begin |-> call.ts,
                                          end |-> MAX_TS, vec |-> <<call.ts, k>>]),
                  rows |-> rows \cup {<<call.ids[k], s>>}]
    /\ store' = [store EXCEPT ![p][s] = <<call.ts, k>>]
    /\ toPlace' = toPlace \ {k}
    /\ wpc' = "filled"
    /\ UNCHANGED <<image, directory, nextPage, locations, retired, clock, committed,
                   horizon, history, call, toClose, unlisted, doomed, wanted, reader_vars>>

\* A page with room is cloned and gets its first row.
Place == wpc = "place" /\ \E p \in directory : Fill(p, image[p], {})

\* In a round, several rows may be bound for the page that is open.
PlaceMore ==
  /\ wpc = "filled" /\ call.kind = "rounds"
  /\ Fill(draft.page, draft.img, draft.rows)

Rows(p, id, rows) == {<<p, row[2]>> : row \in {x \in rows : x[1] = id}}

AfterRows ==
  IF toPlace # {} THEN "place"
  ELSE IF call.taken < Len(call.ids) /\ call.kind \in {"rows", "rounds"} THEN "block"
  ELSE IF call.taken >= Capacity THEN "consolidate"
  ELSE "commit"

\* publish_page: the compare-exchange cannot fail under writer_mutex.  A
\* round lists its rows only once all its pages are published.
Publish ==
  /\ wpc = "filled"
  /\ image' = [image EXCEPT ![draft.page] = draft.img]
  /\ IF call.kind = "rounds"
       THEN /\ unlisted' = unlisted \cup {<<row[1], draft.page, row[2]>> : row \in draft.rows}
            /\ UNCHANGED <<locations, toClose>>
            /\ wpc' = IF toPlace = {} THEN "list" ELSE "place"
       ELSE /\ locations' = [id \in Ids |-> locations[id] \cup
                                            Rows(draft.page, id, draft.rows)]
            /\ toClose' = {k \in toPlace : First(toPlace, k)}
            /\ wpc' = IF toPlace # {} THEN "close" ELSE AfterRows
            /\ UNCHANGED unlisted
  /\ draft' = NoDraft
  /\ UNCHANGED <<store, directory, nextPage, retired, clock, committed, horizon, history,
                 call, toPlace, doomed, wanted, reader_vars>>

\* The end of a round: the rows it published enter `locations'.
List ==
  /\ wpc \in {"place", "list"} /\ unlisted # {}
  /\ locations' = [id \in Ids |-> locations[id] \cup
                     {<<x[2], x[3]>> : x \in {y \in unlisted : y[1] = id}}]
  /\ unlisted' = {}
  /\ wpc' = AfterRows
  /\ UNCHANGED <<image, store, directory, nextPage, retired, clock, committed, horizon,
                 history, call, toClose, toPlace, draft, doomed, wanted, reader_vars>>

HoldersOf(id, P, img) ==
  {l \in P \X Slots : img[l[1]][l[2]] # Free /\ img[l[1]][l[2]].id = id}

\* Mutant of Relocated: the locations on the old pages stay.
AddedLocations(old, new, img) ==
  [id \in Ids |-> locations[id] \cup
                  HoldersOf(id, new, img)]

\* Locations after the pages `old' were replaced by the pages `new'.
Relocated(old, new, img) ==
  [id \in Ids |-> {l \in locations[id] : l[1] \notin old} \cup
                  HoldersOf(id, new, img)]

\* split: a full page becomes two new ones, neither empty; each copies its
\* share of the versions, and their payload into a store of its own.
Split ==
  /\ wpc = "place" /\ toPlace # {} /\ unlisted = {}
  /\ nextPage + 1 <= MaxPages
  /\ \E p \in directory : \E L \in SUBSET Occupied(image[p]) :
       LET R == Occupied(image[p]) \ L
           a == nextPage
           b == nextPage + 1
       IN /\ FreeSlots(image[p]) = {} /\ L # {} /\ R # {}
          /\ image' = [image EXCEPT ![a] = Half(image[p], L), ![b] = Half(image[p], R)]
          /\ store' = [store EXCEPT ![a] = store[p], ![b] = store[p]]
          /\ directory' = (directory \ {p}) \cup {a, b}
          /\ locations' = Relocated({p}, {a, b}, image')
  /\ nextPage' = nextPage + 2
  /\ UNCHANGED <<retired, clock, committed, horizon, history, writer_local, reader_vars>>

\* The rows of the call that delete, and those that write.
Deleted == {call.ids[k] : k \in 1..call.deletes}
Written == [k \in (call.deletes + 1)..Len(call.ids) |-> call.ids[k]]

Commit ==
  /\ wpc = "commit"
  /\ committed' = call.ts
  /\ history' = Abstract!Upserted(Abstract!EndedAt(history, Deleted, call.ts),
                                  Written, call.ts)
  /\ Abandon
  /\ UNCHANGED <<image, store, directory, nextPage, locations, retired, clock, horizon,
                 reader_vars>>

\* An allocation fails somewhere in the call.
Throw ==
  /\ MayThrow
  /\ wpc \notin {"idle", "commit"}
  /\ Abandon
  /\ UNCHANGED <<writer_shared, reader_vars>>

-----------------------------------------------------------------------------
(* Vacuum and consolidation, under the same lock.                          *)

\* Mutant of SafeOldest: the searches in flight are not asked.
CallersOldest(oldest) == oldest

\* The newest horizon that no search in flight is behind.
SafeOldest(oldest) ==
  CHOOSE m \in {oldest} \cup {pin[r] : r \in Readers} :
    \A n \in {oldest} \cup {pin[r] : r \in Readers} : m <= n

\* Mutant of StampOf: begin and end swapped.
SwappedStamp(entry) == <<entry.end, entry.begin>>

StampOf(entry) == <<entry.begin, entry.end>>

\* The pages where the scan of the id's locations meets the retired stamp.
Holders(entry) ==
  {l[1] : l \in {l \in locations[entry.id] : Matches(image[l[1]][l[2]], {StampOf(entry)})}}

Met(n) == {j \in 1..n : Holders(retired[j]) # {}}
Found(n) == Cardinality(Met(n))

\* Mutant of Expired: off by one.
ExpiredAt(entry, safe) == entry.end <= safe

Expired(entry, safe) == entry.end < safe

\* The loop takes the first n entries of the queue and stops.
Takes(n, safe, budget) ==
  /\ \A j \in 1..n : Expired(retired[j], safe) /\ (budget = 0 \/ Found(j - 1) < budget)
  /\ n < Len(retired) => ~Expired(retired[n + 1], safe) \/ (budget # 0 /\ Found(n) >= budget)

\* cv_vacuum: the caller's `oldest' is at most its clock + 1.
Vacuum ==
  /\ wpc = "idle"
  /\ \E oldest \in 1..(committed + 1), budget \in Budgets, n \in 0..Len(retired) :
       /\ Takes(n, SafeOldest(oldest), budget)
       /\ \E at \in [Met(n) -> UNION {Holders(retired[j]) : j \in Met(n)}] :
            /\ \A j \in Met(n) : at[j] \in Holders(retired[j])
            /\ doomed' = [p \in Pages |-> {StampOf(retired[j]) :
                                             j \in {i \in Met(n) : at[i] = p}}]
       /\ retired' = SubSeq(retired, n + 1, Len(retired))
       /\ horizon' = IF oldest > horizon THEN oldest ELSE horizon
       /\ call' = [NoCall EXCEPT !.kind = "vacuum", !.ts = oldest, !.budget = budget]
       /\ wpc' = IF Met(n) = {} THEN "consolidate" ELSE "reclaim"
  /\ UNCHANGED <<image, store, directory, nextPage, locations, clock, committed, history,
                 toClose, toPlace, draft, unlisted, wanted, reader_vars>>

\* One page image without the cells that carry a doomed stamp.
Reclaim ==
  /\ wpc = "reclaim"
  /\ \E p \in Pages :
       /\ doomed[p] # {}
       /\ image' = [image EXCEPT ![p] = Cleared(@, doomed[p])]
       /\ doomed' = [doomed EXCEPT ![p] = {}]
  /\ UNCHANGED <<store, directory, nextPage, locations, retired, clock, committed, horizon,
                 history, wpc, call, toClose, toPlace, draft, unlisted, wanted, reader_vars>>

Cells(P) == {l \in P \X Slots : image[l[1]][l[2]] # Free}

\* The number of pages the occupied slots justify, with headroom.
AllowedPages ==
  LET ideal == (Cardinality(Cells(directory)) + Capacity - 1) \div Capacity
  IN ideal + ideal \div 2 + 1

\* After the pages, vacuum drops the locations it emptied; then, as after a
\* large batch, consolidate decides how many pages are too many.
Consolidate ==
  /\ wpc = "consolidate" \/ (wpc = "reclaim" /\ doomed = Nothing)
  /\ locations' = IF wpc = "reclaim"
       THEN [id \in Ids |-> {l \in locations[id] : image[l[1]][l[2]] # Free}]
       ELSE locations
  /\ wanted' = Smaller(MaxMerges, IF Cardinality(directory) > AllowedPages
                                     THEN Cardinality(directory) - AllowedPages ELSE 0)
  /\ wpc' = "merge"
  /\ UNCHANGED <<image, store, directory, nextPage, retired, clock, committed, horizon,
                 history, call, toClose, toPlace, draft, unlisted, doomed, reader_vars>>

\* Mutant of EmptyPages: pages whose versions have all been closed.
PagesWithoutOpen ==
  {p \in directory : \A s \in Occupied(image[p]) : image[p][s].end # MAX_TS}

EmptyPages == {p \in directory : Occupied(image[p]) = {}}

\* An empty page is dropped unless every page is empty; then one is kept.
Droppable(D) ==
  /\ D \subseteq EmptyPages
  /\ Cardinality(EmptyPages \ D) = IF EmptyPages = directory THEN 1 ELSE 0

\* Disjoint groups of pages, each with a sparse one, each fitting one page.
Group(g, k) == {p \in DOMAIN g : g[p] = k}
Groups(m) ==
  {g \in [directory \ EmptyPages -> 0..m] :
     \A k \in 1..m :
       /\ Cardinality(Group(g, k)) > 1
       /\ \E p \in Group(g, k) : Cardinality(Occupied(image[p])) < SparseBelow
       /\ Cardinality(Cells(Group(g, k))) <= PackTo
       /\ Packings(Cells(Group(g, k))) # {}}

Mergeable == Cardinality(directory) > 1 /\ (EmptyPages # {} \/ Groups(1) # {})

\* Subtraction of two size_t.
Minus(m, n) == (m - n) % SizeRange

\* The cells that a packing of the pages P puts in slot s: one, or none.
Sources(P, s) ==
  LET packing == CHOOSE f \in Packings(Cells(P)) : TRUE
  IN {c \in Cells(P) : packing[c] = s}
Source(P, s) == CHOOSE c \in Sources(P, s) : TRUE

\* The page the pages P are packed into, and its store.
MergedImage(P) ==
  [s \in Slots |-> IF Sources(P, s) = {} THEN Free
                   ELSE image[Source(P, s)[1]][Source(P, s)[2]]]
MergedStore(P) ==
  [s \in Slots |-> IF Sources(P, s) = {} THEN NoPayload
                   ELSE store[Source(P, s)[1]][Source(P, s)[2]]]

\* One new directory without the dropped pages D, each of the m groups copied
\* into one new page.  Groups are formed while fewer pages than wanted are
\* removed; the dropped pages and the last group may exceed that.
Merge(D, m, g) ==
  LET new == nextPage..(nextPage + m - 1)
      GroupOf(q) == Group(g, q - nextPage + 1)
      gone == D \cup {p \in DOMAIN g : g[p] # 0}
      done == Cardinality(gone) - m
  IN /\ Droppable(D)
     /\ done > 0
     /\ m # 0 => \E k \in 1..m : done - (Cardinality(Group(g, k)) - 1) < wanted
     /\ image' = [q \in Pages |-> IF q \in new THEN MergedImage(GroupOf(q)) ELSE image[q]]
     /\ store' = [q \in Pages |-> IF q \in new THEN MergedStore(GroupOf(q)) ELSE store[q]]
     /\ directory' = (directory \ gone) \cup new
     /\ locations' = Relocated(gone, new, image')
     /\ nextPage' = nextPage + m
     /\ wanted' = Minus(wanted, done)

\* merge_many.
MergeMany ==
  /\ wpc = "merge" /\ wanted # 0 /\ Mergeable
  /\ \E D \in SUBSET EmptyPages, m \in 0..(MaxPages + 1 - nextPage) :
       \E g \in Groups(m) : Merge(D, m, g)
  /\ UNCHANGED <<retired, clock, committed, horizon, history, wpc, call, toClose, toPlace,
                 draft, unlisted, doomed, reader_vars>>

StopMerging ==
  /\ wpc = "merge" /\ (wanted = 0 \/ ~Mergeable)
  /\ IF call.kind = "vacuum"
       THEN Abandon
       ELSE /\ wpc' = "commit" /\ wanted' = 0
            /\ UNCHANGED <<call, toClose, toPlace, draft, unlisted, doomed>>
  /\ UNCHANGED <<writer_shared, reader_vars>>

Writer ==
  \/ BeginInsert \/ BeginDelete \/ BeginBatch \/ BeginChanges
  \/ StartBlock \/ RefuseBlock \/ Close
  \/ FirstPage \/ Place \/ PlaceMore \/ Publish \/ List \/ Split
  \/ Commit \/ Throw
  \/ Vacuum \/ Reclaim \/ Consolidate \/ MergeMany \/ StopMerging

-----------------------------------------------------------------------------
(* Searches: one pass of cv_search_pass that probes every page.            *)

\* ReaderPin: a registry slot is claimed and 0 is stored in it.
Pin(r) ==
  /\ rpc[r] = "idle"
  /\ \E at \in {0} \cup {s \in 1..committed : horizon <= s + 1} :
       asked' = [asked EXCEPT ![r] = [since |-> committed, at |-> at]]
  /\ own' = [own EXCEPT ![r] = 0]
  /\ pin' = IF StoreBuffered THEN pin ELSE [pin EXCEPT ![r] = 0]
  /\ rpc' = [rpc EXCEPT ![r] = "pinned"]
  /\ UNCHANGED <<writer_shared, writer_local, snap, left, held, found>>

\* Mutant of LatestSnapshot: the last timestamp handed out.
LatestAllocated == clock

\* The snapshot is the caller's, or what is committed.
LatestSnapshot == committed

Resolve(r) ==
  /\ rpc[r] = "pinned"
  /\ snap' = [snap EXCEPT ![r] = IF asked[r].at = 0 THEN LatestSnapshot ELSE asked[r].at]
  /\ rpc' = [rpc EXCEPT ![r] = "resolved"]
  /\ UNCHANGED <<writer_shared, writer_local, asked, own, pin, left, held, found>>

Refine(r) ==
  /\ rpc[r] = "resolved"
  /\ own' = [own EXCEPT ![r] = snap[r]]
  /\ pin' = IF StoreBuffered THEN pin ELSE [pin EXCEPT ![r] = snap[r]]
  /\ rpc' = [rpc EXCEPT ![r] = "refined"]
  /\ UNCHANGED <<writer_shared, writer_local, asked, snap, left, held, found>>

\* A buffered store reaches memory.
Drain(r) ==
  /\ pin[r] # own[r]
  /\ pin' = [pin EXCEPT ![r] = own[r]]
  /\ UNCHANGED <<writer_shared, writer_local, asked, rpc, own, snap, left, held, found>>

LoadDirectory(r) ==
  /\ rpc[r] = "refined"
  /\ left' = [left EXCEPT ![r] = directory]
  /\ rpc' = [rpc EXCEPT ![r] = "scan"]
  /\ UNCHANGED <<writer_shared, writer_local, asked, own, pin, snap, held, found>>

\* Mutant of Remaining: the directory is loaded again for every page.
Reloaded(pages, p) == directory \ {p}

Remaining(pages, p) == pages \ {p}

LoadImage(r) ==
  /\ rpc[r] = "scan"
  /\ \E p \in left[r] :
       /\ held' = [held EXCEPT ![r] = [page |-> p, img |-> image[p]]]
       /\ left' = [left EXCEPT ![r] = Remaining(@, p)]
  /\ rpc' = [rpc EXCEPT ![r] = "held"]
  /\ UNCHANGED <<writer_shared, writer_local, asked, own, pin, snap, found>>

\* The cells of the image that are visible at the snapshot, each with the
\* payload its slot has in the store by now.
Scan(r) ==
  /\ rpc[r] = "held"
  /\ LET p == held[r].page
         img == held[r].img
     IN found' = [found EXCEPT ![r] = @ \cup
          {[id |-> img[s].id, vec |-> store[p][s]] :
             s \in {t \in Slots : Visible(img[t], snap[r])}}]
  /\ held' = [held EXCEPT ![r] = NoImage]
  /\ rpc' = [rpc EXCEPT ![r] = "scan"]
  /\ UNCHANGED <<writer_shared, writer_local, asked, own, pin, snap, left>>

\* The pass is over: the pin's destructor releases the slot.
Unpin(r) ==
  /\ Done(r)
  /\ asked' = [asked EXCEPT ![r] = NotAsked]
  /\ own' = [own EXCEPT ![r] = Unpinned]
  /\ pin' = [pin EXCEPT ![r] = Unpinned]
  /\ snap' = [snap EXCEPT ![r] = 0]
  /\ found' = [found EXCEPT ![r] = {}]
  /\ rpc' = [rpc EXCEPT ![r] = "idle"]
  /\ UNCHANGED <<writer_shared, writer_local, left, held>>

Reader(r) ==
  \/ Pin(r) \/ Resolve(r) \/ Refine(r) \/ Drain(r)
  \/ LoadDirectory(r) \/ LoadImage(r) \/ Scan(r) \/ Unpin(r)

Next == Writer \/ \E r \in Readers : Reader(r)

Spec == Init /\ [][Next]_vars

\* The thread of a search keeps running; nothing is asked of writers.
Search(r) == Resolve(r) \/ Refine(r) \/ LoadDirectory(r) \/ LoadImage(r) \/ Scan(r) \/ Unpin(r)
FairSpec == Spec /\ \A r \in Readers : WF_vars(Search(r))

-----------------------------------------------------------------------------
(* Properties.                                                             *)

Location == Pages \X Slots
Retired == [end : Nat, begin : Nat, id : Ids]
Call == [kind : {"none", "insert", "delete", "rows", "rounds", "changes", "vacuum"},
         ts : Nat, ids : Seq(Ids), deletes : Nat, taken : Nat, budget : Nat]

SharedTypes ==
  /\ image \in [Pages -> Image]
  /\ store \in [Pages -> [Slots -> Vec]]
  /\ directory \subseteq Pages
  /\ nextPage \in 1..(MaxPages + 1)
  /\ locations \in [Ids -> SUBSET Location]
  /\ retired \in Seq(Retired)
  /\ clock \in Nat /\ committed \in Nat /\ horizon \in Nat
  /\ history \subseteq Version

WriterTypes ==
  /\ wpc \in {"idle", "block", "close", "place", "filled", "list", "commit",
              "reclaim", "consolidate", "merge"}
  /\ call \in Call
  /\ wpc = "idle" => call = NoCall
  /\ toClose \subseteq DOMAIN call.ids /\ toPlace \subseteq DOMAIN call.ids
  /\ draft \in [page : 0..MaxPages, img : Image, rows : SUBSET (Ids \X Slots)]
  /\ wpc = "filled" => draft.page \in Pages
  /\ unlisted \subseteq Ids \X Pages \X Slots
  /\ doomed \in [Pages -> SUBSET (Nat \X Nat)]
  /\ wanted \in Nat

ReaderTypes ==
  /\ asked \in [Readers -> [since : Nat, at : Nat]]
  /\ rpc \in [Readers -> {"idle", "pinned", "resolved", "refined", "scan", "held"}]
  /\ own \in [Readers -> Nat] /\ pin \in [Readers -> Nat] /\ snap \in [Readers -> Nat]
  /\ left \in [Readers -> SUBSET Pages]
  /\ held \in [Readers -> [page : 0..MaxPages, img : Image]]
  /\ \A r \in Readers : rpc[r] = "held" => held[r].page \in Pages
  /\ found \in [Readers -> SUBSET [id : Ids, vec : Vec]]

\* Every variable holds a value of its kind: in particular no page, slot or
\* row that does not exist is ever named.
TypeOK == SharedTypes /\ WriterTypes /\ ReaderTypes

\* While a search holds a page image, every version it may return still has
\* its payload in the shared store: vacuum plus a later insert never reuse a
\* slot under it (ReaderRegistry, VectorStore, RecordStore).
SlotSafe ==
  \A r \in Readers : rpc[r] = "held" =>
    \A s \in Slots : Visible(held[r].img[s], snap[r]) =>
      store[held[r].page][s] = held[r].img[s].vec

\* Whatever a search has collected so far, over any of the pages, was
\* committed at its snapshot: no row of a write in progress, no half of a
\* batch, no replaced version, nobody else's vector.
SearchSound ==
  \A r \in Readers : found[r] \subseteq Abstract!AsOf(history, snap[r])

\* At every moment of a write or a vacuum, the published directory answers
\* for every committed timestamp the vacuums so far have left readable.
TimeTravel ==
  \A ts \in (IF horizon = 0 THEN 0 ELSE horizon - 1)..committed :
    {[id |-> image[l[1]][l[2]].id, vec |-> image[l[1]][l[2]].vec] :
       l \in {c \in Cells(directory) : Visible(image[c[1]][c[2]], ts)}}
    = Abstract!AsOf(history, ts)

\* Between calls `locations' lists exactly the versions the directory holds,
\* through splits, merges and vacuums: what close_current and vacuum find
\* their versions by.
LocationsExact ==
  wpc = "idle" => \A id \in Ids :
    locations[id] = {l \in Cells(directory) : image[l[1]][l[2]].id = id}

\* Between calls no id has two open versions.
OneOpen ==
  wpc = "idle" => \A c, d \in Cells(directory) :
    /\ image[c[1]][c[2]].end = MAX_TS /\ image[d[1]][d[2]].end = MAX_TS
    /\ image[c[1]][c[2]].id = image[d[1]][d[2]].id
    => c = d

\* Between calls every closed version still in the index is queued for
\* vacuum: nothing is kept for ever because the queue forgot it.
ClosedIsQueued ==
  wpc = "idle" => \A c \in Cells(directory) :
    image[c[1]][c[2]].end # MAX_TS =>
      \E j \in DOMAIN retired :
        /\ retired[j].id = image[c[1]][c[2]].id
        /\ StampOf(retired[j]) = Stamp(image[c[1]][c[2]])

\* README: "vacuum physically reclaims at most budget_versions expired
\* records".
BudgetKept ==
  wpc = "reclaim" /\ call.budget # 0 =>
    Cardinality({l \in Location : Matches(image[l[1]][l[2]], doomed[l[1]])}) <= call.budget

\* MAX_MERGES_PER_VACUUM "bounds the pause a single vacuum call can
\* introduce": what consolidation still wants never exceeds it.
MergesBounded == wanted <= MaxMerges

\* A vacuum of everything that has expired, with no budget and no search in
\* progress, leaves open versions only (examples/compliance_deletion.py).
VacuumReclaimsAll ==
  /\ wpc = "merge" /\ call.kind = "vacuum" /\ call.budget = 0
  /\ call.ts = committed + 1 /\ clock = committed
  /\ \A r \in Readers : rpc[r] = "idle"
  => \A c \in Cells(directory) : image[c[1]][c[2]].end = MAX_TS

\* The index implements SnapshotStore: each search answers from the history
\* as of one committed timestamp, each call enters it in one step.
Implements == Abstract!Spec

\* A search that is let run returns, whatever the writers do.
SearchReturns == \A r \in Readers : rpc[r] # "idle" ~> rpc[r] = "idle"

=============================================================================
