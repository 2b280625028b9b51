---------------------------- MODULE ReferenceIndex ----------------------------
(***************************************************************************)
(* chronovec/index.py, the reference index that DuckDB, the multi-vector   *)
(* index and the tests use: fixed-size pages in a directory, each with a   *)
(* lock of its own, a directory lock, a map of where each id lies and a    *)
(* queue of closed versions.  A block under a lock is a step; a block that *)
(* waits for a second lock is two, and keeps the first.  A row is an id    *)
(* with the ticks it begins and ends at.  Geometry only chooses pages and  *)
(* the halves of a split, so any page and any two halves can be chosen.    *)
(* Lists are written in closed form, without recursion.                    *)
(***************************************************************************)
EXTENDS Integers, Sequences, FiniteSetsExt, SequencesExt

CONSTANTS Ids, Writers, Readers, Nobody,
          MAX_TS,         \* end of a version that is not closed
          Capacity,       \* page_capacity
          Latest,         \* may a search take the clock while a write is under way
          K,              \* how many rows a search asks for
          MaxClock,       \* bound on the clock
          MaxPages        \* bound on the pages ever made

ASSUME Bounds ==
  /\ Capacity \in Nat \ {0} /\ K \in Nat \ {0} /\ Ids \subseteq Int
  /\ MaxClock \in Nat /\ MAX_TS \in Nat /\ MaxClock < MAX_TS /\ MaxPages \in Nat
  /\ Nobody \notin Writers

VARIABLES clock,          \* _clock
          pages,          \* what each page ever made holds, slot by slot
          directory,      \* _pages: the pages in use
          locations,      \* _locations: per id, <<page, slot>> in list order
          retired,        \* _retired: the queue of closed versions
          owner,          \* who holds _directory_lock
          holder,         \* who holds each page's lock
          op,             \* per writer: the call it is in, and where
          read,           \* per reader: the search it is in
          past,           \* per tick: the rows current after that call (history)
          horizon         \* the oldest snapshot vacuum was told to keep (history)

store == <<pages, directory>>
book == <<locations, retired>>
ghost == <<past, horizon>>
vars == <<clock, store, book, owner, holder, op, read, ghost>>

Slots == 1..Capacity
Free == [id |-> 0, begin |-> 0, end |-> 0]

Init ==
  /\ clock = 0
  /\ pages = <<>> /\ directory = <<>>
  /\ locations = [i \in Ids |-> <<>>] /\ retired = <<>>
  /\ owner = Nobody /\ holder = <<>>
  /\ op = [w \in Writers |-> [at |-> "idle"]]
  /\ read = [r \in Readers |-> [at |-> "idle"]]
  /\ past = [t \in 0..MaxClock |-> {}] /\ horizon = 0

free_slots(p) == {s \in Slots : pages[p][s] = Free}
free_slot(p) == CHOOSE s \in free_slots(p) : \A t \in free_slots(p) : s <= t
occupied(p) == Slots \ free_slots(p)

\* Mutant of visible: a version still shows at the tick that closed it.
visible_at_end(p, snap) == {pages[p][s] : s \in {t \in occupied(p) :
                              pages[p][t].begin <= snap /\ snap <= pages[p][t].end}}

\* The rows of visible_mask.
visible(p, snap) == {pages[p][s] : s \in {t \in occupied(p) :
                       pages[p][t].begin <= snap /\ snap < pages[p][t].end}}

RowAt(place) == pages[place[1]][place[2]]
InUse(p) == p \in {directory[k] : k \in DOMAIN directory}
DirectoryFree == owner = Nobody
PageFree(p) == holder[p] = Nobody
new_page == [s \in Slots |-> Free]
Goes(w, rest) == op' = [op EXCEPT ![w] = rest]
Ends(w) == Goes(w, [at |-> "idle"])
WithPage(w, at, p) == [at |-> at, call |-> "insert", id |-> op[w].id, ts |-> op[w].ts, page |-> p]
WithPlaces(w, at, places) ==
  [at |-> at, call |-> op[w].call, id |-> op[w].id, ts |-> op[w].ts, todo |-> places]

\* The members of a finite set in the order that `before', a set of pairs, puts them.
InOrder(S, before) ==
  [k \in 1..Cardinality(S) |-> CHOOSE x \in S : Cardinality({y \in S : <<y, x>> \in before}) = k - 1]
Increasing(S) == InOrder(S, {e \in S \X S : e[1] < e[2]})

\* The part of a sequence that lies at the indices `at'.
Part(seq, at) == [k \in 1..Cardinality(at) |-> seq[Increasing(at)[k]]]

Writing(w) == op[w].at \notin {"idle", "reclaim"}

\* The last tick such that its call and every earlier one have returned.
Settled == IF \A w \in Writers : ~Writing(w) THEN clock
           ELSE Min({op[w].ts : w \in {u \in Writers : Writing(u)}}) - 1
-----------------------------------------------------------------------------
(* insert and delete *)

\* Mutant of Tick: the write gets the clock from before it moved.
TickAfter(w, call, id) ==
  /\ op[w].at = "idle" /\ clock < MaxClock
  /\ DirectoryFree
  /\ clock' = clock + 1
  /\ past' = [past EXCEPT ![clock + 1] =
       {v \in past[clock] : v[1] # id} \cup (IF call = "insert" THEN {<<id, clock + 1>>} ELSE {})]
  /\ Goes(w, [at |-> "list", call |-> call, id |-> id, ts |-> clock])
  /\ UNCHANGED <<store, book, owner, holder, read, horizon>>

\* _tick, first: the clock moves before anything is written.
Tick(w, call, id) ==
  /\ op[w].at = "idle" /\ clock < MaxClock
  /\ DirectoryFree
  /\ clock' = clock + 1
  /\ past' = [past EXCEPT ![clock + 1] =
       {v \in past[clock] : v[1] # id} \cup (IF call = "insert" THEN {<<id, clock + 1>>} ELSE {})]
  /\ Goes(w, [at |-> "list", call |-> call, id |-> id, ts |-> clock + 1])
  /\ UNCHANGED <<store, book, owner, holder, read, horizon>>

\* _close_current_version: the places are copied under the directory lock ...
ListPlaces(w) ==
  /\ op[w].at = "list"
  /\ DirectoryFree
  /\ Goes(w, WithPlaces(w, "close", Reverse(locations[op[w].id])))
  /\ UNCHANGED <<clock, store, book, owner, holder, read, ghost>>

\* Mutant of IsOpen: a version that is closed already is closed again.
IsAny(w, place) == RowAt(place).id = op[w].id

IsOpen(w, place) == RowAt(place).id = op[w].id /\ RowAt(place).end = MAX_TS

\* ... and looked at one by one until one holds the open version.
ClosePlace(w) ==
  /\ op[w].at = "close" /\ op[w].todo # <<>>
  /\ LET place == Head(op[w].todo) IN
       /\ PageFree(place[1])
       /\ IF IsOpen(w, place)
          THEN /\ pages' = [pages EXCEPT ![place[1]][place[2]].end = op[w].ts]
               /\ holder' = [holder EXCEPT ![place[1]] = w]
               /\ Goes(w, WithPlaces(w, "retire", <<place>>))
          ELSE /\ Goes(w, WithPlaces(w, "close", Tail(op[w].todo)))
               /\ UNCHANGED <<pages, holder>>
  /\ UNCHANGED <<clock, directory, book, owner, read, ghost>>

\* What follows a closed version: insert goes on, delete returns.
Closed(w) ==
  IF op[w].call = "insert"
  THEN Goes(w, [at |-> "choose", call |-> "insert", id |-> op[w].id, ts |-> op[w].ts])
  ELSE Ends(w)

\* Mutant of Retire: the version is left out of the queue.
RetireUnqueued(w) ==
  /\ op[w].at = "retire"
  /\ DirectoryFree
  /\ holder' = [holder EXCEPT ![Head(op[w].todo)[1]] = Nobody]
  /\ Closed(w)
  /\ UNCHANGED <<clock, store, book, owner, read, ghost>>

\* The version joins the queue; the page is still locked.
Retire(w) ==
  /\ op[w].at = "retire"
  /\ DirectoryFree
  /\ LET place == Head(op[w].todo) IN
       /\ retired' = Append(retired, [end |-> op[w].ts, id |-> op[w].id,
                                      begin |-> RowAt(place).begin])
       /\ holder' = [holder EXCEPT ![place[1]] = Nobody]
  /\ Closed(w)
  /\ UNCHANGED <<clock, store, locations, owner, read, ghost>>

\* No place holds an open version; delete raises KeyError, its tick is spent.
NoneOpen(w) ==
  /\ op[w].at = "close" /\ op[w].todo = <<>>
  /\ Closed(w)
  /\ UNCHANGED <<clock, store, book, owner, holder, read, ghost>>

AddPages(n) ==
  /\ Len(pages) + n <= MaxPages
  /\ holder' = holder \o [k \in 1..n |-> Nobody]

\* _choose_page, and the first page of an empty index.
ChoosePage(w) ==
  /\ op[w].at = "choose"
  /\ DirectoryFree
  /\ IF directory = <<>>
     THEN /\ AddPages(1)
          /\ pages' = Append(pages, new_page)
          /\ directory' = <<Len(pages) + 1>>
          /\ Goes(w, WithPage(w, "place", Len(pages) + 1))
     ELSE /\ \E k \in DOMAIN directory : Goes(w, WithPage(w, "room", directory[k]))
          /\ UNCHANGED <<store, holder>>
  /\ UNCHANGED <<clock, book, owner, read, ghost>>

\* The page is looked at under its lock, which is given back.
LookForRoom(w) ==
  /\ op[w].at = "room"
  /\ PageFree(op[w].page)
  /\ Goes(w, WithPage(w, IF free_slots(op[w].page) # {} THEN "place" ELSE "split", op[w].page))
  /\ UNCHANGED <<clock, store, book, owner, holder, read, ghost>>

ChooseAgain(w) == Goes(w, [at |-> "choose", call |-> "insert", id |-> op[w].id, ts |-> op[w].ts])

\* insert: the row is written under the page's lock, if there still is room ...
PlaceRow(w) ==
  /\ op[w].at = "place"
  /\ LET p == op[w].page IN
       /\ PageFree(p)
       /\ IF free_slots(p) = {} THEN ChooseAgain(w) /\ UNCHANGED <<pages, holder>>
          ELSE /\ pages' = [pages EXCEPT ![p][free_slot(p)] =
                              [id |-> op[w].id, begin |-> op[w].ts, end |-> MAX_TS]]
               /\ holder' = [holder EXCEPT ![p] = w]
               /\ Goes(w, [at |-> "record", call |-> "insert", id |-> op[w].id, ts |-> op[w].ts,
                           page |-> p, slot |-> free_slot(p)])
  /\ UNCHANGED <<clock, directory, book, owner, read, ghost>>

\* ... and entered in the map under the directory lock too.
RecordPlace(w) ==
  /\ op[w].at = "record"
  /\ DirectoryFree
  /\ locations' = [locations EXCEPT ![op[w].id] = Append(@, <<op[w].page, op[w].slot>>)]
  /\ holder' = [holder EXCEPT ![op[w].page] = Nobody]
  /\ Ends(w)
  /\ UNCHANGED <<clock, store, retired, owner, read, ghost>>
-----------------------------------------------------------------------------
(* _split_page: the directory lock, then the page's *)

BeginSplit(w) ==
  /\ op[w].at = "split"
  /\ DirectoryFree
  /\ owner' = w
  /\ Goes(w, WithPage(w, "halve", op[w].page))
  /\ UNCHANGED <<clock, store, book, holder, read, ghost>>

\* The rows of page p in `half', moved in slot order to a new page.
Half(p, half) ==
  [s \in Slots |-> IF s \in 1..Cardinality(half) THEN pages[p][Increasing(half)[s]] ELSE Free]

\* Mutant of Moved: the places the id has on other pages are forgotten.
MovedAlone(p, id, targets) == IF targets = <<>> THEN locations[id] ELSE targets

\* The places of an id after the split of p, whose rows went to `targets'.
Moved(p, id, targets) ==
  IF targets = <<>> THEN locations[id]
  ELSE Part(locations[id], {k \in DOMAIN locations[id] : locations[id][k][1] # p}) \o targets

\* Where the rows of an id go, in the order of the slots they leave.
Rank(s, half) == Cardinality({t \in half : t <= s})
Target(p, s, left, l, r) ==
  IF s \in left THEN <<l, Rank(s, left)>> ELSE <<r, Rank(s, occupied(p) \ left)>>
Targets(p, id, left, l, r) ==
  LET mine == {s \in occupied(p) : pages[p][s].id = id}
  IN [k \in 1..Cardinality(mine) |-> Target(p, Increasing(mine)[k], left, l, r)]

\* Nothing is split if the page left the directory or has under two rows.
SplitPage(w) ==
  /\ op[w].at = "halve"
  /\ LET p == op[w].page
         l == Len(pages) + 1
         r == Len(pages) + 2
     IN
     IF InUse(p) => PageFree(p) /\ Cardinality(occupied(p)) < 2
     THEN UNCHANGED <<store, locations, holder>>
     ELSE /\ PageFree(p) /\ AddPages(2)
          /\ \E left \in (SUBSET occupied(p)) \ {{}, occupied(p)} :
               /\ pages' = pages \o <<Half(p, left), Half(p, occupied(p) \ left)>>
               /\ locations' = [i \in Ids |-> Moved(p, i, Targets(p, i, left, l, r))]
          /\ directory' = Part(directory, {k \in DOMAIN directory : directory[k] # p}) \o <<l, r>>
  /\ owner' = Nobody
  /\ ChooseAgain(w)
  /\ UNCHANGED <<clock, retired, read, ghost>>
-----------------------------------------------------------------------------
(* vacuum holds the directory lock throughout, and page locks inside it *)

\* Where the rows of an id are, as positions in the directory and slots, and in
\* which order a scan meets them.
Cells(content, dir, id) ==
  {c \in (DOMAIN dir) \X Slots : LET row == content[dir[c[1]]][c[2]] IN row # Free /\ row.id = id}
Scan(cells) == {e \in cells \X cells :
                  e[1][1] < e[2][1] \/ (e[1][1] = e[2][1] /\ e[1][2] < e[2][2])}

\* The places of the rows in the pages in use, by id.
Rebuilt(content, dir) ==
  [id \in Ids |->
     LET cells == Cells(content, dir, id)
         order == InOrder(cells, Scan(cells))
     IN [k \in 1..Cardinality(cells) |-> <<dir[order[k][1]], order[k][2]>>]]

Snapshots == {read[r].snap : r \in {q \in Readers : read[q].at # "idle"}}

Reclaiming(oldest, changed) == [at |-> "reclaim", oldest |-> oldest, changed |-> changed]

\* The caller keeps every snapshot it still searches at.
BeginVacuum(w, oldest) ==
  /\ op[w].at = "idle"
  /\ DirectoryFree
  /\ \A snap \in Snapshots : oldest <= snap
  /\ retired # <<>> /\ Head(retired).end < oldest
  /\ owner' = w
  /\ Goes(w, Reclaiming(oldest, {}))
  /\ horizon' = Max({horizon, oldest})
  /\ UNCHANGED <<clock, store, book, holder, read, past>>

IsRetired(place, entry) ==
  LET row == RowAt(place) IN
    row.id = entry.id /\ row.begin = entry.begin /\ row.end = entry.end

Due(w) == retired # <<>> /\ Head(retired).end < op[w].oldest

\* One entry of the queue: its places are locked and looked at in turn.
ReclaimOne(w) ==
  /\ op[w].at = "reclaim" /\ Due(w)
  /\ LET entry == Head(retired)
         places == locations[entry.id]
         found == {k \in DOMAIN places : IsRetired(places[k], entry)}
         last == IF found = {} THEN Len(places) ELSE Min(found)
     IN
     /\ \A k \in 1..last : PageFree(places[k][1])
     /\ retired' = Tail(retired)
     /\ IF found = {} THEN UNCHANGED <<pages, op>>
        ELSE /\ pages' = [pages EXCEPT ![places[last][1]][places[last][2]] = Free]
             /\ Goes(w, Reclaiming(op[w].oldest, op[w].changed \cup {places[last][1]}))
  /\ UNCHANGED <<clock, directory, locations, owner, holder, read, ghost>>

\* Nothing more is due, or the budget is spent; the map is built anew.
EndVacuum(w) ==
  /\ op[w].at = "reclaim" /\ (~Due(w) \/ op[w].changed # {})
  /\ \A p \in op[w].changed : PageFree(p)
  /\ IF op[w].changed = {} THEN UNCHANGED locations
     ELSE /\ \A k \in DOMAIN directory : PageFree(directory[k])
          /\ locations' = Rebuilt(pages, directory)
  /\ owner' = Nobody
  /\ Ends(w)
  /\ UNCHANGED <<clock, store, retired, holder, read, ghost>>

Entry(row) == [end |-> row.end, id |-> row.id, begin |-> row.begin]
Earlier(e, f) == \/ e.end < f.end
                 \/ e.end = f.end /\ e.id < f.id
                 \/ e.end = f.end /\ e.id = f.id /\ e.begin < f.begin
Queue(entries) == InOrder(entries, {e \in entries \X entries : Earlier(e[1], e[2])})
ClosedRows == UNION {{pages[directory[k]][s] : s \in {t \in occupied(directory[k]) :
                        pages[directory[k]][t].end # MAX_TS}} : k \in DOMAIN directory}

\* save, then load into a new index: pages are numbered again, the map and
\* the queue are rebuilt from the rows, and the old index is let go.
SaveAndLoad ==
  /\ \A w \in Writers : op[w].at = "idle"
  /\ \A r \in Readers : read[r].at = "idle"
  /\ LET kept == [k \in DOMAIN directory |-> pages[directory[k]]]
         all == [k \in DOMAIN directory |-> k]
     IN /\ pages' = kept
        /\ directory' = all
        /\ holder' = [k \in DOMAIN directory |-> Nobody]
        /\ locations' = Rebuilt(kept, all)
        /\ retired' = Queue({Entry(row) : row \in ClosedRows})
  /\ UNCHANGED <<clock, owner, op, read, ghost>>
-----------------------------------------------------------------------------
(* search: the pages are listed once, then copied one lock at a time *)

\* A caller names a snapshot it keeps, or takes the clock as it stands.
BeginSearch(r, snap, adaptive) ==
  /\ read[r].at = "idle"
  /\ DirectoryFree
  /\ snap >= horizon /\ (snap <= Settled \/ (Latest /\ snap = clock))
  /\ read' = [read EXCEPT ![r] =
       [at |-> "probe", snap |-> snap, adaptive |-> adaptive,
        todo |-> {directory[k] : k \in DOMAIN directory}, got |-> {}]]
  /\ UNCHANGED <<clock, store, book, owner, holder, op, ghost>>

ProbePage(r, p) ==
  /\ read[r].at = "probe" /\ p \in read[r].todo
  /\ PageFree(p)
  /\ read' = [read EXCEPT ![r].todo = @ \ {p}, ![r].got = @ \cup visible(p, read[r].snap)]
  /\ UNCHANGED <<clock, store, book, owner, holder, op, ghost>>

\* Probing stops with the pages, with K candidates, or after nprobe pages.
MayStop(r) == \/ read[r].todo = {}
              \/ Cardinality(read[r].got) >= K
              \/ ~read[r].adaptive

EndSearch(r) ==
  /\ read[r].at = "probe" /\ MayStop(r)
  /\ read' = [read EXCEPT ![r] = [at |-> "idle"]]
  /\ UNCHANGED <<clock, store, book, owner, holder, op, ghost>>
-----------------------------------------------------------------------------
Step(w) ==
  \/ \E id \in Ids, call \in {"insert", "delete"} : Tick(w, call, id)
  \/ ListPlaces(w) \/ ClosePlace(w) \/ Retire(w) \/ NoneOpen(w)
  \/ ChoosePage(w) \/ LookForRoom(w) \/ PlaceRow(w) \/ RecordPlace(w)
  \/ BeginSplit(w) \/ SplitPage(w)
  \/ \E oldest \in 1..clock : BeginVacuum(w, oldest)
  \/ ReclaimOne(w) \/ EndVacuum(w)

Search(r) ==
  \/ \E snap \in 0..clock, adaptive \in BOOLEAN : BeginSearch(r, snap, adaptive)
  \/ \E p \in DOMAIN pages : ProbePage(r, p)
  \/ EndSearch(r)

Next == (\E w \in Writers : Step(w)) \/ (\E r \in Readers : Search(r)) \/ SaveAndLoad

Spec == Init /\ [][Next]_vars
-----------------------------------------------------------------------------
Row == [id : Ids, begin : 1..MaxClock, end : (1..MaxClock) \cup {MAX_TS}]
Place == (DOMAIN pages) \X Slots
Quiet == \A w \in Writers : op[w].at = "idle"

\* Values stay in range, a page of the directory exists and a queue entry has
\* the shape of a version (_Page.__init__, _retired).
TypeOK ==
  /\ clock \in 0..MaxClock /\ horizon \in 0..MaxClock
  /\ pages \in Seq([Slots -> Row \cup {Free}])
  /\ directory \in Seq(DOMAIN pages)
  /\ locations \in [Ids -> Seq(Place)]
  /\ retired \in Seq(Row)
  /\ owner \in Writers \cup {Nobody}
  /\ holder \in [DOMAIN pages -> Writers \cup {Nobody}]

Named(rows) == {<<v.id, v.begin>> : v \in rows}

\* A search at a snapshot returns rows current at it only, and all of them
\* unless it stopped at K or was told not to go on; pages split, vacuumed and
\* written while it probes do not change that (search).
SearchAnswers ==
  \A r \in Readers : read[r].at = "probe" =>
    /\ Named(read[r].got) \subseteq past[read[r].snap]
    /\ read[r].todo = {} => Named(read[r].got) = past[read[r].snap]

Stored(snap) == UNION {visible(directory[k], snap) : k \in DOMAIN directory}

\* Between calls the map names each stored row once, whatever was split,
\* vacuumed or loaded (_split_page, _rebuild_locations_locked).
LocationsExact ==
  Quiet => \A id \in Ids :
    LET places == {place \in Place : InUse(place[1]) /\ RowAt(place) # Free /\ RowAt(place).id = id} IN
      /\ {locations[id][k] : k \in DOMAIN locations[id]} = places
      /\ Len(locations[id]) = Cardinality(places)

\* Between calls every closed version that is stored is queued once, earliest
\* first, so vacuum leaves none behind (_retired).
RetiredExact ==
  Quiet => /\ {retired[k] : k \in DOMAIN retired} = {Entry(row) : row \in ClosedRows}
           /\ Len(retired) = Cardinality(ClosedRows)
           /\ \A k \in 1..(Len(retired) - 1) : retired[k].end <= retired[k + 1].end

\* At a snapshot an id has one version, in the pages in use.
OneVersionAt(snap) == \A v, u \in Stored(snap) : v.id = u.id => v = u

\* Between calls the pages in use still answer every snapshot vacuum was told
\* to keep, one version of an id each (insert, vacuum).
KeepsHistory ==
  Quiet => \A snap \in horizon..clock : Named(Stored(snap)) = past[snap] /\ OneVersionAt(snap)

\* An id that is current before and after the write a search meets is found,
\* once (search at the clock, upsert in insert).
Has(rows, id) == \E v \in rows : v[1] = id
RowsStay ==
  \A r \in Readers : read[r].at = "probe" /\ read[r].todo = {} /\ read[r].snap > 0 =>
    \A id \in Ids : Has(past[read[r].snap - 1], id) /\ Has(past[read[r].snap], id) =>
      Cardinality({v \in read[r].got : v.id = id}) = 1

\* Between calls no id is current twice (_close_current_version).
OneVersion == Quiet => OneVersionAt(clock)

\* Nobody waits for the directory with a page in hand while another waits for
\* that page with the directory in hand (insert against vacuum, split, stats).
NoStandoff ==
  \A w, u \in Writers :
    ~ /\ op[w].at \in {"retire", "record"} /\ owner = u
      /\ \/ op[u].at = "halve" /\ holder[op[u].page] = w
         \/ op[u].at = "reclaim" /\ \E k \in DOMAIN directory : holder[directory[k]] = w

\* The map, the queue and the pages tell the same story between calls (insert,
\* delete, _split_page, vacuum, load).
BookExact == TypeOK /\ LocationsExact /\ RetiredExact
=============================================================================
