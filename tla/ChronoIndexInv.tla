--------------------------- MODULE ChronoIndexInv ---------------------------
(***************************************************************************)
(* The inductive invariants of ChronoIndex.  First, why a slot is never     *)
(* reused under a search, when a pin is visible as soon as it is stored.   *)
(***************************************************************************)
EXTENDS ChronoIndex

\* A write call is in progress.
InWrite ==
  \/ wpc \in {"block", "close", "place", "filled", "list", "commit"}
  \/ wpc \in {"reclaim", "consolidate", "merge"} /\ call.kind # "vacuum"

\* Nothing committed is newer than the call that holds the lock.
Timestamps ==
  /\ committed <= clock
  /\ InWrite => committed <= call.ts /\ call.ts <= clock

\* The snapshot of a search is committed.
Snapshots ==
  \A r \in Readers :
    /\ asked[r].at <= committed
    /\ rpc[r] \in {"resolved", "refined", "scan", "held"} => snap[r] <= committed

\* A search pins 0 until its snapshot is known, and then the snapshot.
Pins ==
  \A r \in Readers :
    /\ own[r] = pin[r]
    /\ rpc[r] \in {"pinned", "resolved"} => pin[r] = 0
    /\ rpc[r] \in {"refined", "scan", "held"} => pin[r] = snap[r]

\* Pages are numbered in the order they are made.
Numbered ==
  /\ \A p \in directory : p < nextPage
  /\ \A r \in Readers :
       /\ \A p \in left[r] : p < nextPage
       /\ rpc[r] = "held" => held[r].page \in 1..(nextPage - 1)

\* Every published version has its payload in the store.
StoreMatches ==
  \A p \in Pages, s \in Slots :
    image[p][s] # Free => store[p][s] = image[p][s].vec

\* The private clone keeps every version of the page it was cloned from, and
\* its own rows have their payload in the store.
DraftExtends ==
  wpc = "filled" => \A s \in Slots :
    /\ image[draft.page][s] # Free => draft.img[s] = image[draft.page][s]
    /\ draft.img[s] # Free => store[draft.page][s] = draft.img[s].vec

\* What vacuum is about to clear ended before any search in progress, or any
\* that may still start, could see it.
DoomedIsPast ==
  /\ wpc # "reclaim" => doomed = Nothing
  /\ \A p \in Pages : \A stamp \in doomed[p] :
       /\ stamp[2] <= committed
       /\ stamp[2] < horizon
       /\ \A r \in Readers :
            /\ rpc[r] = "pinned" /\ asked[r].at # 0 => stamp[2] <= asked[r].at
            /\ rpc[r] \in {"resolved", "refined", "scan", "held"} => stamp[2] <= snap[r]

\* A version that a search may return from the image it holds is still in
\* its slot of the published page: it may have been closed since, no earlier
\* than the snapshot, and vacuum is not about to clear it.
SameVersion(c, d) == c.id = d.id /\ c.begin = d.begin /\ c.vec = d.vec

HeldSurvives ==
  \A r \in Readers : rpc[r] = "held" =>
    \A s \in Slots : Visible(held[r].img[s], snap[r]) =>
      LET cell == image[held[r].page][s] IN
        /\ cell # Free
        /\ SameVersion(cell, held[r].img[s])
        /\ snap[r] <= cell.end
        /\ ~Matches(cell, doomed[held[r].page])

\* The inductive invariant behind SlotSafe.
SlotInv ==
  /\ Timestamps /\ Snapshots /\ Pins /\ Numbered
  /\ StoreMatches /\ DraftExtends /\ DoomedIsPast /\ HeldSurvives

-----------------------------------------------------------------------------
(* Why the books about the pages stay exact: between two steps of a call   *)
(* `locations', the rows of the round in progress and the private clone    *)
(* together account for every version.                                     *)

At(c) == image[c[1]][c[2]]

\* A descriptor that has not been handed out has no versions.
Fresh ==
  /\ \A p \in Pages : nextPage <= p => image[p] = EmptyImage
  /\ \A p \in directory : p < nextPage

\* The timestamp of a write is a real one, not the end of time.
RealStamps == clock <= MaxClock /\ (InWrite => call.ts <= MaxClock)

\* Only a vacuum dooms versions, and only until it has cleared them.
DoomedByVacuum ==
  /\ wpc # "reclaim" => doomed = Nothing
  /\ wpc = "reclaim" => call.kind = "vacuum"

\* `locations' names the versions of the directory, all but those of the round
\* in progress, and besides them only slots that a vacuum has just emptied.
Listed ==
  \A id \in Ids :
    /\ \A l \in locations[id] :
         /\ l[1] \in directory
         /\ At(l) = Free => wpc = "reclaim"
         /\ At(l) # Free => At(l).id = id
    /\ \A c \in Cells(directory) :
         At(c).id = id => c \in locations[id] \/ <<id, c[1], c[2]>> \in unlisted

\* The rows of a round that are published and not listed yet.
Unlisted ==
  /\ unlisted # {} => wpc \in {"place", "filled", "list"} /\ call.kind = "rounds"
  /\ \A x \in unlisted : <<x[2], x[3]>> \in Cells(directory) /\ image[x[2]][x[3]].id = x[1]

\* The version row k of the call makes.
RowCell(k) == [id |-> call.ids[k], begin |-> call.ts, end |-> MAX_TS, vec |-> <<call.ts, k>>]

\* The clone differs from its page in free slots, which hold rows of the call.
Drafted ==
  wpc = "filled" =>
    /\ draft.page \in directory
    /\ \A s \in Slots : draft.img[s] # image[draft.page][s] =>
         /\ image[draft.page][s] = Free
         /\ \E k \in (DOMAIN call.ids) \ toPlace :
              draft.img[s] = RowCell(k) /\ <<call.ids[k], s>> \in draft.rows
    /\ \A row \in draft.rows :
         /\ image[draft.page][row[2]] = Free
         /\ draft.img[row[2]] # Free /\ draft.img[row[2]].id = row[1]

NoneOpen(id) == \A c \in Cells(directory) : At(c).id = id => At(c).end # MAX_TS

\* No id has two open versions, in the middle of a call neither.
SingleOpen ==
  \A c, d \in Cells(directory) :
    At(c).end = MAX_TS /\ At(d).end = MAX_TS /\ At(c).id = At(d).id => c = d

\* A row that is to be placed, or is in the clone already, meets no open version
\* of its id.
Ready ==
  /\ wpc # "close" => toClose = {}
  /\ wpc \notin {"close", "place", "filled"} => toPlace = {}
  /\ wpc # "filled" \/ call.kind = "rounds" =>
       \A k \in toPlace \ toClose :
         call.kind = "rounds" \/ First(toPlace, k) => NoneOpen(call.ids[k])
  /\ call.kind = "rounds" => ~Repeats(toPlace, call.ids)

ReadyDraft ==
  wpc = "filled" =>
    /\ \A row \in draft.rows : NoneOpen(row[1])
    /\ \A x, y \in draft.rows : x[1] = y[1] => x = y
    /\ call.kind # "rounds" => \A x, y \in draft.rows : x = y
    /\ call.kind = "rounds" => \A k \in toPlace, row \in draft.rows : row[1] # call.ids[k]

\* The inductive invariant behind LocationsExact and OneOpen, as long as no call
\* is thrown out of.
BookInv ==
  /\ Fresh /\ RealStamps /\ DoomedByVacuum
  /\ Listed /\ Unlisted /\ Drafted
  /\ SingleOpen /\ Ready /\ ReadyDraft

\* No two versions of an id in the directory carry the same stamps.
StampsDiffer ==
  \A c, d \in Cells(directory) :
    At(c).id = At(d).id /\ Stamp(At(c)) = Stamp(At(d)) => c = d

\* What is behind ClosedIsQueued: a closed version is in the queue, or vacuum has
\* taken it from there and is about to clear it.
Queued(v) == \E j \in DOMAIN retired : retired[j].id = v.id /\ StampOf(retired[j]) = Stamp(v)

QueuedOrDoomed ==
  \A c \in Cells(directory) :
    At(c).end # MAX_TS => Queued(At(c)) \/ Stamp(At(c)) \in doomed[c[1]]

-----------------------------------------------------------------------------
(* Why searches answer from the history: between two steps of a call the   *)
(* directory holds the history with the rows of the call that are done.    *)

\* No timestamp is given twice, no allocation fails, and a batch that may be
\* refused is refused before any of it is applied.
Undisturbed ==
  /\ ~StoreBuffered /\ ~MayThrow /\ 0 \notin Skips
  /\ MayRefuse => MaxBatch <= BlockSize

\* The rows of the call that its blocks have reached, and of these the rows in the
\* private clone, the rows that are published, and those whose id is closed.
InBlocks == call.kind \in {"rows", "rounds"}
Reached == IF InBlocks THEN call.taken ELSE Len(call.ids)
Filling ==
  {k \in DOMAIN call.ids : wpc = "filled" /\
     \E s \in Slots : image[draft.page][s] = Free /\ draft.img[s] = RowCell(k)}
Placed == {k \in (call.deletes + 1)..Reached : k \notin toPlace /\ k \notin Filling}
Ended ==
  {k \in 1..Reached : k \notin toClose /\
     (k \in toPlace => call.kind = "rounds" \/ (wpc # "filled" /\ First(toPlace, k)))}

\* A write is later than all that is committed, and vacuum keeps its last state.
Late ==
  /\ committed <= clock /\ horizon <= committed + 1
  /\ InWrite => committed < call.ts /\ call.ts <= clock

\* The rows of a call, what it has done of them and what it has left.
CallShape ==
  /\ IF InWrite THEN call.kind # "vacuum" ELSE call.ids = <<>>
  /\ call.taken <= Len(call.ids) /\ call.deletes <= Len(call.ids)
  /\ toPlace \cup Filling \subseteq (call.deletes + 1)..Reached /\ toClose \subseteq 1..Reached
  /\ InBlocks => call.deletes = 0 /\ Len(call.ids) <= MaxBatch
  /\ wpc = "block" => InBlocks /\ call.taken < Len(call.ids) /\ (MayRefuse => call.taken = 0)
  /\ wpc # "block" /\ InBlocks /\ MayRefuse => Reached = Len(call.ids)
  /\ wpc = "close" => toClose # {} /\ (InBlocks => toPlace # {})
  /\ wpc \in {"consolidate", "merge", "commit"} => Reached = Len(call.ids)

\* The rows of a call follow each other; those of a round in no order, but then
\* no later row of the call so far is of the same id.
CallOrder ==
  /\ call.kind # "rounds" =>
       /\ \A i \in toPlace, j \in (1..Reached) \ toPlace : j < i
       /\ \A i \in Filling, j \in (1..Reached) \ toPlace : j <= i
       /\ \A i \in toPlace, j \in toClose : j <= i
       /\ wpc = "close" => \A i \in toPlace : First(toPlace, i) => i \in toClose
  /\ call.kind = "rounds" =>
       \A i \in toPlace \cup Filling, j \in 1..Reached : i < j => call.ids[j] # call.ids[i]
  /\ \A i \in Placed, j \in toClose : i < j

\* A delete of several ids finds each of them; one of one id has nothing else to do.
DeletesFind ==
  \A k \in toClose \ toPlace :
    \/ call.kind = "delete" /\ Len(call.ids) = 1 /\ k = 1
    \/ /\ call.kind = "changes" /\ OpenAt(call.ids[k]) # {}
       /\ ~Repeats(DOMAIN call.ids, call.ids)

\* Every timestamp on a version is committed, or it is the one of the call.
CellStamps ==
  /\ \A c \in Cells(directory) :
       /\ At(c).begin <= committed \/ (At(c).begin = call.ts /\ Placed # {})
       /\ At(c).end = MAX_TS \/ At(c).end <= committed \/ (At(c).end = call.ts /\ Ended # {})
  /\ \A v \in history : v.begin <= committed /\ (v.end = MAX_TS \/ v.end <= committed)

\* What a search answers of a version, and what it finds on the pages P at ts.
Record(v) == [id |-> v.id, vec |-> v.vec]
Seen(P, ts) == {Record(At(c)) : c \in {d \in Cells(P) : Visible(At(d), ts)}}
SeenIn(img, ts) == {Record(img[s]) : s \in {t \in Slots : Visible(img[t], ts)}}

\* The timestamps at which a search may read, or one that is under way.
Readable ==
  {ts \in 0..committed : horizon <= ts + 1}
  \cup {asked[r].at : r \in {q \in Readers : rpc[q] = "pinned" /\ asked[q].at # 0}}
  \cup {snap[r] : r \in {q \in Readers : rpc[q] \in {"resolved", "refined"}}}

\* At each of them the directory answers as the history does.
Answers == \A ts \in Readable : Seen(directory, ts) = Abstract!AsOf(history, ts)

\* The open versions are those of the history without the ids that the call has
\* closed, and the last of the rows it has published of each id.
OpenNow ==
  {Record(At(c)) : c \in {d \in Cells(directory) : At(d).end = MAX_TS}} =
    {Record(v) : v \in {w \in history : w.end = MAX_TS /\ \A j \in Ended : call.ids[j] # w.id}}
    \cup {Record(RowCell(k)) :
            k \in {i \in Placed : \A j \in Ended : i < j => call.ids[j] # call.ids[i]}}

\* What a search has collected and what it has still to scan make its answer.
Collected ==
  \A r \in Readers :
    /\ rpc[r] \notin {"scan", "held"} => found[r] = {} /\ left[r] = {}
    /\ rpc[r] = "scan" =>
         Abstract!AsOf(history, snap[r]) = found[r] \cup Seen(left[r], snap[r])
    /\ rpc[r] = "held" =>
         Abstract!AsOf(history, snap[r]) =
           found[r] \cup Seen(left[r], snap[r]) \cup SeenIn(held[r].img, snap[r])

\* The snapshot of a search is the one it asked for.
Asked ==
  \A r \in Readers :
    /\ rpc[r] = "idle" => asked[r] = NotAsked
    /\ rpc[r] # "idle" => asked[r].since <= committed
    /\ rpc[r] \in {"resolved", "refined", "scan", "held"} =>
         IF asked[r].at = 0 THEN asked[r].since <= snap[r] ELSE snap[r] = asked[r].at

\* The inductive invariant behind TimeTravel, SearchSound and Implements, together
\* with SlotInv and BookInv.
AnswerInv ==
  /\ Late /\ CallShape /\ CallOrder /\ DeletesFind /\ CellStamps
  /\ Answers /\ OpenNow /\ Collected /\ Asked

=============================================================================
