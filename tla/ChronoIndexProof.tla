-------------------------- MODULE ChronoIndexProof --------------------------
(***************************************************************************)
(* Proofs about ChronoIndex, for every number of ids, readers, pages,      *)
(* slots, rows and timestamps.  First the types, the slots and the cells;  *)
(* then the books about the pages; then that the index implements          *)
(* SnapshotStore.                                                          *)
(***************************************************************************)
EXTENDS ChronoIndexInv, TLAPS, FiniteSetTheorems, SequenceTheorems, WellFoundedInduction

-----------------------------------------------------------------------------
(* Page images.                                                            *)

LEMMA EmptyImageType == EmptyImage \in Image
  BY DEF EmptyImage, Image

LEMMA FilledType ==
  ASSUME NEW img \in Image, NEW s \in Slots, NEW v \in Version
  PROVE  Filled(img, s, v) \in Image
  BY DEF Filled, Image

\* Closing an occupied slot gives an image; only that slot changes.
LEMMA ClosedType ==
  ASSUME NEW img \in Image, NEW s \in Slots, img[s] # Free, NEW ts \in Nat
  PROVE  Closed(img, s, ts) \in Image
  <1>1. img[s] \in Version
    BY DEF Image
  <1>2. [img[s] EXCEPT !.end = ts] \in Version
    BY <1>1 DEF Version
  <1> QED
    BY <1>2 DEF Closed, Image

LEMMA HalfType ==
  ASSUME NEW img \in Image, NEW S \in SUBSET Slots
  PROVE  Half(img, S) \in Image
  BY DEF Half, Image

LEMMA ClearedType ==
  ASSUME NEW img \in Image, NEW stamps
  PROVE  Cleared(img, stamps) \in Image
  BY DEF Cleared, Image

-----------------------------------------------------------------------------
(* Type correctness.                                                       *)

LEMMA InitTypes == Init => TypeOK
  <1> SUFFICES ASSUME Init PROVE TypeOK
    OBVIOUS
  <1> USE BoundsAssumption, MaxTsAssumption, EmptyImageType DEF Init
  <1>1. SharedTypes
    <2>1. retired \in Seq(Retired)
      OBVIOUS
    <2> QED
      BY <2>1 DEF SharedTypes, Pages, NoPayload, Vec, Location
  <1>2. WriterTypes
    <2>1. NoCall \in Call
      BY DEF NoCall, Call
    <2>2. NoDraft \in [page : 0..MaxPages, img : Image, rows : SUBSET (Ids \X Slots)]
      BY DEF NoDraft
    <2> QED
      BY <2>1, <2>2 DEF WriterTypes, Nothing
  <1>3. ReaderTypes
    BY DEF ReaderTypes, NotAsked, Unpinned, NoImage
  <1> QED
    BY <1>1, <1>2, <1>3 DEF TypeOK

\* The fields of the state that an action leaves alone keep their types.
LEMMA SharedUnchanged == SharedTypes /\ UNCHANGED writer_shared => SharedTypes'
  BY DEF SharedTypes, writer_shared, Image, Pages, Location

LEMMA WriterUnchanged == WriterTypes /\ UNCHANGED writer_local => WriterTypes'
  BY DEF WriterTypes, writer_local

LEMMA ReadersUnchanged == ReaderTypes /\ UNCHANGED reader_vars => ReaderTypes'
  BY DEF ReaderTypes, reader_vars

\* A call that ends leaves nothing behind.
LEMMA AbandonTypes == WriterTypes /\ Abandon => WriterTypes'
  <1> SUFFICES ASSUME WriterTypes, Abandon PROVE WriterTypes'
    OBVIOUS
  <1>1. NoCall \in Call
    BY DEF NoCall, Call
  <1>2. NoDraft \in [page : 0..MaxPages, img : Image, rows : SUBSET (Ids \X Slots)]
    BY EmptyImageType, BoundsAssumption DEF NoDraft
  <1> QED
    BY <1>1, <1>2 DEF WriterTypes, Abandon, Nothing

LEMMA StampsAreNat == Stamps \subseteq Nat
  BY BoundsAssumption DEF Stamps

\* Taking the lock and a timestamp.
LEMMA BeginTypes ==
  ASSUME TypeOK,
         NEW kind \in {"insert", "delete", "rows", "changes"}, NEW ids \in Seq(Ids),
         NEW deletes \in Nat, NEW ts \in Nat,
         Begin(kind, ids, deletes, ts)
  PROVE  /\ SharedTypes' /\ ReaderTypes'
         /\ call' \in Call /\ call'.ids = ids
         /\ UNCHANGED <<draft, unlisted, doomed, wanted>>
  <1>1. SharedTypes'
    BY DEF TypeOK, SharedTypes, Begin, Image, Pages, Location
  <1>2. ReaderTypes'
    BY ReadersUnchanged DEF TypeOK, Begin
  <1>3. call' \in Call /\ call'.ids = ids
    BY DEF Begin, Call, NoCall
  <1> QED
    BY <1>1, <1>2, <1>3 DEF Begin

LEMMA RowsAfterDeletesTypes ==
  ASSUME NEW ids \in Seq(Ids), NEW deletes \in Nat, RowsAfterDeletes(ids, deletes)
  PROVE  toClose' \subseteq DOMAIN ids /\ toPlace' \subseteq DOMAIN ids /\ wpc' = "close"
  <1>1. DOMAIN ids = 1..Len(ids) /\ Len(ids) \in Nat
    BY LenProperties
  <1>2. Smaller(deletes + 1, Len(ids)) <= Len(ids)
    BY <1>1 DEF Smaller
  <1>3. Smaller(deletes + 1, Len(ids)) \in Nat
    BY <1>1 DEF Smaller
  <1> QED
    BY <1>1, <1>2, <1>3 DEF RowsAfterDeletes

LEMMA BeginInsertTypes == TypeOK /\ BeginInsert => TypeOK'
  <1> SUFFICES ASSUME TypeOK, BeginInsert PROVE TypeOK'
    OBVIOUS
  <1> PICK id \in Ids, ts \in Stamps :
         Begin("insert", <<id>>, 0, ts) /\ RowsAfterDeletes(<<id>>, 0)
    BY DEF BeginInsert
  <1>1. <<id>> \in Seq(Ids)
    OBVIOUS
  <1>2. ts \in Nat
    BY StampsAreNat
  <1>3. /\ SharedTypes' /\ ReaderTypes'
        /\ call' \in Call /\ call'.ids = <<id>>
        /\ UNCHANGED <<draft, unlisted, doomed, wanted>>
    BY <1>1, <1>2, BeginTypes
  <1>4. toClose' \subseteq DOMAIN <<id>> /\ toPlace' \subseteq DOMAIN <<id>> /\ wpc' = "close"
    BY <1>1, RowsAfterDeletesTypes
  <1> QED
    BY <1>3, <1>4 DEF TypeOK, WriterTypes

LEMMA BeginDeleteTypes == TypeOK /\ BeginDelete => TypeOK'
  <1> SUFFICES ASSUME TypeOK, BeginDelete PROVE TypeOK'
    OBVIOUS
  <1> PICK id \in Ids, ts \in Stamps :
         Begin("delete", <<id>>, 1, ts) /\ RowsAfterDeletes(<<id>>, 1)
    BY DEF BeginDelete
  <1>1. <<id>> \in Seq(Ids)
    OBVIOUS
  <1>2. ts \in Nat
    BY StampsAreNat
  <1>3. /\ SharedTypes' /\ ReaderTypes'
        /\ call' \in Call /\ call'.ids = <<id>>
        /\ UNCHANGED <<draft, unlisted, doomed, wanted>>
    BY <1>1, <1>2, BeginTypes
  <1>4. toClose' \subseteq DOMAIN <<id>> /\ toPlace' \subseteq DOMAIN <<id>> /\ wpc' = "close"
    BY <1>1, RowsAfterDeletesTypes
  <1> QED
    BY <1>3, <1>4 DEF TypeOK, WriterTypes

LEMMA BeginBatchTypes == TypeOK /\ BeginBatch => TypeOK'
  <1> SUFFICES ASSUME TypeOK, BeginBatch PROVE TypeOK'
    OBVIOUS
  <1> PICK n \in 1..MaxBatch : \E ids \in [1..n -> Ids] : Begin("rows", ids, 0, clock + 1)
    BY DEF BeginBatch
  <1> PICK ids \in [1..n -> Ids] : Begin("rows", ids, 0, clock + 1)
    OBVIOUS
  <1>1. ids \in Seq(Ids)
    BY BoundsAssumption, IsASeq
  <1>2. clock + 1 \in Nat
    BY DEF TypeOK, SharedTypes
  <1>3. /\ SharedTypes' /\ ReaderTypes'
        /\ call' \in Call /\ call'.ids = ids
        /\ UNCHANGED <<draft, unlisted, doomed, wanted>>
    BY <1>1, <1>2, BeginTypes
  <1> QED
    BY <1>3 DEF TypeOK, WriterTypes, BeginBatch

LEMMA BeginChangesTypes == TypeOK /\ BeginChanges => TypeOK'
  <1> SUFFICES ASSUME TypeOK, BeginChanges PROVE TypeOK'
    OBVIOUS
  <1> PICK n \in 1..MaxBatch : \E ids \in [1..n -> Ids], deletes \in 0..n :
             /\ Begin("changes", ids, deletes, clock + 1)
             /\ RowsAfterDeletes(ids, deletes)
    BY DEF BeginChanges
  <1> PICK ids \in [1..n -> Ids], deletes \in 0..n :
             /\ Begin("changes", ids, deletes, clock + 1)
             /\ RowsAfterDeletes(ids, deletes)
    OBVIOUS
  <1>1. ids \in Seq(Ids) /\ deletes \in Nat
    BY BoundsAssumption, IsASeq
  <1>2. clock + 1 \in Nat
    BY DEF TypeOK, SharedTypes
  <1>3. /\ SharedTypes' /\ ReaderTypes'
        /\ call' \in Call /\ call'.ids = ids
        /\ UNCHANGED <<draft, unlisted, doomed, wanted>>
    BY <1>1, <1>2, BeginTypes
  <1>4. toClose' \subseteq DOMAIN ids /\ toPlace' \subseteq DOMAIN ids /\ wpc' = "close"
    BY <1>1, RowsAfterDeletesTypes
  <1> QED
    BY <1>3, <1>4 DEF TypeOK, WriterTypes

LEMMA StartBlockTypes == TypeOK /\ StartBlock => TypeOK'
  <1> SUFFICES ASSUME TypeOK, StartBlock PROVE TypeOK'
    OBVIOUS
  <1> DEFINE last == Smaller(call.taken + BlockSize, Len(call.ids))
             block == (call.taken + 1)..last
  <1>1. call.ids \in Seq(Ids) /\ call.taken \in Nat
    BY DEF TypeOK, WriterTypes, Call
  <1>2. DOMAIN call.ids = 1..Len(call.ids) /\ Len(call.ids) \in Nat
    BY <1>1, LenProperties
  <1>3. last \in Nat /\ last <= Len(call.ids)
    BY <1>1, <1>2, BoundsAssumption DEF Smaller
  <1>4. block \subseteq DOMAIN call.ids
    BY <1>1, <1>2, <1>3
  <1>5. call' \in Call /\ call'.ids = call.ids
    BY <1>3 DEF StartBlock, TypeOK, WriterTypes, Call
  <1>6. toClose' \subseteq block /\ toPlace' \subseteq block /\ wpc' = "close"
    BY DEF StartBlock
  <1>7. SharedTypes' /\ ReaderTypes'
    BY SharedUnchanged, ReadersUnchanged DEF TypeOK, StartBlock
  <1> QED
    BY <1>4, <1>5, <1>6, <1>7 DEF TypeOK, WriterTypes, StartBlock

\* Steps that end a call, whatever it had done.
LEMMA RefuseTypes == TypeOK /\ RefuseBlock => TypeOK'
  BY AbandonTypes, SharedUnchanged, ReadersUnchanged DEF TypeOK, RefuseBlock

LEMMA ThrowTypes == TypeOK /\ Throw => TypeOK'
  BY AbandonTypes, SharedUnchanged, ReadersUnchanged DEF TypeOK, Throw

LEMMA CloseTypes == TypeOK /\ Close => TypeOK'
  <1> SUFFICES ASSUME TypeOK, Close PROVE TypeOK'
    OBVIOUS
  <1> USE DEF TypeOK
  <1> PICK k \in toClose :
        LET id == call.ids[k] IN
          \/ /\ OpenAt(id) = {}
             /\ IF k \in toPlace THEN AfterClose(k) ELSE Abandon
             /\ UNCHANGED <<image, retired>>
          \/ \E l \in OpenAt(id) :
               /\ image' = [image EXCEPT ![l[1]] = Closed(@, l[2], call.ts)]
               /\ retired' = Append(retired, [end |-> call.ts, id |-> id,
                                              begin |-> image[l[1]][l[2]].begin])
               /\ AfterClose(k)
    BY DEF Close
  <1> DEFINE id == call.ids[k]
  <1>1. id \in Ids /\ call.ts \in Nat
    BY LenProperties DEF WriterTypes, Call
  <1>2. ReaderTypes'
    BY ReadersUnchanged DEF Close
  <1>3. AfterClose(k) => WriterTypes'
    BY DEF AfterClose, WriterTypes
  <1>4. CASE OpenAt(id) = {} /\ UNCHANGED <<image, retired>>
    <2>1. SharedTypes'
      BY <1>4, SharedUnchanged DEF Close, writer_shared
    <2>2. WriterTypes'
      BY <1>3, <1>4, AbandonTypes DEF OpenAt
    <2> QED
      BY <1>2, <2>1, <2>2
  <1>5. ASSUME NEW l \in OpenAt(id),
               image' = [image EXCEPT ![l[1]] = Closed(@, l[2], call.ts)],
               retired' = Append(retired, [end |-> call.ts, id |-> id,
                                           begin |-> image[l[1]][l[2]].begin]),
               AfterClose(k)
        PROVE  TypeOK'
    <2>1. l[1] \in Pages /\ l[2] \in Slots /\ image[l[1]][l[2]] # Free
      BY <1>1 DEF OpenAt, SharedTypes, Location, IsOpen
    <2>2. image[l[1]] \in Image /\ image[l[1]][l[2]].begin \in Nat
      BY <2>1 DEF SharedTypes, Image, Version
    <2>3. Closed(image[l[1]], l[2], call.ts) \in Image
      BY <1>1, <2>1, <2>2, ClosedType
    <2>4. image' \in [Pages -> Image]
      BY <1>5, <2>1, <2>3 DEF SharedTypes
    <2>5. retired' \in Seq(Retired)
      BY <1>1, <1>5, <2>2, AppendProperties DEF SharedTypes, Retired
    <2>6. SharedTypes'
      BY <2>4, <2>5 DEF SharedTypes, Close
    <2> QED
      BY <1>2, <1>3, <1>5, <2>6
  <1> QED
    BY <1>4, <1>5
LEMMA FirstPageTypes == TypeOK /\ FirstPage => TypeOK'
  <1> SUFFICES ASSUME TypeOK, FirstPage PROVE TypeOK'
    OBVIOUS
  <1>1. directory' \subseteq Pages /\ nextPage' \in 1..(MaxPages + 1)
    BY BoundsAssumption DEF FirstPage, TypeOK, SharedTypes, Pages
  <1>2. SharedTypes'
    BY <1>1 DEF TypeOK, SharedTypes, FirstPage
  <1> QED
    BY <1>2, WriterUnchanged, ReadersUnchanged DEF TypeOK, FirstPage

\* A row put into the clone of a page.
LEMMA FillTypes ==
  ASSUME TypeOK, NEW p \in Pages, NEW img \in Image, NEW rows \in SUBSET (Ids \X Slots),
         Fill(p, img, rows)
  PROVE  TypeOK'
  <1> USE DEF TypeOK
  <1> DEFINE cell(k) == [id |-> call.ids[k], begin |-> call.ts, end |-> MAX_TS,
                         vec |-> <<call.ts, k>>]
  <1> PICK k \in toPlace, s \in FreeSlots(img) :
        /\ draft' = [page |-> p, img |-> Filled(img, s, cell(k)),
                     rows |-> rows \cup {<<call.ids[k], s>>}]
        /\ store' = [store EXCEPT ![p][s] = <<call.ts, k>>]
        /\ toPlace' = toPlace \ {k}
        /\ wpc' = "filled"
        /\ UNCHANGED <<image, directory, nextPage, locations, retired, clock, committed,
                       horizon, history, call, toClose, unlisted, doomed, wanted, reader_vars>>
    BY DEF Fill
  <1>1. call.ids[k] \in Ids /\ call.ts \in Nat /\ k \in Nat /\ s \in Slots
    BY LenProperties DEF WriterTypes, Call, FreeSlots
  <1>2. cell(k) \in Version
    BY <1>1, MaxTsAssumption DEF Version, Vec
  <1>3. Filled(img, s, cell(k)) \in Image
    BY <1>1, <1>2, FilledType
  <1>4. draft' \in [page : 0..MaxPages, img : Image, rows : SUBSET (Ids \X Slots)]
    BY <1>1, <1>3 DEF Pages
  <1>5. WriterTypes'
    BY <1>4 DEF WriterTypes
  <1>6. store' \in [Pages -> [Slots -> Vec]]
    BY <1>1 DEF SharedTypes, Vec
  <1>7. SharedTypes'
    BY <1>6 DEF SharedTypes
  <1> QED
    BY <1>5, <1>7, ReadersUnchanged

LEMMA PlaceTypes == TypeOK /\ Place => TypeOK'
  <1> SUFFICES ASSUME TypeOK, Place PROVE TypeOK'
    OBVIOUS
  <1> PICK p \in directory : Fill(p, image[p], {})
    BY DEF Place
  <1>1. p \in Pages /\ image[p] \in Image
    BY DEF TypeOK, SharedTypes
  <1> QED
    BY <1>1, FillTypes

LEMMA PlaceMoreTypes == TypeOK /\ PlaceMore => TypeOK'
  <1> SUFFICES ASSUME TypeOK, PlaceMore PROVE TypeOK'
    OBVIOUS
  <1>1. draft.page \in Pages /\ draft.img \in Image /\ draft.rows \in SUBSET (Ids \X Slots)
    BY DEF TypeOK, WriterTypes, PlaceMore
  <1> QED
    BY <1>1, FillTypes DEF PlaceMore

LEMMA PublishTypes == TypeOK /\ Publish => TypeOK'
  <1> SUFFICES ASSUME TypeOK, Publish PROVE TypeOK'
    OBVIOUS
  <1> USE DEF TypeOK
  <1>1. draft.page \in Pages /\ draft.img \in Image /\ draft.rows \subseteq Ids \X Slots
    BY DEF WriterTypes, Publish
  <1>2. image' \in [Pages -> Image]
    BY <1>1 DEF SharedTypes, Publish
  <1>3. NoDraft \in [page : 0..MaxPages, img : Image, rows : SUBSET (Ids \X Slots)]
    BY EmptyImageType, BoundsAssumption DEF NoDraft
  <1>4. AfterRows \in {"place", "block", "consolidate", "commit"}
    BY DEF AfterRows
  <1>5. CASE call.kind = "rounds"
    <2>1. unlisted' \subseteq Ids \X Pages \X Slots
      BY <1>1, <1>5 DEF WriterTypes, Publish
    <2> QED
      BY <1>2, <1>3, <1>5, <2>1, ReadersUnchanged DEF SharedTypes, WriterTypes, Publish
  <1>6. CASE call.kind # "rounds"
    <2>1. \A id \in Ids : Rows(draft.page, id, draft.rows) \subseteq Location
      BY <1>1 DEF Rows, Location
    <2>2. locations' \in [Ids -> SUBSET Location]
      BY <1>6, <2>1 DEF SharedTypes, Publish
    <2>3. wpc' \in {"close", "place", "block", "consolidate", "commit"}
      BY <1>4, <1>6 DEF Publish
    <2> QED
      BY <1>2, <1>3, <1>6, <2>2, <2>3, ReadersUnchanged DEF SharedTypes, WriterTypes, Publish
  <1> QED
    BY <1>5, <1>6

LEMMA ListTypes == TypeOK /\ List => TypeOK'
  <1> SUFFICES ASSUME TypeOK, List PROVE TypeOK'
    OBVIOUS
  <1> USE DEF TypeOK
  <1>1. \A id \in Ids : {<<x[2], x[3]>> : x \in {y \in unlisted : y[1] = id}} \subseteq Location
    BY DEF WriterTypes, Location
  <1>2. locations' \in [Ids -> SUBSET Location]
    BY <1>1 DEF SharedTypes, List
  <1>3. wpc' \in {"place", "block", "consolidate", "commit"}
    BY DEF AfterRows, List
  <1> QED
    BY <1>2, <1>3, ReadersUnchanged DEF SharedTypes, WriterTypes, List

\* The locations after the directory was rebuilt.
LEMMA RelocatedType ==
  ASSUME SharedTypes, NEW old, NEW new \in SUBSET Pages, NEW img
  PROVE  Relocated(old, new, img) \in [Ids -> SUBSET Location]
  BY DEF SharedTypes, Relocated, HoldersOf, Location

LEMMA SplitTypes == TypeOK /\ Split => TypeOK'
  <1> SUFFICES ASSUME TypeOK, Split PROVE TypeOK'
    OBVIOUS
  <1> USE DEF TypeOK
  <1> DEFINE a == nextPage
             b == nextPage + 1
  <1> PICK p \in directory : \E L \in SUBSET Occupied(image[p]) :
        LET R == Occupied(image[p]) \ L
        IN /\ FreeSlots(image[p]) = {} /\ L # {} /\ R # {}
           /\ image' = [image EXCEPT ![a] = Half(image[p], L), ![b] = Half(image[p], R)]
           /\ store' = [store EXCEPT ![a] = store[p], ![b] = store[p]]
           /\ directory' = (directory \ {p}) \cup {a, b}
           /\ locations' = Relocated({p}, {a, b}, image')
    BY DEF Split
  <1> PICK L \in SUBSET Occupied(image[p]) :
           /\ image' = [image EXCEPT ![a] = Half(image[p], L),
                                     ![b] = Half(image[p], Occupied(image[p]) \ L)]
           /\ store' = [store EXCEPT ![a] = store[p], ![b] = store[p]]
           /\ directory' = (directory \ {p}) \cup {a, b}
           /\ locations' = Relocated({p}, {a, b}, image')
    OBVIOUS
  <1>1. p \in Pages /\ a \in Pages /\ b \in Pages /\ nextPage + 2 \in 1..(MaxPages + 1)
    BY BoundsAssumption DEF SharedTypes, Pages, Split
  <1>2. image[p] \in Image /\ L \in SUBSET Slots /\ Occupied(image[p]) \ L \in SUBSET Slots
    BY <1>1 DEF SharedTypes, Occupied
  <1>3. image' \in [Pages -> Image]
    BY <1>1, <1>2, HalfType DEF SharedTypes
  <1>4. store' \in [Pages -> [Slots -> Vec]]
    BY <1>1 DEF SharedTypes
  <1>5. locations' \in [Ids -> SUBSET Location]
    BY <1>1, RelocatedType
  <1>6. SharedTypes'
    BY <1>1, <1>3, <1>4, <1>5 DEF SharedTypes, Split
  <1> QED
    BY <1>6, WriterUnchanged, ReadersUnchanged DEF Split

\* What a commit adds to the history.
LEMMA CommitTypes == TypeOK /\ Commit => TypeOK'
  <1> SUFFICES ASSUME TypeOK, Commit PROVE TypeOK'
    OBVIOUS
  <1> USE DEF TypeOK
  <1>1. call.ts \in Nat /\ call.deletes \in Nat /\ call.ids \in Seq(Ids)
    BY DEF WriterTypes, Call
  <1>2. \A h \in SUBSET Version : \A gone : Abstract!EndedAt(h, gone, call.ts) \subseteq Version
    BY <1>1 DEF Abstract!EndedAt, Version
  <1>3. \A k \in DOMAIN Written : Written[k] \in Ids /\ <<call.ts, k>> \in Vec
    BY <1>1, LenProperties DEF Written, Vec
  <1>4. \A h \in SUBSET Version : Abstract!Upserted(h, Written, call.ts) \subseteq Version
    BY <1>1, <1>2, <1>3, MaxTsAssumption DEF Abstract!Upserted, Abstract!Winners, Version
  <1>5. history' \subseteq Version
    BY <1>2, <1>4 DEF SharedTypes, Commit
  <1>6. SharedTypes'
    BY <1>1, <1>5 DEF SharedTypes, Commit
  <1> QED
    BY <1>6, AbandonTypes, ReadersUnchanged DEF Commit

\* What vacuum reads from the queue.
LEMMA RetiredTypes ==
  ASSUME SharedTypes, NEW j \in 1..Len(retired)
  PROVE  /\ retired[j] \in Retired /\ StampOf(retired[j]) \in Nat \X Nat
         /\ Holders(retired[j]) \subseteq Pages
  <1>1. retired[j] \in Retired
    BY LenProperties DEF SharedTypes
  <1>2. StampOf(retired[j]) \in Nat \X Nat
    BY <1>1 DEF Retired, StampOf
  <1>3. Holders(retired[j]) \subseteq Pages
    BY <1>1 DEF SharedTypes, Retired, Holders, Location
  <1> QED
    BY <1>1, <1>2, <1>3

LEMMA VacuumTypes == TypeOK /\ Vacuum => TypeOK'
  <1> SUFFICES ASSUME TypeOK, Vacuum PROVE TypeOK'
    OBVIOUS
  <1> USE DEF TypeOK
  <1> PICK oldest \in 1..(committed + 1), budget \in Budgets, n \in 0..Len(retired) :
        /\ \E at \in [Met(n) -> UNION {Holders(retired[j]) : j \in Met(n)}] :
             doomed' = [p \in Pages |-> {StampOf(retired[j]) :
                                           j \in {i \in Met(n) : at[i] = p}}]
        /\ retired' = SubSeq(retired, n + 1, Len(retired))
        /\ horizon' = IF oldest > horizon THEN oldest ELSE horizon
        /\ call' = [NoCall EXCEPT !.kind = "vacuum", !.ts = oldest, !.budget = budget]
        /\ wpc' = IF Met(n) = {} THEN "consolidate" ELSE "reclaim"
    BY DEF Vacuum
  <1>1. Len(retired) \in Nat /\ DOMAIN retired = 1..Len(retired)
    BY LenProperties DEF SharedTypes
  <1>2. doomed' \in [Pages -> SUBSET (Nat \X Nat)]
    BY <1>1, RetiredTypes DEF Met
  <1>3. retired' \in Seq(Retired)
    <2>1. \A i \in (n + 1)..Len(retired) : retired[i] \in Retired
      BY <1>1, RetiredTypes
    <2> QED
      BY <1>1, <2>1, SubSeqProperties
  <1>4. horizon' \in Nat /\ oldest \in Nat /\ budget \in Nat
    BY BoundsAssumption DEF SharedTypes
  <1>5. call' \in Call /\ call'.ids = <<>>
    <2>1. NoCall \in Call /\ NoCall.ids = <<>>
      BY DEF Call, NoCall
    <2> QED
      BY <1>4, <2>1 DEF Call
  <1>6. SharedTypes'
    BY <1>3, <1>4 DEF SharedTypes, Vacuum
  <1>7. toClose = {} /\ toPlace = {}
    BY DEF WriterTypes, Vacuum, NoCall
  <1>8. WriterTypes'
    BY <1>2, <1>5, <1>7 DEF WriterTypes, Vacuum
  <1> QED
    BY <1>6, <1>8, ReadersUnchanged DEF Vacuum

LEMMA ReclaimTypes == TypeOK /\ Reclaim => TypeOK'
  <1> SUFFICES ASSUME TypeOK, Reclaim PROVE TypeOK'
    OBVIOUS
  <1> USE DEF TypeOK
  <1> PICK p \in Pages : /\ image' = [image EXCEPT ![p] = Cleared(@, doomed[p])]
                         /\ doomed' = [doomed EXCEPT ![p] = {}]
    BY DEF Reclaim
  <1>1. image' \in [Pages -> Image]
    BY ClearedType DEF SharedTypes
  <1>2. doomed' \in [Pages -> SUBSET (Nat \X Nat)]
    BY DEF WriterTypes
  <1> QED
    BY <1>1, <1>2, ReadersUnchanged DEF SharedTypes, WriterTypes, Reclaim

\* The counts consolidation works with are natural numbers.
LEMMA CountTypes ==
  ASSUME SharedTypes
  PROVE  /\ \A P \in SUBSET Pages : IsFiniteSet(P) /\ Cardinality(P) \in Nat
         /\ \A P \in SUBSET Pages : IsFiniteSet(Cells(P)) /\ Cardinality(Cells(P)) \in Nat
         /\ Capacity \in Nat \ {0}
         /\ AllowedPages \in Int
  <1>1. IsFiniteSet(Pages)
    BY BoundsAssumption, FS_Interval DEF Pages
  <1>2. \A P \in SUBSET Pages : IsFiniteSet(P) /\ Cardinality(P) \in Nat
    BY <1>1, FS_Subset, FS_CardinalityType
  <1>3. ASSUME NEW P \in SUBSET Pages
        PROVE  IsFiniteSet(Cells(P)) /\ Cardinality(Cells(P)) \in Nat
    <2>1. IsFiniteSet(P \X Slots)
      BY <1>2, SlotsAssumption, FS_Product
    <2>2. Cells(P) \in SUBSET (P \X Slots)
      BY DEF Cells
    <2> QED
      BY <2>1, <2>2, FS_Subset, FS_CardinalityType
  <1>4. Capacity \in Nat \ {0}
    BY SlotsAssumption, FS_CardinalityType, FS_EmptySet DEF Capacity
  <1>5. AllowedPages \in Int
    <2>1. Cardinality(Cells(directory)) \in Nat
      BY <1>3 DEF SharedTypes
    <2> QED
      BY <1>4, <2>1 DEF AllowedPages
  <1> QED
    BY <1>2, <1>3, <1>4, <1>5

LEMMA ConsolidateTypes == TypeOK /\ Consolidate => TypeOK'
  <1> SUFFICES ASSUME TypeOK, Consolidate PROVE TypeOK'
    OBVIOUS
  <1> USE DEF TypeOK
  <1>1. Cardinality(directory) \in Nat /\ AllowedPages \in Int
    BY CountTypes DEF SharedTypes
  <1>2. wanted' \in Nat
    BY <1>1, BoundsAssumption DEF Smaller, Consolidate
  <1>3. locations' \in [Ids -> SUBSET Location]
    BY DEF SharedTypes, Consolidate
  <1> QED
    BY <1>2, <1>3, ReadersUnchanged DEF SharedTypes, WriterTypes, Consolidate

LEMMA StopMergingTypes == TypeOK /\ StopMerging => TypeOK'
  <1> SUFFICES ASSUME TypeOK, StopMerging PROVE TypeOK'
    OBVIOUS
  <1>1. CASE call.kind = "vacuum"
    BY <1>1, AbandonTypes, SharedUnchanged, ReadersUnchanged DEF TypeOK, StopMerging
  <1>2. CASE call.kind # "vacuum"
    BY <1>2, SharedUnchanged, ReadersUnchanged DEF TypeOK, WriterTypes, StopMerging
  <1> QED
    BY <1>1, <1>2

\* The image and the store of a merged page: each slot is copied from a cell
\* of the group, or is free.
LEMMA MergedTypes ==
  ASSUME SharedTypes, NEW P \in SUBSET Pages
  PROVE  MergedImage(P) \in Image /\ MergedStore(P) \in [Slots -> Vec]
  <1>1. ASSUME NEW s \in Slots, Sources(P, s) # {}
        PROVE  Source(P, s) \in Location
    <2>1. Sources(P, s) \subseteq Location
      BY DEF Sources, Cells, Location
    <2>2. Source(P, s) \in Sources(P, s)
      BY <1>1 DEF Source
    <2> QED
      BY <2>1, <2>2
  <1>2. \A c \in Location : image[c[1]][c[2]] \in Version \cup {Free} /\ store[c[1]][c[2]] \in Vec
    BY DEF SharedTypes, Image, Location
  <1>3. MergedImage(P) \in Image
    BY <1>1, <1>2 DEF MergedImage, Image
  <1>4. NoPayload \in Vec
    BY DEF NoPayload, Vec
  <1>5. MergedStore(P) \in [Slots -> Vec]
    BY <1>1, <1>2, <1>4 DEF MergedStore
  <1> QED
    BY <1>3, <1>5

LEMMA MergeManyTypes == TypeOK /\ MergeMany => TypeOK'
  <1> SUFFICES ASSUME TypeOK, MergeMany PROVE TypeOK'
    OBVIOUS
  <1> USE DEF TypeOK
  <1> PICK D \in SUBSET EmptyPages, m \in 0..(MaxPages + 1 - nextPage) :
        \E g \in Groups(m) : Merge(D, m, g)
    BY DEF MergeMany
  <1> PICK g \in Groups(m) : Merge(D, m, g)
    OBVIOUS
  <1> DEFINE new == nextPage..(nextPage + m - 1)
             gone == D \cup {p \in DOMAIN g : g[p] # 0}
  <1>1. m \in Nat /\ nextPage + m \in 1..(MaxPages + 1) /\ new \subseteq Pages
    BY BoundsAssumption DEF SharedTypes, Pages
  <1>2. DOMAIN g \subseteq Pages /\ D \subseteq Pages
    BY DEF Groups, EmptyPages, SharedTypes
  <1>3. \A k : Group(g, k) \subseteq Pages
    BY <1>2 DEF Group
  <1>4. image' \in [Pages -> Image]
    BY <1>3, MergedTypes DEF Merge, SharedTypes
  <1>5. store' \in [Pages -> [Slots -> Vec]]
    BY <1>3, MergedTypes DEF Merge, SharedTypes
  <1>6. directory' \subseteq Pages
    BY <1>1 DEF Merge, SharedTypes
  <1>7. locations' \in [Ids -> SUBSET Location]
    BY <1>1, RelocatedType DEF Merge
  <1>8. wanted' \in Nat
    <2>1. gone \in SUBSET Pages
      BY <1>2
    <2>2. Cardinality(gone) - m \in Int
      BY <1>1, <2>1, CountTypes
    <2> QED
      BY <2>2, BoundsAssumption DEF Merge, Minus, WriterTypes
  <1>9. SharedTypes'
    BY <1>1, <1>4, <1>5, <1>6, <1>7 DEF SharedTypes, MergeMany, Merge
  <1> QED
    BY <1>8, <1>9, ReadersUnchanged DEF WriterTypes, MergeMany

\* The steps of a search.
LEMMA ReaderStepTypes ==
  ASSUME TypeOK, NEW r \in Readers, Reader(r)
  PROVE  TypeOK'
  <1> USE DEF TypeOK
  <1>1. CASE Pin(r)
    <2>1. asked' \in [Readers -> [since : Nat, at : Nat]]
      BY <1>1 DEF Pin, ReaderTypes, SharedTypes
    <2>2. UNCHANGED <<snap, left, held, found>> /\ rpc' = [rpc EXCEPT ![r] = "pinned"]
      BY <1>1 DEF Pin
    <2>3. own' \in [Readers -> Nat] /\ pin' \in [Readers -> Nat]
      BY <1>1 DEF Pin, ReaderTypes
    <2>4. ReaderTypes'
      BY <2>1, <2>2, <2>3 DEF ReaderTypes
    <2> QED
      BY <1>1, <2>4, SharedUnchanged, WriterUnchanged DEF Pin
  <1>2. CASE Resolve(r)
    BY <1>2, SharedUnchanged, WriterUnchanged DEF Resolve, ReaderTypes, SharedTypes, LatestSnapshot
  <1>3. CASE Refine(r)
    BY <1>3, SharedUnchanged, WriterUnchanged DEF Refine, ReaderTypes
  <1>4. CASE Drain(r)
    BY <1>4, SharedUnchanged, WriterUnchanged DEF Drain, ReaderTypes
  <1>5. CASE LoadDirectory(r)
    BY <1>5, SharedUnchanged, WriterUnchanged DEF LoadDirectory, ReaderTypes, SharedTypes
  <1>6. CASE LoadImage(r)
    <2> PICK p \in left[r] :
          /\ held' = [held EXCEPT ![r] = [page |-> p, img |-> image[p]]]
          /\ left' = [left EXCEPT ![r] = Remaining(@, p)]
      BY <1>6 DEF LoadImage
    <2>1. p \in Pages /\ p \in 0..MaxPages /\ image[p] \in Image
      BY DEF ReaderTypes, SharedTypes, Pages
    <2>2. ReaderTypes'
      BY <1>6, <2>1 DEF LoadImage, Remaining, ReaderTypes
    <2> QED
      BY <1>6, <2>2, SharedUnchanged, WriterUnchanged DEF LoadImage
  <1>7. CASE Scan(r)
    <2> DEFINE p == held[r].page
               img == held[r].img
               seen == {[id |-> img[s].id, vec |-> store[p][s]] :
                          s \in {t \in Slots : Visible(img[t], snap[r])}}
    <2>1. ASSUME NEW s \in Slots, Visible(img[s], snap[r])
          PROVE  img[s].id \in Ids /\ store[p][s] \in Vec
      <3>1. img \in Image /\ p \in Pages
        BY <1>7 DEF ReaderTypes, Scan
      <3> QED
        BY <2>1, <3>1 DEF Image, Version, Visible, SharedTypes
    <2>2. seen \subseteq [id : Ids, vec : Vec]
      BY <2>1
    <2>3. NoImage \in [page : 0..MaxPages, img : Image]
      BY EmptyImageType, BoundsAssumption DEF NoImage
    <2>4. ReaderTypes'
      BY <1>7, <2>2, <2>3 DEF Scan, ReaderTypes
    <2> QED
      BY <1>7, <2>4, SharedUnchanged, WriterUnchanged DEF Scan
  <1>8. CASE Unpin(r)
    BY <1>8, SharedUnchanged, WriterUnchanged, MaxTsAssumption
    DEF Unpin, ReaderTypes, NotAsked, Unpinned
  <1> QED
    BY <1>1, <1>2, <1>3, <1>4, <1>5, <1>6, <1>7, <1>8 DEF Reader

LEMMA StepTypes == TypeOK /\ [Next]_vars => TypeOK'
  <1> SUFFICES ASSUME TypeOK, [Next]_vars PROVE TypeOK'
    OBVIOUS
  <1>1. CASE Writer
    BY <1>1, BeginInsertTypes, BeginDeleteTypes, BeginBatchTypes, BeginChangesTypes,
       StartBlockTypes, RefuseTypes, CloseTypes, FirstPageTypes, PlaceTypes, PlaceMoreTypes,
       PublishTypes, ListTypes, SplitTypes, CommitTypes, ThrowTypes, VacuumTypes,
       ReclaimTypes, ConsolidateTypes, MergeManyTypes, StopMergingTypes DEF Writer
  <1>2. CASE \E r \in Readers : Reader(r)
    BY <1>2, ReaderStepTypes
  <1>3. CASE UNCHANGED vars
    BY <1>3, SharedUnchanged, WriterUnchanged, ReadersUnchanged DEF TypeOK, vars
  <1> QED
    BY <1>1, <1>2, <1>3 DEF Next

\* Type correctness, for any number of readers, pages, slots and rows, and
\* whatever a build buffers or a caller is refused: no step of a write, a
\* vacuum or a search names a page, slot or row that does not exist.
THEOREM TypeCorrect == Spec => []TypeOK
  <1>1. Init => TypeOK
    BY InitTypes
  <1>2. TypeOK /\ [Next]_vars => TypeOK'
    BY StepTypes
  <1> QED
    BY <1>1, <1>2, PTL DEF Spec

-----------------------------------------------------------------------------
(* No slot is reused under a search, when a pin is visible as soon as it   *)
(* is stored: SlotInv is inductive and implies SlotSafe.                   *)


LEMMA InitSlots == Init => SlotInv
  <1> SUFFICES ASSUME Init PROVE SlotInv
    OBVIOUS
  <1> USE DEF Init
  <1>1. Timestamps
    BY DEF Timestamps, InWrite
  <1>2. Snapshots /\ Pins /\ Numbered
    BY DEF Snapshots, Pins, Numbered, NotAsked
  <1>3. StoreMatches /\ DraftExtends
    BY DEF StoreMatches, DraftExtends, EmptyImage
  <1>4. DoomedIsPast
    BY DEF DoomedIsPast, Nothing
  <1>5. HeldSurvives
    BY DEF HeldSurvives
  <1> QED
    BY <1>1, <1>2, <1>3, <1>4, <1>5 DEF SlotInv

\* A writer's step that publishes no image, and leaves nothing doomed unless
\* it is in the middle of a vacuum.
LEMMA QuietStep ==
  ASSUME TypeOK, SlotInv, Timestamps',
         UNCHANGED <<image, store, directory, nextPage, committed, horizon, reader_vars>>,
         doomed' = Nothing \/ (doomed' = doomed /\ wpc = wpc'),
         wpc' # "filled"
  PROVE  SlotInv'
  <1> USE DEF SlotInv
  <1>1. Snapshots' /\ Pins' /\ Numbered'
    BY DEF Snapshots, Pins, Numbered, reader_vars
  <1>2. StoreMatches' /\ DraftExtends'
    BY DEF StoreMatches, DraftExtends
  <1>3. DoomedIsPast'
    BY DEF DoomedIsPast, Nothing, reader_vars
  <1>4. HeldSurvives'
    BY DEF HeldSurvives, Nothing, Matches, reader_vars, TypeOK, ReaderTypes
  <1> QED
    BY <1>1, <1>2, <1>3, <1>4

LEMMA BeginSlots ==
  ASSUME TypeOK, SlotInv,
         NEW kind \in {"insert", "delete", "rows", "changes"}, NEW ids, NEW deletes,
         NEW ts \in Nat, clock <= ts, Begin(kind, ids, deletes, ts), wpc' # "filled"
  PROVE  SlotInv'
  <1>1. Timestamps'
    BY DEF TypeOK, SharedTypes, SlotInv, Timestamps, Begin, NoCall
  <1>2. doomed' = Nothing
    BY DEF SlotInv, DoomedIsPast, Begin
  <1> QED
    BY <1>1, <1>2, QuietStep DEF Begin

LEMMA StampsAhead == 
  ASSUME TypeOK, NEW ts \in Stamps
  PROVE  ts \in Nat /\ clock <= ts
  BY BoundsAssumption DEF Stamps, TypeOK, SharedTypes

LEMMA BeginsSlots ==
  TypeOK /\ SlotInv /\ (BeginInsert \/ BeginDelete \/ BeginBatch \/ BeginChanges) => SlotInv'
  <1> SUFFICES ASSUME TypeOK, SlotInv PROVE
        (BeginInsert \/ BeginDelete \/ BeginBatch \/ BeginChanges) => SlotInv'
    OBVIOUS
  <1>0. clock + 1 \in Nat /\ clock <= clock + 1
    BY DEF TypeOK, SharedTypes
  <1>1. CASE BeginInsert
    BY <1>1, StampsAhead, BeginSlots DEF BeginInsert, RowsAfterDeletes
  <1>2. CASE BeginDelete
    BY <1>2, StampsAhead, BeginSlots DEF BeginDelete, RowsAfterDeletes
  <1>3. CASE BeginBatch
    BY <1>0, <1>3, BeginSlots DEF BeginBatch
  <1>4. CASE BeginChanges
    BY <1>0, <1>4, BeginSlots DEF BeginChanges, RowsAfterDeletes
  <1> QED
    BY <1>1, <1>2, <1>3, <1>4

\* A step within a call keeps the order of the timestamps.
LEMMA SameCall ==
  ASSUME SlotInv, UNCHANGED <<clock, committed>>, call'.ts = call.ts, InWrite' => InWrite
  PROVE  Timestamps'
  BY DEF SlotInv, Timestamps

LEMMA EndOfCall ==
  ASSUME TypeOK, SlotInv, Abandon, UNCHANGED writer_shared, UNCHANGED reader_vars
  PROVE  SlotInv'
  <1>1. Timestamps'
    BY DEF SlotInv, Timestamps, InWrite, Abandon, writer_shared
  <1> QED
    BY <1>1, QuietStep DEF Abandon, writer_shared

LEMMA QuietSlots ==
  ASSUME TypeOK, SlotInv,
         StartBlock \/ RefuseBlock \/ List \/ Throw \/ Consolidate \/ StopMerging
  PROVE  SlotInv'
  <1>1. CASE StartBlock
    <2>1. call'.ts = call.ts
      BY <1>1 DEF StartBlock, TypeOK, WriterTypes, Call
    <2>2. Timestamps'
      BY <1>1, <2>1, SameCall DEF StartBlock, InWrite, writer_shared
    <2> QED
      BY <1>1, <2>2, QuietStep DEF StartBlock, SlotInv, DoomedIsPast, writer_shared
  <1>2. CASE RefuseBlock
    BY <1>2, EndOfCall DEF RefuseBlock
  <1>3. CASE List
    <2>1. wpc' \in {"place", "block", "consolidate", "commit"}
      BY <1>3 DEF AfterRows, List
    <2>2. Timestamps'
      BY <1>3, <2>1, SameCall DEF List, InWrite
    <2> QED
      BY <1>3, <2>1, <2>2, QuietStep DEF List, SlotInv, DoomedIsPast
  <1>4. CASE Throw
    BY <1>4, EndOfCall DEF Throw
  <1>5. CASE Consolidate
    <2>1. Timestamps'
      BY <1>5, SameCall DEF Consolidate, InWrite
    <2> QED
      BY <1>5, <2>1, QuietStep DEF Consolidate, SlotInv, DoomedIsPast
  <1>6. CASE StopMerging
    <2>1. CASE call.kind = "vacuum"
      BY <1>6, <2>1, EndOfCall DEF StopMerging
    <2>2. CASE call.kind # "vacuum"
      <3>1. Timestamps'
        BY <1>6, <2>2, SameCall DEF StopMerging, InWrite, writer_shared
      <3> QED
        BY <1>6, <2>2, <3>1, QuietStep DEF StopMerging, SlotInv, DoomedIsPast, writer_shared
    <2> QED
      BY <2>1, <2>2
  <1> QED
    BY <1>1, <1>2, <1>3, <1>4, <1>5, <1>6

-----------------------------------------------------------------------------
(* Steps that publish an image.                                            *)

\* No search is affected by what happens to fields it does not read.
LEMMA SearchesUnchanged ==
  ASSUME SlotInv, UNCHANGED reader_vars, committed' = committed, nextPage' >= nextPage,
         nextPage \in Nat, nextPage' \in Nat,
         directory' = directory \/ (\A p \in directory' : p < nextPage'),
         TypeOK
  PROVE  Snapshots' /\ Pins' /\ Numbered'
  <1>1. Snapshots' /\ Pins'
    BY DEF SlotInv, Snapshots, Pins, reader_vars
  <1>2. \A p \in directory' : p < nextPage'
    <2>0. \A p \in directory : p \in Nat
      BY DEF TypeOK, SharedTypes, Pages
    <2>1. \A p \in directory : p < nextPage /\ p \in Nat
      BY <2>0 DEF SlotInv, Numbered
    <2> QED
      BY <2>1
  <1>3. ASSUME NEW r \in Readers
        PROVE  /\ \A p \in left'[r] : p < nextPage'
               /\ rpc'[r] = "held" => held'[r].page \in 1..(nextPage' - 1)
    <2>0. \A p \in left[r] : p \in Nat
      BY DEF TypeOK, ReaderTypes, Pages
    <2>1. \A p \in left[r] : p < nextPage /\ p \in Nat
      BY <2>0 DEF SlotInv, Numbered
    <2>2. rpc[r] = "held" => held[r].page \in 1..(nextPage - 1)
      BY DEF SlotInv, Numbered
    <2> QED
      BY <2>1, <2>2 DEF reader_vars
  <1> QED
    BY <1>1, <1>2, <1>3 DEF Numbered

\* What a search holds survives when the new image keeps the versions of the
\* old one, or closes them no earlier than the last commit.
LEMMA KeptOrClosed ==
  ASSUME TypeOK, SlotInv, UNCHANGED <<reader_vars, doomed>>, wpc # "reclaim",
         \A p \in Pages : p < nextPage => \A s \in Slots : image[p][s] # Free =>
           /\ image'[p][s] # Free /\ SameVersion(image'[p][s], image[p][s])
           /\ \/ image'[p][s].end = image[p][s].end
              \/ image'[p][s].end \in Nat /\ committed <= image'[p][s].end
  PROVE  HeldSurvives'
  <1> SUFFICES ASSUME NEW r \in Readers, rpc[r] = "held", NEW s \in Slots,
                      Visible(held[r].img[s], snap[r])
               PROVE  LET cell == image'[held[r].page][s] IN
                        /\ cell # Free
                        /\ SameVersion(cell, held[r].img[s])
                        /\ snap[r] <= cell.end
                        /\ ~Matches(cell, doomed'[held[r].page])
    BY DEF HeldSurvives, reader_vars
  <1> DEFINE p == held[r].page
  <1>1. p \in Pages /\ p < nextPage
    BY DEF SlotInv, Numbered, TypeOK, ReaderTypes, SharedTypes
  <1>2. /\ image[p][s] # Free /\ SameVersion(image[p][s], held[r].img[s])
        /\ snap[r] <= image[p][s].end
    BY DEF SlotInv, HeldSurvives
  <1>3. snap[r] <= committed /\ snap[r] \in Nat /\ committed \in Nat
    BY DEF SlotInv, Snapshots, TypeOK, SharedTypes, ReaderTypes
  <1>4. doomed'[p] = {}
    BY <1>1 DEF SlotInv, DoomedIsPast, Nothing
  <1> QED
    BY <1>1, <1>2, <1>3, <1>4 DEF SameVersion, Matches

\* The conjunct about vacuum holds of a step outside it.
LEMMA NothingDoomed ==
  ASSUME SlotInv, UNCHANGED <<reader_vars, doomed>>, committed' = committed,
         wpc # "reclaim", wpc' # "reclaim"
  PROVE  DoomedIsPast'
  BY DEF SlotInv, DoomedIsPast, Nothing

LEMMA CloseSlots == TypeOK /\ SlotInv /\ Close => SlotInv'
  <1> SUFFICES ASSUME TypeOK, SlotInv, Close PROVE SlotInv'
    OBVIOUS
  <1> PICK k \in toClose :
        LET id == call.ids[k] IN
          \/ /\ OpenAt(id) = {}
             /\ IF k \in toPlace THEN AfterClose(k) ELSE Abandon
             /\ UNCHANGED <<image, retired>>
          \/ \E l \in OpenAt(id) :
               /\ image' = [image EXCEPT ![l[1]] = Closed(@, l[2], call.ts)]
               /\ AfterClose(k)
    BY DEF Close
  <1> DEFINE id == call.ids[k]
  <1>1. id \in Ids /\ call.ts \in Nat
    BY LenProperties DEF TypeOK, WriterTypes, Call
  <1>2. AfterClose(k) => Timestamps' /\ wpc' \in {"close", "place", "commit"}
    BY SameCall DEF AfterClose, Close, InWrite
  <1>3. CASE OpenAt(id) = {} /\ UNCHANGED <<image, retired>>
    <2>1. CASE k \in toPlace
      <3>1. AfterClose(k)
        BY <1>3, <2>1 DEF OpenAt
      <3> QED
        BY <1>2, <1>3, <3>1, QuietStep DEF Close, AfterClose, SlotInv, DoomedIsPast
    <2>2. CASE k \notin toPlace
      <3>1. Abandon
        BY <1>3, <2>2 DEF OpenAt
      <3> QED
        BY <1>3, <3>1, EndOfCall DEF Close, writer_shared
    <2> QED
      BY <2>1, <2>2
  <1>4. ASSUME NEW l \in OpenAt(id),
               image' = [image EXCEPT ![l[1]] = Closed(@, l[2], call.ts)],
               AfterClose(k)
        PROVE  SlotInv'
    <2>1. l[1] \in Pages /\ l[2] \in Slots /\ image[l[1]][l[2]] # Free
      BY <1>1 DEF OpenAt, TypeOK, SharedTypes, Location, IsOpen
    <2> DEFINE old == image[l[1]][l[2]]
               closed == [old EXCEPT !.end = call.ts]
    <2>2. \A p \in Pages : \A s \in Slots : image'[p][s] =
            IF p = l[1] /\ s = l[2] THEN closed ELSE image[p][s]
      BY <1>4, <2>1 DEF Closed, TypeOK, SharedTypes, Image
    <2>3. old \in Version
      BY <2>1 DEF TypeOK, SharedTypes, Image
    <2>4. closed \in Version /\ SameVersion(closed, old) /\ closed.end = call.ts
      BY <1>1, <2>3 DEF Version, SameVersion
    <2>5. closed # Free
      BY <2>4, FreeAssumption
    <2>6. committed <= call.ts
      BY DEF SlotInv, Timestamps, InWrite, Close
    <2>7. HeldSurvives'
      <3> HIDE DEF closed
      <3>1. \A p \in Pages : \A s \in Slots : image[p][s] # Free =>
           /\ image'[p][s] # Free /\ SameVersion(image'[p][s], image[p][s])
           /\ \/ image'[p][s].end = image[p][s].end
              \/ image'[p][s].end \in Nat /\ committed <= image'[p][s].end
        BY <1>1, <2>2, <2>4, <2>5, <2>6 DEF SameVersion
      <3> QED
        BY <1>4, <3>1, KeptOrClosed DEF Close, AfterClose
    <2>8. StoreMatches'
      <3> HIDE DEF closed
      <3>1. closed.vec = old.vec
        BY <2>4 DEF SameVersion
      <3> QED
        BY <2>1, <2>2, <3>1 DEF StoreMatches, SlotInv, Close
    <2>9. DraftExtends' /\ DoomedIsPast'
      BY <1>2, <1>4, NothingDoomed DEF DraftExtends, Close, AfterClose
    <2>10. Snapshots' /\ Pins' /\ Numbered'
      BY SearchesUnchanged DEF Close, TypeOK, SharedTypes
    <2> QED
      BY <1>2, <1>4, <2>7, <2>8, <2>9, <2>10 DEF SlotInv
  <1> QED
    BY <1>3, <1>4

LEMMA FirstPageSlots == TypeOK /\ SlotInv /\ FirstPage => SlotInv'
  <1> SUFFICES ASSUME TypeOK, SlotInv, FirstPage PROVE SlotInv'
    OBVIOUS
  <1>1. nextPage \in Nat /\ nextPage' = nextPage + 1 /\ directory' = {nextPage}
    BY DEF TypeOK, SharedTypes, FirstPage
  <1>2. Snapshots' /\ Pins' /\ Numbered'
    BY <1>1, SearchesUnchanged DEF FirstPage
  <1>3. Timestamps'
    BY SameCall DEF FirstPage, InWrite, writer_local
  <1>4. StoreMatches' /\ DraftExtends' /\ DoomedIsPast' /\ HeldSurvives'
    BY DEF SlotInv, StoreMatches, DraftExtends, DoomedIsPast, HeldSurvives, FirstPage,
           writer_local, reader_vars
  <1> QED
    BY <1>2, <1>3, <1>4 DEF SlotInv

\* A row goes to a slot that is free in the clone, and therefore in the page.
LEMMA FillSlots ==
  ASSUME TypeOK, SlotInv, NEW p \in Pages, NEW img \in Image, NEW rows,
         wpc \in {"place", "filled"}, Fill(p, img, rows),
         \A s \in Slots : /\ image[p][s] # Free => img[s] = image[p][s]
                          /\ img[s] # Free => store[p][s] = img[s].vec
  PROVE  SlotInv'
  <1> DEFINE cell(k) == [id |-> call.ids[k], begin |-> call.ts, end |-> MAX_TS,
                         vec |-> <<call.ts, k>>]
  <1> PICK k \in toPlace, s \in FreeSlots(img) :
        /\ draft' = [page |-> p, img |-> Filled(img, s, cell(k)),
                     rows |-> rows \cup {<<call.ids[k], s>>}]
        /\ store' = [store EXCEPT ![p][s] = <<call.ts, k>>]
        /\ toPlace' = toPlace \ {k}
        /\ wpc' = "filled"
        /\ UNCHANGED <<image, directory, nextPage, locations, retired, clock, committed,
                       horizon, history, call, toClose, unlisted, doomed, wanted, reader_vars>>
    BY DEF Fill
  <1>1. s \in Slots /\ img[s] = Free /\ image[p][s] = Free
    BY DEF FreeSlots
  <1>2. \A q \in Pages, t \in Slots :
          store'[q][t] = IF q = p /\ t = s THEN <<call.ts, k>> ELSE store[q][t]
    BY <1>1 DEF TypeOK, SharedTypes
  <1>3. \A t \in Slots : draft'.img[t] = IF t = s THEN cell(k) ELSE img[t]
    BY <1>1 DEF Filled, Image
  <1>4. StoreMatches'
    BY <1>1, <1>2 DEF SlotInv, StoreMatches
  <1>5. DraftExtends'
    <2>1. draft'.page = p /\ cell(k).vec = <<call.ts, k>> /\ image' = image
      OBVIOUS
    <2> HIDE DEF cell
    <2>2. ASSUME NEW t \in Slots
          PROVE  /\ image[p][t] # Free => draft'.img[t] = image[p][t]
                 /\ draft'.img[t] # Free => store'[p][t] = draft'.img[t].vec
      <3>1. CASE t = s
        BY <1>1, <1>2, <1>3, <2>1, <3>1
      <3>2. CASE t # s
        BY <1>2, <1>3, <3>2
      <3> QED
        BY <3>1, <3>2
    <2> QED
      BY <2>1, <2>2 DEF DraftExtends
  <1>6. Timestamps'
    BY SameCall DEF InWrite
  <1>7. Snapshots' /\ Pins' /\ Numbered'
    BY SearchesUnchanged DEF TypeOK, SharedTypes
  <1>8. DoomedIsPast' /\ HeldSurvives'
    BY DEF SlotInv, DoomedIsPast, HeldSurvives, reader_vars
  <1> QED
    BY <1>4, <1>5, <1>6, <1>7, <1>8 DEF SlotInv

LEMMA PlaceSlots == TypeOK /\ SlotInv /\ Place => SlotInv'
  <1> SUFFICES ASSUME TypeOK, SlotInv, Place PROVE SlotInv'
    OBVIOUS
  <1> PICK p \in directory : Fill(p, image[p], {})
    BY DEF Place
  <1>1. p \in Pages /\ image[p] \in Image
    BY DEF TypeOK, SharedTypes
  <1>2. \A s \in Slots : image[p][s] # Free => store[p][s] = image[p][s].vec
    BY <1>1 DEF SlotInv, StoreMatches
  <1> QED
    BY <1>1, <1>2, FillSlots DEF Place

LEMMA PlaceMoreSlots == TypeOK /\ SlotInv /\ PlaceMore => SlotInv'
  <1> SUFFICES ASSUME TypeOK, SlotInv, PlaceMore PROVE SlotInv'
    OBVIOUS
  <1>1. draft.page \in Pages /\ draft.img \in Image
    BY DEF TypeOK, WriterTypes, PlaceMore
  <1>2. \A s \in Slots :
          /\ image[draft.page][s] # Free => draft.img[s] = image[draft.page][s]
          /\ draft.img[s] # Free => store[draft.page][s] = draft.img[s].vec
    BY DEF SlotInv, DraftExtends, PlaceMore
  <1> QED
    BY <1>1, <1>2, FillSlots DEF PlaceMore

LEMMA PublishSlots == TypeOK /\ SlotInv /\ Publish => SlotInv'
  <1> SUFFICES ASSUME TypeOK, SlotInv, Publish PROVE SlotInv'
    OBVIOUS
  <1>1. draft.page \in Pages /\ draft.img \in Image
    BY DEF TypeOK, WriterTypes, Publish
  <1>2. \A p \in Pages : image'[p] = IF p = draft.page THEN draft.img ELSE image[p]
    BY DEF Publish, TypeOK, SharedTypes
  <1>3. \A s \in Slots :
          /\ image[draft.page][s] # Free => draft.img[s] = image[draft.page][s]
          /\ draft.img[s] # Free => store[draft.page][s] = draft.img[s].vec
    BY DEF SlotInv, DraftExtends, Publish
  <1>4. wpc' \in {"list", "close", "place", "block", "consolidate", "commit"}
    BY DEF Publish, AfterRows
  <1>5. StoreMatches'
    BY <1>2, <1>3 DEF SlotInv, StoreMatches, Publish
  <1>6. DraftExtends'
    BY <1>4 DEF DraftExtends
  <1>7. Timestamps'
    BY <1>4, SameCall DEF InWrite, Publish
  <1>8. Snapshots' /\ Pins' /\ Numbered'
    BY SearchesUnchanged DEF Publish, TypeOK, SharedTypes
  <1>9. DoomedIsPast'
    BY <1>4, NothingDoomed DEF Publish
  <1>10. HeldSurvives'
    BY <1>2, <1>3, KeptOrClosed DEF Publish, SameVersion
  <1> QED
    BY <1>5, <1>6, <1>7, <1>8, <1>9, <1>10 DEF SlotInv

\* New pages change no page a search may hold.
LEMMA NewPages ==
  ASSUME TypeOK, SlotInv, UNCHANGED <<reader_vars, committed, clock, horizon, writer_local>>,
         wpc \notin {"filled", "reclaim"},
         nextPage' \in Nat, nextPage <= nextPage',
         \A p \in directory' : p < nextPage',
         \A p \in Pages : p < nextPage => image'[p] = image[p],
         StoreMatches'
  PROVE  SlotInv'
  <1>1. Snapshots' /\ Pins' /\ Numbered'
    BY SearchesUnchanged DEF TypeOK, SharedTypes
  <1>2. Timestamps'
    BY SameCall DEF writer_local, InWrite
  <1>3. DraftExtends' /\ DoomedIsPast'
    BY NothingDoomed DEF writer_local, DraftExtends
  <1>4. HeldSurvives'
    BY KeptOrClosed DEF writer_local, SameVersion
  <1> QED
    BY <1>1, <1>2, <1>3, <1>4 DEF SlotInv

LEMMA SplitSlots == TypeOK /\ SlotInv /\ Split => SlotInv'
  <1> SUFFICES ASSUME TypeOK, SlotInv, Split PROVE SlotInv'
    OBVIOUS
  <1> DEFINE a == nextPage
             b == nextPage + 1
  <1> PICK p \in directory : \E L \in SUBSET Occupied(image[p]) :
        LET R == Occupied(image[p]) \ L
        IN /\ FreeSlots(image[p]) = {} /\ L # {} /\ R # {}
           /\ image' = [image EXCEPT ![a] = Half(image[p], L), ![b] = Half(image[p], R)]
           /\ store' = [store EXCEPT ![a] = store[p], ![b] = store[p]]
           /\ directory' = (directory \ {p}) \cup {a, b}
           /\ locations' = Relocated({p}, {a, b}, image')
    BY DEF Split
  <1> PICK L \in SUBSET Occupied(image[p]) :
           /\ image' = [image EXCEPT ![a] = Half(image[p], L),
                                     ![b] = Half(image[p], Occupied(image[p]) \ L)]
           /\ store' = [store EXCEPT ![a] = store[p], ![b] = store[p]]
           /\ directory' = (directory \ {p}) \cup {a, b}
    OBVIOUS
  <1>1. /\ nextPage \in Nat /\ nextPage' = nextPage + 2 /\ p \in Pages
        /\ a \in Pages /\ b \in Pages /\ a # b /\ wpc = "place"
        /\ \A q \in Pages : q < nextPage => q \notin {a, b}
    BY BoundsAssumption DEF TypeOK, SharedTypes, Pages, Split
  <1>2. \A q \in directory' : q < nextPage'
    <2>1. \A q \in directory : q < nextPage /\ q \in Nat
      BY DEF SlotInv, Numbered, TypeOK, SharedTypes, Pages
    <2> QED
      BY <1>1, <2>1
  <1>3. /\ \A q \in Pages \ {a, b} : image'[q] = image[q] /\ store'[q] = store[q]
        /\ image'[a] = Half(image[p], L) /\ image'[b] = Half(image[p], Occupied(image[p]) \ L)
        /\ store'[a] = store[p] /\ store'[b] = store[p]
    BY <1>1 DEF TypeOK, SharedTypes
  <1>4. \A q \in Pages : q < nextPage => image'[q] = image[q]
    BY <1>1, <1>3
  <1>5. StoreMatches'
    <2>1. ASSUME NEW q \in Pages, NEW s \in Slots, image'[q][s] # Free
          PROVE  store'[q][s] = image'[q][s].vec
      <3>1. \A t \in Slots : image[p][t] # Free => store[p][t] = image[p][t].vec
        BY <1>1 DEF SlotInv, StoreMatches
      <3>2. CASE q \in {a, b}
        <4>1. image'[q][s] = image[p][s] /\ store'[q] = store[p]
          BY <1>3, <2>1, <3>2 DEF Half
        <4> QED
          BY <2>1, <3>1, <4>1
      <3>3. CASE q \notin {a, b}
        <4>1. image'[q] = image[q] /\ store'[q] = store[q]
          BY <1>3, <3>3
        <4> QED
          BY <2>1, <4>1 DEF SlotInv, StoreMatches
      <3> QED
        BY <3>2, <3>3
    <2> QED
      BY <2>1 DEF StoreMatches
  <1>6. UNCHANGED <<reader_vars, committed, clock, horizon, writer_local>>
    BY DEF Split
  <1>7. nextPage' \in Nat /\ nextPage <= nextPage' /\ wpc \notin {"filled", "reclaim"}
    BY <1>1
  <1> QED
    BY <1>2, <1>4, <1>5, <1>6, <1>7, NewPages

\* A merged page takes each cell and its payload from the same place.
LEMMA MergedMatches ==
  ASSUME TypeOK, SlotInv, NEW P \in SUBSET Pages, NEW s \in Slots, MergedImage(P)[s] # Free
  PROVE  MergedStore(P)[s] = MergedImage(P)[s].vec
  <1>1. Sources(P, s) # {}
    BY DEF MergedImage
  <1> DEFINE c == Source(P, s)
  <1>2. c[1] \in Pages /\ c[2] \in Slots /\ image[c[1]][c[2]] # Free
    <2>1. Source(P, s) \in Sources(P, s)
      BY <1>1 DEF Source
    <2> QED
      BY <2>1 DEF Sources, Cells
  <1>3. store[c[1]][c[2]] = image[c[1]][c[2]].vec
    BY <1>2 DEF SlotInv, StoreMatches
  <1> QED
    BY <1>1, <1>3 DEF MergedImage, MergedStore

LEMMA MergeManySlots == TypeOK /\ SlotInv /\ MergeMany => SlotInv'
  <1> SUFFICES ASSUME TypeOK, SlotInv, MergeMany PROVE SlotInv'
    OBVIOUS
  <1>1. PICK D \in SUBSET EmptyPages, m \in 0..(MaxPages + 1 - nextPage) :
        \E g \in Groups(m) : Merge(D, m, g)
    BY DEF MergeMany
  <1>2. PICK g \in Groups(m) : Merge(D, m, g)
    BY <1>1
  <1> DEFINE new == nextPage..(nextPage + m - 1)
             GroupOf(q) == Group(g, q - nextPage + 1)
             gone == D \cup {p \in DOMAIN g : g[p] # 0}
  <1>3. /\ nextPage \in Nat /\ m \in Nat
        /\ nextPage' = nextPage + m /\ directory' = (directory \ gone) \cup new
        /\ image' = [q \in Pages |-> IF q \in new THEN MergedImage(GroupOf(q)) ELSE image[q]]
        /\ store' = [q \in Pages |-> IF q \in new THEN MergedStore(GroupOf(q)) ELSE store[q]]
    BY <1>2, BoundsAssumption DEF Merge, TypeOK, SharedTypes
  <1>4. \A q \in directory' : q < nextPage'
    <2>1. \A q \in directory : q < nextPage /\ q \in Nat
      BY DEF SlotInv, Numbered, TypeOK, SharedTypes, Pages
    <2> QED
      BY <1>3, <2>1
  <1>5. \A q \in Pages : q < nextPage => image'[q] = image[q]
    BY <1>3, BoundsAssumption DEF Pages
  <1>6. StoreMatches'
    <2> SUFFICES ASSUME NEW q \in Pages, NEW s \in Slots, image'[q][s] # Free
                 PROVE  store'[q][s] = image'[q][s].vec
      BY DEF StoreMatches
    <2>1. CASE q \in new
      <3>1. GroupOf(q) \in SUBSET Pages
        BY DEF Group, Groups, EmptyPages, TypeOK, SharedTypes
      <3>2. image'[q] = MergedImage(GroupOf(q)) /\ store'[q] = MergedStore(GroupOf(q))
        BY <1>3, <2>1
      <3> QED
        BY <3>1, <3>2, MergedMatches
    <2>2. CASE q \notin new
      <3>1. image'[q] = image[q] /\ store'[q] = store[q]
        BY <1>3, <2>2
      <3> QED
        BY <3>1 DEF SlotInv, StoreMatches
    <2> QED
      BY <2>1, <2>2
  <1>7. UNCHANGED <<reader_vars, committed, clock, horizon>> /\ wpc = "merge"
    BY DEF MergeMany
  <1>8. nextPage' \in Nat /\ nextPage <= nextPage'
    BY <1>3
  <1>9. Snapshots' /\ Pins' /\ Numbered'
    BY <1>3, <1>4, <1>7, <1>8, SearchesUnchanged
  <1>10. Timestamps' /\ DraftExtends' /\ DoomedIsPast'
    BY <1>7, SameCall, NothingDoomed DEF MergeMany, InWrite, DraftExtends
  <1>11. HeldSurvives'
    BY <1>5, <1>7, KeptOrClosed DEF MergeMany, SameVersion
  <1> QED
    BY <1>6, <1>9, <1>10, <1>11 DEF SlotInv

LEMMA CommitSlots == TypeOK /\ SlotInv /\ Commit => SlotInv'
  <1> SUFFICES ASSUME TypeOK, SlotInv, Commit PROVE SlotInv'
    OBVIOUS
  <1>1. /\ committed' = call.ts /\ committed <= call.ts /\ call.ts <= clock
        /\ committed \in Nat /\ call.ts \in Nat /\ clock \in Nat /\ clock' = clock
    BY DEF TypeOK, SharedTypes, WriterTypes, Call, SlotInv, Timestamps, InWrite, Commit
  <1>2. wpc' = "idle" /\ doomed' = Nothing /\ doomed = Nothing
    BY DEF SlotInv, DoomedIsPast, Commit, Abandon
  <1>3. UNCHANGED <<image, store, directory, nextPage, horizon, reader_vars>>
    BY DEF Commit
  <1>4. Timestamps'
    BY <1>1, <1>2 DEF Timestamps, InWrite
  <1>5. Snapshots'
    BY <1>1, <1>3 DEF SlotInv, Snapshots, TypeOK, ReaderTypes, reader_vars
  <1>6. Pins' /\ Numbered' /\ StoreMatches' /\ DraftExtends'
    BY <1>2, <1>3 DEF SlotInv, Pins, Numbered, StoreMatches, DraftExtends, reader_vars
  <1>7. DoomedIsPast'
    BY <1>2 DEF DoomedIsPast, Nothing
  <1>8. HeldSurvives'
    BY <1>2, <1>3 DEF SlotInv, HeldSurvives, reader_vars
  <1> QED
    BY <1>4, <1>5, <1>6, <1>7, <1>8 DEF SlotInv

-----------------------------------------------------------------------------
(* Vacuum.                                                                 *)

\* A nonempty set of natural numbers has a least element.
LEMMA LeastNat ==
  ASSUME NEW S \in SUBSET Nat, S # {}
  PROVE  \E m \in S : \A n \in S : m <= n
  <1>1. PICK m \in S : \A n \in S : ~(<<n, m>> \in OpToRel(<, Nat))
    BY NatLessThanWellFounded, WFMin
  <1>2. \A n \in S : ~(n < m)
    BY <1>1 DEF OpToRel
  <1> QED
    BY <1>2

\* The horizon of a vacuum is behind what its caller asked for and behind
\* every pin.
LEMMA SafeOldestIsSafe ==
  ASSUME TypeOK, NEW oldest \in Nat
  PROVE  /\ SafeOldest(oldest) \in Nat
         /\ SafeOldest(oldest) <= oldest
         /\ \A r \in Readers : SafeOldest(oldest) <= pin[r]
  <1> DEFINE S == {oldest} \cup {pin[r] : r \in Readers}
  <1>1. S \in SUBSET Nat /\ S # {}
    BY DEF TypeOK, ReaderTypes
  <1>2. \E m \in S : \A n \in S : m <= n
    BY <1>1, LeastNat
  <1>3. SafeOldest(oldest) \in S /\ \A n \in S : SafeOldest(oldest) <= n
    BY <1>2 DEF SafeOldest
  <1> QED
    BY <1>1, <1>3

\* What vacuum dooms ended before every snapshot in use, and before the
\* horizon below which nobody may ask for one.
LEMMA VacuumDooms ==
  ASSUME TypeOK, SlotInv, Vacuum
  PROVE  /\ horizon' \in Nat /\ horizon <= horizon'
         /\ \A p \in Pages : \A stamp \in doomed'[p] :
              /\ stamp[2] \in Nat /\ stamp[2] <= committed /\ stamp[2] < horizon'
              /\ \A r \in Readers : stamp[2] < pin[r]
  <1>1. PICK oldest \in 1..(committed + 1), budget \in Budgets, n \in 0..Len(retired) :
        /\ Takes(n, SafeOldest(oldest), budget)
        /\ \E at \in [Met(n) -> UNION {Holders(retired[j]) : j \in Met(n)}] :
             doomed' = [p \in Pages |-> {StampOf(retired[j]) :
                                           j \in {i \in Met(n) : at[i] = p}}]
        /\ horizon' = IF oldest > horizon THEN oldest ELSE horizon
    BY DEF Vacuum
  <1>2. /\ oldest \in Nat /\ committed \in Nat /\ horizon \in Nat /\ horizon' \in Nat
        /\ oldest <= committed + 1 /\ oldest <= horizon' /\ horizon <= horizon'
    BY <1>1 DEF TypeOK, SharedTypes
  <1>3. \A r \in Readers : pin[r] \in Nat
    BY DEF TypeOK, ReaderTypes
  <1> DEFINE safe == SafeOldest(oldest)
  <1>4. /\ safe \in Nat /\ safe <= oldest /\ \A r \in Readers : safe <= pin[r]
    BY <1>2, SafeOldestIsSafe
  <1> SUFFICES ASSUME NEW p \in Pages, NEW stamp \in doomed'[p]
               PROVE  /\ stamp[2] \in Nat /\ stamp[2] <= committed /\ stamp[2] < horizon'
                      /\ \A r \in Readers : stamp[2] < pin[r]
    BY <1>2
  <1>5. PICK j \in Met(n) : stamp = StampOf(retired[j])
    BY <1>1
  <1>6. j \in 1..n /\ j \in 1..Len(retired)
    BY <1>1, LenProperties DEF Met, TypeOK, SharedTypes
  <1>7. retired[j].end \in Nat /\ retired[j].end < safe
    BY <1>1, <1>6, RetiredTypes DEF Takes, Expired, TypeOK, Retired
  <1>8. stamp[2] = retired[j].end
    BY <1>5 DEF StampOf
  <1> HIDE DEF safe
  <1> QED
    BY <1>2, <1>3, <1>4, <1>7, <1>8

LEMMA VacuumSlots == TypeOK /\ SlotInv /\ Vacuum => SlotInv'
  <1> SUFFICES ASSUME TypeOK, SlotInv, Vacuum PROVE SlotInv'
    OBVIOUS
  <1>1. /\ UNCHANGED <<image, store, directory, nextPage, clock, committed, reader_vars>>
        /\ wpc' \in {"consolidate", "reclaim"} /\ call'.kind = "vacuum"
    BY DEF Vacuum, NoCall
  <1>2. wpc' # "reclaim" => doomed' = Nothing
    BY DEF Vacuum, Nothing
  <1>3. Timestamps'
    BY <1>1 DEF SlotInv, Timestamps, InWrite
  <1>4. Snapshots' /\ Pins' /\ Numbered' /\ StoreMatches' /\ DraftExtends'
    BY <1>1 DEF SlotInv, Snapshots, Pins, Numbered, StoreMatches, DraftExtends, reader_vars
  <1>5. \A p \in Pages : \A stamp \in doomed'[p] :
              /\ stamp[2] \in Nat /\ stamp[2] <= committed /\ stamp[2] < horizon'
              /\ \A r \in Readers : stamp[2] < pin[r]
    BY VacuumDooms
  <1>6. \A r \in Readers :
          /\ rpc[r] \in {"pinned", "resolved"} => pin[r] = 0
          /\ rpc[r] \in {"refined", "scan", "held"} => pin[r] = snap[r]
          /\ snap[r] \in Nat
    BY DEF SlotInv, Pins, TypeOK, ReaderTypes
  <1>7. DoomedIsPast'
    <2> SUFFICES ASSUME NEW p \in Pages, NEW stamp \in doomed'[p], NEW r \in Readers
                 PROVE  /\ rpc[r] \notin {"pinned", "resolved"}
                        /\ rpc[r] \in {"refined", "scan", "held"} => stamp[2] <= snap[r]
      BY <1>1, <1>2, <1>5 DEF DoomedIsPast, reader_vars
    <2> QED
      BY <1>5, <1>6
  <1>8. HeldSurvives'
    <2> SUFFICES ASSUME NEW r \in Readers, rpc[r] = "held", NEW s \in Slots,
                        Visible(held[r].img[s], snap[r])
                 PROVE  ~Matches(image[held[r].page][s], doomed'[held[r].page])
      BY <1>1 DEF SlotInv, HeldSurvives, reader_vars
    <2> DEFINE cell == image[held[r].page][s]
    <2>1. held[r].page \in Pages
      BY DEF TypeOK, ReaderTypes
    <2>2. cell # Free /\ snap[r] <= cell.end
      BY DEF SlotInv, HeldSurvives
    <2>3. cell.end \in Nat
      BY <2>1, <2>2 DEF TypeOK, SharedTypes, Image, Version
    <2>4. Stamp(cell)[2] = cell.end
      BY DEF Stamp
    <2>5. \A stamp \in doomed'[held[r].page] : stamp[2] < snap[r] /\ stamp[2] \in Nat
      BY <1>5, <1>6, <2>1
    <2> QED
      BY <1>6, <2>2, <2>3, <2>4, <2>5 DEF Matches
  <1> QED
    BY <1>3, <1>4, <1>7, <1>8 DEF SlotInv

LEMMA ReclaimSlots == TypeOK /\ SlotInv /\ Reclaim => SlotInv'
  <1> SUFFICES ASSUME TypeOK, SlotInv, Reclaim PROVE SlotInv'
    OBVIOUS
  <1>1. PICK p \in Pages : /\ image' = [image EXCEPT ![p] = Cleared(@, doomed[p])]
                           /\ doomed' = [doomed EXCEPT ![p] = {}]
    BY DEF Reclaim
  <1>2. \A q \in Pages, s \in Slots : image'[q][s] =
          IF q = p /\ Matches(image[q][s], doomed[q]) THEN Free ELSE image[q][s]
    BY <1>1 DEF Cleared, TypeOK, SharedTypes
  <1>3. \A q \in Pages : doomed'[q] = IF q = p THEN {} ELSE doomed[q]
    BY <1>1 DEF TypeOK, WriterTypes
  <1>4. UNCHANGED <<store, directory, nextPage, clock, committed, horizon, wpc, call, reader_vars>>
        /\ wpc = "reclaim"
    BY DEF Reclaim
  <1>5. Timestamps'
    BY <1>4, SameCall DEF InWrite
  <1>6. Snapshots' /\ Pins' /\ Numbered'
    BY <1>4 DEF SlotInv, Snapshots, Pins, Numbered, reader_vars
  <1>7. StoreMatches' /\ DraftExtends'
    BY <1>2, <1>4 DEF SlotInv, StoreMatches, DraftExtends
  <1>8. DoomedIsPast'
    BY <1>3, <1>4 DEF SlotInv, DoomedIsPast, reader_vars
  <1>9. HeldSurvives'
    <2> SUFFICES ASSUME NEW r \in Readers, rpc[r] = "held", NEW s \in Slots,
                        Visible(held[r].img[s], snap[r])
                 PROVE  /\ image'[held[r].page][s] = image[held[r].page][s]
                        /\ ~Matches(image[held[r].page][s], doomed'[held[r].page])
      BY <1>4 DEF SlotInv, HeldSurvives, reader_vars
    <2>1. held[r].page \in Pages
      BY DEF TypeOK, ReaderTypes
    <2>2. ~Matches(image[held[r].page][s], doomed[held[r].page])
      BY DEF SlotInv, HeldSurvives
    <2> QED
      BY <1>2, <1>3, <2>1, <2>2 DEF Matches
  <1> QED
    BY <1>5, <1>6, <1>7, <1>8, <1>9 DEF SlotInv

-----------------------------------------------------------------------------
(* Searches.                                                               *)

\* A step of a search changes nothing the writers' part speaks of.
LEMMA WritersPart ==
  ASSUME SlotInv, UNCHANGED <<writer_shared, writer_local>>
  PROVE  Timestamps' /\ StoreMatches' /\ DraftExtends'
  BY DEF SlotInv, Timestamps, InWrite, StoreMatches, DraftExtends, writer_shared, writer_local

LEMMA BeforeTheScan ==
  ASSUME TypeOK, SlotInv, ~StoreBuffered, NEW r \in Readers,
         Pin(r) \/ Resolve(r) \/ Refine(r) \/ LoadDirectory(r)
  PROVE  SlotInv'
  <1>1. UNCHANGED <<writer_shared, writer_local, held>>
    BY DEF Pin, Resolve, Refine, LoadDirectory
  <1>2. Timestamps' /\ StoreMatches' /\ DraftExtends'
    BY <1>1, WritersPart
  <1>3. committed \in Nat /\ horizon \in Nat
    BY DEF TypeOK, SharedTypes
  <1>4. Snapshots'
    BY <1>1, <1>3 DEF SlotInv, Snapshots, TypeOK, ReaderTypes, writer_shared,
       Pin, Resolve, Refine, LoadDirectory, LatestSnapshot
  <1>5. Pins'
    BY DEF SlotInv, Pins, TypeOK, ReaderTypes, Pin, Resolve, Refine, LoadDirectory
  <1>6. Numbered'
    <2>1. UNCHANGED <<directory, nextPage>>
      BY <1>1 DEF writer_shared
    <2>2. ASSUME NEW q \in Readers
          PROVE  /\ \A p \in left'[q] : p < nextPage
                 /\ rpc'[q] = "held" => held[q].page \in 1..(nextPage - 1)
      <3>1. left'[q] = left[q] \/ left'[q] = directory
        BY DEF TypeOK, ReaderTypes, Pin, Resolve, Refine, LoadDirectory
      <3>2. rpc'[q] = "held" => rpc[q] = "held"
        BY DEF TypeOK, ReaderTypes, Pin, Resolve, Refine, LoadDirectory
      <3> QED
        BY <3>1, <3>2 DEF SlotInv, Numbered
    <2> QED
      BY <1>1, <2>1, <2>2 DEF SlotInv, Numbered
  <1>7. HeldSurvives'
    <2>1. \A q \in Readers : rpc'[q] = "held" => rpc[q] = "held" /\ snap'[q] = snap[q]
      BY DEF TypeOK, ReaderTypes, Pin, Resolve, Refine, LoadDirectory
    <2> QED
      BY <1>1, <2>1 DEF SlotInv, HeldSurvives, writer_shared, writer_local
  <1>8. DoomedIsPast'
    <2>1. wpc' # "reclaim" => doomed' = Nothing
      BY <1>1 DEF SlotInv, DoomedIsPast, Nothing, writer_local
    <2> SUFFICES ASSUME NEW p \in Pages, NEW stamp \in doomed[p]
                 PROVE  /\ stamp[2] <= committed
                        /\ stamp[2] < horizon
                        /\ \A q \in Readers :
                             /\ rpc'[q] = "pinned" /\ asked'[q].at # 0 => stamp[2] <= asked'[q].at
                             /\ rpc'[q] \in {"resolved", "refined", "scan", "held"}
                                  => stamp[2] <= snap'[q]
      BY <1>1, <2>1 DEF DoomedIsPast, writer_shared, writer_local
    <2>2. stamp[2] \in Nat
      BY DEF TypeOK, WriterTypes
    <2>3. /\ stamp[2] <= committed /\ stamp[2] < horizon
          /\ \A q \in Readers :
               /\ rpc[q] = "pinned" /\ asked[q].at # 0 => stamp[2] <= asked[q].at
               /\ rpc[q] \in {"resolved", "refined", "scan", "held"} => stamp[2] <= snap[q]
      BY DEF SlotInv, DoomedIsPast
    <2>4. CASE Pin(r)
      BY <1>3, <2>2, <2>3, <2>4 DEF Pin, TypeOK, ReaderTypes
    <2>5. CASE Resolve(r)
      BY <2>3, <2>5 DEF Resolve, LatestSnapshot, TypeOK, ReaderTypes
    <2>6. CASE Refine(r)
      BY <2>3, <2>6 DEF Refine, TypeOK, ReaderTypes
    <2>7. CASE LoadDirectory(r)
      BY <2>3, <2>7 DEF LoadDirectory, TypeOK, ReaderTypes
    <2> QED
      BY <2>4, <2>5, <2>6, <2>7
  <1> QED
    BY <1>2, <1>4, <1>5, <1>6, <1>7, <1>8 DEF SlotInv

LEMMA LoadImageSlots ==
  ASSUME TypeOK, SlotInv, NEW r \in Readers, LoadImage(r)
  PROVE  SlotInv'
  <1>1. PICK p \in left[r] :
          /\ held' = [held EXCEPT ![r] = [page |-> p, img |-> image[p]]]
          /\ left' = [left EXCEPT ![r] = Remaining(@, p)]
    BY DEF LoadImage
  <1>2. /\ UNCHANGED <<writer_shared, writer_local, asked, own, pin, snap>>
        /\ rpc[r] = "scan" /\ rpc' = [rpc EXCEPT ![r] = "held"]
    BY DEF LoadImage
  <1>3. p \in Pages /\ p < nextPage /\ p \in Nat /\ nextPage \in Nat
    BY DEF SlotInv, Numbered, TypeOK, ReaderTypes, SharedTypes, Pages
  <1>4. Timestamps' /\ StoreMatches' /\ DraftExtends'
    BY <1>2, WritersPart
  <1>5. Snapshots' /\ Pins'
    BY <1>2 DEF SlotInv, Snapshots, Pins, TypeOK, ReaderTypes, writer_shared
  <1>6. DoomedIsPast'
    BY <1>2 DEF SlotInv, DoomedIsPast, TypeOK, ReaderTypes, writer_shared, writer_local
  <1>7. held'[r] = [page |-> p, img |-> image[p]] /\ left'[r] \subseteq left[r]
        /\ \A q \in Readers \ {r} : held'[q] = held[q] /\ left'[q] = left[q] /\ rpc'[q] = rpc[q]
    BY <1>1, <1>2 DEF TypeOK, ReaderTypes, Remaining
  <1>8. Numbered'
    <2>1. UNCHANGED <<nextPage, directory>>
      BY <1>2 DEF writer_shared
    <2>2. ASSUME NEW q \in Readers
          PROVE  /\ \A x \in left'[q] : x < nextPage
                 /\ rpc'[q] = "held" => held'[q].page \in 1..(nextPage - 1)
      <3>1. CASE q = r
        BY <1>3, <1>7, <3>1 DEF SlotInv, Numbered, Pages
      <3>2. CASE q # r
        BY <1>7, <3>2 DEF SlotInv, Numbered
      <3> QED
        BY <3>1, <3>2
    <2> QED
      BY <2>1, <2>2 DEF SlotInv, Numbered
  <1>9. HeldSurvives'
    <2>1. UNCHANGED <<image, doomed, snap>>
      BY <1>2 DEF writer_shared, writer_local
    <2> SUFFICES ASSUME NEW q \in Readers, rpc'[q] = "held", NEW s \in Slots,
                        Visible(held'[q].img[s], snap[q])
                 PROVE  LET cell == image[held'[q].page][s] IN
                          /\ cell # Free
                          /\ SameVersion(cell, held'[q].img[s])
                          /\ snap[q] <= cell.end
                          /\ ~Matches(cell, doomed[held'[q].page])
      BY <2>1 DEF HeldSurvives
    <2>2. CASE q = r
      <3> DEFINE cell == image[p][s]
      <3>1. held'[q].img[s] = cell /\ held'[q].page = p
        BY <1>7, <2>2
      <3>2. cell # Free /\ snap[r] < cell.end
        BY <2>2, <3>1 DEF Visible
      <3>3. cell.end \in Nat /\ snap[r] \in Nat
        BY <1>3, <3>2 DEF TypeOK, SharedTypes, ReaderTypes, Image, Version
      <3>4. \A stamp \in doomed[p] : stamp[2] <= snap[r] /\ stamp[2] \in Nat
        BY <1>2, <1>3 DEF SlotInv, DoomedIsPast, TypeOK, WriterTypes
      <3>5. ~Matches(cell, doomed[p])
        <4>1. Stamp(cell)[2] = cell.end
          BY DEF Stamp
        <4> QED
          BY <3>2, <3>3, <3>4, <4>1 DEF Matches
      <3> QED
        BY <2>2, <3>1, <3>2, <3>3, <3>5 DEF SameVersion
    <2>3. CASE q # r
      BY <1>7, <2>3 DEF SlotInv, HeldSurvives
    <2> QED
      BY <2>2, <2>3
  <1> QED
    BY <1>4, <1>5, <1>6, <1>8, <1>9 DEF SlotInv

LEMMA AfterTheLoad ==
  ASSUME TypeOK, SlotInv, NEW r \in Readers, Drain(r) \/ Scan(r) \/ Unpin(r)
  PROVE  SlotInv'
  <1>1. CASE Drain(r)
    BY <1>1 DEF Drain, SlotInv, Pins
  <1>2. CASE Scan(r) \/ Unpin(r)
    <2>1. UNCHANGED <<writer_shared, writer_local, left>>
      BY <1>2 DEF Scan, Unpin
    <2>2. Timestamps' /\ StoreMatches' /\ DraftExtends'
      BY <2>1, WritersPart
    <2>3. /\ rpc'[r] \in {"scan", "idle"} /\ (rpc'[r] = "scan" => rpc[r] = "held")
          /\ rpc'[r] = "scan" => UNCHANGED <<asked, own, pin, snap>>
          /\ rpc'[r] = "idle" => asked'[r].at = 0 /\ own'[r] = pin'[r]
          /\ \A q \in Readers \ {r} : /\ rpc'[q] = rpc[q] /\ held'[q] = held[q]
                                       /\ asked'[q] = asked[q] /\ snap'[q] = snap[q]
                                       /\ own'[q] = own[q] /\ pin'[q] = pin[q]
      BY <1>2 DEF Scan, Unpin, TypeOK, ReaderTypes, NotAsked
    <2>4. committed \in Nat
      BY DEF TypeOK, SharedTypes
    <2>5. Snapshots'
      BY <2>1, <2>3, <2>4 DEF SlotInv, Snapshots, writer_shared
    <2>6. Pins'
      BY <2>1, <2>3 DEF SlotInv, Pins, writer_shared
    <2>7. Numbered'
      BY <2>1, <2>3 DEF SlotInv, Numbered, writer_shared
    <2>8. DoomedIsPast'
      BY <2>1, <2>3 DEF SlotInv, DoomedIsPast, writer_shared, writer_local
    <2>9. HeldSurvives'
      BY <2>1, <2>3 DEF SlotInv, HeldSurvives, writer_shared, writer_local
    <2> QED
      BY <2>2, <2>5, <2>6, <2>7, <2>8, <2>9 DEF SlotInv
  <1> QED
    BY <1>1, <1>2

-----------------------------------------------------------------------------

LEMMA StepSlots ==
  ASSUME ~StoreBuffered, TypeOK, SlotInv, [Next]_vars
  PROVE  SlotInv'
  <1>1. CASE Writer
    BY <1>1, BeginsSlots, QuietSlots, CloseSlots, FirstPageSlots, PlaceSlots, PlaceMoreSlots,
       PublishSlots, SplitSlots, CommitSlots, VacuumSlots, ReclaimSlots, MergeManySlots
    DEF Writer
  <1>2. CASE \E r \in Readers : Reader(r)
    BY <1>2, BeforeTheScan, LoadImageSlots, AfterTheLoad DEF Reader
  <1>3. CASE UNCHANGED vars
    BY <1>3 DEF SlotInv, Timestamps, InWrite, Snapshots, Pins, Numbered, StoreMatches,
       DraftExtends, DoomedIsPast, HeldSurvives, vars, writer_shared, writer_local, reader_vars
  <1> QED
    BY <1>1, <1>2, <1>3 DEF Next

\* The store has the payload of whatever the invariant says is still there.
LEMMA SlotInvImplies == TypeOK /\ SlotInv => SlotSafe
  <1> SUFFICES ASSUME TypeOK, SlotInv, NEW r \in Readers, rpc[r] = "held", NEW s \in Slots,
                      Visible(held[r].img[s], snap[r])
               PROVE  store[held[r].page][s] = held[r].img[s].vec
    BY DEF SlotSafe
  <1>1. held[r].page \in Pages
    BY DEF TypeOK, ReaderTypes
  <1>2. image[held[r].page][s] # Free /\ SameVersion(image[held[r].page][s], held[r].img[s])
    BY DEF SlotInv, HeldSurvives
  <1> QED
    BY <1>1, <1>2 DEF SlotInv, StoreMatches, SameVersion

\* Where a pin is visible as soon as it is stored, what vacuum is about to
\* clear is out of every search's sight, and whatever a search may still
\* return keeps its slot, through splits, merges and calls that fail.
THEOREM SlotInvariant ==
  ASSUME ~StoreBuffered
  PROVE  Spec => []SlotInv
  <1>1. Init => TypeOK /\ SlotInv
    BY InitTypes, InitSlots
  <1>2. TypeOK /\ SlotInv /\ [Next]_vars => (TypeOK /\ SlotInv)'
    BY StepTypes, StepSlots
  <1> QED
    BY <1>1, <1>2, PTL DEF Spec

\* A search never reads, in a slot that is visible at its snapshot, the
\* payload of a version that was put there later (ReaderRegistry with the
\* shared VectorStore and RecordStore), for any number of searches.
THEOREM SlotReuse ==
  ASSUME ~StoreBuffered
  PROVE  Spec => []SlotSafe
  <1>1. TypeOK /\ SlotInv => SlotSafe
    BY SlotInvImplies
  <1> QED
    BY <1>1, TypeCorrect, SlotInvariant, PTL

-----------------------------------------------------------------------------
(***************************************************************************)
(* The books about the pages are exact: `locations' names the versions of  *)
(* the directory, no id has two open versions, and no closed version is    *)
(* forgotten by the queue.                                                 *)
(***************************************************************************)

\* What the proofs need of the types.
LEMMA PageTypes ==
  ASSUME TypeOK
  PROVE  /\ image \in [Pages -> Image] /\ directory \subseteq Pages
         /\ \A p \in Pages, s \in Slots : image[p][s] # Free => image[p][s] \in Version
         /\ nextPage \in Nat /\ clock \in Nat /\ call.ts \in Nat
         /\ call.ids \in Seq(Ids) /\ \A k \in DOMAIN call.ids : call.ids[k] \in Ids
         /\ toPlace \subseteq DOMAIN call.ids /\ toClose \subseteq DOMAIN call.ids
         /\ DOMAIN call.ids \subseteq Nat
  <1>1. call.ids \in Seq(Ids) /\ call.ts \in Nat
    BY DEF TypeOK, WriterTypes, Call
  <1>2. DOMAIN call.ids = 1..Len(call.ids) /\ Len(call.ids) \in Nat
        /\ \A k \in DOMAIN call.ids : call.ids[k] \in Ids
    BY <1>1, LenProperties
  <1>3. nextPage \in Nat
    BY DEF TypeOK, SharedTypes
  <1> QED
    BY <1>1, <1>2, <1>3 DEF TypeOK, SharedTypes, WriterTypes, Image

\* A cell of the directory: where it is, and the version in it.
LEMMA CellFacts ==
  ASSUME TypeOK, NEW c \in Cells(directory)
  PROVE  /\ c = <<c[1], c[2]>> /\ c[1] \in directory /\ c[1] \in Pages /\ c[2] \in Slots
         /\ At(c) # Free /\ At(c) \in Version /\ At(c).id \in Ids
  <1>1. c \in directory \X Slots /\ At(c) # Free
    BY DEF Cells, At
  <1>2. c = <<c[1], c[2]>> /\ c[1] \in directory /\ c[2] \in Slots /\ c[1] \in Pages
    BY <1>1, PageTypes
  <1>3. At(c) \in Version
    BY <1>1, <1>2, PageTypes DEF At
  <1> QED
    BY <1>1, <1>2, <1>3 DEF Version

\* What makes a place a cell.
LEMMA IsCell ==
  ASSUME NEW P, NEW p \in P, NEW s \in Slots, image[p][s] # Free
  PROVE  <<p, s>> \in Cells(P) /\ At(<<p, s>>) = image[p][s]
  BY DEF Cells, At

\* The end of time is after every timestamp.
LEMMA BeforeTheEnd == MaxClock \in Nat /\ MAX_TS \in Nat /\ MaxClock < MAX_TS
  BY BoundsAssumption, MaxTsAssumption

LEMMA BookInit == Init => BookInv
  <1> SUFFICES ASSUME Init PROVE BookInv
    OBVIOUS
  <1> USE DEF Init
  <1>1. Cells(directory) = {}
    BY DEF Cells
  <1>2. Fresh /\ RealStamps /\ DoomedByVacuum
    BY BeforeTheEnd DEF Fresh, RealStamps, DoomedByVacuum, InWrite
  <1>3. Listed /\ Unlisted /\ Drafted
    BY <1>1 DEF Listed, Unlisted, Drafted
  <1>4. SingleOpen
    BY <1>1 DEF SingleOpen
  <1>5. Ready /\ ReadyDraft
    BY DEF Ready, ReadyDraft, NoCall
  <1> QED
    BY <1>2, <1>3, <1>4, <1>5 DEF BookInv

-----------------------------------------------------------------------------
(* Steps that publish nothing.                                             *)

\* Where neither pages nor locations change, what is said of them stays.
LEMMA SamePages ==
  ASSUME BookInv, UNCHANGED <<image, directory, nextPage>>
  PROVE  /\ Fresh' /\ SingleOpen'
         /\ \A id : NoneOpen(id)' <=> NoneOpen(id)
         /\ Cells(directory)' = Cells(directory)
         /\ \A c : At(c)' = At(c)
  BY DEF BookInv, Fresh, SingleOpen, NoneOpen, Cells, At

LEMMA SameBooks ==
  ASSUME BookInv, UNCHANGED <<image, directory, nextPage, locations>>,
         unlisted = {}, unlisted' = {}, wpc # "reclaim"
  PROVE  Fresh' /\ SingleOpen' /\ Listed' /\ Unlisted'
  <1>1. Listed'
    BY SamePages DEF BookInv, Listed
  <1>2. Unlisted'
    BY DEF Unlisted
  <1> QED
    BY <1>1, <1>2, SamePages

\* A call that ends leaves the books as they are.
LEMMA EndBooks ==
  ASSUME BookInv, Abandon, clock' = clock,
         UNCHANGED <<image, directory, nextPage, locations>>,
         unlisted = {}, wpc # "reclaim"
  PROVE  BookInv'
  <1>1. wpc' = "idle" /\ call' = NoCall /\ toClose' = {} /\ toPlace' = {} /\ unlisted' = {}
        /\ doomed' = Nothing
    BY DEF Abandon
  <1>2. Fresh' /\ SingleOpen' /\ Listed' /\ Unlisted'
    BY <1>1, SameBooks
  <1>3. RealStamps'
    BY <1>1 DEF BookInv, RealStamps, InWrite
  <1>4. DoomedByVacuum' /\ Drafted' /\ Ready' /\ ReadyDraft'
    BY <1>1 DEF DoomedByVacuum, Drafted, Ready, ReadyDraft, NoCall
  <1> QED
    BY <1>2, <1>3, <1>4 DEF BookInv

\* A call begins: nothing is in progress.
LEMMA BeginBooks ==
  ASSUME TypeOK, BookInv,
         NEW kind \in {"insert", "delete", "rows", "changes"}, NEW ids, NEW deletes,
         NEW ts, ts <= MaxClock, Begin(kind, ids, deletes, ts),
         (RowsAfterDeletes(ids, deletes) /\ Len(ids) \in Nat /\ deletes \in Nat)
           \/ (toClose' = {} /\ toPlace' = {} /\ wpc' = "block")
  PROVE  BookInv'
  <1>1. /\ wpc = "idle" /\ clock' = ts /\ call'.kind = kind /\ call'.ids = ids /\ call'.ts = ts
        /\ UNCHANGED <<image, directory, nextPage, locations, unlisted, doomed>>
        /\ wpc' \in {"close", "block"}
    BY DEF Begin, NoCall, RowsAfterDeletes
  <1>2. unlisted = {} /\ doomed = Nothing
    BY <1>1 DEF BookInv, Unlisted, DoomedByVacuum
  <1>3. Fresh' /\ SingleOpen' /\ Listed' /\ Unlisted'
    BY <1>1, <1>2, SameBooks
  <1>4. RealStamps' /\ DoomedByVacuum' /\ Drafted' /\ ReadyDraft'
    BY <1>1, <1>2 DEF RealStamps, DoomedByVacuum, Drafted, ReadyDraft
  <1>5. Ready'
    <2>1. CASE toClose' = {} /\ toPlace' = {}
      BY <1>1, <2>1 DEF Ready
    <2>2. CASE RowsAfterDeletes(ids, deletes) /\ Len(ids) \in Nat /\ deletes \in Nat
      <3>1. /\ toClose' = 1..Smaller(deletes + 1, Len(ids)) /\ toPlace' = (deletes + 1)..Len(ids)
            /\ wpc' = "close"
        BY <2>2 DEF RowsAfterDeletes
      <3>2. ASSUME NEW k \in toPlace' \ toClose', First(toPlace', k) PROVE FALSE
        <4>1. deletes + 1 <= Len(ids) /\ k >= deletes + 1 /\ k \in Nat
          BY <2>2, <3>1
        <4>2. deletes + 1 \in toPlace'
          BY <2>2, <3>1, <4>1
        <4>3. k <= deletes + 1
          BY <3>2, <4>2 DEF First
        <4>4. Smaller(deletes + 1, Len(ids)) = deletes + 1
          BY <2>2, <4>1 DEF Smaller
        <4> QED
          BY <2>2, <3>1, <4>1, <4>3, <4>4
      <3> QED
        BY <1>1, <3>1, <3>2 DEF Ready
    <2> QED
      BY <2>1, <2>2
  <1> QED
    BY <1>3, <1>4, <1>5 DEF BookInv

LEMMA BeginsBooks ==
  ASSUME TypeOK, BookInv, BeginInsert \/ BeginDelete \/ BeginBatch \/ BeginChanges
  PROVE  BookInv'
  <1>0. clock \in Nat /\ MaxClock \in Nat
    BY BoundsAssumption, PageTypes
  <1>1. CASE BeginInsert
    <2>1. PICK id \in Ids, ts \in Stamps : Begin("insert", <<id>>, 0, ts) /\ RowsAfterDeletes(<<id>>, 0)
      BY <1>1 DEF BeginInsert
    <2>2. ts <= MaxClock /\ Len(<<id>>) \in Nat
      BY <1>0 DEF Stamps
    <2> QED
      BY <2>1, <2>2, BeginBooks
  <1>2. CASE BeginDelete
    <2>1. PICK id \in Ids, ts \in Stamps : Begin("delete", <<id>>, 1, ts) /\ RowsAfterDeletes(<<id>>, 1)
      BY <1>2 DEF BeginDelete
    <2>2. ts <= MaxClock /\ Len(<<id>>) \in Nat
      BY <1>0 DEF Stamps
    <2> QED
      BY <2>1, <2>2, BeginBooks
  <1>3. CASE BeginBatch
    <2>1. PICK n \in 1..MaxBatch : \E ids \in [1..n -> Ids] : Begin("rows", ids, 0, clock + 1)
      BY <1>3 DEF BeginBatch
    <2>2. PICK ids \in [1..n -> Ids] : Begin("rows", ids, 0, clock + 1)
      BY <2>1
    <2>3. clock + 1 <= MaxClock /\ toClose' = {} /\ toPlace' = {} /\ wpc' = "block"
      BY <1>0, <1>3 DEF BeginBatch
    <2> QED
      BY <2>2, <2>3, BeginBooks
  <1>4. CASE BeginChanges
    <2>1. PICK n \in 1..MaxBatch : \E ids \in [1..n -> Ids], deletes \in 0..n :
            Begin("changes", ids, deletes, clock + 1) /\ RowsAfterDeletes(ids, deletes)
      BY <1>4 DEF BeginChanges
    <2>2. PICK ids \in [1..n -> Ids], deletes \in 0..n :
            Begin("changes", ids, deletes, clock + 1) /\ RowsAfterDeletes(ids, deletes)
      BY <2>1
    <2>3. clock + 1 <= MaxClock /\ Len(ids) \in Nat /\ deletes \in Nat
      <3>1. n \in Nat
        BY BoundsAssumption
      <3>2. ids \in Seq(Ids)
        BY <3>1, SeqDef
      <3> QED
        BY <1>0, <1>4, <3>1, <3>2, LenProperties DEF BeginChanges
    <2> QED
      BY <2>2, <2>3, BeginBooks
  <1> QED
    BY <1>1, <1>2, <1>3, <1>4

LEMMA StartBlockBooks == TypeOK /\ BookInv /\ StartBlock => BookInv'
  <1> SUFFICES ASSUME TypeOK, BookInv, StartBlock PROVE BookInv'
    OBVIOUS
  <1> DEFINE last == Smaller(call.taken + BlockSize, Len(call.ids))
             block == (call.taken + 1)..last
             byRow == RowByRow(block, call.ids)
  <1>1. /\ wpc = "block" /\ wpc' = "close"
        /\ call' = [call EXCEPT !.kind = IF byRow THEN "rows" ELSE "rounds", !.taken = last]
        /\ toClose' = IF byRow THEN {k \in block : First(block, k)} ELSE block
        /\ toPlace' = block
        /\ UNCHANGED <<image, directory, nextPage, locations, clock, unlisted, doomed>>
    BY DEF StartBlock, writer_shared
  <1>2. call'.ts = call.ts /\ call'.ids = call.ids /\ (call'.kind = "rounds" <=> ~byRow)
    BY <1>1 DEF TypeOK, WriterTypes, Call
  <1>3. unlisted = {} /\ doomed = Nothing
    BY <1>1 DEF BookInv, Unlisted, DoomedByVacuum
  <1>4. Fresh' /\ SingleOpen' /\ Listed' /\ Unlisted'
    BY <1>1, <1>3, SameBooks
  <1>5. RealStamps' /\ DoomedByVacuum' /\ Drafted' /\ ReadyDraft'
    BY <1>1, <1>2, <1>3 DEF BookInv, RealStamps, InWrite, DoomedByVacuum, Drafted, ReadyDraft
  <1>6. Ready'
    <2>1. CASE byRow
      BY <1>1, <1>2, <2>1 DEF Ready, First
    <2>2. CASE ~byRow
      BY <1>1, <1>2, <2>2 DEF Ready, RowByRow
    <2> QED
      BY <2>1, <2>2
  <1> QED
    BY <1>4, <1>5, <1>6 DEF BookInv

LEMMA FinishBooks ==
  ASSUME TypeOK, BookInv, RefuseBlock \/ Commit \/ StopMerging
  PROVE  BookInv'
  <1>1. CASE RefuseBlock
    BY <1>1, EndBooks DEF RefuseBlock, BookInv, Unlisted, writer_shared
  <1>2. CASE Commit
    BY <1>2, EndBooks DEF Commit, BookInv, Unlisted
  <1>3. CASE StopMerging /\ call.kind = "vacuum"
    BY <1>3, EndBooks DEF StopMerging, BookInv, Unlisted, writer_shared
  <1>4. CASE StopMerging /\ call.kind # "vacuum"
    <2>1. /\ wpc = "merge" /\ wpc' = "commit"
          /\ UNCHANGED <<image, directory, nextPage, locations, clock, call, toClose, toPlace,
                         draft, unlisted, doomed>>
      BY <1>4 DEF StopMerging, writer_shared
    <2>2. unlisted = {} /\ doomed = Nothing
      BY <2>1 DEF BookInv, Unlisted, DoomedByVacuum
    <2>3. Fresh' /\ SingleOpen' /\ Listed' /\ Unlisted'
      BY <2>1, <2>2, SameBooks
    <2>4. RealStamps' /\ DoomedByVacuum' /\ Drafted' /\ ReadyDraft'
      BY <1>4, <2>1, <2>2 DEF BookInv, RealStamps, InWrite, DoomedByVacuum, Drafted, ReadyDraft
    <2>5. toClose = {} /\ toPlace = {}
      BY <2>1 DEF BookInv, Ready
    <2>6. Ready'
      BY <2>1, <2>5 DEF Ready, Repeats
    <2> QED
      BY <2>3, <2>4, <2>6 DEF BookInv
  <1> QED
    BY <1>1, <1>2, <1>3, <1>4

\* Vacuum takes entries from the queue; the pages and the locations stay.
LEMMA VacuumBooks == TypeOK /\ BookInv /\ Vacuum => BookInv'
  <1> SUFFICES ASSUME TypeOK, BookInv, Vacuum PROVE BookInv'
    OBVIOUS
  <1>1. /\ wpc = "idle" /\ wpc' \in {"consolidate", "reclaim"} /\ call'.kind = "vacuum"
        /\ UNCHANGED <<image, directory, nextPage, locations, clock, toClose, toPlace, draft,
                       unlisted>>
    BY DEF Vacuum, NoCall
  <1>2. wpc' # "reclaim" => doomed' = Nothing
    <2>1. SUFFICES ASSUME wpc' # "reclaim" PROVE doomed' = Nothing
      OBVIOUS
    <2>2. PICK oldest \in 1..(committed + 1), budget \in Budgets, n \in 0..Len(retired) :
            /\ \E at \in [Met(n) -> UNION {Holders(retired[j]) : j \in Met(n)}] :
                 doomed' = [p \in Pages |-> {StampOf(retired[j]) :
                                                j \in {i \in Met(n) : at[i] = p}}]
            /\ wpc' = IF Met(n) = {} THEN "consolidate" ELSE "reclaim"
      BY DEF Vacuum
    <2> QED
      BY <2>1, <2>2 DEF Nothing
  <1>3. unlisted = {}
    BY <1>1 DEF BookInv, Unlisted
  <1>4. Fresh' /\ SingleOpen' /\ Listed' /\ Unlisted'
    BY <1>1, <1>3, SameBooks
  <1>5. RealStamps' /\ DoomedByVacuum' /\ Drafted' /\ ReadyDraft'
    BY <1>1, <1>2 DEF BookInv, RealStamps, InWrite, DoomedByVacuum, Drafted, ReadyDraft
  <1>6. toClose' = {} /\ toPlace' = {}
    BY <1>1 DEF BookInv, Ready
  <1>7. Ready'
    BY <1>1, <1>6 DEF Ready
  <1> QED
    BY <1>4, <1>5, <1>7 DEF BookInv

\* Vacuum drops the locations of what it cleared.
LEMMA ConsolidateBooks == TypeOK /\ BookInv /\ Consolidate => BookInv'
  <1> SUFFICES ASSUME TypeOK, BookInv, Consolidate PROVE BookInv'
    OBVIOUS
  <1>1. /\ wpc \in {"consolidate", "reclaim"} /\ wpc' = "merge"
        /\ wpc = "reclaim" => doomed = Nothing
        /\ UNCHANGED <<image, directory, nextPage, clock, call, toClose, toPlace, draft,
                       unlisted, doomed>>
        /\ locations' = IF wpc = "reclaim"
             THEN [id \in Ids |-> {l \in locations[id] : image[l[1]][l[2]] # Free}]
             ELSE locations
    BY DEF Consolidate
  <1>2. unlisted = {} /\ doomed = Nothing
    BY <1>1 DEF BookInv, Unlisted, DoomedByVacuum
  <1>3. Fresh' /\ SingleOpen' /\ Cells(directory)' = Cells(directory) /\ \A c : At(c)' = At(c)
    BY <1>1, SamePages
  <1>4. Listed'
    <2>1. SUFFICES ASSUME NEW id \in Ids
                   PROVE  /\ \A l \in locations'[id] :
                               l[1] \in directory /\ At(l) # Free /\ At(l).id = id
                          /\ \A c \in Cells(directory) : At(c).id = id => c \in locations'[id]
      BY <1>1, <1>3 DEF Listed
    <2>2. CASE wpc = "reclaim"
      <3>1. locations'[id] = {l \in locations[id] : At(l) # Free}
        BY <1>1, <2>2 DEF At
      <3> QED
        BY <1>2, <3>1 DEF BookInv, Listed, Cells, At
    <2>3. CASE wpc # "reclaim"
      BY <1>1, <1>2, <2>3 DEF BookInv, Listed
    <2> QED
      BY <2>2, <2>3
  <1>5. RealStamps' /\ DoomedByVacuum' /\ Drafted' /\ ReadyDraft' /\ Unlisted'
    BY <1>1, <1>2 DEF BookInv, RealStamps, InWrite, DoomedByVacuum, Drafted, ReadyDraft, Unlisted
  <1>6. toClose' = {} /\ toPlace' = {}
    BY <1>1 DEF BookInv, Ready
  <1>7. Ready'
    BY <1>1, <1>6 DEF Ready, Repeats
  <1> QED
    BY <1>3, <1>4, <1>5, <1>7 DEF BookInv

-----------------------------------------------------------------------------
(* Closing and reclaiming.                                                 *)

\* When no cell appears or is opened again, there are no more open versions.
LEMMA Fewer ==
  ASSUME BookInv,
         \A c \in Cells(directory)' :
           /\ c \in Cells(directory) /\ At(c)'.id = At(c).id
           /\ At(c)'.end = MAX_TS => At(c).end = MAX_TS
  PROVE  SingleOpen' /\ \A id : NoneOpen(id) => NoneOpen(id)'
  <1>1. SingleOpen'
    BY DEF BookInv, SingleOpen
  <1>2. ASSUME NEW id, NoneOpen(id) PROVE NoneOpen(id)'
    BY <1>2 DEF NoneOpen
  <1> QED
    BY <1>1, <1>2

\* An id with no open version in its locations has none in the directory.
LEMMA NotOpen ==
  ASSUME TypeOK, BookInv, unlisted = {}, NEW id \in Ids, OpenAt(id) = {}
  PROVE  NoneOpen(id)
  BY DEF NoneOpen, BookInv, Listed, OpenAt, IsOpen, At, Cells

LEMMA CloseBooks == TypeOK /\ BookInv /\ Close => BookInv'
  <1> SUFFICES ASSUME TypeOK, BookInv, Close PROVE BookInv'
    OBVIOUS
  <1>1. PICK k \in toClose :
        LET id == call.ids[k] IN
          \/ /\ OpenAt(id) = {}
             /\ IF k \in toPlace THEN AfterClose(k) ELSE Abandon
             /\ UNCHANGED <<image, retired>>
          \/ \E l \in OpenAt(id) :
               /\ image' = [image EXCEPT ![l[1]] = Closed(@, l[2], call.ts)]
               /\ retired' = Append(retired, [end |-> call.ts, id |-> id,
                                              begin |-> image[l[1]][l[2]].begin])
               /\ AfterClose(k)
    BY DEF Close
  <1>2. /\ wpc = "close" /\ unlisted = {} /\ doomed = Nothing /\ call.ts <= MaxClock
        /\ UNCHANGED <<directory, nextPage, locations, clock>>
    BY DEF Close, BookInv, Unlisted, DoomedByVacuum, RealStamps, InWrite
  <1>3. call.ids[k] \in Ids /\ call.ts \in Nat /\ MaxClock < MAX_TS
        /\ MaxClock \in Nat /\ MAX_TS \in Nat
    BY PageTypes, BeforeTheEnd
  <1>4. ASSUME AfterClose(k), Fresh', Listed', SingleOpen',
               \A id \in Ids : NoneOpen(id) => NoneOpen(id)', NoneOpen(call.ids[k])'
        PROVE  BookInv'
    <2>1. /\ toClose' = toClose \ {k}
          /\ wpc' = IF toClose' # {} THEN "close" ELSE IF toPlace = {} THEN "commit" ELSE "place"
          /\ UNCHANGED <<call, toPlace, draft, unlisted, doomed>>
      BY <1>4 DEF AfterClose
    <2>2. RealStamps' /\ DoomedByVacuum' /\ Drafted' /\ ReadyDraft' /\ Unlisted'
      BY <1>2, <2>1 DEF BookInv, RealStamps, InWrite, DoomedByVacuum, Drafted, ReadyDraft, Unlisted
    <2>3. \A j \in toPlace \ toClose' :
            call.kind = "rounds" \/ First(toPlace, j) => NoneOpen(call.ids[j])'
      BY <1>2, <1>4, <2>1, PageTypes DEF BookInv, Ready
    <2>4. Ready'
      <3>1. call.kind = "rounds" => ~Repeats(toPlace, call.ids)
        BY DEF BookInv, Ready
      <3> QED
        BY <2>1, <2>3, <3>1 DEF Ready
    <2> QED
      BY <1>4, <2>2, <2>4 DEF BookInv
  <1>5. CASE OpenAt(call.ids[k]) = {} /\ k \in toPlace /\ AfterClose(k) /\ UNCHANGED image
    <2>1. NoneOpen(call.ids[k])
      BY <1>2, <1>3, <1>5, NotOpen
    <2>2. /\ Fresh' /\ SingleOpen' /\ Listed'
          /\ \A id : NoneOpen(id)' <=> NoneOpen(id)
      <3>1. unlisted' = {}
        BY <1>2, <1>5 DEF AfterClose
      <3>2. Fresh' /\ SingleOpen' /\ Listed'
        BY <1>2, <1>5, <3>1, SameBooks
      <3> QED
        BY <1>2, <1>5, <3>2, SamePages
    <2>3. call'.ids = call.ids /\ \A id \in Ids : NoneOpen(id) => NoneOpen(id)'
      BY <1>5, <2>2 DEF AfterClose
    <2>4. NoneOpen(call.ids[k])'
      <3>1. k' = k /\ call' = call
        BY <1>5 DEF AfterClose
      <3> QED
        BY <2>1, <2>2, <3>1 DEF NoneOpen
    <2> QED
      BY <1>4, <1>5, <2>2, <2>3, <2>4
  <1>6. CASE OpenAt(call.ids[k]) = {} /\ Abandon /\ UNCHANGED image
    BY <1>2, <1>6, EndBooks
  <1>7. ASSUME NEW l \in OpenAt(call.ids[k]), AfterClose(k),
               image' = [image EXCEPT ![l[1]] = Closed(@, l[2], call.ts)]
        PROVE  BookInv'
    <2> DEFINE id == call.ids[k]
    <2>1. /\ l \in locations[id] /\ At(l) # Free /\ At(l).id = id /\ At(l).end = MAX_TS
          /\ l[1] \in directory /\ l \in Pages \X Slots
      BY <1>3 DEF OpenAt, IsOpen, At, BookInv, Listed, TypeOK, SharedTypes, Location
    <2>2. l = <<l[1], l[2]>> /\ l[1] \in Pages /\ l[2] \in Slots /\ l \in Cells(directory)
      BY <2>1 DEF Cells, At
    <2>3. \A p \in Pages, s \in Slots :
            image'[p][s] = IF p = l[1] /\ s = l[2] THEN [image[p][s] EXCEPT !.end = call.ts]
                           ELSE image[p][s]
      BY <1>7, <2>2, PageTypes DEF Closed, Image
    <2>4. At(l) \in Version
      BY <2>2, CellFacts
    <2>5. \A c \in Pages \X Slots :
            At(c)' = IF c = l THEN [At(l) EXCEPT !.end = call.ts] ELSE At(c)
      <3>1. ASSUME NEW c \in Pages \X Slots
            PROVE  At(c)' = IF c = l THEN [At(l) EXCEPT !.end = call.ts] ELSE At(c)
        <4>1. c[1] \in Pages /\ c[2] \in Slots /\ c = <<c[1], c[2]>>
          OBVIOUS
        <4>2. c = l <=> c[1] = l[1] /\ c[2] = l[2]
          BY <2>2, <4>1
        <4>3. At(c)' = IF c[1] = l[1] /\ c[2] = l[2] THEN [image[c[1]][c[2]] EXCEPT !.end = call.ts]
                       ELSE image[c[1]][c[2]]
          BY <2>3, <4>1 DEF At
        <4> QED
          BY <4>2, <4>3 DEF At
      <3> QED
        BY <3>1
    <2>6. /\ At(l)' # Free /\ At(l)'.id = id /\ At(l)'.end = call.ts /\ call.ts # MAX_TS
      <3>1. [At(l) EXCEPT !.end = call.ts] \in Version
        BY <1>3, <2>4 DEF Version
      <3>2. At(l)' \in Version /\ At(l)'.id = id /\ At(l)'.end = call.ts
        BY <2>1, <2>4, <2>5, <3>1 DEF Version
      <3>3. call.ts # MAX_TS
        BY <1>2, <1>3
      <3> QED
        BY <3>2, <3>3, FreeAssumption
    <2>7. \A c \in Pages \X Slots : At(c)' # Free <=> At(c) # Free
      BY <2>1, <2>5, <2>6
    <2>8. Cells(directory)' = Cells(directory)
      BY <1>2, <2>7, PageTypes DEF Cells, At
    <2>9. \A c \in Cells(directory) : At(c)'.id = At(c).id /\ (At(c)'.end = MAX_TS => At(c).end = MAX_TS)
      <3>1. Cells(directory) \subseteq Pages \X Slots
        BY PageTypes DEF Cells
      <3> QED
        BY <2>1, <2>5, <2>6, <3>1
    <2>10. SingleOpen' /\ \A i : NoneOpen(i) => NoneOpen(i)'
      BY <2>8, <2>9, Fewer
    <2>11. NoneOpen(call.ids[k])'
      <3>1. ASSUME NEW c \in Cells(directory), At(c)'.id = id PROVE At(c)'.end # MAX_TS
        <4>1. CASE c = l
          BY <2>6, <4>1
        <4>2. CASE c # l
          <5>1. At(c).id = At(l).id /\ At(l).end = MAX_TS
            BY <2>1, <2>9, <3>1
          <5> QED
            BY <2>2, <2>9, <4>2, <5>1 DEF BookInv, SingleOpen
        <4> QED
          BY <4>1, <4>2
      <3>2. call' = call
        BY <1>7 DEF AfterClose
      <3> QED
        BY <2>8, <3>1, <3>2 DEF NoneOpen
    <2>12. Listed'
      <3>1. \A i \in Ids : \A j \in locations[i] : j \in Pages \X Slots
        BY DEF TypeOK, SharedTypes, Location
      <3>2. \A i \in Ids : \A j \in locations[i] :
               j[1] \in directory /\ At(j)' # Free /\ At(j)'.id = i
        BY <1>2, <2>1, <2>5, <2>6, <2>7, <3>1 DEF BookInv, Listed
      <3>3. \A i \in Ids : \A c \in Cells(directory) : At(c)'.id = i => c \in locations[i]
        BY <1>2, <2>9 DEF BookInv, Listed
      <3> QED
        BY <1>2, <2>8, <3>2, <3>3 DEF Listed
    <2>13. Fresh'
      <3>1. l[1] < nextPage /\ l[1] \in Nat
        BY <2>1, <2>2, BoundsAssumption DEF BookInv, Fresh, Pages
      <3>2. \A p \in Pages : nextPage <= p => image'[p] = image[p]
        BY <1>7, <2>2, <3>1, PageTypes DEF Pages
      <3> QED
        BY <1>2, <3>2 DEF BookInv, Fresh
    <2> QED
      BY <1>4, <1>7, <2>10, <2>11, <2>12, <2>13
  <1> QED
    BY <1>1, <1>5, <1>6, <1>7

LEMMA ReclaimBooks == TypeOK /\ BookInv /\ Reclaim => BookInv'
  <1> SUFFICES ASSUME TypeOK, BookInv, Reclaim PROVE BookInv'
    OBVIOUS
  <1>1. /\ wpc = "reclaim" /\ wpc' = wpc
        /\ UNCHANGED <<directory, nextPage, locations, clock, call, toClose, toPlace, draft,
                       unlisted>>
    BY DEF Reclaim
  <1>2. unlisted = {} /\ toClose = {} /\ toPlace = {} /\ call.kind = "vacuum"
    BY <1>1 DEF BookInv, Unlisted, Ready, DoomedByVacuum
  <1>3. \A p \in Pages, s \in Slots : image'[p][s] \in {image[p][s], Free}
    <2>1. PICK p \in Pages : image' = [image EXCEPT ![p] = Cleared(@, doomed[p])]
      BY DEF Reclaim
    <2> QED
      BY <2>1, PageTypes DEF Cleared, Image
  <1>4. \A c \in Pages \X Slots : At(c)' \in {At(c), Free}
    BY <1>3 DEF At
  <1>5. \A c \in Cells(directory)' : c \in Cells(directory) /\ At(c)' = At(c)
    BY <1>1, <1>4, PageTypes DEF Cells, At
  <1>6. SingleOpen'
    BY <1>5, Fewer
  <1>7. Listed'
    <2>1. \A id \in Ids : \A l \in locations[id] : l \in Pages \X Slots
      BY DEF TypeOK, SharedTypes, Location
    <2> QED
      BY <1>1, <1>2, <1>4, <1>5, <2>1 DEF BookInv, Listed
  <1>8. Fresh'
    <2>1. ASSUME NEW p \in Pages, nextPage <= p PROVE image'[p] = EmptyImage
      <3>1. image[p] = EmptyImage /\ image'[p] \in Image
        BY <2>1, PageTypes, StepTypes DEF BookInv, Fresh, Next, Writer, TypeOK, SharedTypes
      <3>2. \A s \in Slots : image'[p][s] = Free
        BY <1>3, <3>1 DEF EmptyImage
      <3> QED
        BY <3>1, <3>2 DEF EmptyImage, Image
    <2> QED
      BY <1>1, <2>1 DEF BookInv, Fresh
  <1>9. RealStamps' /\ DoomedByVacuum' /\ Drafted' /\ ReadyDraft' /\ Unlisted'
    BY <1>1, <1>2 DEF BookInv, RealStamps, InWrite, DoomedByVacuum, Drafted, ReadyDraft, Unlisted
  <1>10. Ready'
    BY <1>1, <1>2 DEF Ready
  <1> QED
    BY <1>6, <1>7, <1>8, <1>9, <1>10 DEF BookInv

-----------------------------------------------------------------------------
(* Placing rows.                                                           *)

LEMMA FirstPageBooks == TypeOK /\ BookInv /\ FirstPage => BookInv'
  <1> SUFFICES ASSUME TypeOK, BookInv, FirstPage PROVE BookInv'
    OBVIOUS
  <1>1. /\ wpc = "place" /\ directory = {} /\ directory' = {nextPage} /\ nextPage' = nextPage + 1
        /\ nextPage \in Pages /\ nextPage \in Nat
        /\ UNCHANGED <<image, locations, clock, wpc, call, toClose, toPlace, draft, unlisted, doomed>>
    BY PageTypes, BoundsAssumption DEF FirstPage, writer_local, TypeOK, SharedTypes, Pages
  <1>2. image[nextPage] = EmptyImage
    BY <1>1 DEF BookInv, Fresh
  <1>3. Cells(directory) = {} /\ Cells(directory)' = {}
    BY <1>1, <1>2 DEF Cells, EmptyImage
  <1>4. unlisted = {} /\ \A id \in Ids : locations[id] = {}
    BY <1>1, <1>3 DEF BookInv, Unlisted, Listed
  <1>5. Listed' /\ SingleOpen' /\ Unlisted'
    BY <1>1, <1>3, <1>4 DEF Listed, SingleOpen, Unlisted
  <1>6. Fresh'
    BY <1>1, BoundsAssumption DEF BookInv, Fresh, Pages
  <1>7. RealStamps' /\ DoomedByVacuum' /\ Drafted' /\ ReadyDraft'
    BY <1>1 DEF BookInv, RealStamps, InWrite, DoomedByVacuum, Drafted, ReadyDraft
  <1>8. Ready'
    <2>1. \A id : NoneOpen(id)'
      BY <1>3 DEF NoneOpen
    <2> QED
      BY <1>1, <2>1 DEF BookInv, Ready
  <1> QED
    BY <1>5, <1>6, <1>7, <1>8 DEF BookInv

\* What is asked of the private clone `img' of page p with the rows `rows'.
CloneOf(p, img, rows) ==
  /\ p \in directory
  /\ \A s \in Slots : img[s] # image[p][s] =>
       /\ image[p][s] = Free
       /\ \E k \in (DOMAIN call.ids) \ toPlace :
            img[s] = RowCell(k) /\ <<call.ids[k], s>> \in rows
  /\ \A row \in rows :
       /\ image[p][row[2]] = Free
       /\ img[row[2]] # Free /\ img[row[2]].id = row[1]
  /\ \A row \in rows : NoneOpen(row[1])
  /\ \A x, y \in rows : x[1] = y[1] => x = y
  /\ call.kind # "rounds" => rows = {}
  /\ call.kind = "rounds" => \A k \in toPlace, row \in rows : row[1] # call.ids[k]

LEMMA FillBooks ==
  ASSUME TypeOK, BookInv, NEW p, NEW img \in Image, NEW rows \in SUBSET (Ids \X Slots),
         CloneOf(p, img, rows), Fill(p, img, rows),
         wpc = "place" \/ (wpc = "filled" /\ call.kind = "rounds")
  PROVE  BookInv'
  <1>1. PICK k \in toPlace, s \in FreeSlots(img) :
          /\ call.kind # "rounds" => First(toPlace, k)
          /\ draft' = [page |-> p, img |-> Filled(img, s, RowCell(k)),
                       rows |-> rows \cup {<<call.ids[k], s>>}]
          /\ toPlace' = toPlace \ {k}
          /\ wpc' = "filled"
          /\ UNCHANGED <<image, directory, nextPage, locations, clock, call, toClose, unlisted,
                         doomed>>
    BY DEF Fill, RowCell
  <1>2. /\ s \in Slots /\ img[s] = Free /\ image[p][s] = Free /\ RowCell(k) # Free
        /\ k \in DOMAIN call.ids
    <2>1. s \in Slots /\ img[s] = Free
      BY DEF FreeSlots
    <2>2. image[p][s] = Free
      BY <2>1 DEF CloneOf
    <2>3. RowCell(k) \in Version
      BY PageTypes, BeforeTheEnd DEF RowCell, Version, Vec
    <2> QED
      BY <2>1, <2>2, <2>3, FreeAssumption, PageTypes
  <1>3. /\ draft'.page = p /\ draft'.rows = rows \cup {<<call.ids[k], s>>}
        /\ \A t \in Slots : draft'.img[t] = IF t = s THEN RowCell(k) ELSE img[t]
    BY <1>1, <1>2 DEF Filled, Image
  <1>4. /\ Fresh' /\ SingleOpen' /\ Cells(directory)' = Cells(directory)
        /\ \A id : NoneOpen(id)' <=> NoneOpen(id)
        /\ \A c : At(c)' = At(c)
    BY <1>1, SamePages
  <1>5. Listed' /\ Unlisted'
    BY <1>1, <1>4 DEF BookInv, Listed, Unlisted
  <1>6. RealStamps' /\ DoomedByVacuum'
    BY <1>1 DEF BookInv, RealStamps, InWrite, DoomedByVacuum
  <1>7. toClose = {} /\ \A j \in toPlace : call.kind = "rounds" \/ First(toPlace, j) => NoneOpen(call.ids[j])
    BY DEF BookInv, Ready
  <1>8. \A i \in DOMAIN call.ids : RowCell(i)' = RowCell(i)
    BY <1>1 DEF RowCell
  <1>9. Drafted'
    <2>1. ASSUME NEW t \in Slots, draft'.img[t] # image[p][t]
          PROVE  /\ image[p][t] = Free
                 /\ \E i \in (DOMAIN call.ids) \ toPlace' :
                      draft'.img[t] = RowCell(i) /\ <<call.ids[i], t>> \in draft'.rows
      <3>1. CASE t = s
        BY <1>1, <1>2, <1>3, <3>1
      <3>2. CASE t # s
        BY <1>1, <1>3, <2>1, <3>2 DEF CloneOf
      <3> QED
        BY <3>1, <3>2
    <2>2. \A row \in rows : row[2] \in Slots /\ row[2] # s
      BY <1>2 DEF CloneOf
    <2>3. ASSUME NEW row \in draft'.rows
          PROVE  image[p][row[2]] = Free /\ draft'.img[row[2]] # Free /\ draft'.img[row[2]].id = row[1]
      <3>1. CASE row \in rows
        BY <1>3, <2>2, <3>1 DEF CloneOf
      <3>2. CASE row = <<call.ids[k], s>>
        BY <1>2, <1>3, <3>2 DEF RowCell
      <3> QED
        BY <1>3, <2>3, <3>1, <3>2
    <2> QED
      BY <1>1, <1>3, <1>8, <2>1, <2>3 DEF Drafted, CloneOf
  <1>10. ReadyDraft'
    <2>1. NoneOpen(call.ids[k])
      BY <1>1, <1>7
    <2>2. \A row \in draft'.rows : NoneOpen(row[1])
      BY <1>3, <2>1 DEF CloneOf
    <2>3. \A x \in rows : x[1] # call.ids[k]
      <3>1. call.kind = "rounds" \/ rows = {}
        BY DEF CloneOf
      <3> QED
        BY <3>1 DEF CloneOf
    <2>4. \A x, y \in draft'.rows : x[1] = y[1] => x = y
      BY <1>3, <2>3 DEF CloneOf
    <2>5. call.kind # "rounds" => \A x, y \in draft'.rows : x = y
      BY <1>3 DEF CloneOf
    <2>6. ASSUME call.kind = "rounds", NEW j \in toPlace', NEW row \in draft'.rows
          PROVE  row[1] # call.ids[j]
      <3>1. j \in toPlace /\ j # k
        BY <1>1, <2>6
      <3>2. call.ids[j] # call.ids[k]
        BY <2>6, <3>1 DEF BookInv, Ready, Repeats
      <3> QED
        BY <1>3, <2>6, <3>1, <3>2 DEF CloneOf
    <2> QED
      BY <1>1, <1>4, <2>2, <2>4, <2>5, <2>6 DEF ReadyDraft
  <1>11. Ready'
    <2>1. call.kind = "rounds" => ~Repeats(toPlace', call.ids)
      BY <1>1 DEF BookInv, Ready, Repeats
    <2>2. wpc' = "filled" /\ toClose' = {} /\ call' = call
      BY <1>1, <1>7
    <2>3. call.kind = "rounds" => \A j \in toPlace' : NoneOpen(call.ids[j])'
      <3>1. ASSUME call.kind = "rounds", NEW j \in toPlace' PROVE NoneOpen(call.ids[j])'
        <4>1. NoneOpen(call.ids[j])
          BY <1>1, <1>7, <3>1
        <4> QED
          BY <1>1, <1>4, <4>1 DEF NoneOpen
      <3> QED
        BY <3>1
    <2> QED
      BY <1>1, <2>1, <2>2, <2>3 DEF Ready
  <1> QED
    BY <1>4, <1>5, <1>6, <1>9, <1>10, <1>11 DEF BookInv

LEMMA PlaceBooks ==
  ASSUME TypeOK, BookInv, Place \/ PlaceMore
  PROVE  BookInv'
  <1>1. CASE Place
    <2>1. PICK p \in directory : Fill(p, image[p], {})
      BY <1>1 DEF Place
    <2>2. CloneOf(p, image[p], {}) /\ image[p] \in Image
      BY PageTypes DEF CloneOf
    <2> QED
      BY <1>1, <2>1, <2>2, FillBooks DEF Place
  <1>2. CASE PlaceMore
    <2>1. draft.img \in Image /\ draft.rows \in SUBSET (Ids \X Slots)
      BY DEF TypeOK, WriterTypes
    <2>2. CloneOf(draft.page, draft.img, draft.rows)
      BY <1>2 DEF CloneOf, PlaceMore, BookInv, Drafted, ReadyDraft
    <2> QED
      BY <1>2, <2>1, <2>2, FillBooks DEF PlaceMore
  <1> QED
    BY <1>1, <1>2

\* The rows of a clone become cells of its page.
LEMMA PublishCells ==
  ASSUME TypeOK, BookInv, Publish
  PROVE  /\ \A c \in Cells(directory) : c \in Cells(directory)' /\ At(c)' = At(c)
         /\ \A c \in Cells(directory)' : c \in Cells(directory) \/
              (c[1] = draft.page /\ <<At(c)'.id, c[2]>> \in draft.rows /\ At(c)'.end = MAX_TS)
         /\ \A row \in draft.rows : row[2] \in Slots /\ <<draft.page, row[2]>> \in Cells(directory)'
                                    /\ image'[draft.page][row[2]].id = row[1]
  <1>1. /\ wpc = "filled" /\ draft.page \in directory /\ draft.page \in Pages /\ draft.img \in Image
        /\ draft.rows \subseteq Ids \X Slots /\ directory' = directory
        /\ image' = [image EXCEPT ![draft.page] = draft.img]
    BY PageTypes DEF Publish, BookInv, Drafted, TypeOK, WriterTypes
  <1>2. \A p \in Pages : image'[p] = IF p = draft.page THEN draft.img ELSE image[p]
    BY <1>1, PageTypes
  <1>3. \A s \in Slots : image[draft.page][s] # Free => draft.img[s] = image[draft.page][s]
    BY <1>1 DEF BookInv, Drafted
  <1>4. ASSUME NEW c \in Cells(directory) PROVE c \in Cells(directory)' /\ At(c)' = At(c)
    <2>1. c = <<c[1], c[2]>> /\ c[1] \in directory /\ c[1] \in Pages /\ c[2] \in Slots /\ At(c) # Free
      BY CellFacts
    <2>2. image'[c[1]][c[2]] = image[c[1]][c[2]]
      BY <1>2, <1>3, <2>1 DEF At
    <2> QED
      BY <1>1, <2>1, <2>2 DEF At, Cells
  <1>5. ASSUME NEW c \in Cells(directory)', c \notin Cells(directory)
        PROVE  c[1] = draft.page /\ <<At(c)'.id, c[2]>> \in draft.rows /\ At(c)'.end = MAX_TS
    <2>1. c[1] \in Pages /\ c[2] \in Slots /\ image'[c[1]][c[2]] # Free
          /\ image[c[1]][c[2]] = Free
      BY <1>1, <1>5, PageTypes DEF Cells
    <2>2. c[1] = draft.page /\ draft.img[c[2]] # image[draft.page][c[2]]
      BY <1>2, <2>1
    <2>3. PICK k \in DOMAIN call.ids : draft.img[c[2]] = RowCell(k) /\ <<call.ids[k], c[2]>> \in draft.rows
      BY <1>1, <2>1, <2>2 DEF BookInv, Drafted
    <2>4. At(c)' = RowCell(k) /\ At(c)'.id = call.ids[k] /\ At(c)'.end = MAX_TS
      BY <1>2, <2>1, <2>2, <2>3 DEF At, RowCell
    <2> QED
      BY <2>2, <2>3, <2>4
  <1>6. ASSUME NEW row \in draft.rows
        PROVE  /\ row[2] \in Slots /\ <<draft.page, row[2]>> \in Cells(directory)'
               /\ image'[draft.page][row[2]].id = row[1]
    <2>1. row[2] \in Slots /\ draft.img[row[2]] # Free /\ draft.img[row[2]].id = row[1]
      BY <1>1 DEF BookInv, Drafted
    <2>2. image'[draft.page][row[2]] = draft.img[row[2]]
      BY <1>1, <1>2
    <2>3. <<draft.page, row[2]>> \in directory' \X Slots
      BY <1>1, <2>1
    <2> QED
      BY <2>1, <2>2, <2>3 DEF At, Cells
  <1> QED
    BY <1>4, <1>5, <1>6

\* A published row is the only open version of its id.
LEMMA PublishFrame ==
  ASSUME TypeOK, BookInv, Publish
  PROVE  SingleOpen' /\ Fresh'
  <1>1. wpc = "filled" /\ draft.page \in directory /\ UNCHANGED <<directory, nextPage>>
        /\ image' = [image EXCEPT ![draft.page] = draft.img]
    BY DEF Publish, BookInv, Drafted
  <1>2. \A c \in Cells(directory)' : c = <<c[1], c[2]>>
    BY DEF Cells
  <1>3. ASSUME NEW c \in Cells(directory)', NEW d \in Cells(directory)',
               At(c)'.end = MAX_TS, At(d)'.end = MAX_TS, At(c)'.id = At(d)'.id,
               c \notin Cells(directory)
        PROVE  c = d
    <2>1. c[1] = draft.page /\ <<At(c)'.id, c[2]>> \in draft.rows
      BY <1>3, PublishCells
    <2>2. NoneOpen(At(c)'.id)
      <3>1. <<At(c)'.id, c[2]>>[1] = At(c)'.id
        OBVIOUS
      <3> QED
        BY <1>1, <2>1, <3>1 DEF BookInv, ReadyDraft
    <2>3. d \notin Cells(directory)
      BY <1>3, <2>2, PublishCells DEF NoneOpen
    <2>4. d[1] = draft.page /\ <<At(c)'.id, d[2]>> \in draft.rows
      BY <1>3, <2>3, PublishCells
    <2>5. <<At(c)'.id, c[2]>> = <<At(c)'.id, d[2]>>
      BY <1>1, <2>1, <2>4 DEF BookInv, ReadyDraft
    <2> QED
      BY <1>2, <1>3, <2>1, <2>4, <2>5
  <1>4. SingleOpen'
    <2>1. ASSUME NEW c \in Cells(directory)', NEW d \in Cells(directory)',
                 At(c)'.end = MAX_TS, At(d)'.end = MAX_TS, At(c)'.id = At(d)'.id
          PROVE  c = d
      <3>1. CASE c \in Cells(directory) /\ d \in Cells(directory)
        BY <2>1, <3>1, PublishCells DEF BookInv, SingleOpen
      <3>2. CASE c \notin Cells(directory)
        BY <1>3, <2>1, <3>2
      <3>3. CASE d \notin Cells(directory)
        BY <1>3, <2>1, <3>3
      <3> QED
        BY <3>1, <3>2, <3>3
    <2> QED
      BY <2>1 DEF SingleOpen
  <1>5. Fresh'
    <2>1. draft.page < nextPage /\ draft.page \in Nat /\ nextPage \in Nat
      BY <1>1, PageTypes, BoundsAssumption DEF BookInv, Fresh, Pages
    <2>2. ASSUME NEW p \in Pages, nextPage <= p PROVE image'[p] = image[p]
      <3>1. p # draft.page
        BY <2>1, <2>2 DEF Pages
      <3> QED
        BY <1>1, <3>1, PageTypes
    <2> QED
      BY <1>1, <2>2 DEF BookInv, Fresh
  <1> QED
    BY <1>4, <1>5

LEMMA PublishBooks == TypeOK /\ BookInv /\ Publish => BookInv'
  <1> SUFFICES ASSUME TypeOK, BookInv, Publish PROVE BookInv'
    OBVIOUS
  <1>1. /\ wpc = "filled"
        /\ UNCHANGED <<directory, nextPage, clock, call, toPlace, doomed>>
    BY DEF Publish
  <1>2. doomed = Nothing /\ toClose = {}
    BY <1>1 DEF BookInv, DoomedByVacuum, Ready
  <1>3. \A row \in draft.rows : row[1] \in Ids /\ row[2] \in Slots /\ row = <<row[1], row[2]>>
    BY DEF TypeOK, WriterTypes
  <1>4. \A c \in Cells(directory)' : c \in Pages \X Slots
    BY <1>1, PageTypes DEF Cells
  <1>5. CASE call.kind = "rounds"
    <2>1. /\ unlisted' = unlisted \cup {<<row[1], draft.page, row[2]>> : row \in draft.rows}
          /\ UNCHANGED <<locations, toClose>>
          /\ wpc' = IF toPlace = {} THEN "list" ELSE "place"
      BY <1>5 DEF Publish
    <2>2. Listed'
      <3>1. \A id \in Ids : \A l \in locations[id] :
               l[1] \in directory /\ At(l)' # Free /\ At(l)'.id = id
        <4>1. ASSUME NEW id \in Ids, NEW l \in locations[id]
              PROVE  l[1] \in directory /\ At(l)' # Free /\ At(l)'.id = id
          <5>1. l[1] \in directory /\ At(l) # Free /\ At(l).id = id /\ l \in Pages \X Slots
            BY <1>1 DEF BookInv, Listed, TypeOK, SharedTypes, Location
          <5>2. l \in Cells(directory)
            BY <5>1 DEF Cells, At
          <5> QED
            BY <5>1, <5>2, PublishCells
        <4> QED
          BY <4>1
      <3>2. ASSUME NEW id \in Ids, NEW c \in Cells(directory)', At(c)'.id = id
            PROVE  c \in locations[id] \/ <<id, c[1], c[2]>> \in unlisted'
        <4>1. CASE c \in Cells(directory)
          BY <2>1, <3>2, <4>1, PublishCells DEF BookInv, Listed
        <4>2. CASE c \notin Cells(directory)
          <5>1. c[1] = draft.page /\ <<id, c[2]>> \in draft.rows
            BY <3>2, <4>2, PublishCells
          <5> QED
            BY <2>1, <5>1
        <4> QED
          BY <4>1, <4>2
      <3> QED
        BY <1>1, <2>1, <3>1, <3>2 DEF Listed
    <2>3. Unlisted'
      <3>1. ASSUME NEW x \in unlisted'
            PROVE  <<x[2], x[3]>> \in Cells(directory)' /\ image'[x[2]][x[3]].id = x[1]
        <4>1. CASE x \in unlisted
          BY <4>1, PublishCells DEF BookInv, Unlisted, At
        <4>2. CASE x \notin unlisted
          <5>1. PICK row \in draft.rows : x = <<row[1], draft.page, row[2]>>
            BY <2>1, <4>2
          <5>2. <<x[2], x[3]>> = <<draft.page, row[2]>> /\ x[1] = row[1]
            BY <5>1
          <5> QED
            BY <5>2, PublishCells
        <4> QED
          BY <4>1, <4>2
      <3> QED
        BY <1>1, <1>5, <2>1, <3>1 DEF Unlisted, At
    <2>4. Ready'
      <3>1. ASSUME NEW k \in toPlace PROVE NoneOpen(call.ids[k])'
        <4>1. NoneOpen(call.ids[k])
          BY <1>2, <1>5, <3>1 DEF BookInv, Ready
        <4>2. \A row \in draft.rows : row[1] # call.ids[k]
          BY <1>1, <1>5, <3>1 DEF BookInv, ReadyDraft
        <4>3. \A c \in Cells(directory)' : At(c)'.id = call.ids[k] => At(c)'.end # MAX_TS
          BY <4>1, <4>2, PublishCells DEF NoneOpen
        <4>4. call'.ids[k'] = call.ids[k]
          BY <1>1
        <4> QED
          BY <1>1, <4>3 DEF NoneOpen
      <3> QED
        BY <1>1, <1>2, <1>5, <2>1, <3>1 DEF BookInv, Ready, Repeats
    <2>5. wpc' \in {"list", "place"}
      BY <2>1
    <2>6. RealStamps' /\ DoomedByVacuum' /\ Drafted' /\ ReadyDraft'
      BY <1>1, <1>2, <2>5 DEF BookInv, RealStamps, InWrite, DoomedByVacuum, Drafted, ReadyDraft
    <2> QED
      BY <2>2, <2>3, <2>4, <2>6, PublishFrame DEF BookInv
  <1>6. CASE call.kind # "rounds"
    <2>1. /\ locations' = [id \in Ids |-> locations[id] \cup Rows(draft.page, id, draft.rows)]
          /\ toClose' = {k \in toPlace : First(toPlace, k)}
          /\ wpc' = IF toPlace # {} THEN "close" ELSE AfterRows
          /\ unlisted' = unlisted
      BY <1>6 DEF Publish
    <2>2. unlisted = {}
      BY <1>6 DEF BookInv, Unlisted
    <2>3. toPlace # {} => wpc' = "close"
      BY <2>1
    <2>4. toPlace = {} => wpc' \in {"block", "consolidate", "commit"} /\ toClose' = {}
      BY <2>1 DEF AfterRows
    <2>5. Listed'
      <3>1. ASSUME NEW id \in Ids, NEW l \in locations'[id]
            PROVE  l[1] \in directory /\ At(l)' # Free /\ At(l)'.id = id
        <4>1. CASE l \in locations[id]
          <5>1. l[1] \in directory /\ At(l) # Free /\ At(l).id = id /\ l \in Pages \X Slots
            BY <1>1, <4>1 DEF BookInv, Listed, TypeOK, SharedTypes, Location
          <5>2. l \in Cells(directory)
            BY <5>1 DEF Cells, At
          <5> QED
            BY <5>1, <5>2, PublishCells
        <4>2. CASE l \notin locations[id]
          <5>1. PICK row \in draft.rows : row[1] = id /\ l = <<draft.page, row[2]>>
            BY <2>1, <3>1, <4>2 DEF Rows
          <5>2. /\ <<draft.page, row[2]>> \in Cells(directory)'
                /\ image'[draft.page][row[2]].id = id
            BY <5>1, PublishCells
          <5> QED
            BY <1>1, <5>1, <5>2 DEF Cells, At
        <4> QED
          BY <4>1, <4>2
      <3>2. ASSUME NEW id \in Ids, NEW c \in Cells(directory)', At(c)'.id = id
            PROVE  c \in locations'[id]
        <4>1. CASE c \in Cells(directory)
          BY <2>1, <2>2, <3>2, <4>1, PublishCells DEF BookInv, Listed
        <4>2. CASE c \notin Cells(directory)
          <5>1. c[1] = draft.page /\ <<id, c[2]>> \in draft.rows /\ c = <<c[1], c[2]>>
            BY <1>4, <3>2, <4>2, PublishCells
          <5>2. c \in Rows(draft.page, id, draft.rows)
            BY <5>1 DEF Rows
          <5> QED
            BY <2>1, <5>2
        <4> QED
          BY <4>1, <4>2
      <3> QED
        BY <1>1, <2>1, <3>1, <3>2 DEF Listed
    <2>6. Unlisted'
      BY <2>1, <2>2 DEF Unlisted
    <2>7. Ready'
      BY <1>1, <1>6, <2>1, <2>3, <2>4 DEF Ready
    <2>8. RealStamps' /\ DoomedByVacuum' /\ Drafted' /\ ReadyDraft'
      <3>1. wpc' \notin {"reclaim", "filled"} /\ (InWrite)
        BY <1>1, <2>3, <2>4 DEF InWrite
      <3> QED
        BY <1>1, <1>2, <3>1 DEF BookInv, RealStamps, DoomedByVacuum, Drafted, ReadyDraft
    <2> QED
      BY <2>5, <2>6, <2>7, <2>8, PublishFrame DEF BookInv
  <1> QED
    BY <1>5, <1>6

LEMMA ListBooks == TypeOK /\ BookInv /\ List => BookInv'
  <1> SUFFICES ASSUME TypeOK, BookInv, List PROVE BookInv'
    OBVIOUS
  <1>1. /\ wpc \in {"place", "list"} /\ unlisted # {} /\ unlisted' = {} /\ wpc' = AfterRows
        /\ locations' = [id \in Ids |-> locations[id] \cup
                           {<<x[2], x[3]>> : x \in {y \in unlisted : y[1] = id}}]
        /\ UNCHANGED <<image, directory, nextPage, clock, call, toClose, toPlace, draft, doomed>>
    BY DEF List
  <1>2. doomed = Nothing /\ toClose = {} /\ call.kind = "rounds"
    BY <1>1 DEF BookInv, DoomedByVacuum, Ready, Unlisted
  <1>3. wpc' = "place" \/ (toPlace = {} /\ wpc' \in {"block", "consolidate", "commit"})
    BY <1>1 DEF AfterRows
  <1>4. /\ Fresh' /\ SingleOpen' /\ Cells(directory)' = Cells(directory)
        /\ \A id : NoneOpen(id)' <=> NoneOpen(id)
        /\ \A c : At(c)' = At(c)
    BY <1>1, SamePages
  <1>5. Listed'
    <2>2. ASSUME NEW id \in Ids, NEW l \in locations'[id]
          PROVE  l[1] \in directory /\ At(l) # Free /\ At(l).id = id
      <3>1. CASE l \in locations[id]
        BY <1>1, <3>1 DEF BookInv, Listed
      <3>2. CASE l \notin locations[id]
        <4>1. PICK x \in unlisted : x[1] = id /\ l = <<x[2], x[3]>>
          BY <1>1, <2>2, <3>2
        <4>2. <<x[2], x[3]>> \in Cells(directory) /\ image[x[2]][x[3]].id = x[1]
          BY DEF BookInv, Unlisted
        <4> QED
          BY <4>1, <4>2 DEF Cells, At
      <3> QED
        BY <3>1, <3>2
    <2>3. ASSUME NEW id \in Ids, NEW c \in Cells(directory), At(c).id = id
          PROVE  c \in locations'[id]
      <3>1. c = <<c[1], c[2]>>
        BY CellFacts
      <3>2. CASE c \in locations[id]
        BY <1>1, <3>2
      <3>3. CASE <<id, c[1], c[2]>> \in unlisted
        <4> DEFINE x == <<id, c[1], c[2]>>
        <4>1. x[1] = id /\ c = <<x[2], x[3]>> /\ x \in unlisted
          BY <3>1, <3>3
        <4> HIDE DEF x
        <4> QED
          BY <1>1, <4>1
      <3> QED
        BY <2>3, <3>2, <3>3 DEF BookInv, Listed
    <2> QED
      BY <1>1, <1>4, <2>2, <2>3 DEF Listed
  <1>6. RealStamps' /\ DoomedByVacuum' /\ Drafted' /\ ReadyDraft' /\ Unlisted'
    <2>1. wpc' \notin {"reclaim", "filled"} /\ InWrite
      BY <1>1, <1>3 DEF InWrite
    <2> QED
      BY <1>1, <1>2, <2>1 DEF BookInv, RealStamps, DoomedByVacuum, Drafted, ReadyDraft, Unlisted
  <1>7. Ready'
    <2>1. ASSUME NEW k \in toPlace PROVE NoneOpen(call.ids[k])'
      <3>1. NoneOpen(call.ids[k])
        BY <1>1, <1>2, <2>1 DEF BookInv, Ready
      <3> QED
        BY <1>1, <1>4, <3>1 DEF NoneOpen
    <2> QED
      BY <1>1, <1>2, <1>3, <2>1 DEF BookInv, Ready, Repeats
  <1> QED
    BY <1>4, <1>5, <1>6, <1>7 DEF BookInv

\* Searches, and steps of nobody, leave the books alone.
LEMMA QuietBooks ==
  ASSUME BookInv, UNCHANGED <<writer_shared, writer_local>>
  PROVE  BookInv'
  <1>1. UNCHANGED <<image, directory, nextPage, locations, clock, wpc, call, toClose, toPlace,
                    draft, unlisted, doomed>>
    BY DEF writer_shared, writer_local
  <1>2. Fresh' /\ SingleOpen' /\ Listed' /\ Unlisted'
    BY <1>1 DEF BookInv, Fresh, SingleOpen, Listed, Unlisted, Cells, At
  <1>3. RealStamps' /\ DoomedByVacuum' /\ Drafted'
    BY <1>1 DEF BookInv, RealStamps, InWrite, DoomedByVacuum, Drafted, RowCell
  <1>4. Ready' /\ ReadyDraft'
    BY <1>1 DEF BookInv, Ready, ReadyDraft, NoneOpen, Repeats, Cells, At
  <1> QED
    BY <1>2, <1>3, <1>4 DEF BookInv

-----------------------------------------------------------------------------
(* Splitting and merging copy every version of the old pages to one place  *)
(* on the new ones.                                                        *)

\* The pages `new', made by this step, hold the versions of the pages `old': the
\* one at c comes from src[c].
Copies(old, new, src) ==
  /\ old \subseteq directory /\ new \subseteq Pages
  /\ \A p \in new : nextPage <= p /\ p < nextPage'
  /\ directory' = (directory \ old) \cup new
  /\ locations' = Relocated(old, new, image')
  /\ nextPage <= nextPage' /\ nextPage' \in Nat
  /\ \A p \in Pages : p \notin new => image'[p] = image[p]
  /\ \A p \in new, s \in Slots : image'[p][s] # Free =>
       src[<<p, s>>] \in Cells(old) /\ image'[p][s] = At(src[<<p, s>>])
  /\ \A p, q \in new, s, t \in Slots :
       image'[p][s] # Free /\ image'[q][t] # Free /\ src[<<p, s>>] = src[<<q, t>>]
         => p = q /\ s = t
  /\ \A c \in Cells(old) : \E p \in new, s \in Slots : image'[p][s] # Free /\ src[<<p, s>>] = c

LEMMA SplitCopies ==
  ASSUME TypeOK, BookInv, Split
  PROVE  \E old, new, src : Copies(old, new, src)
  <1>1. PICK p \in directory : \E L \in SUBSET Occupied(image[p]) :
          LET R == Occupied(image[p]) \ L
          IN /\ image' = [image EXCEPT ![nextPage] = Half(image[p], L), ![nextPage + 1] = Half(image[p], R)]
             /\ directory' = (directory \ {p}) \cup {nextPage, nextPage + 1}
             /\ locations' = Relocated({p}, {nextPage, nextPage + 1}, image')
    BY DEF Split
  <1>2. PICK L \in SUBSET Occupied(image[p]) :
          LET R == Occupied(image[p]) \ L
          IN /\ image' = [image EXCEPT ![nextPage] = Half(image[p], L), ![nextPage + 1] = Half(image[p], R)]
             /\ directory' = (directory \ {p}) \cup {nextPage, nextPage + 1}
             /\ locations' = Relocated({p}, {nextPage, nextPage + 1}, image')
    BY <1>1
  <1>3. PICK a \in Pages, b \in Pages : a = nextPage /\ b = nextPage + 1
    BY BoundsAssumption DEF Split, Pages, TypeOK, SharedTypes
  <1>4. /\ a \in Nat /\ b \in Nat /\ a # b /\ p \in Pages /\ nextPage' = nextPage + 2
        /\ p < nextPage /\ p \in Nat /\ p # a /\ p # b
    <2>1. directory \subseteq Pages /\ nextPage \in Nat
      BY PageTypes
    <2>2. p \in Pages /\ p < nextPage
      BY <2>1 DEF BookInv, Fresh
    <2>3. \A q \in Pages : q \in Nat
      BY BoundsAssumption DEF Pages
    <2>4. nextPage' = nextPage + 2
      BY DEF Split
    <2> QED
      BY <1>3, <2>1, <2>2, <2>3, <2>4
  <1> DEFINE R == Occupied(image[p]) \ L
             new == {a, b}
             src == [c \in new \X Slots |-> <<p, c[2]>>]
  <1>5. /\ \A q \in Pages : q \notin new => image'[q] = image[q]
        /\ image'[a] = Half(image[p], L) /\ image'[b] = Half(image[p], R)
    <2>1. image' = [image EXCEPT ![a] = Half(image[p], L), ![b] = Half(image[p], R)]
      BY <1>2, <1>3
    <2>2. image \in [Pages -> Image]
      BY PageTypes
    <2> QED
      BY <1>4, <2>1, <2>2
  <1>6. \A s \in Slots : /\ image'[a][s] = IF s \in L THEN image[p][s] ELSE Free
                         /\ image'[b][s] = IF s \in R THEN image[p][s] ELSE Free
    BY <1>5 DEF Half
  <1>7. \A q \in new, s \in Slots : src[<<q, s>>] = <<p, s>>
    OBVIOUS
  <1>8. \A q \in new, s \in Slots : image'[q][s] # Free =>
          image[p][s] # Free /\ image'[q][s] = image[p][s] /\ (q = a <=> s \in L)
    BY <1>4, <1>6 DEF Occupied
  <1>9. \A s \in Slots : image[p][s] # Free => image'[a][s] # Free \/ image'[b][s] # Free
    BY <1>6 DEF Occupied
  <1> HIDE DEF src
  <1>10. /\ directory' = (directory \ {p}) \cup new
         /\ locations' = Relocated({p}, new, image')
         /\ {p} \subseteq directory /\ new \subseteq Pages
         /\ \A q \in new : nextPage <= q /\ q < nextPage'
         /\ nextPage <= nextPage' /\ nextPage' \in Nat
    BY <1>2, <1>3, <1>4
  <1>11. \A q \in new, s \in Slots : image'[q][s] # Free =>
           src[<<q, s>>] \in Cells({p}) /\ image'[q][s] = At(src[<<q, s>>])
    BY <1>7, <1>8 DEF Cells, At
  <1>12. \A q, r \in new, s, t \in Slots :
           image'[q][s] # Free /\ image'[r][t] # Free /\ src[<<q, s>>] = src[<<r, t>>]
             => q = r /\ s = t
    BY <1>7, <1>8
  <1>13. \A c \in Cells({p}) : \E q \in new, s \in Slots : image'[q][s] # Free /\ src[<<q, s>>] = c
    BY <1>7, <1>9 DEF Cells
  <1>14. Copies({p}, new, src)
    BY <1>5, <1>10, <1>11, <1>12, <1>13 DEF Copies
  <1> QED
    BY <1>14

\* A packing takes one cell to a slot.
LEMMA OneSource ==
  ASSUME NEW P, Packings(Cells(P)) # {}
  PROVE  /\ \A s : Sources(P, s) # {} => Source(P, s) \in Sources(P, s)
         /\ \A s : \A c \in Sources(P, s) : c \in Cells(P) /\ c = Source(P, s)
         /\ \A s, t : Sources(P, s) # {} /\ Sources(P, t) # {} /\ Source(P, s) = Source(P, t) => s = t
         /\ \A c \in Cells(P) : \E s \in Slots : c \in Sources(P, s)
  <1> DEFINE packing == CHOOSE f \in Packings(Cells(P)) : TRUE
  <1>1. packing \in Packings(Cells(P))
    OBVIOUS
  <1>2. /\ packing \in [Cells(P) -> Slots]
        /\ \A c, d \in Cells(P) : packing[c] = packing[d] => c = d
    BY <1>1 DEF Packings
  <1>3. \A s : Sources(P, s) = {c \in Cells(P) : packing[c] = s}
    BY DEF Sources
  <1> HIDE DEF packing
  <1>4. \A s : Sources(P, s) # {} => Source(P, s) \in Sources(P, s)
    BY DEF Source
  <1>5. \A s : \A c \in Sources(P, s) : c \in Cells(P) /\ c = Source(P, s)
    BY <1>2, <1>3, <1>4
  <1>6. \A c \in Cells(P) : packing[c] \in Slots /\ c \in Sources(P, packing[c])
    BY <1>2, <1>3
  <1>7. \A s, t : Sources(P, s) # {} /\ Sources(P, t) # {} /\ Source(P, s) = Source(P, t) => s = t
    BY <1>3, <1>4
  <1> QED
    BY <1>4, <1>5, <1>6, <1>7

LEMMA MergeCopies ==
  ASSUME TypeOK, BookInv, MergeMany
  PROVE  \E old, new, src : Copies(old, new, src)
  <1>1. PICK D \in SUBSET EmptyPages, m \in 0..(MaxPages + 1 - nextPage) :
          \E g \in Groups(m) : Merge(D, m, g)
    BY DEF MergeMany
  <1>2. PICK g \in Groups(m) : Merge(D, m, g)
    BY <1>1
  <1>3. PICK n \in Nat : n = nextPage
    BY PageTypes
  <1>4. m \in Nat /\ n + m <= MaxPages + 1 /\ n >= 1 /\ MaxPages \in Nat
    BY <1>3, BoundsAssumption DEF TypeOK, SharedTypes
  <1> DEFINE new == n..(n + m - 1)
             K(q) == q - n + 1
             old == D \cup {p \in DOMAIN g : g[p] # 0}
             src == [c \in new \X Slots |-> Source(Group(g, K(c[1])), c[2])]
  <1>5. /\ image' = [q \in Pages |-> IF q \in new THEN MergedImage(Group(g, K(q))) ELSE image[q]]
        /\ directory' = (directory \ old) \cup new
        /\ locations' = Relocated(old, new, image')
        /\ nextPage' = nextPage + m
    BY <1>2, <1>3 DEF Merge
  <1>6. DOMAIN g = directory \ EmptyPages /\ \A p \in DOMAIN g : g[p] \in 0..m
    BY DEF Groups
  <1>7. new \subseteq Pages /\ old \subseteq directory
    BY <1>4, <1>6 DEF Pages, EmptyPages
  <1>8. \A q \in new : K(q) \in 1..m /\ q = n + K(q) - 1
    BY <1>3, <1>4
  <1>9. \A k \in 1..m : n + k - 1 \in new /\ K(n + k - 1) = k
    BY <1>3, <1>4
  <1>10. \A k \in 1..m : Packings(Cells(Group(g, k))) # {}
    BY <1>2 DEF Groups
  <1>11. \A k \in 1..m : Group(g, k) \subseteq old
    BY <1>6 DEF Group
  <1>12. \A q \in new, s \in Slots : src[<<q, s>>] = Source(Group(g, K(q)), s)
    OBVIOUS
  <1>13. \A q \in new, s \in Slots :
           image'[q][s] = IF Sources(Group(g, K(q)), s) = {} THEN Free ELSE At(Source(Group(g, K(q)), s))
    BY <1>5, <1>7 DEF MergedImage, At
  <1> HIDE DEF src, new, old, K
  <1>14. ASSUME NEW q \in new, NEW s \in Slots
         PROVE  /\ image'[q][s] # Free <=> Sources(Group(g, K(q)), s) # {}
                /\ image'[q][s] # Free =>
                     /\ src[<<q, s>>] \in Cells(Group(g, K(q)))
                     /\ image'[q][s] = At(src[<<q, s>>])
    <2>1. CASE Sources(Group(g, K(q)), s) = {}
      BY <1>13, <2>1
    <2>2. CASE Sources(Group(g, K(q)), s) # {}
      <3>1. Source(Group(g, K(q)), s) \in Cells(Group(g, K(q)))
        BY <1>8, <1>10, <2>2, OneSource
      <3>2. At(Source(Group(g, K(q)), s)) # Free
        BY <3>1 DEF Cells, At
      <3> QED
        BY <1>12, <1>13, <2>2, <3>1, <3>2
    <2> QED
      BY <2>1, <2>2
  <1>15. ASSUME NEW q \in new, NEW s \in Slots, image'[q][s] # Free
         PROVE  src[<<q, s>>] \in Cells(old) /\ image'[q][s] = At(src[<<q, s>>])
                /\ g[src[<<q, s>>][1]] = K(q)
    <2>1. src[<<q, s>>] \in Cells(Group(g, K(q))) /\ image'[q][s] = At(src[<<q, s>>])
      BY <1>14, <1>15
    <2>2. Group(g, K(q)) \subseteq old
      BY <1>8, <1>11
    <2> QED
      BY <2>1, <2>2 DEF Cells, Group
  <1>16. ASSUME NEW q \in new, NEW r \in new, NEW s \in Slots, NEW t \in Slots,
                image'[q][s] # Free, image'[r][t] # Free, src[<<q, s>>] = src[<<r, t>>]
         PROVE  q = r /\ s = t
    <2>1. K(q) = K(r)
      BY <1>15, <1>16
    <2>2. q = r
      BY <1>8, <2>1
    <2>3. Sources(Group(g, K(q)), s) # {} /\ Sources(Group(g, K(q)), t) # {}
          /\ Source(Group(g, K(q)), s) = Source(Group(g, K(q)), t)
      BY <1>12, <1>14, <1>16, <2>2
    <2>4. s = t
      BY <1>8, <1>10, <2>3, OneSource
    <2> QED
      BY <2>2, <2>4
  <1>17. ASSUME NEW c \in Cells(old)
         PROVE  \E q \in new, s \in Slots : image'[q][s] # Free /\ src[<<q, s>>] = c
    <2>1. c[1] \in old /\ c[2] \in Slots /\ image[c[1]][c[2]] # Free
      BY DEF Cells
    <2>2. c[1] \notin EmptyPages
      BY <2>1 DEF EmptyPages, Occupied
    <2>3. c[1] \in DOMAIN g /\ g[c[1]] # 0
      BY <2>1, <2>2 DEF old
    <2>4. PICK k \in 1..m : k = g[c[1]]
      BY <1>4, <1>6, <2>3
    <2>5. c \in Cells(Group(g, k))
      BY <2>1, <2>3, <2>4 DEF Cells, Group
    <2>6. PICK s \in Slots : c \in Sources(Group(g, k), s) /\ c = Source(Group(g, k), s)
      BY <1>10, <2>5, OneSource
    <2>7. PICK q \in new : K(q) = k
      BY <1>9
    <2>8. image'[q][s] # Free /\ src[<<q, s>>] = c
      BY <1>12, <1>14, <2>6, <2>7
    <2> QED
      BY <2>8
  <1>18. /\ \A p \in new : nextPage <= p /\ p < nextPage'
         /\ nextPage <= nextPage' /\ nextPage' \in Nat
    BY <1>3, <1>4, <1>5 DEF new
  <1>19. \A p \in Pages : p \notin new => image'[p] = image[p]
    BY <1>5
  <1>20. \A p \in new, s \in Slots : image'[p][s] # Free =>
           src[<<p, s>>] \in Cells(old) /\ image'[p][s] = At(src[<<p, s>>])
    BY <1>15
  <1>21. \A p, q \in new, s, t \in Slots :
           image'[p][s] # Free /\ image'[q][t] # Free /\ src[<<p, s>>] = src[<<q, t>>]
             => p = q /\ s = t
    BY <1>16
  <1>22. \A c \in Cells(old) :
           \E p \in new, s \in Slots : image'[p][s] # Free /\ src[<<p, s>>] = c
    BY <1>17
  <1>23. Copies(old, new, src)
    BY <1>5, <1>7, <1>18, <1>19, <1>20, <1>21, <1>22 DEF Copies
  <1> QED
    BY <1>23

\* Where the version at a cell came from: each version of the directory is copied
\* to one cell or stays in its own.
LEMMA Traces ==
  ASSUME TypeOK, TypeOK', BookInv, NEW old, NEW new, NEW src, Copies(old, new, src)
  PROVE  \E from \in [Cells(directory)' -> Cells(directory)] :
           /\ \A c \in Cells(directory)' : At(from[c]) = At(c)'
           /\ \A c, d \in Cells(directory)' : from[c] = from[d] => c = d
           /\ \A c \in Cells(directory) : \E d \in Cells(directory)' : from[d] = c
  <1>1. PICK from : from = [c \in Cells(directory)' |-> IF c[1] \in new THEN src[c] ELSE c]
    OBVIOUS
  <1>2. /\ directory' = (directory \ old) \cup new /\ old \subseteq directory
        /\ new \subseteq Pages /\ directory \subseteq Pages
        /\ \A p \in new : p \notin directory
    <2>1. \A p \in new : nextPage <= p
      BY DEF Copies
    <2>2. \A p \in directory : p < nextPage
      BY DEF BookInv, Fresh
    <2>3. directory \subseteq Pages /\ Pages \subseteq Nat /\ nextPage \in Nat
      BY PageTypes, BoundsAssumption DEF Pages
    <2>4. ASSUME NEW p \in directory, p \in new PROVE FALSE
      <3>1. p \in Nat /\ nextPage \in Nat /\ p < nextPage /\ nextPage <= p
        BY <2>1, <2>2, <2>3, <2>4
      <3> QED
        BY <3>1
    <2> QED
      BY <2>3, <2>4 DEF Copies
  <1>3. \A c \in Cells(directory)' : c = <<c[1], c[2]>> /\ c[1] \in directory' /\ c[2] \in Slots
                                     /\ image'[c[1]][c[2]] # Free
    BY DEF Cells
  <1>4. ASSUME NEW c \in Cells(directory)'
        PROVE  /\ from[c] \in Cells(directory) /\ At(from[c]) = At(c)'
               /\ c[1] \in new <=> from[c][1] \in old
    <2>1. CASE c[1] \in new
      <3>1. from[c] = src[<<c[1], c[2]>>]
        BY <1>1, <1>3, <2>1
      <3>2. \A p \in new, s \in Slots : image'[p][s] # Free =>
              src[<<p, s>>] \in Cells(old) /\ image'[p][s] = At(src[<<p, s>>])
        BY DEF Copies
      <3>3. src[<<c[1], c[2]>>] \in Cells(old) /\ image'[c[1]][c[2]] = At(src[<<c[1], c[2]>>])
        BY <1>3, <2>1, <3>2
      <3>4. from[c] \in Cells(old) /\ image'[c[1]][c[2]] = At(from[c])
        BY <3>1, <3>3
      <3> QED
        BY <1>2, <2>1, <3>4 DEF Cells, At
    <2>2. CASE c[1] \notin new
      <3>1. from[c] = c /\ c[1] \in directory /\ c[1] \notin old
        BY <1>1, <1>2, <1>3, <2>2
      <3>2. image'[c[1]] = image[c[1]]
        BY <1>2, <2>2, <3>1 DEF Copies
      <3> QED
        BY <1>3, <2>2, <3>1, <3>2 DEF Cells, At
    <2> QED
      BY <2>1, <2>2
  <1>5. ASSUME NEW c \in Cells(directory)', NEW d \in Cells(directory)', from[c] = from[d]
        PROVE  c = d
    <2>1. CASE c[1] \in new
      <3>1. d[1] \in new
        BY <1>4, <1>5, <2>1
      <3>2. src[<<c[1], c[2]>>] = src[<<d[1], d[2]>>]
        BY <1>1, <1>3, <1>5, <2>1, <3>1
      <3>3. \A p, q \in new, s, t \in Slots :
              image'[p][s] # Free /\ image'[q][t] # Free /\ src[<<p, s>>] = src[<<q, t>>]
                => p = q /\ s = t
        BY DEF Copies
      <3>4. c[1] = d[1] /\ c[2] = d[2]
        BY <1>3, <2>1, <3>1, <3>2, <3>3
      <3> QED
        BY <1>3, <3>4
    <2>2. CASE c[1] \notin new
      <3>1. d[1] \notin new
        BY <1>4, <1>5, <2>2
      <3> QED
        BY <1>1, <1>5, <2>2, <3>1
    <2> QED
      BY <2>1, <2>2
  <1>6. ASSUME NEW c \in Cells(directory)
        PROVE  \E d \in Cells(directory)' : from[d] = c
    <2>1. c = <<c[1], c[2]>> /\ c[1] \in directory /\ c[2] \in Slots /\ image[c[1]][c[2]] # Free
      BY DEF Cells
    <2>2. CASE c[1] \in old
      <3>1. c \in Cells(old)
        BY <2>1, <2>2 DEF Cells
      <3>2. PICK p \in new, s \in Slots : image'[p][s] # Free /\ src[<<p, s>>] = c
        BY <3>1 DEF Copies
      <3>3. <<p, s>> \in Cells(directory)'
        BY <1>2, <3>2 DEF Cells
      <3>4. from[<<p, s>>] = c
        BY <1>1, <3>2, <3>3
      <3> QED
        BY <3>3, <3>4
    <2>3. CASE c[1] \notin old
      <3>1. c[1] \notin new /\ c[1] \in directory' /\ image'[c[1]] = image[c[1]]
        BY <1>2, <2>1, <2>3 DEF Copies
      <3>2. c \in Cells(directory)'
        BY <2>1, <3>1 DEF Cells
      <3> QED
        BY <1>1, <3>1, <3>2
    <2> QED
      BY <2>2, <2>3
  <1>7. from \in [Cells(directory)' -> Cells(directory)]
    BY <1>1, <1>4
  <1> QED
    BY <1>4, <1>5, <1>6, <1>7

LEMMA CopiesBooks ==
  ASSUME TypeOK, TypeOK', BookInv, NEW old, NEW new, NEW src, Copies(old, new, src),
         unlisted = {}, wpc \notin {"close", "filled", "reclaim"},
         UNCHANGED <<clock, wpc, call, toClose, toPlace, unlisted, doomed>>
  PROVE  BookInv'
  <1>1. PICK from \in [Cells(directory)' -> Cells(directory)] :
           /\ \A c \in Cells(directory)' : At(from[c]) = At(c)'
           /\ \A c, d \in Cells(directory)' : from[c] = from[d] => c = d
    BY Traces
  <1>2. SingleOpen'
    BY <1>1 DEF BookInv, SingleOpen
  <1>3. ASSUME NEW id, NoneOpen(id) PROVE NoneOpen(id)'
    BY <1>1, <1>3 DEF NoneOpen
  <1>4. /\ directory' = (directory \ old) \cup new /\ locations' = Relocated(old, new, image')
        /\ new \subseteq Pages
        /\ \A p \in Pages : p \notin new => image'[p] = image[p]
        /\ \A p \in new : nextPage <= p /\ p < nextPage'
        /\ nextPage <= nextPage' /\ nextPage' \in Nat /\ nextPage \in Nat
        /\ directory \subseteq Pages /\ Pages \subseteq Nat
    BY PageTypes, BoundsAssumption DEF Copies, Pages
  <1>5. Fresh'
    <2>1. ASSUME NEW p \in Pages, nextPage' <= p PROVE image'[p] = EmptyImage
      <3>1. p \notin new /\ nextPage <= p
        BY <1>4, <2>1
      <3> QED
        BY <1>4, <3>1 DEF BookInv, Fresh
    <2>2. ASSUME NEW p \in directory' PROVE p < nextPage'
      <3>1. CASE p \in new
        BY <1>4, <3>1
      <3>2. CASE p \in directory
        <4>1. p < nextPage /\ p \in Nat
          BY <1>4, <3>2 DEF BookInv, Fresh
        <4> QED
          BY <1>4, <4>1
      <3> QED
        BY <1>4, <3>1, <3>2
    <2> QED
      BY <2>1, <2>2 DEF Fresh
  <1>6. Listed'
    <2>1. \A id \in Ids : locations'[id] = {l \in locations[id] : l[1] \notin old} \cup HoldersOf(id, new, image')
      BY <1>4 DEF Relocated
    <2>2. ASSUME NEW id \in Ids, NEW l \in locations'[id]
          PROVE  l[1] \in directory' /\ At(l)' # Free /\ At(l)'.id = id
      <3>1. CASE l \in HoldersOf(id, new, image')
        BY <1>4, <3>1 DEF HoldersOf, At
      <3>2. CASE l \in locations[id] /\ l[1] \notin old
        <4>1. l[1] \in directory /\ At(l) # Free /\ At(l).id = id
          BY <3>2 DEF BookInv, Listed
        <4>2. l[1] \notin new
          <5>1. l[1] < nextPage /\ l[1] \in Nat
            BY <1>4, <4>1 DEF BookInv, Fresh
          <5>2. l[1] \in new => nextPage <= l[1]
            BY <1>4
          <5> QED
            BY <1>4, <5>1, <5>2
        <4> QED
          BY <1>4, <3>2, <4>1, <4>2 DEF At
      <3> QED
        BY <2>1, <2>2, <3>1, <3>2
    <2>3. ASSUME NEW id \in Ids, NEW c \in Cells(directory)', At(c)'.id = id
          PROVE  c \in locations'[id]
      <3>1. c = <<c[1], c[2]>> /\ c[1] \in directory' /\ c[2] \in Slots /\ image'[c[1]][c[2]] # Free
        BY DEF Cells
      <3>2. CASE c[1] \in new
        <4>1. c \in HoldersOf(id, new, image')
          BY <2>3, <3>1, <3>2 DEF HoldersOf, At
        <4> QED
          BY <2>1, <4>1
      <3>3. CASE c[1] \notin new
        <4>1. c[1] \in directory /\ c[1] \notin old /\ image'[c[1]] = image[c[1]]
          BY <1>4, <3>1, <3>3
        <4>2. c \in Cells(directory) /\ At(c).id = id
          BY <2>3, <3>1, <4>1 DEF Cells, At
        <4>3. c \in locations[id]
          BY <4>2 DEF BookInv, Listed
        <4> QED
          BY <2>1, <4>1, <4>3
      <3> QED
        BY <3>2, <3>3
    <2> QED
      BY <2>2, <2>3 DEF Listed
  <1>7. RealStamps' /\ DoomedByVacuum' /\ Drafted' /\ ReadyDraft' /\ Unlisted'
    BY DEF BookInv, RealStamps, InWrite, DoomedByVacuum, Drafted, ReadyDraft, Unlisted
  <1>8. Ready'
    <2>1. ASSUME NEW k \in toPlace \ toClose, call.kind = "rounds" \/ First(toPlace, k)
          PROVE  NoneOpen(call.ids[k])'
      <3>1. NoneOpen(call.ids[k])
        BY <2>1 DEF BookInv, Ready
      <3> QED
        BY <1>1, <3>1 DEF NoneOpen
    <2> QED
      BY <2>1 DEF BookInv, Ready, Repeats
  <1> QED
    BY <1>2, <1>5, <1>6, <1>7, <1>8 DEF BookInv

LEMMA StepBooks ==
  ASSUME ~MayThrow, TypeOK, BookInv, [Next]_vars
  PROVE  BookInv'
  <1>1. TypeOK'
    BY StepTypes
  <1>2. CASE Split
    <2>1. PICK old, new, src : Copies(old, new, src)
      BY <1>2, SplitCopies
    <2>2. wpc = "place" /\ unlisted = {} /\ UNCHANGED <<clock, wpc, call, toClose, toPlace, unlisted, doomed>>
      BY <1>2 DEF Split, writer_local
    <2> QED
      BY <1>1, <2>1, <2>2, CopiesBooks
  <1>3. CASE MergeMany
    <2>1. PICK old, new, src : Copies(old, new, src)
      BY <1>3, MergeCopies
    <2>2. wpc = "merge" /\ UNCHANGED <<clock, wpc, call, toClose, toPlace, unlisted, doomed>>
      BY <1>3 DEF MergeMany
    <2>3. unlisted = {}
      BY <2>2 DEF BookInv, Unlisted
    <2> QED
      BY <1>1, <2>1, <2>2, <2>3, CopiesBooks
  <1>4. CASE Writer
    BY <1>2, <1>3, <1>4, BeginsBooks, StartBlockBooks, FinishBooks, CloseBooks, FirstPageBooks,
       PlaceBooks, PublishBooks, ListBooks, VacuumBooks, ReclaimBooks, ConsolidateBooks
    DEF Writer, Throw
  <1>5. CASE (\E r \in Readers : Reader(r)) \/ UNCHANGED vars
    BY <1>5, QuietBooks
    DEF Reader, Pin, Resolve, Refine, Drain, LoadDirectory, LoadImage, Scan, Unpin, vars
  <1> QED
    BY <1>4, <1>5 DEF Next

-----------------------------------------------------------------------------
\* As long as no allocation fails in the middle of a call, the books hold.
THEOREM BooksKept ==
  ASSUME ~MayThrow
  PROVE  Spec => []BookInv
  <1>1. Init => TypeOK /\ BookInv
    BY InitTypes, BookInit
  <1>2. TypeOK /\ BookInv /\ [Next]_vars => (TypeOK /\ BookInv)'
    BY StepTypes, StepBooks
  <1> QED
    BY <1>1, <1>2, PTL DEF Spec

\* `locations' lists exactly the versions of the directory between calls, whatever
\* was split, merged and vacuumed (Index::locations_, what close_current and
\* vacuum find their versions by).
THEOREM LocationsKept ==
  ASSUME ~MayThrow
  PROVE  Spec => []LocationsExact
  <1>1. TypeOK /\ BookInv => LocationsExact
    <2> SUFFICES ASSUME TypeOK, BookInv, wpc = "idle", NEW id \in Ids
                 PROVE  locations[id] = {l \in Cells(directory) : image[l[1]][l[2]].id = id}
      BY DEF LocationsExact
    <2>1. unlisted = {}
      BY DEF BookInv, Unlisted
    <2>2. \A l \in locations[id] : l \in Cells(directory) /\ image[l[1]][l[2]].id = id
      BY DEF BookInv, Listed, TypeOK, SharedTypes, Location, Cells, At
    <2>3. \A c \in Cells(directory) : image[c[1]][c[2]].id = id => c \in locations[id]
      BY <2>1 DEF BookInv, Listed, At
    <2> QED
      BY <2>2, <2>3
  <1> QED
    BY <1>1, TypeCorrect, BooksKept, PTL

\* No id has two open versions between calls, so one snapshot never answers with
\* two vectors for an id (close_current before every row that is placed).
THEOREM OneOpenVersion ==
  ASSUME ~MayThrow
  PROVE  Spec => []OneOpen
  <1>1. BookInv => OneOpen
    BY DEF BookInv, SingleOpen, OneOpen, At
  <1> QED
    BY <1>1, BooksKept, PTL

-----------------------------------------------------------------------------
(* The queue of closed versions.                                           *)

\* While vacuum is not clearing, every closed version is in the queue.
LEMMA ClosedThenQueued ==
  ASSUME BookInv, QueuedOrDoomed, wpc # "reclaim", NEW c \in Cells(directory),
         At(c).end # MAX_TS, TypeOK
  PROVE  Queued(At(c))
  BY CellFacts DEF BookInv, DoomedByVacuum, QueuedOrDoomed, Nothing

\* Where no version is closed and the queue stays, nothing is forgotten.
LEMMA QueueKept ==
  ASSUME BookInv, TypeOK, QueuedOrDoomed, wpc # "reclaim", retired' = retired,
         NEW from, 
         \A c \in Cells(directory)' : At(c)'.end # MAX_TS =>
           from[c] \in Cells(directory) /\ At(from[c]) = At(c)'
  PROVE  QueuedOrDoomed'
  <1> SUFFICES ASSUME NEW c \in Cells(directory)', At(c)'.end # MAX_TS
               PROVE  Queued(At(c))'
    BY DEF QueuedOrDoomed
  <1>1. Queued(At(from[c]))
    BY ClosedThenQueued
  <1> QED
    BY <1>1 DEF Queued

LEMMA QuietQueue ==
  ASSUME BookInv, TypeOK, QueuedOrDoomed, UNCHANGED <<image, directory, retired>>,
         wpc # "reclaim" \/ doomed' = doomed
  PROVE  QueuedOrDoomed'
  <1>1. Cells(directory)' = Cells(directory) /\ \A c : At(c)' = At(c)
    BY DEF Cells, At
  <1>2. \A v : Queued(v)' <=> Queued(v)
    BY DEF Queued
  <1>3. CASE doomed' = doomed
    BY <1>1, <1>2, <1>3 DEF QueuedOrDoomed
  <1>4. CASE wpc # "reclaim"
    <2>1. \A c \in Cells(directory) : At(c).end # MAX_TS => Queued(At(c))
      BY <1>4, ClosedThenQueued
    <2> QED
      BY <1>1, <1>2, <2>1 DEF QueuedOrDoomed, Queued
  <1> QED
    BY <1>3, <1>4

LEMMA PublishQueue == TypeOK /\ BookInv /\ QueuedOrDoomed /\ Publish => QueuedOrDoomed'
  <1> SUFFICES ASSUME TypeOK, BookInv, QueuedOrDoomed, Publish PROVE QueuedOrDoomed'
    OBVIOUS
  <1>1. retired' = retired /\ wpc # "reclaim"
    BY DEF Publish
  <1>2. PICK from : from = [c \in Cells(directory)' |-> c]
    OBVIOUS
  <1>3. \A c \in Cells(directory)' : At(c)'.end # MAX_TS =>
          from[c] \in Cells(directory) /\ At(from[c]) = At(c)'
    BY <1>2, PublishCells
  <1> QED
    BY <1>1, <1>3, QueueKept

LEMMA FirstPageQueue == TypeOK /\ BookInv /\ FirstPage => QueuedOrDoomed'
  <1> SUFFICES ASSUME TypeOK, BookInv, FirstPage PROVE QueuedOrDoomed'
    OBVIOUS
  <1>1. directory' = {nextPage} /\ image' = image /\ nextPage \in Pages /\ nextPage \in Nat
    BY PageTypes, BoundsAssumption DEF FirstPage, TypeOK, SharedTypes, Pages
  <1>2. image[nextPage] = EmptyImage
    BY <1>1 DEF BookInv, Fresh
  <1>3. Cells(directory)' = {}
    BY <1>1, <1>2 DEF Cells, EmptyImage
  <1> QED
    BY <1>3 DEF QueuedOrDoomed

LEMMA CopiesQueue ==
  ASSUME TypeOK, BookInv, QueuedOrDoomed, Split \/ MergeMany
  PROVE  QueuedOrDoomed'
  <1>1. PICK old, new, src : Copies(old, new, src)
    BY SplitCopies, MergeCopies
  <1>2. TypeOK' /\ retired' = retired /\ wpc # "reclaim"
    <2>1. [Next]_vars
      BY DEF Next, Writer
    <2> QED
      BY <2>1, StepTypes DEF Split, MergeMany
  <1>3. PICK from \in [Cells(directory)' -> Cells(directory)] :
          \A c \in Cells(directory)' : At(from[c]) = At(c)'
    BY <1>1, <1>2, Traces
  <1> QED
    BY <1>2, <1>3, QueueKept

LEMMA ReclaimQueue == TypeOK /\ BookInv /\ QueuedOrDoomed /\ Reclaim => QueuedOrDoomed'
  <1> SUFFICES ASSUME TypeOK, BookInv, QueuedOrDoomed, Reclaim PROVE QueuedOrDoomed'
    OBVIOUS
  <1>1. PICK p \in Pages : /\ image' = [image EXCEPT ![p] = Cleared(@, doomed[p])]
                           /\ doomed' = [doomed EXCEPT ![p] = {}]
    BY DEF Reclaim
  <1>2. directory' = directory /\ retired' = retired /\ doomed \in [Pages -> SUBSET (Nat \X Nat)]
    BY DEF Reclaim, TypeOK, WriterTypes
  <1>3. SUFFICES ASSUME NEW c \in Cells(directory)', At(c)'.end # MAX_TS
                 PROVE  Queued(At(c))' \/ Stamp(At(c))' \in doomed'[c[1]]
    BY DEF QueuedOrDoomed
  <1>4. c[1] \in Pages /\ c[1] \in directory /\ c[2] \in Slots /\ c = <<c[1], c[2]>>
        /\ image'[c[1]][c[2]] # Free
    BY <1>2, PageTypes DEF Cells
  <1>5. image'[c[1]][c[2]] = image[c[1]][c[2]]
        /\ (c[1] = p => Stamp(image[c[1]][c[2]]) \notin doomed[p])
    BY <1>1, <1>4, PageTypes DEF Cleared, Matches, Image
  <1>6. c \in Cells(directory) /\ At(c)' = At(c)
    BY <1>4, <1>5 DEF Cells, At
  <1>7. CASE Queued(At(c))
    BY <1>2, <1>6, <1>7 DEF Queued
  <1>8. CASE Stamp(At(c)) \in doomed[c[1]]
    <2>1. c[1] # p
      BY <1>5, <1>8 DEF At
    <2> QED
      BY <1>1, <1>2, <1>4, <1>6, <1>8, <2>1
  <1> QED
    BY <1>3, <1>6, <1>7, <1>8 DEF QueuedOrDoomed

\* Closing a version queues it.
LEMMA CloseQueue == TypeOK /\ BookInv /\ QueuedOrDoomed /\ Close => QueuedOrDoomed'
  <1> SUFFICES ASSUME TypeOK, BookInv, QueuedOrDoomed, Close PROVE QueuedOrDoomed'
    OBVIOUS
  <1>1. PICK k \in toClose :
          \/ UNCHANGED <<image, retired>>
          \/ \E l \in OpenAt(call.ids[k]) :
               /\ image' = [image EXCEPT ![l[1]] = Closed(@, l[2], call.ts)]
               /\ retired' = Append(retired, [end |-> call.ts, id |-> call.ids[k],
                                              begin |-> image[l[1]][l[2]].begin])
    BY DEF Close
  <1>2. wpc # "reclaim" /\ directory' = directory
    BY DEF Close
  <1>3. CASE UNCHANGED <<image, retired>>
    BY <1>2, <1>3, QuietQueue
  <1>4. ASSUME NEW l \in OpenAt(call.ids[k]),
               image' = [image EXCEPT ![l[1]] = Closed(@, l[2], call.ts)],
               retired' = Append(retired, [end |-> call.ts, id |-> call.ids[k],
                                           begin |-> image[l[1]][l[2]].begin])
        PROVE  QueuedOrDoomed'
    <2>1. PICK e : e = [end |-> call.ts, id |-> call.ids[k], begin |-> image[l[1]][l[2]].begin]
      OBVIOUS
    <2>2. call.ids[k] \in Ids /\ call.ts \in Nat
      BY PageTypes
    <2>3. l \in Pages \X Slots /\ At(l) # Free /\ At(l).id = call.ids[k]
      BY <2>2 DEF OpenAt, IsOpen, At, TypeOK, SharedTypes, Location
    <2>4. l = <<l[1], l[2]>> /\ l[1] \in Pages /\ l[2] \in Slots /\ At(l) \in Version
      BY <2>3, PageTypes DEF At
    <2>5. e \in Retired
      BY <2>1, <2>2, <2>4 DEF Retired, Version, At
    <2>6. retired \in Seq(Retired)
      BY DEF TypeOK, SharedTypes
    <2>7. /\ retired' = Append(retired, e) /\ Len(retired) \in Nat
          /\ DOMAIN retired = 1..Len(retired) /\ DOMAIN retired' = 1..(Len(retired) + 1)
          /\ \A j \in DOMAIN retired : retired'[j] = retired[j]
          /\ retired'[Len(retired) + 1] = e
      BY <1>4, <2>1, <2>5, <2>6, AppendProperties, LenProperties
    <2>8. \A v : Queued(v) => Queued(v)'
      BY <2>7 DEF Queued
    <2>9. \A p \in Pages, s \in Slots :
            image'[p][s] = IF p = l[1] /\ s = l[2] THEN [image[p][s] EXCEPT !.end = call.ts]
                           ELSE image[p][s]
      BY <1>4, <2>4, PageTypes DEF Closed, Image
    <2>10. SUFFICES ASSUME NEW c \in Cells(directory)', At(c)'.end # MAX_TS
                    PROVE  Queued(At(c))'
      BY DEF QueuedOrDoomed
    <2>11. c[1] \in Pages /\ c[1] \in directory /\ c[2] \in Slots /\ c = <<c[1], c[2]>>
           /\ image'[c[1]][c[2]] # Free
      BY <1>2, PageTypes DEF Cells
    <2>12. CASE c[1] = l[1] /\ c[2] = l[2]
      <3>1. At(c)' = [At(l) EXCEPT !.end = call.ts]
        BY <2>9, <2>11, <2>12 DEF At
      <3>2. At(c)'.id = e.id /\ At(c)'.begin = e.begin /\ At(c)'.end = e.end
        BY <2>1, <2>3, <2>4, <3>1 DEF Version, At
      <3>3. Len(retired) + 1 \in DOMAIN retired'
        BY <2>7
      <3> QED
        BY <2>7, <3>2, <3>3 DEF Queued, StampOf, Stamp
    <2>13. CASE ~(c[1] = l[1] /\ c[2] = l[2])
      <3>1. image'[c[1]][c[2]] = image[c[1]][c[2]]
        BY <2>9, <2>11, <2>13
      <3>2. c \in Cells(directory) /\ At(c)' = At(c)
        BY <2>11, <3>1 DEF Cells, At
      <3>3. Queued(At(c))
        BY <1>2, <2>10, <3>2, ClosedThenQueued
      <3> QED
        BY <2>8, <3>2, <3>3 DEF Queued
    <2> QED
      BY <2>12, <2>13
  <1> QED
    BY <1>1, <1>3, <1>4

\* What vacuum takes from the queue it dooms, where the stamps tell the versions of
\* an id apart.
LEMMA VacuumQueue ==
  ASSUME TypeOK, BookInv, QueuedOrDoomed, StampsDiffer, Vacuum
  PROVE  QueuedOrDoomed'
  <1>1. PICK oldest \in 1..(committed + 1), budget \in Budgets, n \in 0..Len(retired) :
          /\ \E at \in [Met(n) -> UNION {Holders(retired[j]) : j \in Met(n)}] :
               /\ \A j \in Met(n) : at[j] \in Holders(retired[j])
               /\ doomed' = [p \in Pages |-> {StampOf(retired[j]) :
                                                j \in {i \in Met(n) : at[i] = p}}]
          /\ retired' = SubSeq(retired, n + 1, Len(retired))
    BY DEF Vacuum
  <1>2. PICK at \in [Met(n) -> UNION {Holders(retired[j]) : j \in Met(n)}] :
          /\ \A j \in Met(n) : at[j] \in Holders(retired[j])
          /\ doomed' = [p \in Pages |-> {StampOf(retired[j]) :
                                           j \in {i \in Met(n) : at[i] = p}}]
    BY <1>1
  <1>3. wpc # "reclaim" /\ unlisted = {} /\ UNCHANGED <<image, directory>>
    BY DEF Vacuum, BookInv, Unlisted
  <1>4. retired \in Seq(Retired) /\ Len(retired) \in Nat /\ DOMAIN retired = 1..Len(retired)
        /\ n \in Nat
    BY LenProperties DEF TypeOK, SharedTypes
  <1>5. /\ DOMAIN retired' = 1..(Len(retired) - n)
        /\ \A j \in 1..(Len(retired) - n) : retired'[j] = retired[n + j]
    BY <1>1, <1>4, SubSeqProperties
  <1>6. Cells(directory)' = Cells(directory) /\ \A c : At(c)' = At(c)
    BY <1>3 DEF Cells, At
  <1>7. SUFFICES ASSUME NEW c \in Cells(directory), At(c).end # MAX_TS
                 PROVE  Queued(At(c))' \/ Stamp(At(c)) \in doomed'[c[1]]
    BY <1>6 DEF QueuedOrDoomed
  <1>8. PICK j \in 1..Len(retired) : retired[j].id = At(c).id /\ StampOf(retired[j]) = Stamp(At(c))
    <2>1. Queued(At(c))
      BY <1>3, <1>7, ClosedThenQueued
    <2> QED
      BY <1>4, <2>1 DEF Queued
  <1>9. CASE j > n
    <2>1. j - n \in 1..(Len(retired) - n) /\ n + (j - n) = j
      BY <1>4, <1>9
    <2>2. retired'[j - n] = retired[j] /\ j - n \in DOMAIN retired'
      BY <1>5, <2>1
    <2> QED
      BY <1>6, <1>8, <2>2 DEF Queued
  <1>10. CASE j <= n
    <2>1. c[1] \in Pages /\ At(c).id \in Ids /\ At(c) # Free
      BY CellFacts
    <2>2. c \in locations[At(c).id]
      BY <1>3, <1>7, <2>1 DEF BookInv, Listed
    <2>3. c[1] \in Holders(retired[j])
      BY <1>8, <2>1, <2>2 DEF Holders, Matches, At
    <2>4. j \in Met(n)
      BY <1>4, <1>10, <2>3 DEF Met
    <2>5. at[j] \in Holders(retired[j])
      BY <1>2, <2>4
    <2>6. PICK l \in locations[At(c).id] : l[1] = at[j] /\ At(l) # Free /\ Stamp(At(l)) = Stamp(At(c))
      BY <1>8, <2>5 DEF Holders, Matches, At
    <2>7. l \in Cells(directory) /\ At(l).id = At(c).id
      BY <2>1, <2>6 DEF BookInv, Listed, TypeOK, SharedTypes, Location, Cells, At
    <2>8. l = c
      BY <2>6, <2>7 DEF StampsDiffer
    <2> QED
      BY <1>2, <1>8, <2>1, <2>4, <2>6, <2>8
  <1> QED
    BY <1>4, <1>9, <1>10

LEMMA StepQueue ==
  ASSUME ~MayThrow, TypeOK, BookInv, QueuedOrDoomed, StampsDiffer, [Next]_vars
  PROVE  QueuedOrDoomed'
  <1>1. CASE BeginInsert \/ BeginDelete \/ BeginBatch \/ BeginChanges
    <2>1. UNCHANGED <<image, directory, retired>> /\ doomed' = doomed
      <3>1. \E kind, ids, deletes, ts : Begin(kind, ids, deletes, ts)
        BY <1>1 DEF BeginInsert, BeginDelete, BeginBatch, BeginChanges
      <3> QED
        BY <3>1 DEF Begin
    <2> QED
      BY <2>1, QuietQueue
  <1>2. CASE StartBlock \/ RefuseBlock \/ List \/ Commit \/ Consolidate \/ StopMerging
    <2>1. UNCHANGED <<image, directory, retired>>
      BY <1>2 DEF StartBlock, RefuseBlock, List, Commit, Consolidate, StopMerging, writer_shared
    <2>2. wpc # "reclaim" \/ doomed' = doomed
      BY <1>2 DEF StartBlock, RefuseBlock, List, Commit, Consolidate, StopMerging
    <2> QED
      BY <2>1, <2>2, QuietQueue
  <1>3. CASE Place \/ PlaceMore
    <2>1. UNCHANGED <<image, directory, retired, doomed>>
      BY <1>3 DEF Place, PlaceMore, Fill
    <2> QED
      BY <2>1, QuietQueue
  <1>4. CASE Writer
    BY <1>1, <1>2, <1>3, <1>4, CloseQueue, FirstPageQueue, PublishQueue, CopiesQueue, VacuumQueue,
       ReclaimQueue
    DEF Writer, Throw
  <1>5. CASE (\E r \in Readers : Reader(r)) \/ UNCHANGED vars
    <2>1. UNCHANGED <<writer_shared, writer_local>>
      BY <1>5
      DEF Reader, Pin, Resolve, Refine, Drain, LoadDirectory, LoadImage, Scan, Unpin, vars
    <2> QED
      BY <2>1, QuietQueue DEF writer_shared, writer_local
  <1> QED
    BY <1>4, <1>5 DEF Next

\* A closed version that is still in the index is in the queue, or vacuum is about
\* to clear it: it is not kept for ever.  That needs stamps that tell the versions
\* of one id apart; vacuum looks for one version for each entry of the queue.
THEOREM NothingForgotten ==
  ASSUME ~MayThrow
  PROVE  Spec /\ []StampsDiffer => []ClosedIsQueued
  <1>1. Init => TypeOK /\ BookInv /\ QueuedOrDoomed
    <2>1. Init => QueuedOrDoomed
      BY DEF Init, QueuedOrDoomed, Cells
    <2> QED
      BY <2>1, InitTypes, BookInit
  <1>2. TypeOK /\ BookInv /\ QueuedOrDoomed /\ StampsDiffer /\ [Next]_vars
          => (TypeOK /\ BookInv /\ QueuedOrDoomed)'
    BY StepTypes, StepBooks, StepQueue
  <1>3. TypeOK /\ BookInv /\ QueuedOrDoomed => ClosedIsQueued
    BY ClosedThenQueued DEF ClosedIsQueued, Queued, At
  <1> QED
    BY <1>1, <1>2, <1>3, PTL DEF Spec

-----------------------------------------------------------------------------
(***************************************************************************)
(* The index implements SnapshotStore: whatever splits, merges and vacuums *)
(* do, and however far a call has come, a search answers as the history    *)
(* stood at one committed timestamp.                                       *)
(***************************************************************************)

\* The numbers of a call, and the rows its blocks have reached.
LEMMA CallFacts ==
  ASSUME TypeOK, AnswerInv
  PROVE  /\ call.taken \in Nat /\ call.deletes \in Nat /\ call.ts \in Nat
         /\ call.ids \in Seq(Ids) /\ Len(call.ids) \in Nat /\ DOMAIN call.ids = 1..Len(call.ids)
         /\ Reached \in Nat /\ Reached <= Len(call.ids)
         /\ clock \in Nat /\ committed \in Nat /\ horizon \in Nat
  <1>1. /\ call.taken \in Nat /\ call.deletes \in Nat /\ call.ts \in Nat
        /\ call.ids \in Seq(Ids)
        /\ clock \in Nat /\ committed \in Nat /\ horizon \in Nat
    BY DEF TypeOK, WriterTypes, SharedTypes, Call
  <1>2. Len(call.ids) \in Nat /\ DOMAIN call.ids = 1..Len(call.ids)
    BY <1>1, LenProperties
  <1> QED
    BY <1>1, <1>2 DEF Reached, AnswerInv, CallShape

\* Outside of a write, no rows are under way.
LEMMA NoRows ==
  ASSUME TypeOK, AnswerInv, ~InWrite
  PROVE  Placed = {} /\ Ended = {} /\ Reached = 0 /\ Filling = {}
  <1>1. call.ids = <<>>
    BY DEF AnswerInv, CallShape
  <1>2. ~InBlocks
    BY DEF TypeOK, WriterTypes, NoCall, InWrite, InBlocks
  <1>3. Reached = 0
    BY <1>1, <1>2 DEF Reached
  <1>4. Filling = {}
    BY <1>1 DEF Filling
  <1> QED
    BY <1>3, <1>4, CallFacts DEF Placed, Ended

\* Rows that are under way, once more: where they are.
LEMMA RowFacts ==
  ASSUME TypeOK, AnswerInv
  PROVE  /\ Placed \subseteq 1..Reached /\ Ended \subseteq 1..Reached
         /\ Placed \subseteq DOMAIN call.ids /\ Ended \subseteq DOMAIN call.ids
         /\ toPlace \subseteq 1..Reached /\ toClose \subseteq 1..Reached
         /\ \A k \in 1..Reached : k \in DOMAIN call.ids /\ call.ids[k] \in Ids
         /\ wpc # "filled" => Filling = {}
  <1>1. /\ Reached \in Nat /\ Reached <= Len(call.ids) /\ Len(call.ids) \in Nat /\ call.deletes \in Nat
        /\ DOMAIN call.ids = 1..Len(call.ids)
    BY CallFacts
  <1>2. \A k \in 1..Reached : k \in DOMAIN call.ids /\ call.ids[k] \in Ids
    BY <1>1, PageTypes
  <1>3. \A k \in (call.deletes + 1)..Reached : k \in 1..Reached
    BY <1>1
  <1>4. toPlace \subseteq (call.deletes + 1)..Reached /\ toClose \subseteq 1..Reached
    BY DEF AnswerInv, CallShape
  <1> QED
    BY <1>2, <1>3, <1>4 DEF Placed, Ended, Filling

-----------------------------------------------------------------------------
(* What searches see.                                                      *)

\* The timestamps at which some search may read the pages, now or later.
Viewed == Readable \cup {snap[r] : r \in {q \in Readers : rpc[q] \in {"scan", "held"}}}

LEMMA ViewedFacts ==
  ASSUME TypeOK, SlotInv, AnswerInv, NEW ts \in Viewed
  PROVE  ts \in Nat /\ ts <= committed
  BY CallFacts DEF Viewed, Readable, SlotInv, Snapshots, TypeOK, ReaderTypes

LEMMA SeenKept ==
  ASSUME NEW P, NEW ts,
         \A c \in P \X Slots : Visible(At(c)', ts) <=> Visible(At(c), ts),
         \A c \in P \X Slots : Visible(At(c), ts) => Record(At(c)') = Record(At(c))
  PROVE  Seen(P, ts)' = Seen(P, ts)
  <1>1. Seen(P, ts) = {Record(At(c)) : c \in {d \in P \X Slots : Visible(At(d), ts)}}
    BY DEF Seen, Cells, Visible, At
  <1>2. Seen(P, ts)' = {Record(At(c)') : c \in {d \in P \X Slots : Visible(At(d)', ts)}}
    BY DEF Seen, Cells, Visible, At, Record
  <1> QED
    BY <1>1, <1>2

\* A step of the writer that commits nothing and that no search can see.
LEMMA Unseen ==
  ASSUME TypeOK, SlotInv, AnswerInv, 
         UNCHANGED <<reader_vars, committed, history>>, horizon' \in Nat, horizon <= horizon',
         \A ts \in Readable : Seen(directory, ts)' = Seen(directory, ts),
         \A r \in Readers : \A P, ts :
           rpc[r] \in {"scan", "held"} /\ P = left[r] /\ ts = snap[r] => Seen(P, ts)' = Seen(P, ts)
  PROVE  Answers' /\ Collected' /\ Asked'
  <1>1. UNCHANGED <<asked, rpc, snap, left, held, found>>
    BY DEF reader_vars
  <1>2. Readable' \subseteq Readable
    BY <1>1, CallFacts DEF Readable
  <1>3. \A ts : Abstract!AsOf(history, ts)' = Abstract!AsOf(history, ts)
    BY DEF Abstract!AsOf
  <1>4. Answers'
    BY <1>2, <1>3 DEF AnswerInv, Answers
  <1>5. Asked'
    BY <1>1 DEF AnswerInv, Asked
  <1>6. Collected'
    <2>1. SUFFICES ASSUME NEW r \in Readers
                   PROVE  /\ rpc[r] \notin {"scan", "held"} => found[r] = {} /\ left[r] = {}
                          /\ rpc[r] = "scan" =>
                               Abstract!AsOf(history, snap[r]) = found[r] \cup Seen(left[r], snap[r])'
                          /\ rpc[r] = "held" =>
                               Abstract!AsOf(history, snap[r]) =
                                 found[r] \cup Seen(left[r], snap[r])' \cup SeenIn(held[r].img, snap[r])
      BY <1>1 DEF Collected, SeenIn, Record, Visible, Abstract!AsOf
    <2>2. rpc[r] \in {"scan", "held"} => Seen(left[r], snap[r])' = Seen(left[r], snap[r])
      BY <1>1 DEF Seen, Cells
    <2> QED
      BY <2>2 DEF AnswerInv, Collected
  <1> QED
    BY <1>4, <1>5, <1>6

\* A step that changes versions in their places, none that a search can see.
LEMMA InPlace ==
  ASSUME TypeOK, SlotInv, AnswerInv,
         UNCHANGED <<reader_vars, committed, history, directory>>,
         horizon' \in Nat, horizon <= horizon',
         \A ts \in Viewed : \A c \in Pages \X Slots :
           /\ Visible(At(c)', ts) <=> Visible(At(c), ts)
           /\ Visible(At(c), ts) => Record(At(c)') = Record(At(c))
  PROVE  Answers' /\ Collected' /\ Asked'
  <1>1. ASSUME NEW ts \in Viewed, NEW P \in SUBSET Pages
        PROVE  Seen(P, ts)' = Seen(P, ts)
    <2>1. \A c \in P \X Slots : c \in Pages \X Slots
      OBVIOUS
    <2>2. \A c \in P \X Slots : Visible(At(c)', ts) <=> Visible(At(c), ts)
      BY <2>1
    <2>3. \A c \in P \X Slots : Visible(At(c), ts) => Record(At(c)') = Record(At(c))
      BY <2>1
    <2> QED
      BY <2>2, <2>3, SeenKept
  <1>2. ASSUME NEW ts \in Readable PROVE Seen(directory, ts)' = Seen(directory, ts)
    <2>1. PICK P \in SUBSET Pages : P = directory
      BY PageTypes
    <2>2. Seen(P, ts)' = Seen(P, ts)
      BY <1>1 DEF Viewed
    <2>3. directory' = P
      BY <2>1
    <2> QED
      BY <2>1, <2>2, <2>3 DEF Seen, Cells
  <1>3. ASSUME NEW r \in Readers, NEW P, NEW ts,
               rpc[r] \in {"scan", "held"}, P = left[r], ts = snap[r]
        PROVE  Seen(P, ts)' = Seen(P, ts)
    <2>1. P \in SUBSET Pages /\ ts \in Viewed
      BY <1>3 DEF TypeOK, ReaderTypes, Viewed
    <2> QED
      BY <1>1, <2>1
  <1> QED
    BY <1>2, <1>3, Unseen

LEMMA SameImages ==
  ASSUME TypeOK, SlotInv, AnswerInv,
         UNCHANGED <<reader_vars, committed, history, image>>,
         Cells(directory)' = Cells(directory), horizon' \in Nat, horizon <= horizon'
  PROVE  Answers' /\ Collected' /\ Asked'
  <1>1. \A c : At(c)' = At(c)
    BY DEF At
  <1>2. \A ts : Seen(directory, ts)' = Seen(directory, ts)
    BY <1>1 DEF Seen, Record, Visible
  <1>3. \A P, ts : Seen(P, ts)' = Seen(P, ts)
    BY <1>1 DEF Seen, Cells, Record, Visible
  <1> QED
    BY <1>2, <1>3, Unseen

\* Pages that are copied show the same.
LEMMA CopiesSeen ==
  ASSUME TypeOK, TypeOK', BookInv, SlotInv, AnswerInv, NEW old, NEW new, NEW src,
         Copies(old, new, src), UNCHANGED <<reader_vars, committed, history, horizon>>
  PROVE  Answers' /\ Collected' /\ Asked'
  <1>1. PICK from \in [Cells(directory)' -> Cells(directory)] :
           /\ \A c \in Cells(directory)' : At(from[c]) = At(c)'
           /\ \A c \in Cells(directory) : \E d \in Cells(directory)' : from[d] = c
    BY Traces
  <1>2. ASSUME NEW ts PROVE Seen(directory, ts)' = Seen(directory, ts)
    <2>1. Seen(directory, ts)' = {Record(At(c)') : c \in {d \in Cells(directory)' : Visible(At(d)', ts)}}
      BY DEF Seen, Record, Visible
    <2>2. ASSUME NEW c \in Cells(directory)', Visible(At(c)', ts)
          PROVE  Record(At(c)') \in Seen(directory, ts)
      BY <1>1, <2>2 DEF Seen
    <2>3. ASSUME NEW c \in Cells(directory), Visible(At(c), ts)
          PROVE  Record(At(c)) \in Seen(directory, ts)'
      BY <1>1, <2>1, <2>3
    <2> QED
      BY <2>1, <2>2, <2>3 DEF Seen
  <1>3. ASSUME NEW r \in Readers, NEW P, NEW ts, P = left[r]
        PROVE  Seen(P, ts)' = Seen(P, ts)
    <2>1. \A p \in P : p \in Pages /\ p < nextPage /\ p \in Nat
      BY <1>3, BoundsAssumption DEF SlotInv, Numbered, TypeOK, ReaderTypes, Pages
    <2>2. \A p \in new : nextPage <= p
      BY DEF Copies
    <2>3. \A p \in P : p \notin new
      <3>1. nextPage \in Nat
        BY PageTypes
      <3> QED
        BY <2>1, <2>2, <3>1
    <2>4. \A p \in P : image'[p] = image[p]
      BY <2>1, <2>3 DEF Copies
    <2>5. \A c \in P \X Slots : At(c)' = At(c)
      BY <2>4 DEF At
    <2> QED
      BY <2>5, SeenKept
  <1>4. horizon' \in Nat /\ horizon <= horizon'
    BY CallFacts
  <1> QED
    BY <1>2, <1>3, <1>4, Unseen

-----------------------------------------------------------------------------
(* Steps that touch no versions.                                           *)

\* The rows under way are the same rows.
LEMMA SameRows ==
  ASSUME AnswerInv, UNCHANGED <<image, history, committed>>,
         Cells(directory)' = Cells(directory),
         call'.ids = call.ids, call'.ts = call.ts, Placed' = Placed, Ended' = Ended
  PROVE  CellStamps' /\ OpenNow'
  <1>1. Cells(directory)' = Cells(directory) /\ \A c : At(c)' = At(c)
    BY DEF At
  <1>2. CellStamps'
    BY <1>1 DEF AnswerInv, CellStamps
  <1>3. \A k : RowCell(k)' = RowCell(k)
    BY DEF RowCell
  <1>4. OpenNow'
    BY <1>1, <1>3 DEF AnswerInv, OpenNow, Record
  <1> QED
    BY <1>2, <1>4

\* There are no rows under way.
LEMMA NoRowsYet ==
  ASSUME AnswerInv, UNCHANGED <<image, history, committed>>,
         Cells(directory)' = Cells(directory),
         Placed = {}, Ended = {}, Placed' = {}, Ended' = {}
  PROVE  CellStamps' /\ OpenNow'
  <1>1. Cells(directory)' = Cells(directory) /\ \A c : At(c)' = At(c)
    BY DEF At
  <1>2. CellStamps'
    BY <1>1 DEF AnswerInv, CellStamps
  <1>3. OpenNow'
    BY <1>1 DEF AnswerInv, OpenNow, Record
  <1> QED
    BY <1>2, <1>3

\* A call begins: it is later than everything, and none of its rows is done.
LEMMA BeginLate ==
  ASSUME TypeOK, SlotInv, AnswerInv, NEW kind \in {"insert", "delete", "rows", "changes"},
         NEW ids, NEW deletes, NEW ts \in Nat, clock < ts, Begin(kind, ids, deletes, ts),
         Placed' = {}, Ended' = {}
  PROVE  Late' /\ Answers' /\ Collected' /\ Asked' /\ CellStamps' /\ OpenNow'
  <1>1. /\ wpc = "idle" /\ clock' = ts /\ call'.ts = ts
        /\ UNCHANGED <<image, directory, committed, horizon, history, reader_vars>>
    BY DEF Begin, NoCall
  <1>2. Late'
    BY <1>1, CallFacts DEF AnswerInv, Late
  <1>3. Cells(directory)' = Cells(directory)
    BY <1>1 DEF Cells
  <1>4. Answers' /\ Collected' /\ Asked'
    BY <1>1, <1>3, SameImages, CallFacts
  <1>5. CellStamps' /\ OpenNow'
    BY <1>1, <1>3, NoRows, NoRowsYet DEF InWrite
  <1> QED
    BY <1>2, <1>4, <1>5

LEMMA BeginRows ==
  ASSUME TypeOK, SlotInv, AnswerInv, NEW kind \in {"insert", "delete", "changes"},
         NEW ids \in Seq(Ids), Len(ids) # 0, NEW deletes \in Nat, deletes <= Len(ids),
         NEW ts \in Nat, clock < ts, Begin(kind, ids, deletes, ts), RowsAfterDeletes(ids, deletes),
         \A k \in 1..deletes :
           \/ kind = "delete" /\ Len(ids) = 1
           \/ kind = "changes" /\ ~Repeats(DOMAIN ids, ids) /\ OpenAt(ids[k]) # {}
  PROVE  AnswerInv'
  <1>1. /\ call'.kind = kind /\ call'.ids = ids /\ call'.deletes = deletes /\ call'.taken = 0
        /\ UNCHANGED <<image, locations>>
    BY DEF Begin, NoCall
  <1>2. /\ toClose' = 1..Smaller(deletes + 1, Len(ids)) /\ toPlace' = (deletes + 1)..Len(ids)
        /\ wpc' = "close"
    BY DEF RowsAfterDeletes
  <1>3. Len(ids) \in Nat /\ DOMAIN ids = 1..Len(ids) /\ Len(ids) # 0
    BY LenProperties
  <1>4. PICK least \in Nat : /\ least = Smaller(deletes + 1, Len(ids))
                             /\ least <= deletes + 1 /\ least <= Len(ids) /\ 1 <= least
                             /\ (least = deletes + 1 \/ (least = Len(ids) /\ least = deletes))
    <2> DEFINE n == Len(ids)
    <2>1. n \in Nat
      BY <1>3
    <2>2. n # 0 /\ deletes <= n
      BY <1>3
    <2> HIDE DEF n
    <2>3. deletes + 1 < n \/ n = deletes + 1 \/ n = deletes
      BY <2>1, <2>2
    <2>4. CASE deletes + 1 < n
      <3>1. Smaller(deletes + 1, n) = deletes + 1
        BY <2>1, <2>4 DEF Smaller
      <3> QED
        BY <2>1, <2>2, <2>4, <3>1 DEF n
    <2>5. CASE ~(deletes + 1 < n)
      <3>1. Smaller(deletes + 1, n) = n
        BY <2>1, <2>5 DEF Smaller
      <3> QED
        BY <2>1, <2>2, <2>3, <2>5, <3>1 DEF n
    <2> QED
      BY <2>4, <2>5
  <1>5. toClose' = 1..least
    BY <1>2, <1>4
  <1>6. ~InBlocks' /\ Reached' = Len(ids) /\ Filling' = {}
    BY <1>1, <1>2 DEF InBlocks, Reached, Filling
  <1>7. Placed' = {}
    BY <1>1, <1>2, <1>6 DEF Placed
  <1>8. \A k \in toPlace' : First(toPlace', k) => k = deletes + 1
    <2>1. ASSUME NEW k \in toPlace', First(toPlace', k) PROVE k = deletes + 1
      <3>1. deletes + 1 \in toPlace'
        BY <1>2, <1>3, <2>1
      <3>2. k <= deletes + 1 /\ deletes + 1 <= k /\ k \in Nat
        BY <1>2, <1>3, <2>1, <3>1 DEF First
      <3> QED
        BY <3>2
    <2> QED
      BY <2>1
  <1>9. Ended' = {}
    <2>1. ASSUME NEW k \in 1..Len(ids), k \notin toClose', k \in toPlace' => First(toPlace', k) PROVE FALSE
      <3>1. k > least
        BY <1>3, <1>5, <2>1
      <3>2. k \in toPlace' /\ k # deletes + 1
        BY <1>2, <1>3, <1>4, <3>1
      <3> QED
        BY <1>8, <2>1, <3>2
    <2> QED
      BY <1>1, <1>6, <2>1 DEF Ended
  <1>10. CallShape'
    BY <1>1, <1>2, <1>3, <1>4, <1>5, <1>6 DEF CallShape, InWrite
  <1>11. CallOrder'
    <2>1. \A i \in toPlace', j \in (1..Reached') \ toPlace' : j < i
      BY <1>2, <1>3, <1>6
    <2>2. \A i \in toPlace', j \in toClose' : j <= i
      BY <1>2, <1>3, <1>4, <1>5
    <2>3. \A i \in toPlace' : First(toPlace', i) => i \in toClose'
      BY <1>2, <1>3, <1>4, <1>5, <1>8
    <2>4. call'.kind # "rounds"
      BY <1>1
    <2> QED
      BY <1>6, <1>7, <2>1, <2>2, <2>3, <2>4 DEF CallOrder
  <1>12. DeletesFind'
    <2>1. \A k \in toClose' \ toPlace' : k \in 1..deletes
      BY <1>2, <1>3, <1>4, <1>5
    <2>2. ASSUME NEW k \in toClose' \ toPlace'
          PROVE  \/ call'.kind = "delete" /\ Len(call'.ids) = 1 /\ k = 1
                 \/ call'.kind = "changes" /\ OpenAt(call.ids[k])' # {}
                    /\ ~Repeats(DOMAIN call.ids, call.ids)'
      <3>1. k \in 1..deletes
        BY <2>1
      <3>2. OpenAt(call.ids[k])' = OpenAt(ids[k])
        BY <1>1 DEF OpenAt
      <3>3. Len(ids) = 1 => k = 1
        BY <3>1
      <3> QED
        BY <1>1, <3>1, <3>2, <3>3 DEF Repeats
    <2> QED
      BY <2>2 DEF DeletesFind
  <1> QED
    BY <1>7, <1>9, <1>10, <1>11, <1>12, BeginLate DEF AnswerInv

LEMMA BeginBlocks ==
  ASSUME TypeOK, SlotInv, AnswerInv, NEW ids \in Seq(Ids), Len(ids) <= MaxBatch,
         Len(ids) # 0,
         NEW ts \in Nat, clock < ts, Begin("rows", ids, 0, ts),
         toClose' = {}, toPlace' = {}, wpc' = "block"
  PROVE  AnswerInv'
  <1>1. /\ call'.kind = "rows" /\ call'.ids = ids /\ call'.deletes = 0 /\ call'.taken = 0
    BY DEF Begin, NoCall
  <1>2. Len(ids) \in Nat
    BY LenProperties
  <1>3. InBlocks' /\ Reached' = 0 /\ Filling' = {}
    BY <1>1 DEF InBlocks, Reached, Filling
  <1>4. Placed' = {} /\ Ended' = {}
    BY <1>1, <1>3 DEF Placed, Ended
  <1>5. CallShape' /\ CallOrder' /\ DeletesFind'
    BY <1>1, <1>2, <1>3, <1>4 DEF CallShape, CallOrder, DeletesFind, InWrite
  <1> QED
    BY <1>4, <1>5, BeginLate DEF AnswerInv

\* A sequence given as a function.
LEMMA SeqOf ==
  ASSUME NEW n \in Nat, NEW ids \in [1..n -> Ids]
  PROVE  ids \in Seq(Ids) /\ Len(ids) = n
  <1>1. ids \in Seq(Ids)
    BY SeqDef
  <1>2. Len(ids) \in Nat /\ DOMAIN ids = 1..Len(ids)
    BY <1>1, LenProperties
  <1> QED
    BY <1>1, <1>2

LEMMA BeginsAnswers ==
  ASSUME Undisturbed, TypeOK, SlotInv, AnswerInv,
         BeginInsert \/ BeginDelete \/ BeginBatch \/ BeginChanges
  PROVE  AnswerInv'
  <1>0. clock \in Nat /\ clock < clock + 1 /\ clock + 1 \in Nat
    BY CallFacts
  <1>1. \A ts \in Stamps : ts \in Nat /\ clock < ts
    BY <1>0, BoundsAssumption DEF Stamps, Undisturbed
  <1>2. CASE BeginInsert
    <2>1. PICK id \in Ids, ts \in Stamps : Begin("insert", <<id>>, 0, ts) /\ RowsAfterDeletes(<<id>>, 0)
      BY <1>2 DEF BeginInsert
    <2>2. <<id>> \in Seq(Ids) /\ Len(<<id>>) = 1
      OBVIOUS
    <2>3. PICK ids : ids \in Seq(Ids) /\ ids = <<id>> /\ Len(ids) = 1
      BY <2>2
    <2>4. Begin("insert", ids, 0, ts) /\ RowsAfterDeletes(ids, 0)
      BY <2>1, <2>3
    <2>5. ts \in Nat /\ clock < ts
      BY <1>1
    <2>6. \A k \in 1..0 :
            \/ "insert" = "delete" /\ Len(ids) = 1
            \/ "insert" = "changes" /\ ~Repeats(DOMAIN ids, ids) /\ OpenAt(ids[k]) # {}
      BY <2>3
    <2>7. ids \in Seq(Ids) /\ Len(ids) # 0 /\ 0 <= Len(ids) /\ 0 \in Nat
      BY <2>3
    <2> QED
      BY <2>4, <2>5, <2>6, <2>7, BeginRows
  <1>3. CASE BeginDelete
    <2>1. PICK id \in Ids, ts \in Stamps : Begin("delete", <<id>>, 1, ts) /\ RowsAfterDeletes(<<id>>, 1)
      BY <1>3 DEF BeginDelete
    <2>2. <<id>> \in Seq(Ids) /\ Len(<<id>>) = 1
      OBVIOUS
    <2>3. PICK ids : ids \in Seq(Ids) /\ ids = <<id>> /\ Len(ids) = 1
      BY <2>2
    <2>4. Begin("delete", ids, 1, ts) /\ RowsAfterDeletes(ids, 1)
      BY <2>1, <2>3
    <2>5. ts \in Nat /\ clock < ts
      BY <1>1
    <2>6. \A k \in 1..1 :
            \/ "delete" = "delete" /\ Len(ids) = 1
            \/ "delete" = "changes" /\ ~Repeats(DOMAIN ids, ids) /\ OpenAt(ids[k]) # {}
      BY <2>3
    <2>7. ids \in Seq(Ids) /\ Len(ids) # 0 /\ 1 <= Len(ids) /\ 1 \in Nat
      BY <2>3
    <2> QED
      BY <2>4, <2>5, <2>6, <2>7, BeginRows
  <1>4. CASE BeginBatch
    <2>1. PICK n \in 1..MaxBatch : \E ids \in [1..n -> Ids] : Begin("rows", ids, 0, clock + 1)
      BY <1>4 DEF BeginBatch
    <2>2. PICK ids \in [1..n -> Ids] : Begin("rows", ids, 0, clock + 1)
      BY <2>1
    <2>3. n \in Nat /\ n # 0 /\ n <= MaxBatch
      BY BoundsAssumption
    <2>4. ids \in Seq(Ids) /\ Len(ids) = n
      BY <2>3, SeqOf
    <2>5. toClose' = {} /\ toPlace' = {} /\ wpc' = "block"
      BY <1>4 DEF BeginBatch
    <2> QED
      BY <1>0, <2>2, <2>3, <2>4, <2>5, BeginBlocks
  <1>5. CASE BeginChanges
    <2>1. PICK n \in 1..MaxBatch : \E ids \in [1..n -> Ids], deletes \in 0..n :
            /\ ~Repeats(DOMAIN ids, ids)
            /\ \A k \in 1..deletes : OpenAt(ids[k]) # {}
            /\ Begin("changes", ids, deletes, clock + 1)
            /\ RowsAfterDeletes(ids, deletes)
      BY <1>5 DEF BeginChanges
    <2>2. PICK ids \in [1..n -> Ids], deletes \in 0..n :
            /\ ~Repeats(DOMAIN ids, ids)
            /\ \A k \in 1..deletes : OpenAt(ids[k]) # {}
            /\ Begin("changes", ids, deletes, clock + 1)
            /\ RowsAfterDeletes(ids, deletes)
      BY <2>1
    <2>3. n \in Nat /\ n # 0 /\ deletes \in Nat /\ deletes <= n
      BY BoundsAssumption
    <2>4. ids \in Seq(Ids) /\ Len(ids) = n
      BY <2>3, SeqOf
    <2> QED
      BY <1>0, <2>2, <2>3, <2>4, BeginRows
  <1> QED
    BY <1>2, <1>3, <1>4, <1>5

LEMMA StartBlockAnswers ==
  ASSUME Undisturbed, TypeOK, SlotInv, BookInv, AnswerInv, StartBlock
  PROVE  AnswerInv'
  <1> DEFINE last == Smaller(call.taken + BlockSize, Len(call.ids))
             block == (call.taken + 1)..last
             byRow == RowByRow(block, call.ids)
  <1>1. /\ wpc = "block" /\ wpc' = "close"
        /\ call' = [call EXCEPT !.kind = IF byRow THEN "rows" ELSE "rounds", !.taken = last]
        /\ toClose' = IF byRow THEN {k \in block : First(block, k)} ELSE block
        /\ toPlace' = block
        /\ UNCHANGED <<writer_shared, reader_vars, draft>>
    BY DEF StartBlock
  <1>2. /\ call'.ts = call.ts /\ call'.ids = call.ids /\ call'.deletes = call.deletes
        /\ call'.taken = last /\ call'.kind = IF byRow THEN "rows" ELSE "rounds"
    BY <1>1 DEF TypeOK, WriterTypes, Call
  <1>3. InBlocks /\ InBlocks' /\ call.deletes = 0 /\ Reached = call.taken /\ Reached' = last
        /\ Len(call.ids) <= MaxBatch /\ call.taken < Len(call.ids) /\ (MayRefuse => call.taken = 0)
    BY <1>1, <1>2 DEF AnswerInv, CallShape, Reached, InBlocks
  <1>4. call.taken \in Nat /\ Len(call.ids) \in Nat /\ BlockSize \in Nat /\ BlockSize # 0
        /\ MaxBatch \in Nat
    BY CallFacts, BoundsAssumption
  <1>5. last \in Nat /\ call.taken < last /\ last <= Len(call.ids)
        /\ (MayRefuse => last = Len(call.ids))
    BY <1>3, <1>4 DEF Smaller, Undisturbed
  <1>6. toPlace = {} /\ toClose = {}
    BY <1>1 DEF BookInv, Ready
  <1> HIDE DEF last
  <1>7. Filling = {} /\ Filling' = {}
    BY <1>1 DEF Filling
  <1>8. Placed = 1..call.taken /\ Placed' = 1..call.taken
    <2>1. Placed = 1..call.taken
      BY <1>3, <1>6, <1>7 DEF Placed
    <2>2. Placed' = {k \in 1..last : k \notin block}
      BY <1>1, <1>2, <1>3, <1>7 DEF Placed
    <2>3. {k \in 1..last : k \notin block} = 1..call.taken
      BY <1>4, <1>5
    <2> QED
      BY <2>1, <2>2, <2>3
  <1>9. Ended = 1..call.taken /\ Ended' = 1..call.taken
    <2>1. Ended = 1..call.taken
      BY <1>3, <1>6 DEF Ended
    <2>2. Ended' = {k \in 1..last : k \notin block}
      <3>1. Ended' = {k \in 1..last : k \notin toClose' /\
                        (k \in block => call'.kind = "rounds" \/ First(block, k))}
        BY <1>1, <1>3 DEF Ended
      <3>2. CASE byRow
        BY <1>1, <1>2, <3>1, <3>2
      <3>3. CASE ~byRow
        BY <1>1, <1>2, <3>1, <3>3
      <3> QED
        BY <3>2, <3>3
    <2>3. {k \in 1..last : k \notin block} = 1..call.taken
      BY <1>4, <1>5
    <2> QED
      BY <2>1, <2>2, <2>3
  <1>10. Cells(directory)' = Cells(directory)
    BY <1>1 DEF writer_shared, Cells
  <1>17. CellStamps' /\ OpenNow'
    BY <1>1, <1>2, <1>8, <1>9, <1>10, SameRows DEF writer_shared
  <1>11. Answers' /\ Collected' /\ Asked'
    BY <1>1, <1>10, SameImages, CallFacts DEF writer_shared
  <1>12. Late'
    BY <1>1, <1>2, CallFacts DEF AnswerInv, Late, InWrite, writer_shared
  <1>13. /\ call.taken + 1 \in block /\ First(block, call.taken + 1)
         /\ toClose' \subseteq block /\ block \subseteq 1..last /\ toClose' # {}
         /\ \A k \in block : call.taken < k
    <2>1. call.taken + 1 \in block /\ First(block, call.taken + 1)
      BY <1>4, <1>5 DEF First
    <2> QED
      BY <1>1, <1>4, <1>5, <2>1
  <1>14. CallShape'
    BY <1>1, <1>2, <1>3, <1>4, <1>5, <1>7, <1>13 DEF CallShape, InWrite
  <1>15. CallOrder'
    <2>1. CASE byRow
      <3>1. \A i \in block, j \in (1..last) \ block : j < i
        BY <1>4, <1>5
      <3>2. \A i \in block, j \in toClose' : j <= i
        BY <1>1, <2>1 DEF First
      <3>3. \A i \in block : First(block, i) => i \in toClose'
        BY <1>1, <2>1
      <3>4. \A i \in Placed', j \in toClose' : i < j
        BY <1>4, <1>5, <1>8, <1>13
      <3> QED
        BY <1>1, <1>2, <1>3, <1>7, <2>1, <3>1, <3>2, <3>3, <3>4 DEF CallOrder
    <2>2. CASE ~byRow
      <3>1. \A i \in block, j \in 1..last : i < j => call.ids[j] # call.ids[i]
        <4>1. ASSUME NEW i \in block, NEW j \in 1..last, i < j PROVE call.ids[j] # call.ids[i]
          <5>1. j \in block /\ i # j
            BY <1>4, <1>5, <4>1
          <5> QED
            BY <2>2, <5>1 DEF RowByRow, Repeats
        <4> QED
          BY <4>1
      <3>2. \A i \in Placed', j \in toClose' : i < j
        BY <1>4, <1>5, <1>8, <1>13
      <3> QED
        BY <1>1, <1>2, <1>3, <1>7, <2>2, <3>1, <3>2 DEF CallOrder
    <2> QED
      BY <2>1, <2>2
  <1>16. DeletesFind'
    BY <1>1, <1>13 DEF DeletesFind
  <1> QED
    BY <1>11, <1>12, <1>14, <1>15, <1>16, <1>17 DEF AnswerInv

\* A step that leaves no write in progress, and no version changed.
LEMMA NoRowsLeft ==
  ASSUME TypeOK, SlotInv, AnswerInv, Placed = {}, Ended = {}, ~InWrite',
         call'.ids = <<>>, call'.kind \notin {"rows", "rounds"}, call'.deletes = 0, call'.taken = 0,
         toClose' = {}, toPlace' = {}, wpc' \in {"idle", "reclaim", "consolidate"},
         UNCHANGED <<image, directory, clock, committed, history, reader_vars>>,
         horizon' \in Nat, horizon <= horizon', horizon' <= committed + 1
  PROVE  AnswerInv'
  <1>1. Cells(directory)' = Cells(directory)
    BY DEF Cells
  <1>2. Answers' /\ Collected' /\ Asked'
    BY <1>1, SameImages
  <1>3. ~InBlocks' /\ Reached' = 0 /\ Filling' = {}
    BY DEF InBlocks, Reached, Filling
  <1>4. Placed' = {} /\ Ended' = {}
    BY <1>3 DEF Placed, Ended
  <1>5. CellStamps' /\ OpenNow'
    BY <1>1, <1>4, NoRowsYet
  <1>6. Late'
    BY DEF AnswerInv, Late
  <1>7. CallShape'
    BY <1>3 DEF CallShape
  <1>8. CallOrder' /\ DeletesFind'
    BY <1>3, <1>4 DEF CallOrder, DeletesFind
  <1> QED
    BY <1>2, <1>5, <1>6, <1>7, <1>8 DEF AnswerInv

\* A call that is over, with none of its rows done.
LEMMA AbandonAnswers ==
  ASSUME TypeOK, SlotInv, AnswerInv, Placed = {}, Ended = {}, Abandon,
         UNCHANGED <<image, directory, clock, committed, horizon, history, reader_vars>>
  PROVE  AnswerInv'
  <1>1. horizon \in Nat /\ horizon <= committed + 1
    BY CallFacts DEF AnswerInv, Late
  <1>2. /\ wpc' = "idle" /\ call'.ids = <<>> /\ call'.kind = "none" /\ call'.deletes = 0
        /\ call'.taken = 0 /\ toClose' = {} /\ toPlace' = {} /\ ~InWrite'
    BY DEF Abandon, NoCall, InWrite
  <1> QED
    BY <1>1, <1>2, NoRowsLeft

LEMMA RefuseAnswers ==
  ASSUME TypeOK, SlotInv, AnswerInv, RefuseBlock
  PROVE  AnswerInv'
  <1>1. Reached = 0
    BY DEF AnswerInv, CallShape, RefuseBlock, Reached
  <1>2. Placed = {} /\ Ended = {}
    BY <1>1, RowFacts
  <1> QED
    BY <1>2, AbandonAnswers DEF RefuseBlock, writer_shared

LEMMA VacuumAnswers ==
  ASSUME TypeOK, SlotInv, BookInv, AnswerInv, Vacuum
  PROVE  AnswerInv'
  <1>1. PICK oldest \in 1..(committed + 1) : horizon' = IF oldest > horizon THEN oldest ELSE horizon
    BY DEF Vacuum
  <1>2. horizon' \in Nat /\ horizon <= horizon' /\ horizon' <= committed + 1
    BY <1>1, CallFacts DEF AnswerInv, Late
  <1>3. /\ wpc = "idle" /\ wpc' \in {"reclaim", "consolidate"}
        /\ UNCHANGED <<image, directory, clock, committed, history, toClose, toPlace, reader_vars>>
    BY DEF Vacuum
  <1>4. /\ call'.ids = <<>> /\ call'.kind = "vacuum" /\ call'.deletes = 0 /\ call'.taken = 0
    BY DEF Vacuum, NoCall
  <1>5. toClose' = {} /\ toPlace' = {}
    BY <1>3 DEF BookInv, Ready
  <1>6. Placed = {} /\ Ended = {} /\ ~InWrite'
    BY <1>3, <1>4, NoRows DEF InWrite
  <1> QED
    BY <1>2, <1>3, <1>4, <1>5, <1>6, NoRowsLeft

\* A step of a call that changes no version and has no row done.
LEMMA Onward ==
  ASSUME TypeOK, SlotInv, BookInv, AnswerInv,
         wpc \notin {"idle", "close", "filled"}, wpc' \notin {"idle", "close", "filled"},
         UNCHANGED <<image, clock, committed, horizon, history, call, toClose, toPlace, reader_vars>>,
         Cells(directory)' = Cells(directory), InWrite' <=> InWrite,
         wpc' = "block" => InBlocks /\ call.taken < Len(call.ids) /\ (MayRefuse => call.taken = 0),
         wpc' # "block" /\ InBlocks /\ MayRefuse => Reached = Len(call.ids),
         wpc' \in {"consolidate", "merge", "commit"} => Reached = Len(call.ids)
  PROVE  AnswerInv'
  <1>1. Answers' /\ Collected' /\ Asked'
    BY SameImages, CallFacts
  <1>2. InBlocks' = InBlocks /\ Reached' = Reached
    BY DEF InBlocks, Reached
  <1>3. Filling' = {} /\ Filling = {}
    BY DEF Filling
  <1>4. Placed' = Placed
    BY <1>2, <1>3 DEF Placed
  <1>5. Ended' = Ended
    BY <1>2 DEF Ended
  <1>6. CellStamps' /\ OpenNow'
    BY <1>4, <1>5, SameRows
  <1>7. Late'
    BY DEF AnswerInv, Late
  <1>8. CallShape'
    BY <1>2, <1>3 DEF AnswerInv, CallShape
  <1>9. toClose = {} /\ toClose' = {}
    BY DEF BookInv, Ready
  <1>10. CallOrder'
    BY <1>2, <1>3, <1>4, <1>9 DEF AnswerInv, CallOrder
  <1>11. DeletesFind'
    BY <1>9 DEF DeletesFind
  <1> QED
    BY <1>1, <1>6, <1>7, <1>8, <1>10, <1>11 DEF AnswerInv

LEMMA StopMergingAnswers ==
  ASSUME TypeOK, SlotInv, BookInv, AnswerInv, StopMerging
  PROVE  AnswerInv'
  <1>1. CASE call.kind = "vacuum"
    <2>1. Placed = {} /\ Ended = {}
      BY <1>1, NoRows DEF StopMerging, InWrite
    <2> QED
      BY <1>1, <2>1, AbandonAnswers DEF StopMerging, writer_shared
  <1>2. CASE call.kind # "vacuum"
    <2>1. /\ wpc = "merge" /\ wpc' = "commit"
          /\ UNCHANGED <<image, directory, clock, committed, horizon, history, call, toClose, toPlace,
                         reader_vars>>
      BY <1>2 DEF StopMerging, writer_shared
    <2>2. Cells(directory)' = Cells(directory)
      BY <2>1 DEF Cells
    <2>3. InWrite' <=> InWrite
      BY <1>2, <2>1 DEF InWrite
    <2>4. Reached = Len(call.ids)
      BY <2>1 DEF AnswerInv, CallShape
    <2> QED
      BY <2>1, <2>2, <2>3, <2>4, Onward
  <1> QED
    BY <1>1, <1>2

LEMMA ConsolidateAnswers ==
  ASSUME TypeOK, SlotInv, BookInv, AnswerInv, Consolidate
  PROVE  AnswerInv'
  <1>1. /\ wpc \in {"consolidate", "reclaim"} /\ wpc' = "merge"
        /\ UNCHANGED <<image, directory, clock, committed, horizon, history, call, toClose, toPlace,
                       reader_vars>>
    BY DEF Consolidate
  <1>2. Cells(directory)' = Cells(directory)
    BY <1>1 DEF Cells
  <1>3. InWrite' <=> InWrite
    BY <1>1 DEF InWrite
  <1>4. Reached = Len(call.ids)
    <2>1. CASE wpc = "consolidate"
      BY <2>1 DEF AnswerInv, CallShape
    <2>2. CASE wpc = "reclaim"
      <3>1. ~InWrite
        BY <2>2 DEF BookInv, DoomedByVacuum, InWrite
      <3>2. Reached = 0 /\ call.ids = <<>>
        BY <3>1, NoRows DEF AnswerInv, CallShape
      <3> QED
        BY <3>2
    <2> QED
      BY <1>1, <2>1, <2>2
  <1> QED
    BY <1>1, <1>2, <1>3, <1>4, Onward

\* Where a call goes on after its rows, and what is then true of it.
LEMMA AfterRowsFacts ==
  ASSUME TypeOK, AnswerInv, wpc # "block", UNCHANGED <<call, toPlace>>, wpc' = AfterRows
  PROVE  /\ wpc' \in {"place", "block", "consolidate", "commit"}
         /\ wpc' = "block" => InBlocks /\ call.taken < Len(call.ids) /\ (MayRefuse => call.taken = 0)
         /\ wpc' # "block" /\ InBlocks /\ MayRefuse => Reached = Len(call.ids)
         /\ wpc' \in {"consolidate", "commit"} => Reached = Len(call.ids)
  <1>1. InBlocks /\ MayRefuse => Reached = Len(call.ids)
    BY DEF AnswerInv, CallShape
  <1>2. call.taken \in Nat /\ Len(call.ids) \in Nat /\ call.taken <= Len(call.ids)
    BY CallFacts DEF AnswerInv, CallShape
  <1>3. InBlocks => Reached = call.taken
    BY DEF Reached
  <1>4. ~InBlocks => Reached = Len(call.ids)
    BY DEF Reached
  <1> DEFINE n == Len(call.ids)
             more == call.taken < n
  <1>5. wpc' = IF toPlace # {} THEN "place" ELSE IF more /\ InBlocks THEN "block"
               ELSE IF call.taken >= Capacity THEN "consolidate" ELSE "commit"
    BY DEF AfterRows, InBlocks
  <1>6. ~more /\ InBlocks => Reached = n
    BY <1>2, <1>3
  <1>7. more /\ InBlocks => ~MayRefuse
    BY <1>1, <1>2, <1>3
  <1> HIDE DEF more
  <1> QED
    BY <1>1, <1>4, <1>5, <1>6, <1>7 DEF more

LEMMA ListAnswers ==
  ASSUME TypeOK, SlotInv, BookInv, AnswerInv, List
  PROVE  AnswerInv'
  <1>1. /\ wpc \in {"place", "list"} /\ wpc' = AfterRows
        /\ UNCHANGED <<image, directory, clock, committed, horizon, history, call, toClose, toPlace,
                       reader_vars>>
    BY DEF List
  <1>2. Cells(directory)' = Cells(directory)
    BY <1>1 DEF Cells
  <1>3. call.kind # "vacuum"
    BY DEF List, BookInv, Unlisted
  <1>4. wpc' \in {"place", "block", "consolidate", "commit"}
    BY <1>1, AfterRowsFacts
  <1>5. InWrite' /\ InWrite
    BY <1>1, <1>3, <1>4 DEF InWrite
  <1> QED
    BY <1>1, <1>2, <1>4, <1>5, AfterRowsFacts, Onward

LEMMA FirstPageAnswers ==
  ASSUME TypeOK, SlotInv, BookInv, AnswerInv, FirstPage
  PROVE  AnswerInv'
  <1>1. /\ wpc = "place" /\ directory = {} /\ directory' = {nextPage} /\ nextPage \in Pages
        /\ UNCHANGED <<image, clock, committed, horizon, history, wpc, call, toClose, toPlace,
                       reader_vars>>
    BY PageTypes, BoundsAssumption DEF FirstPage, writer_local, TypeOK, SharedTypes, Pages
  <1>2. image[nextPage] = EmptyImage
    BY <1>1, PageTypes DEF BookInv, Fresh
  <1>3. Cells(directory) = {}
    BY <1>1 DEF Cells
  <1>4. Cells(directory)' = {}
    BY <1>1, <1>2 DEF Cells, EmptyImage
  <1>5. InWrite' <=> InWrite
    BY <1>1 DEF InWrite
  <1> QED
    BY <1>1, <1>3, <1>4, <1>5, Onward DEF AnswerInv, CallShape

-----------------------------------------------------------------------------
(* Steps that copy versions, and that clear them.                          *)

\* The call is where it was.
LEMMA CallKept ==
  ASSUME TypeOK, BookInv, AnswerInv, wpc \notin {"close", "filled"},
         UNCHANGED <<wpc, call, toClose, toPlace, clock, committed, horizon>>
  PROVE  Late' /\ CallShape' /\ CallOrder' /\ DeletesFind' /\ Placed' = Placed /\ Ended' = Ended
  <1>1. InWrite' = InWrite /\ InBlocks' = InBlocks /\ Reached' = Reached
    BY DEF InWrite, InBlocks, Reached
  <1>2. Filling = {} /\ Filling' = {}
    BY DEF Filling
  <1>3. Placed' = Placed /\ Ended' = Ended
    BY <1>1, <1>2 DEF Placed, Ended
  <1>4. toClose = {} /\ toClose' = {}
    BY DEF BookInv, Ready
  <1>5. Late' /\ CallShape'
    BY <1>1, <1>2 DEF AnswerInv, Late, CallShape
  <1>6. CallOrder' /\ DeletesFind'
    BY <1>1, <1>2, <1>3, <1>4 DEF AnswerInv, CallOrder, DeletesFind
  <1> QED
    BY <1>3, <1>5, <1>6

\* The open versions of the directory, as a search reads them.
OpenRecords == {Record(At(c)) : c \in {d \in Cells(directory) : At(d).end = MAX_TS}}

\* What the history and the call make of them.
OpenRows ==
  {Record(v) : v \in {w \in history : w.end = MAX_TS /\ \A j \in Ended : call.ids[j] # w.id}}
  \cup {Record(RowCell(k)) :
          k \in {i \in Placed : \A j \in Ended : i < j => call.ids[j] # call.ids[i]}}

LEMMA OpenNowIs == OpenNow <=> OpenRecords = OpenRows
  BY DEF OpenNow, OpenRecords, OpenRows

LEMMA SameOpenRows ==
  ASSUME call'.ids = call.ids, call'.ts = call.ts, history' = history,
         Placed' = Placed, Ended' = Ended
  PROVE  OpenRows' = OpenRows
  <1>1. \A k : RowCell(k)' = RowCell(k)
    BY DEF RowCell
  <1> QED
    BY <1>1 DEF OpenRows, Record

\* The cells after the step are cells from before it, and no open one is lost.
LEMMA TracedCells ==
  ASSUME AnswerInv, UNCHANGED <<call, history, committed>>, Placed' = Placed, Ended' = Ended,
         NEW from \in [Cells(directory)' -> Cells(directory)],
         \A c \in Cells(directory)' : At(from[c]) = At(c)',
         \A c \in Cells(directory) : At(c).end = MAX_TS => \E d \in Cells(directory)' : from[d] = c
  PROVE  CellStamps' /\ OpenNow'
  <1>1. CellStamps'
    BY DEF AnswerInv, CellStamps
  <1>2. OpenRecords' = OpenRecords
    <2>1. OpenRecords' = {Record(At(c)') : c \in {d \in Cells(directory)' : At(d)'.end = MAX_TS}}
      BY DEF OpenRecords, Record
    <2>2. ASSUME NEW c \in Cells(directory)', At(c)'.end = MAX_TS
          PROVE  Record(At(c)') \in OpenRecords
      BY <2>2 DEF OpenRecords
    <2>3. ASSUME NEW c \in Cells(directory), At(c).end = MAX_TS
          PROVE  Record(At(c)) \in OpenRecords'
      BY <2>1, <2>3
    <2> QED
      BY <2>1, <2>2, <2>3 DEF OpenRecords
  <1>3. OpenRows' = OpenRows
    BY SameOpenRows
  <1>4. OpenRecords = OpenRows
    BY OpenNowIs DEF AnswerInv
  <1>5. OpenNow' <=> OpenRecords' = OpenRows'
    BY DEF OpenNow, OpenRecords, OpenRows
  <1> QED
    BY <1>1, <1>2, <1>3, <1>4, <1>5

LEMMA CopiesAnswers ==
  ASSUME TypeOK, TypeOK', SlotInv, BookInv, AnswerInv, NEW old, NEW new, NEW src,
         Copies(old, new, src), wpc \notin {"close", "filled"},
         UNCHANGED <<wpc, call, toClose, toPlace, clock, committed, horizon, history, reader_vars>>
  PROVE  AnswerInv'
  <1>1. PICK from \in [Cells(directory)' -> Cells(directory)] :
           /\ \A c \in Cells(directory)' : At(from[c]) = At(c)'
           /\ \A c \in Cells(directory) : \E d \in Cells(directory)' : from[d] = c
    BY Traces
  <1>2. Late' /\ CallShape' /\ CallOrder' /\ DeletesFind' /\ Placed' = Placed /\ Ended' = Ended
    BY CallKept
  <1>3. CellStamps' /\ OpenNow'
    BY <1>1, <1>2, TracedCells
  <1>4. Answers' /\ Collected' /\ Asked'
    BY CopiesSeen
  <1> QED
    BY <1>2, <1>3, <1>4 DEF AnswerInv

LEMMA SplitMergeAnswers ==
  ASSUME TypeOK, TypeOK', SlotInv, BookInv, AnswerInv, Split \/ MergeMany
  PROVE  AnswerInv'
  <1>1. PICK old, new, src : Copies(old, new, src)
    BY SplitCopies, MergeCopies
  <1>2. /\ wpc \in {"place", "merge"}
        /\ UNCHANGED <<wpc, call, toClose, toPlace, clock, committed, horizon, history, reader_vars>>
    BY DEF Split, MergeMany, writer_local
  <1> QED
    BY <1>1, <1>2, CopiesAnswers

LEMMA ReclaimAnswers ==
  ASSUME TypeOK, TypeOK', SlotInv, BookInv, AnswerInv, Reclaim
  PROVE  AnswerInv'
  <1>1. PICK p \in Pages : /\ image' = [image EXCEPT ![p] = Cleared(@, doomed[p])]
                           /\ doomed' = [doomed EXCEPT ![p] = {}]
    BY DEF Reclaim
  <1>2. /\ wpc = "reclaim"
        /\ UNCHANGED <<wpc, call, toClose, toPlace, clock, committed, horizon, history, directory,
                       reader_vars>>
    BY DEF Reclaim
  <1>3. ASSUME NEW c \in Pages \X Slots
        PROVE  At(c)' = IF c[1] = p /\ Matches(At(c), doomed[p]) THEN Free ELSE At(c)
    BY <1>1, PageTypes DEF At, Cleared
  <1>4. Cells(directory)' \subseteq Cells(directory) /\ \A c \in Cells(directory)' : At(c)' = At(c)
    <2>1. ASSUME NEW c \in Cells(directory)' PROVE c \in Cells(directory) /\ At(c)' = At(c)
      <3>1. c \in directory \X Slots /\ At(c)' # Free
        BY <1>2 DEF Cells, At
      <3>2. c \in Pages \X Slots
        BY <3>1, PageTypes
      <3>3. At(c)' = At(c)
        BY <1>3, <3>1, <3>2
      <3> QED
        BY <3>1, <3>3 DEF Cells, At
    <2> QED
      BY <2>1
  <1>5. \A stamp \in doomed[p] :
          /\ stamp[2] <= committed /\ stamp[2] < horizon
          /\ \A r \in Readers :
               /\ rpc[r] = "pinned" /\ asked[r].at # 0 => stamp[2] <= asked[r].at
               /\ rpc[r] \in {"resolved", "refined", "scan", "held"} => stamp[2] <= snap[r]
    BY DEF SlotInv, DoomedIsPast
  <1>6. ASSUME NEW c \in Pages \X Slots, Matches(At(c), doomed[p]), c[1] = p
        PROVE  /\ At(c) # Free /\ At(c).end \in Nat /\ At(c).end <= committed /\ At(c).end # MAX_TS
               /\ \A ts \in Viewed : At(c).end <= ts
    <2>1. At(c) # Free /\ Stamp(At(c)) \in doomed[p] /\ At(c).end = Stamp(At(c))[2]
      BY <1>6 DEF Matches, Stamp
    <2>2. At(c).end \in Nat
      BY <2>1, PageTypes DEF At, Version
    <2>3. At(c).end <= committed /\ At(c).end < horizon
      BY <1>5, <2>1
    <2>4. committed \in Nat /\ horizon \in Nat /\ committed <= MaxClock
      BY CallFacts, BeforeTheEnd DEF AnswerInv, Late, BookInv, RealStamps
    <2>5. At(c).end # MAX_TS
      BY <2>2, <2>3, <2>4, BeforeTheEnd
    <2>6. ASSUME NEW ts \in Viewed PROVE At(c).end <= ts
      <3>1. CASE ts \in 0..committed /\ horizon <= ts + 1
        BY <2>2, <2>3, <2>4, <3>1
      <3>2. CASE \E r \in Readers : rpc[r] = "pinned" /\ asked[r].at # 0 /\ ts = asked[r].at
        BY <1>5, <2>1, <3>2
      <3>3. CASE \E r \in Readers : rpc[r] \in {"resolved", "refined", "scan", "held"} /\ ts = snap[r]
        BY <1>5, <2>1, <3>3
      <3> QED
        BY <3>1, <3>2, <3>3 DEF Viewed, Readable
    <2> QED
      BY <2>1, <2>2, <2>3, <2>5, <2>6
  <1>7. Answers' /\ Collected' /\ Asked'
    <2>1. ASSUME NEW ts \in Viewed, NEW c \in Pages \X Slots
          PROVE  /\ Visible(At(c)', ts) <=> Visible(At(c), ts)
                 /\ Visible(At(c), ts) => Record(At(c)') = Record(At(c))
      <3>1. CASE c[1] = p /\ Matches(At(c), doomed[p])
        <4>1. ts \in Nat /\ At(c).end \in Nat /\ At(c).end <= ts
          BY <1>6, <3>1, ViewedFacts
        <4>2. ~Visible(At(c), ts)
          BY <4>1 DEF Visible
        <4>3. ~Visible(At(c)', ts)
          BY <1>3, <3>1 DEF Visible
        <4> QED
          BY <4>2, <4>3
      <3>2. CASE ~(c[1] = p /\ Matches(At(c), doomed[p]))
        BY <1>3, <3>2
      <3> QED
        BY <3>1, <3>2
    <2>2. horizon' \in Nat /\ horizon <= horizon'
      BY <1>2, CallFacts
    <2> QED
      BY <1>2, <2>1, <2>2, InPlace
  <1>8. Late' /\ CallShape' /\ CallOrder' /\ DeletesFind' /\ Placed' = Placed /\ Ended' = Ended
    BY <1>2, CallKept
  <1>9. CellStamps' /\ OpenNow'
    <2> DEFINE from == [c \in Cells(directory)' |-> c]
    <2>1. from \in [Cells(directory)' -> Cells(directory)]
      BY <1>4
    <2>2. \A c \in Cells(directory)' : At(from[c]) = At(c)'
      BY <1>4
    <2>3. ASSUME NEW c \in Cells(directory), At(c).end = MAX_TS
          PROVE  \E d \in Cells(directory)' : from[d] = c
      <3>1. c = <<c[1], c[2]>> /\ c[1] \in directory /\ c[1] \in Pages /\ c[2] \in Slots /\ At(c) # Free
        BY CellFacts
      <3>2. At(c)' = At(c)
        BY <1>3, <1>6, <2>3, <3>1
      <3>3. c \in Cells(directory)'
        BY <1>2, <3>1, <3>2 DEF Cells, At
      <3> QED
        BY <3>3
    <2> HIDE DEF from
    <2> QED
      BY <1>2, <1>8, <2>1, <2>2, <2>3, TracedCells
  <1> QED
    BY <1>7, <1>8, <1>9 DEF AnswerInv

-----------------------------------------------------------------------------
(* Steps that put rows in pages.                                           *)

\* The versions of two rows differ.
LEMMA RowCells ==
  ASSUME NEW j, NEW k, RowCell(j) = RowCell(k)
  PROVE  j = k
  <1>1. RowCell(j).vec = RowCell(k).vec
    OBVIOUS
  <1>2. RowCell(j).vec = <<call.ts, j>> /\ RowCell(k).vec = <<call.ts, k>>
    BY DEF RowCell
  <1> QED
    BY <1>1, <1>2

LEMMA RowIsVersion ==
  ASSUME TypeOK, NEW k \in DOMAIN call.ids
  PROVE  RowCell(k) \in Version /\ RowCell(k) # Free
  <1>1. RowCell(k) \in Version
    BY PageTypes, MaxTsAssumption DEF RowCell, Version, Vec
  <1> QED
    BY <1>1, FreeAssumption

\* The rows in a clone before and after one more row went into slot s of it.
LEMMA FilledOneMore ==
  ASSUME TypeOK, BookInv, NEW p \in Pages, NEW img \in Image, NEW k \in DOMAIN call.ids, NEW s \in Slots,
         img[s] = Free, image[p][s] = Free,
         \/ wpc = "place" /\ img = image[p]
         \/ wpc = "filled" /\ p = draft.page /\ img = draft.img,
         wpc' = "filled", draft'.page = p, draft'.img = Filled(img, s, RowCell(k)),
         UNCHANGED <<image, call>>
  PROVE  Filling' = Filling \cup {k}
  <1>1. \A j : RowCell(j)' = RowCell(j)
    BY DEF RowCell
  <1>2. Filling' = {j \in DOMAIN call.ids : \E t \in Slots : image[p][t] = Free /\ draft'.img[t] = RowCell(j)}
    BY <1>1 DEF Filling
  <1>3. \A t \in Slots : draft'.img[t] = IF t = s THEN RowCell(k) ELSE img[t]
    BY DEF Filled, Image
  <1>4. Filling = {j \in DOMAIN call.ids : \E t \in Slots : image[p][t] = Free /\ img[t] = RowCell(j)}
    <2>1. CASE wpc = "place" /\ img = image[p]
      BY <2>1, RowIsVersion DEF Filling
    <2>2. CASE wpc = "filled" /\ p = draft.page /\ img = draft.img
      BY <2>2 DEF Filling
    <2> QED
      BY <2>1, <2>2
  <1>5. k \in Filling'
    BY <1>2, <1>3
  <1>6. ASSUME NEW j \in DOMAIN call.ids, j # k PROVE j \in Filling' <=> j \in Filling
    <2>1. \A t \in Slots : draft'.img[t] = RowCell(j) <=> img[t] = RowCell(j)
      BY <1>3, <1>6, RowCells, RowIsVersion
    <2> QED
      BY <1>2, <1>4, <2>1
  <1> QED
    BY <1>2, <1>4, <1>5, <1>6

LEMMA FillAnswers ==
  ASSUME TypeOK, SlotInv, BookInv, AnswerInv, NEW p, NEW img \in Image, NEW rows \in SUBSET (Ids \X Slots),
         CloneOf(p, img, rows), Fill(p, img, rows),
         \/ wpc = "place" /\ img = image[p]
         \/ wpc = "filled" /\ call.kind = "rounds" /\ p = draft.page /\ img = draft.img
  PROVE  AnswerInv'
  <1>1. PICK k \in toPlace, s \in FreeSlots(img) :
          /\ call.kind # "rounds" => First(toPlace, k)
          /\ draft' = [page |-> p, img |-> Filled(img, s, RowCell(k)),
                       rows |-> rows \cup {<<call.ids[k], s>>}]
          /\ toPlace' = toPlace \ {k}
    BY DEF Fill, RowCell
  <1>2. /\ wpc' = "filled" /\ wpc \in {"place", "filled"}
        /\ UNCHANGED <<image, directory, clock, committed, horizon, history, call, toClose, reader_vars>>
    BY DEF Fill
  <1>3. /\ p \in Pages /\ s \in Slots /\ img[s] = Free /\ image[p][s] = Free
    BY PageTypes DEF CloneOf, FreeSlots
  <1>4. k \in DOMAIN call.ids /\ k \in 1..Reached /\ k \in (call.deletes + 1)..Reached /\ k \in Nat
    BY PageTypes DEF AnswerInv, CallShape
  <1>5. Filling' = Filling \cup {k}
    BY <1>1, <1>2, <1>3, <1>4, FilledOneMore
  <1>6. InBlocks' = InBlocks /\ Reached' = Reached /\ InWrite' = InWrite
    BY <1>2 DEF InBlocks, Reached, InWrite
  <1>7. Placed' = Placed
    <2>1. Placed' = {j \in (call.deletes + 1)..Reached : j \notin toPlace' /\ j \notin Filling'}
      BY <1>2, <1>6 DEF Placed
    <2>2. \A j : (j \notin toPlace' /\ j \notin Filling') <=> (j \notin toPlace /\ j \notin Filling)
      BY <1>1, <1>5
    <2> QED
      BY <2>1, <2>2 DEF Placed
  <1>8. toClose = {}
    BY <1>2 DEF BookInv, Ready
  <1>9. Ended' = Ended
    <2>1. CASE call.kind = "rounds"
      <3>1. Ended = 1..Reached
        BY <1>8, <2>1 DEF Ended
      <3>2. Ended' = 1..Reached
        BY <1>2, <1>6, <1>8, <2>1 DEF Ended
      <3> QED
        BY <3>1, <3>2
    <2>2. CASE call.kind # "rounds"
      <3>1. wpc = "place" /\ First(toPlace, k)
        BY <1>1, <2>2
      <3>2. \A j \in toPlace : First(toPlace, j) <=> j = k
        <4>1. \A j \in toPlace : j \in Nat
          BY PageTypes
        <4> QED
          BY <1>4, <3>1, <4>1 DEF First
      <3>3. Ended = {j \in 1..Reached : j \in toPlace => j = k}
        BY <1>8, <2>2, <3>1, <3>2 DEF Ended
      <3>4. Ended' = {j \in 1..Reached : j \notin toPlace'}
        BY <1>2, <1>6, <1>8, <2>2 DEF Ended
      <3> QED
        BY <1>1, <3>3, <3>4
    <2> QED
      BY <2>1, <2>2
  <1>10. Cells(directory)' = Cells(directory)
    BY <1>2 DEF Cells
  <1>11. CellStamps' /\ OpenNow'
    BY <1>2, <1>7, <1>9, <1>10, SameRows
  <1>12. Answers' /\ Collected' /\ Asked'
    BY <1>2, <1>10, SameImages, CallFacts
  <1>13. Late'
    BY <1>2, <1>6 DEF AnswerInv, Late
  <1>14. CallShape'
    <2>1. toPlace' \cup Filling' \subseteq (call.deletes + 1)..Reached
      BY <1>1, <1>4, <1>5 DEF AnswerInv, CallShape
    <2>2. InBlocks /\ MayRefuse => Reached = Len(call.ids)
      BY <1>2 DEF AnswerInv, CallShape
    <2> QED
      BY <1>2, <1>6, <2>1, <2>2 DEF AnswerInv, CallShape
  <1>15. CallOrder'
    <2>1. CASE call.kind = "rounds"
      <3>1. toPlace' \cup Filling' = toPlace \cup Filling
        BY <1>1, <1>5
      <3>2. \A i \in toPlace \cup Filling, j \in 1..Reached : i < j => call.ids[j] # call.ids[i]
        BY <2>1 DEF AnswerInv, CallOrder
      <3> QED
        BY <1>2, <1>6, <1>8, <2>1, <3>1, <3>2 DEF CallOrder
    <2>2. CASE call.kind # "rounds"
      <3>1. wpc = "place" /\ First(toPlace, k)
        BY <1>1, <2>2
      <3>2. \A i \in toPlace, j \in (1..Reached) \ toPlace : j < i
        BY <2>2 DEF AnswerInv, CallOrder
      <3>3. Filling' = {k}
        BY <1>5, <3>1 DEF Filling
      <3>4. \A i \in toPlace' : i \in toPlace /\ i \in Nat /\ k < i
        <4>1. \A i \in toPlace' : i \in toPlace /\ i # k /\ i \in Nat
          BY <1>1, PageTypes
        <4>2. \A i \in toPlace : k <= i
          BY <3>1 DEF First
        <4> QED
          BY <1>4, <4>1, <4>2
      <3>5. \A i \in toPlace', j \in (1..Reached) \ toPlace' : j < i
        BY <1>1, <3>2, <3>4
      <3>6. \A j \in (1..Reached) \ toPlace' : j <= k
        BY <1>1, <1>4, <3>2
      <3> QED
        BY <1>2, <1>6, <1>8, <2>2, <3>3, <3>5, <3>6 DEF CallOrder
    <2> QED
      BY <2>1, <2>2
  <1>16. DeletesFind'
    BY <1>2, <1>8 DEF DeletesFind
  <1> QED
    BY <1>11, <1>12, <1>13, <1>14, <1>15, <1>16 DEF AnswerInv

LEMMA PlaceAnswers ==
  ASSUME TypeOK, SlotInv, BookInv, AnswerInv, Place \/ PlaceMore
  PROVE  AnswerInv'
  <1>1. CASE Place
    <2>1. PICK p \in directory : Fill(p, image[p], {})
      BY <1>1 DEF Place
    <2>2. CloneOf(p, image[p], {}) /\ image[p] \in Image
      BY PageTypes DEF CloneOf
    <2> QED
      BY <1>1, <2>1, <2>2, FillAnswers DEF Place
  <1>2. CASE PlaceMore
    <2>1. draft.img \in Image /\ draft.rows \in SUBSET (Ids \X Slots)
      BY DEF TypeOK, WriterTypes
    <2>2. CloneOf(draft.page, draft.img, draft.rows)
      BY <1>2 DEF CloneOf, PlaceMore, BookInv, Drafted, ReadyDraft
    <2> QED
      BY <1>2, <2>1, <2>2, FillAnswers DEF PlaceMore
  <1> QED
    BY <1>1, <1>2

\* Publishing makes cells of the rows in the clone.
LEMMA PublishedRows ==
  ASSUME TypeOK, BookInv, Publish
  PROVE  /\ \A c \in Cells(directory)' : c \in Cells(directory) \/
              (At(c) = Free /\ \E k \in Filling : At(c)' = RowCell(k))
         /\ \A k \in Filling : \E c \in Cells(directory)' : At(c)' = RowCell(k)
  <1>1. /\ wpc = "filled" /\ draft.page \in directory /\ draft.page \in Pages /\ draft.img \in Image
        /\ directory' = directory /\ image' = [image EXCEPT ![draft.page] = draft.img]
    BY PageTypes DEF Publish, BookInv, Drafted, TypeOK, WriterTypes
  <1>2. \A p \in Pages : image'[p] = IF p = draft.page THEN draft.img ELSE image[p]
    BY <1>1, PageTypes
  <1>3. ASSUME NEW c \in Cells(directory)', c \notin Cells(directory)
        PROVE  At(c) = Free /\ \E k \in Filling : At(c)' = RowCell(k)
    <2>1. c[1] \in Pages /\ c[2] \in Slots /\ image'[c[1]][c[2]] # Free
          /\ image[c[1]][c[2]] = Free
      BY <1>1, <1>3, PageTypes DEF Cells
    <2>2. c[1] = draft.page /\ draft.img[c[2]] # image[draft.page][c[2]]
      BY <1>2, <2>1
    <2>3. PICK k \in DOMAIN call.ids : draft.img[c[2]] = RowCell(k)
      BY <1>1, <2>1, <2>2 DEF BookInv, Drafted
    <2>4. k \in Filling
      BY <1>1, <2>1, <2>2, <2>3 DEF Filling
    <2>5. At(c)' = RowCell(k)
      BY <1>2, <2>1, <2>2, <2>3 DEF At
    <2> QED
      BY <2>1, <2>4, <2>5 DEF At
  <1>4. ASSUME NEW k \in Filling PROVE \E c \in Cells(directory)' : At(c)' = RowCell(k)
    <2>1. PICK s \in Slots : draft.img[s] = RowCell(k)
      BY DEF Filling
    <2>2. RowCell(k) # Free
      BY RowIsVersion DEF Filling
    <2>3. image'[draft.page][s] = RowCell(k)
      BY <1>1, <1>2, <2>1
    <2>4. <<draft.page, s>> \in directory \X Slots
      BY <1>1
    <2>5. PICK c \in directory \X Slots : c[1] = draft.page /\ c[2] = s
      BY <2>4
    <2>6. image'[c[1]][c[2]] = RowCell(k)
      BY <2>3, <2>5
    <2>7. c \in directory' \X Slots
      BY <1>1
    <2> QED
      BY <2>2, <2>6, <2>7 DEF Cells, At
  <1> QED
    BY <1>3, <1>4

\* The rows in a clone are no longer to be placed.
LEMMA FillingDone ==
  ASSUME TypeOK, BookInv, NEW k \in Filling
  PROVE  wpc = "filled" /\ k \notin toPlace
  <1>1. PICK s \in Slots : image[draft.page][s] = Free /\ draft.img[s] = RowCell(k)
    BY DEF Filling
  <1>2. k \in DOMAIN call.ids /\ wpc = "filled"
    BY DEF Filling
  <1>3. draft.img[s] # image[draft.page][s]
    BY <1>1, <1>2, RowIsVersion
  <1>4. PICK j \in (DOMAIN call.ids) \ toPlace : draft.img[s] = RowCell(j)
    BY <1>2, <1>3 DEF BookInv, Drafted
  <1>5. j = k
    BY <1>1, <1>4, RowCells
  <1> QED
    BY <1>2, <1>4, <1>5

LEMMA LeastRow ==
  ASSUME TypeOK, toPlace # {}
  PROVE  \E k \in toPlace : First(toPlace, k)
  <1>1. toPlace \in SUBSET Nat
    BY PageTypes
  <1>2. PICK k \in toPlace : \A n \in toPlace : k <= n
    BY <1>1, LeastNat
  <1> QED
    BY <1>2 DEF First

\* Where a call goes on after a clone is published.
LEMMA AfterPublish ==
  ASSUME TypeOK, SlotInv, BookInv, AnswerInv, Publish
  PROVE  /\ wpc' # "filled" /\ wpc' # "idle" /\ InWrite /\ InWrite'
         /\ wpc' = "block" => InBlocks /\ call.taken < Len(call.ids) /\ (MayRefuse => call.taken = 0)
         /\ wpc' # "block" /\ InBlocks /\ MayRefuse => Reached = Len(call.ids)
         /\ wpc' \in {"consolidate", "merge", "commit"} => Reached = Len(call.ids)
         /\ wpc' = "close" => toPlace # {} /\ call.kind # "rounds"
  <1>1. /\ wpc = "filled" /\ UNCHANGED <<call, toPlace>>
        /\ call.kind = "rounds" => wpc' \in {"list", "place"}
        /\ call.kind # "rounds" => wpc' = IF toPlace # {} THEN "close" ELSE AfterRows
    BY DEF Publish
  <1>2. InWrite
    BY <1>1 DEF InWrite
  <1>3. call.kind # "vacuum"
    BY <1>2 DEF AnswerInv, CallShape
  <1>4. InBlocks /\ MayRefuse => Reached = Len(call.ids)
    BY <1>1 DEF AnswerInv, CallShape
  <1>5. CASE wpc' \in {"list", "place", "close"}
    <2>1. wpc' = "close" => toPlace # {} /\ call.kind # "rounds"
      <3>1. CASE toPlace = {} /\ call.kind # "rounds"
        <4>1. wpc' = AfterRows
          BY <1>1, <3>1
        <4>2. wpc' # "close"
          BY <1>1, <4>1, AfterRowsFacts
        <4> QED
          BY <4>2
      <3>2. CASE call.kind = "rounds"
        BY <1>1, <3>2
      <3> QED
        BY <3>1, <3>2
    <2> QED
      BY <1>2, <1>4, <1>5, <2>1 DEF InWrite
  <1>6. CASE wpc' \notin {"list", "place", "close"}
    <2>1. wpc' = AfterRows
      BY <1>1, <1>6
    <2>2. /\ wpc' \in {"place", "block", "consolidate", "commit"}
          /\ wpc' = "block" => InBlocks /\ call.taken < Len(call.ids) /\ (MayRefuse => call.taken = 0)
          /\ wpc' # "block" /\ InBlocks /\ MayRefuse => Reached = Len(call.ids)
          /\ wpc' \in {"consolidate", "commit"} => Reached = Len(call.ids)
      BY <1>1, <2>1, AfterRowsFacts
    <2>3. InWrite'
      BY <1>1, <1>3, <2>2 DEF InWrite
    <2> QED
      BY <1>2, <2>2, <2>3
  <1> QED
    BY <1>5, <1>6

LEMMA PublishAnswers ==
  ASSUME TypeOK, SlotInv, BookInv, AnswerInv, Publish
  PROVE  AnswerInv'
  <1>1. /\ wpc = "filled" /\ draft.page \in directory /\ draft.page \in Pages /\ draft.img \in Image
        /\ image' = [image EXCEPT ![draft.page] = draft.img]
        /\ UNCHANGED <<directory, clock, committed, horizon, history, call, toPlace, reader_vars>>
    BY PageTypes DEF Publish, BookInv, Drafted, TypeOK, WriterTypes
  <1>2. /\ call.kind = "rounds" => toClose' = toClose
        /\ call.kind # "rounds" => toClose' = {k \in toPlace : First(toPlace, k)}
    BY DEF Publish
  <1>3. InBlocks' = InBlocks /\ Reached' = Reached /\ Filling' = {} /\ wpc' # "filled"
    BY <1>1, AfterPublish DEF InBlocks, Reached, Filling
  <1>4. toClose = {}
    BY <1>1 DEF BookInv, Ready
  <1>5. \A j : RowCell(j)' = RowCell(j)
    BY <1>1 DEF RowCell
  <1>6. Placed' = Placed \cup Filling
    <2>1. Placed' = {k \in (call.deletes + 1)..Reached : k \notin toPlace}
      BY <1>1, <1>3 DEF Placed
    <2>2. Filling \subseteq (call.deletes + 1)..Reached
      BY DEF AnswerInv, CallShape
    <2>3. \A k \in Filling : k \notin toPlace
      BY FillingDone
    <2> QED
      BY <2>1, <2>2, <2>3 DEF Placed
  <1>7. /\ Ended' = Ended
        /\ call.kind # "rounds" => Ended = {j \in 1..Reached : j \notin toPlace}
    <2>1. CASE call.kind = "rounds"
      <3>1. Ended = 1..Reached
        BY <1>4, <2>1 DEF Ended
      <3>2. Ended' = 1..Reached
        BY <1>1, <1>2, <1>3, <1>4, <2>1 DEF Ended
      <3> QED
        BY <2>1, <3>1, <3>2
    <2>2. CASE call.kind # "rounds"
      <3>1. Ended = {j \in 1..Reached : j \notin toPlace}
        BY <1>1, <1>4, <2>2 DEF Ended
      <3>2. Ended' = {j \in 1..Reached : j \notin toClose' /\ (j \in toPlace => First(toPlace, j))}
        BY <1>1, <1>3, <2>2 DEF Ended
      <3>3. \A j : j \notin toClose' /\ (j \in toPlace => First(toPlace, j)) <=> j \notin toPlace
        BY <1>2, <2>2
      <3> QED
        BY <3>1, <3>2, <3>3
    <2> QED
      BY <2>1, <2>2
  <1>8. Answers' /\ Collected' /\ Asked'
    <2>1. ASSUME NEW ts \in Viewed, NEW c \in Pages \X Slots
          PROVE  /\ Visible(At(c)', ts) <=> Visible(At(c), ts)
                 /\ Visible(At(c), ts) => Record(At(c)') = Record(At(c))
      <3>1. CASE At(c)' = At(c)
        BY <3>1
      <3>2. CASE At(c)' # At(c)
        <4>1. c[1] = draft.page /\ draft.img[c[2]] # image[draft.page][c[2]] /\ At(c)' = draft.img[c[2]]
              /\ c[2] \in Slots
          BY <1>1, <3>2, PageTypes DEF At
        <4>2. /\ image[draft.page][c[2]] = Free
              /\ \E k \in DOMAIN call.ids : draft.img[c[2]] = RowCell(k)
          BY <1>1, <4>1 DEF BookInv, Drafted
        <4>3. At(c) = Free /\ At(c)'.begin = call.ts
          BY <4>1, <4>2 DEF At, RowCell
        <4>4. ts < call.ts /\ ts \in Nat /\ call.ts \in Nat
          <5>1. committed < call.ts
            BY AfterPublish DEF AnswerInv, Late
          <5> QED
            BY <5>1, ViewedFacts, CallFacts
        <4>5. ~Visible(At(c), ts)
          BY <4>3 DEF Visible
        <4>6. ~Visible(At(c)', ts)
          BY <4>3, <4>4 DEF Visible
        <4> QED
          BY <4>5, <4>6
      <3> QED
        BY <3>1, <3>2
    <2>2. horizon' \in Nat /\ horizon <= horizon'
      BY <1>1, CallFacts
    <2> QED
      BY <1>1, <2>1, <2>2, InPlace
  <1>9. CellStamps'
    <2>1. ASSUME NEW c \in Cells(directory)'
          PROVE  /\ At(c)'.begin <= committed \/ (At(c)'.begin = call.ts /\ Placed' # {})
                 /\ At(c)'.end = MAX_TS \/ At(c)'.end <= committed \/ (At(c)'.end = call.ts /\ Ended' # {})
      <3>1. CASE c \in Cells(directory)
        <4>1. At(c)' = At(c)
          BY <3>1, PublishCells
        <4>2. /\ At(c).begin <= committed \/ (At(c).begin = call.ts /\ Placed # {})
              /\ At(c).end = MAX_TS \/ At(c).end <= committed \/ (At(c).end = call.ts /\ Ended # {})
          BY <3>1 DEF AnswerInv, CellStamps
        <4>3. Placed # {} => Placed' # {}
          BY <1>6
        <4> QED
          BY <1>7, <4>1, <4>2, <4>3
      <3>2. CASE c \notin Cells(directory)
        <4>1. PICK k \in Filling : At(c)' = RowCell(k)
          BY <3>2, PublishedRows
        <4> QED
          BY <1>6, <4>1 DEF RowCell
      <3> QED
        BY <3>1, <3>2
    <2>2. \A v \in history : v.begin <= committed /\ (v.end = MAX_TS \/ v.end <= committed)
      BY DEF AnswerInv, CellStamps
    <2> QED
      BY <1>1, <2>1, <2>2 DEF CellStamps
  <1>10. OpenNow'
    <2>1. ASSUME NEW i \in Filling, NEW j \in Ended, i < j PROVE call.ids[j] # call.ids[i]
      <3>1. j \in 1..Reached
        BY RowFacts
      <3>2. CASE call.kind = "rounds"
        BY <2>1, <3>1, <3>2 DEF AnswerInv, CallOrder
      <3>3. CASE call.kind # "rounds"
        <4>1. j \in (1..Reached) \ toPlace
          BY <1>7, <3>3
        <4>2. j <= i
          BY <3>3, <4>1 DEF AnswerInv, CallOrder
        <4>3. i \in Nat /\ j \in Nat
          BY <3>1, PageTypes, CallFacts DEF Filling
        <4> QED
          BY <2>1, <4>2, <4>3
      <3> QED
        BY <3>2, <3>3
    <2>2. OpenRows' = OpenRows \cup {Record(RowCell(k)) : k \in Filling}
      <3>1. OpenRows' = {Record(v) : v \in {w \in history : w.end = MAX_TS /\ \A j \in Ended : call.ids[j] # w.id}}
              \cup {Record(RowCell(k)) :
                 k \in {i \in Placed \cup Filling : \A j \in Ended : i < j => call.ids[j] # call.ids[i]}}
        BY <1>1, <1>5, <1>6, <1>7 DEF OpenRows, Record
      <3>2. {i \in Placed \cup Filling : \A j \in Ended : i < j => call.ids[j] # call.ids[i]}
              = {i \in Placed : \A j \in Ended : i < j => call.ids[j] # call.ids[i]} \cup Filling
        BY <2>1
      <3> QED
        BY <3>1, <3>2 DEF OpenRows
    <2>3. OpenRecords' = OpenRecords \cup {Record(RowCell(k)) : k \in Filling}
      <3>1. OpenRecords' = {Record(At(c)') : c \in {d \in Cells(directory)' : At(d)'.end = MAX_TS}}
        BY DEF OpenRecords, Record
      <3>2. ASSUME NEW c \in Cells(directory)', At(c)'.end = MAX_TS
            PROVE  Record(At(c)') \in OpenRecords \cup {Record(RowCell(k)) : k \in Filling}
        <4>1. CASE c \in Cells(directory)
          <5>1. At(c)' = At(c)
            BY <4>1, PublishCells
          <5> QED
            BY <3>2, <4>1, <5>1 DEF OpenRecords
        <4>2. CASE c \notin Cells(directory)
          BY <4>2, PublishedRows
        <4> QED
          BY <4>1, <4>2
      <3>3. ASSUME NEW c \in Cells(directory), At(c).end = MAX_TS
            PROVE  Record(At(c)) \in OpenRecords'
        <4>1. c \in Cells(directory)' /\ At(c)' = At(c)
          BY PublishCells
        <4> QED
          BY <3>1, <3>3, <4>1
      <3>4. ASSUME NEW k \in Filling PROVE Record(RowCell(k)) \in OpenRecords'
        <4>1. PICK c \in Cells(directory)' : At(c)' = RowCell(k)
          BY PublishedRows
        <4>2. At(c)'.end = MAX_TS
          BY <4>1 DEF RowCell
        <4> QED
          BY <3>1, <4>1, <4>2
      <3>5. OpenRecords' \subseteq OpenRecords \cup {Record(RowCell(k)) : k \in Filling}
        BY <3>1, <3>2
      <3>6. OpenRecords \subseteq OpenRecords'
        BY <3>3 DEF OpenRecords
      <3> QED
        BY <3>4, <3>5, <3>6
    <2>4. OpenRecords = OpenRows
      BY OpenNowIs DEF AnswerInv
    <2>5. OpenNow' <=> OpenRecords' = OpenRows'
      BY DEF OpenNow, OpenRecords, OpenRows
    <2> QED
      BY <2>2, <2>3, <2>4, <2>5
  <1>11. Late'
    BY <1>1, AfterPublish DEF AnswerInv, Late
  <1>12. wpc' = "close" => toClose' # {}
    BY <1>2, AfterPublish, LeastRow
  <1>13. CallShape'
    <2>1. toClose' \subseteq 1..Reached
      BY <1>2, <1>4, RowFacts
    <2>2. toPlace \subseteq (call.deletes + 1)..Reached
      BY DEF AnswerInv, CallShape
    <2>3. call.kind # "vacuum"
      BY AfterPublish DEF AnswerInv, CallShape
    <2> QED
      BY <1>1, <1>3, <1>12, <2>1, <2>2, <2>3, AfterPublish DEF AnswerInv, CallShape
  <1>14. CallOrder'
    <2>1. \A i \in Placed', j \in toClose' : i < j
      <3>1. CASE call.kind = "rounds"
        BY <1>2, <1>4, <3>1
      <3>2. CASE call.kind # "rounds"
        <4>1. \A i \in Placed' : i \in (1..Reached) \ toPlace
          BY <1>6, FillingDone, RowFacts DEF Placed, Filling, AnswerInv, CallShape
        <4>2. \A i \in toPlace, j \in (1..Reached) \ toPlace : j < i
          BY <3>2 DEF AnswerInv, CallOrder
        <4> QED
          BY <1>2, <3>2, <4>1, <4>2
      <3> QED
        BY <3>1, <3>2
    <2>2. CASE call.kind = "rounds"
      BY <1>1, <1>3, <2>1, <2>2 DEF AnswerInv, CallOrder
    <2>3. CASE call.kind # "rounds"
      <3>1. \A i \in toPlace, j \in (1..Reached) \ toPlace : j < i
        BY <2>3 DEF AnswerInv, CallOrder
      <3>2. \A i \in toPlace, j \in toClose' : j <= i
        BY <1>2, <2>3 DEF First
      <3>3. \A i \in toPlace : First(toPlace, i) => i \in toClose'
        BY <1>2, <2>3
      <3> QED
        BY <1>1, <1>3, <2>1, <2>3, <3>1, <3>2, <3>3 DEF CallOrder
    <2> QED
      BY <2>2, <2>3
  <1>15. DeletesFind'
    <2>1. toClose' \subseteq toPlace
      BY <1>2, <1>4
    <2> QED
      BY <1>1, <2>1 DEF DeletesFind
  <1> QED
    BY <1>8, <1>9, <1>10, <1>11, <1>13, <1>14, <1>15 DEF AnswerInv

-----------------------------------------------------------------------------
(* Closing an old version.                                                 *)

\* What closing the row k changes: no version of its id is open any more, and the
\* other ids have the versions they had.
LEMMA CloseCells ==
  ASSUME TypeOK, SlotInv, BookInv, AnswerInv, NEW k \in toClose, wpc = "close",
         UNCHANGED <<directory, locations>>,
         \/ OpenAt(call.ids[k]) = {} /\ image' = image
         \/ \E l \in OpenAt(call.ids[k]) : image' = [image EXCEPT ![l[1]] = Closed(@, l[2], call.ts)]
  PROVE  /\ Cells(directory)' = Cells(directory)
         /\ \A c \in Pages \X Slots :
              At(c)' = At(c) \/
              (/\ At(c) # Free /\ At(c).id = call.ids[k] /\ At(c).end = MAX_TS
               /\ At(c)' = [At(c) EXCEPT !.end = call.ts])
         /\ \A c \in Cells(directory) : At(c)'.end = MAX_TS <=>
              (At(c).end = MAX_TS /\ At(c).id # call.ids[k])
         /\ \A id \in Ids : id # call.ids[k] => OpenAt(id)' = OpenAt(id)
  <1> DEFINE id == call.ids[k]
  <1>1. id \in Ids /\ call.ts \in Nat /\ call.ts < MAX_TS
    <2>1. call.ts <= MaxClock
      BY DEF BookInv, RealStamps, InWrite
    <2> QED
      BY <2>1, PageTypes, BeforeTheEnd
  <1>2. unlisted = {} /\ toClose # {}
    BY DEF BookInv, Unlisted
  <1>3. CASE OpenAt(id) = {} /\ image' = image
    <2>1. NoneOpen(id)
      BY <1>1, <1>2, <1>3, NotOpen
    <2>2. Cells(directory)' = Cells(directory) /\ \A c : At(c)' = At(c)
      BY <1>3 DEF Cells, At
    <2>3. \A i \in Ids : OpenAt(i)' = OpenAt(i)
      BY <1>3 DEF OpenAt
    <2> QED
      BY <2>1, <2>2, <2>3 DEF NoneOpen
  <1>4. ASSUME NEW l \in OpenAt(id), image' = [image EXCEPT ![l[1]] = Closed(@, l[2], call.ts)]
        PROVE  /\ Cells(directory)' = Cells(directory)
               /\ \A c \in Pages \X Slots :
                    At(c)' = At(c) \/
                    (/\ At(c) # Free /\ At(c).id = id /\ At(c).end = MAX_TS
                     /\ At(c)' = [At(c) EXCEPT !.end = call.ts])
               /\ \A c \in Cells(directory) : At(c)'.end = MAX_TS <=>
                    (At(c).end = MAX_TS /\ At(c).id # id)
               /\ \A i \in Ids : i # id => OpenAt(i)' = OpenAt(i)
    <2>1. l \in locations[id] /\ IsOpen(At(l), id) /\ l \in Pages \X Slots
      BY <1>1 DEF OpenAt, At, TypeOK, SharedTypes, Location
    <2>2. l[1] \in directory
      BY <1>1, <2>1 DEF BookInv, Listed
    <2>3. l \in Cells(directory) /\ At(l).id = id /\ At(l).end = MAX_TS /\ At(l) \in Version
      BY <2>1, <2>2, PageTypes DEF Cells, At, IsOpen
    <2>4. \A p \in Pages, s \in Slots :
            image'[p][s] = IF p = l[1] /\ s = l[2] THEN [image[p][s] EXCEPT !.end = call.ts]
                           ELSE image[p][s]
      <3>1. \A p \in Pages : image'[p] = IF p = l[1] THEN Closed(image[p], l[2], call.ts) ELSE image[p]
        BY <1>4, <2>1, PageTypes
      <3>2. \A p \in Pages, s \in Slots :
              Closed(image[p], l[2], call.ts)[s] =
                IF s = l[2] THEN [image[p][s] EXCEPT !.end = call.ts] ELSE image[p][s]
        BY <2>1, PageTypes DEF Closed, Image
      <3> QED
        BY <3>1, <3>2
    <2>5. \A c \in Pages \X Slots :
            At(c)' = IF c = l THEN [At(l) EXCEPT !.end = call.ts] ELSE At(c)
      <3>1. ASSUME NEW c \in Pages \X Slots
            PROVE  At(c)' = IF c = l THEN [At(l) EXCEPT !.end = call.ts] ELSE At(c)
        <4>1. c[1] \in Pages /\ c[2] \in Slots /\ (c = l <=> c[1] = l[1] /\ c[2] = l[2])
          BY <2>1
        <4>2. At(c)' = IF c[1] = l[1] /\ c[2] = l[2] THEN [At(c) EXCEPT !.end = call.ts] ELSE At(c)
          BY <2>4, <4>1 DEF At
        <4> QED
          BY <4>1, <4>2
      <3> QED
        BY <3>1
    <2>6. [At(l) EXCEPT !.end = call.ts] \in Version
          /\ [At(l) EXCEPT !.end = call.ts].end = call.ts
          /\ [At(l) EXCEPT !.end = call.ts].id = id
      BY <1>1, <2>3 DEF Version
    <2>7. [At(l) EXCEPT !.end = call.ts] # Free
      BY <2>6, FreeAssumption
    <2>8. Cells(directory)' = Cells(directory)
      <3>1. \A c \in directory \X Slots : c \in Pages \X Slots
        BY PageTypes
      <3>2. \A c \in directory \X Slots : At(c)' = Free <=> At(c) = Free
        BY <2>3, <2>5, <2>7, <3>1 DEF Cells, At
      <3> QED
        BY <3>2 DEF Cells, At
    <2>9. \A c \in Cells(directory) : At(c)'.end = MAX_TS <=>
            (At(c).end = MAX_TS /\ At(c).id # id)
      <3>1. ASSUME NEW c \in Cells(directory)
            PROVE  At(c)'.end = MAX_TS <=> (At(c).end = MAX_TS /\ At(c).id # id)
        <4>1. c \in Pages \X Slots
          BY CellFacts
        <4>2. CASE c = l
          <5>1. At(c)' = [At(l) EXCEPT !.end = call.ts]
            BY <2>5, <4>1, <4>2
          <5>2. At(c)'.end = call.ts /\ At(c).id = id
            BY <2>3, <2>6, <4>2, <5>1
          <5> QED
            BY <1>1, <5>2
        <4>3. CASE c # l
          <5>1. At(c)' = At(c)
            BY <2>5, <4>1, <4>3
          <5>2. ~(At(c).end = MAX_TS /\ At(c).id = id)
            BY <2>3, <4>3 DEF BookInv, SingleOpen
          <5> QED
            BY <5>1, <5>2
        <4> QED
          BY <4>2, <4>3
      <3> QED
        BY <3>1
    <2>10. ASSUME NEW i \in Ids, i # id PROVE OpenAt(i)' = OpenAt(i)
      <3>1. \A c \in locations[i] : IsOpen(At(c), i)' <=> IsOpen(At(c), i)
        <4>1. ASSUME NEW c \in locations[i] PROVE IsOpen(At(c), i)' <=> IsOpen(At(c), i)
          <5>1. c \in Pages \X Slots
            BY DEF TypeOK, SharedTypes, Location
          <5>2. CASE c = l
            BY <2>3, <2>5, <2>6, <2>10, <5>1, <5>2 DEF IsOpen
          <5>3. CASE c # l
            BY <2>5, <5>1, <5>3 DEF IsOpen
          <5> QED
            BY <5>2, <5>3
        <4> QED
          BY <4>1
      <3> QED
        BY <3>1 DEF OpenAt, At
    <2>11. \A c \in Pages \X Slots :
            At(c)' = At(c) \/
            (/\ At(c) # Free /\ At(c).id = id /\ At(c).end = MAX_TS
             /\ At(c)' = [At(c) EXCEPT !.end = call.ts])
      BY <2>3, <2>5, FreeAssumption
    <2> QED
      BY <2>8, <2>9, <2>10, <2>11
  <1> QED
    BY <1>3, <1>4

\* The rows done before and after row k of the call has been closed.
LEMMA CloseRows ==
  ASSUME TypeOK, BookInv, AnswerInv, wpc = "close", NEW k \in toClose, First(toClose, k),
         toClose' = toClose \ {k}, wpc' \in {"close", "place", "commit"}, UNCHANGED <<call, toPlace>>
  PROVE  /\ Placed' = Placed /\ Ended' = Ended \cup {k} /\ k \in 1..Reached
         /\ call.kind # "rounds" => \A i \in toPlace : k <= i
         /\ InWrite /\ InWrite' /\ InBlocks' = InBlocks /\ Reached' = Reached
         /\ Filling = {} /\ Filling' = {}
         /\ \A i \in Placed : i < k
  <1>1. k \in 1..Reached /\ k \in Nat
    BY RowFacts, CallFacts
  <1>2. InWrite /\ InWrite' /\ InBlocks' = InBlocks /\ Reached' = Reached
    BY DEF InWrite, InBlocks, Reached
  <1>3. Filling = {} /\ Filling' = {}
    BY DEF Filling
  <1>4. Placed' = Placed
    BY <1>2, <1>3 DEF Placed
  <1>5. call.kind # "rounds" => \A i \in toPlace : k <= i
    BY DEF AnswerInv, CallOrder
  <1>6. \A i \in Placed : i < k
    BY DEF AnswerInv, CallOrder
  <1>7. k \in toPlace => call.kind = "rounds" \/ First(toPlace, k)
    BY <1>5 DEF First
  <1>8. Ended' = Ended \cup {k}
    <2>1. Ended' = {j \in 1..Reached : j \notin toClose' /\
                      (j \in toPlace => call.kind = "rounds" \/ First(toPlace, j))}
      BY <1>2 DEF Ended
    <2>2. Ended = {j \in 1..Reached : j \notin toClose /\
                      (j \in toPlace => call.kind = "rounds" \/ First(toPlace, j))}
      BY DEF Ended
    <2> QED
      BY <1>1, <1>7, <2>1, <2>2
  <1> QED
    BY <1>1, <1>2, <1>3, <1>4, <1>5, <1>6, <1>8

\* The open versions without those of the id that was closed.
LEMMA CloseOpenNow ==
  ASSUME TypeOK, BookInv, AnswerInv, UNCHANGED <<call, history>>,
         NEW k \in 1..Reached, Placed' = Placed, Ended' = Ended \cup {k}, \A i \in Placed : i < k,
         Cells(directory)' = Cells(directory),
         \A c \in Pages \X Slots :
           At(c)' = At(c) \/
           (At(c) # Free /\ At(c).id = call.ids[k] /\ At(c).end = MAX_TS
              /\ At(c)' = [At(c) EXCEPT !.end = call.ts]),
         \A c \in Cells(directory) : At(c)'.end = MAX_TS <=>
           (At(c).end = MAX_TS /\ At(c).id # call.ids[k])
  PROVE  OpenNow'
  <1> DEFINE id == call.ids[k]
  <1>1. OpenRecords' = {x \in OpenRecords : x.id # id}
    <2>1. \A c \in Cells(directory) : At(c)'.end = MAX_TS => Record(At(c)') = Record(At(c))
      <3>1. ASSUME NEW c \in Cells(directory), At(c)'.end = MAX_TS PROVE At(c)' = At(c)
        <4>1. c \in Pages \X Slots /\ At(c).id # id
          BY <3>1, CellFacts
        <4> QED
          BY <4>1
      <3> QED
        BY <3>1
    <2>2. OpenRecords' = {Record(At(c)') : c \in {d \in Cells(directory) : At(d)'.end = MAX_TS}}
      BY DEF OpenRecords, Record
    <2>3. OpenRecords' = {Record(At(c)) : c \in {d \in Cells(directory) : At(d).end = MAX_TS /\ At(d).id # id}}
      BY <2>1, <2>2
    <2>4. \A c : Record(At(c)).id = At(c).id
      BY DEF Record
    <2> QED
      BY <2>3, <2>4 DEF OpenRecords
  <1>2. OpenRows' = {x \in OpenRows : x.id # id}
    <2> DEFINE Old == {w \in history : w.end = MAX_TS /\ \A j \in Ended : call.ids[j] # w.id}
               Mine == {i \in Placed : \A j \in Ended : i < j => call.ids[j] # call.ids[i]}
    <2>1. OpenRows = {Record(v) : v \in Old} \cup {Record(RowCell(i)) : i \in Mine}
      BY DEF OpenRows
    <2>2. \A i : RowCell(i)' = RowCell(i)
      BY DEF RowCell
    <2>3. OpenRows' =
            {Record(v) : v \in {w \in history : w.end = MAX_TS /\ \A j \in Ended \cup {k} : call.ids[j] # w.id}}
            \cup {Record(RowCell(i)) :
                    i \in {i \in Placed : \A j \in Ended \cup {k} : i < j => call.ids[j] # call.ids[i]}}
      BY <2>2 DEF OpenRows, Record
    <2>4. {w \in history : w.end = MAX_TS /\ \A j \in Ended \cup {k} : call.ids[j] # w.id}
            = {w \in Old : w.id # id}
      OBVIOUS
    <2>5. {i \in Placed : \A j \in Ended \cup {k} : i < j => call.ids[j] # call.ids[i]}
            = {i \in Mine : call.ids[i] # id}
      OBVIOUS
    <2>6. /\ \A v : Record(v).id = v.id
          /\ \A i : Record(RowCell(i)).id = call.ids[i]
      BY DEF Record, RowCell
    <2> HIDE DEF Old, Mine
    <2> QED
      BY <2>1, <2>3, <2>4, <2>5, <2>6
  <1>3. OpenRecords = OpenRows
    BY OpenNowIs DEF AnswerInv
  <1>4. OpenNow' <=> OpenRecords' = OpenRows'
    BY DEF OpenNow, OpenRecords, OpenRows
  <1> QED
    BY <1>1, <1>2, <1>3, <1>4

LEMMA CloseAnswers ==
  ASSUME TypeOK, SlotInv, BookInv, AnswerInv, Close
  PROVE  AnswerInv'
  <1>1. PICK k \in toClose :
          /\ First(toClose, k)
          /\ LET id == call.ids[k] IN
             \/ /\ OpenAt(id) = {}
                /\ IF k \in toPlace THEN AfterClose(k) ELSE Abandon
                /\ image' = image
             \/ \E l \in OpenAt(id) :
                  /\ image' = [image EXCEPT ![l[1]] = Closed(@, l[2], call.ts)]
                  /\ AfterClose(k)
    BY DEF Close
  <1>2. /\ wpc = "close"
        /\ UNCHANGED <<directory, locations, clock, committed, horizon, history, reader_vars>>
    BY DEF Close
  <1>3. CASE OpenAt(call.ids[k]) = {} /\ k \notin toPlace /\ Abandon /\ image' = image
    <2>1. k = 1 /\ Len(call.ids) = 1
      BY <1>3 DEF AnswerInv, DeletesFind
    <2>2. Reached \in Nat /\ Reached <= 1
      BY <2>1, CallFacts
    <2>3. \A j \in 1..Reached : j = 1
      BY <2>2
    <2>4. Ended = {}
      BY <2>1, <2>3 DEF Ended
    <2>5. Placed = {}
      <3>1. \A i \in Placed : i < 1 /\ i \in 1..Reached
        BY <2>1, RowFacts DEF AnswerInv, CallOrder
      <3>2. \A i \in 1..Reached : ~(i < 1)
        BY <2>2
      <3> QED
        BY <3>1, <3>2
    <2> QED
      BY <1>2, <1>3, <2>4, <2>5, AbandonAnswers
  <1>4. CASE AfterClose(k) /\ (\/ OpenAt(call.ids[k]) = {} /\ image' = image /\ k \in toPlace
                               \/ \E l \in OpenAt(call.ids[k]) :
                                    image' = [image EXCEPT ![l[1]] = Closed(@, l[2], call.ts)])
    <2>1. /\ toClose' = toClose \ {k} /\ UNCHANGED <<call, toPlace>>
          /\ wpc' = IF toClose' # {} THEN "close" ELSE IF toPlace = {} THEN "commit" ELSE "place"
      BY <1>4 DEF AfterClose
    <2>2. /\ Placed' = Placed /\ Ended' = Ended \cup {k} /\ k \in 1..Reached
          /\ call.kind # "rounds" => \A i \in toPlace : k <= i
          /\ InWrite /\ InWrite' /\ InBlocks' = InBlocks /\ Reached' = Reached
          /\ Filling = {} /\ Filling' = {}
          /\ \A i \in Placed : i < k
      BY <1>1, <1>2, <2>1, CloseRows
    <2>3. /\ Cells(directory)' = Cells(directory)
          /\ \A c \in Pages \X Slots :
               At(c)' = At(c) \/
               (At(c) # Free /\ At(c).id = call.ids[k] /\ At(c).end = MAX_TS
                  /\ At(c)' = [At(c) EXCEPT !.end = call.ts])
          /\ \A c \in Cells(directory) : At(c)'.end = MAX_TS <=>
               (At(c).end = MAX_TS /\ At(c).id # call.ids[k])
          /\ \A i \in Ids : i # call.ids[k] => OpenAt(i)' = OpenAt(i)
      BY <1>2, <1>4, CloseCells
    <2>4. OpenNow'
      BY <1>2, <2>1, <2>2, <2>3, CloseOpenNow
    <2>5. committed < call.ts /\ call.ts \in Nat /\ committed \in Nat /\ call.ts < MAX_TS
      <3>1. committed < call.ts
        BY <2>2 DEF AnswerInv, Late
      <3>2. call.ts <= MaxClock
        BY <2>2 DEF BookInv, RealStamps
      <3> QED
        BY <3>1, <3>2, CallFacts, BeforeTheEnd
    <2>6. Answers' /\ Collected' /\ Asked'
      <3>1. ASSUME NEW ts \in Viewed, NEW c \in Pages \X Slots
            PROVE  /\ Visible(At(c)', ts) <=> Visible(At(c), ts)
                   /\ Visible(At(c), ts) => Record(At(c)') = Record(At(c))
        <4>1. CASE At(c)' = At(c)
          BY <4>1
        <4>2. CASE At(c) # Free /\ At(c).end = MAX_TS /\ At(c)' = [At(c) EXCEPT !.end = call.ts]
          <5>1. ts \in Nat /\ ts < call.ts /\ ts < MAX_TS
            BY <2>5, ViewedFacts, MaxTsAssumption
          <5>2. At(c) \in Version
            BY <4>2, PageTypes DEF At
          <5>3. /\ At(c)' \in Version /\ At(c)'.end = call.ts
                /\ At(c)'.begin = At(c).begin /\ Record(At(c)') = Record(At(c))
            BY <2>5, <4>2, <5>2 DEF Version, Record
          <5>4. At(c)' # Free
            BY <5>3, FreeAssumption
          <5> QED
            BY <4>2, <5>1, <5>3, <5>4 DEF Visible
        <4> QED
          BY <2>3, <4>1, <4>2
      <3>2. horizon' \in Nat /\ horizon <= horizon'
        BY <1>2, CallFacts
      <3> QED
        BY <1>2, <3>1, <3>2, InPlace
    <2>7. CellStamps'
      <3>1. ASSUME NEW c \in Cells(directory)
            PROVE  /\ At(c)'.begin <= committed \/ (At(c)'.begin = call.ts /\ Placed' # {})
                   /\ At(c)'.end = MAX_TS \/ At(c)'.end <= committed \/ (At(c)'.end = call.ts /\ Ended' # {})
        <4>1. c \in Pages \X Slots /\ At(c) \in Version
          BY CellFacts
        <4>2. /\ At(c).begin <= committed \/ (At(c).begin = call.ts /\ Placed # {})
              /\ At(c).end = MAX_TS \/ At(c).end <= committed \/ (At(c).end = call.ts /\ Ended # {})
          BY DEF AnswerInv, CellStamps
        <4>3. CASE At(c)' = At(c)
          BY <2>2, <4>2, <4>3
        <4>4. CASE At(c)' = [At(c) EXCEPT !.end = call.ts]
          <5>1. At(c)'.end = call.ts /\ At(c)'.begin = At(c).begin
            BY <4>1, <4>4 DEF Version
          <5> QED
            BY <2>2, <4>2, <5>1
        <4> QED
          BY <2>3, <4>1, <4>3, <4>4
      <3>2. \A v \in history : v.begin <= committed /\ (v.end = MAX_TS \/ v.end <= committed)
        BY DEF AnswerInv, CellStamps
      <3> QED
        BY <1>2, <2>1, <2>3, <3>1, <3>2 DEF CellStamps
    <2>8. Late'
      BY <1>2, <2>1, <2>2 DEF AnswerInv, Late
    <2>9. CallShape'
      <3>1. InBlocks => toPlace # {}
        BY <1>2 DEF AnswerInv, CallShape
      <3>2. wpc' = "commit" => Reached = Len(call.ids)
        BY <2>1, <3>1 DEF Reached
      <3>3. InBlocks /\ MayRefuse => Reached = Len(call.ids)
        BY <1>2 DEF AnswerInv, CallShape
      <3>4. toClose' \subseteq 1..Reached
        BY <2>1, RowFacts
      <3> QED
        BY <2>1, <2>2, <3>1, <3>2, <3>3, <3>4 DEF AnswerInv, CallShape
    <2>10. CallOrder'
      <3>1. CASE call.kind = "rounds"
        BY <2>1, <2>2, <3>1 DEF AnswerInv, CallOrder
      <3>2. CASE call.kind # "rounds"
        <4>1. /\ \A i \in toPlace, j \in (1..Reached) \ toPlace : j < i
              /\ \A i \in toPlace, j \in toClose : j <= i
              /\ \A i \in toPlace : First(toPlace, i) => i \in toClose
              /\ \A i \in Placed, j \in toClose : i < j
          BY <1>2, <3>2 DEF AnswerInv, CallOrder
        <4>2. ASSUME wpc' = "close", NEW i \in toPlace, First(toPlace, i) PROVE i \in toClose'
          <5>1. PICK j \in toClose : j # k
            BY <2>1, <4>2
          <5>2. j <= i /\ k <= j
            BY <1>1, <4>1 DEF First
          <5>3. i \in Nat /\ j \in Nat /\ k \in Nat
            BY PageTypes
          <5>4. i # k
            BY <5>1, <5>2, <5>3
          <5> QED
            BY <2>1, <4>1, <4>2, <5>4
        <4> QED
          BY <2>1, <2>2, <3>2, <4>1, <4>2 DEF CallOrder
      <3> QED
        BY <3>1, <3>2
    <2>11. DeletesFind'
      <3>1. ASSUME NEW j \in toClose' \ toPlace'
            PROVE  \/ call.kind = "delete" /\ Len(call.ids) = 1 /\ j = 1
                   \/ /\ call.kind = "changes" /\ OpenAt(call.ids[j])' # {}
                      /\ ~Repeats(DOMAIN call.ids, call.ids)
        <4>1. j \in toClose \ toPlace /\ j # k
          BY <2>1
        <4>2. CASE call.kind = "changes" /\ OpenAt(call.ids[j]) # {} /\ ~Repeats(DOMAIN call.ids, call.ids)
          <5>1. j \in DOMAIN call.ids /\ k \in DOMAIN call.ids /\ call.ids[j] \in Ids
            BY <4>1, PageTypes
          <5>2. call.ids[j] # call.ids[k]
            BY <4>1, <4>2, <5>1 DEF Repeats
          <5>3. OpenAt(call.ids[j])' = OpenAt(call.ids[j])
            <6>1. PICK i \in Ids : i = call.ids[j]
              BY <5>1
            <6>2. OpenAt(i)' = OpenAt(i)
              BY <2>3, <5>2, <6>1
            <6>3. OpenAt(call.ids[j])' = OpenAt(i)'
              BY <2>1, <6>1 DEF OpenAt
            <6> QED
              BY <6>1, <6>2, <6>3
          <5> QED
            BY <4>2, <5>3
        <4> QED
          BY <4>1, <4>2 DEF AnswerInv, DeletesFind
      <3> QED
        BY <2>1, <3>1 DEF DeletesFind, Repeats
    <2> QED
      BY <2>4, <2>6, <2>7, <2>8, <2>9, <2>10, <2>11 DEF AnswerInv
  <1> QED
    BY <1>1, <1>3, <1>4

-----------------------------------------------------------------------------
(* The commit.                                                             *)

\* A version of the history, once the call has ended what it ends.
Final(v) ==
  IF v.end = MAX_TS /\ \E j \in 1..Len(call.ids) : call.ids[j] = v.id
  THEN [v EXCEPT !.end = call.ts] ELSE v

\* The rows that stay open, and their versions.
LastRows ==
  {k \in (call.deletes + 1)..Len(call.ids) :
     \A j \in (call.deletes + 1)..Len(call.ids) : j > k => call.ids[j] # call.ids[k]}
NewVersions == {RowCell(k) : k \in LastRows}

LEMMA HistoryFacts ==
  ASSUME TypeOK, AnswerInv, NEW v \in history
  PROVE  /\ v \in Version /\ v.begin \in Nat /\ v.end \in Nat /\ v.begin <= committed
         /\ v.end = MAX_TS \/ v.end <= committed
         /\ [v EXCEPT !.end = call.ts].end = call.ts
         /\ [v EXCEPT !.end = call.ts].id = v.id
         /\ [v EXCEPT !.end = call.ts].begin = v.begin
         /\ [v EXCEPT !.end = call.ts].vec = v.vec
  <1>1. v \in Version
    BY DEF TypeOK, SharedTypes
  <1> QED
    BY <1>1 DEF Version, AnswerInv, CellStamps

LEMMA CommitFacts ==
  ASSUME TypeOK, SlotInv, BookInv, AnswerInv, Commit
  PROVE  /\ committed' = call.ts /\ committed < call.ts /\ call.ts < MAX_TS
         /\ committed \in Nat /\ call.ts \in Nat /\ call.ts <= clock
         /\ call.deletes \in Nat /\ Len(call.ids) \in Nat /\ call.deletes <= Len(call.ids)
         /\ Placed = (call.deletes + 1)..Len(call.ids) /\ Ended = 1..Len(call.ids)
         /\ UNCHANGED <<image, directory, clock, horizon, reader_vars>>
  <1>1. /\ wpc = "commit" /\ committed' = call.ts
        /\ UNCHANGED <<image, directory, clock, horizon, reader_vars>>
    BY DEF Commit
  <1>2. InWrite
    BY <1>1 DEF InWrite
  <1>3. committed < call.ts /\ call.ts <= clock /\ call.ts <= MaxClock
    BY <1>2 DEF AnswerInv, Late, BookInv, RealStamps
  <1>4. /\ committed \in Nat /\ call.ts \in Nat /\ call.deletes \in Nat /\ Len(call.ids) \in Nat
        /\ call.deletes <= Len(call.ids)
    BY CallFacts DEF AnswerInv, CallShape
  <1>5. call.ts < MAX_TS
    BY <1>3, <1>4, BeforeTheEnd
  <1>6. toPlace = {} /\ toClose = {} /\ Filling = {} /\ Reached = Len(call.ids)
    BY <1>1 DEF BookInv, Ready, Filling, AnswerInv, CallShape
  <1>7. Placed = (call.deletes + 1)..Len(call.ids) /\ Ended = 1..Len(call.ids)
    BY <1>6 DEF Placed, Ended
  <1> QED
    BY <1>1, <1>3, <1>4, <1>5, <1>7

\* The history after the commit, in one step from the one before it.
LEMMA CommitHistory ==
  ASSUME TypeOK, SlotInv, BookInv, AnswerInv, Commit
  PROVE  history' = {Final(v) : v \in history} \cup NewVersions
  <1> DEFINE ts == call.ts
             n == Len(call.ids)
             d == call.deletes
             rows == (d + 1)..n
             wrote == {Written[k] : k \in DOMAIN Written}
             h == Abstract!EndedAt(history, Deleted, ts)
  <1>1. ts < MAX_TS /\ ts \in Nat /\ d \in Nat /\ n \in Nat /\ d <= n
    BY CommitFacts
  <1>2. history' = Abstract!Upserted(h, Written, ts)
    BY DEF Commit
  <1>3. DOMAIN Written = rows /\ \A k \in rows : Written[k] = call.ids[k]
    BY DEF Written
  <1>4. Abstract!Winners(Written) = LastRows
    BY <1>3 DEF Abstract!Winners, LastRows
  <1>5. {[id |-> Written[k], begin |-> ts, end |-> MAX_TS, vec |-> <<ts, k>>] :
           k \in Abstract!Winners(Written)} = NewVersions
    BY <1>3, <1>4 DEF NewVersions, RowCell, LastRows
  <1>6. wrote = {call.ids[k] : k \in rows}
    BY <1>3
  <1>7. h = {IF v.id \in Deleted /\ v.end = MAX_TS THEN [v EXCEPT !.end = ts] ELSE v : v \in history}
    BY DEF Abstract!EndedAt
  <1>8. Abstract!EndedAt(h, wrote, ts) =
          {IF v.id \in wrote /\ v.end = MAX_TS THEN [v EXCEPT !.end = ts] ELSE v : v \in h}
    BY DEF Abstract!EndedAt
  <1>9. history' = Abstract!EndedAt(h, wrote, ts) \cup NewVersions
    BY <1>2, <1>5 DEF Abstract!Upserted
  <1> DEFINE one(v) == IF v.id \in Deleted /\ v.end = MAX_TS THEN [v EXCEPT !.end = ts] ELSE v
             two(v) == IF v.id \in wrote /\ v.end = MAX_TS THEN [v EXCEPT !.end = ts] ELSE v
  <1>10. \A v \in history : two(one(v)) = Final(v)
    <2>1. ASSUME NEW v \in history PROVE two(one(v)) = Final(v)
      <3>1. (\E j \in 1..n : call.ids[j] = v.id) <=> v.id \in Deleted \/ v.id \in wrote
        <4>1. \A j : j \in 1..n <=> j \in 1..d \/ j \in rows
          BY <1>1
        <4> QED
          BY <1>6, <4>1 DEF Deleted
      <3>2. /\ [v EXCEPT !.end = ts].end = ts /\ [v EXCEPT !.end = ts].end # MAX_TS
            /\ [v EXCEPT !.end = ts].id = v.id
        BY <1>1, HistoryFacts
      <3> HIDE DEF wrote, n, ts
      <3>3. CASE v.end # MAX_TS
        BY <3>3 DEF Final
      <3>4. CASE v.end = MAX_TS /\ v.id \in Deleted
        <4>1. one(v) = [v EXCEPT !.end = ts]
          BY <3>4
        <4>2. two(one(v)) = [v EXCEPT !.end = ts]
          BY <3>2, <4>1
        <4>3. Final(v) = [v EXCEPT !.end = ts]
          BY <3>1, <3>4 DEF Final, ts, n
        <4> QED
          BY <4>2, <4>3
      <3>5. CASE v.end = MAX_TS /\ v.id \notin Deleted
        <4>1. one(v) = v
          BY <3>5
        <4>2. two(one(v)) = IF v.id \in wrote THEN [v EXCEPT !.end = ts] ELSE v
          BY <3>5, <4>1
        <4>3. Final(v) = IF v.id \in wrote THEN [v EXCEPT !.end = ts] ELSE v
          BY <3>1, <3>5 DEF Final, ts, n
        <4> QED
          BY <4>2, <4>3
      <3> QED
        BY <3>3, <3>4, <3>5
    <2> QED
      BY <2>1
  <1>11. Abstract!EndedAt(h, wrote, ts) = {Final(v) : v \in history}
    <2>1. h = {one(v) : v \in history}
      BY <1>7
    <2>2. Abstract!EndedAt(h, wrote, ts) = {two(w) : w \in h}
      BY <1>8
    <2> HIDE DEF h, one, two, wrote
    <2>3. Abstract!EndedAt(h, wrote, ts) = {two(one(v)) : v \in history}
      BY <2>1, <2>2
    <2> QED
      BY <1>10, <2>3
  <1> QED
    BY <1>9, <1>11

\* What the history answers, before and after the commit, at a time before the
\* call and at its own.
LEMMA CommitAsOf ==
  ASSUME TypeOK, SlotInv, BookInv, AnswerInv, Commit
  PROVE  /\ \A ts \in Nat : ts < call.ts => Abstract!AsOf(history, ts)' = Abstract!AsOf(history, ts)
         /\ Abstract!AsOf(history', call.ts) = OpenRows
  <1> DEFINE n == Len(call.ids)
             d == call.deletes
  <1>1. call.ts < MAX_TS /\ call.ts \in Nat /\ committed \in Nat /\ committed < call.ts
        /\ n \in Nat /\ d \in Nat /\ d <= n
        /\ Placed = (d + 1)..n /\ Ended = 1..n
    BY CommitFacts
  <1>2. history' = {Final(v) : v \in history} \cup NewVersions
    BY CommitHistory
  <1>3. \A h, ts : Abstract!AsOf(h, ts) = {Record(v) : v \in {w \in h : w.begin <= ts /\ ts < w.end}}
    BY DEF Abstract!AsOf, Record
  <1>4. \A k : RowCell(k).begin = call.ts /\ RowCell(k).end = MAX_TS
    BY DEF RowCell
  <1>5. ASSUME NEW v \in history
        PROVE  /\ Final(v).begin = v.begin /\ Record(Final(v)) = Record(v)
               /\ v.end \in Nat /\ v.begin \in Nat /\ v.begin <= committed
               /\ \/ v.end # MAX_TS /\ Final(v) = v /\ v.end <= committed
                  \/ v.end = MAX_TS /\ Final(v).end = call.ts /\ \E j \in 1..n : call.ids[j] = v.id
                  \/ v.end = MAX_TS /\ Final(v) = v /\ \A j \in 1..n : call.ids[j] # v.id
    <2>1. /\ v.end \in Nat /\ v.begin \in Nat /\ v.begin <= committed
          /\ v.end = MAX_TS \/ v.end <= committed
          /\ [v EXCEPT !.end = call.ts].end = call.ts
          /\ [v EXCEPT !.end = call.ts].begin = v.begin
          /\ Record([v EXCEPT !.end = call.ts]) = Record(v)
      BY HistoryFacts DEF Record
    <2>2. CASE v.end = MAX_TS /\ \E j \in 1..n : call.ids[j] = v.id
      <3>1. Final(v) = [v EXCEPT !.end = call.ts]
        BY <2>2 DEF Final
      <3> QED
        BY <2>1, <2>2, <3>1
    <2>3. CASE ~(v.end = MAX_TS /\ \E j \in 1..n : call.ids[j] = v.id)
      <3>1. Final(v) = v
        BY <2>3 DEF Final
      <3> QED
        BY <2>1, <2>3, <3>1
    <2> QED
      BY <2>2, <2>3
  <1> HIDE DEF n, d
  <1>6. ASSUME NEW ts \in Nat, ts < call.ts
        PROVE  Abstract!AsOf(history', ts) = Abstract!AsOf(history, ts)
    <2>1. \A v \in history : (Final(v).begin <= ts /\ ts < Final(v).end) <=> (v.begin <= ts /\ ts < v.end)
      <3>1. ASSUME NEW v \in history
            PROVE  (Final(v).begin <= ts /\ ts < Final(v).end) <=> (v.begin <= ts /\ ts < v.end)
        <4>1. CASE Final(v) = v
          BY <4>1
        <4>2. CASE v.end = MAX_TS /\ Final(v).end = call.ts
          <5>1. ts < MAX_TS
            BY <1>1, <1>6, MaxTsAssumption
          <5> QED
            BY <1>5, <1>6, <4>2, <5>1
        <4> QED
          BY <1>5, <4>1, <4>2
      <3> QED
        BY <3>1
    <2>2. \A w \in NewVersions : ~(w.begin <= ts)
      BY <1>1, <1>4, <1>6 DEF NewVersions
    <2>3. {Record(w) : w \in {x \in history' : x.begin <= ts /\ ts < x.end}}
            = {Record(Final(v)) : v \in {x \in history : Final(x).begin <= ts /\ ts < Final(x).end}}
      BY <1>2, <2>2
    <2>4. {Record(Final(v)) : v \in {x \in history : Final(x).begin <= ts /\ ts < Final(x).end}}
            = {Record(v) : v \in {x \in history : x.begin <= ts /\ ts < x.end}}
      BY <1>5, <2>1
    <2> QED
      BY <1>3, <2>3, <2>4
  <1>7. Abstract!AsOf(history', call.ts) = OpenRows
    <2> DEFINE Old == {w \in history : w.end = MAX_TS /\ \A j \in Ended : call.ids[j] # w.id}
               Mine == {i \in Placed : \A j \in Ended : i < j => call.ids[j] # call.ids[i]}
    <2>1. OpenRows = {Record(v) : v \in Old} \cup {Record(RowCell(k)) : k \in Mine}
      BY DEF OpenRows
    <2>2. Mine = LastRows
      <3>1. ASSUME NEW i \in (d + 1)..n
            PROVE  (\A j \in 1..n : i < j => call.ids[j] # call.ids[i])
                     <=> (\A j \in (d + 1)..n : j > i => call.ids[j] # call.ids[i])
        <4>1. \A j \in 1..n : i < j => j \in (d + 1)..n
          BY <1>1
        <4>2. \A j \in (d + 1)..n : j \in 1..n /\ (j > i <=> i < j)
          BY <1>1
        <4> QED
          BY <4>1, <4>2
      <3> QED
        BY <1>1, <3>1 DEF LastRows, n, d
    <2>3. \A w \in NewVersions : w.begin <= call.ts /\ call.ts < w.end
      BY <1>1, <1>4 DEF NewVersions
    <2>4. ASSUME NEW v \in history
          PROVE  (Final(v).begin <= call.ts /\ call.ts < Final(v).end) <=> v \in Old
      <3>1. Final(v).begin <= call.ts
        BY <1>1, <1>5
      <3>2. CASE v.end # MAX_TS
        <4>1. Final(v) = v /\ v.end <= committed /\ v.end \in Nat
          BY <1>5, <3>2
        <4>2. ~(call.ts < v.end)
          BY <1>1, <4>1
        <4> QED
          BY <3>2, <4>1, <4>2
      <3>3. CASE v.end = MAX_TS
        BY <1>1, <1>5, <3>1, <3>3
      <3> QED
        BY <3>2, <3>3
    <2>5. \A v \in history : Record(Final(v)) = Record(v)
      BY <1>5
    <2>6. \A v \in Old : v \in history
      OBVIOUS
    <2> HIDE DEF Old, Mine
    <2>7. {Record(w) : w \in {x \in history' : x.begin <= call.ts /\ call.ts < x.end}}
            = {Record(v) : v \in Old} \cup {Record(w) : w \in NewVersions}
      BY <1>2, <2>3, <2>4, <2>5, <2>6
    <2>8. {Record(w) : w \in NewVersions} = {Record(RowCell(k)) : k \in Mine}
      BY <2>2 DEF NewVersions
    <2> QED
      BY <1>3, <2>1, <2>7, <2>8
  <1>8. \A ts \in Nat : Abstract!AsOf(history, ts)' = Abstract!AsOf(history', ts)
    BY DEF Abstract!AsOf
  <1> QED
    BY <1>6, <1>7, <1>8

\* What the pages answer between the last commit and the call, and at the call.
LEMMA CommitSeen ==
  ASSUME TypeOK, SlotInv, BookInv, AnswerInv, Commit, NEW ts \in Nat, committed < ts, ts <= call.ts
  PROVE  /\ ts < call.ts => Seen(directory, ts) = Seen(directory, committed)
         /\ ts < call.ts => Abstract!AsOf(history, ts) = Abstract!AsOf(history, committed)
         /\ ts = call.ts => Seen(directory, ts) = OpenRecords
  <1>1. call.ts < MAX_TS /\ call.ts \in Nat /\ committed \in Nat
    BY CommitFacts
  <1>2. ASSUME NEW c \in Cells(directory)
        PROVE  /\ At(c) # Free /\ At(c).begin \in Nat /\ At(c).end \in Nat
               /\ At(c).begin <= committed \/ At(c).begin = call.ts
               /\ At(c).end = MAX_TS \/ At(c).end <= committed \/ At(c).end = call.ts
    BY CellFacts DEF Version, AnswerInv, CellStamps
  <1>3. ASSUME ts < call.ts, NEW c \in Cells(directory)
        PROVE  Visible(At(c), ts) <=> Visible(At(c), committed)
    <2>1. At(c).begin <= ts <=> At(c).begin <= committed
      BY <1>1, <1>2, <1>3
    <2>2. ts < At(c).end <=> committed < At(c).end
      BY <1>1, <1>2, <1>3
    <2> QED
      BY <2>1, <2>2 DEF Visible
  <1>4. ASSUME ts = call.ts, NEW c \in Cells(directory)
        PROVE  Visible(At(c), ts) <=> At(c).end = MAX_TS
    <2>1. At(c).begin <= ts
      BY <1>1, <1>2, <1>4
    <2>2. ts < At(c).end <=> At(c).end = MAX_TS
      BY <1>1, <1>2, <1>4
    <2> QED
      BY <1>2, <2>1, <2>2 DEF Visible
  <1>5. ASSUME ts < call.ts, NEW v \in history
        PROVE  (v.begin <= ts /\ ts < v.end) <=> (v.begin <= committed /\ committed < v.end)
    <2>1. v.begin \in Nat /\ v.end \in Nat /\ v.begin <= committed /\ (v.end = MAX_TS \/ v.end <= committed)
      BY HistoryFacts
    <2> QED
      BY <1>1, <1>5, <2>1
  <1>6. ts < call.ts => Seen(directory, ts) = Seen(directory, committed)
    BY <1>3 DEF Seen
  <1>7. ts = call.ts => Seen(directory, ts) = OpenRecords
    BY <1>4 DEF Seen, OpenRecords
  <1>8. ts < call.ts => Abstract!AsOf(history, ts) = Abstract!AsOf(history, committed)
    BY <1>5 DEF Abstract!AsOf
  <1> QED
    BY <1>6, <1>7, <1>8

LEMMA CommitAnswers ==
  ASSUME TypeOK, SlotInv, BookInv, AnswerInv, Commit
  PROVE  AnswerInv'
  <1>1. /\ committed' = call.ts /\ committed < call.ts /\ call.ts < MAX_TS
        /\ committed \in Nat /\ call.ts \in Nat /\ call.ts <= clock
        /\ UNCHANGED <<image, directory, clock, horizon>>
        /\ UNCHANGED <<asked, rpc, snap, left, held, found>>
    BY CommitFacts DEF reader_vars
  <1>2. /\ wpc' = "idle" /\ call'.ids = <<>> /\ call'.kind = "none" /\ call'.deletes = 0
        /\ call'.taken = 0 /\ toClose' = {} /\ toPlace' = {} /\ ~InWrite'
    BY DEF Commit, Abandon, NoCall, InWrite
  <1>3. ~InBlocks' /\ Reached' = 0 /\ Filling' = {}
    BY <1>2 DEF InBlocks, Reached, Filling
  <1>4. Placed' = {} /\ Ended' = {}
    BY <1>2, <1>3 DEF Placed, Ended
  <1>5. horizon \in Nat /\ horizon <= committed + 1
    BY CallFacts DEF AnswerInv, Late
  <1>6. Late'
    BY <1>1, <1>2, <1>5, CallFacts DEF Late
  <1>7. CallShape' /\ CallOrder' /\ DeletesFind'
    BY <1>2, <1>3, <1>4 DEF CallShape, CallOrder, DeletesFind
  <1>8. history' = {Final(v) : v \in history} \cup NewVersions
    BY CommitHistory
  <1>9. Cells(directory)' = Cells(directory) /\ \A c : At(c)' = At(c)
    BY <1>1 DEF Cells, At
  <1>10. CellStamps'
    <2>1. ASSUME NEW c \in Cells(directory)
          PROVE  At(c).begin <= call.ts /\ (At(c).end = MAX_TS \/ At(c).end <= call.ts)
      <3>1. /\ At(c).begin \in Nat /\ At(c).end \in Nat
            /\ At(c).begin <= committed \/ At(c).begin = call.ts
            /\ At(c).end = MAX_TS \/ At(c).end <= committed \/ At(c).end = call.ts
        BY CellFacts DEF Version, AnswerInv, CellStamps
      <3> QED
        BY <1>1, <3>1
    <2>2. ASSUME NEW v \in history
          PROVE  Final(v).begin <= call.ts /\ (Final(v).end = MAX_TS \/ Final(v).end <= call.ts)
      <3>1. /\ v.begin \in Nat /\ v.end \in Nat /\ v.begin <= committed
            /\ v.end = MAX_TS \/ v.end <= committed
            /\ [v EXCEPT !.end = call.ts].end = call.ts
            /\ [v EXCEPT !.end = call.ts].begin = v.begin
        BY HistoryFacts
      <3>2. Final(v) = v \/ Final(v) = [v EXCEPT !.end = call.ts]
        BY DEF Final
      <3>3. v.begin <= call.ts /\ (v.end = MAX_TS \/ v.end <= call.ts) /\ call.ts <= call.ts
        BY <1>1, <3>1
      <3>4. CASE Final(v) = v
        BY <3>3, <3>4
      <3>5. CASE Final(v) = [v EXCEPT !.end = call.ts]
        BY <3>1, <3>3, <3>5
      <3> QED
        BY <3>2, <3>4, <3>5
    <2>3. \A w \in NewVersions : w.begin <= call.ts /\ w.end = MAX_TS
      BY <1>1 DEF NewVersions, RowCell
    <2> QED
      BY <1>1, <1>8, <1>9, <2>1, <2>2, <2>3 DEF CellStamps
  <1>11. OpenNow'
    <2>1. OpenRecords' = OpenRecords
      BY <1>9 DEF OpenRecords, Record
    <2>2. OpenRecords = OpenRows
      BY OpenNowIs DEF AnswerInv
    <2>3. Abstract!AsOf(history', call.ts) = OpenRows
      BY CommitAsOf
    <2>4. OpenRows' = {Record(v) : v \in {w \in history' : w.end = MAX_TS}}
      BY <1>4 DEF OpenRows, Record
    <2>5. \A w \in history' : (w.begin <= call.ts /\ call.ts < w.end) <=> w.end = MAX_TS
      <3>1. CellStamps'
        BY <1>10
      <3>2. \A w \in history' : w.begin <= call.ts /\ (w.end = MAX_TS \/ w.end <= call.ts)
        BY <1>1, <3>1 DEF CellStamps
      <3>3. \A w \in history' : w.end \in Nat
        <4>1. ASSUME NEW v \in history PROVE Final(v).end \in Nat
          <5>1. v.end \in Nat /\ [v EXCEPT !.end = call.ts].end = call.ts
            BY HistoryFacts
          <5> QED
            BY <1>1, <5>1 DEF Final
        <4>2. \A w \in NewVersions : w.end \in Nat
          BY MaxTsAssumption DEF NewVersions, RowCell
        <4> QED
          BY <1>8, <4>1, <4>2
      <3> QED
        BY <1>1, <3>2, <3>3, MaxTsAssumption
    <2>6. Abstract!AsOf(history', call.ts) = {Record(v) : v \in {w \in history' : w.end = MAX_TS}}
      BY <2>5 DEF Abstract!AsOf, Record
    <2>7. OpenNow' <=> OpenRecords' = OpenRows'
      BY DEF OpenNow, OpenRecords, OpenRows
    <2> QED
      BY <2>1, <2>2, <2>3, <2>4, <2>6, <2>7
  <1>12. Answers'
    <2>1. committed \in Readable
      BY <1>1, <1>5 DEF Readable
    <2>2. ASSUME NEW ts \in Readable' PROVE Seen(directory, ts) = Abstract!AsOf(history', ts)
      <3>1. ts \in Readable \/ (ts \in Nat /\ committed < ts /\ ts <= call.ts)
        <4>1. CASE ts \in 0..committed' /\ horizon' <= ts + 1
          BY <1>1, <4>1 DEF Readable
        <4>2. CASE ~(ts \in 0..committed' /\ horizon' <= ts + 1)
          BY <1>1, <2>2, <4>2 DEF Readable
        <4> QED
          BY <4>1, <4>2
      <3>2. CASE ts \in Readable
        <4>1. ts \in Nat /\ ts < call.ts
          BY <1>1, <3>2, ViewedFacts DEF Viewed
        <4>2. Abstract!AsOf(history', ts) = Abstract!AsOf(history, ts)
          BY <4>1, CommitAsOf DEF Abstract!AsOf
        <4>3. Seen(directory, ts) = Abstract!AsOf(history, ts)
          BY <3>2 DEF AnswerInv, Answers
        <4> QED
          BY <4>2, <4>3
      <3>3. CASE ts \in Nat /\ committed < ts /\ ts < call.ts
        <4>1. Abstract!AsOf(history', ts) = Abstract!AsOf(history, ts)
          BY <3>3, CommitAsOf DEF Abstract!AsOf
        <4>2. Seen(directory, committed) = Abstract!AsOf(history, committed)
          BY <2>1 DEF AnswerInv, Answers
        <4>3. /\ Seen(directory, ts) = Seen(directory, committed)
              /\ Abstract!AsOf(history, ts) = Abstract!AsOf(history, committed)
          BY <3>3, <1>1, CommitSeen
        <4> QED
          BY <4>1, <4>2, <4>3
      <3>4. CASE ts = call.ts
        <4>1. Seen(directory, ts) = OpenRecords
          BY <1>1, <3>4, CommitSeen
        <4>2. OpenRecords = OpenRows
          BY OpenNowIs DEF AnswerInv
        <4>3. Abstract!AsOf(history', ts) = OpenRows
          BY <3>4, CommitAsOf
        <4> QED
          BY <4>1, <4>2, <4>3
      <3> QED
        BY <1>1, <3>1, <3>2, <3>3, <3>4
    <2>3. \A ts : Seen(directory, ts)' = Seen(directory, ts)
      BY <1>9 DEF Seen, Record, Visible
    <2>4. \A ts : Abstract!AsOf(history, ts)' = Abstract!AsOf(history', ts)
      BY DEF Abstract!AsOf
    <2> QED
      BY <2>2, <2>3, <2>4 DEF Answers
  <1>13. Asked'
    <2>1. \A r \in Readers : asked[r].since \in Nat
      BY DEF TypeOK, ReaderTypes
    <2> QED
      BY <1>1, <2>1 DEF AnswerInv, Asked
  <1>14. Collected'
    <2>1. ASSUME NEW r \in Readers, rpc[r] \in {"scan", "held"}
          PROVE  Abstract!AsOf(history', snap[r]) = Abstract!AsOf(history, snap[r])
      <3>1. snap[r] \in Viewed
        BY <2>1 DEF Viewed
      <3>2. snap[r] \in Nat /\ snap[r] <= committed
        BY <3>1, ViewedFacts
      <3>3. snap[r] \in Nat /\ snap[r] < call.ts
        BY <1>1, <3>2
      <3> QED
        BY <3>3, CommitAsOf DEF Abstract!AsOf
    <2>2. \A P, ts : Seen(P, ts)' = Seen(P, ts)
      BY <1>1, <1>9 DEF Seen, Cells, Record, Visible
    <2>3. \A img, ts : SeenIn(img, ts)' = SeenIn(img, ts)
      BY DEF SeenIn, Record, Visible
    <2>4. ASSUME NEW r \in Readers
          PROVE  /\ rpc[r] \notin {"scan", "held"} => found[r] = {} /\ left[r] = {}
                 /\ rpc[r] = "scan" =>
                      Abstract!AsOf(history', snap[r]) = found[r] \cup Seen(left[r], snap[r])
                 /\ rpc[r] = "held" =>
                      Abstract!AsOf(history', snap[r]) =
                        found[r] \cup Seen(left[r], snap[r]) \cup SeenIn(held[r].img, snap[r])
      BY <2>1 DEF AnswerInv, Collected
    <2>5. \A r \in Readers : /\ Seen(left[r], snap[r])' = Seen(left[r], snap[r])
                             /\ SeenIn(held[r].img, snap[r])' = SeenIn(held[r].img, snap[r])
                             /\ Abstract!AsOf(history, snap[r])' = Abstract!AsOf(history', snap[r])
      BY <1>1, <1>9 DEF Seen, SeenIn, Cells, Record, Visible, Abstract!AsOf
    <2> QED
      BY <1>1, <2>4, <2>5 DEF Collected
  <1> QED
    BY <1>6, <1>7, <1>10, <1>11, <1>12, <1>13, <1>14 DEF AnswerInv

-----------------------------------------------------------------------------
(* Steps of a search.                                                      *)

\* A search changes nothing that the writer reads.
LEMMA WritersKept ==
  ASSUME AnswerInv, UNCHANGED <<writer_shared, writer_local>>
  PROVE  /\ Late' /\ CallShape' /\ CallOrder' /\ DeletesFind' /\ CellStamps' /\ OpenNow'
         /\ UNCHANGED <<image, directory, committed, horizon, history>>
         /\ \A P, ts : Seen(P, ts)' = Seen(P, ts)
  <1>1. UNCHANGED <<image, store, directory, nextPage, locations, retired, clock, committed,
                    horizon, history, wpc, call, toClose, toPlace, draft>>
    BY DEF writer_shared, writer_local
  <1>2. InWrite' = InWrite /\ InBlocks' = InBlocks /\ Reached' = Reached /\ Filling' = Filling
    BY <1>1 DEF InWrite, InBlocks, Reached, Filling, RowCell
  <1>3. Placed' = Placed /\ Ended' = Ended
    BY <1>1, <1>2 DEF Placed, Ended
  <1>4. Cells(directory)' = Cells(directory) /\ \A c : At(c)' = At(c)
    BY <1>1 DEF Cells, At
  <1>5. Late' /\ CallShape' /\ CallOrder'
    BY <1>1, <1>2, <1>3 DEF AnswerInv, Late, CallShape, CallOrder
  <1>6. DeletesFind'
    BY <1>1 DEF AnswerInv, DeletesFind, OpenAt
  <1>7. CellStamps' /\ OpenNow'
    BY <1>1, <1>3, SameRows, <1>4
  <1>8. \A P, ts : Seen(P, ts)' = Seen(P, ts)
    BY <1>1, <1>4 DEF Seen, Cells, Record, Visible
  <1> QED
    BY <1>1, <1>5, <1>6, <1>7, <1>8

\* So the invariant holds after a step that reads at no new timestamp, where the
\* search that took it has what it asked for.
LEMMA OfTheReader ==
  ASSUME AnswerInv, UNCHANGED <<writer_shared, writer_local>>, NEW r \in Readers,
         Readable' \subseteq Readable,
         \A q \in Readers \ {r} : /\ asked'[q] = asked[q] /\ rpc'[q] = rpc[q] /\ snap'[q] = snap[q]
                                  /\ left'[q] = left[q] /\ held'[q] = held[q] /\ found'[q] = found[q],
         rpc'[r] \notin {"scan", "held"} => found'[r] = {} /\ left'[r] = {},
         rpc'[r] = "scan" =>
           Abstract!AsOf(history, snap'[r]) = found'[r] \cup Seen(left'[r], snap'[r]),
         rpc'[r] = "held" =>
           Abstract!AsOf(history, snap'[r]) =
             found'[r] \cup Seen(left'[r], snap'[r]) \cup SeenIn(held'[r].img, snap'[r]),
         rpc'[r] = "idle" => asked'[r] = NotAsked,
         rpc'[r] # "idle" => asked'[r].since <= committed,
         rpc'[r] \in {"resolved", "refined", "scan", "held"} =>
           IF asked'[r].at = 0 THEN asked'[r].since <= snap'[r] ELSE snap'[r] = asked'[r].at
  PROVE  AnswerInv'
  <1>1. /\ UNCHANGED <<image, directory, committed, horizon, history>>
        /\ \A P, ts : Seen(P, ts)' = Seen(P, ts)
    BY WritersKept
  <1>2. \A ts : Abstract!AsOf(history, ts)' = Abstract!AsOf(history, ts)
    BY <1>1 DEF Abstract!AsOf
  <1>3. Answers'
    BY <1>1, <1>2 DEF AnswerInv, Answers
  <1>4. \A P, ts : Seen(P, ts)' = {Record(At(c)) : c \in {d \in Cells(P) : Visible(At(d), ts)}}
    BY <1>1 DEF Seen
  <1>5. \A q \in Readers : Seen(left[q], snap[q])' = Seen(left'[q], snap'[q])
    BY <1>1 DEF Seen, Cells, Record, Visible, At
  <1>6. \A q \in Readers : SeenIn(held[q].img, snap[q])' = SeenIn(held'[q].img, snap'[q])
    BY DEF SeenIn, Record, Visible
  <1>7. \A q \in Readers : Abstract!AsOf(history, snap[q])' = Abstract!AsOf(history, snap'[q])
    BY <1>1 DEF Abstract!AsOf
  <1>8. Asked'
    BY <1>1 DEF AnswerInv, Asked
  <1>9. Collected'
    <2>1. ASSUME NEW q \in Readers, q # r
          PROVE  /\ rpc'[q] \notin {"scan", "held"} => found'[q] = {} /\ left'[q] = {}
                 /\ rpc'[q] = "scan" =>
                      Abstract!AsOf(history, snap'[q]) = found'[q] \cup Seen(left'[q], snap'[q])
                 /\ rpc'[q] = "held" =>
                      Abstract!AsOf(history, snap'[q]) =
                        found'[q] \cup Seen(left'[q], snap'[q]) \cup SeenIn(held'[q].img, snap'[q])
      BY <2>1 DEF AnswerInv, Collected
    <2>2. \A q \in Readers :
            /\ rpc'[q] \notin {"scan", "held"} => found'[q] = {} /\ left'[q] = {}
            /\ rpc'[q] = "scan" =>
                 Abstract!AsOf(history, snap'[q]) = found'[q] \cup Seen(left'[q], snap'[q])
            /\ rpc'[q] = "held" =>
                 Abstract!AsOf(history, snap'[q]) =
                   found'[q] \cup Seen(left'[q], snap'[q]) \cup SeenIn(held'[q].img, snap'[q])
      BY <2>1
    <2> QED
      BY <2>2, <1>5, <1>6, <1>7 DEF Collected
  <1> QED
    BY <1>3, <1>8, <1>9, WritersKept DEF AnswerInv

\* A search takes its timestamp.
LEMMA PinAnswers ==
  ASSUME TypeOK, AnswerInv, NEW r \in Readers, Pin(r)
  PROVE  AnswerInv'
  <1>1. PICK at \in {0} \cup {s \in 1..committed : horizon <= s + 1} :
          asked' = [asked EXCEPT ![r] = [since |-> committed, at |-> at]]
    BY DEF Pin
  <1>2. /\ rpc[r] = "idle" /\ rpc' = [rpc EXCEPT ![r] = "pinned"]
        /\ UNCHANGED <<writer_shared, writer_local, snap, left, held, found>>
    BY DEF Pin
  <1>3. /\ rpc'[r] = "pinned" /\ asked'[r].at = at /\ asked'[r].since = committed
        /\ \A q \in Readers \ {r} : asked'[q] = asked[q] /\ rpc'[q] = rpc[q]
    BY <1>1, <1>2 DEF TypeOK, ReaderTypes
  <1>4. UNCHANGED <<committed, horizon>> /\ committed \in Nat
    BY <1>2, CallFacts DEF writer_shared
  <1>5. at # 0 => at \in 0..committed /\ horizon <= at + 1
    BY <1>1, <1>4
  <1>6. Readable' \subseteq Readable
    <2>1. ASSUME NEW q \in Readers, rpc'[q] = "pinned", asked'[q].at # 0
          PROVE  asked'[q].at \in Readable
      <3>1. CASE q = r
        BY <1>3, <1>5, <2>1, <3>1 DEF Readable
      <3>2. CASE q # r
        BY <1>3, <2>1, <3>2 DEF Readable
      <3> QED
        BY <3>1, <3>2
    <2>2. ASSUME NEW q \in Readers, rpc'[q] \in {"resolved", "refined"}
          PROVE  snap'[q] \in Readable
      BY <1>2, <1>3, <2>2 DEF Readable
    <2>3. Readable' = {ts \in 0..committed : horizon <= ts + 1}
            \cup {asked'[q].at : q \in {p \in Readers : rpc'[p] = "pinned" /\ asked'[p].at # 0}}
            \cup {snap'[q] : q \in {p \in Readers : rpc'[p] \in {"resolved", "refined"}}}
      BY <1>4 DEF Readable
    <2> QED
      BY <2>1, <2>2, <2>3 DEF Readable
  <1>7. found'[r] = {} /\ left'[r] = {}
    BY <1>2 DEF AnswerInv, Collected
  <1> QED
    BY <1>2, <1>3, <1>4, <1>6, <1>7, OfTheReader

\* The snapshot of a search is what it asked for, or what is committed now.
LEMMA ResolveAnswers ==
  ASSUME TypeOK, AnswerInv, NEW r \in Readers, Resolve(r)
  PROVE  AnswerInv'
  <1>1. /\ rpc[r] = "pinned" /\ rpc' = [rpc EXCEPT ![r] = "resolved"]
        /\ snap' = [snap EXCEPT ![r] = IF asked[r].at = 0 THEN committed ELSE asked[r].at]
        /\ UNCHANGED <<writer_shared, writer_local, asked, left, held, found>>
    BY DEF Resolve, LatestSnapshot
  <1>2. /\ rpc'[r] = "resolved"
        /\ snap'[r] = IF asked[r].at = 0 THEN committed ELSE asked[r].at
        /\ \A q \in Readers \ {r} : snap'[q] = snap[q] /\ rpc'[q] = rpc[q]
    BY <1>1 DEF TypeOK, ReaderTypes
  <1>3. UNCHANGED <<committed, horizon>> /\ committed \in Nat /\ horizon \in Nat
    BY <1>1, CallFacts DEF writer_shared
  <1>4. horizon <= committed + 1
    BY DEF AnswerInv, Late
  <1>5. committed \in Readable
    BY <1>3, <1>4 DEF Readable
  <1>6. snap'[r] \in Readable
    <2>1. CASE asked[r].at = 0
      BY <1>2, <1>5, <2>1
    <2>2. CASE asked[r].at # 0
      BY <1>1, <1>2, <2>2 DEF Readable
    <2> QED
      BY <2>1, <2>2
  <1>7. Readable' \subseteq Readable
    <2>1. ASSUME NEW q \in Readers, rpc'[q] = "pinned", asked'[q].at # 0
          PROVE  asked'[q].at \in Readable
      BY <1>1, <1>2, <2>1 DEF Readable
    <2>2. ASSUME NEW q \in Readers, rpc'[q] \in {"resolved", "refined"}
          PROVE  snap'[q] \in Readable
      BY <1>2, <1>6, <2>2 DEF Readable
    <2>3. Readable' = {ts \in 0..committed : horizon <= ts + 1}
            \cup {asked'[q].at : q \in {p \in Readers : rpc'[p] = "pinned" /\ asked'[p].at # 0}}
            \cup {snap'[q] : q \in {p \in Readers : rpc'[p] \in {"resolved", "refined"}}}
      BY <1>3 DEF Readable
    <2> QED
      BY <2>1, <2>2, <2>3 DEF Readable
  <1>8. found'[r] = {} /\ left'[r] = {}
    BY <1>1 DEF AnswerInv, Collected
  <1>9. asked'[r].since <= committed
    BY <1>1 DEF AnswerInv, Asked
  <1>10. IF asked'[r].at = 0 THEN asked'[r].since <= snap'[r] ELSE snap'[r] = asked'[r].at
    BY <1>1, <1>2, <1>9
  <1> QED
    BY <1>1, <1>2, <1>7, <1>8, <1>9, <1>10, OfTheReader

\* The pin is refined; nothing else moves.
LEMMA RefineAnswers ==
  ASSUME TypeOK, AnswerInv, NEW r \in Readers, Refine(r)
  PROVE  AnswerInv'
  <1>1. /\ rpc[r] = "resolved" /\ rpc' = [rpc EXCEPT ![r] = "refined"]
        /\ UNCHANGED <<writer_shared, writer_local, asked, snap, left, held, found>>
    BY DEF Refine
  <1>2. rpc'[r] = "refined" /\ \A q \in Readers \ {r} : rpc'[q] = rpc[q]
    BY <1>1 DEF TypeOK, ReaderTypes
  <1>3. UNCHANGED <<committed, horizon>>
    BY <1>1 DEF writer_shared
  <1>4. Readable' \subseteq Readable
    BY <1>1, <1>2, <1>3 DEF Readable
  <1>5. found'[r] = {} /\ left'[r] = {}
    BY <1>1 DEF AnswerInv, Collected
  <1>6. /\ asked'[r].since <= committed
        /\ IF asked'[r].at = 0 THEN asked'[r].since <= snap'[r] ELSE snap'[r] = asked'[r].at
    BY <1>1 DEF AnswerInv, Asked
  <1> QED
    BY <1>1, <1>2, <1>4, <1>5, <1>6, OfTheReader

\* The directory a search loads has all that it can see.
LEMMA LoadDirectoryAnswers ==
  ASSUME TypeOK, AnswerInv, NEW r \in Readers, LoadDirectory(r)
  PROVE  AnswerInv'
  <1>1. /\ rpc[r] = "refined" /\ rpc' = [rpc EXCEPT ![r] = "scan"]
        /\ left' = [left EXCEPT ![r] = directory]
        /\ UNCHANGED <<writer_shared, writer_local, asked, snap, held, found>>
    BY DEF LoadDirectory
  <1>2. /\ rpc'[r] = "scan" /\ left'[r] = directory
        /\ \A q \in Readers \ {r} : rpc'[q] = rpc[q] /\ left'[q] = left[q]
    BY <1>1 DEF TypeOK, ReaderTypes
  <1>3. UNCHANGED <<committed, horizon>>
    BY <1>1 DEF writer_shared
  <1>4. Readable' \subseteq Readable
    BY <1>1, <1>2, <1>3 DEF Readable
  <1>5. snap[r] \in Readable
    BY <1>1 DEF Readable
  <1>6. Abstract!AsOf(history, snap'[r]) = found'[r] \cup Seen(left'[r], snap'[r])
    BY <1>1, <1>2, <1>5 DEF AnswerInv, Answers, Collected
  <1>7. /\ asked'[r].since <= committed
        /\ IF asked'[r].at = 0 THEN asked'[r].since <= snap'[r] ELSE snap'[r] = asked'[r].at
    BY <1>1 DEF AnswerInv, Asked
  <1> QED
    BY <1>1, <1>2, <1>4, <1>6, <1>7, OfTheReader

\* What a search has still to scan is the page it loads and the others.
LEMMA OnePage ==
  ASSUME TypeOK, NEW P \in SUBSET Pages, NEW p \in P, NEW ts
  PROVE  Seen(P, ts) = Seen(P \ {p}, ts) \cup SeenIn(image[p], ts)
  <1>1. ASSUME NEW c \in P \X Slots, Visible(At(c), ts)
        PROVE  Record(At(c)) \in Seen(P \ {p}, ts) \cup SeenIn(image[p], ts)
    <2>1. CASE c[1] = p
      BY <1>1, <2>1 DEF SeenIn, At, Record
    <2>2. CASE c[1] # p
      <3>1. c \in (P \ {p}) \X Slots
        BY <2>2
      <3> QED
        BY <1>1, <3>1 DEF Seen, Cells, At, Visible
    <2> QED
      BY <2>1, <2>2
  <1>2. ASSUME NEW c \in (P \ {p}) \X Slots, Visible(At(c), ts)
        PROVE  Record(At(c)) \in Seen(P, ts)
    BY <1>2 DEF Seen, Cells, At, Visible
  <1>3. ASSUME NEW s \in Slots, Visible(image[p][s], ts)
        PROVE  Record(image[p][s]) \in Seen(P, ts)
    <2>1. <<p, s>> \in P \X Slots /\ At(<<p, s>>) = image[p][s]
      BY DEF At
    <2> QED
      BY <1>3, <2>1 DEF Seen, Cells, At, Visible
  <1>4. \A Q : Seen(Q, ts) = {Record(At(c)) : c \in {d \in Q \X Slots : Visible(At(d), ts)}}
    BY DEF Seen, Cells, Visible, At
  <1> QED
    BY <1>1, <1>2, <1>3, <1>4 DEF SeenIn

LEMMA LoadImageAnswers ==
  ASSUME TypeOK, AnswerInv, NEW r \in Readers, LoadImage(r)
  PROVE  AnswerInv'
  <1>1. PICK p \in left[r] :
          /\ held' = [held EXCEPT ![r] = [page |-> p, img |-> image[p]]]
          /\ left' = [left EXCEPT ![r] = left[r] \ {p}]
    BY DEF LoadImage, Remaining
  <1>2. /\ rpc[r] = "scan" /\ rpc' = [rpc EXCEPT ![r] = "held"]
        /\ UNCHANGED <<writer_shared, writer_local, asked, snap, found>>
    BY DEF LoadImage
  <1>3. /\ rpc'[r] = "held" /\ left'[r] = left[r] \ {p} /\ held'[r].img = image[p]
        /\ \A q \in Readers \ {r} : /\ rpc'[q] = rpc[q] /\ left'[q] = left[q]
                                    /\ held'[q] = held[q]
    BY <1>1, <1>2 DEF TypeOK, ReaderTypes
  <1>4. UNCHANGED <<committed, horizon>>
    BY <1>2 DEF writer_shared
  <1>5. Readable' \subseteq Readable
    BY <1>2, <1>3, <1>4 DEF Readable
  <1>6. Seen(left[r], snap[r]) = Seen(left[r] \ {p}, snap[r]) \cup SeenIn(image[p], snap[r])
    <2>1. left[r] \in SUBSET Pages
      BY DEF TypeOK, ReaderTypes
    <2> QED
      BY <2>1, OnePage
  <1>7. Abstract!AsOf(history, snap[r]) = found[r] \cup Seen(left[r], snap[r])
    BY <1>2 DEF AnswerInv, Collected
  <1>8. Abstract!AsOf(history, snap'[r]) =
          found'[r] \cup Seen(left'[r], snap'[r]) \cup SeenIn(held'[r].img, snap'[r])
    BY <1>2, <1>3, <1>6, <1>7
  <1>9. /\ asked'[r].since <= committed
        /\ IF asked'[r].at = 0 THEN asked'[r].since <= snap'[r] ELSE snap'[r] = asked'[r].at
    BY <1>2 DEF AnswerInv, Asked
  <1> QED
    BY <1>2, <1>3, <1>5, <1>8, <1>9, OfTheReader

\* What a search collects of an image is what the image holds: the payload of a
\* version that the search may return is still in its slot.
LEMMA ScanSeen ==
  ASSUME TypeOK, SlotInv, NEW r \in Readers, Scan(r)
  PROVE  found' = [found EXCEPT ![r] = found[r] \cup SeenIn(held[r].img, snap[r])]
  <1>1. /\ rpc[r] = "held"
        /\ found' = [found EXCEPT ![r] = found[r] \cup
             {[id |-> held[r].img[s].id, vec |-> store[held[r].page][s]] :
                s \in {t \in Slots : Visible(held[r].img[t], snap[r])}}]
    BY DEF Scan
  <1>2. \A s \in Slots : Visible(held[r].img[s], snap[r]) =>
          store[held[r].page][s] = held[r].img[s].vec
    BY <1>1, SlotInvImplies DEF SlotSafe
  <1>3. {[id |-> held[r].img[s].id, vec |-> store[held[r].page][s]] :
           s \in {t \in Slots : Visible(held[r].img[t], snap[r])}} = SeenIn(held[r].img, snap[r])
    BY <1>2 DEF SeenIn, Record
  <1> QED
    BY <1>1, <1>3

LEMMA ScanAnswers ==
  ASSUME TypeOK, SlotInv, AnswerInv, NEW r \in Readers, Scan(r)
  PROVE  AnswerInv'
  <1>1. /\ rpc[r] = "held" /\ rpc' = [rpc EXCEPT ![r] = "scan"]
        /\ held' = [held EXCEPT ![r] = NoImage]
        /\ UNCHANGED <<writer_shared, writer_local, asked, snap, left>>
    BY DEF Scan
  <1>2. found' = [found EXCEPT ![r] = found[r] \cup SeenIn(held[r].img, snap[r])]
    BY ScanSeen
  <1>3. /\ rpc'[r] = "scan" /\ found'[r] = found[r] \cup SeenIn(held[r].img, snap[r])
        /\ \A q \in Readers \ {r} : /\ rpc'[q] = rpc[q] /\ held'[q] = held[q]
                                    /\ found'[q] = found[q]
    BY <1>1, <1>2 DEF TypeOK, ReaderTypes
  <1>4. UNCHANGED <<committed, horizon>>
    BY <1>1 DEF writer_shared
  <1>5. Readable' \subseteq Readable
    BY <1>1, <1>3, <1>4 DEF Readable
  <1>6. Abstract!AsOf(history, snap[r]) =
          found[r] \cup Seen(left[r], snap[r]) \cup SeenIn(held[r].img, snap[r])
    BY <1>1 DEF AnswerInv, Collected
  <1>7. Abstract!AsOf(history, snap'[r]) = found'[r] \cup Seen(left'[r], snap'[r])
    <2>1. snap'[r] = snap[r] /\ left'[r] = left[r]
      BY <1>1
    <2> QED
      BY <1>3, <1>6, <2>1
  <1>8. /\ asked'[r].since <= committed
        /\ IF asked'[r].at = 0 THEN asked'[r].since <= snap'[r] ELSE snap'[r] = asked'[r].at
    BY <1>1 DEF AnswerInv, Asked
  <1> QED
    BY <1>1, <1>3, <1>5, <1>7, <1>8, OfTheReader

\* The search is over.
LEMMA UnpinAnswers ==
  ASSUME TypeOK, AnswerInv, NEW r \in Readers, Unpin(r)
  PROVE  AnswerInv'
  <1>1. /\ rpc[r] = "scan" /\ left[r] = {} /\ rpc' = [rpc EXCEPT ![r] = "idle"]
        /\ asked' = [asked EXCEPT ![r] = NotAsked]
        /\ snap' = [snap EXCEPT ![r] = 0] /\ found' = [found EXCEPT ![r] = {}]
        /\ UNCHANGED <<writer_shared, writer_local, left, held>>
    BY DEF Unpin, Done
  <1>2. /\ rpc'[r] = "idle" /\ asked'[r] = NotAsked /\ found'[r] = {} /\ left'[r] = {}
        /\ \A q \in Readers \ {r} : /\ rpc'[q] = rpc[q] /\ asked'[q] = asked[q]
                                    /\ snap'[q] = snap[q] /\ found'[q] = found[q]
    BY <1>1 DEF TypeOK, ReaderTypes
  <1>3. UNCHANGED <<committed, horizon>>
    BY <1>1 DEF writer_shared
  <1>4. Readable' \subseteq Readable
    BY <1>1, <1>2, <1>3 DEF Readable
  <1> QED
    BY <1>1, <1>2, <1>4, OfTheReader

LEMMA QuietAnswers ==
  ASSUME AnswerInv, UNCHANGED <<writer_shared, writer_local, asked, rpc, snap, left, held, found>>
  PROVE  AnswerInv'
  <1>1. /\ UNCHANGED <<image, directory, committed, horizon, history>>
        /\ \A P, ts : Seen(P, ts)' = Seen(P, ts)
    BY WritersKept
  <1>2. Answers'
    BY <1>1 DEF AnswerInv, Answers, Readable, Abstract!AsOf
  <1>3. Asked'
    BY <1>1 DEF AnswerInv, Asked
  <1>4. Collected'
    <2>1. \A q \in Readers : /\ Seen(left[q], snap[q])' = Seen(left[q], snap[q])
                             /\ SeenIn(held[q].img, snap[q])' = SeenIn(held[q].img, snap[q])
                             /\ Abstract!AsOf(history, snap[q])' = Abstract!AsOf(history, snap[q])
      BY <1>1 DEF Seen, SeenIn, Cells, Record, Visible, At, Abstract!AsOf
    <2> QED
      BY <2>1 DEF AnswerInv, Collected
  <1> QED
    BY <1>2, <1>3, <1>4, WritersKept DEF AnswerInv

LEMMA ReaderAnswers ==
  ASSUME TypeOK, SlotInv, AnswerInv, NEW r \in Readers, Reader(r)
  PROVE  AnswerInv'
  <1>1. CASE Drain(r)
    BY <1>1, QuietAnswers DEF Drain
  <1> QED
    BY <1>1, PinAnswers, ResolveAnswers, RefineAnswers, LoadDirectoryAnswers, LoadImageAnswers,
       ScanAnswers, UnpinAnswers DEF Reader

-----------------------------------------------------------------------------
(* Every step.                                                             *)

LEMMA InitAnswers == Init => AnswerInv
  <1> SUFFICES ASSUME Init PROVE AnswerInv
    OBVIOUS
  <1>1. /\ wpc = "idle" /\ call = NoCall /\ toClose = {} /\ toPlace = {} /\ directory = {}
        /\ clock = 0 /\ committed = 0 /\ horizon = 0 /\ history = {}
        /\ \A r \in Readers : asked[r] = NotAsked /\ rpc[r] = "idle" /\ left[r] = {} /\ found[r] = {}
    BY DEF Init
  <1>2. call.ids = <<>> /\ call.taken = 0 /\ call.deletes = 0 /\ call.kind = "none" /\ Len(call.ids) = 0
    BY <1>1 DEF NoCall
  <1>3. ~InWrite /\ ~InBlocks /\ Reached = 0 /\ Filling = {}
    BY <1>1, <1>2 DEF InWrite, InBlocks, Reached, Filling
  <1>4. Placed = {} /\ Ended = {}
    BY <1>2, <1>3 DEF Placed, Ended
  <1>5. Cells(directory) = {}
    BY <1>1 DEF Cells
  <1>6. Late /\ CallShape /\ CallOrder /\ DeletesFind
    BY <1>1, <1>2, <1>3, <1>4 DEF Late, CallShape, CallOrder, DeletesFind
  <1>7. CellStamps /\ OpenNow
    BY <1>1, <1>4, <1>5 DEF CellStamps, OpenNow
  <1>8. Answers
    BY <1>1, <1>5 DEF Answers, Seen, Abstract!AsOf
  <1>9. Collected /\ Asked
    BY <1>1 DEF Collected, Asked
  <1> QED
    BY <1>6, <1>7, <1>8, <1>9 DEF AnswerInv

LEMMA StepAnswers ==
  ASSUME Undisturbed, TypeOK, SlotInv, BookInv, AnswerInv, [Next]_vars
  PROVE  AnswerInv'
  <1>1. CASE BeginInsert \/ BeginDelete \/ BeginBatch \/ BeginChanges
    BY <1>1, BeginsAnswers
  <1>2. CASE StartBlock \/ RefuseBlock \/ List \/ Vacuum \/ Consolidate \/ StopMerging
    BY <1>2, StartBlockAnswers, RefuseAnswers, ListAnswers, VacuumAnswers, ConsolidateAnswers,
       StopMergingAnswers
  <1>3. CASE FirstPage \/ Place \/ PlaceMore \/ Publish \/ Close \/ Commit
    BY <1>3, FirstPageAnswers, PlaceAnswers, PublishAnswers, CloseAnswers, CommitAnswers
  <1>4. CASE Split \/ MergeMany \/ Reclaim
    BY <1>4, StepTypes, SplitMergeAnswers, ReclaimAnswers
  <1>5. CASE Throw
    BY <1>5 DEF Throw, Undisturbed
  <1>6. CASE \E r \in Readers : Reader(r)
    BY <1>6, ReaderAnswers
  <1>7. CASE UNCHANGED vars
    BY <1>7, QuietAnswers DEF vars, reader_vars
  <1> QED
    BY <1>1, <1>2, <1>3, <1>4, <1>5, <1>6, <1>7 DEF Next, Writer

\* All that is behind the three theorems below.  No timestamp is given twice: a
\* caller that writes at the timestamp it has just committed changes what that
\* timestamp showed.  No call stops in the middle: what it published stays.
THEOREM AnswersKept ==
  ASSUME Undisturbed
  PROVE  Spec => [](TypeOK /\ SlotInv /\ BookInv /\ AnswerInv)
  <1>1. Init => TypeOK /\ SlotInv /\ BookInv /\ AnswerInv
    BY InitTypes, InitSlots, BookInit, InitAnswers
  <1>2. TypeOK /\ SlotInv /\ BookInv /\ AnswerInv /\ [Next]_vars
          => (TypeOK /\ SlotInv /\ BookInv /\ AnswerInv)'
    BY StepTypes, StepSlots, StepBooks, StepAnswers DEF Undisturbed
  <1> QED
    BY <1>1, <1>2, PTL DEF Spec

\* In the middle of any write and any vacuum, the published directory answers for
\* every timestamp that is still readable as the history does.
THEOREM TimeTravelled ==
  ASSUME Undisturbed
  PROVE  Spec => []TimeTravel
  <1>1. TypeOK /\ AnswerInv => TimeTravel
    <2> SUFFICES ASSUME TypeOK, AnswerInv,
                        NEW ts \in (IF horizon = 0 THEN 0 ELSE horizon - 1)..committed
                 PROVE  {[id |-> image[l[1]][l[2]].id, vec |-> image[l[1]][l[2]].vec] :
                           l \in {c \in Cells(directory) : Visible(image[c[1]][c[2]], ts)}}
                        = Abstract!AsOf(history, ts)
      BY DEF TimeTravel
    <2>1. ts \in 0..committed /\ horizon <= ts + 1
      BY CallFacts
    <2>2. Seen(directory, ts) = Abstract!AsOf(history, ts)
      BY <2>1 DEF Readable, AnswerInv, Answers
    <2> QED
      BY <2>2 DEF Seen, Record, At
  <1> QED
    BY <1>1, AnswersKept, PTL

\* A search collects only what was committed at its snapshot.
THEOREM SearchesSound ==
  ASSUME Undisturbed
  PROVE  Spec => []SearchSound
  <1>1. TypeOK /\ AnswerInv => SearchSound
    <2> SUFFICES ASSUME TypeOK, AnswerInv, NEW r \in Readers
                 PROVE  found[r] \subseteq Abstract!AsOf(history, snap[r])
      BY DEF SearchSound
    <2> QED
      BY DEF AnswerInv, Collected
  <1> QED
    BY <1>1, AnswersKept, PTL

-----------------------------------------------------------------------------
(* The refinement.                                                         *)

\* What SnapshotStore sees of the searches.
StepOf(r) == IF rpc[r] = "idle" THEN "idle" ELSE IF Done(r) THEN "answered" ELSE "called"
SearchOf == [r \in Readers |-> [step |-> StepOf(r), since |-> asked[r].since, at |-> asked[r].at]]
AnswerOf == [r \in Readers |-> IF Done(r) THEN found[r] ELSE {}]

\* A step that SnapshotStore does not see.
LEMMA Stutters ==
  ASSUME UNCHANGED <<committed, history, asked>>,
         \A r \in Readers : /\ StepOf(r)' = StepOf(r)
                            /\ Done(r) => Done(r)' /\ found'[r] = found[r]
                            /\ ~Done(r) => ~Done(r)'
  PROVE  UNCHANGED Abstract!vars
  <1>1. SearchOf' = SearchOf
    BY DEF SearchOf
  <1>2. AnswerOf' = AnswerOf
    BY DEF AnswerOf
  <1> QED
    BY <1>1, <1>2 DEF Abstract!vars, SearchOf, StepOf, AnswerOf

\* A commit is a write: it ends the open versions of the ids of its rows, and its
\* last row of each id that it writes is the one new version of it.
LEMMA CommitWrites ==
  ASSUME TypeOK, SlotInv, BookInv, AnswerInv, Commit
  PROVE  Abstract!Write
  <1> DEFINE new == {v \in history' : v.begin = call.ts}
             gone == {call.ids[j] : j \in 1..Len(call.ids)}
  <1>1. /\ committed' = call.ts /\ committed < call.ts
        /\ committed \in Nat /\ call.ts \in Nat
        /\ call.deletes \in Nat /\ Len(call.ids) \in Nat
        /\ UNCHANGED reader_vars
    BY CommitFacts
  <1>2. history' = {Final(v) : v \in history} \cup NewVersions
    BY CommitHistory
  <1>3. \A v \in history : Final(v).begin # call.ts
    <2>1. ASSUME NEW v \in history PROVE Final(v).begin # call.ts
      <3>1. /\ v.begin \in Nat /\ v.begin <= committed
            /\ [v EXCEPT !.end = call.ts].begin = v.begin
        BY HistoryFacts
      <3>2. v.begin # call.ts
        BY <1>1, <3>1
      <3>3. CASE Final(v) = v
        BY <3>2, <3>3
      <3>4. CASE Final(v) = [v EXCEPT !.end = call.ts]
        BY <3>1, <3>2, <3>4
      <3> QED
        BY <3>3, <3>4 DEF Final
    <2> QED
      BY <2>1
  <1>4. new = NewVersions
    <2>1. \A w \in NewVersions : w.begin = call.ts
      BY DEF NewVersions, RowCell
    <2> QED
      BY <1>2, <1>3, <2>1
  <1>5. \A k \in LastRows : k \in 1..Len(call.ids) /\ call.ids[k] \in gone
    BY <1>1 DEF LastRows
  <1>6. \A v \in new : v.end = MAX_TS /\ v.id \in gone
    BY <1>4, <1>5 DEF NewVersions, RowCell
  <1>7. \A v, w \in new : v.id = w.id => v = w
    <2>1. ASSUME NEW k \in LastRows, NEW l \in LastRows, call.ids[k] = call.ids[l]
          PROVE  k = l
      <3>1. k \in Int /\ l \in Int /\ ~(l > k) /\ ~(k > l)
        BY <1>1, <2>1 DEF LastRows
      <3> QED
        BY <3>1
    <2>2. \A v, w \in NewVersions : v.id = w.id => v = w
      BY <2>1 DEF NewVersions, RowCell
    <2> QED
      BY <1>4, <2>2
  <1>8. gone \in SUBSET Ids
    BY PageTypes, CallFacts
  <1>9. history' = Abstract!EndedAt(history, gone \cup {v.id : v \in new}, call.ts) \cup new
    <2>1. gone \cup {v.id : v \in new} = gone
      BY <1>6
    <2>2. \A v \in history : Final(v) = IF v.id \in gone /\ v.end = MAX_TS
                                        THEN [v EXCEPT !.end = call.ts] ELSE v
      BY DEF Final
    <2>3. Abstract!EndedAt(history, gone, call.ts) = {Final(v) : v \in history}
      BY <2>2 DEF Abstract!EndedAt
    <2> QED
      BY <1>2, <1>4, <2>1, <2>3
  <1>10. SearchOf' = SearchOf /\ AnswerOf' = AnswerOf
    BY <1>1 DEF SearchOf, AnswerOf, StepOf, Done, reader_vars
  <1>11. committed' > committed
    BY <1>1
  <1> HIDE DEF new, gone
  <1>12. \E g \in SUBSET Ids : history' = Abstract!EndedAt(history, g \cup {v.id : v \in new}, call.ts) \cup new
    BY <1>8, <1>9
  <1> USE DEF new
  <1> QED
    BY <1>1, <1>6, <1>7, <1>10, <1>11, <1>12 DEF Abstract!Write, SearchOf, AnswerOf, StepOf

\* What a reader's step leaves to the other searches.
LEMMA OthersKept ==
  ASSUME TypeOK, NEW r \in Readers, Reader(r)
  PROVE  /\ UNCHANGED <<committed, history>>
         /\ \A q \in Readers \ {r} :
              /\ asked'[q] = asked[q] /\ rpc'[q] = rpc[q]
              /\ left'[q] = left[q] /\ found'[q] = found[q]
  <1>1. UNCHANGED <<committed, history>>
    BY DEF Reader, Pin, Resolve, Refine, Drain, LoadDirectory, LoadImage, Scan, Unpin, writer_shared
  <1>2. /\ asked \in [Readers -> [since : Nat, at : Nat]]
        /\ rpc \in [Readers -> {"idle", "pinned", "resolved", "refined", "scan", "held"}]
        /\ left \in [Readers -> SUBSET Pages]
        /\ found \in [Readers -> SUBSET [id : Ids, vec : Vec]]
    BY DEF TypeOK, ReaderTypes
  <1>3. CASE Pin(r) \/ Resolve(r) \/ Refine(r) \/ Drain(r)
    BY <1>1, <1>2, <1>3 DEF Pin, Resolve, Refine, Drain
  <1>4. CASE LoadDirectory(r)
    BY <1>1, <1>2, <1>4 DEF LoadDirectory
  <1>5. CASE LoadImage(r)
    BY <1>1, <1>2, <1>5 DEF LoadImage
  <1>6. CASE Scan(r)
    BY <1>1, <1>2, <1>6 DEF Scan
  <1>7. CASE Unpin(r)
    BY <1>1, <1>2, <1>7 DEF Unpin
  <1> QED
    BY <1>1, <1>3, <1>4, <1>5, <1>6, <1>7 DEF Reader

\* How SnapshotStore sees a step of one search.
LEMMA OneSearch ==
  ASSUME NEW r \in Readers, UNCHANGED <<committed, history>>,
         \A q \in Readers \ {r} :
           /\ asked'[q] = asked[q] /\ rpc'[q] = rpc[q]
           /\ left'[q] = left[q] /\ found'[q] = found[q]
  PROVE  /\ SearchOf' = [SearchOf EXCEPT ![r] = [step |-> StepOf(r)', since |-> asked'[r].since,
                                                 at |-> asked'[r].at]]
         /\ AnswerOf' = [AnswerOf EXCEPT ![r] = IF Done(r)' THEN found'[r] ELSE {}]
  <1>1. \A q \in Readers \ {r} : StepOf(q)' = StepOf(q) /\ Done(q)' = Done(q)
    BY DEF StepOf, Done
  <1>2. SearchOf' = [q \in Readers |-> [step |-> StepOf(q)', since |-> asked'[q].since,
                                        at |-> asked'[q].at]]
    BY DEF SearchOf
  <1>3. AnswerOf' = [q \in Readers |-> IF Done(q)' THEN found'[q] ELSE {}]
    BY DEF AnswerOf
  <1> QED
    BY <1>1, <1>2, <1>3 DEF SearchOf, AnswerOf

\* A search begins when its pin is stored.
LEMMA PinCalls ==
  ASSUME TypeOK, NEW r \in Readers, Pin(r)
  PROVE  Abstract!Call(r)
  <1>1. PICK at \in {0} \cup {s \in 1..committed : horizon <= s + 1} :
          asked' = [asked EXCEPT ![r] = [since |-> committed, at |-> at]]
    BY DEF Pin
  <1>2. rpc[r] = "idle" /\ rpc' = [rpc EXCEPT ![r] = "pinned"] /\ found' = found /\ left' = left
    BY DEF Pin
  <1>3. rpc'[r] = "pinned" /\ asked'[r] = [since |-> committed, at |-> at]
    BY <1>1, <1>2 DEF TypeOK, ReaderTypes
  <1>4. StepOf(r) = "idle" /\ StepOf(r)' = "called" /\ ~Done(r) /\ ~Done(r)'
    BY <1>2, <1>3 DEF StepOf, Done
  <1>5. /\ SearchOf' = [SearchOf EXCEPT ![r] = [step |-> StepOf(r)', since |-> asked'[r].since,
                                                at |-> asked'[r].at]]
        /\ AnswerOf' = [AnswerOf EXCEPT ![r] = IF Done(r)' THEN found'[r] ELSE {}]
        /\ UNCHANGED <<committed, history>>
    BY OthersKept, OneSearch DEF Reader
  <1>6. SearchOf' = [SearchOf EXCEPT ![r] = [step |-> "called", since |-> committed, at |-> at]]
    BY <1>3, <1>4, <1>5
  <1>7. AnswerOf' = AnswerOf
    BY <1>4, <1>5 DEF AnswerOf
  <1>8. SearchOf[r].step = "idle"
    BY <1>4 DEF SearchOf
  <1>9. at \in 0..committed
    BY <1>1 DEF TypeOK, SharedTypes
  <1> QED
    BY <1>5, <1>6, <1>7, <1>8, <1>9 DEF Abstract!Call, SearchOf, StepOf, AnswerOf

\* A search that has scanned the last of its pages answers as of its snapshot.
LEMMA LastPageAnswers ==
  ASSUME TypeOK, TypeOK', SlotInv', AnswerInv', NEW r \in Readers, Reader(r),
         asked'[r] = asked[r], StepOf(r) = "called", Done(r)'
  PROVE  Abstract!Answer(r)
  <1>1. rpc'[r] = "scan" /\ left'[r] = {} /\ StepOf(r)' = "answered" /\ ~Done(r)
    BY DEF Done, StepOf
  <1>2. /\ SearchOf' = [SearchOf EXCEPT ![r] = [step |-> StepOf(r)', since |-> asked'[r].since,
                                                at |-> asked'[r].at]]
        /\ AnswerOf' = [AnswerOf EXCEPT ![r] = IF Done(r)' THEN found'[r] ELSE {}]
        /\ UNCHANGED <<committed, history>>
    BY OthersKept, OneSearch
  <1>3. found'[r] = Abstract!AsOf(history, snap'[r])
    <2>1. (Abstract!AsOf(history, snap[r]) = found[r] \cup Seen(left[r], snap[r]))'
      BY <1>1 DEF AnswerInv, Collected
    <2>2. Seen(left[r], snap[r])' = {}
      BY <1>1 DEF Seen, Cells
    <2>3. Abstract!AsOf(history, snap[r])' = Abstract!AsOf(history, snap'[r])
      BY <1>2 DEF Abstract!AsOf
    <2> QED
      BY <2>1, <2>2, <2>3
  <1>4. snap'[r] \in IF asked[r].at = 0 THEN asked[r].since..committed ELSE {asked[r].at}
    <2>1. /\ snap'[r] \in Nat /\ asked'[r].since \in Nat /\ committed' \in Nat
          /\ snap'[r] <= committed'
      BY <1>1 DEF TypeOK, ReaderTypes, SharedTypes, SlotInv, Snapshots
    <2>2. IF asked'[r].at = 0 THEN asked'[r].since <= snap'[r] ELSE snap'[r] = asked'[r].at
      BY <1>1 DEF AnswerInv, Asked
    <2> QED
      BY <1>2, <2>1, <2>2
  <1>5. AnswerOf' = [AnswerOf EXCEPT ![r] = Abstract!AsOf(history, snap'[r])]
    BY <1>2, <1>3
  <1>6. SearchOf' = [SearchOf EXCEPT ![r].step = "answered"]
    BY <1>1, <1>2 DEF SearchOf
  <1>7. SearchOf[r].step = "called" /\ SearchOf[r].at = asked[r].at /\ SearchOf[r].since = asked[r].since
    BY DEF SearchOf
  <1>8. \E ts \in IF SearchOf[r].at = 0 THEN SearchOf[r].since..committed ELSE {SearchOf[r].at} :
          AnswerOf' = [AnswerOf EXCEPT ![r] = Abstract!AsOf(history, ts)]
    BY <1>4, <1>5, <1>7
  <1> QED
    BY <1>2, <1>6, <1>7, <1>8 DEF Abstract!Answer, SearchOf, StepOf, AnswerOf

\* A search is over when its pin is released.
LEMMA UnpinReturns ==
  ASSUME TypeOK, NEW r \in Readers, Unpin(r)
  PROVE  Abstract!Return(r)
  <1>1. /\ Done(r) /\ rpc' = [rpc EXCEPT ![r] = "idle"]
        /\ asked' = [asked EXCEPT ![r] = NotAsked]
    BY DEF Unpin
  <1>2. rpc'[r] = "idle" /\ asked'[r] = NotAsked
    BY <1>1 DEF TypeOK, ReaderTypes
  <1>3. StepOf(r) = "answered" /\ StepOf(r)' = "idle" /\ ~Done(r)'
    BY <1>1, <1>2 DEF StepOf, Done
  <1>4. /\ SearchOf' = [SearchOf EXCEPT ![r] = [step |-> StepOf(r)', since |-> asked'[r].since,
                                                at |-> asked'[r].at]]
        /\ AnswerOf' = [AnswerOf EXCEPT ![r] = IF Done(r)' THEN found'[r] ELSE {}]
        /\ UNCHANGED <<committed, history>>
    BY OthersKept, OneSearch DEF Reader
  <1>5. SearchOf' = [SearchOf EXCEPT ![r] = Abstract!Idle] /\ AnswerOf' = [AnswerOf EXCEPT ![r] = {}]
    BY <1>2, <1>3, <1>4 DEF Abstract!Idle, NotAsked
  <1>6. SearchOf[r].step = "answered"
    BY <1>3 DEF SearchOf
  <1> QED
    BY <1>4, <1>5, <1>6 DEF Abstract!Return, SearchOf, StepOf, AnswerOf

\* The other steps of a search it does not see.
LEMMA SearchesMap ==
  ASSUME TypeOK, TypeOK', SlotInv', AnswerInv', NEW r \in Readers, Reader(r)
  PROVE  (\E q \in Readers : Abstract!Call(q) \/ Abstract!Answer(q) \/ Abstract!Return(q))
         \/ UNCHANGED Abstract!vars
  <1>1. CASE Pin(r)
    BY <1>1, PinCalls
  <1>2. CASE Unpin(r)
    BY <1>2, UnpinReturns
  <1>3. CASE Resolve(r) \/ Refine(r) \/ Drain(r) \/ LoadDirectory(r) \/ LoadImage(r) \/ Scan(r)
    <2>1. asked' = asked /\ UNCHANGED <<committed, history>>
      BY <1>3, OthersKept DEF Resolve, Refine, Drain, LoadDirectory, LoadImage, Scan
    <2>2. \A q \in Readers \ {r} : /\ StepOf(q)' = StepOf(q) /\ Done(q)' = Done(q)
                                   /\ found'[q] = found[q]
      BY OthersKept DEF StepOf, Done
    <2>3. CASE Drain(r)
      <3>1. UNCHANGED <<rpc, left, found>>
        BY <2>3 DEF Drain
      <3> QED
        BY <2>1, <3>1, Stutters DEF StepOf, Done
    <2>4. CASE ~Drain(r)
      <3>1. /\ rpc[r] \in {"pinned", "resolved", "refined", "scan", "held"} /\ ~Done(r)
            /\ rpc'[r] \in {"resolved", "refined", "scan", "held"}
        BY <1>3, <2>4
        DEF Resolve, Refine, LoadDirectory, LoadImage, Scan, Done, TypeOK, ReaderTypes
      <3>2. StepOf(r) = "called" /\ asked'[r] = asked[r]
        BY <2>1, <3>1 DEF StepOf
      <3>3. CASE Done(r)'
        BY <3>2, <3>3, LastPageAnswers
      <3>4. CASE ~Done(r)'
        <4>1. StepOf(r)' = StepOf(r)
          BY <3>1, <3>2, <3>4 DEF StepOf
        <4> QED
          BY <2>1, <2>2, <3>1, <3>4, <4>1, Stutters
      <3> QED
        BY <3>3, <3>4
    <2> QED
      BY <2>3, <2>4
  <1> QED
    BY <1>1, <1>2, <1>3 DEF Reader

\* The initial states of the index are initial states of SnapshotStore.
LEMMA InitMaps == Init => Abstract!Init
  <1> SUFFICES ASSUME Init PROVE Abstract!Init
    OBVIOUS
  <1>1. /\ committed = 0 /\ history = {}
        /\ \A r \in Readers : rpc[r] = "idle" /\ asked[r] = NotAsked
    BY DEF Init
  <1> QED
    BY <1>1 DEF Abstract!Init, Abstract!Idle, NotAsked, Done

\* Every step of the index is a step of SnapshotStore, or one it does not see.
LEMMA StepMaps ==
  ASSUME TypeOK, SlotInv, BookInv, AnswerInv, TypeOK', SlotInv', AnswerInv', [Next]_vars
  PROVE  [Abstract!Next]_(Abstract!vars)
  <1>1. CASE Commit
    BY <1>1, CommitWrites DEF Abstract!Next
  <1>2. CASE Writer /\ ~Commit
    <2>1. UNCHANGED <<committed, history, reader_vars>>
      <3>1. CASE BeginInsert \/ BeginDelete \/ BeginBatch \/ BeginChanges
        <4>1. \E kind, ids, deletes, ts : Begin(kind, ids, deletes, ts)
          BY <3>1 DEF BeginInsert, BeginDelete, BeginBatch, BeginChanges
        <4> QED
          BY <4>1 DEF Begin
      <3>2. CASE Place \/ PlaceMore
        <4>1. \E p, img, rows : Fill(p, img, rows)
          BY <3>2 DEF Place, PlaceMore
        <4> QED
          BY <4>1 DEF Fill
      <3>3. CASE StartBlock \/ RefuseBlock \/ StopMerging \/ Throw
        BY <3>3 DEF StartBlock, RefuseBlock, StopMerging, Throw, writer_shared
      <3>4. CASE Close \/ FirstPage \/ Publish \/ List
        BY <3>4 DEF Close, FirstPage, Publish, List
      <3>5. CASE Split
        BY <3>5 DEF Split
      <3>6. CASE MergeMany
        BY <3>6 DEF MergeMany
      <3>7. CASE Vacuum
        BY <3>7 DEF Vacuum
      <3>8. CASE Reclaim \/ Consolidate
        BY <3>8 DEF Reclaim, Consolidate
      <3> QED
        BY <1>2, <3>1, <3>2, <3>3, <3>4, <3>5, <3>6, <3>7, <3>8 DEF Writer
    <2> QED
      BY <2>1, Stutters DEF reader_vars, StepOf, Done
  <1>3. CASE \E r \in Readers : Reader(r)
    BY <1>3, SearchesMap DEF Abstract!Next
  <1>4. CASE UNCHANGED vars
    BY <1>4, Stutters DEF vars, writer_shared, reader_vars, StepOf, Done
  <1> QED
    BY <1>1, <1>2, <1>3, <1>4 DEF Next

\* The index implements SnapshotStore: every write call, with all its splits and
\* merges, takes effect in the one step that commits it, and every search, page by
\* page among them, answers as of one timestamp committed between its call and its
\* return, or as of the one it asked for.
THEOREM IndexImplements ==
  ASSUME Undisturbed
  PROVE  Spec => Implements
  <1>1. Init => Abstract!Init
    BY InitMaps
  <1>2. /\ TypeOK /\ SlotInv /\ BookInv /\ AnswerInv
        /\ (TypeOK /\ SlotInv /\ BookInv /\ AnswerInv)'
        /\ [Next]_vars
        => [Abstract!Next]_(Abstract!vars)
    BY StepMaps
  <1> QED
    BY <1>1, <1>2, AnswersKept, PTL DEF Spec, Implements, Abstract!Spec

=============================================================================
