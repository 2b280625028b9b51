----------------------------- MODULE PageImages -----------------------------
(***************************************************************************)
(* A page image is the immutable value a reader loads from a page          *)
(* descriptor: one cell per slot, a cell being Free or a version of an id. *)
(* The vector and the screening code of a slot are NOT in the image: they  *)
(* live in the page's store, which every copy-on-write clone of the page   *)
(* shares.  A version carries `vec', the name of the payload its writer    *)
(* put there (the timestamp of the call and the row's place in it), so     *)
(* that the image and the store can be compared.                           *)
(*                                                                         *)
(* Slots are interchangeable: the code takes the first free one, and no    *)
(* property depends on which slot that is.                                 *)
(***************************************************************************)
EXTENDS Naturals, FiniteSets

CONSTANTS Ids,      \* caller ids
          Slots,    \* the slots of one page: page_capacity of them
          Free,     \* the content of an unoccupied slot
          MAX_TS    \* the end of a version that is still open

Vec == Nat \X Nat
Version == [id : Ids, begin : Nat, end : Nat, vec : Vec]
Image == [Slots -> Version \cup {Free}]

ASSUME SlotsAssumption == IsFiniteSet(Slots) /\ Slots # {}
ASSUME FreeAssumption == Free \notin Version
ASSUME MaxTsAssumption == MAX_TS \in Nat

EmptyImage == [s \in Slots |-> Free]

Occupied(img) == {s \in Slots : img[s] # Free}
FreeSlots(img) == {s \in Slots : img[s] = Free}

\* What a reader at snapshot `snap' sees of a cell.
Visible(cell, snap) == cell # Free /\ cell.begin <= snap /\ snap < cell.end

\* The cell that holds the current version of `id', if it is in this slot.
IsOpen(cell, id) == cell # Free /\ cell.id = id /\ cell.end = MAX_TS

\* Mutant of Closed: the version ends one timestamp early.
ClosedEarly(img, s, ts) == [img EXCEPT ![s] = [@ EXCEPT !.end = ts - 1]]

\* The image with the version in `s' closed at `ts'.
Closed(img, s, ts) == [img EXCEPT ![s] = [@ EXCEPT !.end = ts]]

\* The image with version `v' in the free slot `s'.
Filled(img, s, v) == [img EXCEPT ![s] = v]

\* Begin and end of a version: what vacuum matches cells by.
Stamp(cell) == <<cell.begin, cell.end>>
Matches(cell, stamps) == cell # Free /\ Stamp(cell) \in stamps

\* The image without the versions that carry one of `stamps'.
Cleared(img, stamps) ==
  [s \in Slots |-> IF Matches(img[s], stamps) THEN Free ELSE img[s]]

\* Mutant of Half: a split that copies the open versions only.
OpenHalf(img, S) ==
  [s \in Slots |-> IF s \in S /\ img[s].end = MAX_TS THEN img[s] ELSE Free]

\* The image restricted to the slots of S: one half of a split.
Half(img, S) == [s \in Slots |-> IF s \in S THEN img[s] ELSE Free]

\* The ways to pack a set of cells, each <<page, slot>>, into one page.
Packings(cells) ==
  {f \in [cells -> Slots] : \A c, d \in cells : f[c] = f[d] => c = d}

=============================================================================
