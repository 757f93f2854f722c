------------------------------ MODULE Nesting ------------------------------
(***************************************************************************)
(* The cutting plan of one group of parts, those of one material and one   *)
(* thickness (MFG-0012): the smallest stock sheet that takes the longest   *)
(* and the widest part is chosen, and the parts, longest first, are laid   *)
(* side by side on shelves across it, a new sheet for every full one.      *)
(*                                                                         *)
(*   src/internal/engine/manufacturing/nest.go   Nest, pickSheet, nestGroup *)
(*   src/internal/engine/manufacturing/bom.go    buildBOM                   *)
(*   src/internal/domain/manufacturing/nesting.go NestingResult.Validate    *)
(*                                                                         *)
(* The groups are planned independently of each other, in the slots of the *)
(* scheduler (module Scheduler).  Lengths are whole millimetres.           *)
(***************************************************************************)
EXTENDS Integers, Sequences, Functions, FiniteSetsExt

CONSTANTS
    PartLists,   \* groups of parts: sequences of [kind, len, wid]
    Catalogue,   \* the stock sheets of the material, in the registry's order
    KerfWidth    \* the kerf, what a cut takes away

Part == [kind : STRING, len : Nat \ {0}, wid : Nat \ {0}]
StockSheet == [len : Nat \ {0}, wid : Nat \ {0}]

\* A group is begun with its first part.
ASSUME PartsAssumption == PartLists \subseteq Seq(Part) \ {<<>>}
\* Of two sheets of a material one contains the other.
ASSUME CatalogueAssumption ==
    /\ Catalogue \in Seq(StockSheet)
    /\ \A j, k \in DOMAIN Catalogue :
         \/ Catalogue[j].len <= Catalogue[k].len /\ Catalogue[j].wid <= Catalogue[k].wid
         \/ Catalogue[k].len <= Catalogue[j].len /\ Catalogue[k].wid <= Catalogue[j].wid
ASSUME KerfAssumption == KerfWidth \in Nat

VARIABLES
    parts,    \* the parts of the group
    stage,    \* "pick", "nest", "done", or "refused" (FeasibilityError)
    sheet,    \* the stock sheet of the group
    place,    \* part -> [sheet, x, y]; sheet 0 until it is placed
    sheets,   \* number of sheets begun
    open,     \* the shelves of the current sheet: [y, used, height]
    curY      \* where its next shelf begins

nestVars == <<parts, stage, sheet, place, sheets, open, curY>>

Parts == DOMAIN parts
Waiting == {i \in Parts : place[i].sheet = 0}
NoSheet == [len |-> 0, wid |-> 0]

\* What a part takes of a shelf.
EffLen(i) == parts[i].len + KerfWidth
EffWid(i) == parts[i].wid + KerfWidth

\* buildBOM: parts of one kind and one outline become one item of the cutting
\* list, under the number of the first, and so many copies of it are cut.
Item(i) ==
    CHOOSE j \in Parts : /\ parts[j] = parts[i]
                         /\ \A k \in Parts : parts[k] = parts[i] => j <= k

\* Longest first, then widest, then by number; copies as they come.
Precedes(i, j) ==
    LET a == parts[i]
        b == parts[j]
    IN  \/ a.len > b.len
        \/ a.len = b.len /\ a.wid > b.wid
        \/ a.len = b.len /\ a.wid = b.wid /\ Item(i) < Item(j)
        \/ a.len = b.len /\ a.wid = b.wid /\ Item(i) = Item(j) /\ i < j

IsNext(i) == i \in Waiting /\ \A j \in Waiting \ {i} : Precedes(i, j)

-----------------------------------------------------------------------------
NestInit ==
    /\ parts \in PartLists /\ stage = "pick" /\ sheet = NoSheet
    /\ place = [i \in Parts |-> [sheet |-> 0, x |-> 0, y |-> 0]]
    /\ sheets = 0 /\ open = <<>> /\ curY = 0

\* Mutant of Takes: the cut along the edge is forgotten.
TakesTight(s) == \A i \in Parts : parts[i].len <= s.len /\ parts[i].wid <= s.wid

\* Mutant of Takes: a cut along both edges.
TakesTwice(s) == \A i \in Parts : EffLen(i) + KerfWidth <= s.len /\ EffWid(i) + KerfWidth <= s.wid

\* A sheet takes a group when it takes its longest and its widest part.
Takes(s) == \A i \in Parts : EffLen(i) <= s.len /\ EffWid(i) <= s.wid

\* Mutant of Smallest: the last sheet that takes the group is used.
SmallestLast(k) ==
    Takes(Catalogue[k]) /\ \A j \in DOMAIN Catalogue : Takes(Catalogue[j]) => j <= k

\* The smallest by area, the first of equal ones.
Smallest(k) ==
    LET area(j) == Catalogue[j].len * Catalogue[j].wid
    IN  /\ Takes(Catalogue[k])
        /\ \A j \in DOMAIN Catalogue : Takes(Catalogue[j]) =>
             area(k) < area(j) \/ (area(k) = area(j) /\ k <= j)

\* pickSheet: a group no sheet takes is refused, and the whole plan with it.
Pick ==
    /\ stage = "pick"
    /\ \/ /\ \A k \in DOMAIN Catalogue : ~Takes(Catalogue[k])
          /\ stage' = "refused" /\ UNCHANGED <<sheet, sheets>>
       \/ \E k \in DOMAIN Catalogue :
            Smallest(k) /\ sheet' = Catalogue[k] /\ stage' = "nest" /\ sheets' = 1
    /\ UNCHANGED <<parts, place, open, curY>>

\* Mutant of HasRoom: only the length is compared.
HasRoomAlong(k, i) == open[k].used + EffLen(i) <= sheet.len
HasRoom(k, i) == open[k].used + EffLen(i) <= sheet.len /\ EffWid(i) <= open[k].height

Put(i, n, x, y) == place' = [place EXCEPT ![i] = [sheet |-> n, x |-> x, y |-> y]]

\* The first open shelf with room takes the part.
PlaceOnShelf(i) ==
    /\ stage = "nest" /\ IsNext(i)
    /\ \E k \in DOMAIN open :
         /\ HasRoom(k, i) /\ \A j \in 1..(k - 1) : ~HasRoom(j, i)
         /\ Put(i, sheets, open[k].used, open[k].y)
         /\ open' = [open EXCEPT ![k].used = @ + EffLen(i)]
    /\ UNCHANGED <<parts, stage, sheet, sheets, curY>>

ShelfOf(i, y) == [y |-> y, used |-> EffLen(i), height |-> EffWid(i)]

\* No shelf has room: the next one is opened above the others.
OpenShelf(i) ==
    /\ stage = "nest" /\ IsNext(i) /\ \A k \in DOMAIN open : ~HasRoom(k, i)
    /\ curY + EffWid(i) <= sheet.wid
    /\ Put(i, sheets, 0, curY)
    /\ open' = Append(open, ShelfOf(i, curY)) /\ curY' = curY + EffWid(i)
    /\ UNCHANGED <<parts, stage, sheet, sheets>>

\* Nor is there room for a shelf: the sheet is finished and a new one begun.
OpenSheet(i) ==
    /\ stage = "nest" /\ IsNext(i) /\ \A k \in DOMAIN open : ~HasRoom(k, i)
    /\ curY + EffWid(i) > sheet.wid
    /\ sheets' = sheets + 1
    /\ Put(i, sheets + 1, 0, 0)
    /\ open' = <<ShelfOf(i, 0)>> /\ curY' = EffWid(i)
    /\ UNCHANGED <<parts, stage, sheet>>

Finish ==
    /\ stage = "nest" /\ Waiting = {}
    /\ stage' = "done"
    /\ UNCHANGED <<parts, sheet, place, sheets, open, curY>>

NestNext ==
    \/ Pick \/ Finish
    \/ \E i \in Parts : PlaceOnShelf(i) \/ OpenShelf(i) \/ OpenSheet(i)

NestSpec == NestInit /\ [][NestNext]_nestVars

-----------------------------------------------------------------------------
(* Properties.                                                             *)

Placed == {i \in Parts : place[i].sheet # 0}

\* The shape of the state; the shelves never climb over the edge of the sheet.
NestTypeOK ==
    /\ parts \in PartLists /\ stage \in {"pick", "nest", "done", "refused"}
    /\ sheet \in [len : Nat, wid : Nat] /\ sheets \in Nat /\ curY \in Nat
    /\ place \in [Parts -> [sheet : Nat, x : Nat, y : Nat]]
    /\ open \in Seq([y : Nat, used : Nat, height : Nat])
    /\ curY <= sheet.wid

\* Every part lies within its sheet, with the cut on its far sides, on a sheet
\* that has been begun (nesting.go: a part may not exceed the sheet).
InsideSheet ==
    \A i \in Placed :
        /\ place[i].sheet \in 1..sheets
        /\ place[i].x + EffLen(i) <= sheet.len
        /\ place[i].y + EffWid(i) <= sheet.wid

\* Two parts of one sheet never overlap, and the saw passes between them:
\* Validate looks at each part alone and would let them.
NoOverlap ==
    \A i, j \in Placed : i # j /\ place[i].sheet = place[j].sheet =>
        \/ place[i].x + EffLen(i) <= place[j].x \/ place[j].x + EffLen(j) <= place[i].x
        \/ place[i].y + EffWid(i) <= place[j].y \/ place[j].y + EffWid(j) <= place[i].y

\* Every plan, also one that is not finished, can be cut from its sheets.
PlanCanBeCut == NestTypeOK /\ InsideSheet /\ NoOverlap

\* No sheet is paid for that carries no part.
NoEmptySheet == stage \in {"nest", "done"} /\ Waiting = {} =>
    \A n \in 1..sheets : \E i \in Parts : place[i].sheet = n

\* A plan is refused only if one of its parts fits no stock sheet: asking for a
\* sheet that takes the longest and the widest part at once refuses no more,
\* because each sheet of a catalogue contains the smaller ones.
RefusedForAPart ==
    stage = "refused" =>
        \E i \in Parts : \A k \in DOMAIN Catalogue :
            EffLen(i) > Catalogue[k].len \/ EffWid(i) > Catalogue[k].wid

\* The areas of the finished plan: the parts cover no more than the sheets, so
\* that the waste PrepareCost prices is not negative, and no smaller stock
\* sheet would have taken the group.
AreasAreConsistent ==
    stage = "done" =>
        /\ SumFunctionOnSet([i \in Parts |-> parts[i].len * parts[i].wid], Parts)
              <= sheets * sheet.len * sheet.wid
        /\ \A k \in DOMAIN Catalogue :
             Takes(Catalogue[k]) => sheet.len * sheet.wid <= Catalogue[k].len * Catalogue[k].wid

\* A plan is refused only for a part that cannot be cut, and pays for no sheet and no
\* area that the parts do not need.
PlanIsEconomical == NoEmptySheet /\ RefusedForAPart /\ AreasAreConsistent
=============================================================================
