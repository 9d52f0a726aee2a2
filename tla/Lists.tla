------------------------------- MODULE Lists -------------------------------
(* The items of a user's lists and their order: AddListItem, RemoveListItem,
   ReorderListItems and DeleteList of lists_controller.go.  An addition looks
   for the list, then for the last position, then inserts, in statements of
   their own, while requests of other tabs and devices run.  Reordering writes
   all positions in one transaction, with what the browser that asks for it
   knew of the list when it sent the request. *)
EXTENDS Naturals, Sequences, FiniteSets

CONSTANTS
  ListIds,     \* lists that have been created
  Shows,      \* movies and series
  Edits,       \* bound: requests at one time
  MaxPosition, \* bound: positions given out
  Nowhere      \* the position of a title that is not in the list

ASSUME ListsAssumption == IsFiniteSet(Shows) /\ MaxPosition \in Nat /\ Nowhere \notin Nat

VARIABLES
  lists,     \* the lists there are
  position,  \* ListIds -> Shows -> the position of its listItem
  wished,    \* ListIds -> the order last asked for, without what was removed since:
             \*            the pairs of items of which the first was to come first
  mixed,     \* lists in which two items may have got one position
  edit       \* Edits -> an AddListItem, RemoveListItem or ReorderListItems

listsVars == <<lists, position, wished, mixed, edit>>

NoEdit == [at |-> "none", list |-> "none", title |-> "none", order |-> <<>>,
           next |-> 0, stale |-> FALSE]

ListsInit ==
  /\ lists = ListIds
  /\ position = [l \in ListIds |-> [t \in Shows |-> Nowhere]]
  /\ wished = [l \in ListIds |-> {}]
  /\ mixed = {}
  /\ edit = [e \in Edits |-> NoEdit]

Items(l) == {t \in Shows : position[l][t] # Nowhere}

Positions(l) == {position[l][t] : t \in Items(l)}

ToShows(order) == {order[i] : i \in DOMAIN order}

(* Orders a browser can send: of titles it has seen in the list, each once. *)
Orders == UNION {{o \in [1 .. n -> Shows] : \A i, j \in 1 .. n : o[i] = o[j] => i = j} :
                 n \in 1 .. Cardinality(Shows)}

(* The order asked for, of the items that are in the list. *)
Asked(l, order) ==
  {p \in Items(l) \X Items(l) :
     \E i, j \in DOMAIN order : i < j /\ order[i] = p[1] /\ order[j] = p[2]}

Without(pairs, t) == {p \in pairs : p[1] # t /\ p[2] # t}

(* The items of the list change: an addition that has its position is stale. *)
EndEdit(e, l) ==
  edit' = [f \in Edits |->
             IF f = e THEN NoEdit
             ELSE IF edit[f].at = "insert" /\ edit[f].list = l THEN [edit[f] EXCEPT !.stale = TRUE]
             ELSE edit[f]]

Reject(e) == edit' = [edit EXCEPT ![e] = NoEdit]

-----------------------------------------------------------------------------
(* The owner's check of all three; a list of somebody else's is refused. *)
Check(e, l) ==
  /\ edit[e].at = "none" /\ l \in lists
  /\ \/ \E t \in Shows, at \in {"max", "remove"} :
          edit' = [edit EXCEPT ![e] = [NoEdit EXCEPT !.at = at, !.list = l, !.title = t]]
     \/ \E o \in Orders :
          edit' = [edit EXCEPT ![e] = [NoEdit EXCEPT !.at = "reorder", !.list = l, !.order = o]]
  /\ UNCHANGED <<lists, position, wished, mixed>>

NextPositionByCount(l) == Cardinality(Items(l))

(* position = max(position) + 1 *)
NextPosition(l) ==
  IF Items(l) = {} THEN 0
  ELSE (CHOOSE p \in Positions(l) : \A q \in Positions(l) : q <= p) + 1

ReadMax(e) ==
  /\ edit[e].at = "max"
  /\ NextPosition(edit[e].list) <= MaxPosition
  /\ edit' = [edit EXCEPT ![e].at = "insert", ![e].next = NextPosition(edit[e].list)]
  /\ UNCHANGED <<lists, position, wished, mixed>>

PositionAfterReplace(l, t, p) == p

(* INSERT OR IGNORE: a title that is in the list stays where it is, one whose
   list has gone is refused by the foreign key. *)
PositionAfterAdd(l, t, p) == IF position[l][t] = Nowhere THEN p ELSE position[l][t]

Insert(e) ==
  /\ edit[e].at = "insert"
  /\ LET l == edit[e].list
         t == edit[e].title
     IN IF l \in lists
        THEN /\ position' = [position EXCEPT ![l][t] = PositionAfterAdd(l, t, edit[e].next)]
             /\ mixed' = IF edit[e].stale THEN mixed \union {l} ELSE mixed
             /\ EndEdit(e, l)
        ELSE Reject(e) /\ UNCHANGED <<position, mixed>>
  /\ UNCHANGED <<lists, wished>>

Remove(e) ==
  /\ edit[e].at = "remove"
  /\ LET l == edit[e].list
         t == edit[e].title
     IN /\ position' = [position EXCEPT ![l][t] = Nowhere]
        /\ wished' = [wished EXCEPT ![l] = Without(@, t)]
        /\ EndEdit(e, l)
  /\ UNCHANGED <<lists, mixed>>

PositionInFromBefore(order, t) == (CHOOSE i \in DOMAIN order : order[i] = t) - 2

(* Positions 0 .. N-1 for the titles sent; those that are not in the list any
   more have no row to update, those the browser did not know stay. *)
PositionIn(order, t) == (CHOOSE i \in DOMAIN order : order[i] = t) - 1

Reordered(l, order) ==
  [t \in Shows |-> IF t \in Items(l) /\ t \in ToShows(order)
                    THEN PositionIn(order, t) ELSE position[l][t]]

Reorder(e) ==
  /\ edit[e].at = "reorder"
  /\ LET l == edit[e].list
         order == edit[e].order
     IN /\ position' = [position EXCEPT ![l] = Reordered(l, order)]
        /\ wished' = [wished EXCEPT ![l] = Asked(l, order)]
        /\ mixed' = IF Items(l) \subseteq ToShows(order) THEN mixed \ {l} ELSE mixed \union {l}
        /\ EndEdit(e, l)
  /\ UNCHANGED lists

(* One transaction that begins with a write: the items of the list go, and the
   list too if it is the user's own. *)
DeleteList(l, owner) ==
  /\ position' = [position EXCEPT ![l] = [t \in Shows |-> Nowhere]]
  /\ wished' = [wished EXCEPT ![l] = {}]
  /\ mixed' = mixed \ {l}
  /\ lists' = IF owner THEN lists \ {l} ELSE lists
  /\ edit' = [f \in Edits |-> IF edit[f].at = "insert" /\ edit[f].list = l
                              THEN [edit[f] EXCEPT !.stale = TRUE] ELSE edit[f]]

ListsNext ==
  \/ \E e \in Edits : \/ ReadMax(e) \/ Insert(e) \/ Remove(e) \/ Reorder(e)
                      \/ \E l \in ListIds : Check(e, l)
  \/ \E l \in ListIds, owner \in BOOLEAN : DeleteList(l, owner)

ListsSpec == ListsInit /\ [][ListsNext]_listsVars

-----------------------------------------------------------------------------
(* Properties *)

ListsTypeOK ==
  /\ lists \subseteq ListIds
  /\ position \in [ListIds -> [Shows -> Nat \union {Nowhere}]]
  /\ wished \in [ListIds -> SUBSET (Shows \X Shows)]
  /\ mixed \subseteq ListIds

(* The items of a list have positions of their own, so that the order shown is
   the order kept, unless an addition came between the two halves of another
   one or a browser reordered a list of which it had not seen all. *)
OwnPosition ==
  \A l \in ListIds, t, u \in Shows :
    l \notin mixed /\ t # u /\ t \in Items(l) => position[l][t] # position[l][u]

(* The order a user gave a list stays as long as the items do, whatever is
   added to the list, removed from it, or added again meanwhile. *)
OrderStays ==
  \A l \in ListIds : \A p \in wished[l] : position[l][p[1]] < position[l][p[2]]
=============================================================================
