---------------------------- MODULE MoveOrderProofs ----------------------------
(* No file of a move overtakes a link, however many moves, workers and     *)
(* items there are.                                                        *)
EXTENDS MoveOrder, TLAPS

(* Files are queued in the step that ends the primary input, and links only*)
(* by an input that is still walking.                                      *)
Ordered(m) ==
  /\ phase[m] # "gone" => todo[m]["file"] = 0 /\ doing[m]["file"] = 0
  /\ phase[m] \in {"queued", "walk"} => LinksLeft(m) = 0
  /\ todo[m]["file"] + doing[m]["file"] > 0 => LinksLeft(m) = 0

OrderInv == TypeOK /\ \A m \in Moves : Ordered(m)

LEMMA OrderInit == Init => OrderInv
BY DEF Init, OrderInv, TypeOK, Ordered, LinksLeft, None, ItemKinds

(* The other moves are as they were. *)
Untouched(m) ==
  phase'[m] = phase[m] /\ todo'[m] = todo[m] /\ doing'[m] = doing[m]

LEMMA OrderStep == OrderInv /\ [Next]_vars => OrderInv'
<1> SUFFICES ASSUME OrderInv, [Next]_vars PROVE OrderInv'
  OBVIOUS
<1> USE DEF OrderInv, TypeOK, ItemKinds
<1>1. ASSUME NEW m \in Moves, TypeOK', Ordered(m)', \A n \in Moves \ {m} : Untouched(n)
      PROVE  OrderInv'
  BY <1>1 DEF Untouched, Ordered, LinksLeft
<1>2. ASSUME NEW m \in Moves, Receive(m) PROVE OrderInv'
  BY <1>1, <1>2 DEF Receive, Untouched, Ordered, LinksLeft
<1>3. ASSUME NEW m \in Moves, NEW k \in ItemKinds, Find(m, k) PROVE OrderInv'
  <2>1. CASE k = "loose"
    <3>1. /\ phase' = phase /\ held' = held /\ doing' = doing /\ canceled' = canceled
          /\ todo' = [todo EXCEPT ![m]["loose"] = @ + 1]
      BY <1>3, <2>1 DEF Find
    <3>2. TypeOK' /\ todo'[m]["file"] = todo[m]["file"] /\ todo'[m]["link"] = todo[m]["link"]
      BY <3>1
    <3>3. Ordered(m)'
      BY <3>1, <3>2 DEF Ordered, LinksLeft
    <3>4. \A n \in Moves \ {m} : Untouched(n)
      BY <3>1 DEF Untouched
    <3> QED
      BY <1>1, <3>2, <3>3, <3>4
  <2>2. CASE k # "loose"
    BY <1>1, <1>3, <2>2 DEF Find, Untouched, Ordered, LinksLeft
  <2> QED
    BY <2>1, <2>2
<1>4. ASSUME NEW m \in Moves, Abort(m) PROVE OrderInv'
  BY <1>1, <1>4 DEF Abort, Untouched, Ordered, LinksLeft
<1>5. ASSUME NEW m \in Moves, QueueLinks(m) PROVE OrderInv'
  BY <1>1, <1>5 DEF QueueLinks, Untouched, Ordered, LinksLeft
<1>6. ASSUME NEW m \in Moves, QueueFiles(m) PROVE OrderInv'
  BY <1>1, <1>6 DEF QueueFiles, Untouched, Ordered, LinksLeft
<1>7. ASSUME NEW m \in Moves, NEW k \in ItemKinds, ReceiveItem(m, k) PROVE OrderInv'
  BY <1>1, <1>7 DEF ReceiveItem, Untouched, Ordered, LinksLeft
<1>8. ASSUME NEW m \in Moves, NEW k \in ItemKinds, FinishItem(m, k) PROVE OrderInv'
  BY <1>1, <1>8 DEF FinishItem, Untouched, Ordered, LinksLeft
<1>9. ASSUME NEW m \in Moves, Cancel(m) PROVE OrderInv'
  BY <1>1, <1>9 DEF Cancel, Untouched, Ordered, LinksLeft
<1>10. ASSUME NEW m \in Moves, Drop(m) PROVE OrderInv'
  BY <1>1, <1>10 DEF Drop, Untouched, Ordered, LinksLeft, None
<1>11. CASE UNCHANGED vars
  BY <1>11 DEF vars, Ordered, LinksLeft
<1> QED
  BY <1>2, <1>3, <1>4, <1>5, <1>6, <1>7, <1>8, <1>9, <1>10, <1>11 DEF Next, WalkOn

(* A link is copied before any file of its move is touched.                *)
THEOREM LinksFirst == Spec => []LinksBeforeFiles
<1>1. OrderInv => LinksBeforeFiles
  BY DEF OrderInv, Ordered, LinksBeforeFiles
<1> QED
  BY OrderInit, OrderStep, <1>1, PTL DEF Spec
=============================================================================
