---------------------------- MODULE SlidingWindow ----------------------------
(***************************************************************************)
(* What CircularBuffer of EventPi.Abstractions promises: it holds the last *)
(* Capacity items that were added and not removed, oldest first.  Items    *)
(* are represented by the order of their addition, so that the window is   *)
(* the interval first .. next - 1.                                         *)
(***************************************************************************)
EXTENDS Integers

CONSTANTS Capacity, None   \* None: what Remove returns when there is nothing

VARIABLES
  first,    \* the oldest item held
  next,     \* the item that will be added next
  dropped,  \* what the last AddLast returned: whether an item fell out
  result    \* what the last Remove or Head returned

vars == <<first, next, dropped, result>>

Init == first = 0 /\ next = 0 /\ dropped = FALSE /\ result = None

Full == next - first = Capacity

\* The new item pushes the oldest one out of a full window.
AddLast ==
  /\ next' = next + 1
  /\ first' = IF Full THEN first + 1 ELSE first
  /\ dropped' = Full
  /\ UNCHANGED result

Remove ==
  \/ /\ first < next
     /\ first' = first + 1
     /\ result' = first
     /\ UNCHANGED <<next, dropped>>
  \/ /\ first = next
     /\ result' = None
     /\ UNCHANGED <<first, next, dropped>>

\* Looking at the oldest item; of an empty window nothing is promised.
Head ==
  /\ first < next => result' = first
  /\ UNCHANGED <<first, next, dropped>>

Next == AddLast \/ Remove \/ Head

Spec == Init /\ [][Next]_vars
=============================================================================
