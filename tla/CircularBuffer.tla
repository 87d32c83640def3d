--------------------------- MODULE CircularBuffer ---------------------------
(***************************************************************************)
(* CircularBuffer of EventPi.Abstractions: an array, the indices of its    *)
(* oldest and its next item and the number of items held.  An item is      *)
(* represented by the order of its addition, 0, 1, 2, ...                  *)
(*                                                                         *)
(* GetEnumerator is an iterator: it copies _head and _count when it is     *)
(* first moved and reads the array lazily afterwards, with no check that   *)
(* the buffer was left alone.  The owner may add and remove between two    *)
(* moves, so that each move is an action of its own.                       *)
(***************************************************************************)
EXTENDS Integers

CONSTANTS
  Capacity,
  MaxAdded,   \* how many items are added (bounds the runs)
  None        \* default(T)

ASSUME CapacityAssumption == Capacity \in Nat \ {0}
ASSUME MaxAddedAssumption == MaxAdded \in Nat
ASSUME NoneAssumption == None \notin Int

VARIABLES
  buffer,   \* _buffer
  head,     \* _head
  tail,     \* _tail
  count,    \* _count
  added,    \* history: number of items added
  dropped,  \* what the last AddLast returned
  result,   \* what the last Remove or Head returned
  walk      \* the enumeration: where it began, its length, its position,
            \* the last item it yielded, and (history) its first item

ring == <<buffer, head, tail, count, added>>
bufferVars == <<ring, dropped, result, walk>>

Index == 0 .. Capacity - 1
Item == Nat \union {None}
Walk == [on: BOOLEAN, h: Index, c: 0 .. Capacity, i: 0 .. Capacity,
         yielded: Item, first: Nat]

BufferInit ==
  /\ buffer = [i \in Index |-> None]
  /\ head = 0 /\ tail = 0 /\ count = 0
  /\ added = 0
  /\ dropped = FALSE /\ result = None
  /\ walk = [on |-> FALSE, h |-> 0, c |-> 0, i |-> 0, yielded |-> None,
             first |-> 0]

\* Mutant: the oldest item is not given up when the buffer is full.
AddLast_HeadStays ==
  /\ added < MaxAdded
  /\ UNCHANGED head
  /\ count' = IF count = Capacity THEN count ELSE count + 1
  /\ buffer' = [buffer EXCEPT ![tail] = added]
  /\ tail' = (tail + 1) % Capacity
  /\ added' = added + 1
  /\ dropped' = (count = Capacity)
  /\ UNCHANGED <<result, walk>>

AddLast ==
  /\ added < MaxAdded
  /\ head' = IF count = Capacity THEN (head + 1) % Capacity ELSE head
  /\ count' = IF count = Capacity THEN count ELSE count + 1
  /\ buffer' = [buffer EXCEPT ![tail] = added]
  /\ tail' = (tail + 1) % Capacity
  /\ added' = added + 1
  /\ dropped' = (count = Capacity)
  /\ UNCHANGED <<result, walk>>

RemoveNone ==
  /\ count = 0
  /\ result' = None
  /\ UNCHANGED <<ring, dropped, walk>>

RemoveOldest ==
  /\ count > 0
  /\ result' = buffer[head]
  /\ head' = (head + 1) % Capacity
  /\ count' = count - 1
  /\ UNCHANGED <<buffer, tail, added, dropped, walk>>

\* No test for an empty buffer: it returns what the slot held last.
GetHead ==
  /\ result' = buffer[head]
  /\ UNCHANGED <<ring, dropped, walk>>

\* The first move of an enumeration copies _head and _count.
BeginWalk ==
  /\ ~walk.on
  /\ walk' = [on |-> TRUE, h |-> head, c |-> count, i |-> 0, yielded |-> None,
              first |-> added - count]
  /\ UNCHANGED <<ring, dropped, result>>

\* Mutant: the index is computed from the current head of the buffer.
MoveNext_CurrentHead ==
  /\ walk.on
  /\ walk.i < walk.c
  /\ walk' = [walk EXCEPT !.yielded = buffer[(head + walk.i) % Capacity],
                          !.i = @ + 1]
  /\ UNCHANGED <<ring, dropped, result>>

MoveNext ==
  /\ walk.on
  /\ walk.i < walk.c
  /\ walk' = [walk EXCEPT !.yielded = buffer[(walk.h + walk.i) % Capacity],
                          !.i = @ + 1]
  /\ UNCHANGED <<ring, dropped, result>>

\* The last move, or the consumer breaks out of its loop.
EndWalk ==
  /\ walk.on
  /\ walk' = [walk EXCEPT !.on = FALSE]
  /\ UNCHANGED <<ring, dropped, result>>

BufferNext ==
  \/ AddLast \/ RemoveNone \/ RemoveOldest \/ GetHead
  \/ BeginWalk \/ MoveNext \/ EndWalk

BufferSpec == BufferInit /\ [][BufferNext]_bufferVars

-----------------------------------------------------------------------------
\* The types of the variables, and every index within the array.
BufferTypeOK ==
  /\ buffer \in [Index -> Item]
  /\ head \in Index /\ tail \in Index
  /\ count \in 0 .. Capacity
  /\ added \in Nat
  /\ dropped \in BOOLEAN /\ result \in Item
  /\ walk \in Walk

\* An enumeration goes through the items it was started on in their order; an
\* item that was overwritten meanwhile is replaced by one exactly whole rings
\* newer, and removals in between do not disturb it.
WalkInOrder ==
  [][MoveNext =>
       LET due == walk.first + walk.i
           item == walk'.yielded
       IN  /\ item \in Nat
           /\ item >= due
           /\ (item - due) % Capacity = 0
           /\ added <= due + Capacity => item = due]_bufferVars

\* The buffer is a window over the last items added: what each operation
\* returns and leaves behind is what the window says.
Window == INSTANCE SlidingWindow WITH
  first <- added - count,
  next <- added

ImplementsWindow == Window!Spec
=============================================================================
