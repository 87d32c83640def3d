------------------------- MODULE SharedCyclicBuffer -------------------------
(***************************************************************************)
(* The ring of frames in shared memory of EventPi.SharedMemory, with one   *)
(* writer process and one reader process that both hold the same counting  *)
(* semaphore.  How they come to hold it is the subject of BufferLifecycle. *)
(*                                                                         *)
(* A frame is represented by its number: the writer publishes frames       *)
(* 0, 1, 2, ...  A slot is [payload, control]: the number of the frame     *)
(* whose bytes it holds, or Garbage while the bytes are a mixture, and the *)
(* control word stored behind the payload.  Every access of a process to   *)
(* memory the other one can touch is an action of its own, because the two *)
(* processes run freely between semaphore operations.                      *)
(***************************************************************************)
EXTENDS Integers

CONSTANTS
  Capacity,    \* number of slots of the ring
  MaxFrames,   \* how many frames the writer publishes (bounds the runs)
  Checked      \* TRUE: PushBytes(byte* )/PopPtr of SharedCyclicBuffer, with a
               \* control word; FALSE: Push/Pop of SharedCyclicBuffer<T>, without

ASSUME CapacityAssumption == Capacity \in Nat \ {0}
ASSUME MaxFramesAssumption == MaxFrames \in Nat
ASSUME CheckedAssumption == Checked \in BOOLEAN

VARIABLES
  slots,      \* the memory mapped file
  sem,        \* value of the semaphore _availableItemsSem
  tail,       \* writer: _tail
  wCounter,   \* writer: _frameCounter
  wpc,        \* writer: how far PushBytes has come
  head,       \* reader: _head
  rCounter,   \* reader: _frameCounter
  rpc,        \* reader: how far PopPtr and the use of its result have come
  slot,       \* reader: the slot its local variable offset points at
  outcome,    \* reader: how the last completed PopPtr ended
  seen,       \* reader: what its caller found behind the pointer last
  posted,     \* history: number of frames published (Posts)
  popped,     \* history: number of completed Waits
  lapped      \* history: some frame was overwritten before its release

writerVars == <<tail, wCounter, wpc, posted, lapped>>
readerVars == <<head, rCounter, rpc, slot, outcome, seen, popped>>
vars == <<slots, sem, writerVars, readerVars>>

Index == 0 .. Capacity - 1
Garbage == -1
Slot == [payload: Int, control: Nat]

\* Frames that were published or are held by the reader: their slots are taken.
Outstanding == sem + (IF rpc = "idle" THEN 0 ELSE 1)

Init ==
  /\ slots = [i \in Index |-> [payload |-> Garbage, control |-> 0]]
  /\ sem = 0
  /\ tail = 0 /\ wCounter = 0 /\ wpc = "idle"
  /\ head = 0 /\ rCounter = 0 /\ rpc = "idle"
  /\ slot = 0 /\ outcome = "none" /\ seen = Garbage
  /\ posted = 0 /\ popped = 0 /\ lapped = FALSE

-----------------------------------------------------------------------------
(* Writer: PushBytes(byte* ) and Push(T).                                  *)

\* The copy starts: there is no test for a full ring.
BeginPush ==
  /\ wpc = "idle"
  /\ posted < MaxFrames
  /\ wpc' = "copying"
  /\ slots' = [slots EXCEPT ![tail].payload = Garbage]
  /\ lapped' = (lapped \/ Outstanding >= Capacity)
  /\ UNCHANGED <<sem, tail, wCounter, posted, readerVars>>

EndCopy ==
  /\ wpc = "copying"
  /\ wpc' = IF Checked THEN "copied" ELSE "written"
  /\ slots' = [slots EXCEPT ![tail].payload = posted]
  /\ UNCHANGED <<sem, tail, wCounter, posted, lapped, readerVars>>

\* Mutant: the counter is written without being incremented.
StampControl_NoIncrement ==
  /\ wpc = "copied"
  /\ wpc' = "written"
  /\ slots' = [slots EXCEPT ![tail].control = wCounter]
  /\ UNCHANGED <<sem, tail, wCounter, posted, lapped, readerVars>>

\* *controlPtr = _frameCounter++
StampControl ==
  /\ wpc = "copied"
  /\ wpc' = "written"
  /\ slots' = [slots EXCEPT ![tail].control = wCounter]
  /\ wCounter' = wCounter + 1
  /\ UNCHANGED <<sem, tail, posted, lapped, readerVars>>

\* Mutant: _tail stays where it is.
Post_TailStays ==
  /\ wpc = "written"
  /\ wpc' = "idle"
  /\ sem' = sem + 1
  /\ posted' = posted + 1
  /\ UNCHANGED <<slots, tail, wCounter, lapped, readerVars>>

\* Mutant: the semaphore is not released for the last slot of the ring.
Post_LostAtWrap ==
  /\ wpc = "written"
  /\ wpc' = "idle"
  /\ tail' = (tail + 1) % Capacity
  /\ sem' = IF tail' = 0 THEN sem ELSE sem + 1
  /\ posted' = posted + 1
  /\ UNCHANGED <<slots, wCounter, lapped, readerVars>>

\* _tail moves on (a private field) and the semaphore is released.
Post ==
  /\ wpc = "written"
  /\ wpc' = "idle"
  /\ tail' = (tail + 1) % Capacity
  /\ sem' = sem + 1
  /\ posted' = posted + 1
  /\ UNCHANGED <<slots, wCounter, lapped, readerVars>>

-----------------------------------------------------------------------------
(* Reader: PopPtr, the use of the pointer by the caller, ReleaseFrame.     *)

\* Mutant: the offset is computed after _head has moved on.
Wait_HeadFirst ==
  /\ rpc = "idle"
  /\ sem > 0
  /\ sem' = sem - 1
  /\ head' = (head + 1) % Capacity
  /\ slot' = head'
  /\ popped' = popped + 1
  /\ rpc' = IF Checked THEN "waited" ELSE "holding"
  /\ outcome' = IF Checked THEN outcome ELSE "frame"
  /\ UNCHANGED <<slots, rCounter, seen, writerVars>>

\* sem_wait returns; the slot is chosen and _head moves on.
Wait ==
  /\ rpc = "idle"
  /\ sem > 0
  /\ sem' = sem - 1
  /\ slot' = head
  /\ head' = (head + 1) % Capacity
  /\ popped' = popped + 1
  /\ rpc' = IF Checked THEN "waited" ELSE "holding"
  /\ outcome' = IF Checked THEN outcome ELSE "frame"
  /\ UNCHANGED <<slots, rCounter, seen, writerVars>>

\* The first control word found is adopted, every later one must be next.
\* _frameCounter moves on even if the check fails.
Expected(control) == IF rCounter = 0 THEN control ELSE rCounter

AcceptFrame ==
  /\ rpc = "waited"
  /\ LET control == slots[slot].control
     IN  /\ Expected(control) = control
         /\ rCounter' = control + 1
  /\ outcome' = "frame"
  /\ rpc' = "holding"
  /\ UNCHANGED <<slots, sem, head, slot, seen, popped, writerVars>>

\* Mutant: a failed check leaves _frameCounter alone.
ThrowUnordered_CounterStays ==
  /\ rpc = "waited"
  /\ Expected(slots[slot].control) # slots[slot].control
  /\ outcome' = "unordered"
  /\ rpc' = "idle"
  /\ UNCHANGED <<slots, sem, head, rCounter, slot, seen, popped, writerVars>>

\* PopPtr throws "Unordered memory"; the caller may call PopPtr again.
ThrowUnordered ==
  /\ rpc = "waited"
  /\ LET control == slots[slot].control
     IN  /\ Expected(control) # control
         /\ rCounter' = Expected(control) + 1
  /\ outcome' = "unordered"
  /\ rpc' = "idle"
  /\ UNCHANGED <<slots, sem, head, slot, seen, popped, writerVars>>

UseFrame ==
  /\ rpc = "holding"
  /\ seen' = slots[slot].payload
  /\ rpc' = "used"
  /\ UNCHANGED <<slots, sem, head, rCounter, slot, outcome, popped, writerVars>>

ReleaseFrame ==
  /\ rpc = "used"
  /\ rpc' = "idle"
  /\ UNCHANGED <<slots, sem, head, rCounter, slot, outcome, seen, popped,
                 writerVars>>

-----------------------------------------------------------------------------
Copying == EndCopy \/ StampControl \/ Post
Writer == BeginPush \/ Copying
Reader == Wait \/ AcceptFrame \/ ThrowUnordered \/ UseFrame \/ ReleaseFrame

Next == Writer \/ Reader

Spec == Init /\ [][Next]_vars

\* Two threads that keep calling PushBytes and PopPtr, as the repository's
\* test does: neither stops for ever while its next step is possible.
FairSpec == Spec /\ WF_vars(Writer) /\ WF_vars(Reader)

-----------------------------------------------------------------------------
(* Properties.                                                             *)

\* The types of the variables, and every index within the ring.
TypeOK ==
  /\ slots \in [Index -> Slot]
  /\ sem \in Nat
  /\ tail \in Index /\ wCounter \in Nat
  /\ wpc \in {"idle", "copying", "copied", "written"}
  /\ head \in Index /\ rCounter \in Nat
  /\ rpc \in {"idle", "waited", "holding", "used"}
  /\ slot \in Index
  /\ outcome \in {"none", "frame", "unordered"}
  /\ seen \in Int
  /\ posted \in Nat /\ popped \in Nat
  /\ lapped \in BOOLEAN

\* The frame the reader works on: popped counts it from its Wait on.
Current == popped - 1

\* Frames whose copying has begun, the unfinished one included.
Begun == posted + (IF wpc = "idle" THEN 0 ELSE 1)

\* A frame the reader holds stays intact, whatever the writer does, until the
\* writer starts the frame that is exactly one ring later: the semaphore, the
\* two private indices and the two counters agree on which frame lies where.
HeldFrameIntact ==
  (rpc \in {"waited", "holding"} /\ Begun <= Current + Capacity)
    => /\ slots[slot].payload = Current
       /\ Checked => slots[slot].control = Current

\* As long as the writer never ran a whole ring ahead, the k-th frame the
\* reader's caller looks at is the k-th frame published, not torn or repeated,
\* and PopPtr never complains of "unordered memory".
FramesInOrder ==
  ~lapped => /\ rpc = "used" => seen = Current
             /\ outcome # "unordered"

\* The frame number the reader expects next differs from the number of frames
\* it has popped by a whole number of laps: when it adopts a control word of a
\* later lap it is off by whole rings, never by a slot.
ExpectationOffByLaps ==
  (Checked /\ rCounter > 0)
    => LET checked == IF rpc = "waited" THEN popped - 1 ELSE popped
       IN  rCounter >= checked /\ (rCounter - checked) % Capacity = 0

\* A reader that accepted frame 0 first recovers from being overrun: whatever
\* is overwritten in between, it ends up looking at the last frame published.
InStep == rCounter = 1 /\ popped = 1
CatchesUp == InStep ~> (popped = MaxFrames /\ seen = MaxFrames - 1)

\* The ring implements the frame channel: exactly once, in order and until the
\* end, as long as the writer does not start a frame in a slot that is in use.
Channel == INSTANCE FrameChannel WITH
  published <- posted,
  consumed <- IF rpc \in {"waited", "holding"} THEN popped - 1 ELSE popped,
  latest <- seen,
  overrun <- lapped

ImplementsChannel == Channel!FairSpec
=============================================================================
