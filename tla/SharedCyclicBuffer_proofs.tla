---------------------- MODULE SharedCyclicBuffer_proofs ----------------------
(***************************************************************************)
(* Proofs about SharedCyclicBuffer, for every capacity and every number of *)
(* frames.                                                                 *)
(*                                                                         *)
(* That frames are held intact and in order follows from one inductive     *)
(* invariant: the numbers of posted and popped frames and the semaphore    *)
(* agree, the two private indices are those numbers around the ring, and   *)
(* every published frame that the writer has not begun to overwrite lies   *)
(* at its number around the ring.  What a reader expects after an overrun  *)
(* follows from a second one, about the control words that are found then. *)
(***************************************************************************)
EXTENDS SharedCyclicBuffer, ModLemmas

\* The frame a released reader no longer needs: frames below are free.
Released == IF rpc = "idle" THEN popped ELSE popped - 1

CountersAgree ==
  /\ posted = popped + sem
  /\ tail = posted % Capacity
  /\ head = popped % Capacity
  /\ rpc # "idle" => popped > 0 /\ slot = (popped - 1) % Capacity
  /\ rpc = "waited" => Checked
  /\ wpc = "copied" => Checked
  /\ wpc # "idle" => posted < MaxFrames
  /\ Checked => wCounter = IF wpc = "written" THEN posted + 1 ELSE posted

FrameAt(n) ==
  /\ slots[n % Capacity].payload = n
  /\ Checked => slots[n % Capacity].control = n

RingContents ==
  /\ \A n \in Nat : (n < posted /\ Begun <= n + Capacity) => FrameAt(n)
  /\ wpc \in {"copied", "written"} => slots[tail].payload = posted
  /\ (wpc = "written" /\ Checked) => slots[tail].control = posted

NotLapped ==
  ~lapped =>
    /\ Begun <= Released + Capacity
    /\ outcome # "unordered"
    /\ Checked => rCounter = IF rpc = "waited" THEN popped - 1 ELSE popped
    /\ rpc = "used" => seen = Current

IInv == TypeOK /\ CountersAgree /\ RingContents /\ NotLapped

USE CapacityAssumption, MaxFramesAssumption, CheckedAssumption

\* The constants are what the assumptions say, in the form the lemmas need.
LEMMA IndexFacts ==
  /\ 0 \in Index
  /\ Index \subseteq Int
  /\ \A i \in Int : (i + 1) % Capacity \in Index
  /\ \A n \in Nat : n % Capacity \in Index
BY ModRange DEF Index

\* Writing a payload or a control word keeps the ring a ring of slots.
LEMMA SlotUpdate ==
  ASSUME NEW f \in [Index -> Slot], NEW i \in Index
  PROVE  /\ \A v \in Int : [f EXCEPT ![i].payload = v] \in [Index -> Slot]
         /\ \A v \in Nat : [f EXCEPT ![i].control = v] \in [Index -> Slot]
         /\ f[i].control \in Nat /\ f[i].payload \in Int
BY DEF Slot

LEMMA InitInvariant == Init => IInv
<1> SUFFICES ASSUME Init
             PROVE  IInv
  OBVIOUS
<1>1. TypeOK
  <2>1. [payload |-> Garbage, control |-> 0] \in Slot
    BY DEF Slot, Garbage
  <2>2. slots \in [Index -> Slot]
    BY <2>1 DEF Init
  <2>3. Garbage \in Int
    BY DEF Garbage
  <2> QED BY <2>2, <2>3, IndexFacts DEF Init, TypeOK
<1>2. 0 % Capacity = 0
  BY ModUnique, 0 \in 0 .. Capacity - 1, 0 = Capacity * 0 + 0
<1>3. CountersAgree
  BY <1>2 DEF Init, CountersAgree
<1>4. RingContents /\ NotLapped
  BY DEF Init, RingContents, NotLapped, Begun, Released
<1> QED BY <1>1, <1>3, <1>4 DEF IInv

LEMMA TypeStep == TypeOK /\ [Next]_vars => TypeOK'
<1> SUFFICES ASSUME TypeOK, [Next]_vars
             PROVE  TypeOK'
  OBVIOUS
<1> USE IndexFacts DEF TypeOK, readerVars, writerVars
<1>1. CASE BeginPush
  <2>1. slots' \in [Index -> Slot]
    BY <1>1, SlotUpdate, -1 \in Int DEF BeginPush, Garbage
  <2> QED BY <1>1, <2>1 DEF BeginPush
<1>2. CASE EndCopy
  <2>1. slots' \in [Index -> Slot]
    BY <1>2, SlotUpdate DEF EndCopy
  <2> QED BY <1>2, <2>1 DEF EndCopy
<1>3. CASE StampControl
  <2>1. slots' \in [Index -> Slot]
    BY <1>3, SlotUpdate DEF StampControl
  <2> QED BY <1>3, <2>1 DEF StampControl
<1>4. CASE Post
  BY <1>4 DEF Post
<1>5. CASE Wait
  BY <1>5 DEF Wait
<1>6. CASE AcceptFrame
  BY <1>6, SlotUpdate DEF AcceptFrame, Expected
<1>7. CASE ThrowUnordered
  BY <1>7, SlotUpdate DEF ThrowUnordered, Expected
<1>8. CASE UseFrame
  BY <1>8, SlotUpdate DEF UseFrame
<1>9. CASE ReleaseFrame
  BY <1>9 DEF ReleaseFrame
<1>10. CASE UNCHANGED vars
  BY <1>10 DEF vars
<1> QED
  BY <1>1, <1>2, <1>3, <1>4, <1>5, <1>6, <1>7, <1>8, <1>9, <1>10
  DEF Next, Writer, Reader, Copying

\* Type correctness: every index stays within the ring, every counter counts.
THEOREM TypeCorrect == Spec => []TypeOK
<1>1. Init => TypeOK
  BY InitInvariant DEF IInv
<1> QED BY <1>1, TypeStep, PTL DEF Spec

-----------------------------------------------------------------------------
\* What a write to one slot does to that slot and to every other one.
LEMMA SlotRead ==
  ASSUME NEW f \in [Index -> Slot], NEW i \in Index, NEW j \in Index, NEW v
  PROVE  /\ [f EXCEPT ![i].payload = v][j] =
              IF j = i THEN [f[i] EXCEPT !.payload = v] ELSE f[j]
         /\ [f EXCEPT ![i].control = v][j] =
              IF j = i THEN [f[i] EXCEPT !.control = v] ELSE f[j]
         /\ [f EXCEPT ![i].payload = v][i].payload = v
         /\ [f EXCEPT ![i].control = v][i].control = v
         /\ [f EXCEPT ![i].control = v][i].payload = f[i].payload
BY DEF Slot

\* A frame less than a ring behind the writer's lies in another slot.
LEMMA OtherSlot ==
  ASSUME NEW n \in Nat, TypeOK, CountersAgree, n < posted, posted < n + Capacity
  PROVE  n % Capacity \in Index /\ n % Capacity # tail
BY ModDistinct, IndexFacts DEF CountersAgree, TypeOK

LEMMA CountersStep == TypeOK /\ CountersAgree /\ [Next]_vars => CountersAgree'
<1> SUFFICES ASSUME TypeOK, CountersAgree, [Next]_vars
             PROVE  CountersAgree'
  OBVIOUS
<1> USE DEF TypeOK, CountersAgree, readerVars, writerVars
<1>1. CASE BeginPush
  BY <1>1 DEF BeginPush
<1>2. CASE EndCopy
  BY <1>2 DEF EndCopy
<1>3. CASE StampControl
  BY <1>3 DEF StampControl
<1>4. CASE Post
  <2>1. tail' = posted' % Capacity
    BY <1>4, ModNext DEF Post
  <2> QED BY <1>4, <2>1 DEF Post
<1>5. CASE Wait
  <2>1. head' = popped' % Capacity
    BY <1>5, ModNext DEF Wait
  <2>2. slot' = (popped' - 1) % Capacity
    BY <1>5 DEF Wait
  <2> QED BY <1>5, <2>1, <2>2 DEF Wait
<1>6. CASE AcceptFrame
  BY <1>6 DEF AcceptFrame
<1>7. CASE ThrowUnordered
  BY <1>7 DEF ThrowUnordered
<1>8. CASE UseFrame
  BY <1>8 DEF UseFrame
<1>9. CASE ReleaseFrame
  BY <1>9 DEF ReleaseFrame
<1>10. CASE UNCHANGED vars
  BY <1>10 DEF vars
<1> QED
  BY <1>1, <1>2, <1>3, <1>4, <1>5, <1>6, <1>7, <1>8, <1>9, <1>10
  DEF Next, Writer, Reader, Copying

LEMMA RingStep ==
  TypeOK /\ CountersAgree /\ RingContents /\ [Next]_vars => RingContents'
<1> SUFFICES ASSUME TypeOK, CountersAgree, RingContents, [Next]_vars
             PROVE  RingContents'
  OBVIOUS
<1> USE DEF RingContents, Begun, FrameAt
<1>0. /\ slots \in [Index -> Slot] /\ tail \in Index /\ posted \in Nat
      /\ wpc \in {"idle", "copying", "copied", "written"}
      /\ tail = posted % Capacity
      /\ wpc = "copied" => Checked
      /\ Checked => wCounter = IF wpc = "written" THEN posted + 1 ELSE posted
  BY DEF TypeOK, CountersAgree
<1>1. CASE BeginPush
  <2>1. ASSUME NEW n \in Nat, n < posted', Begun' <= n + Capacity
        PROVE  FrameAt(n)'
    <3>1. n < posted /\ posted < n + Capacity /\ FrameAt(n)
      BY <1>0, <1>1, <2>1 DEF BeginPush
    <3>2. slots'[n % Capacity] = slots[n % Capacity]
      BY <1>0, <1>1, <3>1, OtherSlot, SlotRead DEF BeginPush
    <3> QED BY <3>1, <3>2
  <2> QED BY <1>1, <2>1 DEF BeginPush
<1>2. CASE EndCopy
  <2>1. ASSUME NEW n \in Nat, n < posted', Begun' <= n + Capacity
        PROVE  FrameAt(n)'
    <3>1. n < posted /\ posted < n + Capacity /\ FrameAt(n)
      BY <1>0, <1>2, <2>1 DEF EndCopy
    <3>2. slots'[n % Capacity] = slots[n % Capacity]
      BY <1>0, <1>2, <3>1, OtherSlot, SlotRead DEF EndCopy
    <3> QED BY <3>1, <3>2
  <2>2. slots'[tail].payload = posted
    BY <1>0, <1>2, SlotRead DEF EndCopy
  <2> QED BY <1>0, <1>2, <2>1, <2>2 DEF EndCopy
<1>3. CASE StampControl
  <2>1. ASSUME NEW n \in Nat, n < posted', Begun' <= n + Capacity
        PROVE  FrameAt(n)'
    <3>1. n < posted /\ posted < n + Capacity /\ FrameAt(n)
      BY <1>0, <1>3, <2>1 DEF StampControl
    <3>2. slots'[n % Capacity] = slots[n % Capacity]
      BY <1>0, <1>3, <3>1, OtherSlot, SlotRead DEF StampControl
    <3> QED BY <3>1, <3>2
  <2>2. slots'[tail].payload = posted /\ slots'[tail].control = posted
    BY <1>0, <1>3, SlotRead DEF StampControl
  <2> QED BY <1>0, <1>3, <2>1, <2>2 DEF StampControl
<1>4. CASE Post
  <2>1. ASSUME NEW n \in Nat, n < posted', Begun' <= n + Capacity
        PROVE  FrameAt(n)
    <3>1. CASE n = posted
      BY <1>0, <1>4, <3>1 DEF Post
    <3>2. CASE n # posted
      BY <1>0, <1>4, <2>1, <3>2 DEF Post
    <3> QED BY <3>1, <3>2
  <2> QED BY <1>4, <2>1 DEF Post
<1>5. CASE Reader
  <2>1. UNCHANGED <<slots, tail, wCounter, wpc, posted>>
    BY <1>5 DEF Reader, Wait, AcceptFrame, ThrowUnordered, UseFrame,
       ReleaseFrame, writerVars
  <2> QED BY <2>1
<1>6. CASE UNCHANGED vars
  BY <1>6 DEF vars, writerVars
<1> QED BY <1>1, <1>2, <1>3, <1>4, <1>5, <1>6 DEF Next, Writer, Copying

\* The frame the reader works on is intact while it is not overtaken.
LEMMA CurrentIntact ==
  ASSUME TypeOK, CountersAgree, RingContents,
         rpc # "idle", Begun <= Current + Capacity
  PROVE  /\ slots[slot].payload = Current
         /\ Checked => slots[slot].control = Current
<1>1. Current \in Nat /\ Current < posted /\ slot = Current % Capacity
  BY DEF TypeOK, CountersAgree, Current
<1> QED BY <1>1 DEF RingContents, FrameAt

LEMMA NotLappedStep == IInv /\ [Next]_vars => NotLapped'
<1> SUFFICES ASSUME TypeOK, CountersAgree, RingContents, NotLapped, [Next]_vars
             PROVE  NotLapped'
  BY DEF IInv
<1> USE DEF TypeOK, NotLapped, Begun, Released, Current, readerVars, writerVars
<1>1. CASE BeginPush
  <2>1. ~lapped' => ~lapped /\ ~(Outstanding >= Capacity)
    BY <1>1, Zenon DEF BeginPush
  <2>2. ~(Outstanding >= Capacity) => Begun' <= Released + Capacity
    BY <1>1 DEF BeginPush, Outstanding, CountersAgree
  <2> QED BY <1>1, <2>1, <2>2 DEF BeginPush
<1>2. CASE EndCopy
  BY <1>2 DEF EndCopy
<1>3. CASE StampControl
  BY <1>3 DEF StampControl
<1>4. CASE Post
  BY <1>4 DEF Post
<1>5. CASE Wait
  BY <1>5 DEF Wait, CountersAgree
<1>6. CASE AcceptFrame
  <2>1. ~lapped => slots[slot].control = Current
    BY <1>6, CurrentIntact DEF AcceptFrame, CountersAgree
  <2> QED BY <1>6, <2>1 DEF AcceptFrame, Expected
<1>7. CASE ThrowUnordered
  <2>1. ~lapped => slots[slot].control = Current
    BY <1>7, CurrentIntact DEF ThrowUnordered, CountersAgree
  <2>2. lapped
    BY <1>7, <2>1 DEF ThrowUnordered, Expected, CountersAgree
  <2> QED BY <1>7, <2>2 DEF ThrowUnordered
<1>8. CASE UseFrame
  <2>1. ~lapped => slots[slot].payload = Current
    BY <1>8, CurrentIntact DEF UseFrame, CountersAgree
  <2> QED BY <1>8, <2>1 DEF UseFrame
<1>9. CASE ReleaseFrame
  BY <1>9 DEF ReleaseFrame
<1>10. CASE UNCHANGED vars
  BY <1>10 DEF vars
<1> QED
  BY <1>1, <1>2, <1>3, <1>4, <1>5, <1>6, <1>7, <1>8, <1>9, <1>10
  DEF Next, Writer, Reader, Copying

LEMMA InvariantStep == IInv /\ [Next]_vars => IInv'
BY TypeStep, CountersStep, RingStep, NotLappedStep DEF IInv

LEMMA Invariance == Spec => []IInv
BY InitInvariant, InvariantStep, PTL DEF Spec

-----------------------------------------------------------------------------
\* A held frame is not touched before the writer starts the frame exactly one
\* ring later.
THEOREM HeldFrames == Spec => []HeldFrameIntact
<1>1. IInv => HeldFrameIntact
  BY CurrentIntact DEF IInv, HeldFrameIntact
<1> QED BY <1>1, Invariance, PTL

\* While the ring was never overrun, the reader sees every frame in order and
\* untorn, and "unordered memory" is never reported.
THEOREM Order == Spec => []FramesInOrder
<1>1. IInv => FramesInOrder
  BY DEF IInv, NotLapped, FramesInOrder
<1> QED BY <1>1, Invariance, PTL

-----------------------------------------------------------------------------
\* Each step publishes a frame, deals with the next one, overruns the channel or
\* does nothing the channel knows of.
LEMMA ChannelStep == IInv /\ [Next]_vars => [Channel!Next]_(Channel!vars)
<1> SUFFICES ASSUME IInv, [Next]_vars
             PROVE  [Channel!Next]_(Channel!vars)
  OBVIOUS
<1> USE DEF Channel!vars, Channel!Next, Channel!Publish, Channel!Consume,
            Channel!Overrun, readerVars, writerVars
<1>0. TypeOK /\ CountersAgree /\ RingContents /\ NotLapped
  BY DEF IInv
<1>1. CASE BeginPush
  <2>1. CASE lapped \/ ~(Outstanding >= Capacity)
    <3>1. lapped' = lapped
      BY <1>0, <1>1, <2>1, Zenon DEF BeginPush, TypeOK
    <3> QED BY <1>1, <3>1 DEF BeginPush
  <2>2. CASE ~lapped /\ Outstanding >= Capacity
    <3>1. lapped'
      BY <1>1, <2>2 DEF BeginPush
    <3>2. posted - (IF rpc \in {"waited", "holding"} THEN popped - 1 ELSE popped)
            >= Capacity - 1
      BY <1>0, <2>2 DEF Outstanding, TypeOK, CountersAgree
    <3> QED BY <1>1, <2>2, <3>1, <3>2 DEF BeginPush
  <2> QED BY <2>1, <2>2
<1>2. CASE Post
  BY <1>0, <1>2 DEF Post, TypeOK, CountersAgree
<1>3. CASE UseFrame
  <2>1. ~lapped => seen' = popped - 1
    BY <1>0, <1>3, CurrentIntact DEF UseFrame, NotLapped, Released, Current
  <2> QED BY <1>0, <1>3, <2>1 DEF UseFrame, TypeOK, CountersAgree
<1>4. CASE Wait
  BY <1>0, <1>4 DEF Wait, TypeOK
<1>5. CASE ThrowUnordered
  <2>1. lapped
    BY <1>0, <1>5, CurrentIntact
    DEF ThrowUnordered, Expected, NotLapped, TypeOK, CountersAgree, Released,
        Current
  <2> QED BY <1>0, <1>5, <2>1 DEF ThrowUnordered, TypeOK, CountersAgree
<1>6. CASE EndCopy \/ StampControl \/ AcceptFrame \/ ReleaseFrame
             \/ UNCHANGED vars
  BY <1>6 DEF EndCopy, StampControl, AcceptFrame, ReleaseFrame, vars
<1> QED
  BY <1>1, <1>2, <1>3, <1>4, <1>5, <1>6 DEF Next, Writer, Copying, Reader

\* The ring implements the frame channel: exactly once and in order up to an
\* overrun, and an overrun only of a full ring.
THEOREM Refinement == Spec => Channel!Spec
<1>1. Init => Channel!Init
  BY DEF Init, Channel!Init, Channel!NoFrame, Garbage
<1> QED
  BY <1>1, Invariance, ChannelStep, PTL DEF Spec, Channel!Spec

-----------------------------------------------------------------------------
(* The reader after an overrun.  The slot of frame n then holds the control *)
(* word of a later frame, but of one that lies at the same slot.            *)

\* The number k is n, or a whole number of laps later.
SameLane(k, n) == k >= n /\ (k - n) % Capacity = 0

\* The frame whose control word PopPtr compares next.
CheckedNext == IF rpc = "waited" THEN popped - 1 ELSE popped

ControlWords ==
  Checked => \A n \in Nat :
               n < wCounter => SameLane(slots[n % Capacity].control, n)

LapInv ==
  /\ ControlWords
  /\ (Checked /\ rCounter > 0) => SameLane(rCounter, CheckedNext)

\* A control word written into the slot of an earlier frame is of its lane.
LEMMA StampedLane ==
  ASSUME NEW n \in Nat, NEW m \in Nat, n <= m, n % Capacity = m % Capacity
  PROVE  SameLane(m, n)
BY ModDiff DEF SameLane

\* What the reader finds in its slot is the number it popped, or laps later.
LEMMA FoundLane ==
  ASSUME TypeOK, CountersAgree, ControlWords, rpc = "waited"
  PROVE  SameLane(slots[slot].control, popped - 1)
<1>1. Checked /\ popped - 1 \in Nat /\ popped - 1 < wCounter
  BY DEF TypeOK, CountersAgree
<1> QED BY <1>1 DEF ControlWords, CountersAgree

LEMMA ControlWordsStep ==
  TypeOK /\ CountersAgree /\ ControlWords /\ [Next]_vars => ControlWords'
<1> SUFFICES ASSUME TypeOK, CountersAgree, ControlWords, [Next]_vars, Checked,
                    NEW n \in Nat, n < wCounter'
             PROVE  SameLane(slots'[n % Capacity].control, n)
  BY DEF ControlWords, SameLane
<1>0. /\ slots \in [Index -> Slot] /\ tail \in Index /\ posted \in Nat
      /\ wCounter \in Nat /\ tail = posted % Capacity
      /\ wpc = "copied" => wCounter = posted
      /\ n % Capacity \in Index
      /\ n < wCounter => SameLane(slots[n % Capacity].control, n)
  BY IndexFacts DEF TypeOK, CountersAgree, ControlWords
<1>1. CASE BeginPush \/ EndCopy
  <2>1. /\ n < wCounter
        /\ slots'[n % Capacity].control = slots[n % Capacity].control
    BY <1>0, <1>1, SlotRead DEF BeginPush, EndCopy, Slot
  <2> QED BY <1>0, <2>1
<1>2. CASE StampControl
  <2>1. CASE n % Capacity = tail
    <3>1. slots'[n % Capacity].control = posted
      BY <1>0, <1>2, <2>1, SlotRead DEF StampControl
    <3>2. n <= posted
      BY <1>0, <1>2 DEF StampControl
    <3> QED BY <1>0, <2>1, <3>1, <3>2, StampedLane
  <2>2. CASE n % Capacity # tail
    <3>1. n # posted
      BY <1>0, <2>2
    <3>2. n < wCounter
      BY <1>0, <1>2, <3>1 DEF StampControl
    <3>3. slots'[n % Capacity] = slots[n % Capacity]
      BY <1>0, <1>2, <2>2, SlotRead DEF StampControl
    <3> QED BY <1>0, <3>2, <3>3
  <2> QED BY <2>1, <2>2
<1>3. CASE Post \/ Reader \/ UNCHANGED vars
  <2>1. slots' = slots /\ wCounter' = wCounter
    BY <1>3 DEF Post, Reader, Wait, AcceptFrame, ThrowUnordered, UseFrame,
       ReleaseFrame, vars, writerVars
  <2> QED BY <1>0, <2>1
<1> QED BY <1>1, <1>2, <1>3 DEF Next, Writer, Copying

LEMMA LapStep == IInv /\ LapInv /\ [Next]_vars => LapInv'
<1> SUFFICES ASSUME TypeOK, CountersAgree, LapInv, [Next]_vars
             PROVE  LapInv'
  BY DEF IInv
<1>1. ControlWords'
  BY ControlWordsStep DEF LapInv
<1>2. ASSUME Checked, rCounter' > 0
      PROVE  SameLane(rCounter, CheckedNext)'
  <2> USE DEF CheckedNext, SameLane, TypeOK, readerVars, writerVars
  <2>0. /\ rCounter > 0 => SameLane(rCounter, CheckedNext)
        /\ rpc = "waited" => SameLane(slots[slot].control, popped - 1)
    BY <1>2, FoundLane DEF LapInv
  <2>1. CASE Writer
    <3>1. UNCHANGED readerVars
      BY <2>1 DEF Writer, Copying, BeginPush, EndCopy, StampControl, Post
    <3> QED BY <1>2, <2>0, <3>1
  <2>2. CASE Wait
    BY <1>2, <2>0, <2>2 DEF Wait
  <2>3. CASE AcceptFrame
    <3>1. /\ slots[slot].control \in Nat /\ popped \in Nat
          /\ rCounter' = slots[slot].control + 1
          /\ popped' = popped /\ rpc' = "holding" /\ rpc = "waited"
      BY <2>3, SlotUpdate DEF AcceptFrame
    <3>2. rCounter' - popped' = slots[slot].control - (popped - 1)
      BY <3>1
    <3> QED BY <2>0, <3>1, <3>2
  <2>4. CASE ThrowUnordered
    <3>1. /\ rCounter \in Nat /\ rCounter > 0 /\ popped \in Nat
          /\ rCounter' = rCounter + 1
          /\ popped' = popped /\ rpc' = "idle" /\ rpc = "waited"
      BY <2>4 DEF ThrowUnordered, Expected
    <3>2. rCounter' - popped' = rCounter - (popped - 1)
      BY <3>1
    <3> QED BY <2>0, <3>1, <3>2
  <2>5. CASE UseFrame \/ ReleaseFrame
    BY <1>2, <2>0, <2>5 DEF UseFrame, ReleaseFrame
  <2>6. CASE UNCHANGED vars
    BY <1>2, <2>0, <2>6 DEF vars
  <2> QED BY <2>1, <2>2, <2>3, <2>4, <2>5, <2>6 DEF Next, Reader
<1> QED BY <1>1, <1>2 DEF LapInv

\* However often the ring was overrun, the number PopPtr expects is that of the
\* frame it pops or whole laps later: it never confuses neighbouring slots.
THEOREM OffByWholeLaps == Spec => []ExpectationOffByLaps
<1>1. Init => LapInv
  BY DEF Init, LapInv, ControlWords
<1>2. TypeOK /\ LapInv => ExpectationOffByLaps
  BY DEF LapInv, SameLane, CheckedNext, ExpectationOffByLaps
<1>3. IInv => TypeOK
  BY DEF IInv
<1> QED BY <1>1, <1>2, <1>3, LapStep, Invariance, PTL DEF Spec
=============================================================================
