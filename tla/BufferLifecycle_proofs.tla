------------------------ MODULE BufferLifecycle_proofs ------------------------
(***************************************************************************)
(* Proofs about BufferLifecycle: for any ring and any number of processes  *)
(* that open, dispose and die in whatever order, a reader and the only     *)
(* writer that ever used its semaphore start afresh.                       *)
(*                                                                         *)
(* The argument follows one semaphore.  A reader always makes its own, so  *)
(* nobody else has taken anything from it, and as long as only the latest  *)
(* writer has opened it, its value counts exactly the frames of that       *)
(* writer that lie in the ring from the reader's place on.                 *)
(***************************************************************************)
EXTENDS BufferLifecycle, ModLemmas, TLAPS

AnyFrame == [by : Nat, control : Nat]
AnyProcess == [state : {"closed", "opening", "open"}, gen : 0 .. MaxOpens,
               sem : Nat, index : Index, counter : Nat,
               outcome : {"none", "frame", "unordered"}, got : AnyFrame, popped : Nat]

TypeOK ==
  /\ name \in Nat /\ created \in Nat
  /\ count \in [Semaphores -> Nat]
  /\ slots \in [Index -> AnyFrame]
  /\ writer \in AnyProcess /\ reader \in AnyProcess
  /\ users \in [Semaphores -> SUBSET Nat]
  /\ overrun \in SUBSET Semaphores

\* Each constructor call makes one semaphore at most, and a reader that has yet
\* to try again has made none.
EnoughSemaphores ==
  /\ reader.state # "opening" => created <= writer.gen + reader.gen
  /\ reader.state = "opening" => created < writer.gen + reader.gen /\ reader.gen > 0

\* What has not been created has no value and no users.
FreshAreEmpty ==
  /\ name <= created
  /\ \A s \in Semaphores : s > created => count[s] = 0 /\ users[s] = {} /\ s \notin overrun

OpenHaveSemaphore ==
  /\ writer.state # "opening"
  /\ writer.state = "open" => writer.sem \in 1 .. created /\ writer.gen \in users[writer.sem]
  /\ reader.state = "open" => reader.sem \in 1 .. created

\* A writer process uses one semaphore only.
OneSemaphoreEach ==
  /\ \A s \in Semaphores : \A g \in users[s] : g <= writer.gen
  /\ \A s, t \in Semaphores : \A g \in users[s] \intersect users[t] : s = t

WriterPlace == writer.state = "open" => writer.index = writer.counter % Capacity

\* Nobody but the latest writer has opened the semaphore of the reader.
OnlyLatest ==
  reader.state = "open" /\ users[reader.sem] \subseteq {writer.gen} /\ reader.sem \notin overrun

\* Then the frames posted and not yet read are that writer's, in their places.
FreshFrames ==
  OnlyLatest =>
    /\ reader.counter = reader.popped /\ reader.index = reader.popped % Capacity
    /\ count[reader.sem] <= Capacity
    /\ users[reader.sem] = {} => reader.popped = 0 /\ count[reader.sem] = 0
    /\ \A k \in reader.popped .. reader.popped + count[reader.sem] - 1 :
         slots[k % Capacity] = [by |-> writer.gen, control |-> k]
    /\ writer.state = "open" /\ writer.sem = reader.sem
         => writer.counter = reader.popped + count[reader.sem]
    /\ reader.popped > 0 => /\ reader.outcome = "frame"
                            /\ reader.got = [by |-> writer.gen, control |-> reader.popped - 1]

IInv ==
  TypeOK /\ EnoughSemaphores /\ FreshAreEmpty /\ OpenHaveSemaphore /\ OneSemaphoreEach
    /\ WriterPlace /\ FreshFrames

-----------------------------------------------------------------------------
LEMMA Bounds == MaxOpens \in Nat \ {0} /\ Capacity \in Nat \ {0} /\ 0 \in Index
BY CapacityAssumption, BoundAssumption DEF Index

\* A constructor that has yet to make its semaphore finds room for it.
LEMMA RoomForOne ==
  ASSUME TypeOK, EnoughSemaphores,
         writer.gen < MaxOpens \/ (reader.gen < MaxOpens /\ reader.state # "opening")
           \/ reader.state = "opening"
  PROVE  created + 1 \in Semaphores
<1>1. writer.gen \in 0 .. MaxOpens /\ reader.gen \in 0 .. MaxOpens /\ created \in Nat
  BY DEF TypeOK, AnyProcess
<1>2. created + 1 <= 2 * MaxOpens
  BY <1>1, Bounds DEF EnoughSemaphores
<1> QED BY <1>1, <1>2, Bounds DEF Semaphores

LEMMA ClosedIsProcess ==
  ASSUME NEW gen \in 0 .. MaxOpens
  PROVE  /\ Closed(gen) \in AnyProcess
         /\ Closed(gen).state = "closed" /\ Closed(gen).gen = gen
         /\ \A s \in Nat : [Closed(gen) EXCEPT !.state = "open", !.sem = s] \in AnyProcess
         /\ [Closed(gen) EXCEPT !.state = "opening"] \in AnyProcess
BY Bounds DEF Closed, AnyProcess, AnyFrame, NoFrame, None

LEMMA InitHolds == Init => IInv
<1> SUFFICES ASSUME Init PROVE IInv
  OBVIOUS
<1> USE Bounds DEF Init
<1>1. 0 \in 0 .. MaxOpens
  OBVIOUS
<1>2. TypeOK
  BY <1>1, ClosedIsProcess DEF TypeOK, AnyFrame, NoFrame, None
<1>3. EnoughSemaphores /\ FreshAreEmpty /\ OpenHaveSemaphore
  BY DEF EnoughSemaphores, FreshAreEmpty, OpenHaveSemaphore, Closed, None
<1>4. OneSemaphoreEach /\ WriterPlace /\ FreshFrames
  BY DEF OneSemaphoreEach, WriterPlace, FreshFrames, OnlyLatest, Closed
<1> QED BY <1>2, <1>3, <1>4 DEF IInv

-----------------------------------------------------------------------------
(* What the steps do to the processes.                                     *)

\* The steps that are alike but for the process they are about.
WriterEnds == DisposeWriter \/ CrashWriter
ReaderEnds == DisposeReader \/ CrashReader

\* The frame at the reader's place, and what the reader expects there.
Expected == IF reader.counter = 0 THEN slots[reader.index].control ELSE reader.counter

\* The next index is an index, and every semaphore created so far has its number.
LEMMA NextIndex == \A i \in Index : (i + 1) % Capacity \in Index
<1> SUFFICES ASSUME NEW i \in Index PROVE (i + 1) % Capacity \in Index
  OBVIOUS
<1>1. i + 1 \in Nat
  BY Bounds DEF Index
<1> QED BY <1>1, Bounds, ModRange DEF Index

LEMMA CreatedAreNumbered == IInv => 1 .. created \subseteq Semaphores
<1> SUFFICES ASSUME IInv PROVE 1 .. created \subseteq Semaphores
  OBVIOUS
<1>1. writer.gen \in 0 .. MaxOpens /\ reader.gen \in 0 .. MaxOpens /\ created \in Nat
  BY DEF IInv, TypeOK, AnyProcess
<1>2. created <= 2 * MaxOpens
  BY <1>1, Bounds DEF IInv, EnoughSemaphores
<1> QED BY <1>1, <1>2, Bounds DEF Semaphores

LEMMA PushEffect ==
  ASSUME IInv, Push
  PROVE  /\ writer.state = "open" /\ writer.sem \in Semaphores /\ writer.index \in Index
         /\ writer.gen \in Nat /\ writer.counter \in Nat
         /\ slots' = [slots EXCEPT ![writer.index] = [by |-> writer.gen,
                                                     control |-> writer.counter]]
         /\ writer' \in AnyProcess
         /\ writer'.state = "open" /\ writer'.gen = writer.gen /\ writer'.sem = writer.sem
         /\ writer'.index = (writer.index + 1) % Capacity
         /\ writer'.counter = writer.counter + 1
         /\ count' = [count EXCEPT ![writer.sem] = count[writer.sem] + 1]
         /\ overrun' = IF count[writer.sem] >= Capacity
                         THEN overrun \union {writer.sem} ELSE overrun
         /\ UNCHANGED <<name, created, reader, users>>
<1>1. /\ writer \in AnyProcess /\ created \in Nat
      /\ writer.state = "open" /\ writer.sem \in 1 .. created
  BY DEF IInv, TypeOK, OpenHaveSemaphore, Push
<1>2. writer.sem \in Semaphores
  BY <1>1, CreatedAreNumbered
<1>3. /\ writer.index \in Index /\ writer.counter \in Nat /\ writer.gen \in Nat
      /\ (writer.index + 1) % Capacity \in Index
  BY <1>1, NextIndex DEF AnyProcess
<1>4. writer' = [writer EXCEPT !.index = (writer.index + 1) % Capacity,
                               !.counter = writer.counter + 1]
  BY DEF Push
<1>5. writer' \in AnyProcess
  <2>1. writer.counter + 1 \in Nat
    BY <1>3
  <2> QED BY <1>1, <1>3, <1>4, <2>1 DEF AnyProcess
<1>6. /\ writer'.state = "open" /\ writer'.gen = writer.gen /\ writer'.sem = writer.sem
      /\ writer'.index = (writer.index + 1) % Capacity /\ writer'.counter = writer.counter + 1
  BY <1>1, <1>4 DEF AnyProcess
<1>7. /\ slots' = [slots EXCEPT ![writer.index] = [by |-> writer.gen,
                                                  control |-> writer.counter]]
      /\ count' = [count EXCEPT ![writer.sem] = count[writer.sem] + 1]
      /\ overrun' = IF count[writer.sem] >= Capacity
                      THEN overrun \union {writer.sem} ELSE overrun
      /\ UNCHANGED <<name, created, reader, users>>
  BY DEF Push
<1> QED BY <1>1, <1>2, <1>3, <1>5, <1>6, <1>7

LEMMA PopEffect ==
  ASSUME IInv, Pop
  PROVE  /\ reader.state = "open" /\ reader.sem \in Semaphores /\ reader.index \in Index
         /\ count[reader.sem] \in Nat \ {0} /\ Expected \in Nat
         /\ reader' \in AnyProcess
         /\ reader'.state = "open" /\ reader'.gen = reader.gen /\ reader'.sem = reader.sem
         /\ reader'.index = (reader.index + 1) % Capacity
         /\ reader'.counter = Expected + 1 /\ reader'.popped = reader.popped + 1
         /\ Expected = slots[reader.index].control
              => reader'.outcome = "frame" /\ reader'.got = slots[reader.index]
         /\ count' = [count EXCEPT ![reader.sem] = count[reader.sem] - 1]
         /\ UNCHANGED <<name, created, slots, writer, users, overrun>>
<1>1. /\ reader \in AnyProcess /\ created \in Nat /\ slots \in [Index -> AnyFrame]
      /\ reader.state = "open" /\ reader.sem \in 1 .. created
  BY DEF IInv, TypeOK, OpenHaveSemaphore, Pop
<1>2. reader.sem \in Semaphores
  BY <1>1, CreatedAreNumbered
<1>3. \A i \in Index : (i + 1) % Capacity \in Index
  BY NextIndex
<1>4. /\ reader.index \in Index /\ reader.counter \in Nat /\ reader.popped \in Nat
      /\ reader.got \in AnyFrame /\ reader.gen \in 0 .. MaxOpens /\ reader.sem \in Nat
      /\ slots[reader.index] \in AnyFrame
  BY <1>1 DEF AnyProcess
<1>5. Expected \in Nat
  BY <1>4 DEF Expected, AnyFrame
<1>6. count[reader.sem] \in Nat \ {0}
  BY <1>2 DEF IInv, TypeOK, Pop
<1> DEFINE ordered == Expected = slots[reader.index].control
           got == IF ordered THEN slots[reader.index] ELSE reader.got
           outcome == IF ordered THEN "frame" ELSE "unordered"
<1>7. reader' = [reader EXCEPT !.index = (reader.index + 1) % Capacity,
                               !.counter = Expected + 1,
                               !.popped = reader.popped + 1,
                               !.got = got, !.outcome = outcome]
  BY DEF Pop, Expected
<1>8. /\ got \in AnyFrame /\ outcome \in {"none", "frame", "unordered"}
      /\ ordered => got = slots[reader.index] /\ outcome = "frame"
  BY <1>4
<1>9. /\ count' = [count EXCEPT ![reader.sem] = count[reader.sem] - 1]
      /\ UNCHANGED <<name, created, slots, writer, users, overrun>>
  BY DEF Pop
<1>10. /\ reader' \in AnyProcess
       /\ reader'.state = "open" /\ reader'.gen = reader.gen /\ reader'.sem = reader.sem
       /\ reader'.index = (reader.index + 1) % Capacity
       /\ reader'.counter = Expected + 1 /\ reader'.popped = reader.popped + 1
       /\ reader'.outcome = outcome /\ reader'.got = got
  <2> HIDE DEF got, outcome
  <2>1. Expected + 1 \in Nat /\ reader.popped + 1 \in Nat
    BY <1>4, <1>5
  <2> QED BY <1>1, <1>3, <1>4, <1>7, <1>8, <2>1 DEF AnyProcess
<1> HIDE DEF got, outcome
<1> QED BY <1>1, <1>2, <1>4, <1>5, <1>6, <1>8, <1>9, <1>10

LEMMA OpenWriterEffect ==
  ASSUME IInv, OpenWriter
  PROVE  \E sem \in Semaphores :
           /\ sem = IF name = None THEN created + 1 ELSE name
           /\ name' = sem /\ created' \in Nat /\ sem \in 1 .. created'
           /\ created <= created' /\ created' <= created + 1
           /\ writer' \in AnyProcess /\ writer'.state = "open"
           /\ writer'.sem = sem /\ writer'.gen = writer.gen + 1
           /\ writer'.index = 0 /\ writer'.counter = 0
           /\ users' = [users EXCEPT ![sem] = users[sem] \union {writer.gen + 1}]
           /\ UNCHANGED <<count, slots, reader, overrun>>
<1> DEFINE sem == IF name = None THEN created + 1 ELSE name
           gen == writer.gen + 1
<1>1. /\ writer \in AnyProcess /\ created \in Nat /\ name \in Nat /\ name <= created
      /\ writer.gen < MaxOpens
  BY DEF IInv, TypeOK, FreshAreEmpty, OpenWriter
<1>2. gen \in 0 .. MaxOpens
  BY <1>1, Bounds DEF AnyProcess
<1>3. created + 1 \in Semaphores
  BY <1>1, RoomForOne DEF IInv
<1>4. sem \in Semaphores
  BY <1>1, <1>3, Bounds DEF None, Semaphores
<1>5. /\ writer' = [Closed(gen) EXCEPT !.state = "open", !.sem = sem]
      /\ name' = sem /\ created' = IF name = None THEN created + 1 ELSE created
      /\ users' = [users EXCEPT ![sem] = users[sem] \union {gen}]
      /\ UNCHANGED <<count, slots, reader, overrun>>
  BY DEF OpenWriter
<1>6. created' \in Nat /\ sem \in 1 .. created' /\ created <= created' /\ created' <= created + 1
  BY <1>1, <1>5 DEF None
<1>7. writer' \in AnyProcess
  <2>1. sem \in Nat
    BY <1>4 DEF Semaphores
  <2> HIDE DEF sem, gen
  <2> QED BY <1>2, <1>5, <2>1, ClosedIsProcess
<1>8. /\ writer'.state = "open" /\ writer'.sem = sem /\ writer'.gen = gen
      /\ writer'.index = 0 /\ writer'.counter = 0
  BY <1>5 DEF Closed
<1> QED BY <1>4, <1>5, <1>6, <1>7, <1>8

\* A reader's constructor makes a semaphore of its own, or leaves the reader
\* without one.
LEMMA OpenReaderEffect ==
  ASSUME IInv, OpenReader \/ RetryOpenReader
  PROVE  /\ reader' \in AnyProcess /\ UNCHANGED <<count, slots, writer, users, overrun>>
         /\ \/ /\ created' = created + 1 /\ name' = created + 1
               /\ created + 1 \in Semaphores
               /\ created + 1 <= writer.gen + reader'.gen
               /\ reader'.state = "open" /\ reader'.sem = created + 1
               /\ reader'.index = 0 /\ reader'.counter = 0 /\ reader'.popped = 0
            \/ /\ created' = created /\ name' \in {None, name}
               /\ reader'.state \in {"opening", "closed"}
               /\ created <= writer.gen + reader'.gen
               /\ reader'.state = "opening"
                    => created < writer.gen + reader'.gen /\ reader'.gen > 0
<1>1. /\ reader \in AnyProcess /\ writer \in AnyProcess /\ created \in Nat
      /\ name \in Nat /\ EnoughSemaphores /\ TypeOK
  BY DEF IInv, TypeOK
<1>2. reader.gen \in 0 .. MaxOpens /\ writer.gen \in 0 .. MaxOpens
  BY <1>1 DEF AnyProcess
<1>3. ASSUME NEW gen \in 0 .. MaxOpens, CreateForReader(gen)
      PROVE  /\ reader' \in AnyProcess /\ reader'.gen = gen
             /\ created' = created + 1 /\ name' = created + 1
             /\ reader'.state = "open" /\ reader'.sem = created + 1
             /\ reader'.index = 0 /\ reader'.counter = 0 /\ reader'.popped = 0
  <2>1. created + 1 \in Nat
    BY <1>1
  <2>2. reader' \in AnyProcess
    BY <1>3, <2>1, ClosedIsProcess DEF CreateForReader
  <2> QED BY <1>3, <2>2 DEF CreateForReader, Closed
<1>4. CASE OpenReader
  <2>1. /\ reader.state = "closed" /\ reader.gen + 1 \in 0 .. MaxOpens
        /\ UNCHANGED <<count, slots, writer, users, overrun>>
    BY <1>2, <1>4, Bounds DEF OpenReader
  <2>2. created + 1 \in Semaphores
    <3>1. reader.gen < MaxOpens /\ reader.state # "opening"
      BY <1>4 DEF OpenReader
    <3> QED BY <1>1, <3>1, RoomForOne
  <2>3. created <= writer.gen + reader.gen
    BY <1>1, <2>1 DEF EnoughSemaphores
  <2>4. CASE CreateForReader(reader.gen + 1)
    BY <1>1, <1>2, <1>3, <2>1, <2>2, <2>3, <2>4
  <2>5. CASE /\ name' = None /\ created' = created
             /\ reader' = [Closed(reader.gen + 1) EXCEPT !.state = "opening"]
    <3>1. reader'.state = "opening" /\ reader'.gen = reader.gen + 1
      BY <2>5 DEF Closed
    <3>2. reader' \in AnyProcess
      BY <2>1, <2>5, ClosedIsProcess
    <3> QED BY <1>1, <1>2, <2>1, <2>3, <2>5, <3>1, <3>2
  <2> QED BY <1>4, <2>4, <2>5 DEF OpenReader
<1>5. CASE RetryOpenReader
  <2>1. /\ reader.state = "opening"
        /\ UNCHANGED <<count, slots, writer, users, overrun>>
    BY <1>5 DEF RetryOpenReader
  <2>2. created + 1 \in Semaphores
    BY <1>1, <2>1, RoomForOne
  <2>3. created < writer.gen + reader.gen
    BY <1>1, <2>1 DEF EnoughSemaphores
  <2>4. CASE CreateForReader(reader.gen)
    BY <1>1, <1>2, <1>3, <2>1, <2>2, <2>3, <2>4
  <2>5. CASE reader' = Closed(reader.gen) /\ name' = name /\ created' = created
    <3>1. /\ reader' \in AnyProcess /\ reader'.state = "closed"
          /\ reader'.gen = reader.gen
      BY <1>2, <2>5, ClosedIsProcess
    <3> QED BY <1>1, <1>2, <2>1, <2>3, <2>5, <3>1
  <2> QED BY <1>5, <2>4, <2>5 DEF RetryOpenReader
<1> QED BY <1>4, <1>5

LEMMA EndEffect ==
  ASSUME IInv, WriterEnds \/ ReaderEnds
  PROVE  /\ UNCHANGED <<created, count, slots, users, overrun>>
         /\ name' \in {None, name}
         /\ writer' \in AnyProcess /\ reader' \in AnyProcess
         /\ writer' = writer \/ (writer'.state = "closed" /\ writer'.gen = writer.gen
                                   /\ reader' = reader)
         /\ reader' = reader \/ (reader'.state = "closed" /\ reader'.gen = reader.gen
                                   /\ writer' = writer)
<1>1. writer \in AnyProcess /\ reader \in AnyProcess
  BY DEF IInv, TypeOK
<1>2. writer.gen \in 0 .. MaxOpens /\ reader.gen \in 0 .. MaxOpens
  BY <1>1 DEF AnyProcess
<1>3. CASE WriterEnds
  <2>1. /\ UNCHANGED <<created, count, slots, users, overrun, reader>>
        /\ name' \in {None, name} /\ writer' = Closed(writer.gen)
    BY <1>3 DEF WriterEnds, DisposeWriter, CrashWriter, Dispose
  <2> QED BY <1>1, <1>2, <2>1, ClosedIsProcess
<1>4. CASE ReaderEnds
  <2>1. /\ UNCHANGED <<created, count, slots, users, overrun, writer>>
        /\ name' \in {None, name} /\ reader' = Closed(reader.gen)
    BY <1>4 DEF ReaderEnds, DisposeReader, CrashReader, Dispose
  <2> QED BY <1>1, <1>2, <2>1, ClosedIsProcess
<1> QED BY <1>3, <1>4

-----------------------------------------------------------------------------
(* One lemma for each part of the invariant.                               *)

LEMMA TypeStep ==
  ASSUME IInv, [Next]_vars
  PROVE  TypeOK' /\ EnoughSemaphores' /\ FreshAreEmpty' /\ OpenHaveSemaphore'
<1> USE DEF IInv, TypeOK, EnoughSemaphores, FreshAreEmpty, OpenHaveSemaphore
<1>1. /\ writer.gen \in Nat /\ reader.gen \in Nat /\ created \in Nat /\ name \in Nat
      /\ Capacity \in Nat
  BY Bounds DEF AnyProcess
<1>2. CASE OpenWriter
  <2>1. PICK sem \in Semaphores :
           /\ sem = IF name = None THEN created + 1 ELSE name
           /\ name' = sem /\ created' \in Nat /\ sem \in 1 .. created'
           /\ created <= created' /\ created' <= created + 1
           /\ writer' \in AnyProcess /\ writer'.state = "open"
           /\ writer'.sem = sem /\ writer'.gen = writer.gen + 1
           /\ writer'.index = 0 /\ writer'.counter = 0
           /\ users' = [users EXCEPT ![sem] = users[sem] \union {writer.gen + 1}]
           /\ UNCHANGED <<count, slots, reader, overrun>>
    BY <1>2, OpenWriterEffect
  <2>2. users' \in [Semaphores -> SUBSET Nat] /\ sem \in Nat
    BY <1>1, <2>1 DEF Semaphores
  <2>3. TypeOK'
    BY <2>1, <2>2
  <2>4. EnoughSemaphores'
    BY <1>1, <2>1
  <2>5. \A s \in Semaphores : s > created' => s # sem /\ s > created
    BY <1>1, <2>1 DEF Semaphores
  <2>6. \A s \in Semaphores : s > created' =>
          count'[s] = 0 /\ users'[s] = {} /\ s \notin overrun'
    BY <2>1, <2>5
  <2>7. FreshAreEmpty'
    BY <2>1, <2>6
  <2>8. \A s \in 1 .. created : s \in 1 .. created'
    BY <1>1, <2>1
  <2>9. OpenHaveSemaphore'
    BY <2>1, <2>8
  <2> QED BY <2>3, <2>4, <2>7, <2>9
<1>3. CASE OpenReader \/ RetryOpenReader
  <2>1. /\ reader' \in AnyProcess /\ UNCHANGED <<count, slots, writer, users, overrun>>
        /\ \/ /\ created' = created + 1 /\ name' = created + 1
              /\ created + 1 \in Semaphores
              /\ created + 1 <= writer.gen + reader'.gen
              /\ reader'.state = "open" /\ reader'.sem = created + 1
           \/ /\ created' = created /\ name' \in {None, name}
              /\ reader'.state \in {"opening", "closed"}
              /\ created <= writer.gen + reader'.gen
              /\ reader'.state = "opening"
                   => created < writer.gen + reader'.gen /\ reader'.gen > 0
    BY <1>3, OpenReaderEffect
  <2>2. created' \in Nat /\ name' \in Nat /\ name' <= created' /\ created <= created'
    BY <1>1, <2>1 DEF None
  <2>3. TypeOK'
    BY <2>1, <2>2
  <2>4. EnoughSemaphores'
    BY <2>1
  <2>5. \A s \in Semaphores : s > created' => s > created
    BY <1>1, <2>1 DEF Semaphores
  <2>6. FreshAreEmpty'
    BY <2>1, <2>2, <2>5
  <2>7. \A s \in 1 .. created : s \in 1 .. created'
    BY <1>1, <2>2
  <2>8. created + 1 \in 1 .. created + 1
    BY <1>1
  <2>9. OpenHaveSemaphore'
    BY <2>1, <2>7, <2>8
  <2> QED BY <2>3, <2>4, <2>6, <2>9
<1>4. CASE WriterEnds \/ ReaderEnds
  <2>1. /\ UNCHANGED <<created, count, slots, users, overrun>>
        /\ name' \in {None, name}
        /\ writer' \in AnyProcess /\ reader' \in AnyProcess
        /\ writer' = writer \/ (writer'.state = "closed" /\ writer'.gen = writer.gen
                                  /\ reader' = reader)
        /\ reader' = reader \/ (reader'.state = "closed" /\ reader'.gen = reader.gen
                                  /\ writer' = writer)
    BY <1>4, EndEffect
  <2>2. name' \in Nat /\ name' <= created'
    BY <1>1, <2>1 DEF None
  <2>3. TypeOK' /\ FreshAreEmpty'
    BY <2>1, <2>2
  <2>4. EnoughSemaphores'
    BY <1>1, <2>1
  <2>5. OpenHaveSemaphore'
    BY <2>1
  <2> QED BY <2>3, <2>4, <2>5
<1>5. CASE Push
  <2>1. /\ writer.sem \in Semaphores /\ writer.index \in Index
        /\ writer.gen \in Nat /\ writer.counter \in Nat
        /\ slots' = [slots EXCEPT ![writer.index] = [by |-> writer.gen,
                                                    control |-> writer.counter]]
        /\ writer' \in AnyProcess /\ writer.state = "open"
        /\ writer'.state = "open" /\ writer'.gen = writer.gen /\ writer'.sem = writer.sem
        /\ count' = [count EXCEPT ![writer.sem] = count[writer.sem] + 1]
        /\ overrun' \subseteq overrun \union {writer.sem}
        /\ UNCHANGED <<name, created, reader, users>>
    BY <1>5, PushEffect
  <2>2. slots' \in [Index -> AnyFrame]
    BY <2>1 DEF AnyFrame
  <2>3. count' \in [Semaphores -> Nat]
    BY <2>1
  <2>4. TypeOK'
    BY <2>1, <2>2, <2>3
  <2>5. EnoughSemaphores' /\ OpenHaveSemaphore'
    BY <2>1
  <2>6. writer.sem \in 1 .. created
    BY <2>1
  <2>7. \A s \in Semaphores : s > created => s # writer.sem
    BY <1>1, <2>6 DEF Semaphores
  <2>8. FreshAreEmpty'
    BY <2>1, <2>7
  <2> QED BY <2>4, <2>5, <2>8
<1>6. CASE Pop
  <2>1. /\ reader.sem \in Semaphores /\ count[reader.sem] \in Nat \ {0}
        /\ reader' \in AnyProcess /\ reader.state = "open"
        /\ reader'.state = "open" /\ reader'.gen = reader.gen /\ reader'.sem = reader.sem
        /\ count' = [count EXCEPT ![reader.sem] = count[reader.sem] - 1]
        /\ UNCHANGED <<name, created, slots, writer, users, overrun>>
    BY <1>6, PopEffect
  <2>2. count' \in [Semaphores -> Nat]
    BY <2>1
  <2>3. TypeOK'
    BY <2>1, <2>2
  <2>4. EnoughSemaphores' /\ OpenHaveSemaphore'
    BY <2>1
  <2>5. reader.sem \in 1 .. created
    BY <2>1
  <2>6. \A s \in Semaphores : s > created => s # reader.sem
    BY <1>1, <2>5 DEF Semaphores
  <2>7. FreshAreEmpty'
    BY <2>1, <2>6
  <2> QED BY <2>3, <2>4, <2>7
<1>7. CASE UNCHANGED vars
  BY <1>7 DEF vars
<1> QED BY <1>2, <1>3, <1>4, <1>5, <1>6, <1>7 DEF Next, WriterEnds, ReaderEnds

LEMMA SemaphoreStep ==
  ASSUME IInv, [Next]_vars
  PROVE  OneSemaphoreEach'
<1> USE DEF OneSemaphoreEach
<1>1. /\ writer.gen \in Nat /\ users \in [Semaphores -> SUBSET Nat]
      /\ OneSemaphoreEach
  BY Bounds DEF IInv, TypeOK, AnyProcess
<1>2. CASE OpenWriter
  <2>1. PICK sem \in Semaphores :
           /\ writer'.gen = writer.gen + 1
           /\ users' = [users EXCEPT ![sem] = users[sem] \union {writer.gen + 1}]
    BY <1>2, OpenWriterEffect
  <2>2. \A s \in Semaphores : \A g \in users[s] : g \in Nat /\ g <= writer.gen
    BY <1>1
  <2>3. \A s \in Semaphores : \A g \in users'[s] : g <= writer'.gen
    BY <1>1, <2>1, <2>2
  <2>4. \A s \in Semaphores : writer.gen + 1 \notin users[s]
    BY <1>1, <2>2
  <2>5. \A s, t \in Semaphores : \A g \in users'[s] \intersect users'[t] : s = t
    BY <1>1, <2>1, <2>4
  <2> QED BY <2>3, <2>5
<1>3. CASE ~OpenWriter
  <2>1. writer'.gen = writer.gen /\ users' = users
    BY <1>3, OpenReaderEffect, EndEffect, PushEffect, PopEffect
    DEF Next, WriterEnds, ReaderEnds, vars
  <2> QED BY <1>1, <2>1
<1> QED BY <1>2, <1>3

LEMMA PlaceStep ==
  ASSUME IInv, [Next]_vars
  PROVE  WriterPlace'
<1> USE DEF WriterPlace
<1>1. CASE OpenWriter
  <2>1. writer'.index = 0 /\ writer'.counter = 0
    BY <1>1, OpenWriterEffect
  <2>2. 0 % Capacity = 0
    BY Bounds
  <2> QED BY <2>1, <2>2
<1>2. CASE Push
  <2>1. /\ writer.state = "open" /\ writer.counter \in Nat
        /\ writer'.index = (writer.index + 1) % Capacity
        /\ writer'.counter = writer.counter + 1
    BY <1>2, PushEffect
  <2>2. writer.index = writer.counter % Capacity
    BY <2>1 DEF IInv
  <2> QED BY <2>1, <2>2, Bounds, ModNext
<1>3. CASE ~OpenWriter /\ ~Push
  <2>1. writer' = writer \/ writer'.state = "closed"
    BY <1>3, OpenReaderEffect, EndEffect, PopEffect
    DEF Next, WriterEnds, ReaderEnds, vars
  <2> QED BY <2>1 DEF IInv
<1> QED BY <1>1, <1>2, <1>3

\* While only the latest writer has opened the reader's semaphore, another
\* semaphore of that writer means that this one has not been opened at all.
LEMMA OtherSemaphoreUnused ==
  ASSUME IInv, OnlyLatest, writer.state = "open", writer.sem # reader.sem
  PROVE  users[reader.sem] = {}
<1>1. writer.sem \in 1 .. created /\ reader.sem \in 1 .. created
  BY DEF IInv, OpenHaveSemaphore, OnlyLatest
<1>2. writer.sem \in Semaphores /\ reader.sem \in Semaphores
  BY <1>1, CreatedAreNumbered
<1>3. writer.gen \in users[writer.sem]
  BY DEF IInv, OpenHaveSemaphore
<1>4. writer.gen \notin users[reader.sem]
  BY <1>2, <1>3 DEF IInv, OneSemaphoreEach
<1> QED BY <1>4 DEF OnlyLatest

LEMMA FramesOpenWriter ==
  ASSUME IInv, OpenWriter, OnlyLatest'
  PROVE  FreshFrames'
<1>1. PICK sem \in Semaphores :
           /\ created' \in Nat /\ sem \in 1 .. created'
           /\ writer'.sem = sem /\ writer'.gen = writer.gen + 1
           /\ writer'.counter = 0
           /\ users' = [users EXCEPT ![sem] = users[sem] \union {writer.gen + 1}]
           /\ UNCHANGED <<count, slots, reader, overrun>>
  BY OpenWriterEffect
<1>2. reader.state = "open" /\ reader.sem \in Semaphores
  BY <1>1, CreatedAreNumbered DEF OnlyLatest, IInv, OpenHaveSemaphore
<1>3. /\ \A g \in users[reader.sem] : g \in Nat /\ g <= writer.gen
      /\ writer.gen \in Nat /\ reader.popped \in Nat /\ count[reader.sem] \in Nat
      /\ users \in [Semaphores -> SUBSET Nat]
  BY <1>2, Bounds DEF IInv, TypeOK, OneSemaphoreEach, AnyProcess
<1>4. users[reader.sem] \subseteq users'[reader.sem]
  BY <1>1, <1>2, <1>3
<1>5. users[reader.sem] = {}
  BY <1>1, <1>3, <1>4 DEF OnlyLatest
<1>6. reader.popped = 0 /\ count[reader.sem] = 0
      /\ reader.counter = 0 /\ reader.index = 0 % Capacity
  BY <1>1, <1>2, <1>5 DEF IInv, FreshFrames, OnlyLatest
<1> QED BY <1>1, <1>6, Bounds DEF FreshFrames

LEMMA FramesOpenReader ==
  ASSUME IInv, OpenReader \/ RetryOpenReader, OnlyLatest'
  PROVE  FreshFrames'
<1>1. /\ UNCHANGED <<count, slots, writer, users, overrun>>
      /\ created + 1 \in Semaphores
      /\ reader'.sem = created + 1
      /\ reader'.index = 0 /\ reader'.counter = 0 /\ reader'.popped = 0
  BY OpenReaderEffect DEF OnlyLatest
<1>2. created \in Nat
  BY DEF IInv, TypeOK
<1>3. count[created + 1] = 0 /\ users[created + 1] = {}
  BY <1>1, <1>2 DEF IInv, FreshAreEmpty
<1>4. writer.state = "open" => writer.sem # created + 1
  BY <1>2 DEF IInv, OpenHaveSemaphore
<1>5. 0 % Capacity = 0
  BY Bounds
<1> QED BY <1>1, <1>3, <1>4, <1>5, Bounds DEF FreshFrames

LEMMA FramesPush ==
  ASSUME IInv, Push, OnlyLatest'
  PROVE  FreshFrames'
<1>1. /\ writer.state = "open" /\ writer.sem \in Semaphores /\ writer.index \in Index
      /\ writer.gen \in Nat /\ writer.counter \in Nat
      /\ slots' = [slots EXCEPT ![writer.index] = [by |-> writer.gen,
                                                  control |-> writer.counter]]
      /\ writer'.gen = writer.gen /\ writer'.sem = writer.sem
      /\ writer'.counter = writer.counter + 1
      /\ count' = [count EXCEPT ![writer.sem] = count[writer.sem] + 1]
      /\ overrun' = IF count[writer.sem] >= Capacity
                      THEN overrun \union {writer.sem} ELSE overrun
      /\ UNCHANGED <<name, created, reader, users>>
  BY PushEffect
<1>2. OnlyLatest
  BY <1>1 DEF OnlyLatest
<1>3. reader.state = "open" /\ reader.sem \in Semaphores
  BY <1>2, CreatedAreNumbered DEF OnlyLatest, IInv, OpenHaveSemaphore
<1> DEFINE n == count[reader.sem]
           first == reader.popped
<1>4. /\ n \in Nat /\ first \in Nat /\ count \in [Semaphores -> Nat]
      /\ slots \in [Index -> AnyFrame]
  BY <1>3 DEF IInv, TypeOK, AnyProcess
<1>5. /\ reader.counter = first /\ reader.index = first % Capacity /\ n <= Capacity
      /\ users[reader.sem] = {} => first = 0 /\ n = 0
      /\ \A k \in first .. first + n - 1 :
           slots[k % Capacity] = [by |-> writer.gen, control |-> k]
      /\ writer.sem = reader.sem => writer.counter = first + n
      /\ first > 0 => /\ reader.outcome = "frame"
                      /\ reader.got = [by |-> writer.gen, control |-> first - 1]
  BY <1>1, <1>2 DEF IInv, FreshFrames
<1>6. CASE writer.sem = reader.sem
  <2>1. n < Capacity /\ writer.counter = first + n
    BY <1>1, <1>4, <1>5, <1>6, Bounds DEF OnlyLatest
  <2>2. count'[reader.sem] = n + 1 /\ n + 1 <= Capacity
    BY <1>1, <1>3, <1>4, <1>6, <2>1, Bounds
  <2>3. users[reader.sem] # {}
    BY <1>1, <1>6 DEF IInv, OpenHaveSemaphore
  <2>4. writer.index = writer.counter % Capacity
    BY <1>1 DEF IInv, WriterPlace
  <2>5. \A k \in first .. first + n : slots'[k % Capacity] = [by |-> writer.gen, control |-> k]
    <3> SUFFICES ASSUME NEW k \in first .. first + n
                 PROVE  slots'[k % Capacity] = [by |-> writer.gen, control |-> k]
      OBVIOUS
    <3>1. CASE k = writer.counter
      BY <1>1, <1>4, <2>4, <3>1
    <3>2. CASE k # writer.counter
      <4>1. k \in Nat /\ k < writer.counter /\ writer.counter < k + Capacity
            /\ k \in first .. first + n - 1
        BY <1>4, <2>1, <3>2, Bounds
      <4>2. k % Capacity # writer.index /\ k % Capacity \in Index
        BY <1>1, <2>4, <4>1, Bounds, ModDistinct, ModRange DEF Index
      <4> QED BY <1>1, <1>4, <1>5, <4>1, <4>2
    <3> QED BY <3>1, <3>2
  <2>6. first + (n + 1) - 1 = first + n /\ writer.counter + 1 = first + (n + 1)
    BY <1>4, <2>1
  <2> QED BY <1>1, <1>5, <2>2, <2>3, <2>5, <2>6 DEF FreshFrames
<1>7. CASE writer.sem # reader.sem
  <2>1. users[reader.sem] = {}
    BY <1>1, <1>2, <1>7, OtherSemaphoreUnused
  <2>2. count'[reader.sem] = n
    BY <1>1, <1>3, <1>4, <1>7
  <2>3. first = 0 /\ n = 0
    BY <1>5, <2>1
  <2> QED BY <1>1, <1>4, <1>5, <1>7, <2>1, <2>2, <2>3, Bounds DEF FreshFrames
<1> QED BY <1>6, <1>7

LEMMA FramesPop ==
  ASSUME IInv, Pop, OnlyLatest'
  PROVE  FreshFrames'
<1>1. /\ reader.state = "open" /\ reader.sem \in Semaphores
      /\ count[reader.sem] \in Nat \ {0}
      /\ reader'.sem = reader.sem
      /\ reader'.index = (reader.index + 1) % Capacity
      /\ reader'.counter = Expected + 1 /\ reader'.popped = reader.popped + 1
      /\ Expected = slots[reader.index].control
           => reader'.outcome = "frame" /\ reader'.got = slots[reader.index]
      /\ count' = [count EXCEPT ![reader.sem] = count[reader.sem] - 1]
      /\ UNCHANGED <<name, created, slots, writer, users, overrun>>
  BY PopEffect
<1>2. OnlyLatest
  BY <1>1 DEF OnlyLatest
<1> DEFINE n == count[reader.sem]
           first == reader.popped
<1>3. n \in Nat \ {0} /\ first \in Nat /\ writer.gen \in Nat
      /\ count \in [Semaphores -> Nat]
  BY <1>1, Bounds DEF IInv, TypeOK, AnyProcess
<1>4. /\ reader.counter = first /\ reader.index = first % Capacity /\ n <= Capacity
      /\ users[reader.sem] # {}
      /\ \A k \in first .. first + n - 1 :
           slots[k % Capacity] = [by |-> writer.gen, control |-> k]
      /\ writer.state = "open" /\ writer.sem = reader.sem => writer.counter = first + n
  BY <1>2, <1>3 DEF IInv, FreshFrames
<1>5. slots[reader.index] = [by |-> writer.gen, control |-> first]
  BY <1>3, <1>4
<1>6. Expected = first
  BY <1>3, <1>4, <1>5 DEF Expected
<1>7. /\ reader'.counter = first + 1 /\ reader'.outcome = "frame"
      /\ reader'.got = [by |-> writer.gen, control |-> first]
  BY <1>1, <1>5, <1>6
<1>8. reader'.index = (first + 1) % Capacity
  BY <1>1, <1>3, <1>4, Bounds, ModNext
<1>9. count'[reader.sem] = n - 1 /\ n - 1 <= Capacity
  BY <1>1, <1>3, <1>4, Bounds
<1>10. /\ first + 1 .. (first + 1) + (n - 1) - 1 \subseteq first .. first + n - 1
       /\ first + n = (first + 1) + (n - 1) /\ (first + 1) - 1 = first
  BY <1>3
<1>11. \A k \in first + 1 .. (first + 1) + (n - 1) - 1 :
         slots'[k % Capacity] = [by |-> writer'.gen, control |-> k]
  BY <1>1, <1>4, <1>10
<1> QED BY <1>1, <1>4, <1>7, <1>8, <1>9, <1>10, <1>11 DEF FreshFrames

LEMMA FramesStep ==
  ASSUME IInv, [Next]_vars
  PROVE  FreshFrames'
<1> SUFFICES ASSUME OnlyLatest' PROVE FreshFrames'
  BY DEF FreshFrames
<1>1. CASE OpenWriter
  BY <1>1, FramesOpenWriter
<1>2. CASE OpenReader \/ RetryOpenReader
  BY <1>2, FramesOpenReader
<1>3. CASE WriterEnds \/ ReaderEnds
  <2>1. /\ UNCHANGED <<created, count, slots, users, overrun, reader>>
        /\ writer'.gen = writer.gen
        /\ writer' = writer \/ writer'.state = "closed"
    BY <1>3, EndEffect DEF OnlyLatest
  <2>2. OnlyLatest
    BY <2>1 DEF OnlyLatest
  <2> QED BY <2>1, <2>2 DEF IInv, FreshFrames
<1>4. CASE Push
  BY <1>4, FramesPush
<1>5. CASE Pop
  BY <1>5, FramesPop
<1>6. CASE UNCHANGED vars
  BY <1>6 DEF vars, IInv, FreshFrames, OnlyLatest
<1> QED BY <1>1, <1>2, <1>3, <1>4, <1>5, <1>6 DEF Next, WriterEnds, ReaderEnds

-----------------------------------------------------------------------------
LEMMA Invariance == Spec => []IInv
<1>1. Init => IInv
  BY InitHolds
<1>2. IInv /\ [Next]_vars => IInv'
  BY TypeStep, SemaphoreStep, PlaceStep, FramesStep DEF IInv
<1> QED BY <1>1, <1>2, PTL DEF Spec

\* The fields of both processes and everything they share hold values of their
\* kinds, however often they open, end and die.
THEOREM TypeCorrect == Spec => []TypeOK
<1>1. IInv => TypeOK
  BY DEF IInv
<1> QED BY <1>1, Invariance, PTL

\* For any ring and any number of constructor calls, ends and deaths: a reader
\* whose semaphore only the latest writer has used reads its frames in order.
THEOREM FreshPairs == Spec => []FreshPairInOrder
<1>1. IInv => FreshPairInOrder
  <2> SUFFICES ASSUME IInv, Undisturbed, reader.popped > 0
               PROVE  /\ reader.outcome = "frame"
                      /\ {reader.got.by} = users[reader.sem]
                      /\ reader.got.control = reader.popped - 1
    BY DEF FreshPairInOrder
  <2>1. OnlyLatest /\ users[reader.sem] = {writer.gen}
    BY DEF Undisturbed, OnlyLatest
  <2> QED BY <2>1 DEF IInv, FreshFrames
<1> QED BY <1>1, Invariance, PTL
=============================================================================
