--------------------------- MODULE BufferLifecycle ---------------------------
(***************************************************************************)
(* How the two processes of a SharedCyclicBuffer come to share it: opening *)
(* the memory mapped file and the named semaphore on Unix, disposing of    *)
(* them, dying without disposing, and opening again.                       *)
(*                                                                         *)
(* A name in the file system denotes at most one semaphore; a process keeps *)
(* the semaphore it opened even when the name is removed or given to a new *)
(* one.  The ring file is never removed, so its slots survive both         *)
(* processes: both sides open it with the same capacity and frame size, so *)
(* the constructor finds a file of the size it wants and neither deletes   *)
(* nor refuses it.  PushBytes and PopPtr are single steps here; the steps  *)
(* inside them are the subject of SharedCyclicBuffer.                      *)
(***************************************************************************)
EXTENDS Integers, FiniteSets

CONSTANTS
  Capacity,    \* number of slots of the ring
  MaxFrames,   \* frames published by one writer process (bounds the runs)
  MaxOpens     \* constructor calls of each side (bounds the runs)

ASSUME CapacityAssumption == Capacity \in Nat \ {0}
ASSUME BoundAssumption == MaxFrames \in Nat /\ MaxOpens \in Nat \ {0}

VARIABLES
  name,       \* the semaphore the name denotes, or None
  created,    \* how many semaphores were created; they are 1 .. created
  count,      \* the value of each semaphore
  slots,      \* the ring file: the frame in each slot, or NoFrame
  writer,     \* the writer process
  reader,     \* the reader process
  users,      \* history: the writer processes that opened each semaphore
  overrun     \* history: the semaphores whose unread frames were overwritten

vars == <<name, created, count, slots, writer, reader, users, overrun>>

None == 0
Index == 0 .. Capacity - 1
Semaphores == 1 .. 2 * MaxOpens

\* A frame: its writer process, and the control word, which is its number.
NoFrame == [by |-> 0, control |-> 0]
Frame == [by: 0 .. MaxOpens, control: 0 .. MaxFrames]

\* The fields of SharedCyclicBuffer in either process.  gen numbers the
\* constructor calls, sem is the semaphore opened, index is _tail or _head,
\* counter is _frameCounter.
Process == [state: {"closed", "opening", "open"}, gen: 0 .. MaxOpens,
            sem: Semaphores \cup {None}, index: Index, counter: Nat,
            outcome: {"none", "frame", "unordered"}, got: Frame, popped: Nat]

Closed(gen) == [state |-> "closed", gen |-> gen, sem |-> None, index |-> 0,
                counter |-> 0, outcome |-> "none", got |-> NoFrame, popped |-> 0]

Init ==
  /\ name = None /\ created = 0
  /\ count = [s \in Semaphores |-> 0]
  /\ slots = [i \in Index |-> NoFrame]
  /\ writer = Closed(0) /\ reader = Closed(0)
  /\ users = [s \in Semaphores |-> {}]
  /\ overrun = {}

-----------------------------------------------------------------------------
(* Constructors.                                                           *)

\* sem_open(O_CREAT): the semaphore of that name, or a new one with count 0.
OpenWriter ==
  /\ writer.state = "closed" /\ writer.gen < MaxOpens
  /\ LET gen == writer.gen + 1
         sem == IF name = None THEN created + 1 ELSE name
     IN  /\ writer' = [Closed(gen) EXCEPT !.state = "open", !.sem = sem]
         /\ name' = sem
         /\ created' = IF name = None THEN created + 1 ELSE created
         /\ users' = [users EXCEPT ![sem] = @ \cup {gen}]
  /\ UNCHANGED <<count, slots, reader, overrun>>

\* The semaphore a successful sem_open(O_CREAT | O_EXCL) makes.
CreateForReader(gen) ==
  /\ created' = created + 1
  /\ name' = created + 1
  /\ reader' = [Closed(gen) EXCEPT !.state = "open", !.sem = created + 1]

\* Mutant: the reader joins an existing semaphore as the writer does.
OpenReader_Joins ==
  /\ reader.state = "closed" /\ reader.gen < MaxOpens
  /\ \/ /\ name = None
        /\ CreateForReader(reader.gen + 1)
     \/ /\ name # None
        /\ reader' = [Closed(reader.gen + 1) EXCEPT !.state = "open", !.sem = name]
        /\ UNCHANGED <<name, created>>
  /\ UNCHANGED <<count, slots, writer, users, overrun>>

\* The first sem_open(O_CREAT | O_EXCL) of the reader; if the name exists, it
\* is removed for a second attempt.
OpenReader ==
  /\ reader.state = "closed" /\ reader.gen < MaxOpens
  /\ \/ /\ name = None
        /\ CreateForReader(reader.gen + 1)
     \/ /\ name # None
        /\ name' = None
        /\ reader' = [Closed(reader.gen + 1) EXCEPT !.state = "opening"]
        /\ UNCHANGED created
  /\ UNCHANGED <<count, slots, writer, users, overrun>>

\* The second attempt: the constructor throws if a writer took the name.
RetryOpenReader ==
  /\ reader.state = "opening"
  /\ \/ /\ name = None
        /\ CreateForReader(reader.gen)
     \/ /\ name # None
        /\ reader' = Closed(reader.gen)
        /\ UNCHANGED <<name, created>>
  /\ UNCHANGED <<count, slots, writer, users, overrun>>

-----------------------------------------------------------------------------
(* The end of a process.                                                   *)

\* Dispose closes the semaphore and removes the name, whatever it denotes now.
Dispose(process) ==
  /\ name' = None
  /\ process.state = "open"

DisposeWriter ==
  /\ Dispose(writer)
  /\ writer' = Closed(writer.gen)
  /\ UNCHANGED <<created, count, slots, reader, users, overrun>>

DisposeReader ==
  /\ Dispose(reader)
  /\ reader' = Closed(reader.gen)
  /\ UNCHANGED <<created, count, slots, writer, users, overrun>>

\* A killed process removes nothing.
CrashWriter ==
  /\ writer.state = "open"
  /\ writer' = Closed(writer.gen)
  /\ UNCHANGED <<name, created, count, slots, reader, users, overrun>>

CrashReader ==
  /\ reader.state # "closed"
  /\ reader' = Closed(reader.gen)
  /\ UNCHANGED <<name, created, count, slots, writer, users, overrun>>

-----------------------------------------------------------------------------
(* PushBytes and PopPtr.                                                   *)

Push ==
  /\ writer.state = "open" /\ writer.counter < MaxFrames
  /\ slots' = [slots EXCEPT
       ![writer.index] = [by |-> writer.gen, control |-> writer.counter]]
  /\ writer' = [writer EXCEPT !.index = (@ + 1) % Capacity, !.counter = @ + 1]
  /\ count' = [count EXCEPT ![writer.sem] = @ + 1]
  /\ overrun' = IF count[writer.sem] >= Capacity
                THEN overrun \cup {writer.sem} ELSE overrun
  /\ UNCHANGED <<name, created, reader, users>>

Pop ==
  /\ reader.state = "open" /\ count[reader.sem] > 0
  /\ LET frame == slots[reader.index]
         expected == IF reader.counter = 0 THEN frame.control ELSE reader.counter
         ordered == expected = frame.control
     IN  reader' = [reader EXCEPT
           !.index = (@ + 1) % Capacity,
           !.counter = expected + 1,
           !.popped = @ + 1,
           !.got = IF ordered THEN frame ELSE @,
           !.outcome = IF ordered THEN "frame" ELSE "unordered"]
  /\ count' = [count EXCEPT ![reader.sem] = @ - 1]
  /\ UNCHANGED <<name, created, slots, writer, users, overrun>>

-----------------------------------------------------------------------------
Next ==
  \/ OpenWriter \/ OpenReader \/ RetryOpenReader
  \/ DisposeWriter \/ DisposeReader \/ CrashWriter \/ CrashReader
  \/ Push \/ Pop

Spec == Init /\ [][Next]_vars

\* The loops that push and pop go on and a constructor returns; nobody is
\* obliged to open or to close.
FairSpec == Spec /\ WF_vars(Push) /\ WF_vars(Pop) /\ WF_vars(RetryOpenReader)

-----------------------------------------------------------------------------
(* Properties.                                                             *)

BothOpen == writer.state = "open" /\ reader.state = "open"

\* A reader whose semaphore was opened by one writer process, the latest: any
\* later writer fills the same file, even if it posts another semaphore.
Undisturbed ==
  /\ reader.state = "open"
  /\ users[reader.sem] = {writer.gen}
  /\ reader.sem \notin overrun

\* Whatever lies in the file from earlier processes, and however earlier ones
\* ended: a reader whose semaphore only the latest writer process has used
\* reads exactly that writer's frames from the first one on.
FreshPairInOrder ==
  (Undisturbed /\ reader.popped > 0)
    => /\ reader.outcome = "frame"
       /\ {reader.got.by} = users[reader.sem]
       /\ reader.got.control = reader.popped - 1

\* The order of the test: the writer opens, then the reader; then the reader
\* gets what the writer writes.
WriterFirstServed ==
  (BothOpen /\ writer.counter > 0) ~> (~BothOpen \/ reader.popped > 0)
=============================================================================
