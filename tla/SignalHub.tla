------------------------------ MODULE SignalHub ------------------------------
(***************************************************************************)
(* SignalHubServer of EventPi.SignalProcessing: sinks write the values of  *)
(* a signal into one channel, the chaser takes them out and aggregates     *)
(* them in the pipe of each client that subscribed to the signal, and each *)
(* pipe sends what came together at the ticks of its own timer.  A pipe    *)
(* has two buffers.  The chaser works on the one _write refers to while    *)
(* the pipe's loop resets and exchanges them, without any lock.            *)
(*                                                                         *)
(* The chaser's accesses are steps of their own.  Of the loop's, the reset *)
(* of all averages is one step, the exchange another and the collection of *)
(* the message a third: the chaser never looks at _read, and it has only   *)
(* one access under way, so that only one average of the buffer that is    *)
(* not _write can change under the loop.                                   *)
(*                                                                         *)
(* Clients and signals are numbered, and every client subscribes to all    *)
(* signals.  A value is represented by the order of its writing, and an    *)
(* average by the set of values that make it up: Average counts them in    *)
(* the type of the signal, in which CountMod is 0.                         *)
(***************************************************************************)
EXTENDS Integers, Sequences, FiniteSets

CONSTANTS
  Clients,       \* the clients; each subscribes at most once
  SignalCount,
  MaxWrites,     \* how many values are written (bounds the runs)
  CountMod       \* number of values of the type of the signals, 256 for a byte

ASSUME SignalCountAssumption == SignalCount \in Nat \ {0}
ASSUME MaxWritesAssumption == MaxWrites \in Nat
ASSUME CountModAssumption == CountMod \in Nat \ {0}

VARIABLES
  hubChannel,    \* _channel: the values written and not yet taken
  hubPipes,      \* _clients: per signal the clients whose pipes are in its bag
  hubChaser,     \* the chaser: the value in hand and how far AggregateAvg is
  hubLoop,       \* per client: where PipeSignals is, and at which signal
  hubBuffers,    \* per client: _b1 and _b2
  hubRefs,       \* per client: which of them _read and _write refer to
  hubWrites,     \* history: number of values written
  hubFed,        \* history: per client the values aggregated for it
  hubReports,    \* history: per client and value, in how many messages it was
  hubMissed,     \* history: per client the values of skipped averages
  hubRaces       \* history: per client the calls of AggregateAvg cut by a swap

hubHistory == <<hubWrites, hubFed, hubReports, hubMissed, hubRaces>>
hubVars == <<hubChannel, hubPipes, hubChaser, hubLoop, hubBuffers, hubRefs,
             hubHistory>>

Signals == 0 .. SignalCount - 1
Values == 0 .. MaxWrites - 1

\* Average<T>.Count of the values aggregated so far.
Count(average) == Cardinality(average) % CountMod

Resting == [at |-> "resting", value |-> 0, signal |-> 0, todo |-> {},
            client |-> 0, target |-> 1, average |-> {}, cut |-> FALSE]

HubInit ==
  /\ hubChannel = <<>>
  /\ hubPipes = [s \in Signals |-> {}]
  /\ hubChaser = Resting
  /\ hubLoop = [c \in Clients |-> [at |-> "out", signal |-> 0]]
  /\ hubBuffers = [c \in Clients |-> [b \in 1 .. 2 |-> [s \in Signals |-> {}]]]
  /\ hubRefs = [c \in Clients |-> [read |-> 2, write |-> 1]]
  /\ hubWrites = 0
  /\ hubFed = [c \in Clients |-> {}]
  /\ hubReports = [c \in Clients |-> [v \in Values |-> 0]]
  /\ hubMissed = [c \in Clients |-> {}]
  /\ hubRaces = [c \in Clients |-> 0]

-----------------------------------------------------------------------------
(* Sinks and the chaser.                                                   *)

\* SignalSink.Write
WriteSignal(s) ==
  /\ hubWrites < MaxWrites
  /\ hubChannel' = Append(hubChannel, [signal |-> s, value |-> hubWrites])
  /\ hubWrites' = hubWrites + 1
  /\ UNCHANGED <<hubPipes, hubChaser, hubLoop, hubBuffers, hubRefs, hubFed, hubReports, hubMissed, hubRaces>>

\* The next value is taken, with the bag of its signal as it is at this moment.
TakeValue ==
  /\ hubChaser.at = "resting"
  /\ hubChannel # <<>>
  /\ LET event == Head(hubChannel)
     IN  hubChaser' = IF hubPipes[event.signal] = {} THEN Resting
                      ELSE [Resting EXCEPT !.at = "dispatching",
                                           !.value = event.value,
                                           !.signal = event.signal,
                                           !.todo = hubPipes[event.signal]]
  /\ hubChannel' = Tail(hubChannel)
  /\ UNCHANGED <<hubPipes, hubLoop, hubBuffers, hubRefs, hubHistory>>

\* AggregateAvg of the next pipe: the array to be written to is _write ...
ChooseTarget(c) ==
  /\ hubChaser.at = "dispatching"
  /\ c \in hubChaser.todo
  /\ hubChaser' = [hubChaser EXCEPT !.at = "choosing", !.client = c,
                                    !.target = hubRefs[c].write, !.cut = FALSE,
                                    !.todo = @ \ {c}]
  /\ UNCHANGED <<hubChannel, hubPipes, hubLoop, hubBuffers, hubRefs, hubHistory>>

\* ... the average comes from what _write is when it is read again ...
ReadAverage ==
  /\ hubChaser.at = "choosing"
  /\ LET c == hubChaser.client
     IN  hubChaser' = [hubChaser EXCEPT !.at = "aggregated",
           !.average = hubBuffers[c][hubRefs[c].write][hubChaser.signal]
                         \union {hubChaser.value}]
  /\ UNCHANGED <<hubChannel, hubPipes, hubLoop, hubBuffers, hubRefs, hubHistory>>

\* ... and is stored in the array chosen first.
StoreAverage ==
  /\ hubChaser.at = "aggregated"
  /\ LET c == hubChaser.client
     IN  /\ hubBuffers' = [hubBuffers EXCEPT
              ![c][hubChaser.target][hubChaser.signal] = hubChaser.average]
         /\ hubFed' = [hubFed EXCEPT ![c] = @ \union {hubChaser.value}]
         /\ hubRaces' = IF hubChaser.cut THEN [hubRaces EXCEPT ![c] = @ + 1]
                        ELSE hubRaces
  /\ hubChaser' = IF hubChaser.todo = {} THEN Resting
                  ELSE [hubChaser EXCEPT !.at = "dispatching", !.average = {}]
  /\ UNCHANGED <<hubChannel, hubPipes, hubLoop, hubRefs, hubWrites, hubReports,
                 hubMissed>>

-----------------------------------------------------------------------------
(* PipeSignals of a client.                                                *)

LoopAt(c, at) == hubLoop[c].at = at
GoTo(c, at) == hubLoop' = [hubLoop EXCEPT ![c] = [at |-> at, signal |-> 0]]
\* One pass over the signals: on to the next one, or elsewhere after the last.
NextSignal(c, at, after) ==
  IF hubLoop[c].signal + 1 < SignalCount
    THEN hubLoop' = [hubLoop EXCEPT ![c] = [at |-> at, signal |-> @.signal + 1]]
    ELSE GoTo(c, after)

\* The pipe is added to the bag of one signal after the other.
Subscribe(c) ==
  /\ LoopAt(c, "out") \/ LoopAt(c, "joining")
  /\ hubPipes' = [hubPipes EXCEPT ![hubLoop[c].signal] = @ \union {c}]
  /\ NextSignal(c, "joining", "waiting")
  /\ UNCHANGED <<hubChannel, hubChaser, hubBuffers, hubRefs, hubHistory>>

\* Mutant: the buffer that holds the values of the period is emptied.
TickResets_Written(c) ==
  /\ LoopAt(c, "waiting")
  /\ hubBuffers' = [hubBuffers EXCEPT ![c][hubRefs[c].write] = [s \in Signals |-> {}]]
  /\ GoTo(c, "exchanging")
  /\ UNCHANGED <<hubChannel, hubPipes, hubChaser, hubRefs, hubHistory>>

\* Mutant: the buffer that comes next is not emptied.
TickResets_Nothing(c) ==
  /\ LoopAt(c, "waiting")
  /\ GoTo(c, "exchanging")
  /\ UNCHANGED <<hubChannel, hubPipes, hubChaser, hubBuffers, hubRefs, hubHistory>>

\* At a tick Swap empties the averages of _read ...
TickResets(c) ==
  /\ LoopAt(c, "waiting")
  /\ hubBuffers' = [hubBuffers EXCEPT ![c][hubRefs[c].read] = [s \in Signals |-> {}]]
  /\ GoTo(c, "exchanging")
  /\ UNCHANGED <<hubChannel, hubPipes, hubChaser, hubRefs, hubHistory>>

\* Mutant: only _read is set, _write stays what it was.
Exchange_OneOnly(c) ==
  /\ LoopAt(c, "exchanging")
  /\ hubRefs' = [hubRefs EXCEPT ![c].read = hubRefs[c].write]
  /\ GoTo(c, "writing")
  /\ UNCHANGED <<hubChannel, hubPipes, hubChaser, hubBuffers, hubHistory>>

\* ... and exchanges the references.  History: if the chaser has chosen its
\* array but has not stored into it, its call is cut.
Exchange(c) ==
  /\ LoopAt(c, "exchanging")
  /\ hubRefs' = [hubRefs EXCEPT ![c] = [read |-> hubRefs[c].write,
                                        write |-> hubRefs[c].read]]
  /\ GoTo(c, "writing")
  /\ LET calls == hubChaser.at \in {"choosing", "aggregated"} /\ hubChaser.client = c
     IN  hubChaser' = [hubChaser EXCEPT !.cut = @ \/ calls]
  /\ UNCHANGED <<hubChannel, hubPipes, hubBuffers, hubHistory>>

\* WriteTo sends the averages of _read, without those whose count is 0 or has
\* come round to 0.
WriteTo(c) ==
  /\ LoopAt(c, "writing")
  /\ LET averages == {hubBuffers[c][hubRefs[c].read][s] : s \in Signals}
         sent == UNION {a \in averages : Count(a) > 0}
     IN  /\ hubReports' = [hubReports EXCEPT ![c] =
              [v \in Values |-> IF v \in sent THEN @[v] + 1 ELSE @[v]]]
         /\ hubMissed' = [hubMissed EXCEPT
                            ![c] = @ \union UNION {a \in averages : Count(a) = 0}]
  /\ GoTo(c, "waiting")
  /\ UNCHANGED <<hubChannel, hubPipes, hubChaser, hubBuffers, hubRefs, hubWrites,
                 hubFed, hubRaces>>

\* The token is cancelled while the loop waits for a tick or for the socket, or
\* the socket fails: whatever it is, the finally block follows.
Leave(c) ==
  /\ LoopAt(c, "waiting") \/ LoopAt(c, "writing")
  /\ GoTo(c, "leaving")
  /\ UNCHANGED <<hubChannel, hubPipes, hubChaser, hubBuffers, hubRefs, hubHistory>>

\* Some pipe is taken out of the bag of one signal after the other.
LeaveSignal(c) ==
  /\ LoopAt(c, "leaving")
  /\ \E taken \in hubPipes[hubLoop[c].signal] :
       hubPipes' = [hubPipes EXCEPT ![hubLoop[c].signal] = @ \ {taken}]
  /\ NextSignal(c, "leaving", "left")
  /\ UNCHANGED <<hubChannel, hubChaser, hubBuffers, hubRefs, hubHistory>>

-----------------------------------------------------------------------------
Chaser ==
  \/ TakeValue
  \/ \E c \in Clients : ChooseTarget(c)
  \/ ReadAverage \/ StoreAverage

Loop(c) == TickResets(c) \/ Exchange(c) \/ WriteTo(c) \/ LeaveSignal(c)

HubNext ==
  \/ \E s \in Signals : WriteSignal(s)
  \/ Chaser
  \/ \E c \in Clients : Subscribe(c) \/ Loop(c) \/ Leave(c)

\* The chaser's thread and the timers go on; nobody has to write, to subscribe
\* or to leave.
HubFairness ==
  /\ WF_hubVars(Chaser)
  /\ \A c \in Clients : /\ WF_hubVars(Loop(c))
                        /\ WF_hubVars(LoopAt(c, "joining") /\ Subscribe(c))

HubSpec == HubInit /\ [][HubNext]_hubVars
HubFairSpec == HubSpec /\ HubFairness

-----------------------------------------------------------------------------
(* Properties.                                                             *)

\* A value is on its way: in the buffer being filled or in the one being sent.
Pending(c, v) ==
  LET filled == {hubRefs[c].write}
        \union (IF LoopAt(c, "writing") THEN {hubRefs[c].read} ELSE {})
  IN  \E b \in filled : \E s \in Signals : v \in hubBuffers[c][b][s]

\* Without a swap in the middle of an aggregation, each value a pipe was fed
\* with is reported once: it was in one message, or it is on its way, or it was
\* part of an average whose count had come round to 0.  A cut call may lose values
\* or bring old ones back into a later message, but not more often than once:
\* there is nothing else that repeats a value.
ReportedOnce ==
  \A c \in Clients :
    /\ \A v \in hubFed[c] :
         hubRaces[c] > 0 \/ hubLoop[c].at \in {"leaving", "left"}
           \/ (IF Pending(c, v) THEN 1 ELSE 0) + (IF v \in hubMissed[c] THEN 1 ELSE 0)
                + hubReports[c][v] = 1
    /\ \A v \in Values : hubReports[c][v] <= 1 + hubRaces[c]

\* A value that a pipe was fed with reaches its client or is known to be lost.
FedIsReported ==
  \A c \in Clients : \A v \in Values :
    v \in hubFed[c] ~> \/ hubReports[c][v] > 0
                       \/ hubRaces[c] > 0 \/ v \in hubMissed[c]
                       \/ hubLoop[c].at \in {"leaving", "left"}

\* "Remove client pipe from all signal subscriptions": a client that leaves takes
\* its own pipe, so that one that stays has its pipe with every signal.
StayingClientSubscribed ==
  \A c \in Clients : \A s \in Signals :
    LoopAt(c, "waiting") => c \in hubPipes[s]
=============================================================================
