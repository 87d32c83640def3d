----------------------------- MODULE RfidHandler -----------------------------
(***************************************************************************)
(* The card reader of EventPi.Services.MachineWorkTime: concurrent calls   *)
(* of RfidHandler.Post, each with the card that was swiped, against one    *)
(* RfidState, and DisposeAsync.                                            *)
(*                                                                         *)
(* A call is a process.  Everything it does between two awaits on shared   *)
(* fields is split where another call can come in between: the two reads   *)
(* of ShouldSwipe, the interlocked counter, the shutdown flag, the handler *)
(* of the application, the append to the event store and the writes of the *)
(* state.  The application's handlers and the event store are external.    *)
(* The process may die, or be ended, at any time and begin another life    *)
(* with nothing but the stream in the store.                               *)
(***************************************************************************)
EXTENDS Integers, Sequences, FiniteSets

CONSTANTS
  Calls,       \* the calls of Post (each happens once)
  Cards,       \* the cards
  NoCard,      \* the empty card id
  Window,      \* the swipe window in ticks (5 seconds in the code)
  MaxTime,     \* bound on the clock
  MaxRestarts, \* how often the process dies and begins again (bounds the runs)
  WeakMemory   \* TRUE if the write of _shutdown may become visible late

ASSUME CallsAssumption == IsFiniteSet(Calls)
ASSUME CardAssumption == NoCard \notin Cards
ASSUME TimeAssumption == Window \in Nat /\ MaxTime \in Nat
ASSUME RestartAssumption == MaxRestarts \in Nat
ASSUME MemoryAssumption == WeakMemory \in BOOLEAN

VARIABLES
  now,         \* the clock
  working,     \* RfidState.IsMachineWorking
  cardId,      \* RfidState._cardId (null and "" are both NoCard)
  lastSwipe,   \* RfidState.LastSwipeDate, Never when null
  counter,     \* _postInvocationParallelCounter
  shutdown,    \* _shutdown, as the calls see it
  pc,          \* how far each call has come
  card,        \* the card of each call
  dpc,         \* how far DisposeAsync has come
  events,      \* the stream of the host in the event store
  life,        \* history: how often the process has begun again
  unsure,      \* history: some append was stored but reported as failed
  late,        \* history: DisposeAsync went on before its flag was visible
  checkedAt    \* history: the number of events stored when each call was
               \* checked, or Never if a swap was under way at that time

state == <<working, cardId, lastSwipe>>
history == <<life, unsure, late, checkedAt>>
vars == <<now, state, counter, shutdown, pc, card, dpc, events, history>>

Never == -1

Init ==
  /\ now = 0
  /\ working = FALSE /\ cardId = NoCard /\ lastSwipe = Never
  /\ counter = 0 /\ shutdown = FALSE
  /\ pc = [c \in Calls |-> "new"] /\ card \in [Calls -> Cards]
  /\ dpc = "running"
  /\ events = <<>> /\ life = 0 /\ unsure = FALSE /\ late = FALSE
  /\ checkedAt = [c \in Calls |-> Never]

Goto(c, from, to) ==
  /\ pc[c] = from
  /\ pc' = [pc EXCEPT ![c] = to]

Tick ==
  /\ now < MaxTime
  /\ now' = now + 1
  /\ UNCHANGED <<state, counter, shutdown, pc, card, dpc, events, history>>

-----------------------------------------------------------------------------
(* Post: the checks before the swap.                                       *)

Swapping == {"starting", "stopping", "setCard", "clearCard", "setDate", "flip"}

\* ShouldSwipe, first operand: another card than the one working.
CompareCard(c) ==
  /\ Goto(c, "new", IF cardId # card[c] THEN "checked" ELSE "dating")
  /\ checkedAt' = [checkedAt EXCEPT ![c] =
                     IF \E d \in Calls : pc[d] \in Swapping THEN Never
                     ELSE Len(events)]
  /\ UNCHANGED <<now, state, counter, shutdown, card, dpc, events, life, unsure, late>>

\* Mutant: the window ends one tick early.
CompareDate_AtLeast(c) ==
  /\ Goto(c, "dating",
          IF lastSwipe # Never /\ now - lastSwipe >= Window
          THEN "checked" ELSE "done")
  /\ UNCHANGED <<now, state, counter, shutdown, card, dpc, events, history>>

\* ShouldSwipe, second operand: the same card after the window.
CompareDate(c) ==
  /\ Goto(c, "dating",
          IF lastSwipe # Never /\ now - lastSwipe > Window
          THEN "checked" ELSE "done")
  /\ UNCHANGED <<now, state, counter, shutdown, card, dpc, events, history>>

\* Mutant: the result of the increment is compared with the wrong number.
Enter_TwoAllowed(c) ==
  /\ Goto(c, "checked", IF counter <= 1 THEN "entered" ELSE "leaving")
  /\ counter' = counter + 1
  /\ UNCHANGED <<now, state, shutdown, card, dpc, events, history>>

\* Interlocked.Increment; a result other than 1 means a concurrent call.
Enter(c) ==
  /\ Goto(c, "checked", IF counter = 0 THEN "entered" ELSE "leaving")
  /\ counter' = counter + 1
  /\ UNCHANGED <<now, state, shutdown, card, dpc, events, history>>

\* The invocation ends at once on shutdown, without a decrement; otherwise it
\* asks the state which way to swap.
TestShutdown(c) ==
  /\ Goto(c, "entered", IF shutdown THEN "abandoned"
                        ELSE IF working THEN "stopping" ELSE "starting")
  /\ UNCHANGED <<now, state, counter, shutdown, card, dpc, events, history>>

-----------------------------------------------------------------------------
(* Post: the swap.                                                         *)

\* The swipe of a call is fresh if nothing was swapped since it was checked.
Fresh(c) == checkedAt[c] = Len(events)
Started(c) == [kind |-> "started", by |-> card[c], for |-> card[c], at |-> now,
               fresh |-> Fresh(c), life |-> life]
Stopped(by, fresh) == [kind |-> "stopped", by |-> by, for |-> cardId, at |-> now,
                       fresh |-> fresh, life |-> life]

\* Mutant: the decrement is not in a finally.
HandlerFails_KeepsTurn(c) ==
  /\ pc[c] \in {"starting", "stopping"}
  /\ pc' = [pc EXCEPT ![c] = "done"]
  /\ UNCHANGED <<now, state, counter, shutdown, card, dpc, events, history>>

\* The application's handler throws: nothing is stored, the finally runs.
HandlerFails(c) ==
  /\ pc[c] \in {"starting", "stopping"}
  /\ pc' = [pc EXCEPT ![c] = "leaving"]
  /\ UNCHANGED <<now, state, counter, shutdown, card, dpc, events, history>>

\* The handler has returned and the event is sent to the store: it is stored
\* and confirmed, stored but the call throws, or not stored.
AppendTo(stored, confirmed, event) ==
  /\ events' = IF stored THEN Append(events, event) ELSE events
  /\ unsure' = (unsure \/ (stored /\ ~confirmed))

\* Mutant: an exception of the store is swallowed.
AppendEvent_Swallows(c) ==
  /\ \E stored, confirmed \in BOOLEAN :
       /\ confirmed => stored
       /\ \/ /\ Goto(c, "starting", "setCard")
             /\ AppendTo(stored, confirmed, Started(c))
          \/ /\ Goto(c, "stopping", "clearCard")
             /\ AppendTo(stored, confirmed, Stopped(card[c], Fresh(c)))
  /\ UNCHANGED <<now, state, counter, shutdown, card, dpc, life, late, checkedAt>>

AppendEvent(c) ==
  /\ \E stored, confirmed \in BOOLEAN :
       /\ confirmed => stored
       /\ \/ /\ Goto(c, "starting", IF confirmed THEN "setCard" ELSE "leaving")
             /\ AppendTo(stored, confirmed, Started(c))
          \/ /\ Goto(c, "stopping", IF confirmed THEN "clearCard" ELSE "leaving")
             /\ AppendTo(stored, confirmed, Stopped(card[c], Fresh(c)))
  /\ UNCHANGED <<now, state, counter, shutdown, card, dpc, life, late, checkedAt>>

\* SetCardId and ClearCardId: the card first, then the date.
WriteCard(c) ==
  /\ \/ /\ Goto(c, "setCard", "setDate")
        /\ cardId' = card[c]
     \/ /\ Goto(c, "clearCard", "setDate")
        /\ cardId' = NoCard
  /\ UNCHANGED <<now, working, lastSwipe, counter, shutdown, card, dpc, events, history>>

WriteDate(c) ==
  /\ Goto(c, "setDate", "flip")
  /\ lastSwipe' = now
  /\ UNCHANGED <<now, working, cardId, counter, shutdown, card, dpc, events, history>>

\* IsMachineWorking = !IsMachineWorking
Flip(c) ==
  /\ Goto(c, "flip", "leaving")
  /\ working' = ~working
  /\ UNCHANGED <<now, cardId, lastSwipe, counter, shutdown, card, dpc, events, history>>

\* Interlocked.Decrement of a rejected call, and of a finished one.
Leave(c) ==
  /\ Goto(c, "leaving", "done")
  /\ counter' = counter - 1
  /\ UNCHANGED <<now, state, shutdown, card, dpc, events, history>>

-----------------------------------------------------------------------------
(* DisposeAsync.                                                           *)

\* _shutdown = true is an ordinary write; on a weakly ordered memory the loop
\* below may read the counter before other threads see it.
BeginDispose ==
  /\ dpc = "running"
  /\ dpc' = "draining"
  /\ \/ shutdown' = TRUE /\ UNCHANGED late
     \/ WeakMemory /\ late' = TRUE /\ UNCHANGED shutdown
  /\ UNCHANGED <<now, state, counter, pc, card, events, life, unsure, checkedAt>>

ShutdownVisible ==
  /\ dpc # "running" /\ ~shutdown
  /\ shutdown' = TRUE
  /\ UNCHANGED <<now, state, counter, pc, card, dpc, events, history>>

\* while (_postInvocationParallelCounter > 0) await Task.Delay(20)
Drained ==
  /\ dpc = "draining" /\ counter = 0
  /\ dpc' = IF working THEN "stopping" ELSE "closed"
  /\ UNCHANGED <<now, state, counter, shutdown, pc, card, events, history>>

\* OnMachineStopped on behalf of nobody; an exception of the handler or of the
\* store leaves DisposeAsync.
StopOnDispose ==
  /\ dpc = "stopping"
  /\ \E stored, confirmed \in BOOLEAN :
       /\ confirmed => stored
       /\ AppendTo(stored, confirmed, Stopped(NoCard, TRUE))
       /\ IF confirmed
          THEN /\ dpc' = "closed"
               /\ cardId' = NoCard /\ lastSwipe' = now /\ working' = FALSE
          ELSE dpc' = "failed" /\ UNCHANGED state
  /\ UNCHANGED <<now, counter, shutdown, pc, card, life, late, checkedAt>>

-----------------------------------------------------------------------------
\* Mutant: the status outlives the process, the card does not.
Restart_StaysWorking ==
  /\ life < MaxRestarts
  /\ life' = life + 1
  /\ cardId' = NoCard /\ lastSwipe' = Never
  /\ counter' = 0 /\ shutdown' = FALSE
  /\ pc' = [c \in Calls |-> IF pc[c] = "new" THEN "new" ELSE "done"]
  /\ dpc' = "running"
  /\ UNCHANGED <<now, working, card, events, unsure, late, checkedAt>>

\* The process dies wherever it is, with every call under way, or it has ended; its
\* successor knows nothing of the stream.
Restart ==
  /\ life < MaxRestarts
  /\ life' = life + 1
  /\ working' = FALSE /\ cardId' = NoCard /\ lastSwipe' = Never
  /\ counter' = 0 /\ shutdown' = FALSE
  /\ pc' = [c \in Calls |-> IF pc[c] = "new" THEN "new" ELSE "done"]
  /\ dpc' = "running"
  /\ UNCHANGED <<now, card, events, unsure, late, checkedAt>>

-----------------------------------------------------------------------------
Post(c) ==
  \/ CompareCard(c) \/ CompareDate(c) \/ Enter(c) \/ TestShutdown(c)
  \/ HandlerFails(c) \/ AppendEvent(c) \/ WriteCard(c) \/ WriteDate(c)
  \/ Flip(c) \/ Leave(c)

Dispose == ShutdownVisible \/ Drained \/ StopOnDispose

Next == Tick \/ (\E c \in Calls : Post(c)) \/ BeginDispose \/ Dispose
        \/ Restart

Spec == Init /\ [][Next]_vars

\* A call that has passed its checks runs to its end: handlers and the event
\* store answer or throw.  DisposeAsync goes on once it is called.
Running(c) == pc[c] # "new" /\ Post(c)
FairSpec == Spec /\ WF_vars(Dispose) /\ \A c \in Calls : WF_vars(Running(c))

-----------------------------------------------------------------------------
(* Properties.                                                             *)

\* Only a card starts the machine.
Event ==
  [kind : {"started"}, by : Cards, for : Cards, at : Nat, fresh : BOOLEAN, life : Nat]
    \cup [kind : {"stopped"}, by : Cards \cup {NoCard}, for : Cards \cup {NoCard},
          at : Nat, fresh : BOOLEAN, life : Nat]

\* The types of the variables.
TypeOK ==
  /\ now \in 0 .. MaxTime
  /\ working \in BOOLEAN
  /\ cardId \in Cards \cup {NoCard}
  /\ lastSwipe \in Nat \cup {Never}
  /\ counter \in Nat
  /\ shutdown \in BOOLEAN
  /\ pc \in [Calls -> {"new", "dating", "checked", "entered", "starting",
               "stopping", "setCard", "clearCard", "setDate", "flip",
               "leaving", "abandoned", "done"}]
  /\ card \in [Calls -> Cards]
  /\ dpc \in {"running", "draining", "stopping", "closed", "failed"}
  /\ events \in Seq(Event) /\ life \in 0 .. MaxRestarts
  /\ checkedAt \in [Calls -> Nat \cup {Never}]
  /\ unsure \in BOOLEAN /\ late \in BOOLEAN

\* Two swipes never swap the status at the same time, and none does so while
\* DisposeAsync stops the machine, unless its flag was seen too late.
OneSwapAtATime ==
  \A c \in Calls : pc[c] \in Swapping =>
    /\ \A d \in Calls \ {c} : pc[d] \notin Swapping
    /\ late \/ dpc \notin {"stopping", "closed", "failed"}

\* Unless the store deceived the program, a stop follows the start of its own
\* session, made in the same life of the process, and names the card of that start;
\* a start follows a stop, or one that the death of the process has left open.
SessionsMatch ==
  (~unsure /\ ~late) =>
    \A i \in DOMAIN events :
      IF events[i].kind = "stopped"
      THEN /\ i > 1 /\ events[i - 1].kind = "started"
           /\ events[i - 1].life = events[i].life
           /\ events[i].for = events[i - 1].by
      ELSE i > 1 => \/ events[i - 1].kind = "stopped"
                    \/ events[i - 1].life < events[i].life

\* Whatever fails and whoever is rejected, the counter is the number of calls
\* that took a turn and have not given it back.  Only shutdown makes a call end
\* without giving its turn back.
CounterCountsTurns ==
  /\ counter = Cardinality({c \in Calls : pc[c] \in Swapping \cup
                              {"entered", "leaving", "abandoned"}})
  /\ (\E c \in Calls : pc[c] = "abandoned") => shutdown

\* A card that started the machine does not stop it within the window if its
\* swipe was checked after that start: overlapping calls, failures and shutdown
\* do not open the window, only a check made before the start does.
FreshSwipeHoldsWindow ==
  (~unsure /\ ~late) =>
    \A i \in 2 .. Len(events) :
      (/\ events[i - 1].kind = "started" /\ events[i].kind = "stopped"
       /\ events[i].by = events[i - 1].by /\ events[i].fresh)
        => events[i].at - events[i - 1].at > Window

\* A card that caused an event causes no other one within the window, as long
\* as the store did not deceive the program.
SwipeWindow ==
  ~unsure =>
    \A i \in 2 .. Len(events) :
      events[i].by = events[i - 1].by
        => events[i].at - events[i - 1].at > Window

\* DisposeAsync comes to its end.
DisposeReturns == dpc = "draining" ~> dpc \in {"closed", "failed"}

\* Calls that follow one another, as a single reader makes them: the
\* behaviours without two calls under way.
OneAtATime ==
  \A c, d \in Calls : c = d \/ {pc[c], pc[d]} \cap {"new", "abandoned", "done"} # {}
SequentialSpec == Init /\ [][Next /\ OneAtATime']_vars
=============================================================================
