-------------------------- MODULE RfidHandler_proofs --------------------------
(***************************************************************************)
(* Proofs about RfidHandler: for any number of calls, cards and restarts   *)
(* one call swaps at a time, the counter counts turns, sessions are well   *)
(* formed and a fresh swipe holds the window.                              *)
(*                                                                         *)
(* The counter is the key: only a call that finds nobody else's turn is    *)
(* let in, so that there is one holder, and between two of its steps the   *)
(* fields and the end of the stream are as it left them.                   *)
(***************************************************************************)
EXTENDS RfidHandler, FiniteSetTheorems, TLAPS

Writing == {"setCard", "clearCard", "setDate", "flip"}
Holding == Swapping \cup {"entered"}
Turns == {c \in Calls : pc[c] \in Swapping \cup {"entered", "leaving", "abandoned"}}

\* The call that was let in is the only one until it gives its turn back.
OneHolder ==
  \A c, d \in Calls : pc[c] \in Holding /\ pc[d] \in Holding => c = d

\* Once DisposeAsync has begun, newcomers see the flag, unless it is late.
FlagIsSet == dpc # "running" => shutdown \/ late

\* Nobody swaps while or after DisposeAsync stops the machine, unless the flag
\* is late.
ClosedToSwaps ==
  dpc \in {"stopping", "closed", "failed"} /\ ~late =>
    \A c \in Calls : pc[c] \notin Swapping

Last == events[Len(events)]

\* The stream ends with a start of this life.
LastOpen == Len(events) > 0 /\ Last.kind = "started" /\ Last.life = life

\* No call is between its event and the end of its swap.
Quiet == \A c \in Calls : pc[c] \notin Writing

\* The end of the stream and the fields agree, up to what the holder has yet to
\* write.
FieldsFollowStream ==
  /\ \A i \in DOMAIN events : events[i].life <= life
  /\ dpc = "stopping" => working
  /\ \A c \in Calls :
       /\ pc[c] = "starting" => ~working
       /\ pc[c] = "stopping" => working
       /\ pc[c] = "setCard" => ~working /\ LastOpen /\ Last.by = card[c]
       /\ pc[c] = "clearCard" => working /\ ~LastOpen
       /\ pc[c] \in {"setDate", "flip"} =>
            /\ working => ~LastOpen
            /\ ~working => LastOpen /\ cardId = Last.by
  /\ Quiet => /\ working <=> LastOpen
              /\ working => cardId = Last.by

Sessions == ~unsure /\ ~late => FieldsFollowStream /\ SessionsMatch

\* The date of the last swipe is not before that of the event it belongs to.
DatesFollowStream ==
  /\ \A i \in DOMAIN events : events[i].at <= now
  /\ lastSwipe <= now
  /\ Quiet /\ LastOpen => lastSwipe >= Last.at
  /\ \A c \in Calls : pc[c] = "flip" /\ ~working => lastSwipe >= Last.at

Waiting == {"checked", "entered", "starting", "stopping"}

\* What a fresh call was checked against is what it meets.
CheckStillHolds ==
  \A c \in Calls : Fresh(c) =>
    /\ pc[c] \in Waiting \cup {"dating"} => Quiet
    /\ pc[c] \in Waiting => \/ cardId # card[c]
                            \/ lastSwipe # Never /\ now - lastSwipe > Window

Windows ==
  /\ \A c \in Calls : checkedAt[c] <= Len(events)
  /\ ~unsure /\ ~late =>
       DatesFollowStream /\ CheckStillHolds /\ FreshSwipeHoldsWindow

IInv ==
  /\ TypeOK /\ CounterCountsTurns
  /\ OneHolder /\ FlagIsSet /\ ClosedToSwaps
  /\ Sessions /\ Windows

-----------------------------------------------------------------------------
LEMMA TurnsFinite == IsFiniteSet(Turns)
BY CallsAssumption, FS_Subset DEF Turns

LEMMA InitHolds == Init => IInv
<1> SUFFICES ASSUME Init PROVE IInv
  OBVIOUS
<1> USE DEF Init
<1>1. TypeOK
  <2>1. events \in Seq(Event)
    OBVIOUS
  <2>2. now \in 0 .. MaxTime /\ life \in 0 .. MaxRestarts
    BY TimeAssumption, RestartAssumption
  <2> QED BY <2>1, <2>2 DEF TypeOK
<1>2. CounterCountsTurns
  <2>1. Turns = {}
    BY DEF Turns, Swapping
  <2> QED BY <2>1, FS_EmptySet DEF CounterCountsTurns, Turns
<1>3. OneHolder /\ FlagIsSet /\ ClosedToSwaps
  BY DEF OneHolder, FlagIsSet, ClosedToSwaps, Holding, Swapping
<1>4. Sessions
  BY DEF Sessions, FieldsFollowStream, SessionsMatch, LastOpen
<1>5. Windows
  BY DEF Windows, DatesFollowStream, CheckStillHolds, FreshSwipeHoldsWindow,
         LastOpen, Never, Waiting
<1> QED BY <1>1, <1>2, <1>3, <1>4, <1>5 DEF IInv

-----------------------------------------------------------------------------
(* Types and the counter.                                                  *)

LEMMA StartedType ==
  ASSUME TypeOK, NEW c \in Calls
  PROVE  Started(c) \in Event
BY TimeAssumption, RestartAssumption DEF TypeOK, Started, Event, Fresh

LEMMA StoppedType ==
  ASSUME TypeOK, NEW by \in Cards \cup {NoCard}, NEW fresh \in BOOLEAN
  PROVE  Stopped(by, fresh) \in Event
BY TimeAssumption, RestartAssumption DEF TypeOK, Stopped, Event

LEMMA AppendType ==
  ASSUME TypeOK, NEW e \in Event, NEW stored \in BOOLEAN, NEW confirmed \in BOOLEAN,
         AppendTo(stored, confirmed, e)
  PROVE  events' \in Seq(Event) /\ unsure' \in BOOLEAN
BY DEF TypeOK, AppendTo

LEMMA TypeStep == IInv /\ [Next]_vars => TypeOK'
<1> SUFFICES ASSUME IInv, [Next]_vars PROVE TypeOK'
  OBVIOUS
<1>0. TypeOK
  BY DEF IInv
<1> USE <1>0 DEF TypeOK, Goto, state, history
<1>1. CASE Tick
  BY <1>1, TimeAssumption DEF Tick
<1>2. ASSUME NEW c \in Calls, CompareCard(c) PROVE TypeOK'
  BY <1>2 DEF CompareCard
<1>3. ASSUME NEW c \in Calls, CompareDate(c) PROVE TypeOK'
  BY <1>3 DEF CompareDate
<1>4. ASSUME NEW c \in Calls, Enter(c) PROVE TypeOK'
  BY <1>4 DEF Enter
<1>5. ASSUME NEW c \in Calls, TestShutdown(c) PROVE TypeOK'
  BY <1>5 DEF TestShutdown
<1>6. ASSUME NEW c \in Calls, HandlerFails(c) PROVE TypeOK'
  BY <1>6 DEF HandlerFails
<1>7. ASSUME NEW c \in Calls, AppendEvent(c) PROVE TypeOK'
  <2>1. events' \in Seq(Event) /\ unsure' \in BOOLEAN
    <3>1. Fresh(c) \in BOOLEAN /\ card[c] \in Cards
      BY DEF Fresh
    <3> QED BY <1>7, <3>1, StartedType, StoppedType, AppendType DEF AppendEvent
  <2> QED BY <1>7, <2>1 DEF AppendEvent
<1>8. ASSUME NEW c \in Calls, WriteCard(c) PROVE TypeOK'
  BY <1>8 DEF WriteCard
<1>9. ASSUME NEW c \in Calls, WriteDate(c) PROVE TypeOK'
  BY <1>9, TimeAssumption DEF WriteDate
<1>10. ASSUME NEW c \in Calls, Flip(c) PROVE TypeOK'
  BY <1>10 DEF Flip
<1>11. ASSUME NEW c \in Calls, Leave(c) PROVE TypeOK'
  <2>1. c \in Turns
    BY <1>11 DEF Leave, Turns
  <2>2. Cardinality(Turns) \in Nat /\ Cardinality(Turns) # 0
    BY <2>1, TurnsFinite, FS_EmptySet, FS_CardinalityType
  <2>3. counter - 1 \in Nat
    BY <2>2 DEF IInv, CounterCountsTurns, Turns
  <2> QED BY <1>11, <2>3 DEF Leave
<1>12. CASE BeginDispose \/ ShutdownVisible \/ Drained
  BY <1>12 DEF BeginDispose, ShutdownVisible, Drained
<1>13. CASE StopOnDispose
  <2>1. events' \in Seq(Event) /\ unsure' \in BOOLEAN
    BY <1>13, StoppedType, AppendType DEF StopOnDispose
  <2>2. now \in Nat
    BY TimeAssumption
  <2>3. /\ working' \in BOOLEAN /\ cardId' \in Cards \cup {NoCard}
        /\ lastSwipe' \in Nat \cup {Never} /\ dpc' \in {"closed", "failed"}
    BY <1>13, <2>2, Zenon DEF StopOnDispose
  <2> QED BY <1>13, <2>1, <2>3 DEF StopOnDispose
<1>14. CASE Restart
  <2>1. pc' \in [Calls -> {"new", "done"}]
    BY <1>14 DEF Restart
  <2>2. life' \in 0 .. MaxRestarts
    BY <1>14, RestartAssumption DEF Restart
  <2> QED BY <1>14, <2>1, <2>2 DEF Restart
<1>15. CASE UNCHANGED vars
  BY <1>15 DEF vars
<1> QED BY <1>1, <1>2, <1>3, <1>4, <1>5, <1>6, <1>7, <1>8, <1>9, <1>10, <1>11,
           <1>12, <1>13, <1>14, <1>15 DEF Next, Post, Dispose

\* The set of calls that have a turn changes with the counter.
LEMMA CounterStep == IInv /\ [Next]_vars => CounterCountsTurns'
<1> SUFFICES ASSUME IInv, [Next]_vars PROVE CounterCountsTurns'
  OBVIOUS
<1>0. /\ TypeOK /\ counter = Cardinality(Turns)
      /\ (\E c \in Calls : pc[c] = "abandoned") => shutdown
  BY DEF IInv, CounterCountsTurns, Turns
<1> SUFFICES /\ counter' = Cardinality(Turns')
             /\ (\E c \in Calls : pc'[c] = "abandoned") => shutdown'
  BY DEF CounterCountsTurns, Turns
<1> USE <1>0 DEF TypeOK, Goto, Turns, Swapping
<1>1. ASSUME NEW c \in Calls,
             \/ CompareCard(c) \/ CompareDate(c) \/ TestShutdown(c) \/ HandlerFails(c)
             \/ AppendEvent(c) \/ WriteCard(c) \/ WriteDate(c) \/ Flip(c)
      PROVE  /\ counter' = Cardinality(Turns')
             /\ (\E d \in Calls : pc'[d] = "abandoned") => shutdown'
  <2>1. counter' = counter /\ shutdown' = shutdown
    BY <1>1 DEF CompareCard, CompareDate, TestShutdown, HandlerFails, AppendEvent,
                WriteCard, WriteDate, Flip, state
  <2>2. PICK to : /\ pc' = [pc EXCEPT ![c] = to]
                  /\ c \in Turns <=> to \in Swapping \cup {"entered", "leaving", "abandoned"}
                  /\ to = "abandoned" => shutdown
    <3>1. CASE CompareCard(c) \/ CompareDate(c)
      BY <3>1 DEF CompareCard, CompareDate
    <3>2. CASE TestShutdown(c)
      <4>1. PICK to \in {"abandoned", "stopping", "starting"} :
                 pc' = [pc EXCEPT ![c] = to] /\ (to = "abandoned" => shutdown)
        BY <3>2 DEF TestShutdown
      <4> QED BY <3>2, <4>1 DEF TestShutdown
    <3>3. CASE HandlerFails(c) \/ WriteCard(c) \/ WriteDate(c) \/ Flip(c)
      BY <3>3 DEF HandlerFails, WriteCard, WriteDate, Flip
    <3>4. CASE AppendEvent(c)
      <4>1. PICK stored, confirmed \in BOOLEAN :
                 \/ Goto(c, "starting", IF confirmed THEN "setCard" ELSE "leaving")
                 \/ Goto(c, "stopping", IF confirmed THEN "clearCard" ELSE "leaving")
        BY <3>4 DEF AppendEvent
      <4> QED BY <4>1
    <3> QED BY <1>1, <3>1, <3>2, <3>3, <3>4
  <2>3. Turns' = Turns
    BY <2>2
  <2> QED BY <2>1, <2>2, <2>3
<1>2. ASSUME NEW c \in Calls, Enter(c)
      PROVE  /\ counter' = Cardinality(Turns')
             /\ (\E d \in Calls : pc'[d] = "abandoned") => shutdown'
  <2>1. Turns' = Turns \cup {c} /\ c \notin Turns
    BY <1>2 DEF Enter
  <2> HIDE DEF Turns
  <2>2. Cardinality(Turns') = Cardinality(Turns) + 1
    BY <2>1, TurnsFinite, FS_AddElement
  <2> QED BY <1>2, <2>2 DEF Enter, Turns
<1>3. ASSUME NEW c \in Calls, Leave(c)
      PROVE  /\ counter' = Cardinality(Turns')
             /\ (\E d \in Calls : pc'[d] = "abandoned") => shutdown'
  <2>1. Turns' = Turns \ {c} /\ c \in Turns
    BY <1>3 DEF Leave
  <2> HIDE DEF Turns
  <2>2. Cardinality(Turns') = Cardinality(Turns) - 1
    BY <2>1, TurnsFinite, FS_RemoveElement
  <2> QED BY <1>3, <2>2 DEF Leave, Turns
<1>4. CASE Tick \/ BeginDispose \/ Dispose \/ UNCHANGED vars
  <2>1. pc' = pc /\ counter' = counter /\ (shutdown => shutdown')
    BY <1>4 DEF Tick, BeginDispose, Dispose, ShutdownVisible, Drained, StopOnDispose,
                vars, state
  <2> QED BY <2>1
<1>5. CASE Restart
  <2>1. Turns' = {} /\ \A c \in Calls : pc'[c] # "abandoned"
    BY <1>5 DEF Restart
  <2> QED BY <1>5, <2>1, FS_EmptySet DEF Restart
<1> QED BY <1>1, <1>2, <1>3, <1>4, <1>5 DEF Next, Post

\* When the counter is 0 nobody has a turn.
LEMMA NobodysTurn ==
  ASSUME IInv, counter = 0
  PROVE  \A c \in Calls : pc[c] \notin Holding
<1>1. Turns = {}
  BY TurnsFinite, FS_EmptySet DEF IInv, CounterCountsTurns, Turns
<1> QED BY <1>1 DEF Turns, Holding

LEMMA HolderStep == IInv /\ [Next]_vars => OneHolder' /\ FlagIsSet' /\ ClosedToSwaps'
<1> SUFFICES ASSUME IInv, [Next]_vars PROVE OneHolder' /\ FlagIsSet' /\ ClosedToSwaps'
  OBVIOUS
<1> USE DEF IInv, TypeOK, OneHolder, FlagIsSet, ClosedToSwaps, Goto
<1>1. ASSUME NEW c \in Calls,
             \/ CompareCard(c) \/ CompareDate(c) \/ HandlerFails(c)
             \/ AppendEvent(c) \/ WriteCard(c) \/ WriteDate(c) \/ Flip(c) \/ Leave(c)
      PROVE  OneHolder' /\ FlagIsSet' /\ ClosedToSwaps'
  <2>1. dpc' = dpc /\ shutdown' = shutdown /\ late' = late
    BY <1>1 DEF CompareCard, CompareDate, HandlerFails, AppendEvent, WriteCard,
                WriteDate, Flip, Leave, history
  <2>2. PICK to : /\ pc' = [pc EXCEPT ![c] = to]
                  /\ to \in Holding => pc[c] \in Swapping
    <3>1. CASE CompareCard(c) \/ CompareDate(c) \/ HandlerFails(c) \/ Leave(c)
      BY <3>1 DEF CompareCard, CompareDate, HandlerFails, Leave, Holding, Swapping
    <3>2. CASE WriteCard(c) \/ WriteDate(c) \/ Flip(c)
      BY <3>2 DEF WriteCard, WriteDate, Flip, Holding, Swapping
    <3>3. CASE AppendEvent(c)
      <4>1. PICK stored, confirmed \in BOOLEAN :
                 \/ Goto(c, "starting", IF confirmed THEN "setCard" ELSE "leaving")
                 \/ Goto(c, "stopping", IF confirmed THEN "clearCard" ELSE "leaving")
        BY <3>3 DEF AppendEvent
      <4> QED BY <4>1 DEF Swapping
    <3> QED BY <1>1, <3>1, <3>2, <3>3
  <2> QED BY <2>1, <2>2 DEF Holding
<1>2. ASSUME NEW c \in Calls, Enter(c)
      PROVE  OneHolder' /\ FlagIsSet' /\ ClosedToSwaps'
  <2>1. CASE counter = 0
    BY <1>2, <2>1, NobodysTurn DEF Enter, state, history, Holding, Swapping
  <2>2. CASE counter # 0
    BY <1>2, <2>2 DEF Enter, state, history, Holding, Swapping
  <2> QED BY <2>1, <2>2
<1>3. ASSUME NEW c \in Calls, TestShutdown(c)
      PROVE  OneHolder' /\ FlagIsSet' /\ ClosedToSwaps'
  <2>1. CASE shutdown
    BY <1>3, <2>1 DEF TestShutdown, state, history, Holding, Swapping
  <2>2. CASE ~shutdown
    <3>1. PICK to \in {"stopping", "starting"} : pc' = [pc EXCEPT ![c] = to]
      BY <1>3, <2>2 DEF TestShutdown
    <3>2. dpc' = dpc /\ shutdown' = shutdown /\ late' = late /\ pc[c] = "entered"
      BY <1>3 DEF TestShutdown, history
    <3> QED BY <2>2, <3>1, <3>2 DEF Holding
  <2> QED BY <2>1, <2>2
<1>4. CASE Tick \/ UNCHANGED vars
  BY <1>4 DEF Tick, vars, history
<1>5. CASE BeginDispose \/ ShutdownVisible
  BY <1>5 DEF BeginDispose, ShutdownVisible, history
<1>6. CASE Drained
  BY <1>6, NobodysTurn DEF Drained, history, Holding
<1>7. CASE StopOnDispose
  BY <1>7 DEF StopOnDispose
<1>8. CASE Restart
  BY <1>8 DEF Restart, Holding, Swapping
<1> QED BY <1>1, <1>2, <1>3, <1>4, <1>5, <1>6, <1>7, <1>8 DEF Next, Post, Dispose

-----------------------------------------------------------------------------
(* Sessions.                                                               *)

LEMMA AppendFacts ==
  ASSUME TypeOK, NEW e \in Event, events' = Append(events, e)
  PROVE  /\ Len(events) \in Nat /\ Len(events') = Len(events) + 1
         /\ DOMAIN events = 1 .. Len(events)
         /\ DOMAIN events' = 1 .. Len(events) + 1
         /\ \A i \in DOMAIN events : events'[i] = events[i]
         /\ events'[Len(events) + 1] = e /\ Last' = e
         /\ Len(events) > 0 => /\ Last \in Event /\ Len(events) \in DOMAIN events
                               /\ events'[Len(events)] = Last
BY DEF TypeOK, Last

\* While the store tells the truth an append is made and confirmed, or not made.
LEMMA AppendCases ==
  ASSUME TypeOK, NEW c \in Calls, AppendEvent(c), ~unsure'
  PROVE  \/ /\ pc[c] \in {"starting", "stopping"}
            /\ pc' = [pc EXCEPT ![c] = "leaving"] /\ events' = events
         \/ /\ Goto(c, "starting", "setCard") /\ events' = Append(events, Started(c))
         \/ /\ Goto(c, "stopping", "clearCard")
            /\ events' = Append(events, Stopped(card[c], Fresh(c)))
<1>1. PICK stored, confirmed \in BOOLEAN :
        /\ confirmed => stored
        /\ \/ /\ Goto(c, "starting", IF confirmed THEN "setCard" ELSE "leaving")
              /\ AppendTo(stored, confirmed, Started(c))
           \/ /\ Goto(c, "stopping", IF confirmed THEN "clearCard" ELSE "leaving")
              /\ AppendTo(stored, confirmed, Stopped(card[c], Fresh(c)))
  BY DEF AppendEvent
<1>2. CASE confirmed
  BY <1>1, <1>2 DEF AppendTo
<1>3. CASE ~confirmed
  <2>1. ~stored /\ events' = events
    BY <1>1, <1>3 DEF AppendTo
  <2> QED BY <1>1, <1>3, <2>1 DEF Goto
<1> QED BY <1>2, <1>3

LEMMA StopCases ==
  ASSUME TypeOK, StopOnDispose, ~unsure'
  PROVE  \/ dpc' = "failed" /\ UNCHANGED <<state, events>>
         \/ /\ dpc' = "closed" /\ cardId' = NoCard /\ lastSwipe' = now
            /\ working' = FALSE
            /\ events' = Append(events, Stopped(NoCard, TRUE))
BY DEF StopOnDispose, AppendTo, state

\* One more stop closes the session that is open ...
LEMMA StopMatches ==
  ASSUME TypeOK, SessionsMatch, ~unsure, ~late, ~unsure', ~late',
         LastOpen, cardId = Last.by,
         NEW by \in Cards \cup {NoCard}, NEW fresh \in BOOLEAN,
         events' = Append(events, Stopped(by, fresh))
  PROVE  SessionsMatch'
<1>1. Stopped(by, fresh) \in Event
  BY StoppedType
<1>2. /\ Len(events) \in Nat \ {0} /\ DOMAIN events = 1 .. Len(events)
      /\ DOMAIN events' = 1 .. Len(events) + 1
      /\ \A i \in DOMAIN events : events'[i] = events[i]
      /\ events'[Len(events) + 1] = Stopped(by, fresh)
  BY <1>1, AppendFacts DEF LastOpen
<1>3. /\ events'[Len(events)] = Last
      /\ Last.kind = "started" /\ Last.life = life /\ cardId = Last.by
  BY <1>1, AppendFacts DEF LastOpen
<1>4. ASSUME NEW i \in DOMAIN events'
      PROVE  IF events'[i].kind = "stopped"
             THEN /\ i > 1 /\ events'[i - 1].kind = "started"
                  /\ events'[i - 1].life = events'[i].life
                  /\ events'[i].for = events'[i - 1].by
             ELSE i > 1 => \/ events'[i - 1].kind = "stopped"
                           \/ events'[i - 1].life < events'[i].life
  <2>1. CASE i \in DOMAIN events
    <3>1. events'[i] = events[i] /\ (i > 1 => events'[i - 1] = events[i - 1])
      BY <1>2, <2>1
    <3> QED BY <2>1, <3>1 DEF SessionsMatch
  <2>2. CASE i = Len(events) + 1
    <3>1. i > 1 /\ i - 1 = Len(events)
      BY <1>2, <2>2
    <3>2. /\ events'[i].kind = "stopped" /\ events'[i].life = life
          /\ events'[i].for = cardId
      BY <1>2, <2>2 DEF Stopped
    <3> QED BY <1>3, <3>1, <3>2
  <2> QED BY <1>2, <2>1, <2>2
<1> QED BY <1>4 DEF SessionsMatch

\* ... and one more start follows a session that is closed, or of an earlier life.
LEMMA StartMatches ==
  ASSUME TypeOK, SessionsMatch, ~unsure, ~late, ~unsure', ~late', ~LastOpen,
         \A i \in DOMAIN events : events[i].life <= life,
         NEW c \in Calls, events' = Append(events, Started(c))
  PROVE  SessionsMatch'
<1>1. Started(c) \in Event
  BY StartedType
<1>2. /\ Len(events) \in Nat /\ DOMAIN events = 1 .. Len(events)
      /\ DOMAIN events' = 1 .. Len(events) + 1
      /\ \A i \in DOMAIN events : events'[i] = events[i]
      /\ events'[Len(events) + 1] = Started(c)
  BY <1>1, AppendFacts
<1>3. Len(events) > 0 =>
        /\ events'[Len(events)] = Last
        /\ Last.kind = "stopped" \/ Last.life < life
  <2>1. SUFFICES ASSUME Len(events) > 0
                 PROVE  /\ events'[Len(events)] = Last
                        /\ Last.kind = "stopped" \/ Last.life < life
    OBVIOUS
  <2>2. Last \in Event /\ Last.life <= life /\ events'[Len(events)] = Last
    <3>1. /\ Last \in Event /\ Len(events) \in DOMAIN events
          /\ events'[Len(events)] = Last
      BY <1>1, <2>1, AppendFacts
    <3> QED BY <3>1 DEF Last
  <2>3. Last.kind \in {"started", "stopped"} /\ Last.life \in Nat /\ life \in Int
    BY <2>2, RestartAssumption DEF Event, TypeOK
  <2> QED BY <2>1, <2>2, <2>3 DEF LastOpen
<1>4. ASSUME NEW i \in DOMAIN events'
      PROVE  IF events'[i].kind = "stopped"
             THEN /\ i > 1 /\ events'[i - 1].kind = "started"
                  /\ events'[i - 1].life = events'[i].life
                  /\ events'[i].for = events'[i - 1].by
             ELSE i > 1 => \/ events'[i - 1].kind = "stopped"
                           \/ events'[i - 1].life < events'[i].life
  <2>1. CASE i \in DOMAIN events
    <3>1. events'[i] = events[i] /\ (i > 1 => events'[i - 1] = events[i - 1])
      BY <1>2, <2>1
    <3> QED BY <2>1, <3>1 DEF SessionsMatch
  <2>2. CASE i = Len(events) + 1
    <3>1. i > 1 => Len(events) > 0 /\ i - 1 = Len(events)
      BY <1>2, <2>2
    <3>2. events'[i].kind = "started" /\ events'[i].life = life
      BY <1>2, <2>2 DEF Started
    <3> QED BY <1>3, <3>1, <3>2
  <2> QED BY <1>2, <2>1, <2>2
<1> QED BY <1>4 DEF SessionsMatch

\* History does not forget.
LEMMA HistoryGrows == IInv /\ [Next]_vars => (unsure => unsure') /\ (late => late')
BY DEF IInv, TypeOK, Next, Post, Dispose, Tick, CompareCard, CompareDate, Enter,
       TestShutdown, HandlerFails, AppendEvent, AppendTo, WriteCard, WriteDate, Flip,
       Leave, BeginDispose, ShutdownVisible, Drained, StopOnDispose, Restart, vars,
       history

\* Steps outside of a swap leave alone what the stream is compared with.
LEMMA OutsideStep ==
  ASSUME TypeOK, FieldsFollowStream, NEW c \in Calls,
         \/ pc' = pc
         \/ \E to : /\ pc' = [pc EXCEPT ![c] = to]
                    /\ to \notin Swapping /\ pc[c] \notin Writing,
         UNCHANGED <<working, cardId, events, life, card>>,
         dpc' = "stopping" => working
  PROVE  FieldsFollowStream'
<1>1. /\ \A d \in Calls : pc'[d] \in Swapping => pc'[d] = pc[d]
      /\ \A d \in Calls : pc[d] \in Writing => pc'[d] \in Writing
  BY DEF TypeOK
<1>2. LastOpen' = LastOpen /\ Last' = Last
  BY DEF LastOpen, Last
<1>3. Quiet' => Quiet
  BY <1>1 DEF Quiet
<1> QED BY <1>1, <1>2, <1>3 DEF FieldsFollowStream, Swapping

\* No session of the life that ended is open for its successor.
LEMMA RestartCloses ==
  ASSUME TypeOK, FieldsFollowStream, Restart
  PROVE  ~LastOpen'
<1>1. \A i \in DOMAIN events : events[i] \in Event /\ events[i].life <= life
  BY DEF TypeOK, FieldsFollowStream
<1>2. Len(events) > 0 => Len(events) \in DOMAIN events
  BY DEF TypeOK
<1>3. Len(events) > 0 => Last.life \in Nat /\ Last.life <= life
  BY <1>1, <1>2 DEF Last, Event
<1>4. life \in Nat /\ life' = life + 1 /\ events' = events
  BY RestartAssumption DEF TypeOK, Restart
<1> QED BY <1>3, <1>4 DEF LastOpen, Last

LEMMA SessionStep == IInv /\ [Next]_vars => Sessions'
<1> SUFFICES ASSUME IInv, [Next]_vars, ~unsure', ~late'
             PROVE  FieldsFollowStream' /\ SessionsMatch'
  BY DEF Sessions
<1>0. /\ TypeOK /\ OneHolder /\ ClosedToSwaps /\ ~unsure /\ ~late
      /\ FieldsFollowStream /\ SessionsMatch
  BY HistoryGrows DEF IInv, Sessions
<1>a. ASSUME UNCHANGED <<events>> PROVE SessionsMatch'
  BY <1>0, <1>a DEF SessionsMatch
<1>b. ASSUME NEW c \in Calls, pc[c] \in Holding
      PROVE  \A d \in Calls \ {c} : pc[d] \notin Holding
  BY <1>0, <1>b DEF OneHolder
<1>1. CASE Tick \/ BeginDispose \/ ShutdownVisible \/ UNCHANGED vars
  <2>1. /\ UNCHANGED <<working, cardId, events, life, card, pc>>
        /\ dpc' = "stopping" => dpc = "stopping"
    BY <1>1 DEF Tick, BeginDispose, ShutdownVisible, vars, state, history
  <2>2. dpc' = "stopping" => working
    BY <1>0, <2>1 DEF FieldsFollowStream
  <2>3. CASE Calls = {}
    BY <1>0, <1>a, <2>1, <2>2, <2>3 DEF FieldsFollowStream, Quiet, LastOpen, Last
  <2>4. CASE Calls # {}
    BY <1>0, <1>a, <2>1, <2>2, <2>4, OutsideStep
  <2> QED BY <2>3, <2>4
<1>2. ASSUME NEW c \in Calls,
             CompareCard(c) \/ CompareDate(c) \/ Enter(c) \/ HandlerFails(c) \/ Leave(c)
      PROVE  FieldsFollowStream' /\ SessionsMatch'
  <2>1. UNCHANGED <<working, cardId, events, life, card, dpc>>
    BY <1>2 DEF CompareCard, CompareDate, Enter, HandlerFails, Leave, state, history
  <2>2. \E to : /\ pc' = [pc EXCEPT ![c] = to]
                /\ to \notin Swapping /\ pc[c] \notin Writing
    <3>1. PICK to \in {"checked", "dating", "done", "entered", "leaving"} :
               pc' = [pc EXCEPT ![c] = to]
      BY <1>2 DEF CompareCard, CompareDate, Enter, HandlerFails, Leave, Goto
    <3>2. pc[c] \notin Writing
      BY <1>2 DEF CompareCard, CompareDate, Enter, HandlerFails, Leave, Goto, Writing
    <3> QED BY <3>1, <3>2 DEF Swapping
  <2>3. dpc' = "stopping" => working
    BY <1>0, <2>1 DEF FieldsFollowStream
  <2> QED BY <1>0, <1>a, <2>1, <2>2, <2>3, OutsideStep
<1>3. ASSUME NEW c \in Calls, TestShutdown(c)
      PROVE  FieldsFollowStream' /\ SessionsMatch'
  <2>1. UNCHANGED <<working, cardId, events, life, card, dpc>>
    BY <1>3 DEF TestShutdown, state, history
  <2>2. PICK to \in {"abandoned", "stopping", "starting"} :
             /\ pc' = [pc EXCEPT ![c] = to]
             /\ to = "stopping" => working
             /\ to = "starting" => ~working
    BY <1>3 DEF TestShutdown, Goto
  <2>3. /\ \A d \in Calls : d # c => pc'[d] = pc[d]
        /\ pc'[c] = to
    BY <1>0, <2>2 DEF TypeOK
  <2>4. LastOpen' = LastOpen /\ Last' = Last /\ (Quiet' => Quiet)
    <3>1. pc[c] \notin Writing
      BY <1>3 DEF TestShutdown, Goto, Writing
    <3> QED BY <2>1, <2>3, <3>1 DEF LastOpen, Last, Quiet
  <2>5. FieldsFollowStream'
    BY <1>0, <2>1, <2>2, <2>3, <2>4 DEF FieldsFollowStream
  <2> QED BY <1>a, <2>1, <2>5
<1>4. ASSUME NEW c \in Calls, AppendEvent(c)
      PROVE  FieldsFollowStream' /\ SessionsMatch'
  <2>1. UNCHANGED <<working, cardId, life, card, dpc>>
    BY <1>4 DEF AppendEvent, state
  <2>2. pc[c] \in {"starting", "stopping"}
    BY <1>4 DEF AppendEvent, Goto
  <2>3. Quiet /\ \A d \in Calls \ {c} : pc[d] \notin Holding
    BY <1>b, <2>2 DEF Quiet, Holding, Swapping, Writing
  <2>4. dpc # "stopping"
    BY <1>0, <2>2 DEF ClosedToSwaps, Swapping
  <2>5. CASE events' = events /\ pc' = [pc EXCEPT ![c] = "leaving"]
    <3>1. \E to : /\ pc' = [pc EXCEPT ![c] = to]
                  /\ to \notin Swapping /\ pc[c] \notin Writing
      BY <2>2, <2>5 DEF Swapping, Writing
    <3> QED BY <1>0, <1>a, <2>1, <2>4, <2>5, <3>1, OutsideStep
  <2>6. CASE Goto(c, "starting", "setCard") /\ events' = Append(events, Started(c))
    <3>1. ~working /\ ~LastOpen
      BY <1>0, <2>3, <2>6 DEF FieldsFollowStream, Goto
    <3>2. SessionsMatch'
      BY <1>0, <2>6, <3>1, StartMatches DEF FieldsFollowStream
    <3>3. /\ LastOpen' /\ Last'.by = card[c]
          /\ \A i \in DOMAIN events' : events'[i].life <= life'
      <4>1. Started(c) \in Event
        BY <1>0, StartedType
      <4>2. /\ Len(events) \in Nat /\ Len(events') = Len(events) + 1
            /\ DOMAIN events = 1 .. Len(events)
            /\ DOMAIN events' = 1 .. Len(events) + 1
            /\ \A i \in DOMAIN events : events'[i] = events[i]
            /\ events'[Len(events) + 1] = Started(c) /\ Last' = Started(c)
        BY <1>0, <2>6, <4>1, AppendFacts
      <4>3. /\ Started(c).kind = "started" /\ Started(c).life = life
            /\ Started(c).by = card[c] /\ life \in Int
        BY <1>0, RestartAssumption DEF Started, TypeOK
      <4>4. LastOpen' /\ Last'.by = card[c]
        BY <2>1, <4>2, <4>3 DEF LastOpen
      <4>5. ASSUME NEW i \in DOMAIN events' PROVE events'[i].life <= life'
        <5>1. CASE i \in DOMAIN events
          BY <1>0, <2>1, <4>2, <5>1 DEF FieldsFollowStream
        <5>2. CASE i = Len(events) + 1
          BY <2>1, <4>2, <4>3, <5>2
        <5> QED BY <4>2, <5>1, <5>2
      <4> QED BY <4>4, <4>5
    <3>4. /\ pc'[c] = "setCard" /\ ~Quiet'
          /\ \A d \in Calls \ {c} : pc'[d] \notin Swapping
      BY <1>0, <2>3, <2>6 DEF Goto, TypeOK, Quiet, Writing, Holding
    <3> QED BY <2>1, <2>4, <3>1, <3>2, <3>3, <3>4 DEF FieldsFollowStream, Swapping
  <2>7. CASE /\ Goto(c, "stopping", "clearCard")
             /\ events' = Append(events, Stopped(card[c], Fresh(c)))
    <3>1. working /\ LastOpen /\ cardId = Last.by
      BY <1>0, <2>3, <2>7 DEF FieldsFollowStream, Goto
    <3>2. card[c] \in Cards \cup {NoCard} /\ Fresh(c) \in BOOLEAN
      BY <1>0 DEF TypeOK, Fresh
    <3>3. SessionsMatch'
      BY <1>0, <2>7, <3>1, <3>2, StopMatches
    <3>4. ~LastOpen' /\ \A i \in DOMAIN events' : events'[i].life <= life'
      <4> DEFINE e == Stopped(card[c], Fresh(c))
      <4>1. e \in Event
        BY <1>0, <3>2, StoppedType
      <4>2. /\ Len(events) \in Nat /\ Len(events') = Len(events) + 1
            /\ DOMAIN events = 1 .. Len(events)
            /\ DOMAIN events' = 1 .. Len(events) + 1
            /\ \A i \in DOMAIN events : events'[i] = events[i]
            /\ events'[Len(events) + 1] = e /\ Last' = e
        BY <1>0, <2>7, <4>1, AppendFacts
      <4>3. e.kind = "stopped" /\ e.life = life /\ life \in Int
        BY <1>0, RestartAssumption DEF Stopped, TypeOK
      <4> HIDE DEF e
      <4>4. ~LastOpen'
        BY <4>2, <4>3 DEF LastOpen
      <4>5. ASSUME NEW i \in DOMAIN events' PROVE events'[i].life <= life'
        <5>1. CASE i \in DOMAIN events
          BY <1>0, <2>1, <4>2, <5>1 DEF FieldsFollowStream
        <5>2. CASE i = Len(events) + 1
          BY <2>1, <4>2, <4>3, <5>2
        <5> QED BY <4>2, <5>1, <5>2
      <4> QED BY <4>4, <4>5
    <3>5. /\ pc'[c] = "clearCard" /\ ~Quiet'
          /\ \A d \in Calls \ {c} : pc'[d] \notin Swapping
      BY <1>0, <2>3, <2>7 DEF Goto, TypeOK, Quiet, Writing, Holding
    <3> QED BY <2>1, <2>4, <3>1, <3>3, <3>4, <3>5 DEF FieldsFollowStream, Swapping
  <2> QED BY <1>0, <1>4, <2>5, <2>6, <2>7, AppendCases
<1>5. ASSUME NEW c \in Calls, WriteCard(c) \/ WriteDate(c) \/ Flip(c)
      PROVE  FieldsFollowStream' /\ SessionsMatch'
  <2>1. UNCHANGED <<events, life, card, dpc>>
    BY <1>5 DEF WriteCard, WriteDate, Flip, history
  <2>2. pc[c] \in Writing
    BY <1>5 DEF WriteCard, WriteDate, Flip, Goto, Writing
  <2>3. \A d \in Calls \ {c} : pc[d] \notin Holding
    BY <1>b, <2>2 DEF Holding, Swapping, Writing
  <2>4. dpc # "stopping"
    BY <1>0, <2>2 DEF ClosedToSwaps, Swapping, Writing
  <2>5. LastOpen' = LastOpen /\ Last' = Last
    BY <2>1 DEF LastOpen, Last
  <2>6. \A d \in Calls \ {c} : pc'[d] \notin Swapping
    BY <1>0, <1>5, <2>3 DEF WriteCard, WriteDate, Flip, Goto, TypeOK, Holding
  <2>7. CASE WriteCard(c)
    <3>1. pc'[c] = "setDate" /\ ~Quiet' /\ working' = working
      BY <1>0, <2>7 DEF WriteCard, Goto, TypeOK, Quiet, Writing
    <3>2. (working => ~LastOpen) /\ (~working => LastOpen /\ cardId' = Last.by)
      BY <1>0, <2>7 DEF WriteCard, Goto, FieldsFollowStream
    <3> QED BY <1>0, <1>a, <2>1, <2>4, <2>5, <2>6, <3>1, <3>2
            DEF FieldsFollowStream, Swapping
  <2>8. CASE WriteDate(c)
    <3>1. pc'[c] = "flip" /\ ~Quiet' /\ UNCHANGED <<working, cardId>>
      BY <1>0, <2>8 DEF WriteDate, Goto, TypeOK, Quiet, Writing
    <3>2. (working => ~LastOpen) /\ (~working => LastOpen /\ cardId = Last.by)
      BY <1>0, <2>8 DEF WriteDate, Goto, FieldsFollowStream
    <3> QED BY <1>0, <1>a, <2>1, <2>4, <2>5, <2>6, <3>1, <3>2
            DEF FieldsFollowStream, Swapping
  <2>9. CASE Flip(c)
    <3>1. pc'[c] = "leaving" /\ cardId' = cardId /\ working' = ~working
      BY <1>0, <2>9 DEF Flip, Goto, TypeOK
    <3>2. (working => ~LastOpen) /\ (~working => LastOpen /\ cardId = Last.by)
      BY <1>0, <2>9 DEF Flip, Goto, FieldsFollowStream
    <3> QED BY <1>0, <1>a, <2>1, <2>4, <2>5, <2>6, <3>1, <3>2
            DEF FieldsFollowStream, Swapping
  <2> QED BY <1>5, <2>7, <2>8, <2>9
<1>6. CASE Drained
  <2>1. /\ UNCHANGED <<working, cardId, events, life, card, pc>>
        /\ dpc' = "stopping" => working
    BY <1>6 DEF Drained, state, history
  <2>2. CASE Calls = {}
    BY <1>0, <1>a, <2>1, <2>2 DEF FieldsFollowStream, Quiet, LastOpen, Last
  <2>3. CASE Calls # {}
    BY <1>0, <1>a, <2>1, <2>3, OutsideStep
  <2> QED BY <2>2, <2>3
<1>7. CASE StopOnDispose
  <2>1. dpc = "stopping" /\ UNCHANGED <<pc, card, life>>
    BY <1>7 DEF StopOnDispose
  <2>2. Quiet /\ \A c \in Calls : pc[c] \notin Swapping
    BY <1>0, <2>1 DEF ClosedToSwaps, Quiet, Swapping, Writing
  <2>3. working /\ LastOpen /\ cardId = Last.by
    BY <1>0, <2>1, <2>2 DEF FieldsFollowStream
  <2>4. CASE dpc' = "failed" /\ UNCHANGED <<state, events>>
    BY <1>0, <1>a, <2>1, <2>2, <2>3, <2>4
       DEF FieldsFollowStream, state, LastOpen, Last, Swapping
  <2>5. CASE /\ dpc' = "closed" /\ working' = FALSE
             /\ events' = Append(events, Stopped(NoCard, TRUE))
    <3>1. SessionsMatch'
      BY <1>0, <2>3, <2>5, StopMatches
    <3>2. ~LastOpen' /\ \A i \in DOMAIN events' : events'[i].life <= life'
      <4> DEFINE e == Stopped(NoCard, TRUE)
      <4>1. e \in Event
        BY <1>0, StoppedType
      <4>2. /\ Len(events) \in Nat /\ Len(events') = Len(events) + 1
            /\ DOMAIN events = 1 .. Len(events)
            /\ DOMAIN events' = 1 .. Len(events) + 1
            /\ \A i \in DOMAIN events : events'[i] = events[i]
            /\ events'[Len(events) + 1] = e /\ Last' = e
        BY <1>0, <2>5, <4>1, AppendFacts
      <4>3. e.kind = "stopped" /\ e.life = life /\ life \in Int
        BY <1>0, RestartAssumption DEF Stopped, TypeOK
      <4> HIDE DEF e
      <4>4. ~LastOpen'
        BY <4>2, <4>3 DEF LastOpen
      <4>5. ASSUME NEW i \in DOMAIN events' PROVE events'[i].life <= life'
        <5>1. CASE i \in DOMAIN events
          BY <1>0, <2>1, <4>2, <5>1 DEF FieldsFollowStream
        <5>2. CASE i = Len(events) + 1
          BY <2>1, <4>2, <4>3, <5>2
        <5> QED BY <4>2, <5>1, <5>2
      <4> QED BY <4>4, <4>5
    <3> QED BY <2>1, <2>2, <2>5, <3>1, <3>2 DEF FieldsFollowStream, Swapping
  <2> QED BY <1>0, <1>7, <2>4, <2>5, StopCases
<1>8. CASE Restart
  <2>1. /\ events' = events /\ working' = FALSE /\ dpc' = "running" /\ life' = life + 1
        /\ \A c \in Calls : pc'[c] \in {"new", "done"}
    BY <1>8 DEF Restart
  <2>2. life \in Nat /\ \A i \in DOMAIN events : events[i].life \in Nat
    <3>1. \A i \in DOMAIN events : events[i] \in Event
      BY <1>0 DEF TypeOK
    <3> QED BY <1>0, <3>1, RestartAssumption DEF Event, TypeOK
  <2>4. ~LastOpen'
    BY <1>0, <1>8, RestartCloses
  <2>5. \A i \in DOMAIN events' : events'[i].life <= life'
    BY <1>0, <2>1, <2>2 DEF FieldsFollowStream
  <2> QED BY <1>a, <2>1, <2>4, <2>5 DEF FieldsFollowStream
<1> QED BY <1>1, <1>2, <1>3, <1>4, <1>5, <1>6, <1>7, <1>8 DEF Next, Post, Dispose

-----------------------------------------------------------------------------
(* The window.                                                             *)

\* An append makes every older check stale.
LEMMA AppendOutdates ==
  ASSUME TypeOK, \A c \in Calls : checkedAt[c] <= Len(events),
         checkedAt' = checkedAt, NEW e \in Event, events' = Append(events, e)
  PROVE  \A c \in Calls : checkedAt'[c] <= Len(events') /\ ~Fresh(c)'
<1>1. Len(events) \in Nat /\ Len(events') = Len(events) + 1
  BY AppendFacts
<1>2. \A c \in Calls : checkedAt[c] \in Int
  BY DEF TypeOK, Never
<1> QED BY <1>1, <1>2 DEF Fresh

\* Neighbours after an append are neighbours from before, or the last and the new.
LEMMA AppendPairs ==
  ASSUME TypeOK, NEW e \in Event, events' = Append(events, e),
         NEW i \in 2 .. Len(events) + 1
  PROVE  \/ /\ i \in 2 .. Len(events)
            /\ events'[i] = events[i] /\ events'[i - 1] = events[i - 1]
         \/ /\ Len(events) > 0
            /\ events'[i] = e /\ events'[i - 1] = Last
<1>1. Len(events) \in Nat
  BY AppendFacts
<1>2. CASE i <= Len(events)
  <2>1. i \in 1 .. Len(events) /\ i - 1 \in 1 .. Len(events) /\ i \in 2 .. Len(events)
    BY <1>1, <1>2
  <2> QED BY <2>1, AppendFacts
<1>3. CASE i > Len(events)
  <2>1. i = Len(events) + 1 /\ i - 1 = Len(events) /\ Len(events) > 0
    BY <1>1, <1>3
  <2>2. events'[Len(events) + 1] = e /\ events'[Len(events)] = Last
    BY <2>1, AppendFacts
  <2> QED BY <2>1, <2>2
<1> QED BY <1>1, <1>2, <1>3

\* One more event keeps the property if it is no stop, or a stop that is fresh and
\* late enough, or one by another card.
LEMMA AppendHolds ==
  ASSUME TypeOK, ~unsure, ~late, FreshSwipeHoldsWindow,
         NEW e \in Event, events' = Append(events, e),
         Len(events) > 0 /\ Last.kind = "started" /\ e.kind = "stopped" /\ e.fresh
           => e.by # Last.by \/ e.at - Last.at > Window
  PROVE  FreshSwipeHoldsWindow'
<1>0. Len(events') = Len(events) + 1
  BY AppendFacts
<1>1. ASSUME NEW i \in 2 .. Len(events) + 1,
             events'[i - 1].kind = "started", events'[i].kind = "stopped",
             events'[i].by = events'[i - 1].by, events'[i].fresh
      PROVE  events'[i].at - events'[i - 1].at > Window
  <2>1. CASE /\ i \in 2 .. Len(events)
             /\ events'[i] = events[i] /\ events'[i - 1] = events[i - 1]
    BY <1>1, <2>1 DEF FreshSwipeHoldsWindow
  <2>2. CASE Len(events) > 0 /\ events'[i] = e /\ events'[i - 1] = Last
    BY <1>1, <2>2
  <2> QED BY <2>1, <2>2, AppendPairs
<1> QED BY <1>0, <1>1 DEF FreshSwipeHoldsWindow

\* The dates after an append: the new event is dated now.
LEMMA AppendDates ==
  ASSUME TypeOK, DatesFollowStream, now' = now, lastSwipe' \in {lastSwipe, now},
         NEW e \in Event, e.at = now, events' = Append(events, e)
  PROVE  /\ \A i \in DOMAIN events' : events'[i].at <= now'
         /\ lastSwipe' <= now'
<1>1. /\ Len(events) \in Nat /\ DOMAIN events = 1 .. Len(events)
      /\ DOMAIN events' = 1 .. Len(events) + 1
      /\ \A i \in DOMAIN events : events'[i] = events[i]
      /\ events'[Len(events) + 1] = e
  BY AppendFacts
<1>2. now \in Int
  BY TimeAssumption DEF TypeOK
<1>3. ASSUME NEW i \in DOMAIN events' PROVE events'[i].at <= now'
  <2>1. CASE i \in DOMAIN events
    BY <1>1, <2>1 DEF DatesFollowStream
  <2>2. CASE i = Len(events) + 1
    BY <1>1, <1>2, <2>2
  <2> QED BY <1>1, <2>1, <2>2
<1> QED BY <1>2, <1>3 DEF DatesFollowStream

\* Steps outside of a swap that make no call pass its checks leave all dates alone.
LEMMA CalmStep ==
  ASSUME TypeOK, DatesFollowStream, CheckStillHolds,
         UNCHANGED <<now, state, events, life, card, checkedAt>>,
         \/ pc' = pc
         \/ \E c \in Calls : \E to :
              /\ pc' = [pc EXCEPT ![c] = to]
              /\ pc[c] \notin Writing /\ to \notin Writing \cup {"dating"}
              /\ to \in Waiting => pc[c] \in Waiting
  PROVE  DatesFollowStream' /\ CheckStillHolds'
<1>1. /\ \A d \in Calls : pc[d] \in Writing <=> pc'[d] \in Writing
      /\ \A d \in Calls : pc'[d] \in Writing => pc'[d] = pc[d]
      /\ \A d \in Calls : pc'[d] \in Waiting => pc[d] \in Waiting
      /\ \A d \in Calls : pc'[d] = "dating" => pc[d] = "dating"
  BY DEF TypeOK, Writing
<1>2. /\ LastOpen' = LastOpen /\ Last' = Last /\ (Quiet' <=> Quiet)
      /\ \A d \in Calls : Fresh(d)' = Fresh(d)
  BY <1>1 DEF LastOpen, Last, Quiet, Fresh
<1>3. UNCHANGED <<now, lastSwipe, cardId, working, events, card>>
  BY DEF state
<1>4. DatesFollowStream'
  BY <1>1, <1>2, <1>3 DEF DatesFollowStream, Writing
<1>5. CheckStillHolds'
  BY <1>1, <1>2, <1>3 DEF CheckStillHolds
<1> QED BY <1>4, <1>5

LEMMA WindowStep == IInv /\ [Next]_vars => Windows'
<1> SUFFICES ASSUME IInv, [Next]_vars PROVE Windows'
  OBVIOUS
<1>0. TypeOK /\ TypeOK' /\ OneHolder /\ ClosedToSwaps
      /\ \A c \in Calls : checkedAt[c] <= Len(events)
  BY TypeStep DEF IInv, Windows
<1>t. /\ now \in Nat /\ lastSwipe \in Int /\ (lastSwipe # Never => lastSwipe \in Nat)
      /\ Window \in Nat /\ Len(events) \in Nat
      /\ \A c \in Calls : checkedAt[c] \in Int
      /\ \A i \in DOMAIN events : events[i] \in Event
  BY <1>0, TimeAssumption DEF TypeOK, Never
<1>u. ASSUME ~unsure', ~late'
      PROVE  /\ ~unsure /\ ~late
             /\ FieldsFollowStream /\ SessionsMatch
             /\ DatesFollowStream /\ CheckStillHolds /\ FreshSwipeHoldsWindow
  BY <1>u, HistoryGrows DEF IInv, Sessions, Windows
<1>b. ASSUME NEW c \in Calls, pc[c] \in Holding
      PROVE  \A d \in Calls \ {c} : pc[d] \notin Holding
  BY <1>0, <1>b DEF OneHolder
<1>e. ASSUME UNCHANGED <<events>>, FreshSwipeHoldsWindow, ~unsure, ~late
      PROVE  FreshSwipeHoldsWindow'
  BY <1>e DEF FreshSwipeHoldsWindow
<1>1. CASE Tick
  <2>1. /\ now' = now + 1
        /\ UNCHANGED <<lastSwipe, cardId, working, events, life, card, pc, checkedAt, unsure, late>>
    BY <1>1 DEF Tick, state, history
  <2>2. LastOpen' = LastOpen /\ Last' = Last /\ Quiet' = Quiet
        /\ \A d \in Calls : Fresh(d)' = Fresh(d)
    BY <2>1 DEF LastOpen, Last, Quiet, Fresh
  <2>3. ASSUME ~unsure', ~late' PROVE DatesFollowStream'
    <3>1. \A i \in DOMAIN events : events[i].at <= now /\ events[i].at \in Nat
      BY <1>t, <1>u, <2>3 DEF DatesFollowStream, Event
    <3> QED BY <1>t, <1>u, <2>1, <2>2, <2>3, <3>1 DEF DatesFollowStream
  <2>4. ASSUME ~unsure', ~late' PROVE CheckStillHolds'
    BY <1>t, <1>u, <2>1, <2>2, <2>4 DEF CheckStillHolds
  <2> QED BY <1>0, <1>u, <1>e, <2>1, <2>3, <2>4 DEF Windows
<1>2. CASE BeginDispose \/ ShutdownVisible \/ Drained \/ UNCHANGED vars
  <2>1. UNCHANGED <<now, state, events, life, card, checkedAt, pc>>
    BY <1>2 DEF BeginDispose, ShutdownVisible, Drained, vars, state, history
  <2> QED BY <1>0, <1>u, <1>e, <2>1, CalmStep DEF Windows
<1>3. ASSUME NEW c \in Calls, CompareCard(c) PROVE Windows'
  <2>1. /\ UNCHANGED <<now, lastSwipe, cardId, working, events, life, card>>
        /\ pc[c] = "new"
    BY <1>3 DEF CompareCard, state, Goto
  <2>2. /\ \A d \in Calls : d # c => pc'[d] = pc[d] /\ checkedAt'[d] = checkedAt[d]
        /\ checkedAt'[c] \in {Never, Len(events)}
        /\ checkedAt'[c] = Len(events) => Quiet
    BY <1>0, <1>3, <1>t DEF CompareCard, Goto, TypeOK, Never, Quiet, Writing, Swapping
  <2>3. /\ pc'[c] \in {"checked", "dating"}
        /\ pc'[c] = "checked" => cardId # card[c]
    BY <1>0, <1>3 DEF CompareCard, Goto, TypeOK
  <2>4. LastOpen' = LastOpen /\ Last' = Last /\ (Quiet' <=> Quiet)
    BY <2>1, <2>2, <2>3 DEF LastOpen, Last, Quiet, Writing
  <2>5. \A d \in Calls : checkedAt'[d] <= Len(events')
    BY <1>0, <1>t, <2>1, <2>2 DEF Never
  <2>6. ASSUME ~unsure', ~late' PROVE DatesFollowStream'
    <3>1. \A d \in Calls : pc'[d] = "flip" => pc[d] = "flip"
      BY <2>2, <2>3
    <3> QED BY <1>u, <2>1, <2>4, <2>6, <3>1 DEF DatesFollowStream
  <2>7. ASSUME ~unsure', ~late' PROVE CheckStillHolds'
    <3>1. ASSUME NEW d \in Calls, Fresh(d)', d # c
          PROVE  /\ pc'[d] \in Waiting \cup {"dating"} => Quiet'
                 /\ pc'[d] \in Waiting => \/ cardId' # card'[d]
                                          \/ lastSwipe' # Never /\ now' - lastSwipe' > Window
      BY <1>u, <2>1, <2>2, <2>4, <2>7, <3>1 DEF CheckStillHolds, Fresh
    <3>2. ASSUME Fresh(c)'
          PROVE  /\ Quiet'
                 /\ pc'[c] \in Waiting => cardId' # card'[c]
      BY <2>1, <2>2, <2>3, <2>4, <3>2 DEF Fresh, Waiting
    <3> QED BY <3>1, <3>2 DEF CheckStillHolds
  <2> QED BY <1>u, <1>e, <2>1, <2>5, <2>6, <2>7 DEF Windows
<1>4. ASSUME NEW c \in Calls, CompareDate(c) PROVE Windows'
  <2>1. /\ UNCHANGED <<now, lastSwipe, cardId, working, events, life, card, checkedAt>>
        /\ pc[c] = "dating"
    BY <1>4 DEF CompareDate, state, history, Goto
  <2>2. /\ \A d \in Calls : d # c => pc'[d] = pc[d]
        /\ pc'[c] \in {"checked", "done"}
        /\ pc'[c] = "checked" => lastSwipe # Never /\ now - lastSwipe > Window
    BY <1>0, <1>4 DEF CompareDate, Goto, TypeOK
  <2>3. /\ LastOpen' = LastOpen /\ Last' = Last /\ (Quiet' <=> Quiet)
        /\ \A d \in Calls : Fresh(d)' = Fresh(d)
    BY <2>1, <2>2 DEF LastOpen, Last, Quiet, Writing, Fresh
  <2>4. ASSUME ~unsure', ~late' PROVE DatesFollowStream'
    <3>1. \A d \in Calls : pc'[d] = "flip" => pc[d] = "flip"
      BY <2>2
    <3> QED BY <1>u, <2>1, <2>3, <2>4, <3>1 DEF DatesFollowStream
  <2>5. ASSUME ~unsure', ~late' PROVE CheckStillHolds'
    <3>1. ASSUME NEW d \in Calls, Fresh(d)
          PROVE  /\ pc'[d] \in Waiting \cup {"dating"} => Quiet
                 /\ pc'[d] \in Waiting => \/ cardId # card[d]
                                          \/ lastSwipe # Never /\ now - lastSwipe > Window
      <4>1. CASE d = c
        BY <1>u, <2>1, <2>2, <2>5, <3>1, <4>1 DEF CheckStillHolds, Waiting
      <4>2. CASE d # c
        BY <1>u, <2>2, <2>5, <3>1, <4>2 DEF CheckStillHolds
      <4> QED BY <4>1, <4>2
    <3> QED BY <2>1, <2>3, <3>1 DEF CheckStillHolds
  <2> QED BY <1>0, <1>u, <1>e, <2>1, <2>4, <2>5 DEF Windows
<1>5. ASSUME NEW c \in Calls, Enter(c) \/ TestShutdown(c) \/ HandlerFails(c) \/ Leave(c)
      PROVE  Windows'
  <2>1. UNCHANGED <<now, state, events, life, card, checkedAt>>
    BY <1>5 DEF Enter, TestShutdown, HandlerFails, Leave, history
  <2>2. \E to : /\ pc' = [pc EXCEPT ![c] = to]
                /\ pc[c] \notin Writing /\ to \notin Writing \cup {"dating"}
                /\ to \in Waiting => pc[c] \in Waiting
    <3>1. CASE Enter(c) \/ TestShutdown(c)
      <4>1. PICK to \in {"entered", "leaving", "abandoned", "stopping", "starting"} :
                 pc' = [pc EXCEPT ![c] = to]
        BY <3>1 DEF Enter, TestShutdown, Goto
      <4>2. pc[c] \in {"checked", "entered"}
        BY <3>1 DEF Enter, TestShutdown, Goto
      <4> QED BY <4>1, <4>2 DEF Writing, Waiting
    <3>2. CASE HandlerFails(c) \/ Leave(c)
      BY <3>2 DEF HandlerFails, Leave, Goto, Writing, Waiting
    <3> QED BY <1>5, <3>1, <3>2
  <2> QED BY <1>0, <1>u, <1>e, <2>1, <2>2, CalmStep DEF Windows, state
<1>6. ASSUME NEW c \in Calls, AppendEvent(c) PROVE Windows'
  <2>1. UNCHANGED <<now, lastSwipe, cardId, working, life, card, checkedAt, late>>
    BY <1>6 DEF AppendEvent, state
  <2>2. pc[c] \in {"starting", "stopping"}
    BY <1>6 DEF AppendEvent, Goto
  <2>3. Quiet /\ \A d \in Calls \ {c} : pc[d] \notin Holding
    BY <1>b, <2>2 DEF Quiet, Holding, Swapping, Writing
  <2>4. \A d \in Calls : checkedAt'[d] <= Len(events')
    <3>1. /\ card[c] \in Cards \cup {NoCard} /\ Fresh(c) \in BOOLEAN
      BY <1>0 DEF TypeOK, Fresh
    <3>2. \/ events' = events
          \/ \E e \in Event : events' = Append(events, e)
      BY <1>0, <1>6, <3>1, StartedType, StoppedType DEF AppendEvent, AppendTo
    <3> QED BY <1>0, <2>1, <3>2, AppendOutdates
  <2>5. ASSUME ~unsure', ~late'
        PROVE  DatesFollowStream' /\ CheckStillHolds' /\ FreshSwipeHoldsWindow'
    <3>1. CASE events' = events /\ pc' = [pc EXCEPT ![c] = "leaving"]
      <4>1. DatesFollowStream' /\ CheckStillHolds'
        <5>1. /\ pc[c] \notin Writing /\ "leaving" \notin Writing \cup {"dating"} \cup Waiting
          BY <2>2 DEF Writing, Waiting
        <5>2. UNCHANGED <<now, state, events, life, card, checkedAt>>
          BY <2>1, <3>1 DEF state
        <5> QED BY <1>0, <1>u, <2>5, <3>1, <5>1, <5>2, CalmStep
      <4> QED BY <1>e, <1>u, <2>5, <3>1, <4>1
    <3>2. ASSUME NEW e \in Event, e.at = now, events' = Append(events, e),
                 pc'[c] \in {"setCard", "clearCard"},
                 \A d \in Calls \ {c} : pc'[d] = pc[d]
          PROVE  DatesFollowStream' /\ CheckStillHolds'
      <4>1. ~Quiet' /\ \A d \in Calls : pc'[d] # "flip"
        BY <2>3, <3>2 DEF Quiet, Writing, Holding, Swapping
      <4>2. DatesFollowStream'
        BY <1>0, <1>u, <2>1, <2>5, <3>2, <4>1, AppendDates DEF DatesFollowStream
      <4>3. CheckStillHolds'
        BY <1>0, <2>1, <3>2, AppendOutdates DEF CheckStillHolds
      <4> QED BY <4>2, <4>3
    <3>3. CASE Goto(c, "starting", "setCard") /\ events' = Append(events, Started(c))
      <4>1. Started(c) \in Event /\ Started(c).at = now /\ Started(c).kind = "started"
        BY <1>0, StartedType DEF Started
      <4>2. /\ pc'[c] \in {"setCard", "clearCard"}
            /\ \A d \in Calls \ {c} : pc'[d] = pc[d]
        BY <1>0, <3>3 DEF Goto, TypeOK
      <4>3. FreshSwipeHoldsWindow'
        BY <1>0, <1>u, <2>5, <3>3, <4>1, AppendHolds
      <4> QED BY <3>2, <3>3, <4>1, <4>2, <4>3
    <3>4. CASE /\ Goto(c, "stopping", "clearCard")
               /\ events' = Append(events, Stopped(card[c], Fresh(c)))
      <4> DEFINE e == Stopped(card[c], Fresh(c))
      <4>1. e \in Event
        BY <1>0, StoppedType DEF TypeOK, Fresh
      <4>2. e.at = now /\ e.by = card[c] /\ e.fresh = Fresh(c)
        BY DEF Stopped
      <4>3. /\ pc'[c] \in {"setCard", "clearCard"}
            /\ \A d \in Calls \ {c} : pc'[d] = pc[d]
        BY <1>0, <3>4 DEF Goto, TypeOK
      <4>4. working /\ LastOpen /\ cardId = Last.by
        BY <1>u, <2>3, <2>5, <3>4 DEF FieldsFollowStream, Goto
      <4>5. lastSwipe >= Last.at /\ Last.at \in Nat
        <5>1. Len(events) \in DOMAIN events
          BY <1>0, <4>4 DEF LastOpen, TypeOK
        <5> QED BY <1>t, <1>u, <2>3, <2>5, <4>4, <5>1 DEF DatesFollowStream, Last, Event
      <4>6. Fresh(c) => card[c] # Last.by \/ now - lastSwipe > Window
        BY <1>u, <2>5, <3>4, <4>4 DEF CheckStillHolds, Waiting, Goto
      <4>7. Fresh(c) => card[c] # Last.by \/ now - Last.at > Window
        BY <1>t, <4>5, <4>6
      <4>8. events' = Append(events, e)
        BY <3>4
      <4> HIDE DEF e
      <4>9. FreshSwipeHoldsWindow'
        BY <1>0, <1>u, <2>5, <4>1, <4>2, <4>7, <4>8, AppendHolds
      <4> QED BY <3>2, <4>1, <4>2, <4>3, <4>8, <4>9
    <3> QED BY <1>0, <1>6, <2>5, <3>1, <3>3, <3>4, AppendCases
  <2> QED BY <2>4, <2>5 DEF Windows
<1>7. ASSUME NEW c \in Calls, WriteCard(c) \/ WriteDate(c) \/ Flip(c) PROVE Windows'
  <2>1. UNCHANGED <<now, events, life, card, checkedAt, unsure, late>>
    BY <1>7 DEF WriteCard, WriteDate, Flip, history
  <2>2. pc[c] \in Writing /\ ~Quiet
    BY <1>7 DEF WriteCard, WriteDate, Flip, Goto, Writing, Quiet
  <2>3. /\ \A d \in Calls \ {c} : pc[d] \notin Holding
        /\ \A d \in Calls \ {c} : pc'[d] = pc[d]
        /\ pc'[c] \in {"setDate", "flip", "leaving"}
    <3>1. pc[c] \in Holding
      BY <2>2 DEF Writing, Holding, Swapping
    <3> QED BY <1>0, <1>7, <1>b, <3>1 DEF WriteCard, WriteDate, Flip, Goto, TypeOK
  <2>4. LastOpen' = LastOpen /\ Last' = Last /\ \A d \in Calls : Fresh(d)' = Fresh(d)
    BY <2>1 DEF LastOpen, Last, Fresh
  <2>5. ASSUME ~unsure', ~late' PROVE CheckStillHolds'
    BY <1>u, <2>2, <2>3, <2>4, <2>5 DEF CheckStillHolds, Waiting
  <2>6. LastOpen => Last \in Event /\ Len(events) \in DOMAIN events
    <3>1. LastOpen => Len(events) \in DOMAIN events
      BY <1>0 DEF LastOpen, TypeOK
    <3> QED BY <1>t, <3>1 DEF Last
  <2>7. ASSUME ~unsure', ~late' PROVE DatesFollowStream'
    <3>1. CASE WriteCard(c)
      <4>1. lastSwipe' = lastSwipe /\ pc'[c] = "setDate" /\ ~Quiet'
        BY <1>0, <3>1 DEF WriteCard, Goto, TypeOK, Quiet, Writing
      <4>2. \A d \in Calls : pc'[d] # "flip"
        BY <2>3, <4>1 DEF Holding, Swapping
      <4> QED BY <1>u, <2>1, <2>7, <4>1, <4>2 DEF DatesFollowStream
    <3>2. CASE WriteDate(c)
      <4>1. lastSwipe' = now /\ pc'[c] = "flip" /\ ~Quiet' /\ working' = working
            /\ pc[c] = "setDate"
        BY <1>0, <3>2 DEF WriteDate, Goto, TypeOK, Quiet, Writing
      <4>2. ~working => LastOpen
        BY <1>u, <2>7, <4>1 DEF FieldsFollowStream
      <4>3. ~working => now >= Last.at
        BY <1>t, <1>u, <2>6, <2>7, <4>2 DEF DatesFollowStream, Last, Event
      <4> QED BY <1>t, <1>u, <2>1, <2>4, <2>7, <4>1, <4>3 DEF DatesFollowStream
    <3>3. CASE Flip(c)
      <4>1. lastSwipe' = lastSwipe /\ pc'[c] = "leaving" /\ pc[c] = "flip"
        BY <1>0, <3>3 DEF Flip, Goto, TypeOK
      <4>2. \A d \in Calls : pc'[d] # "flip"
        BY <2>3, <4>1 DEF Holding, Swapping
      <4>3. LastOpen => lastSwipe >= Last.at
        BY <1>u, <2>7, <4>1 DEF FieldsFollowStream, DatesFollowStream
      <4> QED BY <1>u, <2>1, <2>4, <2>7, <4>1, <4>2, <4>3 DEF DatesFollowStream
    <3> QED BY <1>7, <3>1, <3>2, <3>3
  <2> QED BY <1>0, <1>e, <1>u, <2>1, <2>5, <2>7 DEF Windows
<1>8. CASE StopOnDispose
  <2>1. dpc = "stopping" /\ UNCHANGED <<now, pc, card, life, checkedAt, late>>
    BY <1>8 DEF StopOnDispose
  <2>2. \A d \in Calls : checkedAt'[d] <= Len(events')
    <3>1. \/ events' = events
          \/ \E e \in Event : events' = Append(events, e)
      BY <1>0, <1>8, StoppedType DEF StopOnDispose, AppendTo
    <3> QED BY <1>0, <2>1, <3>1, AppendOutdates
  <2>3. ASSUME ~unsure', ~late'
        PROVE  DatesFollowStream' /\ CheckStillHolds' /\ FreshSwipeHoldsWindow'
    <3>1. CASE UNCHANGED <<state, events>>
      BY <1>0, <1>u, <1>e, <2>1, <2>3, <3>1, CalmStep
    <3>2. CASE /\ lastSwipe' = now
               /\ events' = Append(events, Stopped(NoCard, TRUE))
      <4> DEFINE e == Stopped(NoCard, TRUE)
      <4>1. e \in Event
        BY <1>0, StoppedType
      <4>2. e.at = now /\ e.by = NoCard /\ e.kind = "stopped"
        BY DEF Stopped
      <4>3. events' = Append(events, e)
        BY <3>2
      <4> HIDE DEF e
      <4>4. Last' = e /\ ~LastOpen'
        BY <1>0, <4>1, <4>2, <4>3, AppendFacts DEF LastOpen
      <4>5. \A d \in Calls : pc'[d] # "flip"
        BY <1>0, <1>u, <2>1, <2>3 DEF ClosedToSwaps, Swapping
      <4>6. DatesFollowStream'
        BY <1>0, <1>u, <2>1, <2>3, <3>2, <4>1, <4>2, <4>3, <4>4, <4>5, AppendDates
           DEF DatesFollowStream
      <4>7. CheckStillHolds'
        BY <1>0, <2>1, <4>1, <4>3, AppendOutdates DEF CheckStillHolds
      <4>8. LastOpen /\ cardId = Last.by
        <5>1. working /\ Quiet
          BY <1>0, <1>u, <2>1, <2>3
             DEF ClosedToSwaps, FieldsFollowStream, Quiet, Swapping, Writing
        <5> QED BY <1>u, <2>3, <5>1 DEF FieldsFollowStream
      <4>9. Last.by # NoCard
        <5>1. Last \in Event /\ Last.kind = "started"
          BY <1>0, <4>1, <4>3, <4>8, AppendFacts DEF LastOpen
        <5> QED BY <5>1, CardAssumption DEF Event
      <4>10. FreshSwipeHoldsWindow'
        BY <1>0, <1>u, <2>3, <4>1, <4>2, <4>3, <4>9, AppendHolds
      <4> QED BY <4>6, <4>7, <4>10
    <3> QED BY <1>0, <1>8, <2>3, <3>1, <3>2, StopCases
  <2> QED BY <2>2, <2>3 DEF Windows
<1>9. CASE Restart
  <2>1. /\ UNCHANGED <<now, events, card, checkedAt, unsure, late>>
        /\ lastSwipe' = Never /\ \A c \in Calls : pc'[c] \in {"new", "done"}
    BY <1>9 DEF Restart
  <2>2. ASSUME ~unsure', ~late' PROVE ~LastOpen'
    BY <1>0, <1>9, <1>u, <2>2, RestartCloses
  <2>3. ASSUME ~unsure', ~late' PROVE DatesFollowStream' /\ CheckStillHolds'
    <3>1. lastSwipe' <= now'
      BY <1>t, <2>1 DEF Never
    <3> QED BY <1>u, <2>1, <2>2, <2>3, <3>1 DEF DatesFollowStream, CheckStillHolds, Waiting
  <2> QED BY <1>0, <1>e, <1>u, <2>1, <2>3 DEF Windows
<1> QED BY <1>1, <1>2, <1>3, <1>4, <1>5, <1>6, <1>7, <1>8, <1>9 DEF Next, Post, Dispose

-----------------------------------------------------------------------------
LEMMA Invariance == Spec => []IInv
<1>1. IInv /\ [Next]_vars => IInv'
  BY TypeStep, CounterStep, HolderStep, SessionStep, WindowStep DEF IInv
<1> QED BY InitHolds, <1>1, PTL DEF Spec

\* The variables keep their types, the counter of Post is never negative.
THEOREM TypeCorrect == Spec => []TypeOK
BY Invariance, PTL DEF IInv

\* The counter of Post is the number of calls that took a turn, and only shutdown
\* makes a call keep its turn.
THEOREM CounterIsTurns == Spec => []CounterCountsTurns
BY Invariance, PTL DEF IInv

\* Two calls of Post never swap at the same time, nor does one while DisposeAsync
\* stops the machine, unless its flag was late.
THEOREM SwapsExclude == Spec => []OneSwapAtATime
<1>1. IInv => OneSwapAtATime
  BY DEF IInv, OneHolder, ClosedToSwaps, OneSwapAtATime, Holding
<1> QED BY Invariance, <1>1, PTL

\* The stream is a sequence of sessions, across restarts of the process too.
THEOREM SessionsWellFormed == Spec => []SessionsMatch
<1>1. IInv => SessionsMatch
  BY DEF IInv, Sessions, SessionsMatch
<1> QED BY Invariance, <1>1, PTL

\* A card that started the machine does not stop it within the window, unless its
\* swipe was checked before that start.
THEOREM WindowHeld == Spec => []FreshSwipeHoldsWindow
<1>1. IInv => FreshSwipeHoldsWindow
  BY DEF IInv, Windows, FreshSwipeHoldsWindow
<1> QED BY Invariance, <1>1, PTL
=============================================================================
