---------------------- MODULE StepMotorController_proofs ----------------------
(***************************************************************************)
(* For any set of targets, any number of commands and any limits of time:  *)
(* the types, that no command sleeps in the channel, that the PWM is on    *)
(* only while something is pending that will turn it off, and how far from *)
(* its target a move forward may end.                                      *)
(***************************************************************************)
EXTENDS StepMotorController, TLAPS

\* The dispatcher can miss the event of a complete command only while it is about
\* to look into the channel.  This is NoLostWakeup without the place where it
\* matters, and it is kept by every step.
EventPending ==
  command.is /\ cpc = "idle" => event \/ dpc \in {"taking", "ended"}

\* What is left of a move is never the mark of there being none.
LEMMA DurationType ==
  ASSUME NEW c \in CommandSet
  PROVE  Duration(c) \in Int /\ Duration(c) >= Past
BY DEF Duration, CommandSet, Past

LEMMA MoveType ==
  ASSUME NEW c \in CommandSet, Move(c)
  PROVE  finish' \in Int /\ finish' >= Past /\ backward' \in BOOLEAN
<1>1. finish' \in Int /\ finish' >= Past
  BY DurationType DEF Move
<1>2. backward' \in BOOLEAN
  BY DEF Move
<1> QED
  BY <1>1, <1>2

LEMMA LaterType ==
  ASSUME NEW t \in Int
  PROVE  Later(t) \in Int /\ Later(t) >= Past
BY DEF Later, Past

LEMMA OffType ==
  ASSUME pwm \in [on : BOOLEAN, reverse : BOOLEAN]
  PROVE  Off \in [on : BOOLEAN, reverse : BOOLEAN] /\ Off.on = FALSE
BY DEF Off

LEMMA OnType ==
  ASSUME NEW b \in BOOLEAN
  PROVE  [on |-> TRUE, reverse |-> b] \in [on : BOOLEAN, reverse : BOOLEAN]
OBVIOUS

LEMMA NoCommandType == NoCommand \in CommandSet /\ NoCommand.is = FALSE
BY DEF NoCommand, CommandSet

LEMMA InitTypeOK == Init => TypeOK
<1> SUFFICES ASSUME Init PROVE TypeOK
  OBVIOUS
<1>1. command \in CommandSet /\ taken \in CommandSet
  BY NoCommandType DEF Init
<1>2. given \in 0..MaxCommands /\ motor \in Int
  BY MaxCommandsAssumption DEF Init
<1>3. finish \in Int /\ finish >= Past /\ delayed \in Int /\ delayed >= NoAction
  BY DEF Init, NoAction, Past
<1>4. pwm \in [on : BOOLEAN, reverse : BOOLEAN]
  BY DEF Init
<1> QED
  BY <1>1, <1>2, <1>3, <1>4 DEF Init, TypeOK

LEMMA NextTypeOK ==
  ASSUME TypeOK, [Next]_vars
  PROVE  TypeOK'
<1> USE DEF TypeOK
<1>1. ASSUME NEW target \in Positions, MoveTo(target) PROVE TypeOK'
  BY <1>1, PositionsAssumption, MaxCommandsAssumption
  DEF MoveTo, Command, CommandSet, modelVars
<1>2. CASE SetEvent
  BY <1>2 DEF SetEvent, modelVars
<1>3. CASE Dispose
  BY <1>3 DEF Dispose, callerVars, modelVars
<1>4. CASE LoopEnds \/ CallThrows
  BY <1>4, OffType DEF LoopEnds, CallThrows, End, callerVars, modelVars
<1>5. CASE AwaitCommand \/ ChooseWait \/ AwaitEvent \/ TimedOut \/ Woken \/ ResetEvent
  BY <1>5 DEF AwaitCommand, ChooseWait, AwaitEvent, TimedOut, Woken, ResetEvent,
              callerVars, modelVars
<1>6. CASE StopAtOnce \/ SpinEnds
  BY <1>6, OffType DEF StopAtOnce, SpinEnds, callerVars, modelVars, NoAction
<1>7. CASE TakeOnEvent
  <2>1. command' \in CommandSet /\ taken' \in CommandSet
    BY <1>7, NoCommandType DEF TakeOnEvent
  <2>2. finish' \in Int /\ finish' >= Past /\ backward' \in BOOLEAN
    BY <1>7, MoveType DEF TakeOnEvent, modelVars
  <2>3. delayed' \in Int /\ delayed' >= NoAction
    BY <1>7, <2>2 DEF TakeOnEvent, modelVars, NoAction, Past
  <2>4. pwm' \in [on : BOOLEAN, reverse : BOOLEAN]
    BY <1>7, <2>2 DEF TakeOnEvent
  <2> QED
    BY <1>7, <2>1, <2>2, <2>3, <2>4 DEF TakeOnEvent, callerVars
<1>8. CASE TakeOnRead
  BY <1>8, NoCommandType DEF TakeOnRead, callerVars, modelVars
<1>9. CASE StartMove
  <2>1. finish' \in Int /\ finish' >= Past /\ backward' \in BOOLEAN
    BY <1>9, MoveType DEF StartMove, modelVars
  <2>2. delayed' \in Int /\ delayed' >= NoAction
    BY <1>9, <2>1 DEF StartMove, modelVars, NoAction, Past
  <2>3. pwm' = pwm \/ pwm' = [on |-> TRUE, reverse |-> backward']
    BY <1>9 DEF StartMove
  <2>4. pwm' \in [on : BOOLEAN, reverse : BOOLEAN]
    BY <2>1, <2>3, OnType
  <2> QED
    BY <1>9, <2>1, <2>2, <2>4 DEF StartMove, callerVars
<1>10. CASE Tick
  <2>1. Moved \in Int
    BY DEF Moved
  <2>2. finish' \in Int /\ finish' >= Past
    BY <1>10, LaterType DEF Tick
  <2>3. delayed' \in Int /\ delayed' >= NoAction
    BY <1>10, LaterType DEF Tick, NoAction, Past
  <2> QED
    BY <1>10, <2>1, <2>2, <2>3 DEF Tick, callerVars
<1>11. CASE UNCHANGED vars
  BY <1>11 DEF vars, callerVars, modelVars
<1> QED
  BY <1>1, <1>2, <1>3, <1>4, <1>5, <1>6, <1>7, <1>8, <1>9, <1>10, <1>11
  DEF Next, Dispatcher

\* The variables of StepMotorController always have their types, and remaining
\* times never fall below their mark.
THEOREM TypeCorrect == Spec => []TypeOK
BY InitTypeOK, NextTypeOK, PTL DEF Spec

-----------------------------------------------------------------------------
LEMMA NextEventPending ==
  ASSUME EventPending, [Next]_vars
  PROVE  EventPending'
<1> USE DEF EventPending
<1>1. ASSUME NEW target \in Positions, MoveTo(target) PROVE EventPending'
  BY <1>1 DEF MoveTo
<1>2. CASE SetEvent
  BY <1>2 DEF SetEvent
<1>3. CASE Dispose \/ Tick
  BY <1>3 DEF Dispose, Tick, callerVars
<1>4. CASE LoopEnds \/ CallThrows
  BY <1>4 DEF LoopEnds, CallThrows, End
<1>5. CASE AwaitCommand \/ ChooseWait \/ AwaitEvent \/ StopAtOnce \/ TimedOut
           \/ SpinEnds \/ Woken
  BY <1>5 DEF AwaitCommand, ChooseWait, AwaitEvent, StopAtOnce, TimedOut, SpinEnds,
              Woken, callerVars
<1>6. CASE ResetEvent
  BY <1>6 DEF ResetEvent
<1>7. CASE TakeOnEvent \/ TakeOnRead
  BY <1>7, NoCommandType DEF TakeOnEvent, TakeOnRead
<1>8. CASE StartMove
  BY <1>8 DEF StartMove, callerVars
<1>9. CASE UNCHANGED vars
  BY <1>9 DEF vars, callerVars
<1> QED
  BY <1>1, <1>2, <1>3, <1>4, <1>5, <1>6, <1>7, <1>8, <1>9 DEF Next, Dispatcher

\* MoveTo writes the channel before it sets the event and the dispatcher resets
\* the event before it looks into the channel: no command is ever slept over.
THEOREM NoCommandSleptOver == Spec => []NoLostWakeup
<1>1. Init => EventPending
  BY NoCommandType DEF Init, EventPending
<1>2. EventPending /\ [Next]_vars => EventPending'
  BY NextEventPending
<1>3. EventPending => NoLostWakeup
  BY DEF EventPending, NoLostWakeup
<1> QED
  BY <1>1, <1>2, <1>3, PTL DEF Spec

-----------------------------------------------------------------------------
LEMMA NextPwmHasDeadline ==
  ASSUME TypeOK, PwmHasDeadline, [Next]_vars
  PROVE  PwmHasDeadline'
<1> USE DEF PwmHasDeadline
<1>0. Off.on = FALSE
  BY OffType DEF TypeOK
<1>1. ASSUME NEW target \in Positions, MoveTo(target) PROVE PwmHasDeadline'
  BY <1>1 DEF MoveTo
<1>2. CASE SetEvent \/ Dispose
  BY <1>2 DEF SetEvent, Dispose
<1>3. CASE LoopEnds \/ CallThrows
  BY <1>0, <1>3 DEF LoopEnds, CallThrows, End
<1>4. CASE StopAtOnce \/ SpinEnds
  BY <1>0, <1>4 DEF StopAtOnce, SpinEnds
<1>5. CASE AwaitCommand \/ ChooseWait \/ AwaitEvent \/ TimedOut \/ Woken \/ ResetEvent
  BY <1>5 DEF AwaitCommand, ChooseWait, AwaitEvent, TimedOut, Woken, ResetEvent
<1>6. CASE TakeOnRead
  BY <1>6 DEF TakeOnRead
<1>7. CASE TakeOnEvent
  <2>1. pwm'.on = pwm.on
    BY <1>7 DEF TakeOnEvent, TypeOK, modelVars
  <2>2. delayed' = delayed \/ delayed' = Duration(command)
    BY <1>7 DEF TakeOnEvent, Move
  <2>3. Duration(command) # NoAction
    BY DurationType DEF TypeOK, NoAction, Past
  <2> QED
    BY <1>7, <2>1, <2>2, <2>3 DEF TakeOnEvent
<1>8. CASE StartMove
  <2>1. Duration(taken) # NoAction
    BY DurationType DEF TypeOK, NoAction, Past
  <2>2. pwm' = pwm \/ delayed' = Duration(taken)
    BY <1>8 DEF StartMove, Move
  <2> QED
    BY <1>8, <2>1, <2>2 DEF StartMove
<1>9. CASE Tick
  <2>1. delayed # NoAction => delayed' # NoAction
    BY <1>9, LaterType DEF Tick, TypeOK, NoAction, Past
  <2> QED
    BY <1>9, <2>1 DEF Tick
<1>10. CASE UNCHANGED vars
  BY <1>10 DEF vars
<1> QED
  BY <1>1, <1>2, <1>3, <1>4, <1>5, <1>6, <1>7, <1>8, <1>9, <1>10
  DEF Next, Dispatcher

\* Whatever commands come and wherever Dispose meets it, the dispatcher never rests
\* with the PWM on.
THEOREM PwmAlwaysHasDeadline == Spec => []PwmHasDeadline
<1>1. Init => PwmHasDeadline
  BY DEF Init, PwmHasDeadline
<1>2. TypeOK /\ PwmHasDeadline /\ [Next]_vars => PwmHasDeadline'
  BY NextPwmHasDeadline
<1> QED
  BY <1>1, <1>2, TypeCorrect, PTL DEF Spec

-----------------------------------------------------------------------------
(* Where the motor stops.  The deadline of a move forward and the place of  *)
(* the motor add up to its target, but for what the motor turned while the *)
(* command lay in the channel: it does so only while the dispatcher spins, *)
(* which is not longer than Early.                                         *)

\* The thread waits for no longer than the deadline, and spins at its very end.
DeadlineAhead ==
  /\ dpc \in {"reading", "starting"} => delayed = NoAction
  /\ dpc = "entering" => delayed > Short
  /\ dpc \in {"waiting", "woken", "taking"} => delayed >= Early
  /\ dpc = "spinning" => 0 <= delayed /\ delayed <= Early

\* While a deadline is waited for the motor turns forward: a move backward is over
\* before it is waited for.
TurnsForward ==
  (dpc = "top" => delayed > Short)
    /\ dpc \in {"top", "entering", "waiting", "woken", "taking", "spinning"}
  => pwm.on /\ ~pwm.reverse

\* How far the motor has gone since the command was given.
Drift(c) == motor - c.current

CommandFresh ==
  command.is =>
    /\ dpc = "spinning" => 0 <= Drift(command) /\ Drift(command) + delayed <= Early
    /\ dpc = "reading" \/ (dpc = "top" /\ delayed = NoAction)
         => 0 <= Drift(command) /\ Drift(command) <= Early
    /\ (dpc = "top" => delayed # NoAction)
         /\ dpc \in {"top", "starting", "entering", "waiting", "woken", "taking"}
       => Drift(command) = 0

TakenFresh == dpc = "starting" => 0 <= Drift(taken) /\ Drift(taken) <= Early

OnCourse ==
  taken.target > taken.current /\ dpc \notin {"starting", "ended"} =>
    IF delayed = NoAction
      THEN taken.target - Short <= motor /\ motor <= taken.target + Early
      ELSE /\ 0 <= delayed
           /\ taken.target <= motor + delayed /\ motor + delayed <= taken.target + Early

PlaceInv == DeadlineAhead /\ TurnsForward /\ CommandFresh /\ TakenFresh /\ OnCourse

LEMMA PlaceKept ==
  ASSUME PlaceInv,
         UNCHANGED <<command, dpc, delayed, pwm, motor, taken>>
  PROVE  PlaceInv'
BY DEF PlaceInv, DeadlineAhead, TurnsForward, CommandFresh, TakenFresh, OnCourse, Drift

LEMMA MoveToPlace ==
  ASSUME TypeOK, PlaceInv, NEW target \in Positions, MoveTo(target)
  PROVE  PlaceInv'
<1>1. /\ command'.current = motor /\ motor \in Int
      /\ UNCHANGED <<dpc, delayed, pwm, motor, taken>>
  BY DEF MoveTo, Command, TypeOK
<1>2. Drift(command)' = 0
  BY <1>1 DEF Drift
<1>3. CommandFresh'
  <2>1. delayed \in Int /\ (dpc = "spinning" => delayed <= Early) /\ Early \in Nat
    BY TimesAssumption DEF PlaceInv, DeadlineAhead, TypeOK
  <2> QED BY <1>1, <1>2, <2>1 DEF CommandFresh
<1>4. DeadlineAhead' /\ TurnsForward' /\ TakenFresh' /\ OnCourse'
  BY <1>1 DEF PlaceInv, DeadlineAhead, TurnsForward, TakenFresh, OnCourse, Drift
<1> QED BY <1>3, <1>4 DEF PlaceInv

\* The thread goes from one wait to the next.
LEMMA WaitPlace ==
  ASSUME TypeOK, PlaceInv,
         AwaitCommand \/ ChooseWait \/ AwaitEvent \/ TimedOut \/ Woken \/ ResetEvent
  PROVE  PlaceInv'
<1>1. /\ UNCHANGED <<command, delayed, pwm, motor, taken>>
      /\ \/ dpc = "top" /\ delayed = NoAction /\ dpc' = "reading"
         \/ dpc = "top" /\ delayed > Short /\ dpc' = "entering"
         \/ dpc = "entering" /\ dpc' = "waiting"
         \/ dpc = "waiting" /\ delayed <= Early /\ dpc' = "spinning"
         \/ dpc = "waiting" /\ dpc' = "woken"
         \/ dpc = "woken" /\ dpc' = "taking"
  BY DEF AwaitCommand, ChooseWait, AwaitEvent, TimedOut, Woken, ResetEvent
<1>2. /\ Short \in Nat /\ Early \in Nat /\ Early <= Short /\ delayed \in Int
      /\ \A c \in {command, taken} : Drift(c) \in Int /\ Drift(c)' = Drift(c)
      /\ Drift(command)' = Drift(command) /\ Drift(taken)' = Drift(taken)
  BY <1>1, TimesAssumption DEF TypeOK, CommandSet, Drift
<1>3. NoAction = -2
  BY DEF NoAction
<1>4. DeadlineAhead'
  BY <1>1, <1>2, <1>3 DEF PlaceInv, DeadlineAhead
<1>5. TurnsForward'
  BY <1>1, <1>2, <1>3 DEF PlaceInv, DeadlineAhead, TurnsForward
<1>6. CommandFresh'
  BY <1>1, <1>2, <1>3 DEF PlaceInv, DeadlineAhead, CommandFresh
<1>7. TakenFresh' /\ OnCourse'
  BY <1>1 DEF PlaceInv, TakenFresh, OnCourse
<1> QED BY <1>4, <1>5, <1>6, <1>7 DEF PlaceInv

\* The move is over, or what is left of it is not worth waiting for.
LEMMA StopPlace ==
  ASSUME TypeOK, PlaceInv, StopAtOnce \/ SpinEnds
  PROVE  PlaceInv'
<1>1. /\ UNCHANGED <<command, motor, taken>>
      /\ delayed' = NoAction /\ dpc' = "top"
      /\ \/ dpc = "top" /\ delayed # NoAction /\ delayed <= Short
         \/ dpc = "spinning" /\ delayed <= 0
  BY DEF StopAtOnce, SpinEnds
<1>2. /\ Short \in Nat /\ Early \in Nat /\ Early <= Short /\ delayed \in Int /\ motor \in Int
      /\ taken.target \in Int
      /\ Drift(command) \in Int /\ Drift(command)' = Drift(command)
  BY <1>1, TimesAssumption DEF TypeOK, CommandSet, Drift
<1>3. NoAction = -2
  BY DEF NoAction
<1>4. DeadlineAhead' /\ TurnsForward' /\ TakenFresh'
  BY <1>1, <1>2, <1>3 DEF DeadlineAhead, TurnsForward, TakenFresh
<1>5. CommandFresh'
  BY <1>1, <1>2, <1>3 DEF PlaceInv, DeadlineAhead, CommandFresh
<1>6. OnCourse'
  BY <1>1, <1>2, <1>3 DEF PlaceInv, DeadlineAhead, OnCourse
<1> QED BY <1>4, <1>5, <1>6 DEF PlaceInv

LEMMA EndPlace ==
  ASSUME PlaceInv, LoopEnds \/ CallThrows
  PROVE  PlaceInv'
<1>1. dpc' = "ended"
  BY DEF LoopEnds, CallThrows, End
<1> QED BY <1>1 DEF PlaceInv, DeadlineAhead, TurnsForward, CommandFresh, TakenFresh, OnCourse

LEMMA TakeOnReadPlace ==
  ASSUME TypeOK, PlaceInv, TakeOnRead
  PROVE  PlaceInv'
<1>1. /\ dpc = "reading" /\ command.is /\ taken' = command /\ ~command'.is
      /\ dpc' = "starting" /\ UNCHANGED <<delayed, pwm, motor>>
  BY NoCommandType DEF TakeOnRead
<1>2. 0 <= Drift(command) /\ Drift(command) <= Early /\ delayed = NoAction
  BY <1>1 DEF PlaceInv, CommandFresh, DeadlineAhead
<1>3. Drift(taken)' = Drift(command)
  BY <1>1 DEF Drift
<1> QED BY <1>1, <1>2, <1>3
        DEF PlaceInv, DeadlineAhead, TurnsForward, CommandFresh, TakenFresh, OnCourse

\* What a move begins with, or goes on with.
LEMMA MoveFacts ==
  ASSUME TypeOK, NEW c \in CommandSet, Move(c), delayed' = finish', UNCHANGED motor,
         0 <= Drift(c), Drift(c) <= Early
  PROVE  /\ delayed' \in Int /\ delayed' # NoAction
         /\ delayed' > Short => c.target > c.current
         /\ c.target > c.current =>
              /\ ~backward' /\ 0 <= delayed'
              /\ c.target <= motor + delayed' /\ motor + delayed' <= c.target + Early
<1>1. c.target \in Int /\ c.current \in Int /\ motor \in Int
  BY DEF TypeOK, CommandSet
<1>2. /\ delayed' = (IF c.target - c.current >= 0 THEN c.target - c.current ELSE -1)
      /\ backward' = (c.target <= c.current)
  BY DEF Move, Duration, Past
<1>3. Short \in Nat /\ Early \in Nat /\ 0 <= motor - c.current /\ motor - c.current <= Early
  BY TimesAssumption DEF Drift
<1>4. c.target > c.current =>
        /\ delayed' = c.target - c.current /\ 0 <= delayed'
        /\ c.target <= motor + delayed' /\ motor + delayed' <= c.target + Early
  BY <1>1, <1>2, <1>3
<1>5. c.target > c.current => ~backward'
  <2>1. c.target > c.current => ~(c.target <= c.current)
    BY <1>1
  <2> QED BY <1>2, <2>1, Zenon
<1>6. delayed' \in Int /\ delayed' # -2 /\ (delayed' > Short => c.target > c.current)
  BY <1>1, <1>2, <1>3
<1> QED BY <1>4, <1>5, <1>6 DEF NoAction

LEMMA TakeOnEventPlace ==
  ASSUME TypeOK, PlaceInv, TakeOnEvent
  PROVE  PlaceInv'
<1>1. /\ dpc = "taking" /\ dpc' = "top" /\ ~command'.is /\ motor' = motor
      /\ taken' = IF command.is THEN command ELSE taken
  BY NoCommandType DEF TakeOnEvent
<1>2. delayed >= Early /\ delayed # NoAction /\ pwm.on /\ ~pwm.reverse
      /\ pwm \in [on : BOOLEAN, reverse : BOOLEAN] /\ command \in CommandSet
  BY <1>1, TimesAssumption DEF PlaceInv, DeadlineAhead, TurnsForward, NoAction, TypeOK
<1>3. command.is => Drift(command) = 0
  BY <1>1 DEF PlaceInv, CommandFresh
<1>4. DeadlineAhead' /\ CommandFresh' /\ TakenFresh'
  BY <1>1 DEF DeadlineAhead, CommandFresh, TakenFresh
<1>5. CASE command.is /\ ~Pause(command)
  <2>1. Move(command) /\ delayed' = finish' /\ pwm' = [pwm EXCEPT !.reverse = backward']
    BY <1>5 DEF TakeOnEvent
  <2>2. taken' = command
    BY <1>1, <1>5
  <2>3. /\ delayed' \in Int /\ delayed' # NoAction
        /\ delayed' > Short => command.target > command.current
        /\ command.target > command.current =>
             /\ ~backward' /\ 0 <= delayed'
             /\ command.target <= motor + delayed'
             /\ motor + delayed' <= command.target + Early
    BY <1>1, <1>2, <1>3, <1>5, <2>1, MoveFacts, TimesAssumption
  <2>4. pwm'.on = pwm.on /\ pwm'.reverse = backward'
    BY <1>2, <2>1
  <2>5. OnCourse'
    BY <1>1, <2>2, <2>3 DEF OnCourse
  <2>6. TurnsForward'
    BY <1>1, <1>2, <2>3, <2>4 DEF TurnsForward
  <2> QED BY <1>4, <2>5, <2>6 DEF PlaceInv
<1>6. CASE ~(command.is /\ ~Pause(command))
  <2>1. UNCHANGED <<delayed, pwm>>
    BY <1>6 DEF TakeOnEvent
  <2>2. TurnsForward'
    BY <1>2, <2>1 DEF TurnsForward
  <2>3. taken' = taken \/ ~(taken'.target > taken'.current)
    <3>1. CASE command.is
      <4>1. command.target = command.current /\ taken' = command
        BY <1>1, <1>6, <3>1 DEF Pause
      <4> QED BY <1>2, <4>1 DEF CommandSet
    <3> QED BY <1>1, <3>1
  <2>4. OnCourse'
    BY <1>1, <1>2, <2>1, <2>3 DEF PlaceInv, OnCourse
  <2> QED BY <1>4, <2>2, <2>4 DEF PlaceInv
<1> QED BY <1>5, <1>6

LEMMA StartMovePlace ==
  ASSUME TypeOK, PlaceInv, StartMove
  PROVE  PlaceInv'
<1>1. /\ dpc = "starting" /\ dpc' = "top" /\ UNCHANGED <<command, motor, taken>>
  BY DEF StartMove
<1>2. /\ 0 <= Drift(taken) /\ Drift(taken) <= Early /\ taken \in CommandSet
      /\ command.is => Drift(command) = 0
      /\ delayed = NoAction
  BY <1>1 DEF PlaceInv, TakenFresh, CommandFresh, DeadlineAhead, TypeOK
<1>3. DeadlineAhead' /\ TakenFresh'
  BY <1>1 DEF DeadlineAhead, TakenFresh
<1>4. CommandFresh'
  <2>1. command.is => Drift(command)' = 0
    BY <1>1, <1>2 DEF Drift
  <2> QED BY <1>1, <2>1, TimesAssumption DEF CommandFresh
<1>5. CASE ~Pause(taken)
  <2>1. Move(taken) /\ delayed' = finish' /\ pwm' = [on |-> TRUE, reverse |-> backward']
    BY <1>5 DEF StartMove
  <2>2. /\ delayed' \in Int /\ delayed' # NoAction
        /\ delayed' > Short => taken.target > taken.current
        /\ taken.target > taken.current =>
             /\ ~backward' /\ 0 <= delayed'
             /\ taken.target <= motor + delayed' /\ motor + delayed' <= taken.target + Early
    BY <1>1, <1>2, <2>1, MoveFacts
  <2>3. pwm'.on /\ pwm'.reverse = backward'
    BY <2>1
  <2>4. OnCourse'
    BY <1>1, <2>2 DEF OnCourse
  <2>5. TurnsForward'
    BY <1>1, <2>2, <2>3 DEF TurnsForward
  <2> QED BY <1>3, <1>4, <2>4, <2>5 DEF PlaceInv
<1>6. CASE Pause(taken)
  <2>1. UNCHANGED <<delayed, pwm>>
    BY <1>6 DEF StartMove
  <2>2. ~(taken.target > taken.current)
    BY <1>2, <1>6 DEF Pause, CommandSet
  <2>3. ~(delayed' > Short)
    BY <1>2, <2>1, TimesAssumption DEF NoAction
  <2>4. OnCourse' /\ TurnsForward'
    BY <1>1, <2>2, <2>3 DEF OnCourse, TurnsForward
  <2> QED BY <1>3, <1>4, <2>4 DEF PlaceInv
<1> QED BY <1>5, <1>6

\* Time passes only while the motor stands still or turns towards its deadline.
LEMMA TickPlace ==
  ASSUME TypeOK, EventPending, PwmHasDeadline, PlaceInv, Tick
  PROVE  PlaceInv'
<1>1. /\ UNCHANGED <<command, dpc, pwm, taken>>
      /\ motor' = motor + Moved
      /\ delayed' = IF delayed = NoAction THEN NoAction ELSE Later(delayed)
      /\ Blocked
  BY DEF Tick, callerVars
<1>2. /\ motor \in Int /\ delayed \in Int /\ taken.target \in Int /\ Early \in Nat /\ Short \in Nat
      /\ command.current \in Int
  BY TimesAssumption DEF TypeOK, CommandSet
<1>3. CASE dpc = "ended"
  BY <1>1, <1>3
  DEF PlaceInv, DeadlineAhead, TurnsForward, CommandFresh, TakenFresh, OnCourse
<1>4. CASE dpc = "reading" /\ ~command.is
  <2>1. delayed = NoAction
    BY <1>4 DEF PlaceInv, DeadlineAhead
  <2>2. ~pwm.on
    BY <1>4 DEF PwmHasDeadline
  <2>3. motor' = motor /\ delayed' = delayed
    BY <1>1, <1>2, <2>1, <2>2 DEF Moved
  <2> QED BY <1>1, <2>3, PlaceKept
<1>5. CASE dpc \in {"waiting", "spinning"} /\ delayed > 0
  <2>1. motor' = motor + 1
    BY <1>1, <1>5 DEF PlaceInv, TurnsForward, Moved
  <2>2. delayed' = delayed - 1 /\ delayed # NoAction /\ delayed' # NoAction
    BY <1>1, <1>2, <1>5 DEF Later, NoAction
  <2>3. dpc = "waiting" => delayed > Early /\ ~command.is
    BY <1>1, <1>5 DEF Blocked, EventPending
  <2>4. Drift(command) \in Int /\ Drift(command)' = Drift(command) + 1
    BY <1>1, <1>2, <2>1 DEF Drift
  <2>5. DeadlineAhead'
    BY <1>1, <1>2, <1>5, <2>2, <2>3 DEF PlaceInv, DeadlineAhead
  <2>6. TurnsForward' /\ TakenFresh'
    BY <1>1, <1>5 DEF PlaceInv, TurnsForward, TakenFresh
  <2>7. CommandFresh'
    BY <1>1, <1>2, <1>5, <2>2, <2>3, <2>4 DEF PlaceInv, CommandFresh
  <2>8. OnCourse'
    BY <1>1, <1>2, <1>5, <2>1, <2>2 DEF PlaceInv, OnCourse
  <2> QED BY <2>5, <2>6, <2>7, <2>8 DEF PlaceInv
<1> QED BY <1>1, <1>2, <1>3, <1>4, <1>5 DEF Blocked

\* For every set of targets, and as long as the code's two limits of time are in this
\* order: a move forward ends no further from its target than they allow.
THEOREM MovesEndNearTarget == Spec => []StopsNearTarget
<1>1. Init => PlaceInv
  <2> SUFFICES ASSUME Init PROVE PlaceInv
    OBVIOUS
  <2>1. /\ dpc = "top" /\ delayed = -2 /\ NoAction = -2
        /\ ~command.is /\ ~(taken.target > taken.current)
    BY DEF Init, NoCommand, NoAction
  <2>2. ~(delayed > Short)
    BY <2>1, TimesAssumption
  <2> QED BY <2>1, <2>2
          DEF PlaceInv, DeadlineAhead, TurnsForward, CommandFresh, TakenFresh, OnCourse
<1>2. TypeOK /\ EventPending /\ PwmHasDeadline /\ PlaceInv /\ [Next]_vars => PlaceInv'
  <2> SUFFICES ASSUME TypeOK, EventPending, PwmHasDeadline, PlaceInv, [Next]_vars
               PROVE  PlaceInv'
    OBVIOUS
  <2>1. CASE SetEvent \/ Dispose \/ UNCHANGED vars
    BY <2>1, PlaceKept DEF SetEvent, Dispose, vars, callerVars, modelVars
  <2>2. CASE Dispatcher
    BY <2>2, WaitPlace, StopPlace, EndPlace, TakeOnReadPlace, TakeOnEventPlace, StartMovePlace
    DEF Dispatcher
  <2> QED BY <2>1, <2>2, MoveToPlace, TickPlace DEF Next
<1>3. TypeOK /\ PlaceInv => StopsNearTarget
  <2> SUFFICES ASSUME TypeOK, PlaceInv, Resting, taken.target > taken.current
               PROVE  motor \in (taken.target - Short)..(taken.target + Early)
    BY DEF StopsNearTarget
  <2>1. motor \in Int /\ taken.target \in Int
    BY DEF TypeOK, CommandSet
  <2>2. delayed = NoAction
    BY DEF Resting, PlaceInv, DeadlineAhead
  <2> QED BY <2>1, <2>2, TimesAssumption DEF Resting, PlaceInv, OnCourse
<1>4. Init => EventPending
  BY NoCommandType DEF Init, EventPending
<1>5. EventPending /\ [Next]_vars => EventPending'
  BY NextEventPending
<1> QED
  BY <1>1, <1>2, <1>3, <1>4, <1>5, TypeCorrect, PwmAlwaysHasDeadline, PTL DEF Spec
=============================================================================
