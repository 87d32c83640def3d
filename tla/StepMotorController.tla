------------------------- MODULE StepMotorController -------------------------
(***************************************************************************)
(* StepMotorController of EventPi.Pid with the part of StepMotorModel it   *)
(* uses: a caller hands over the newest target through a channel of one    *)
(* place and an event, a dispatcher thread keeps the PWM on for as long as *)
(* the move takes, and the motor turns while the PWM is on.                *)
(*                                                                         *)
(* Time passes in ticks of 50 ms and distances are counted in ticks of     *)
(* movement, so that a move of n takes n ticks.  Moments are kept relative *)
(* to now.  No thread is held up for as long as a tick: time passes only   *)
(* while everybody waits.                                                  *)
(***************************************************************************)
EXTENDS Integers

CONSTANTS
  Positions,     \* the targets a caller may ask for
  MaxCommands,   \* how many commands are given (bounds the runs)
  Short,         \* remaining time that is not worth waiting for, 100 ms
  Early          \* how long before the end the dispatcher begins to spin, 50 ms

ASSUME PositionsAssumption == Positions \subseteq Int /\ 0 \in Positions
ASSUME MaxCommandsAssumption == MaxCommands \in Nat
ASSUME TimesAssumption == Short \in Nat /\ Early \in Nat /\ Early <= Short

VARIABLES
  command,    \* the place of the channel: the newest command or NoCommand
  event,      \* _manualResetEvent
  cpc,        \* caller: whether it has yet to set the event
  dpc,        \* dispatcher: where OnDispatch is
  delayed,    \* dispatcher: time until delayedAction.ValidUntil, or NoAction
  finish,     \* model: time until _finish, Past when it is over
  backward,   \* model: LastDirection
  pwm,        \* the PWM: [on, reverse]
  motor,      \* where the motor is
  disposed,   \* Dispose was called
  taken,      \* history: the command the dispatcher took last
  given       \* history: number of commands given

callerVars == <<cpc, given>>
modelVars == <<finish, backward>>
vars == <<command, event, callerVars, dpc, delayed, modelVars, pwm, motor,
          disposed, taken>>

NoCommand == [target |-> 0, current |-> 0, is |-> FALSE]
Command(target, current) == [target |-> target, current |-> current, is |-> TRUE]
NoAction == -2
Past == -1

Init ==
  /\ command = NoCommand /\ event = FALSE
  /\ cpc = "idle" /\ given = 0
  /\ dpc = "top" /\ delayed = NoAction
  /\ finish = Past /\ backward = TRUE
  /\ pwm = [on |-> FALSE, reverse |-> FALSE]
  /\ motor = 0
  /\ disposed = FALSE
  /\ taken = NoCommand

-----------------------------------------------------------------------------
(* The caller: it has just measured where the motor is.                    *)

\* TryWrite replaces a command that was not taken yet.
MoveTo(target) ==
  /\ cpc = "idle"
  /\ given < MaxCommands
  /\ command' = Command(target, motor)
  /\ cpc' = "setting"
  /\ given' = given + 1
  /\ UNCHANGED <<event, dpc, delayed, modelVars, pwm, motor, disposed, taken>>

SetEvent ==
  /\ cpc = "setting"
  /\ event' = TRUE
  /\ cpc' = "idle"
  /\ UNCHANGED <<command, given, dpc, delayed, modelVars, pwm, motor, disposed,
                 taken>>

Dispose ==
  /\ ~disposed
  /\ disposed' = TRUE
  /\ UNCHANGED <<command, event, callerVars, dpc, delayed, modelVars, pwm, motor,
                 taken>>

-----------------------------------------------------------------------------
(* The dispatcher.                                                         *)

Off == [pwm EXCEPT !.on = FALSE]

\* Mutant: there is no finally.
End_NoFinally ==
  /\ dpc' = "ended"
  /\ UNCHANGED <<command, event, callerVars, delayed, modelVars, pwm, motor, disposed,
                 taken>>

\* The loop ends, by its condition or by an exception; the finally stops the PWM.
End ==
  /\ dpc' = "ended"
  /\ pwm' = Off
  /\ UNCHANGED <<command, event, callerVars, delayed, modelVars, motor, disposed,
                 taken>>

\* Mutant: the cancellation is caught inside the loop, which goes on.
LoopEnds_GoesRound == dpc = "top" /\ disposed /\ UNCHANGED vars

LoopEnds == dpc = "top" /\ disposed /\ End

\* ReadAsync is cancelled; Wait and Reset throw when the event is disposed, which
\* it is at the end of Dispose.  A Wait that has begun is not ended by Dispose.
CallThrows == dpc \in {"reading", "entering", "woken"} /\ disposed /\ End

AwaitCommand ==
  /\ dpc = "top" /\ ~disposed
  /\ delayed = NoAction
  /\ dpc' = "reading"
  /\ UNCHANGED <<command, event, callerVars, delayed, modelVars, pwm, motor,
                 disposed, taken>>

ChooseWait ==
  /\ dpc = "top" /\ ~disposed
  /\ delayed > Short
  /\ dpc' = "entering"
  /\ UNCHANGED <<command, event, callerVars, delayed, modelVars, pwm, motor,
                 disposed, taken>>

AwaitEvent ==
  /\ dpc = "entering"
  /\ dpc' = "waiting"
  /\ UNCHANGED <<command, event, callerVars, delayed, modelVars, pwm, motor,
                 disposed, taken>>

\* Mutant: the action is dropped and the PWM stays on.
StopAtOnce_StaysOn ==
  /\ dpc = "top" /\ ~disposed
  /\ delayed # NoAction /\ delayed <= Short
  /\ delayed' = NoAction
  /\ UNCHANGED <<command, event, callerVars, dpc, modelVars, pwm, motor, disposed,
                 taken>>

\* "We have waited too long", or the move is so short that it is not begun.
StopAtOnce ==
  /\ dpc = "top" /\ ~disposed
  /\ delayed # NoAction /\ delayed <= Short
  /\ pwm' = Off
  /\ delayed' = NoAction
  /\ UNCHANGED <<command, event, callerVars, dpc, modelVars, motor, disposed,
                 taken>>

\* The wait for the event times out a little before the end of the move ...
TimedOut ==
  /\ dpc = "waiting"
  /\ delayed <= Early
  /\ dpc' = "spinning"
  /\ UNCHANGED <<command, event, callerVars, delayed, modelVars, pwm, motor,
                 disposed, taken>>

\* ... and the thread spins to the end, deaf to commands.
SpinEnds ==
  /\ dpc = "spinning"
  /\ delayed <= 0
  /\ pwm' = Off
  /\ delayed' = NoAction
  /\ dpc' = "top"
  /\ UNCHANGED <<command, event, callerVars, modelVars, motor, disposed, taken>>

Woken ==
  /\ dpc = "waiting"
  /\ event
  /\ dpc' = "woken"
  /\ UNCHANGED <<command, event, callerVars, delayed, modelVars, pwm, motor,
                 disposed, taken>>

ResetEvent ==
  /\ dpc = "woken"
  /\ event' = FALSE
  /\ dpc' = "taking"
  /\ UNCHANGED <<command, callerVars, delayed, modelVars, pwm, motor, disposed,
                 taken>>

\* The duration of a move is the number of its steps, which is negative for a
\* move backward: such a move is over before it begins.
Duration(c) == IF c.target - c.current >= 0 THEN c.target - c.current ELSE Past

\* StepMotorModel.MoveTo: a model that is not moving does not begin a move that
\* leads nowhere (Pause).  Continue, Start and Reverse differ in nothing the
\* dispatcher looks at.
Pause(c) == finish = Past /\ c.target = c.current

Move(c) ==
  /\ finish' = Duration(c)
  /\ backward' = (c.target <= c.current)

\* Mutant: the command that woke the dispatcher does not change the deadline.
TakeOnEvent_OldDeadline ==
  /\ dpc = "taking"
  /\ dpc' = "top"
  /\ IF command.is /\ ~Pause(command)
       THEN Move(command) /\ pwm' = [pwm EXCEPT !.reverse = backward']
       ELSE UNCHANGED <<modelVars, pwm>>
  /\ taken' = IF command.is THEN command ELSE taken
  /\ command' = NoCommand
  /\ UNCHANGED <<event, callerVars, delayed, motor, disposed>>

\* Woken by the event: TryRead, and a new deadline for the PWM, which is on.
TakeOnEvent ==
  /\ dpc = "taking"
  /\ dpc' = "top"
  /\ IF command.is /\ ~Pause(command)
       THEN /\ Move(command)
            /\ delayed' = finish'
            /\ pwm' = [pwm EXCEPT !.reverse = backward']
       ELSE UNCHANGED <<modelVars, delayed, pwm>>
  /\ taken' = IF command.is THEN command ELSE taken
  /\ command' = NoCommand
  /\ UNCHANGED <<event, callerVars, motor, disposed>>

\* ReadAsync.
TakeOnRead ==
  /\ dpc = "reading" /\ ~disposed
  /\ command.is
  /\ taken' = command
  /\ command' = NoCommand
  /\ dpc' = "starting"
  /\ UNCHANGED <<event, callerVars, delayed, modelVars, pwm, motor, disposed>>

\* Mutant: the event of the command just read is reset before it is waited for.
StartMove_ResetsEvent ==
  /\ dpc = "starting"
  /\ dpc' = "top"
  /\ event' = FALSE
  /\ IF Pause(taken)
       THEN UNCHANGED <<modelVars, delayed, pwm>>
       ELSE /\ Move(taken)
            /\ delayed' = finish'
            /\ pwm' = [on |-> TRUE, reverse |-> backward']
  /\ UNCHANGED <<command, callerVars, motor, disposed, taken>>

\* The PWM is started unless there is nothing to move.
StartMove ==
  /\ dpc = "starting"
  /\ dpc' = "top"
  /\ IF Pause(taken)
       THEN UNCHANGED <<modelVars, delayed, pwm>>
       ELSE /\ Move(taken)
            /\ delayed' = finish'
            /\ pwm' = [on |-> TRUE, reverse |-> backward']
  /\ UNCHANGED <<event, command, callerVars, motor, disposed, taken>>

-----------------------------------------------------------------------------
(* Time.                                                                   *)

Blocked ==
  /\ cpc = "idle"
  /\ \/ dpc = "reading" /\ ~command.is /\ ~disposed
     \/ dpc = "waiting" /\ ~event /\ delayed > Early
     \/ dpc = "spinning" /\ delayed > 0
     \/ dpc = "ended"

Later(t) == IF t > 0 THEN t - 1 ELSE Past

Moved == IF ~pwm.on THEN 0 ELSE IF pwm.reverse THEN -1 ELSE 1

\* The motor turns while the PWM is on.
Tick ==
  /\ Blocked
  /\ motor' = motor + Moved
  /\ finish' = Later(finish)
  /\ delayed' = IF delayed = NoAction THEN NoAction ELSE Later(delayed)
  /\ UNCHANGED <<command, event, callerVars, dpc, backward, pwm, disposed, taken>>

Dispatcher ==
  \/ LoopEnds \/ CallThrows \/ AwaitCommand \/ ChooseWait \/ AwaitEvent
  \/ StopAtOnce \/ TimedOut \/ SpinEnds \/ Woken \/ ResetEvent
  \/ TakeOnEvent \/ TakeOnRead \/ StartMove

Next ==
  \/ \E target \in Positions : MoveTo(target)
  \/ SetEvent \/ Dispose \/ Dispatcher \/ Tick

\* The two threads run, and time passes.  Nobody has to call MoveTo or Dispose.
Spec ==
  /\ Init /\ [][Next]_vars
  /\ WF_vars(Dispatcher) /\ WF_vars(SetEvent) /\ WF_vars(Tick)

-----------------------------------------------------------------------------
CommandSet == [target : Int, current : Int, is : BOOLEAN]

\* Every variable holds a value of its kind, and a remaining time is never older
\* than Past.
TypeOK ==
  /\ command \in CommandSet /\ taken \in CommandSet
  /\ event \in BOOLEAN /\ backward \in BOOLEAN /\ disposed \in BOOLEAN
  /\ cpc \in {"idle", "setting"} /\ given \in 0..MaxCommands
  /\ dpc \in {"top", "reading", "starting", "entering", "waiting", "spinning",
              "woken", "taking", "ended"}
  /\ pwm \in [on : BOOLEAN, reverse : BOOLEAN]
  /\ motor \in Int
  /\ finish \in Int /\ finish >= Past
  /\ delayed \in Int /\ delayed >= NoAction

\* A command that was handed over completely never lies in the channel while the
\* dispatcher sleeps on an event that is not set: it would be noticed only when
\* the old move is over.
NoLostWakeup ==
  dpc = "waiting" /\ cpc = "idle" /\ command.is => event

\* The PWM is on only while a deadline is pending that will turn it off, never
\* while the dispatcher waits for a first command or has ended: the motor would
\* run into its end stop.
PwmHasDeadline ==
  pwm.on => delayed # NoAction /\ dpc \notin {"reading", "starting", "ended"}

\* When a move forward is over the motor stands where the newest command wanted
\* it: short of it by no more than the time that is not worth waiting for, beyond
\* it by no more than the motor turned while the dispatcher was deaf.
Resting == dpc = "reading" /\ ~command.is /\ cpc = "idle"
StopsNearTarget ==
  Resting /\ taken.target > taken.current
    => motor \in (taken.target - Short)..(taken.target + Early)

\* After Dispose the PWM is stopped for good, in whatever call Dispose has met the
\* dispatcher.
DisposedStops == disposed ~> [](~pwm.on)
=============================================================================
