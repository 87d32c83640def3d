---------------------------- MODULE PwmController ----------------------------
(***************************************************************************)
(* PwmController and PinsController of EventPi.SimpleAPIToPWM: requests    *)
(* that drive a motor for some time, forward or backward.  A request tests *)
(* IsRunning and starts a task; it is the task that increments IsRunning,  *)
(* so that several requests may pass the test before the first task runs.  *)
(*                                                                         *)
(* Times are left out of a duration but for its sign and for the smallest  *)
(* integer, whose negation is itself and which Thread.Sleep refuses.       *)
(***************************************************************************)
EXTENDS Integers, FiniteSets

CONSTANTS
  MaxPosts,     \* how many requests start a task (bounds the runs)
  Smallest      \* TRUE: a duration may be the smallest integer

ASSUME MaxPostsAssumption == MaxPosts \in Nat
ASSUME SmallestAssumption == Smallest \in BOOLEAN

VARIABLES
  pwmRunning,   \* IsRunning
  pwmMotor,     \* the PWM channel: TRUE while it is started
  pwmPin,       \* pin 26: TRUE for high, forward
  pwmTasks,     \* per request: where its RunMotor is, and its duration
  pwmAlone,     \* history: requests that no other one came close to
  pwmPosts      \* history: number of tasks started

pwmVars == <<pwmRunning, pwmMotor, pwmPin, pwmTasks, pwmAlone, pwmPosts>>

Posts == 0 .. MaxPosts - 1
Durations == {"forward", "backward"}
                 \union (IF Smallest THEN {"smallest"} ELSE {})

TaskAt(i, at) == pwmTasks[i].at = at
\* Tasks in whose hands the motor is or may come.
InFlight == {i \in Posts : pwmTasks[i].at \notin {"none", "ended"}}

PwmInit ==
  /\ pwmRunning = 0
  /\ pwmMotor = FALSE /\ pwmPin = FALSE
  /\ pwmTasks = [i \in Posts |-> [at |-> "none", duration |-> "forward"]]
  /\ pwmAlone = {}
  /\ pwmPosts = 0

-----------------------------------------------------------------------------
Move(i, at) == pwmTasks' = [pwmTasks EXCEPT ![i].at = at]

\* Mutant: IsRunning is not looked at.
Post_Untested(d) ==
  /\ pwmPosts < MaxPosts
  /\ pwmTasks' = [pwmTasks EXCEPT ![pwmPosts] = [at |-> "queued", duration |-> d]]
  /\ pwmAlone' = IF \A i \in InFlight : ~TaskAt(i, "queued")
                   THEN pwmAlone \union {pwmPosts} ELSE pwmAlone \ InFlight
  /\ pwmPosts' = pwmPosts + 1
  /\ UNCHANGED <<pwmRunning, pwmMotor, pwmPin>>

\* A request is accepted if no task is counted; otherwise it changes nothing.
\* History: those that wait for their turn with it are not alone any more.
Post(d) ==
  /\ pwmPosts < MaxPosts
  /\ pwmRunning = 0
  /\ pwmTasks' = [pwmTasks EXCEPT ![pwmPosts] = [at |-> "queued", duration |-> d]]
  /\ pwmAlone' = IF \A i \in InFlight : ~TaskAt(i, "queued")
                   THEN pwmAlone \union {pwmPosts} ELSE pwmAlone \ InFlight
  /\ pwmPosts' = pwmPosts + 1
  /\ UNCHANGED <<pwmRunning, pwmMotor, pwmPin>>

\* Mutant: IsRunning is a flag.
CountUp_Flag(i) ==
  /\ TaskAt(i, "queued")
  /\ pwmRunning' = 1
  /\ Move(i, "counted")
  /\ UNCHANGED <<pwmMotor, pwmPin, pwmAlone, pwmPosts>>

CountUp(i) ==
  /\ TaskAt(i, "queued")
  /\ pwmRunning' = pwmRunning + 1
  /\ Move(i, "counted")
  /\ UNCHANGED <<pwmMotor, pwmPin, pwmAlone, pwmPosts>>

\* ChangeToForward or ChangeToBackward
SetDirection(i) ==
  /\ TaskAt(i, "counted")
  /\ pwmPin' = (pwmTasks[i].duration = "forward")
  /\ Move(i, "directed")
  /\ UNCHANGED <<pwmRunning, pwmMotor, pwmAlone, pwmPosts>>

StartMotor(i) ==
  /\ TaskAt(i, "directed")
  /\ pwmMotor' = TRUE
  /\ Move(i, "driving")
  /\ UNCHANGED <<pwmRunning, pwmPin, pwmAlone, pwmPosts>>

\* Thread.Sleep throws: the motor stays on and the task stays counted.
SleepThrows(i) ==
  /\ TaskAt(i, "driving")
  /\ pwmTasks[i].duration = "smallest"
  /\ Move(i, "failed")
  /\ UNCHANGED <<pwmRunning, pwmMotor, pwmPin, pwmAlone, pwmPosts>>

\* Mutant: the motor is left to the other tasks that are counted.
StopMotor_LeftToOthers(i) ==
  /\ TaskAt(i, "driving")
  /\ pwmTasks[i].duration # "smallest"
  /\ pwmMotor' = (pwmRunning > 1)
  /\ Move(i, "stopped")
  /\ UNCHANGED <<pwmRunning, pwmPin, pwmAlone, pwmPosts>>

StopMotor(i) ==
  /\ TaskAt(i, "driving")
  /\ pwmTasks[i].duration # "smallest"
  /\ pwmMotor' = FALSE
  /\ Move(i, "stopped")
  /\ UNCHANGED <<pwmRunning, pwmPin, pwmAlone, pwmPosts>>

CountDown(i) ==
  /\ TaskAt(i, "stopped")
  /\ pwmRunning' = pwmRunning - 1
  /\ Move(i, "ended")
  /\ UNCHANGED <<pwmMotor, pwmPin, pwmAlone, pwmPosts>>

-----------------------------------------------------------------------------
RunMotor(i) ==
  \/ CountUp(i) \/ SetDirection(i) \/ StartMotor(i)
  \/ SleepThrows(i) \/ StopMotor(i) \/ CountDown(i)

PwmNext ==
  \/ \E d \in Durations : Post(d)
  \/ \E i \in Posts : RunMotor(i)

\* The thread pool runs every task, and every sleep ends.
PwmFairness == \A i \in Posts : WF_pwmVars(RunMotor(i))

PwmSpec == PwmInit /\ [][PwmNext]_pwmVars
PwmFairSpec == PwmSpec /\ PwmFairness

-----------------------------------------------------------------------------
(* Properties.                                                             *)

Failed == {i \in Posts : TaskAt(i, "failed")}

\* The motor is on only in the hands of a task that will stop it, or for ever
\* because of a duration whose negation is not positive.
MotorInHands == pwmMotor => \E i \in Posts : TaskAt(i, "driving") \/ TaskAt(i, "failed")

\* A request that was not posted together with another one drives the motor its
\* own way for its whole time: nobody turns the pin or stops the motor under it.
AloneUndisturbed ==
  \A i \in pwmAlone :
    TaskAt(i, "driving") => /\ pwmMotor
                            /\ pwmPin = (pwmTasks[i].duration = "forward")

\* The motor never turns without somebody who stops it, nor otherwise than the
\* request that is alone asked for.
MotorUnderControl == MotorInHands /\ AloneUndisturbed

\* Requests are accepted again and again, until a task has failed.
AcceptsAgain == []<>(pwmRunning = 0 \/ Failed # {})
=============================================================================
