---------------------------- MODULE CameraManager ----------------------------
(***************************************************************************)
(* CameraManager of EventPi.Services.Camera with its callers: command      *)
(* handlers, which record what they queued in the event store, and callers *)
(* that record nothing (the welding recognition and the profile buttons of *)
(* its page) put jobs into an unbounded queue, one runner takes them out   *)
(* and talks to the cameras, and web pages greet a camera on threads of    *)
(* their own.  The dictionary of gRPC channels is shared by the runner and *)
(* the greetings without a lock.                                           *)
(*                                                                         *)
(* A command is represented by the order in which it was given.  A setting *)
(* of parameters is sent in two calls, options and shutter.  A call that   *)
(* fails may still have reached the camera.                                *)
(***************************************************************************)
EXTENDS Integers, Sequences, FiniteSets, SequencesExt

CONSTANTS
  CameraCount,
  MaxCommands,   \* how many commands are given (bounds the runs)
  MaxGreetings,  \* how many greetings begin (bounds the runs)
  Retry,         \* attempts per job, 10 in the code
  Disposal       \* TRUE: the manager may be disposed

All == -1
Cameras == 0 .. CameraCount - 1
NoCommand == -1

ASSUME CameraCountAssumption == CameraCount \in Nat \ {0}
ASSUME RetryAssumption == Retry \in Nat \ {0}
ASSUME DisposalAssumption == Disposal \in BOOLEAN

VARIABLES
  queue,      \* _queue: the jobs not begun
  channels,   \* _channels: per camera "none", "open" or "closed" (disposed)
  pc,         \* runner: where it is in its job
  client,     \* runner: how far GetClient has come
  job,        \* runner: the job it works on
  attempt,    \* runner: i of OnProcessAsyncWithRetry
  error,      \* runner: a call of this attempt failed
  handlers,   \* the command handlers that have queued a job and not recorded it
  recorded,   \* event store: last CameraParametersState per address
  camera,     \* the cameras: the commands their settings come from
  greeting,   \* GreetWithRpiCam: its camera and how far GetClient has come
  disposer,   \* Dispose: how far it has come, and the channels it enumerates
  given,      \* history: number of commands given
  greeted,    \* history: number of greetings begun
  intended,   \* history: command of the last parameters job queued per camera
  gaveUp,     \* history: cameras whose last parameters job was given up
  last,       \* history: the last command queued for each address
  bypassed    \* history: addresses whose last command the store need not name

runnerVars == <<pc, client, job, attempt, error>>
callerVars == <<handlers, recorded, given, last, bypassed>>
vars == <<queue, channels, runnerVars, callerVars, camera, greeting, disposer,
          greeted, intended, gaveUp>>

Address == Cameras \union {All}
Job == [kind: {"params", "histogram"}, cmd: Nat, cam: Address]
NoJob == [kind |-> "params", cmd |-> 0, cam |-> 0]
Params(cmd, cam) == [kind |-> "params", cmd |-> cmd, cam |-> cam]
NoOne == [on |-> FALSE, cam |-> 0, at |-> "lookup"]

Init ==
  /\ queue = <<>>
  /\ channels = [c \in Cameras |-> "none"]
  /\ pc = "waiting" /\ client = "lookup" /\ job = NoJob
  /\ attempt = 0 /\ error = FALSE
  /\ handlers = {}
  /\ recorded = [a \in Address |-> NoCommand]
  /\ camera = [c \in Cameras |-> [options |-> NoCommand, shutter |-> NoCommand,
                                  histogram |-> NoCommand]]
  /\ greeting = NoOne
  /\ disposer = [at |-> "none", seen |-> {}]
  /\ given = 0 /\ greeted = 0
  /\ intended = [c \in Cameras |-> NoCommand]
  /\ gaveUp = {} /\ bypassed = {}
  /\ last = [a \in Address |-> NoCommand]

-----------------------------------------------------------------------------
(* The callers.                                                            *)

\* Putting a job into the queue; a job for one camera settles what that camera
\* is meant to be set to.
Enqueue(j) ==
  /\ queue' = Append(queue, j)
  /\ intended' = IF j.kind = "params" /\ j.cam # All
                   THEN [intended EXCEPT ![j.cam] = j.cmd] ELSE intended

\* The handlers that work on a command for the address.
HandlersOf(addr) == {h \in handlers : h.cam = addr}

\* Handle of SetCameraParameters: the command is queued, for one camera or
\* for all of them ...
HandleParameters(addr) ==
  /\ given < MaxCommands
  /\ Enqueue(Params(given, addr))
  /\ handlers' = handlers \union {Params(given, addr)}
  /\ given' = given + 1
  /\ last' = [last EXCEPT ![addr] = given]
  /\ bypassed' = IF HandlersOf(addr) = {} THEN bypassed \ {addr}
                 ELSE bypassed \union {addr}
  /\ UNCHANGED <<channels, runnerVars, recorded, camera, greeting, disposer,
                 greeted, gaveUp>>

\* ... and recorded as the state of that address, whatever comes of it.  Two
\* handlers may record in another order than they queued.
RecordState ==
  \E h \in handlers :
    /\ recorded' = [recorded EXCEPT ![h.cam] = h.cmd]
    /\ handlers' = handlers \ {h}
    /\ UNCHANGED <<queue, channels, runnerVars, given, last, bypassed, camera,
                   greeting, disposer, greeted, intended, gaveUp>>

\* AppendState throws and the command ends with an error.
RecordFails ==
  \E h \in handlers :
    /\ bypassed' = bypassed \union {h.cam}
    /\ handlers' = handlers \ {h}
    /\ UNCHANGED <<queue, channels, runnerVars, recorded, given, last, camera,
                   greeting, disposer, greeted, intended, gaveUp>>

\* The welding recognition and the two profile buttons of its page queue a setting
\* for one camera themselves; the event store hears nothing of it.
SendDirectly(c) ==
  /\ given < MaxCommands
  /\ Enqueue(Params(given, c))
  /\ given' = given + 1
  /\ last' = [last EXCEPT ![c] = given]
  /\ bypassed' = bypassed \union {c}
  /\ UNCHANGED <<channels, runnerVars, handlers, recorded, camera, greeting,
                 disposer, greeted, gaveUp>>

\* Handle of SetCameraHistogramFilter: always for camera 0.
HandleHistogram ==
  /\ given < MaxCommands
  /\ Enqueue([kind |-> "histogram", cmd |-> given, cam |-> 0])
  /\ given' = given + 1
  /\ UNCHANGED <<channels, runnerVars, handlers, recorded, last, bypassed,
                 camera, greeting, disposer, greeted, gaveUp>>

-----------------------------------------------------------------------------
(* The runner.                                                             *)

calling == pc \in {"options", "shutter", "histogram"}

\* Where a job begins, at its first and at every later attempt.
FirstStep(j) ==
  CASE j.kind = "histogram" -> "histogram"
    [] j.kind = "params" /\ j.cam = All -> "expand"
    [] OTHER -> "options"

\* Mutant: the newest job is taken first.
TakeJob_Newest ==
  /\ pc = "idle"
  /\ queue # <<>>
  /\ job' = Last(queue)
  /\ queue' = Front(queue)
  /\ pc' = FirstStep(job')
  /\ client' = "lookup" /\ attempt' = 0 /\ error' = FALSE
  /\ UNCHANGED <<channels, callerVars, camera, greeting, disposer, greeted,
                 intended, gaveUp>>

TakeJob ==
  /\ pc = "idle"
  /\ queue # <<>>
  /\ job' = Head(queue)
  /\ queue' = Tail(queue)
  /\ pc' = FirstStep(job')
  /\ client' = "lookup" /\ attempt' = 0 /\ error' = FALSE
  /\ UNCHANGED <<channels, callerVars, camera, greeting, disposer, greeted,
                 intended, gaveUp>>

\* Mutant: the last camera is left out.
ExpandNext_OneShort ==
  /\ pc = "expand"
  /\ Enqueue(Params(job.cmd, attempt))
  /\ attempt' = attempt + 1
  /\ pc' = IF attempt + 2 >= CameraCount THEN "idle" ELSE "expand"
  /\ UNCHANGED <<channels, client, job, error, callerVars, camera, greeting,
                 disposer, greeted, gaveUp>>

\* A job for all cameras puts one job per camera at the end of the queue, one
\* after the other; attempt counts the cameras meanwhile.
ExpandNext ==
  /\ pc = "expand"
  /\ Enqueue(Params(job.cmd, attempt))
  /\ attempt' = attempt + 1
  /\ pc' = IF attempt + 1 = CameraCount THEN "idle" ELSE "expand"
  /\ UNCHANGED <<channels, client, job, error, callerVars, camera, greeting,
                 disposer, greeted, gaveUp>>

\* Mutant: the channel is added every time.
LookupChannel_Never ==
  /\ calling
  /\ client = "lookup"
  /\ client' = "adding"
  /\ UNCHANGED <<queue, channels, pc, job, attempt, error, callerVars, camera,
                 greeting, disposer, greeted, intended, gaveUp>>

\* GetClient: the channel is looked up ...
LookupChannel ==
  /\ calling
  /\ client = "lookup"
  /\ client' = IF channels[job.cam] = "none" THEN "adding" ELSE "ready"
  /\ UNCHANGED <<queue, channels, pc, job, attempt, error, callerVars, camera,
                 greeting, disposer, greeted, intended, gaveUp>>

\* ... and added if there was none.
AddChannel ==
  /\ calling
  /\ client = "adding"
  /\ channels[job.cam] = "none"
  /\ channels' = [channels EXCEPT ![job.cam] = "open"]
  /\ client' = "ready"
  /\ UNCHANGED <<queue, pc, job, attempt, error, callerVars, camera, greeting,
                 disposer, greeted, intended, gaveUp>>

\* After the options the shutter is set, whether they failed or not; after the
\* last call the job ends or waits for its next attempt.
AfterCall(failed) ==
  /\ error' = (error \/ failed)
  /\ client' = "lookup"
  /\ pc' = IF pc = "options" THEN "shutter"
           ELSE IF error' THEN "delay" ELSE "idle"
  /\ gaveUp' = IF pc = "shutter" /\ ~error' THEN gaveUp \ {job.cam} ELSE gaveUp
  /\ UNCHANGED <<queue, job, attempt, callerVars, greeting, disposer, greeted,
                 intended>>

\* Another thread has added the channel since it was looked up: Add throws.  In
\* a job of parameters that is a failed call like any other; the call of
\* GetClient for a histogram is outside the try, so that the exception ends
\* the runner, which catches nothing but cancellation.
AddThrows ==
  /\ calling
  /\ client = "adding"
  /\ channels[job.cam] # "none"
  /\ IF pc = "histogram"
       THEN /\ pc' = "dead"
            /\ UNCHANGED <<queue, client, job, attempt, error, callerVars,
                           greeting, disposer, greeted, intended, gaveUp>>
       ELSE AfterCall(TRUE)
  /\ UNCHANGED <<channels, camera>>

\* Mutant: the shutter of every camera is set to that of camera 0.
Answered_WrongCamera ==
  /\ calling
  /\ client = "ready"
  /\ channels[job.cam] = "open"
  /\ camera' = [camera EXCEPT ![IF pc = "shutter" THEN 0 ELSE job.cam][pc] = job.cmd]
  /\ AfterCall(FALSE)
  /\ UNCHANGED channels

\* The camera answers.
Answered ==
  /\ calling
  /\ client = "ready"
  /\ channels[job.cam] = "open"
  /\ camera' = [camera EXCEPT ![job.cam][pc] = job.cmd]
  /\ AfterCall(FALSE)
  /\ UNCHANGED channels

\* Mutant: a failed call is not noticed.
CallFails_Ignored ==
  /\ calling
  /\ client = "ready"
  /\ channels[job.cam] = "open"
  /\ \/ camera' = [camera EXCEPT ![job.cam][pc] = job.cmd]
     \/ UNCHANGED camera
  /\ AfterCall(FALSE)
  /\ UNCHANGED channels

\* The call fails before or after the camera has done what it was asked to do.
CallFails ==
  /\ calling
  /\ client = "ready"
  /\ channels[job.cam] = "open"
  /\ \/ camera' = [camera EXCEPT ![job.cam][pc] = job.cmd]
     \/ UNCHANGED camera
  /\ AfterCall(TRUE)
  /\ UNCHANGED channels

\* A disposed channel throws.
CallDisposed ==
  /\ calling
  /\ client = "ready"
  /\ channels[job.cam] = "closed"
  /\ AfterCall(TRUE)
  /\ UNCHANGED <<channels, camera>>

\* Mutant: the last attempt starts over.
DelayEnds_NoLimit ==
  /\ pc = "delay"
  /\ pc' = FirstStep(job) /\ error' = FALSE
  /\ UNCHANGED <<attempt, gaveUp>>
  /\ UNCHANGED <<queue, channels, client, job, callerVars, camera, greeting,
                 disposer, greeted, intended>>

\* Task.Delay after a failed attempt, then the next one or giving up.
DelayEnds ==
  /\ pc = "delay"
  /\ IF attempt + 1 < Retry
       THEN /\ attempt' = attempt + 1
            /\ pc' = FirstStep(job)
            /\ error' = FALSE
            /\ UNCHANGED gaveUp
       ELSE /\ pc' = "idle"
            /\ gaveUp' = IF job.kind = "params" THEN gaveUp \union {job.cam}
                         ELSE gaveUp
            /\ UNCHANGED <<attempt, error>>
  /\ UNCHANGED <<queue, channels, client, job, callerVars, camera, greeting,
                 disposer, greeted, intended>>

\* The queue is found empty and the runner waits for a job ...
FindNothing ==
  /\ pc = "idle"
  /\ queue = <<>>
  /\ pc' = "waiting"
  /\ UNCHANGED <<queue, channels, client, job, attempt, error, callerVars,
                 camera, greeting, disposer, greeted, intended, gaveUp>>

WakeUp ==
  /\ pc = "waiting"
  /\ queue # <<>>
  /\ pc' = "idle"
  /\ UNCHANGED <<queue, channels, client, job, attempt, error, callerVars,
                 camera, greeting, disposer, greeted, intended, gaveUp>>

\* Mutant: the token is looked at between two jobs only.
RunnerEnds_BetweenJobs ==
  /\ pc = "idle"
  /\ queue # <<>>
  /\ disposer.at = "cancelled"
  /\ pc' = "ended"
  /\ UNCHANGED <<queue, channels, client, job, attempt, error, callerVars,
                 camera, greeting, disposer, greeted, intended, gaveUp>>

\* ... which is the only moment when it sees a cancellation.
RunnerEnds ==
  /\ pc = "waiting"
  /\ disposer.at = "cancelled"
  /\ pc' = "ended"
  /\ UNCHANGED <<queue, channels, client, job, attempt, error, callerVars,
                 camera, greeting, disposer, greeted, intended,
                 gaveUp>>

-----------------------------------------------------------------------------
(* Greetings and Dispose.                                                  *)

BeginGreeting(c) ==
  /\ greeted < MaxGreetings
  /\ ~greeting.on
  /\ greeting' = [on |-> TRUE, cam |-> c,
                  at |-> IF channels[c] = "none" THEN "adding" ELSE "ready"]
  /\ greeted' = greeted + 1
  /\ UNCHANGED <<queue, channels, runnerVars, callerVars, camera, disposer,
                 intended, gaveUp>>

\* Add throws if the runner was faster; the greeting catches everything.
GreetingAdds ==
  /\ greeting.on
  /\ greeting.at = "adding"
  /\ IF channels[greeting.cam] = "none"
       THEN /\ channels' = [channels EXCEPT ![greeting.cam] = "open"]
            /\ greeting' = [greeting EXCEPT !.at = "ready"]
       ELSE /\ greeting' = NoOne
            /\ UNCHANGED channels
  /\ UNCHANGED <<queue, runnerVars, callerVars, camera, disposer, greeted,
                 intended, gaveUp>>

\* The camera answers "Hello!" or does not; no state depends on it.
GreetingEnds ==
  /\ greeting.on
  /\ greeting.at = "ready"
  /\ greeting' = NoOne
  /\ UNCHANGED <<queue, channels, runnerVars, callerVars, camera, disposer,
                 greeted, intended, gaveUp>>

\* Dispose goes through the dictionary ...
DisposeChannels ==
  /\ Disposal
  /\ disposer.at = "none"
  /\ channels' = [c \in Cameras |-> IF channels[c] = "open" THEN "closed"
                                    ELSE channels[c]]
  /\ disposer' = [at |-> "disposed",
                  seen |-> {c \in Cameras : channels[c] # "none"}]
  /\ UNCHANGED <<queue, runnerVars, callerVars, camera, greeting, greeted,
                 intended, gaveUp>>

\* ... whose enumerator throws if a channel was added meanwhile, in which case
\* nothing is cancelled.  The addition may also come too late to be noticed.
CancelRunner ==
  /\ disposer.at = "disposed"
  /\ LET changed == {c \in Cameras : channels[c] # "none"} # disposer.seen
     IN  \E noticed \in {TRUE, FALSE} :
           /\ noticed => changed
           /\ disposer' = [disposer EXCEPT !.at = IF noticed THEN "failed"
                                                  ELSE "cancelled"]
  /\ UNCHANGED <<queue, channels, runnerVars, callerVars, camera, greeting,
                 greeted, intended, gaveUp>>

-----------------------------------------------------------------------------
Callers ==
  \/ \E a \in Address : HandleParameters(a)
  \/ \E c \in Cameras : SendDirectly(c)
  \/ HandleHistogram
Recorder == RecordState \/ RecordFails

Runner ==
  \/ TakeJob \/ ExpandNext \/ LookupChannel \/ AddChannel \/ AddThrows
  \/ Answered \/ CallFails \/ CallDisposed \/ DelayEnds
  \/ FindNothing \/ WakeUp \/ RunnerEnds

Greeter ==
  \/ \E c \in Cameras : BeginGreeting(c)
  \/ GreetingAdds \/ GreetingEnds

Next == Callers \/ Recorder \/ Runner \/ Greeter \/ DisposeChannels \/ CancelRunner

Spec == Init /\ [][Next]_vars

\* The runner's thread goes on whenever it can; every call it makes ends.
FairSpec == Spec /\ WF_vars(Runner)

-----------------------------------------------------------------------------
(* Properties.                                                             *)

WorkingFor(c) ==
  pc \in {"options", "shutter", "delay"} /\ job.kind = "params" /\ job.cam = c
Pending(c) ==
  \/ WorkingFor(c)
  \/ \E i \in DOMAIN queue : queue[i].kind = "params" /\ queue[i].cam = c

\* Once the jobs for a camera are done both halves of its settings come from
\* the job that was queued last, unless that job was given up: neither failed
\* halves, nor retries, nor jobs for other cameras change the outcome.
LastQueuedWins ==
  \A c \in Cameras :
    (~Pending(c) /\ c \notin gaveUp)
      => camera[c].options = intended[c] /\ camera[c].shutter = intended[c]

\* When all is quiet, both halves of a camera that took its last job come from the
\* last command that anybody queued for it or for all cameras, and the event store
\* names that command as the last one of that address, unless it was bypassed:
\* the command came from a caller that records nothing, recording it failed, or two
\* handlers worked on the same address at once.  (Which of the two addresses is not
\* the newer one for certain: a job for one camera overtakes an older job for all.)
CameraHoldsRecorded ==
  (pc = "waiting" /\ queue = <<>> /\ handlers = {})
    => \A c \in Cameras \ gaveUp :
         \E a \in {c, All} :
           /\ camera[c].options = last[a] /\ camera[c].shutter = last[a]
           /\ recorded[a] = last[a] \/ a \in bypassed

\* Greeting a camera can end the runner only before its first call to that
\* camera: a channel that was used once is never added again.
DiesOnlyAtFirstUse ==
  pc = "dead" =>
    \A part \in DOMAIN camera[job.cam] : camera[job.cam][part] = NoCommand

\* A camera that does not answer never blocks the commands behind it: the queue
\* is emptied again and again, unless the runner is gone.
QueueDrains == []<>((queue = <<>> /\ pc = "waiting") \/ pc \in {"dead", "ended"})

\* A command for all cameras becomes a job for each of them.
BroadcastReachesEveryCamera ==
  \A c \in Cameras : \A n \in 0 .. MaxCommands - 1 :
    (pc = "expand" /\ attempt = 0 /\ job.cmd = n) ~> (intended[c] = n)

\* A disposed manager stops working, however long its queue was.
DisposedRunnerEnds == disposer.at = "cancelled" ~> pc \in {"ended", "dead"}
=============================================================================
