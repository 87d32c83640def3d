# EventPi, specified in TLA+

This directory specifies the parts of EventPi that coordinate threads, processes
and devices, checks them with TLC on small instances and proves the central
facts for every size with TLAPS. All paths below are relative to the
repository's `src/` directory.

## The system and its parts

EventPi is a family of .NET libraries and services for a Raspberry Pi beside a
welding machine, with EventStoreDB behind it. Services talk to each other through
event streams (MicroPlumberd), to devices through gRPC, HTTP, D-Bus, SSH, Docker
and shared memory, and to browsers through SignalR and Blazor.

| Part | State it keeps | Operations and partners | What is hard | What makes it correct |
| --- | --- | --- | --- | --- |
| Shared memory ring, `EventPi.SharedMemory`, `EventPi.Threading` | ring file, named semaphore, private indices and counters of the two sides | push, pop, release; constructors and Dispose in two processes | no test for a full ring, frames overwritten while held, either process dying and reopening | frames in order and intact, alarms only for overwritten frames, a fresh pair starts afresh |
| Machine work time, `EventPi.Services.MachineWorkTime` | working flag, card, last swipe, call counter, shutdown flag | `Post` per swipe, `DisposeAsync`; event store, handlers of the application | overlapping calls, stale checks, failing awaits, shutdown | alternating start and stop events, one swap at a time, the swipe window, shutdown ends |
| Camera commands, `EventPi.Services.Camera` (`GrpcCppProxy.cs`, `CameraCommandHandler.cs`) | queue of commands, gRPC channels per camera | command handlers enqueue, one runner sends with retries, broadcasts fan out through the same queue | retries block the queue, fan-out at the tail overtakes nothing but is overtaken by nothing, partial failure of two calls | every queued command is tried in order, both halves of a setting come from one command |
| Camera processes, `LibCameraVid.cs`, `LibCameraStarter.cs`, `OpenVidCam.cs`, `DockerLibCamera.cs` | table of running processes or containers, list of cancellation tokens | start, stop, Dispose; operating system, Docker | the end of a process races its stop, a task of an old process clears the entry of a new one, a list is changed and enumerated without a lock | what was started can be stopped, Dispose ends all |
| Welding recognition, `WeldingRecognition*.cs` | frame parity counts, averages, welding flag, bounded channel | frame callback, provider of profiles, sender | callbacks racing, exceptions leave the busy flag, a configuration taken over field by field, other writers of the setting | hysteresis, the last detected state reaches the camera unless somebody else has set it since |
| Step motor and PID, `EventPi.Pid` | target channel, position model, PWM | set point, dispatch loop, timers, dispose | position read by other threads while it is moved, overwritten targets, stop racing start | PWM stops when a move ends, the model follows the motor |
| PWM motor of `EventPi.SimpleAPIToPWM` | run counter | `Post` starts a run in the background | check then act | one run at a time, the motor stops |
| Signals, `EventPi.SignalProcessing` | ring of ticks, client pipes with two buffers | chaser, subscribe, unsubscribe, stream | buffer swap racing aggregation, removal of a pipe | every client sees every sample once unless a swap cut its aggregation, removal removes that client |
| Sliding window, `EventPi.Abstractions/CircularBuffer.cs` | ring of the last N values | add, remove, enumerate | wrap and counts | it holds the last N values |
| Service discovery, `EventPi.Advertiser` | known services by host, subscribers | multicast answers, subscribe with replay | subscription racing discovery, early return, exceptions on the way | every subscriber hears of every service raised once, a listed service is found |
| Automatic update, `EventPi.AutoUpdate` | git checkout, deployment state file, throttle | list versions, update over SSH; git, Docker | a list shared by sessions while it is filled, sessions that update at once, composes in the background that overlap, failing commands, restarts | versions only go up, the state file can be trusted |
| Network manager, `EventPi.Services.NetworkMonitor`, `EventPi.NetworkMonitor/DeviceInfo.cs` | bounded channel of reports, last states of three streams | D-Bus signals, commands; NetworkManager, event store | reports dropped, reports overtaken while they are made, any exception ends the listener | once it is quiet the streams say what the device is |
| User interface, `EventPi.*.Ui`, `EventPi.UI`, `EventPi.Blazor*` | view models | property changes, canvas rendering | feedback between view model and commands | drawing only, apart from the camera controls |
| D-Bus proxies in `EventPi.NetworkMonitor` | none | generated marshalling | none | not modelled |

All parts but the user interface, the PID arithmetic and the D-Bus proxies are
modelled; "What is not modelled" says what of each part is left out, and why.

How the parts meet: a card swipe (machine work time), a frame (welding
recognition) or a page (camera controls) ends as an event in the store or as a job
in the queue of the `CameraManager`; camera programs started by the camera
processes write the frames into the shared memory ring, whose reader feeds the
pipeline that calls the welding recognition; the welding recognition keeps its last
counts in two `CircularBuffer`s and puts settings into the queue of the
`CameraManager`. The step motor stands alone behind a video controlled PID loop.

## The modules

| Module | Models | Checked by | Proved in |
| --- | --- | --- | --- |
| `FrameChannel` | the promise of a frame buffer: frames numbered in the order of publication, each seen once and in order until it is overrun | refined by `SharedCyclicBuffer` | |
| `SharedCyclicBuffer` | the ring of one writer and one reader, every access to shared memory a step | `ring` | `SharedCyclicBuffer_proofs`, with `ModLemmas` for the arithmetic of indices |
| `BufferLifecycle` | named semaphore and ring file under processes that open, dispose, die and open again | `safety`, `buffer_writer_first` | `BufferLifecycle_proofs` |
| `RfidHandler`, `MCRfidHandler` | overlapping swipes, failures, restarts and the shutdown of the machine work time service | `rfid_concurrent`, `rfid_window`, `rfid_dispose` | `RfidHandler_proofs` |
| `SlidingWindow` | the promise of the buffer of the last N values | refined by `CircularBuffer` | |
| `CircularBuffer` | the ring of the last N values with an enumeration that is under way while it changes | `services` | `Services_proofs` |
| `CameraManager` | queue, runner, retries, fan-out, channels and Dispose of the camera commands, with the handlers and the other callers that fill the queue | `camera_queue`, `camera_greetings` | `CameraManager_proofs` |
| `StepMotorController` | the dispatcher of the step motor, its channel, event, deadline and Dispose | `step_motor` | `StepMotorController_proofs` |
| `WeldingRecognition`, `MCWeldingRecognition` | concurrent frames, the decision, profiles and configuration, the channel and its sender, and who else sets the camera | `welding` | `WeldingRecognition_proofs` |
| `SignalHub` | sinks, chaser and the pipes of clients with their two buffers | `services`, `hub_leave` | `Services_proofs` |
| `LocalDiscovery` | hosts reported by several listeners, subscribers with replay | `services` | `Services_proofs` |
| `PwmController` | requests that drive a motor, checked and counted at different times | `services` | `Services_proofs` |
| `AutoUpdate` | versions, checkout, compose and record of a package, by several sessions | `safety` | `Services_proofs` |
| `CameraSimulator` | simulator processes by file, the list of tokens change by change, and Dispose | `services` | `Services_proofs` |
| `LibCameraVid` | the camera program, its slot and the tasks that await it | `services` | `Services_proofs` |
| `NetworkMonitor` | the listener with its channel, the commands and scans, and the streams all of them write | `safety` | `Services_proofs` |
| `MCSafety` | the sum of three modules of which only safety is asked | `safety` | |
| `MCServices` | the sum of six modules of which something is asked in the end as well | `services` | |

`MCRfidHandler` and `MCWeldingRecognition` only add the symmetry of interchangeable
calls (and cards). `MCServices` puts six components that never meet into one run, and
`MCSafety` three: a behaviour picks one of them in its first state, and only that one
moves, so the states add up and do not multiply, and each property says what it says
about its own component. The variables and operators of those modules have names of their own for
that reason (`hub...`, `disc...`, `pwm...`, `upd...`, `sim...`, `vid...`, `nm...`).
All runs give constants their values in the `.cfg` file.

### SharedCyclicBuffer

`slots` is the memory mapped file, `sem` the semaphore, `tail` and `wCounter` the
private fields of the writer, `head` and `rCounter` those of the reader. A slot is
the number of the frame whose bytes it holds (`Garbage` while a copy is under way)
and its control word. `PushBytes` is `BeginPush`, `EndCopy`, `StampControl`, `Post`;
`PopPtr` with the work of its caller is `Wait`, `AcceptFrame` or `ThrowUnordered`,
`UseFrame`, `ReleaseFrame`. `Checked` switches between `SharedCyclicBuffer`, which
stores a control word, and the generic class, which does not. The two processes are
taken to see each other's writes in order: the semaphore operations are barriers,
and no property looks inside a frame that is being copied.

The code has no test for a full ring. `Spec` therefore lets the writer run rings
ahead, and the properties say what is still true then. The same specification refines
`FrameChannel`, which promises order and completeness until the channel is overrun and
only the number of frames from then on.

Worth knowing, and visible in the model: a payload can be torn while the writer
overtakes the reader, which the control word notices only if it differs at that
moment; a reader whose very first frame is one of a later lap takes its number for
the first one, so it is off by whole laps and can report "Unordered memory" later for
frames that are in order (`ExpectationOffByLaps`, and why `CatchesUp` speaks of a
reader that accepted frame 0 first).

### BufferLifecycle

`name` is what the name in the file system denotes, `count` the value of every
semaphore ever created, `slots` the ring file, `writer` and `reader` the processes
with their private state. A reader's constructor creates the semaphore exclusively
and unlinks and retries when the name exists (`OpenReader`, `RetryOpenReader`,
`CreateForReader`); a writer's opens or creates (`OpenWriter`); `Dispose` closes and
unlinks whatever the name denotes by then; a crash only closes. Push and pop are
single steps, the module above having taken them apart. Both sides are taken to open the
ring with the same capacity and frame size, so that a constructor finds a file of the
size it wants and neither deletes it nor refuses it (`SharedCyclicBuffer.cs:64-71`).

After a restart of the writer alone, the reader's expectation and the new control
words disagree until the ring has come round, and stale frames of an earlier process
can be accepted; `FreshPairInOrder` is therefore about a pair that started afresh
(`Undisturbed`), where all of that must be harmless.

### RfidHandler

A call of `Post` is a process with a program counter that stops wherever another call
may come in between: the two reads of `ShouldSwipe` (`CompareCard`, `CompareDate`),
the interlocked increment (`Enter`), the shutdown flag (`TestShutdown`), the handler
of the application (`HandlerFails`), the append (`AppendEvent`, which may fail before
or after the event was stored), the writes of the state (`WriteCard`, `WriteDate`,
`Flip`) and the decrement (`Leave`). `DisposeAsync` is `BeginDispose`,
`ShutdownVisible`, `Drained`, `StopOnDispose`. With `WeakMemory` the flag, an ordinary
field, may become visible after the counter was read. `Restart` is the process dying
with every call under way, or having ended, and beginning again on the same stream: the
state is gone (`RfidState` lives in memory and nothing reads it back), the stream goes
on. `SessionsMatch` is about each life of the process; that a crash leaves a session
without its end is what the code does, and nothing in it says otherwise.

Two swipes checked before either is admitted are a race the code does not exclude:
the second one then stops what the first one started, within the window. So
`FreshSwipeHoldsWindow` is about swipes that were checked after the last event
(`fresh`), and every other property holds for all.

### CircularBuffer

`buffer`, `head`, `tail`, `count` are the fields of the class; `walk` is the
enumerator with its copies of head and count. `AddLast` of a full ring also gives up
the oldest item. `Head` and the two removals return through `result`. The refinement
mapping takes the abstract window to be the items numbered `added - count` up to
`added - 1`.

### CameraManager

`queue`, `channels` and the state of the runner (`pc`, `client`, `job`, `attempt`,
`error`) are the fields and locals of `CameraManager`. A job of parameters is two calls,
options and shutter; a job for all cameras is expanded at the head of the runner into
jobs at the tail of the queue. `GetClient` is two steps, a lookup and an `Add`, because
the pages that greet a camera run it on other threads over the same dictionary; the
`Add` of a key that is there throws (`AddThrows`), which is a failed call of a job of
parameters and ends the runner in a job of a histogram. A call may fail
before or after the camera took it (`CallFails`). `HandleParameters`, `RecordState`,
`RecordFails` and `HandleHistogram` are the command handlers, any number of which may be
under way (`handlers`), so that two of them may record in another order than they queued.
`SendDirectly` is everybody who calls the manager and records nothing: the welding
recognition (`WeldingRecognitionService.cs:91`) and the two profile buttons of its page
(`WeldingRecognitionControls.razor:89-100`). `DisposeChannels` and `CancelRunner` are the
two halves of `Dispose`.

The event store therefore does not say what a camera is set to, in general.
`CameraHoldsRecorded` says what remains: a quiet camera holds the last command that
anybody queued for it or for all cameras, both halves of it, and the store names that
command unless the address was `bypassed`: by a caller that records nothing, by an append
that failed, or by two handlers that overlapped.

### StepMotorController

`command` is the channel of one place, `event` the `ManualResetEventSlim`, `delayed`
the deadline of the delayed action, `finish` and `backward` what the model remembers of
a move. Time is relative and counted in ticks of 50 ms; `Tick` happens only while
everybody waits. `OnDispatch` is taken apart at every call that blocks or throws:
`AwaitCommand`, `ChooseWait`, `AwaitEvent`, `StopAtOnce`, `TimedOut`, `SpinEnds`,
`Woken`, `ResetEvent`, `TakeOnEvent`, `TakeOnRead`, `StartMove`, `LoopEnds`,
`CallThrows`.

What the model makes plain about the code: the number of steps of a move backward is
negative, so is its duration, and the move is stopped as soon as it is begun
(`StepMotorModel.cs:56`; the test of an opposite movement, `StepMotorModelTests.cs:41-55`,
looks at the estimated position only, and not at the motor); a move
of 100 ms or less ends at once, so that targets within 9.5 mm are not approached; a
command measured before the dispatcher spins is taken with that old position, so the
motor may overshoot by the time spun (`StopsNearTarget` allows exactly that much).

### WeldingRecognition

`running` is `isRunning`, `pc` where each call of `Handle` is, `count0` and `count1`
the counts of even and odd frames, `bright` and `dark` the two buffers, `applied` and
`welding` the decision, `model` the configuration, which `Given` assigns field by
field (`Configure`, `Assign`, in the order `FieldOrder`), `channel` and `sender` the way to
the queue of the cameras. `sent` is the setting queued last for the camera, by whomever:
`SendDefault` is the profile the provider sends to all cameras five seconds after its
first event, `OthersSend` the handler of the camera page's command and the two profile
buttons, at any time. `CameraToldApplied` is about the sender and its channel of one place,
until another caller has overruled it (`overruled`).

Counts are in percent of the frame, and either 0 or `Level`, so that the sum behind an
average is `Level` times the number of frames with such pixels (`Lit`, `Exceeds`); counting
pixels is arithmetic of one frame and left to tests. Of the two borders the pixels are
counted with, what matters is whether they are configured (`low`, `high`): until
then they are 0, no pixel is dark, and how many are bright says nothing of the picture
(`Counted`, and `sure` of a frame in hand). `Given` assigns them after the switch
(`WeldingRecognitionModel.cs:74-76`), so detection may be on with buffers full of such
counts, and may take them for welding. `DecidesWithConfiguredBounds` says how far that
goes: the bounds of a decision are configured ones always; and once the buffers hold only
counts made with the configured border, welding is taken to begin only if one of these
frames was bright. That the two bounds may be of two configurations is a fact no
property speaks against.

Read off the model: a picture that has bright and dark areas above both bounds flips
the decision with every frame; detection that is switched off while welding leaves
the welding setting; a decision before a profile is loaded sends a setting of all
defaults (`factory`); a frame that comes alone stores into `_count0` whatever its
parity; a frame that is bright before the borders are configured counts for
`NoWeldingFromOneFlash` as one of the two. No document says otherwise, so these are facts
here and no findings.

### SignalHub

`hubChannel` is the channel of all sinks, `hubChaser` the value in hand and how far
`AggregateAvg` is, `hubBuffers` and `hubRefs` the two buffers of a pipe and which of
them `_write` and `_read` name, `hubLoop` where `PipeSignals` is. The chaser's accesses
are steps (`TakeValue`, `ChooseTarget`, `ReadAverage`, `StoreAverage`); of a tick the
reset (`TickResets`), the exchange (`Exchange`) and the collection of the message
(`WriteTo`) are one step each, which is enough because the chaser has one access
under way and never looks at `_read`. A value is the number of its writing and an average
the set of its values, whose count is taken modulo the size of the signal's type.
`hubRaces` counts the aggregations that a swap cut in two: without one each value is
reported once; with one a value may be lost, or come again in the message after the next.

`TryTake` of a bag removes whatever it likes, and `LeaveSignal` lets it. Run
`hub_leave` shows what follows for a client that stays.

### LocalDiscovery

A call of `AddService` goes through the services of a host: `AddInstance` (known ones
end the handling of the host), `AddAddress`, and under the lock `RaiseFound`, one
handler after the other, which may throw. `SubscribeFound` replays the services found so
far under the same lock. `discDisturbed` are subscribers that threw or stood behind one that
did. A host may announce no service at all (`CallFor` of an empty list), which ends its
handling at once.

A service becomes known before anybody is told of it. Between the two, an address that is
no `Uri` or two properties of one name throw (`AddThrows`, from
`LocalDiscoveryService.cs:94`, `97` and `114`): the call is over, and the service stays known
and is never raised. A service that is known already ends the call as well, whatever comes
after it in the list. `discGivenUp` are the services in such a call, and `ListedIsFound`
says that these are the only ones a host lists in vain.

### PwmController

`Post` tests `IsRunning`, `CountUp` of the task increments it, so that several tasks may
be under way. Of a duration the sign is kept, and the smallest integer, whose negation is
itself: `Thread.Sleep` refuses it, the task dies with the motor on and the counter up
(`SleepThrows`), and no request is accepted after it.

### AutoUpdate

Per package `updTags` (the repository of compositions), `updLocal` and `updVersions` (the
clone and the list read from it, refreshed at most every ten seconds, `updFresh`),
`updCopy` and `updRecord` on disk, `updContainers` on the host. A session is a circuit of
the page: it lists the versions and then shows the package or updates it, through
`Decide`, `Checkout`, `RunCompose`, `Record`, any of which may fail. The manager is a
singleton without a lock, so any number of sessions may do either at once
(`Home.razor:73`). The list is cleared and filled tag by tag while others decide, and two
that fill it may lose an addition.

`docker compose up` is put in the background of the host's shell, so each one is a process
of its own in `updCompose`: it reads the files of the working copy when it comes up
(`ComposeReads`) and installs those when it ends (`ComposeEnds`), whatever others have done
meanwhile; an older one may end last. It may fail, of which nobody hears (`updFailed`).
`Restart` loses the sessions and the list, but neither the disk nor the composes.

`updDoubtful` are the packages whose last update was decided on a list that was not
complete, or met another update of that package or an older compose of it.
`RecordTrusted` and `GoesBackIfDoubtful` are about the others. The documents ask for more
than that, and more than the code does: simultaneous updates of packages
(`EventPi.AutoUpdater.Host/README.md:145`), rollback and an atomic deployment (`:150`,
`:153`), and the previous version of the files when a stack fails to start
(`EventPi.AutoUpdate/README.md:51`). Two updates of the same package interleave their
checkouts and records here, and a compose that fails is neither noticed nor taken back:
nothing in the code looks at how it ended. These are requirements the code has no step for,
so that a counterexample would only restate that; what the properties leave out because of
it is named above.

### CameraSimulator and LibCameraVid

`CameraSimulator`: a start adds a token to a `List<T>` and begins the process (`Launch`,
`AddToken`), then registers it, by a `TryAdd` that fails silently when an entry is left over
(`Register`). The task that awaits the process throws unless it ended with code zero;
otherwise it forgets the file (`ForgetFile`) and takes its token off the list
(`FindToken`, `ForgetToken`, `CountChange`). `Dispose` enumerates the list and clears it
(`DisposeCancels`, `DisposeEnds`, `DisposeClears`), or throws (`DisposeThrows`).

The list has no lock, and its own steps are steps here. `Add` counts the change and reads
the size, then writes: of two that meet one is lost. `Remove` shifts the items behind the
one it takes and counts the change last: an enumeration may miss one of those and not
notice. `simTangled` says that two users of the list met in the middle of a change.
`DisposeEndsAll` is about a `Dispose` that did not throw and a list that was not tangled:
whole changes between the steps of an enumeration do no harm. `StopReaches` is about a
file that was free at the start.

`LibCameraVid`: `_runningApp`, the slot per camera and, per process, the task that awaits
`_runningApp` as it finds it and then clears the slot of its own camera. The start is one
step, and one call of `Stop()` is under way at a time. The await in `Stop()`
(`LibCameraVid.cs:74-77`) throws because of the very cancellation it asked for, so
`_runningApp` stays, and `Start` refuses from then on; that is what the code does, and no
property makes a virtue of it. A task left over from an older process may clear the slot
of a newer one, which is why `CleanStartStoppable` speaks of starts that found no such
task.

### NetworkMonitor

NetworkManager is `nmProfiles`, `nmDevice` (on with a profile, or off), `nmWired` and
`nmVisible`, which change on their own and by commands. The listener appends three
reports when it starts (`Subscribes` after them) and then takes items from a channel of five
places that drops its oldest (`nmQueue`). A command makes its own reports at the same
time; a scan that was requested goes on in a task nobody waits for and reports as well.
Each of them is a runner with its reports to make (`nmTodo`) and what it has read for the
first (`nmSeen`).

A report reads NetworkManager in several awaited calls and appends later, each a step
that other runners and the device may come between: `ReadStations`; `ReadProfiles`, first
the active profile, then the profiles, then the recorded state to compare with;
`ReadConnectivity` and `ReadAccessPoint`; `Append...`. Any of these may throw
(`ReportThrows`): a profile that was deleted meanwhile, a device that was turned off
(`WirelessConnectivityService.cs:38`), NetworkManager or the event store not answering.
There is no `try` around them in the listener (`NetworkManagerListener.cs:63-64`), so an
exception ends it for good. `ReportsFollowDevice` is about a listener that is alive, and a
stream whose last report neither was overtaken nor threw (`nmLate`).

Seen on the way: signals of access points are never raised, because the test for an error
is inverted (`DeviceInfo.cs:101` and `112`), so the model has no action for them; a wired
profile hides the deletion of a wireless one (`WirelessProfilesService.cs:49`), which
`ProfilesAsListed` allows in exactly that number.

## What the runs check

| Run | Properties | What it shows | Bounds |
| --- | --- | --- | --- |
| `ring` | `HeldFrameIntact`, `FramesInOrder`, `ExpectationOffByLaps`, `CatchesUp`, `ImplementsChannel` | what the reader holds is intact until the frame one ring later is begun; order and no alarm as long as the ring was not overrun; an overrun reader recovers; the ring is an ordered lossless channel until it is overrun | 3 slots, 8 frames |
| `safety` | ring: `FreshPairInOrder`; update: `RecordTrusted`, `GoesBackIfDoubtful`; network: `ReportsFollowDevice` | in every order of opening, disposing, dying and reopening, a reader and the first writer that joins it start afresh; two sessions that update a package whose composes overlap; reports of a listener, a command and a scan, any of which may throw | see below |
| `buffer_writer_first` | `WriterFirstServed` (violated) | the writer opens before the reader: the reader replaces the semaphore and waits for ever | 1 opening per side |
| `rfid_concurrent` | `OneSwapAtATime`, `SessionsMatch`, `FreshSwipeHoldsWindow`, `CounterCountsTurns` | overlapping swipes, failures, a restart and a shutdown with a late flag: one swap at a time, well-formed sessions, the window, a counter that counts turns | 3 calls, 2 cards, window 1, time 2, 1 restart |
| `rfid_window` | `SwipeWindow` (violated) | after a stop the same card starts the machine again within the window, even without any overlap | 1 card, window 2, time 4 |
| `rfid_dispose` | `DisposeReturns` (violated) | a swipe that arrives during the shutdown keeps `DisposeAsync` waiting for ever | 1 call |
| `camera_queue` | `LastQueuedWins`, `CameraHoldsRecorded`, `QueueDrains`, `BroadcastReachesEveryCamera` | what the cameras end up with under failing calls, overlapping handlers, failing appends and callers that record nothing, when the event store says so, and that nothing blocks the queue | 2 cameras, 2 commands, 2 attempts |
| `camera_greetings` | `DiesOnlyAtFirstUse`, `DisposedRunnerEnds` | greetings that race the runner for the channel, and `Dispose` | 1 camera, 2 commands, 2 greetings, 2 attempts |
| `step_motor` | `NoLostWakeup`, `PwmHasDeadline`, `StopsNearTarget`, `DisposedStops` | new targets in every state of the dispatcher, and `Dispose`: no command sleeps in the channel, the PWM is always turned off, the motor stops where the newest target is | 3 positions, 3 commands |
| `welding` | `GuardHolds`, `NoWeldingFromOneFlash`, `CameraToldApplied`, `DecidesWithConfiguredBounds` | concurrent frames, a configuration that arrives field by field meanwhile, decisions faster than they are sent, and other callers that overrule one of them | 2 calls, 4 frames, buffers of 2, 1 configuration |
| `services` | hub: `ReportedOnce`, `FedIsReported`; discovery: `SubscribersAgree`, `ListedIsFound`; PWM: `MotorUnderControl`, `AcceptsAgain`; simulator: `StopReaches`, `DisposeEndsAll`; camera program: `CleanStartStoppable`; window: `WalkInOrder`, `ImplementsWindow` | each of the components that share no state, in behaviours of its own | see below |
| `hub_leave` | `StayingClientSubscribed` (violated) | a client that leaves takes the pipe of another one out of the bag | 2 clients, 2 signals, no values |

### Why the bounds are enough

* Ring: eight frames through three slots are more than two laps, so that every pair
  of frames a whole number of laps apart, and the wrap of both indices against both
  counters, occurs; three is the smallest ring with a slot that is neither the
  writer's nor the reader's. The proofs below remove these bounds altogether.
* Lifecycle: two openings per side give a successor to either process, so that old
  and new semaphores, stale frames and a successor that joins a survivor all occur;
  three frames per writer go round a ring of two.
* Swipes: three calls make a starter, a stopper and one that overlaps both; two
  cards tell the card that started the machine from another; time 2 with a window of
  1 has instants inside, at the end of and outside the window. One restart separates
  two lives, with calls on either side of it.
* Cameras: two commands over two cameras are an older and a newer one, each for one
  camera or for all; two attempts are a retry and a giving up. With one camera two
  greetings race each other and the runner for the one channel that matters.
* Step motor: positions 0, 2 and 5 have moves that are at most `Short` and moves that
  are longer, forward and backward; three commands let one be replaced in the channel
  while another one is executed.
* Welding: the first frame comes alone, the next two fill buffers of two places (three in
  the code), the fourth pushes the oldest out; two calls are enough for one to be skipped
  while the other is looked at. One configuration, whose five assignments may fall
  between any two steps of these, starts from nothing configured; the other callers may
  come before, between and after the decisions.
* Signal hub: three values with a type of two (`CountMod`) let one average come round
  to 0 and fill two periods; one client is enough, as pipes share nothing but the value
  they are handed. `hub_leave` has the second client.
* Discovery: two listeners report two hosts of one or two services in both orders, to
  two subscribers that come and go and throw.
* PWM: three requests are one that is driven, one that overlaps it and one that comes
  after both; durations of both directions and the smallest integer.
* Update: versions 0 to 2 are a clone, an older and a newer release; one package suffices
  because packages have files, lists and composes of their own; two sessions are two
  updates of it, or one that fills the list under an update; two composes are an older one
  and a newer one in either order of their ends.
* Simulator: two starts are an old and a new process, for one file or for two. Camera
  program: three starts, so that a successor has one of its own, on two cameras.
* Network: two networks, one change from outside and two commands, each of which may be a
  scan: up to nine items for the five places, enough to drop some; a report of each runner
  may be overtaken by a change and by a report of another.
* Buffer of the last N: eight items wrap a ring of three twice, with removals at any
  count and a walk begun at any place.

Everything that grows without bound in the code is cut off by a guard that names its
constant (`MaxFrames`, `MaxOpens`, `MaxTime`, `MaxRestarts`, `MaxAdded`, `MaxCommands`,
`MaxGreetings`, `MaxConfigs`, `MaxWrites`, `MaxAnnouncements`, `MaxPosts`, `MaxVersion`,
`MaxComposes`, `MaxStarts`, `MaxStarted`, `MaxChanges`). The parameter `Scans` bounds how
many scans are under way at once. When those are used up the behaviours end,
processes may close, and calls of `Post` happen once each; that is why the runs say
`CHECK_DEADLOCK FALSE`. `step_motor` leaves the deadlock check on: time always passes.
Frame counters of 64 bits are taken for natural numbers: they do not overflow in the
lifetime of a device.

Several properties have an exception in them (`late`, `unsure`, `bypassed`, `overruled`,
`hubRaces`, `discDisturbed`, `discGivenUp`, `updDoubtful`, `updFailed`, `simTangled`,
`nmLate`). Each is a history variable that is set by the circumstances in which the code
really fails to keep the property, so that the property says two things: it holds
otherwise, and nothing else breaks it. What a property exempts it does not guard against;
such circumstances are named where the modules are described.

### Fairness

* Ring: the writer and the reader are loops in threads of their own, as in
  `UnitTest1.cs`; weak fairness of each says neither stops for ever while it can go on.
* Lifecycle (for `buffer_writer_first` only): pushing, popping and a constructor's retry
  go on; nobody has to open, to close or to die, hence no fairness for those.
* Swipes: a call past its checks runs to its end, because the application's handlers
  and the store answer or throw; `DisposeAsync` goes on once it was called. New swipes
  are never owed, nor is a restart.
* Cameras: only the runner is fair. Its calls end because gRPC calls fail or return;
  commands, greetings and `Dispose` happen or not.
* Step motor: the dispatcher, the caller that has still to set the event, and time.
* Signal hub: the chaser and the loop of each client, which a timer drives, and the
  subscription of a client that has begun it. Nobody has to write a value or to leave.
* Discovery: a listener goes on with the host it has begun. PWM: a task that was started
  runs, and its sleep ends. Simulator: `Dispose` and the tasks go on once begun, and a
  process whose token is cancelled ends.
* Welding, update, camera program, network, sliding window, and the lifecycle in run
  `safety`: safety only, no fairness.

Fairness is weak throughout. The one liveness property that is violated,
`DisposeReturns`, is violated by a loop that really runs (the wait for the counter),
and `WriterFirstServed` by a reader that really waits.

### Findings

1. `UnixSemaphore.cs:146`: on Unix a reader that opens after the writer unlinks the
   writer's semaphore and makes another one. `UnitTest1.cs:11` opens in that order and
   expects the reader to be served (`buffer_writer_first`).
2. `RfidModel.cs:43`: a stop clears the card, so the same card starts the machine again
   at once; `CardSwipes.feature:15-18` says no event should appear within the window
   (`rfid_window`).
3. `RfidMonitor.cs:134`: a call that meets the shutdown flag after its increment never
   gives its turn back, and `DisposeAsync` waits for ever for a counter of zero
   (`rfid_dispose`).
4. `EventPi.SignalProcessing/Class1.cs:117`: `TryTake` takes an arbitrary pipe out of
   the bag of a signal when a client leaves, so that a client that stays may be left
   without its values and the pipe of the one that left is fed for ever; the comment at
   line 112 says "Remove client pipe from all signal subscriptions" (`hub_leave`).

## What is proved

The theorems hold for every value of the constants that satisfies the named
assumptions; TLC checks the same formulas on the instances above, except for the types.
`tlapm` checks every proof to its leaves.

* `SharedCyclicBuffer_proofs` (any `Capacity` above 0, any number of frames, with and
  without control words). That a held slot contains the right frame depends on how the
  private indices, the counters and the semaphore hang together, so `TypeOK` is not
  enough. The inductive invariant adds `CountersAgree` (indices are counters modulo the
  capacity, the semaphore is what was posted and not popped), `RingContents` (every
  published frame the writer has not begun to overwrite lies at its number around the
  ring) and `NotLapped` (a ring that was never overrun has at most `Capacity` frames
  outstanding, and the reader's view agrees with its count). `TypeCorrect`, `HeldFrames`
  and `Order` follow. `Refinement` maps every step of the ring to a step of
  `FrameChannel` or a stutter. `OffByWholeLaps` is about a ring that was overrun and has an
  invariant of its own: `ControlWords` says that the control word in the slot of frame n is
  n or a number whole laps later, and so is the number the reader adopts from it and then
  counts on (`LapInv`). `ModLemmas` holds the facts about `%`.
* `BufferLifecycle_proofs` (any `Capacity`, any numbers of frames and of openings).
  `TypeCorrect`, and `FreshPairs`, which rests on `FreshFrames`: as long as only the latest
  writer has opened the reader's semaphore and has not overrun it, the frames posted and
  not yet read are that writer's, in their places, and what was read was read in order.
  That needs to know that a writer process uses one semaphore only (`OneSemaphoreEach`),
  that a semaphore just created has neither value nor users (`FreshAreEmpty`), and that a
  constructor call creates one at most (`EnoughSemaphores`).
* `CameraManager_proofs` (any number of cameras, commands, attempts and greetings, with
  and without `Dispose`). `LastJobDecides` from `SettingsFollow`: the newest job for a
  camera in the queue carries what the camera is meant to be set to, and when there is
  none left the runner's job or the camera does, half by half. `StoreAgrees` from two
  more: `IntentionsAreLast`, what a camera is meant to be set to is the last command for it
  or for all of them, once the fan-out has come past it; and `StoreNamesLast`, the store
  names the last command for an address, or its only handler is about to make it do so, or
  the address was bypassed. `DiesEarly` from
  `UnusedBeforeChannel`: a camera without a channel was never called. `TypeCorrect` includes
  that what the runner does fits the job it holds.
* `StepMotorController_proofs` (any positions, times, numbers of commands).
  `TypeCorrect`; `PwmAlwaysHasDeadline` is inductive together with the types;
  `NoCommandSleptOver` needs `EventPending`: whenever a command lies in the channel and
  its caller is through, either the event is set or the dispatcher is about to look into
  the channel (or has ended). `MovesEndNearTarget` needs `PlaceInv`: in a move forward the
  place of the motor and the time to the deadline add up to the target (`OnCourse`), but for
  what the motor turned while the command lay in the channel, which happens only while
  the dispatcher spins (`CommandFresh`, `TakenFresh`). It uses that the spin is not longer
  than the least time worth waiting for (`Early <= Short`, both constants of the code).
* `RfidHandler_proofs` (any finite set of calls, any cards, times and restarts).
  `CounterIsTurns` needs only the types. `SwapsExclude` needs `OneHolder`: only a call
  that raised the counter from zero is let in, so as long as it has not given its turn
  back every other one is turned away, and `ClosedToSwaps` for the moment of the
  shutdown. `SessionsWellFormed` rests on that single holder: `FieldsFollowStream` says,
  for each place the holder may be at between its event and the end of its swap, how far
  the fields have followed the stream, and that they agree with it when nobody swaps. `WindowHeld`
  adds `DatesFollowStream` and `CheckStillHolds`: what a call was checked against is
  still so when it appends, unless an event came in between.
* `WeldingRecognition_proofs` (any finite set of calls, any bounds, window and numbers of
  frames). `GuardAlwaysHolds` from `CounterExact` (the counter is the number of calls
  between their increment and decrement) and `OneInside`; `ConfiguredBoundsOnly`, an
  action property, from `BoundsKnown`, which follows an assignment of `Given` field by
  field in the order of the code, and `SightInv`: the newest `sighted` places of the buffer
  are dark as long as no frame counted with a configured border was bright, so that an
  average above a bound needs one that was; `NewestSettingTold` from `NewestIsApplied`, which follows a setting from the
  decision through the channel into the sender's hands, whatever others queue; `TypeCorrect`;
  `OneFlashIsNoWelding` from `FlashInv`: each of the two counts that is bright was a flash
  of its own, and a bright place of the window was bright in both. A window
  without one is above no bound that may be configured, not even 0.
* `Services_proofs`, one section for each of the components of `MCServices`, for the
  auto update and for the network monitor:
  * PWM (any number of requests). `CounterExact` is again the key: a request that finds the
    counter at zero and is not overlapped finds no task under way (`AloneInFlight`), and its
    pin stays as it set it (`AloneDirected`); from these `MotorStaysUnderControl`.
  * Camera program (any cameras, any number of starts). `LastRemembered` and
    `OthersSucceeded` say that `_runningApp` is the newest process and everything before it
    has succeeded; with them `CleanAlone`, that beside a process that started clean no task
    but its own is left, gives `CleanStaysStoppable`.
  * Simulator (any files, any number of starts). `AloneIsReached` from `AloneWithFile`: of
    the processes of a file that one had to itself all others are forgotten, so that no
    task but its own can take its entry away. It needs nothing of the list of tokens, whose
    steps it covers all the same.
  * Discovery (any hosts, services, listeners and subscribers). `SubscribersKnowAll` from
    `AloneBehindGate`: the set of known instances lets one listener at a time go on with a
    service, although adding its address and raising its event come later.
  * Auto update (any packages, versions, composes, and sessions that show or update).
    `RecordIsTrusted` and the action property `OnlyDoubtfulGoesBack` from `Trustworthy`: of
    a package without doubts one session at most updates, and one compose at most is under
    way (`OneAtATime`); its decision on a complete list is for the newest version there is
    locally, so that the record lags behind while the session is on its way (`OnTheWay`),
    and says the newest version only after that was checked out and its compose was started
    (`RecordHolds`). What begins a second update or a second compose makes the package
    doubtful at that moment, which is why nothing has to be assumed of the sessions.
  * Signal hub (any clients, signals, values and sizes of their counts).
    `EachValueReportedOnce` from `HubInv`: the channel holds the values that are yet to come
    in their order (`ChannelInOrder`), a call that no swap has cut adds just the value in
    hand to what is there (`CallInHand`), without a cut each value is in one place
    (`OnePlace`), and with cuts in one place more for each of them (`CopiesBounded`).
  * Network monitor (any finite set of networks, any scans, any numbers of changes and
    commands). `StreamsFollowDevice` from `NetInv`: the last event of the device in the
    channel, or in the listener's hands, says what the device is (`LastEventIsTrue`),
    because a full channel drops from its front; what is neither on its way nor late is in
    the stream (`ConnectivityFollows`, `ProfilesFollow`), whoever reports and wherever a
    report throws; what a runner has read is typed and an event's own (`SeenFits`); commands
    and scans report what they read, and the device says nothing before the listener has
    subscribed (`PlainReports`). The networks are finitely many because the code compares
    the numbers of profiles.
  * Sliding window (any `Capacity` above 0). `RingIndices` relates head, tail and count to the
    number of items added, `RingContents` says that the slot of every item ever added holds it
    or one that is whole rings newer, `WalkPlace` what an enumeration has copied and where it
    is. `WalkKeepsItsPlace` is the action property about enumerations, `WindowRefinement` the
    implementation of `SlidingWindow`.

Every safety property that a passing run checks is stated by a theorem. TLC has checked the
inductive invariants as well, their types aside and with quantifiers over all numbers cut
off, on the instances of the runs or, where those are too large together, on smaller ones.

Only model-checked is liveness under fairness, which is beyond the prover: `CatchesUp`,
the liveness half of `ImplementsChannel` (its safety half is `Refinement`),
`QueueDrains`, `BroadcastReachesEveryCamera`, `DisposedRunnerEnds`,
`DisposedStops`, `FedIsReported`, `ListedIsFound`, `AcceptsAgain` and `DisposeEndsAll`.

## What is not modelled, and why

* Arithmetic in floating point (`PidController`, `DenoisePidController`, the position
  estimate of `StepMotorModel`): TLC has no reals, and rounding is what matters there.
  What the control flow needs of it (whether a move is over, long enough to wait for, or
  of negative duration) is in `StepMotorController`.
* Counting pixels, wording of log lines, parsing and formatting of addresses,
  identifiers and versions: single expressions, better served by unit tests.
* D-Bus proxies (generated), Razor pages, rendering, dependency injection. The view model
  of the camera page copies values through a channel of one place, as the welding
  recognition does.
* The JavaScript in the repository: a vendored copy of jQuery Unobtrusive Validation, and
  files of the project templates (an empty `site.js`, two modules with a prompt nobody
  calls). No code of the program runs in them; the program is C#.
* `WindowsSemaphore` and `PrecisePeriodicTimer`: thin wrappers around the system; the
  ring behaves the same behind either semaphore, opening differs and is modelled for
  Unix, where the devices run. `Clear` of the ring, and its overloads at another slot size.
* The handlers of `CameraCommandHandler` that only append a profile, and reading of
  frames from files.
* `DockerLibCamera`, whose state is that of the Docker daemon, `OpenVidCam`, which starts
  processes as the simulator does and stops none, and the killing of processes by name.
* Registration of sinks and the bytes of a message in the signal hub; `SignalHubClient`
  only decodes them.
* Cloning, `Pull`, `InlineUpdate` and the volume mappings of the auto update.
* In the network monitor the wait for an activation (one that is over before it is
  watched is waited for 110 s, `DeviceInfo.cs:53`), the states of a device between on and
  off, the creation of clients, and the shutdown.
* Object segmentation: frames go to a model runner of another package.
* External parts, modelled from how they are used: the event store (an append that
  succeeds, fails, or fails after storing), the handlers of applications, gRPC cameras,
  the shared memory and semaphores of the operating system, child processes, git and
  Docker, NetworkManager, the motor.

## Further hazards

`PROJECT.json` lists the hazards the properties are about. These were found on the way
and have no property: they are single expressions, outside what is modelled, or
behaviour no document speaks against.

* `EventPi.Pid/StepMotorModel.cs:61`: `Position()` writes `_lastPosition`, `_started` and
  `_finish` and is called from other threads than the dispatcher's; at line 115 a continued
  move keeps `_started` but resets `_lastPosition`, so that the estimate counts the time
  before the change twice.
* `EventPi.Services.Camera/WeldingRecognitionService.cs:120`: an exception between the
  increment and a decrement (there is no `try`) would leave the counter up; no statement
  between them throws for a valid frame.
* `EventPi.SignalProcessing/Class1.cs:95`: a socket that fails ends `PipeSignals` with an
  exception that is not the cancellation; only the `finally` removes the pipe.
* `EventPi.Advertiser/Receiver/LocalDiscoveryService.cs:46`: `ServiceLost` is never raised,
  and a service that comes back at another address is taken for known.
* `EventPi.AutoUpdate/DockerComposeConfiguration.cs:145`: the moment of the check is set
  before the fetch, so that a fetch that fails hides new versions for ten seconds; at line 223
  versions are compared for equality, so that one newer than every tag would be replaced
  by an older one; `Class1.cs:227`: an update that throws ends the loop over the packages.
* `EventPi.Services.NetworkMonitor/NetworkManagerCommandHandler.cs:247`: two first commands
  create two clients, one of which is never disposed; `WirelessStationService.cs:26`: a
  station that disappeared stays in the recorded state until another one changes.
* `EventPi.SimpleAPIToPWM/.../PwmController.cs:69`: a run of the smallest integer ends in an
  exception with the motor on and the counter up. The model has it (`SleepThrows`), and the
  properties of the service exempt it.
* `EventPi.Pid/PidController.cs:84`: a sample period of zero divides by zero, and without
  an error the output is NaN, which `Clamp` passes on; at line 82 the integral grows while
  the output is clamped.
* `EventPi.Services.Camera.Ui/CameraControlsVm.cs:98`: a profile that arrives from the
  store is copied field by field into the settings being edited and sent back.
* `EventPi.Services.Camera/AiSegmentationService.cs:183`: every frame number is put into an
  unbounded channel whose only reader is commented out; at line 174 the start flag is tested
  and set without a lock.
* `EventPi.Abstractions/Ip4.cs:15`: the mask of prefix 0 shifts by 32, which C# takes for 0.

## Plan

What is left, in the order of what it would add:

| Next | Question it answers | Starting point |
| --- | --- | --- |
| `WeldingCamera` | `WeldingRecognition` composed with `CameraManager`: which setting a camera ends up with when calls to it fail | `GrpcCppProxy.cs:152-236` |
| step motor position | `Position()` of other threads against the dispatcher's moves, and the direction of a move backward, which the comment at `StepMotorModel.cs:106-107` and the test at `StepMotorModelTests.cs:41-55` speak of | `StepMotorModel.cs:61-73` |
| wait for an activation | that it ends with the state of the device, and not by its timeout | `DeviceInfo.cs:40-70` |
