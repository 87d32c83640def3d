---------------------------- MODULE Services_proofs ----------------------------
(***************************************************************************)
(* Proofs about the services and classes of EventPi that share no state:   *)
(* each section is about one of them, with the inductive invariant that    *)
(* its theorems need, for every value of its constants.                    *)
(***************************************************************************)
EXTENDS PwmController, LibCameraVid, CameraSimulator, LocalDiscovery,
        AutoUpdate, SignalHub, NetworkMonitor, CircularBuffer, ModLemmas,
        FiniteSetTheorems, SequenceTheorems, TLAPS

-----------------------------------------------------------------------------
(* PwmController: the motor is on in somebody's hands only, and a request  *)
(* posted alone is undisturbed.  The second rests on the counter: it is the *)
(* number of tasks that were counted up and not down, so that a request that *)
(* finds it at zero finds at most tasks that still wait for their turn.    *)

TaskPlaces == {"none", "queued", "counted", "directed", "driving", "failed", "stopped", "ended"}

PwmTypeOK ==
  /\ pwmRunning \in Nat
  /\ pwmMotor \in BOOLEAN /\ pwmPin \in BOOLEAN
  /\ pwmTasks \in [Posts -> [at : TaskPlaces, duration : {"forward", "backward", "smallest"}]]
  /\ pwmAlone \in SUBSET Posts
  /\ pwmPosts \in Nat

\* Requests that were not yet posted have no task and no history.
Unposted ==
  /\ \A i \in Posts : i >= pwmPosts => TaskAt(i, "none")
  /\ \A i \in pwmAlone : i < pwmPosts

Counted == {i \in Posts : pwmTasks[i].at \in {"counted", "directed", "driving", "failed", "stopped"}}

\* The counter is the number of tasks that are counted.
CounterExact == pwmRunning = Cardinality(Counted)

\* Next to a request that is alone no other one is under way.
AloneInFlight == \A i \in pwmAlone : \A j \in InFlight : i \in InFlight => i = j

\* Its direction is set before the motor is started.
AloneDirected ==
  \A i \in pwmAlone : TaskAt(i, "directed") => pwmPin = (pwmTasks[i].duration = "forward")

PwmInv ==
  /\ PwmTypeOK /\ Unposted /\ CounterExact /\ AloneInFlight /\ AloneDirected
  /\ MotorInHands /\ AloneUndisturbed

-----------------------------------------------------------------------------
LEMMA PostsFinite == IsFiniteSet(Posts)
<1>1. MaxPosts - 1 \in Int
  BY MaxPostsAssumption
<1> QED BY <1>1, FS_Interval DEF Posts

LEMMA CountedFinite == IsFiniteSet(Counted)
BY PostsFinite, FS_Subset DEF Counted

LEMMA PwmInitHolds == PwmInit => PwmInv
<1> SUFFICES ASSUME PwmInit PROVE PwmInv
  OBVIOUS
<1>1. PwmTypeOK /\ Unposted
  BY DEF PwmInit, PwmTypeOK, Unposted, TaskAt, TaskPlaces
<1>2. Counted = {}
  BY DEF PwmInit, Counted
<1>3. CounterExact
  BY <1>2, FS_EmptySet DEF CounterExact, PwmInit
<1>4. AloneInFlight /\ AloneDirected /\ MotorInHands /\ AloneUndisturbed
  BY DEF PwmInit, AloneInFlight, AloneDirected, MotorInHands, AloneUndisturbed
<1> QED BY <1>1, <1>3, <1>4 DEF PwmInv

-----------------------------------------------------------------------------
LEMMA PwmTypeStep == PwmInv /\ [PwmNext]_pwmVars => PwmTypeOK' /\ Unposted'
<1> SUFFICES ASSUME PwmInv, [PwmNext]_pwmVars PROVE PwmTypeOK' /\ Unposted'
  OBVIOUS
<1> USE DEF PwmInv, PwmTypeOK, Unposted, TaskAt, TaskPlaces
<1>1. ASSUME NEW d \in Durations, Post(d) PROVE PwmTypeOK' /\ Unposted'
  <2>1. d \in {"forward", "backward", "smallest"}
    BY DEF Durations
  <2>2. pwmPosts \in Posts
    BY <1>1, MaxPostsAssumption DEF Post, Posts
  <2>3. pwmTasks' \in [Posts -> [at : TaskPlaces, duration : {"forward", "backward", "smallest"}]]
    BY <1>1, <2>1, <2>2 DEF Post
  <2>4. pwmAlone' \in SUBSET Posts /\ \A i \in pwmAlone' : i < pwmPosts'
    <3>1. pwmAlone' \subseteq pwmAlone \union {pwmPosts}
      BY <1>1 DEF Post
    <3>2. pwmPosts' = pwmPosts + 1
      BY <1>1 DEF Post
    <3>3. ASSUME NEW i \in pwmAlone' PROVE i < pwmPosts'
      BY <3>1, <3>2 DEF Posts
    <3> QED BY <2>2, <3>1, <3>3
  <2>5. ASSUME NEW i \in Posts, i >= pwmPosts' PROVE pwmTasks'[i].at = "none"
    <3>1. i \in Int /\ pwmPosts' = pwmPosts + 1
      BY <1>1 DEF Post, Posts
    <3>2. i # pwmPosts /\ i >= pwmPosts
      BY <2>5, <3>1
    <3> QED BY <1>1, <3>2 DEF Post
  <2> QED BY <1>1, <2>3, <2>4, <2>5 DEF Post
<1>2. ASSUME NEW i \in Posts, CountUp(i) PROVE PwmTypeOK' /\ Unposted'
  BY <1>2 DEF CountUp, Move
<1>3. ASSUME NEW i \in Posts, SetDirection(i) PROVE PwmTypeOK' /\ Unposted'
  BY <1>3 DEF SetDirection, Move
<1>4. ASSUME NEW i \in Posts, StartMotor(i) PROVE PwmTypeOK' /\ Unposted'
  BY <1>4 DEF StartMotor, Move
<1>5. ASSUME NEW i \in Posts, SleepThrows(i) PROVE PwmTypeOK' /\ Unposted'
  BY <1>5 DEF SleepThrows, Move
<1>6. ASSUME NEW i \in Posts, StopMotor(i) PROVE PwmTypeOK' /\ Unposted'
  BY <1>6 DEF StopMotor, Move
<1>7. ASSUME NEW i \in Posts, CountDown(i) PROVE PwmTypeOK' /\ Unposted'
  <2>1. i \in Counted
    BY <1>7 DEF CountDown, Counted
  <2>2. Cardinality(Counted) # 0 /\ Cardinality(Counted) \in Nat
    BY <2>1, CountedFinite, FS_EmptySet, FS_CardinalityType
  <2>3. pwmRunning - 1 \in Nat
    BY <2>2 DEF CounterExact
  <2> QED BY <1>7, <2>3 DEF CountDown, Move
<1>8. CASE UNCHANGED pwmVars
  BY <1>8 DEF pwmVars
<1> QED BY <1>1, <1>2, <1>3, <1>4, <1>5, <1>6, <1>7, <1>8 DEF PwmNext, RunMotor

\* Only CountUp and CountDown change which tasks are counted.
LEMMA CounterStep == PwmInv /\ [PwmNext]_pwmVars => CounterExact'
<1> SUFFICES ASSUME PwmInv, [PwmNext]_pwmVars PROVE CounterExact'
  OBVIOUS
<1> USE DEF PwmInv, PwmTypeOK, CounterExact, TaskAt
<1>1. ASSUME NEW d \in Durations, Post(d) PROVE CounterExact'
  <2>1. pwmPosts \in Posts /\ TaskAt(pwmPosts, "none")
    BY <1>1, MaxPostsAssumption DEF Post, Posts, Unposted
  <2>2. Counted' = Counted
    BY <1>1, <2>1 DEF Post, Counted
  <2> QED BY <1>1, <2>2 DEF Post
<1>2. ASSUME NEW i \in Posts, CountUp(i) PROVE CounterExact'
  <2>1. Counted' = Counted \union {i} /\ i \notin Counted
    BY <1>2 DEF CountUp, Move, Counted
  <2>2. Cardinality(Counted') = Cardinality(Counted) + 1
    BY <2>1, CountedFinite, FS_AddElement
  <2> QED BY <1>2, <2>2 DEF CountUp
<1>3. ASSUME NEW i \in Posts, SetDirection(i) \/ StartMotor(i) \/ SleepThrows(i) \/ StopMotor(i)
      PROVE  CounterExact'
  <2>1. Counted' = Counted
    BY <1>3 DEF SetDirection, StartMotor, SleepThrows, StopMotor, Move, Counted
  <2> QED BY <1>3, <2>1 DEF SetDirection, StartMotor, SleepThrows, StopMotor
<1>4. ASSUME NEW i \in Posts, CountDown(i) PROVE CounterExact'
  <2>1. Counted' = Counted \ {i} /\ i \in Counted
    BY <1>4 DEF CountDown, Move, Counted
  <2>2. Cardinality(Counted') = Cardinality(Counted) - 1
    BY <2>1, CountedFinite, FS_RemoveElement
  <2> QED BY <1>4, <2>2 DEF CountDown
<1>5. CASE UNCHANGED pwmVars
  <2>1. Counted' = Counted
    BY <1>5 DEF pwmVars, Counted
  <2> QED BY <1>5, <2>1 DEF pwmVars
<1> QED BY <1>1, <1>2, <1>3, <1>4, <1>5 DEF PwmNext, RunMotor

\* A task that a request starts finds only tasks that wait for their turn.
LEMMA AcceptedAmongQueued ==
  ASSUME PwmInv, pwmRunning = 0, NEW j \in InFlight
  PROVE  TaskAt(j, "queued")
<1>1. Counted = {}
  BY CountedFinite, FS_EmptySet DEF PwmInv, CounterExact
<1>2. j \in Posts /\ pwmTasks[j].at \in TaskPlaces \ {"none", "ended"}
  BY DEF InFlight, PwmInv, PwmTypeOK
<1> QED BY <1>1, <1>2 DEF Counted, TaskPlaces, TaskAt

LEMMA AloneStep ==
  PwmInv /\ [PwmNext]_pwmVars => AloneInFlight' /\ AloneDirected' /\ AloneUndisturbed'
<1> SUFFICES ASSUME PwmInv, [PwmNext]_pwmVars
             PROVE  AloneInFlight' /\ AloneDirected' /\ AloneUndisturbed'
  OBVIOUS
<1> USE DEF PwmInv, PwmTypeOK, AloneInFlight, AloneDirected, AloneUndisturbed, TaskAt, InFlight
<1>1. ASSUME NEW d \in Durations, Post(d)
      PROVE  AloneInFlight' /\ AloneDirected' /\ AloneUndisturbed'
  <2>1. pwmPosts \in Posts /\ pwmTasks[pwmPosts].at = "none"
    BY <1>1, MaxPostsAssumption DEF Post, Posts, Unposted
  <2>2. InFlight' = InFlight \union {pwmPosts} /\ pwmPosts \notin InFlight
    BY <1>1, <2>1 DEF Post
  <2>3. \A j \in InFlight : TaskAt(j, "queued")
    BY <1>1, AcceptedAmongQueued DEF Post
  <2>4. \A j \in Posts : j # pwmPosts => pwmTasks'[j] = pwmTasks[j]
    BY <1>1, <2>1 DEF Post
  <2>5. pwmTasks'[pwmPosts].at = "queued"
    BY <1>1, <2>1 DEF Post
  <2>6. CASE InFlight = {}
    <3>1. InFlight' = {pwmPosts} /\ pwmAlone' = pwmAlone \union {pwmPosts}
      BY <1>1, <2>2, <2>6 DEF Post
    <3>2. AloneInFlight'
      BY <3>1
    <3>3. \A i \in Posts : pwmTasks'[i].at \notin {"directed", "driving"}
      BY <2>4, <2>5, <2>6
    <3> QED BY <3>1, <3>2, <3>3, <2>1
  <2>7. CASE InFlight # {}
    <3>1. pwmAlone' = pwmAlone \ InFlight
      BY <1>1, <2>3, <2>7 DEF Post
    <3>2. \A i \in pwmAlone' : i \in InFlight' => i = pwmPosts
      BY <2>2, <3>1
    <3>3. \A i \in Posts : pwmTasks'[i].at \notin {"directed", "driving"}
      BY <2>3, <2>4, <2>5
    <3>4. pwmPosts \notin pwmAlone'
      BY <3>1 DEF Unposted
    <3> QED BY <3>1, <3>2, <3>3, <3>4
  <2> QED BY <2>6, <2>7
<1>2. ASSUME NEW i \in Posts, CountUp(i)
      PROVE  AloneInFlight' /\ AloneDirected' /\ AloneUndisturbed'
  BY <1>2 DEF CountUp, Move
<1>3. ASSUME NEW i \in Posts, SetDirection(i)
      PROVE  AloneInFlight' /\ AloneDirected' /\ AloneUndisturbed'
  BY <1>3 DEF SetDirection, Move
<1>4. ASSUME NEW i \in Posts, StartMotor(i)
      PROVE  AloneInFlight' /\ AloneDirected' /\ AloneUndisturbed'
  BY <1>4 DEF StartMotor, Move
<1>5. ASSUME NEW i \in Posts, SleepThrows(i)
      PROVE  AloneInFlight' /\ AloneDirected' /\ AloneUndisturbed'
  BY <1>5 DEF SleepThrows, Move
<1>6. ASSUME NEW i \in Posts, StopMotor(i)
      PROVE  AloneInFlight' /\ AloneDirected' /\ AloneUndisturbed'
  BY <1>6 DEF StopMotor, Move
<1>7. ASSUME NEW i \in Posts, CountDown(i)
      PROVE  AloneInFlight' /\ AloneDirected' /\ AloneUndisturbed'
  BY <1>7 DEF CountDown, Move
<1>8. CASE UNCHANGED pwmVars
  BY <1>8 DEF pwmVars
<1> QED BY <1>1, <1>2, <1>3, <1>4, <1>5, <1>6, <1>7, <1>8 DEF PwmNext, RunMotor

LEMMA HandsStep == PwmInv /\ [PwmNext]_pwmVars => MotorInHands'
<1> SUFFICES ASSUME PwmInv, [PwmNext]_pwmVars PROVE MotorInHands'
  OBVIOUS
<1> USE DEF PwmInv, PwmTypeOK, MotorInHands, TaskAt
<1>1. ASSUME NEW d \in Durations, Post(d) PROVE MotorInHands'
  <2>1. pwmPosts \in Posts /\ pwmTasks[pwmPosts].at = "none"
    BY <1>1, MaxPostsAssumption DEF Post, Posts, Unposted
  <2> QED BY <1>1, <2>1 DEF Post
<1>2. ASSUME NEW i \in Posts, RunMotor(i) PROVE MotorInHands'
  BY <1>2 DEF RunMotor, CountUp, SetDirection, StartMotor, SleepThrows, StopMotor, CountDown, Move
<1>3. CASE UNCHANGED pwmVars
  BY <1>3 DEF pwmVars
<1> QED BY <1>1, <1>2, <1>3 DEF PwmNext

LEMMA PwmInvariant == PwmSpec => []PwmInv
<1>1. PwmInv /\ [PwmNext]_pwmVars => PwmInv'
  BY PwmTypeStep, CounterStep, AloneStep, HandsStep DEF PwmInv
<1> QED BY PwmInitHolds, <1>1, PTL DEF PwmSpec

\* The motor is on only in the hands of a task that stops it, or that failed, and a
\* request that was posted alone drives the motor its own way all the time.
THEOREM MotorStaysUnderControl == PwmSpec => []MotorUnderControl
BY PwmInvariant, PTL DEF PwmInv, MotorUnderControl

\* The counter is never off, whatever the requests and tasks do.
THEOREM CounterIsExact == PwmSpec => []CounterExact
BY PwmInvariant, PTL DEF PwmInv

-----------------------------------------------------------------------------
(* LibCameraVid: a process is remembered exactly from its start until it   *)
(* succeeded and was stopped, so that a process can only be started when all *)
(* the older ones have succeeded.                                          *)

Maybe == Apps \union {NoApp}
Lives == {"none", "running", "succeeded", "failed", "cancelled"}

VidTypeOK ==
  /\ vidApp \in Maybe
  /\ vidSlots \in [Cameras -> Maybe]
  /\ vidProcs \in [Apps -> [at : Lives, camera : Cameras]]
  /\ vidCancelled \in SUBSET Apps
  /\ vidWaiters \in [Apps -> [at : {"none", "queued", "awaiting", "done"}, for : Maybe]]
  /\ vidStopping \in BOOLEAN
  /\ vidStarts \in 0 .. MaxStarted
  /\ vidClean \in SUBSET Apps

\* The process that is remembered is the last one that was started.
LastRemembered ==
  /\ vidApp # NoApp => vidApp = vidStarts - 1
  /\ vidStopping => vidApp # NoApp

\* Whatever is not remembered succeeded or was not started.
OthersSucceeded ==
  \A p \in Apps : /\ p < vidStarts /\ p # vidApp => vidProcs[p].at = "succeeded"
                  /\ p >= vidStarts => /\ vidProcs[p].at = "none"
                                       /\ vidWaiters[p].at = "none"
                                       /\ p \notin vidCancelled
                                       /\ p \notin vidClean

\* While a process that started clean runs, the only task that is left is its
\* own, and that one awaits it.
CleanAlone ==
  \A p \in vidClean : vidProcs[p].at = "running" =>
    /\ \A q \in Apps : q # p => WaiterDone(q)
    /\ vidWaiters[p].at \in {"queued", "awaiting"}
    /\ vidWaiters[p].at = "awaiting" => vidWaiters[p].for = p

VidInv ==
  VidTypeOK /\ LastRemembered /\ OthersSucceeded /\ CleanAlone /\ CleanStartStoppable

-----------------------------------------------------------------------------
LEMMA OneCameraType == OneCamera \in Cameras
BY CamerasAssumption DEF OneCamera

LEMMA VidInitHolds == VidInit => VidInv
<1> SUFFICES ASSUME VidInit PROVE VidInv
  OBVIOUS
<1>1. VidTypeOK
  <2>1. vidProcs \in [Apps -> [at : Lives, camera : Cameras]]
    BY OneCameraType DEF VidInit, Lives
  <2>2. vidWaiters \in [Apps -> [at : {"none", "queued", "awaiting", "done"}, for : Maybe]]
    BY DEF VidInit, Maybe
  <2>3. vidStarts \in 0 .. MaxStarted
    BY MaxStartedAssumption DEF VidInit
  <2> QED BY <2>1, <2>2, <2>3 DEF VidInit, VidTypeOK, Maybe
<1>2. LastRemembered /\ OthersSucceeded /\ CleanAlone /\ CleanStartStoppable
  BY DEF VidInit, LastRemembered, OthersSucceeded, CleanAlone, CleanStartStoppable, Apps
<1> QED BY <1>1, <1>2 DEF VidInv

-----------------------------------------------------------------------------
\* A process that runs is the one that is remembered.
LEMMA RunningRemembered ==
  ASSUME VidInv, NEW p \in Apps, vidProcs[p].at = "running"
  PROVE  vidApp = p /\ p = vidStarts - 1 /\ vidApp # NoApp
<1>1. p \in Int /\ p # NoApp /\ vidStarts \in Int
  BY DEF Apps, NoApp, VidInv, VidTypeOK
<1>2. p < vidStarts
  BY <1>1 DEF VidInv, OthersSucceeded
<1>3. p = vidApp
  BY <1>2 DEF VidInv, OthersSucceeded
<1> QED BY <1>1, <1>3 DEF VidInv, LastRemembered

LEMMA VidStartStep ==
  ASSUME VidInv, NEW c \in Cameras, StartVid(c)
  PROVE  VidInv'
<1> DEFINE n == vidStarts
<1> USE DEF VidInv
<1>1. /\ n \in Nat /\ n \in Apps /\ n # NoApp /\ vidStarts' = n + 1 /\ n + 1 \in 0 .. MaxStarted
      /\ vidApp = NoApp /\ vidApp' = n
  BY MaxStartedAssumption DEF StartVid, VidTypeOK, Apps, NoApp
<1>2. /\ vidProcs' = [vidProcs EXCEPT ![n] = [at |-> "running", camera |-> c]]
      /\ vidSlots' = [vidSlots EXCEPT ![c] = n]
      /\ vidWaiters' = [vidWaiters EXCEPT ![n].at = "queued"]
      /\ vidCancelled' = vidCancelled /\ vidStopping' = vidStopping
      /\ vidClean' \subseteq vidClean \union {n}
      /\ n \in vidClean' => n \in vidClean \/ \A p \in Apps : WaiterDone(p)
  BY DEF StartVid
<1>3. VidTypeOK'
  BY <1>1, <1>2 DEF VidTypeOK, Maybe, Lives
<1>4. LastRemembered'
  BY <1>1, <1>2 DEF LastRemembered
<1>5. ASSUME NEW p \in Apps, p < n PROVE vidProcs'[p].at = "succeeded"
  <2>1. p \in Int /\ p # NoApp /\ p # n
    BY <1>1, <1>5 DEF Apps, NoApp
  <2> QED BY <1>1, <1>2, <1>5, <2>1 DEF OthersSucceeded
<1>6. ASSUME NEW p \in Apps, p > n
      PROVE  /\ vidProcs'[p].at = "none" /\ vidWaiters'[p].at = "none"
             /\ p \notin vidCancelled' /\ p \notin vidClean'
  <2>1. p \in Int /\ p # n /\ p >= n
    BY <1>1, <1>6 DEF Apps
  <2> QED BY <1>2, <2>1 DEF OthersSucceeded, VidTypeOK
<1>7. OthersSucceeded'
  <2> SUFFICES ASSUME NEW p \in Apps
               PROVE  /\ p < n + 1 /\ p # n => vidProcs'[p].at = "succeeded"
                      /\ p >= n + 1 => /\ vidProcs'[p].at = "none"
                                       /\ vidWaiters'[p].at = "none"
                                       /\ p \notin vidCancelled'
                                       /\ p \notin vidClean'
    BY <1>1 DEF OthersSucceeded
  <2>1. p \in Int
    BY DEF Apps
  <2> QED BY <1>1, <1>5, <1>6, <2>1
<1>8. \A p \in Apps : vidProcs'[p].at = "running" => p = n
  <2> TAKE p \in Apps
  <2>1. p \in Int
    BY DEF Apps
  <2> QED BY <1>1, <1>5, <1>6, <2>1
<1>9. CleanAlone' /\ CleanStartStoppable'
  <2> SUFFICES ASSUME NEW p \in vidClean', vidProcs'[p].at = "running"
               PROVE  /\ \A q \in Apps : q # p => WaiterDone(q)'
                      /\ vidWaiters'[p].at = "queued"
                      /\ vidSlots'[vidProcs'[p].camera] = p
    BY <1>2 DEF CleanAlone, CleanStartStoppable
  <2>1. p = n
    BY <1>2, <1>3, <1>8 DEF VidTypeOK
  <2>2. n \notin vidClean
    BY <1>1 DEF OthersSucceeded
  <2>3. \A q \in Apps : WaiterDone(q)
    BY <1>2, <2>1, <2>2
  <2> QED BY <1>1, <1>2, <2>1, <2>3 DEF WaiterDone, VidTypeOK
<1> QED BY <1>3, <1>4, <1>7, <1>9

LEMMA VidEndsStep ==
  ASSUME VidInv, NEW p \in Apps, VidEnds(p)
  PROVE  VidInv'
<1> USE DEF VidInv, Ended
<1>1. PICK how \in {"cancelled", "succeeded", "failed"} :
        vidProcs' = [vidProcs EXCEPT ![p].at = how]
  BY DEF VidEnds
<1>2. p = vidApp
  BY RunningRemembered DEF VidEnds
<1>3. VidTypeOK' /\ LastRemembered'
  BY <1>1 DEF VidEnds, VidTypeOK, LastRemembered, Lives
<1>4. OthersSucceeded'
  <2>1. p < vidStarts /\ p \in Int
    <3>1. p = vidStarts - 1
      BY RunningRemembered DEF VidEnds
    <3> QED BY <3>1 DEF Apps, VidTypeOK
  <2> QED BY <1>1, <1>2, <2>1 DEF VidEnds, OthersSucceeded, VidTypeOK, Apps
<1>5. CleanAlone' /\ CleanStartStoppable'
  BY <1>1 DEF VidEnds, CleanAlone, CleanStartStoppable, WaiterDone, VidTypeOK
<1> QED BY <1>3, <1>4, <1>5

LEMMA StopSlotStep ==
  ASSUME VidInv, NEW c \in Cameras, StopSlot(c)
  PROVE  VidInv'
<1> USE DEF VidInv
<1>1. /\ vidSlots[c] \in Apps
      /\ vidCancelled \subseteq vidCancelled'
      /\ vidCancelled' \subseteq vidCancelled \union {vidSlots[c]}
      /\ vidProcs[vidSlots[c]].at = "running" => vidSlots[c] \in vidCancelled'
      /\ vidSlots[c] \in vidCancelled' => \/ vidSlots[c] \in vidCancelled
                                          \/ vidProcs[vidSlots[c]].at = "running"
  BY DEF StopSlot, VidTypeOK, Maybe
<1>2. VidTypeOK' /\ LastRemembered'
  BY <1>1 DEF StopSlot, VidTypeOK, LastRemembered, Maybe
<1>3. OthersSucceeded'
  BY <1>1 DEF StopSlot, OthersSucceeded, VidTypeOK
<1>4. CleanAlone'
  BY DEF StopSlot, CleanAlone, WaiterDone
<1>5. CleanStartStoppable'
  BY <1>1 DEF StopSlot, CleanStartStoppable, VidTypeOK
<1> QED BY <1>2, <1>3, <1>4, <1>5

LEMMA VidStopStep ==
  ASSUME VidInv, StopBegins \/ StopEnds
  PROVE  VidInv'
<1> USE DEF VidInv
<1>1. CASE StopBegins
  <2>1. vidApp \in Apps /\ vidApp = vidStarts - 1
    BY <1>1 DEF StopBegins, VidTypeOK, Maybe, LastRemembered
  <2>2. VidTypeOK' /\ LastRemembered'
    BY <1>1, <2>1 DEF StopBegins, VidTypeOK, LastRemembered
  <2>3. OthersSucceeded'
    BY <1>1, <2>1 DEF StopBegins, OthersSucceeded, VidTypeOK, Apps
  <2>4. CleanAlone' /\ CleanStartStoppable'
    BY <1>1 DEF StopBegins, CleanAlone, CleanStartStoppable, WaiterDone
  <2> QED BY <2>2, <2>3, <2>4
<1>2. CASE StopEnds
  <2>1. vidApp \in Apps /\ (vidApp' = NoApp => vidProcs[vidApp].at = "succeeded" \/ vidApp = NoApp)
    BY <1>2 DEF StopEnds, VidTypeOK, Maybe, LastRemembered
  <2>2. VidTypeOK' /\ LastRemembered'
    BY <1>2 DEF StopEnds, VidTypeOK, LastRemembered, Maybe
  <2>3. OthersSucceeded'
    BY <1>2, <2>1 DEF StopEnds, OthersSucceeded
  <2>4. CleanAlone' /\ CleanStartStoppable'
    BY <1>2 DEF StopEnds, CleanAlone, CleanStartStoppable, WaiterDone
  <2> QED BY <2>2, <2>3, <2>4
<1> QED BY <1>1, <1>2

LEMMA WaiterRunsStep ==
  ASSUME VidInv, NEW p \in Apps, WaiterRuns(p)
  PROVE  VidInv'
<1> USE DEF VidInv
<1>1. VidTypeOK' /\ LastRemembered'
  BY DEF WaiterRuns, VidTypeOK, LastRemembered
<1>2. OthersSucceeded'
  BY DEF WaiterRuns, OthersSucceeded, VidTypeOK
<1>3. CleanAlone'
  <2> SUFFICES ASSUME NEW r \in vidClean, vidProcs[r].at = "running"
               PROVE  /\ \A q \in Apps : q # r => WaiterDone(q)'
                      /\ vidWaiters'[r].at \in {"queued", "awaiting"}
                      /\ vidWaiters'[r].at = "awaiting" => vidWaiters'[r].for = r
    BY DEF WaiterRuns, CleanAlone
  <2>1. r \in Apps
    BY DEF VidTypeOK
  <2>2. p = r
    BY DEF WaiterRuns, CleanAlone, WaiterDone
  <2>3. vidApp = r
    BY <2>1, RunningRemembered
  <2> QED BY <2>1, <2>2, <2>3 DEF WaiterRuns, CleanAlone, WaiterDone, VidTypeOK
<1>4. CleanStartStoppable'
  BY DEF WaiterRuns, CleanStartStoppable
<1> QED BY <1>1, <1>2, <1>3, <1>4

LEMMA WaiterClearsStep ==
  ASSUME VidInv, NEW p \in Apps, WaiterClears(p)
  PROVE  VidInv'
<1> USE DEF VidInv
<1>1. VidTypeOK' /\ LastRemembered'
  BY DEF WaiterClears, VidTypeOK, LastRemembered, Maybe
<1>2. OthersSucceeded'
  BY DEF WaiterClears, OthersSucceeded, VidTypeOK
<1>3. \A r \in vidClean : vidProcs[r].at # "running"
  <2> SUFFICES ASSUME NEW r \in vidClean, vidProcs[r].at = "running"
               PROVE  FALSE
    OBVIOUS
  <2>1. p = r
    BY DEF WaiterClears, CleanAlone, WaiterDone
  <2>2. vidWaiters[p].for = r /\ r \in Apps
    BY <2>1 DEF WaiterClears, CleanAlone, VidTypeOK
  <2> QED BY <2>2 DEF WaiterClears, Ended, Apps, NoApp
<1>4. CleanAlone' /\ CleanStartStoppable'
  BY <1>3 DEF WaiterClears, CleanAlone, CleanStartStoppable
<1> QED BY <1>1, <1>2, <1>4

LEMMA VidInvariant == VidSpec => []VidInv
<1>1. VidInv /\ [VidNext]_vidVars => VidInv'
  <2> SUFFICES ASSUME VidInv, [VidNext]_vidVars PROVE VidInv'
    OBVIOUS
  <2>1. CASE UNCHANGED vidVars
    BY <2>1 DEF vidVars, VidInv, VidTypeOK, LastRemembered, OthersSucceeded, CleanAlone,
                CleanStartStoppable, WaiterDone
  <2>2. CASE VidNext
    BY <2>2, VidStartStep, VidEndsStep, StopSlotStep, VidStopStep, WaiterRunsStep, WaiterClearsStep
    DEF VidNext
  <2> QED BY <2>1, <2>2
<1> QED BY VidInitHolds, <1>1, PTL DEF VidSpec

\* A process that started clean stays within the reach of Stop(nr).
THEOREM CleanStaysStoppable == VidSpec => []CleanStartStoppable
BY VidInvariant, PTL DEF VidInv

-----------------------------------------------------------------------------
(* CameraSimulator: next to a process that had its file to itself when it  *)
(* started, every other process of that file is forgotten, so that no      *)
(* other task touches the entry of the file.                               *)

SimPlaces ==
  {"none", "adding", "launched", "running", "succeeded", "failed", "unlisting", "removing",
   "shifted", "forgotten"}
AnyFile == Files \union {CHOOSE f \in Files : TRUE}
SimProc == [at : SimPlaces, file : AnyFile, place : Nat]

SimTypeOK ==
  /\ simRunning \in [Files -> Procs \union {NoProc}]
  /\ simTokens \in Seq(Procs \union {NoProc})
  /\ simProcs \in [Procs -> SimProc]
  /\ simStarts \in Nat
  /\ simAlone \in SUBSET Procs

\* Whatever was started has a file, whatever was not has no place yet.
StartedHaveFile ==
  \A p \in Procs : /\ p >= simStarts => ProcAt(p, "none") /\ p \notin simAlone
                   /\ p < simStarts => ~ProcAt(p, "none") /\ simProcs[p].file \in Files

\* A process that is still alone with its file, and the entry of that file.
AloneWithFile ==
  \A p \in simAlone : ~ProcAt(p, "forgotten") =>
    /\ \A q \in OfFile(simProcs[p].file) : q # p => ProcAt(q, "forgotten")
    /\ simProcs[p].at \in {"adding", "launched"} => simRunning[simProcs[p].file] = NoProc
    /\ simProcs[p].at \in {"running", "succeeded"} => simRunning[simProcs[p].file] = p

SimInv == SimTypeOK /\ StartedHaveFile /\ AloneWithFile

LEMMA SimInitHolds == SimInit => SimInv
<1> SUFFICES ASSUME SimInit PROVE SimInv
  OBVIOUS
<1>1. simProcs \in [Procs -> SimProc]
  BY DEF SimInit, SimPlaces, AnyFile, SimProc
<1>2. SimTypeOK
  BY <1>1 DEF SimInit, SimTypeOK
<1>3. StartedHaveFile /\ AloneWithFile
  BY MaxStartsAssumption DEF SimInit, StartedHaveFile, AloneWithFile, ProcAt, Procs
<1> QED BY <1>2, <1>3 DEF SimInv

\* What a step of a process does to the processes.
Moves(p, at) ==
  /\ simProcs[p].at \notin {"none", "forgotten"}
  /\ simProcs' \in [Procs -> SimProc]
  /\ simProcs'[p].at = at /\ simProcs'[p].file = simProcs[p].file
  /\ \A q \in Procs : q # p => simProcs'[q] = simProcs[q]
  /\ simTokens' \in Seq(Procs \union {NoProc})
  /\ UNCHANGED <<simStarts, simAlone>>

LEMMA AdvanceMoves ==
  ASSUME SimInv, NEW p \in Procs, NEW at \in SimPlaces, Advance(p, at),
         simProcs[p].at \notin {"none", "forgotten"},
         simTokens' \in Seq(Procs \union {NoProc}), UNCHANGED <<simStarts, simAlone>>
  PROVE  Moves(p, at)
<1>1. simProcs[p] \in SimProc /\ simProcs' = [simProcs EXCEPT ![p].at = at]
  BY DEF Advance, SimInv, SimTypeOK
<1>2. simProcs' \in [Procs -> SimProc]
  BY <1>1 DEF SimInv, SimTypeOK, SimProc
<1>3. simProcs'[p].at = at /\ simProcs'[p].file = simProcs[p].file
  BY <1>1 DEF SimInv, SimTypeOK, SimProc
<1>4. \A q \in Procs : q # p => simProcs'[q] = simProcs[q]
  BY <1>1 DEF SimInv, SimTypeOK
<1> QED BY <1>2, <1>3, <1>4 DEF Moves

\* It leaves the others, and the file of each, as they are.
LEMMA ProcessMoves ==
  ASSUME SimInv, NEW p \in Procs, NEW at \in SimPlaces \ {"none"}, Moves(p, at)
  PROVE  /\ \A q \in Procs : simProcs'[q].file = simProcs[q].file
         /\ \A f \in AnyFile : OfFile(f)' = OfFile(f)
         /\ simProcs[p].file \in Files
         /\ StartedHaveFile'
<1> USE DEF SimInv, SimTypeOK, StartedHaveFile, ProcAt, Moves
<1>1. \A q \in Procs : simProcs'[q].file = simProcs[q].file
  OBVIOUS
<1>2. \A q \in Procs : simProcs'[q].at = "none" <=> simProcs[q].at = "none"
  OBVIOUS
<1>3. \A f \in AnyFile : OfFile(f)' = OfFile(f)
  BY <1>1, <1>2 DEF OfFile
<1>4. p < simStarts
  BY DEF Procs
<1>5. StartedHaveFile'
  BY <1>1, <1>2, <1>4
<1> QED BY <1>1, <1>3, <1>4, <1>5

\* A step of one process keeps the invariant, if that process leaves the entries
\* of other files alone and its own as it should be.
LEMMA AloneKept ==
  ASSUME SimInv, NEW p \in Procs, NEW at \in SimPlaces \ {"none"}, Moves(p, at),
         simRunning' \in [Files -> Procs \union {NoProc}],
         \A f \in Files : f # simProcs[p].file => simRunning'[f] = simRunning[f],
         p \in simAlone => /\ at \in {"adding", "launched"}
                                => simRunning'[simProcs[p].file] = NoProc
                           /\ at \in {"running", "succeeded"}
                                => simRunning'[simProcs[p].file] = p
  PROVE  SimInv'
<1>1. /\ simProcs'[p].at = at
      /\ \A q \in Procs : /\ simProcs'[q].file = simProcs[q].file
                          /\ q # p => simProcs'[q] = simProcs[q]
      /\ \A f \in AnyFile : OfFile(f)' = OfFile(f)
      /\ simProcs[p].file \in Files
      /\ StartedHaveFile'
      /\ simAlone' = simAlone
  BY ProcessMoves DEF Moves
<1>2. SimTypeOK'
  BY DEF SimInv, SimTypeOK, Moves
<1>3. AloneWithFile'
  <2> USE DEF SimInv, SimTypeOK, AloneWithFile, ProcAt
  <2> SUFFICES ASSUME NEW q \in simAlone, simProcs'[q].at # "forgotten"
               PROVE  /\ \A r \in OfFile(simProcs[q].file) :
                           r # q => simProcs'[r].at = "forgotten"
                      /\ simProcs'[q].at \in {"adding", "launched"}
                           => simRunning'[simProcs[q].file] = NoProc
                      /\ simProcs'[q].at \in {"running", "succeeded"}
                           => simRunning'[simProcs[q].file] = q
    <3>1. \A q \in simAlone : q \in Procs /\ simProcs[q].file \in AnyFile
      BY DEF SimProc
    <3> QED BY <1>1, <3>1
  <2>1. q \in Procs /\ simProcs[q].file \in AnyFile
    BY DEF SimProc
  <2>2. p \in OfFile(simProcs[p].file)
    BY DEF OfFile, Moves
  <2>3. CASE q = p
    <3>1. \A r \in OfFile(simProcs[p].file) : r # p => simProcs'[r].at = "forgotten"
      BY <1>1, <2>3 DEF OfFile, Moves
    <3> QED BY <1>1, <2>3, <3>1
  <2>4. CASE q # p
    <3>1. simProcs[q].at # "forgotten" /\ simProcs'[q] = simProcs[q]
      BY <1>1, <2>1, <2>4
    <3>2. simProcs[q].file # simProcs[p].file
      BY <2>2, <2>4, <3>1 DEF Moves
    <3>3. q < simStarts /\ simProcs[q].file \in Files
      BY <2>1 DEF StartedHaveFile, Procs
    <3>4. simRunning'[simProcs[q].file] = simRunning[simProcs[q].file]
      BY <3>2, <3>3
    <3>5. \A r \in OfFile(simProcs[q].file) : r # q => simProcs'[r].at = "forgotten"
      <4> SUFFICES ASSUME NEW r \in OfFile(simProcs[q].file), r # q
                   PROVE  simProcs'[r].at = "forgotten"
        OBVIOUS
      <4>1. r # p /\ r \in Procs
        BY <3>2 DEF OfFile
      <4> QED BY <1>1, <3>1, <4>1
    <3> QED BY <3>1, <3>4, <3>5
  <2> QED BY <2>3, <2>4
<1> QED BY <1>1, <1>2, <1>3 DEF SimInv

LEMMA LaunchStep ==
  ASSUME SimInv, NEW f \in Files, Launch(f)
  PROVE  SimInv'
<1> DEFINE n == simStarts
<1> USE DEF SimInv, SimTypeOK, ProcAt
<1>1. /\ n \in Procs /\ n \in Nat /\ simStarts' = n + 1
      /\ simProcs' = [simProcs EXCEPT ![n] =
                        [at |-> "adding", file |-> f, place |-> Len(simTokens) + 1]]
      /\ simRunning' = simRunning /\ simTokens' = simTokens
  BY MaxStartsAssumption DEF Launch, Procs
<1>2. simAlone' \subseteq simAlone \union {n} /\ simAlone \subseteq Procs
  BY DEF Launch
<1>3. SimTypeOK'
  <2>1. [at |-> "adding", file |-> f, place |-> Len(simTokens) + 1] \in SimProc
    BY DEF SimProc, SimPlaces, AnyFile
  <2> QED BY <1>1, <1>2, <2>1
<1>4. StartedHaveFile'
  <2> SUFFICES ASSUME NEW p \in Procs
               PROVE  /\ p >= n + 1 => simProcs'[p].at = "none" /\ p \notin simAlone'
                      /\ p < n + 1 => simProcs'[p].at # "none" /\ simProcs'[p].file \in Files
    BY <1>1 DEF StartedHaveFile
  <2>1. p \in Int
    BY DEF Procs
  <2>2. CASE p = n
    BY <1>1, <2>1, <2>2
  <2>3. CASE p # n
    <3>1. simProcs'[p] = simProcs[p] /\ (p \in simAlone' => p \in simAlone)
      BY <1>1, <1>2, <2>3
    <3>2. (p >= n + 1 => p >= n) /\ (p < n + 1 => p < n)
      BY <1>1, <2>1, <2>3
    <3> QED BY <3>1, <3>2 DEF StartedHaveFile
  <2> QED BY <2>2, <2>3
<1>5. simProcs[n].at = "none" /\ n \notin simAlone
  BY <1>1 DEF StartedHaveFile
<1>6. \A q \in Procs : q # n => simProcs'[q] = simProcs[q]
  BY <1>1
<1>7. simProcs'[n].at = "adding" /\ simProcs'[n].file = f
  BY <1>1
<1>8. AloneWithFile'
  <2> SUFFICES ASSUME NEW p \in simAlone', simProcs'[p].at # "forgotten"
               PROVE  /\ \A q \in OfFile(simProcs[p].file)' :
                           q # p => simProcs'[q].at = "forgotten"
                      /\ simProcs'[p].at \in {"adding", "launched"}
                           => simRunning[simProcs'[p].file] = NoProc
                      /\ simProcs'[p].at \in {"running", "succeeded"}
                           => simRunning[simProcs'[p].file] = p
    BY <1>1 DEF AloneWithFile
  <2>1. CASE p = n
    <3>1. simRunning[f] = NoProc /\ \A q \in OfFile(f) : simProcs[q].at = "forgotten"
      BY <1>5, <2>1 DEF Launch
    <3>2. \A q \in Procs : simProcs'[q].file = f /\ simProcs'[q].at # "none" /\ q # n
                             => q \in OfFile(f)
      BY <1>6 DEF OfFile
    <3>3. \A q \in OfFile(simProcs[p].file)' : q # p => simProcs'[q].at = "forgotten"
      BY <1>6, <1>7, <2>1, <3>1, <3>2 DEF OfFile
    <3> QED BY <1>7, <2>1, <3>1, <3>3
  <2>2. CASE p # n
    <3>1. p \in simAlone /\ p \in Procs /\ simProcs'[p] = simProcs[p]
      BY <1>2, <1>6, <2>2
    <3>2. p \in OfFile(simProcs[p].file)
      <4>1. p < n
        BY <1>1, <3>1 DEF StartedHaveFile, Procs
      <4>2. simProcs[p].at # "none"
        BY <3>1, <4>1 DEF StartedHaveFile
      <4> QED BY <3>1, <4>2 DEF OfFile
    <3>3. simProcs[p].file # f
      BY <2>2, <3>1, <3>2, <1>5 DEF Launch
    <3>4. \A q \in OfFile(simProcs[p].file)' : q # n /\ q \in OfFile(simProcs[p].file)
      BY <1>6, <1>7, <3>1, <3>3 DEF OfFile
    <3> QED BY <1>6, <3>1, <3>4 DEF AloneWithFile, OfFile
  <2> QED BY <2>1, <2>2
<1> QED BY <1>3, <1>4, <1>8

LEMMA TokensTyped ==
  ASSUME SimInv
  PROVE  /\ \A p \in Procs : simProcs[p].place \in Nat
         /\ \A i \in DOMAIN simTokens : i \in Nat
  BY DEF SimInv, SimTypeOK, SimProc

LEMMA SimStartStep ==
  ASSUME SimInv, NEW p \in Procs, Start(p)
  PROVE  SimInv'
<1>0. /\ "launched" \in SimPlaces \ {"none"} /\ "running" \in SimPlaces \ {"none"}
      /\ simRunning \in [Files -> Procs \union {NoProc}]
  BY DEF SimPlaces, SimInv, SimTypeOK
<1>1. CASE AddToken(p)
  <2> DEFINE place == simProcs[p].place
             Kept(i) == IF i = place THEN p ELSE IF i <= Len(simTokens) THEN simTokens[i]
                        ELSE NoProc
  <2>1. /\ simProcs[p].at = "adding" /\ Advance(p, "launched")
        /\ UNCHANGED <<simRunning, simStarts, simAlone>>
        /\ simTokens' = [i \in 1 .. place |-> Kept(i)]
    BY <1>1 DEF AddToken, ProcAt, simHistory
  <2>2. simTokens' \in Seq(Procs \union {NoProc})
    <3>1. place \in Nat /\ simTokens \in Seq(Procs \union {NoProc})
      BY TokensTyped DEF SimInv, SimTypeOK
    <3>2. \A i \in 1 .. place : Kept(i) \in Procs \union {NoProc}
      BY <3>1
    <3> HIDE DEF Kept, place
    <3> QED BY <2>1, <3>1, <3>2
  <2>3. Moves(p, "launched")
    BY <1>0, <2>1, <2>2, AdvanceMoves
  <2>4. p \in simAlone => simRunning[simProcs[p].file] = NoProc
    BY <2>1 DEF SimInv, AloneWithFile, ProcAt
  <2> QED BY <1>0, <2>1, <2>3, <2>4, AloneKept
<1>2. CASE Register(p)
  <2> DEFINE f == simProcs[p].file
  <2>1. /\ simProcs[p].at = "launched" /\ Advance(p, "running")
        /\ UNCHANGED <<simTokens, simStarts, simAlone>>
        /\ simRunning' = [simRunning EXCEPT ![f] = IF simRunning[f] = NoProc THEN p
                                                   ELSE simRunning[f]]
    BY <1>2 DEF Register, ProcAt, simHistory
  <2>2. Moves(p, "running")
    BY <1>0, <2>1, AdvanceMoves DEF SimInv, SimTypeOK
  <2>3. f \in Files
    BY <1>0, <2>2, ProcessMoves
  <2>4. p \in simAlone => simRunning[f] = NoProc
    BY <2>1 DEF SimInv, AloneWithFile, ProcAt
  <2>5. /\ simRunning' \in [Files -> Procs \union {NoProc}]
        /\ p \in simAlone => simRunning'[f] = p
        /\ \A g \in Files : g # f => simRunning'[g] = simRunning[g]
    BY <1>0, <2>1, <2>3, <2>4
  <2> QED BY <1>0, <2>2, <2>5, AloneKept
<1> QED BY <1>1, <1>2 DEF Start

LEMMA SimEndStep ==
  ASSUME SimInv, NEW p \in Procs, ProcessEnds(p)
  PROVE  SimInv'
<1>1. PICK at \in {"succeeded", "failed"} : Advance(p, at)
  BY DEF ProcessEnds
<1>2. /\ simProcs[p].at = "running"
      /\ UNCHANGED <<simRunning, simTokens, simStarts, simAlone>>
  BY DEF ProcessEnds, ProcAt, simHistory
<1>3. at \in SimPlaces \ {"none"}
  BY <1>1 DEF SimPlaces
<1>4. Moves(p, at)
  BY <1>1, <1>2, <1>3, AdvanceMoves DEF SimInv, SimTypeOK
<1>5. p \in simAlone => simRunning[simProcs[p].file] = p
  BY <1>2 DEF SimInv, AloneWithFile, ProcAt
<1>6. simRunning \in [Files -> Procs \union {NoProc}]
  BY DEF SimInv, SimTypeOK
<1> QED BY <1>1, <1>2, <1>3, <1>4, <1>5, <1>6, AloneKept

\* Whatever becomes of the list, the entry of the file is gone by then.
LEMMA SimForgetStep ==
  ASSUME SimInv, NEW p \in Procs, Forget(p)
  PROVE  SimInv'
<1> DEFINE Later == {"unlisting", "removing", "shifted", "forgotten"}
<1>0. /\ Later \subseteq SimPlaces \ {"none"}
      /\ simRunning \in [Files -> Procs \union {NoProc}]
      /\ simTokens \in Seq(Procs \union {NoProc})
  BY DEF SimPlaces, SimInv, SimTypeOK
<1>1. ASSUME NEW at \in Later, Moves(p, at),
             \/ UNCHANGED simRunning
             \/ simRunning' = [simRunning EXCEPT ![simProcs[p].file] = NoProc]
      PROVE  SimInv'
  <2>1. /\ simRunning' \in [Files -> Procs \union {NoProc}]
        /\ \A g \in Files : g # simProcs[p].file => simRunning'[g] = simRunning[g]
    BY <1>0, <1>1
  <2> QED BY <1>0, <1>1, <2>1, AloneKept
<1>2. CASE ForgetFile(p)
  <2>1. /\ simProcs[p].at = "succeeded" /\ Advance(p, "unlisting")
        /\ UNCHANGED <<simTokens, simStarts, simAlone>>
        /\ simRunning' = [simRunning EXCEPT ![simProcs[p].file] = NoProc]
    BY <1>2 DEF ForgetFile, ProcAt, simHistory
  <2>2. Moves(p, "unlisting")
    BY <1>0, <2>1, AdvanceMoves
  <2> QED BY <1>1, <2>1, <2>2
<1>3. CASE FindToken(p)
  <2>1. /\ simProcs[p].at = "unlisting"
        /\ UNCHANGED <<simRunning, simTokens, simStarts, simAlone>>
    BY <1>3 DEF FindToken, ProcAt
  <2>2. CASE Advance(p, "forgotten")
    <3>1. Moves(p, "forgotten")
      BY <1>0, <2>1, <2>2, AdvanceMoves
    <3> QED BY <1>1, <2>1, <3>1
  <2>3. CASE ~Advance(p, "forgotten")
    <3>1. PICK i \in DOMAIN simTokens :
            simProcs' = [simProcs EXCEPT ![p].at = "removing", ![p].place = i]
      BY <1>3, <2>3 DEF FindToken
    <3>2. simProcs[p] \in SimProc /\ i \in Nat
      BY TokensTyped DEF SimInv, SimTypeOK
    <3> DEFINE new == [simProcs[p] EXCEPT !.at = "removing", !.place = i]
    <3>3. new \in SimProc /\ new.at = "removing" /\ new.file = simProcs[p].file
      BY <3>2 DEF SimProc, SimPlaces
    <3>4. simProcs' = [simProcs EXCEPT ![p] = new]
      BY <3>1
    <3> HIDE DEF new
    <3>5. Moves(p, "removing")
      BY <1>0, <2>1, <3>3, <3>4 DEF Moves, SimInv, SimTypeOK
    <3> QED BY <1>1, <2>1, <3>5
  <2> QED BY <2>2, <2>3
<1>4. CASE ForgetToken(p)
  <2>1. /\ simProcs[p].at = "removing"
        /\ UNCHANGED <<simRunning, simStarts, simAlone>>
    BY <1>4 DEF ForgetToken, ProcAt, simHistory
  <2>2. PICK at \in {"shifted", "forgotten"} : Advance(p, at)
    BY <1>4 DEF ForgetToken
  <2>3. simTokens' \in Seq(Procs \union {NoProc})
    <3> DEFINE i == simProcs[p].place
    <3>1. CASE UNCHANGED simTokens
      BY <1>0, <3>1
    <3>2. CASE simTokens' # simTokens
      <4>1. i <= Len(simTokens) /\ simTokens' = RemoveAt(simTokens, i)
        BY <1>4, <3>2 DEF ForgetToken
      <4>2. i \in Nat
        BY TokensTyped
      <4>3. /\ SubSeq(simTokens, 1, i - 1) \in Seq(Procs \union {NoProc})
            /\ SubSeq(simTokens, i + 1, Len(simTokens)) \in Seq(Procs \union {NoProc})
        BY <1>0, <4>1, <4>2
      <4> QED BY <4>1, <4>3 DEF RemoveAt
    <3> QED BY <3>1, <3>2
  <2>4. at \in Later
    BY <2>2
  <2>5. Moves(p, at)
    BY <1>0, <2>1, <2>2, <2>3, <2>4, AdvanceMoves
  <2> QED BY <1>1, <2>1, <2>4, <2>5
<1>5. CASE CountChange(p)
  <2>1. /\ simProcs[p].at = "shifted" /\ Advance(p, "forgotten")
        /\ UNCHANGED <<simRunning, simTokens, simStarts, simAlone>>
    BY <1>5 DEF CountChange, ProcAt, simHistory
  <2>2. Moves(p, "forgotten")
    BY <1>0, <2>1, AdvanceMoves
  <2> QED BY <1>1, <2>1, <2>2
<1> QED BY <1>2, <1>3, <1>4, <1>5 DEF Forget

\* Stop and Dispose only cancel: what is registered stays registered.
LEMMA CancelStep ==
  ASSUME SimInv, UNCHANGED <<simRunning, simProcs, simStarts, simAlone>>,
         simTokens' = simTokens \/ simTokens' = <<>>
  PROVE  SimInv'
<1>1. SimTypeOK'
  <2>1. <<>> \in Seq(Procs \union {NoProc})
    OBVIOUS
  <2>2. simTokens' \in Seq(Procs \union {NoProc})
    BY <2>1 DEF SimInv, SimTypeOK
  <2> QED BY <2>2 DEF SimInv, SimTypeOK
<1>2. StartedHaveFile' /\ AloneWithFile'
  BY DEF SimInv, StartedHaveFile, AloneWithFile, ProcAt, OfFile
<1> QED BY <1>1, <1>2 DEF SimInv

LEMMA SimInvariant == SimSpec => []SimInv
<1>1. SimInv /\ [SimNext]_simVars => SimInv'
  <2> SUFFICES ASSUME SimInv, [SimNext]_simVars PROVE SimInv'
    OBVIOUS
  <2>1. ASSUME NEW f \in Files, Launch(f) PROVE SimInv'
    BY <2>1, LaunchStep
  <2>2. ASSUME NEW p \in Procs, Start(p) \/ ProcessEnds(p) \/ Forget(p) PROVE SimInv'
    BY <2>2, SimStartStep, SimEndStep, SimForgetStep
  <2>3. ASSUME NEW f \in Files, Stop(f) PROVE SimInv'
    BY <2>3, CancelStep DEF Stop, simHistory
  <2>4. CASE DisposeBegins \/ Dispose \/ UNCHANGED simVars
    BY <2>4, CancelStep
    DEF DisposeBegins, Dispose, DisposeCancels, DisposeEnds, DisposeClears, DisposeThrows,
        simVars, simHistory
  <2> QED BY <2>1, <2>2, <2>3, <2>4 DEF SimNext
<1> QED BY SimInitHolds, <1>1, PTL DEF SimSpec

\* For any number of files and processes: one that had its file to itself, and
\* whose file nobody else was started for, stays within the reach of Stop.
THEOREM AloneIsReached == SimSpec => []StopReaches
<1>1. SimInv => StopReaches
  BY DEF SimInv, AloneWithFile, StopReaches, ProcAt
<1> QED BY SimInvariant, <1>1, PTL

-----------------------------------------------------------------------------
(* LocalDiscovery: a service that a listener has added and not yet raised  *)
(* is at that listener only, and nobody has been told of it.               *)

DiscPlaces == {"idle", "next", "address", "raise"}

DiscTypeOK ==
  /\ discInstances \in SUBSET Services
  /\ discAddresses \in SUBSET Services
  /\ discServices \in SUBSET Services
  /\ discHandlers \in Seq(Handlers)
  /\ discCalls \in [Listeners -> [at : DiscPlaces, left : Seq(Services)]]
  /\ discTold \in [Handlers -> [Services -> Nat]]

\* A listener that handles a service, and that service.
AtService(l) == discCalls[l].at \in {"address", "raise"}
ServiceOf(l) == Head(discCalls[l].left)

CallsHaveService ==
  \A l \in Listeners : discCalls[l].at # "idle" => discCalls[l].left # <<>>

\* Services are seen, then get an address, then are recorded.
StagesInOrder == discServices \subseteq discAddresses /\ discAddresses \subseteq discInstances

\* The set of instances is the only gate: behind it each service is alone.
AloneBehindGate ==
  \A l \in Listeners : AtService(l) =>
    /\ ServiceOf(l) \in discInstances /\ ServiceOf(l) \notin discServices
    /\ discCalls[l].at = "raise" => ServiceOf(l) \in discAddresses
    /\ \A m \in Listeners : AtService(m) /\ ServiceOf(m) = ServiceOf(l) => m = l

HandlersOnce ==
  \A i, j \in DOMAIN discHandlers : discHandlers[i] = discHandlers[j] => i = j

ToldOnceOfRecorded ==
  \A h \in Handlers : \A s \in Services :
    discTold[h][s] <= 1 /\ (discTold[h][s] > 0 => s \in discServices)

DiscInv ==
  /\ DiscTypeOK /\ CallsHaveService /\ StagesInOrder /\ AloneBehindGate
  /\ HandlersOnce /\ ToldOnceOfRecorded /\ SubscribersAgree

\* A host's services are services.
LEMMA AnnouncedAreServices == \A a \in Announcements : a \in Seq(Services)
<1> SUFFICES ASSUME NEW a \in Announcements PROVE a \in Seq(Services)
  OBVIOUS
<1>1. {a[i] : i \in DOMAIN a} \subseteq Services
  BY DEF Services, ServicesIn
<1>2. a \in Seq({a[i] : i \in DOMAIN a})
  BY AnnouncementsAssumption
<1> DEFINE own == {a[i] : i \in DOMAIN a}
<1> HIDE DEF own
<1>3. a \in Seq(own) /\ own \subseteq Services
  BY <1>1, <1>2 DEF own
<1> QED BY <1>3

LEMMA CallForIsCall ==
  ASSUME NEW services \in Seq(Services)
  PROVE  /\ CallFor(services) \in [at : DiscPlaces, left : Seq(Services)]
         /\ CallFor(services).at \in {"idle", "next"}
         /\ CallFor(services).at # "idle" => CallFor(services).left # <<>>
<1>1. <<>> \in Seq(Services)
  OBVIOUS
<1>2. CASE services = <<>>
  BY <1>1, <1>2 DEF CallFor, NoCall, DiscPlaces
<1>3. CASE services # <<>>
  BY <1>3 DEF CallFor, DiscPlaces
<1> QED BY <1>2, <1>3

\* The places behind the one that is taken out.
LEMMA ShiftedPlace ==
  ASSUME NEW n \in Nat, NEW i \in 1 .. n, NEW j \in 1 .. n - 1, ~(j < i)
  PROVE  j - (i - 1) \in 1 .. n - i /\ i + (j - (i - 1)) = j + 1
OBVIOUS

LEMMA SecondPart ==
  ASSUME NEW S, NEW a \in Seq(S), NEW b \in Seq(S),
         NEW j \in 1 .. Len(a) + Len(b), j > Len(a)
  PROVE  (a \o b)[j] = b[j - Len(a)]
OBVIOUS

\* What is left of a sequence without its element i.
LEMMA WithoutElement ==
  ASSUME NEW S, NEW s \in Seq(S), NEW i \in DOMAIN s, NEW r,
         r = SubSeq(s, 1, i - 1) \o SubSeq(s, i + 1, Len(s))
  PROVE  /\ r \in Seq(S) /\ Len(r) = Len(s) - 1
         /\ \A j \in DOMAIN r : r[j] = IF j < i THEN s[j] ELSE s[j + 1]
<1> DEFINE front == SubSeq(s, 1, i - 1)
           back == SubSeq(s, i + 1, Len(s))
<1>1. Len(s) \in Nat /\ i \in 1 .. Len(s) /\ DOMAIN s = 1 .. Len(s)
  OBVIOUS
<1>2. /\ front \in Seq(S) /\ Len(front) = i - 1
      /\ \A j \in 1 .. i - 1 : front[j] = s[j]
  BY <1>1
<1>3. /\ back \in Seq(S) /\ Len(back) = Len(s) - i
      /\ \A j \in 1 .. Len(s) - i : back[j] = s[i + j]
  BY <1>1
<1> HIDE DEF front, back
<1>4. r = front \o back
  BY DEF front, back
<1>5. r \in Seq(S) /\ Len(r) = Len(s) - 1 /\ DOMAIN r = 1 .. Len(s) - 1
  BY <1>1, <1>2, <1>3, <1>4
<1>6. \A j \in 1 .. Len(s) - 1 : r[j] = IF j < i THEN s[j] ELSE s[j + 1]
  <2> SUFFICES ASSUME NEW j \in 1 .. Len(s) - 1
               PROVE  r[j] = IF j < i THEN s[j] ELSE s[j + 1]
    OBVIOUS
  <2>1. CASE j < i
    BY <1>1, <1>2, <1>3, <1>4, <2>1
  <2>2. CASE ~(j < i)
    <3> DEFINE n == Len(s)
               k == j - (i - 1)
    <3>1. n \in Nat /\ i \in 1 .. n /\ j \in 1 .. n - 1
      BY <1>1
    <3> HIDE DEF n
    <3>2. k \in 1 .. n - i /\ i + k = j + 1
      BY <2>2, <3>1, ShiftedPlace
    <3>3. j \in 1 .. Len(front) + Len(back) /\ j > Len(front) /\ j - Len(front) = k
      BY <1>2, <1>3, <2>2, <3>1 DEF n
    <3>4. r[j] = back[k]
      <4>1. front \in Seq(S) /\ back \in Seq(S)
        BY <1>2, <1>3
      <4>2. (front \o back)[j] = back[j - Len(front)]
        BY <3>3, <4>1, SecondPart
      <4> QED BY <1>4, <3>3, <4>2
    <3>5. back[k] = s[i + k]
      BY <1>3, <3>2 DEF n
    <3> QED BY <2>2, <3>2, <3>4, <3>5
  <2> QED BY <2>1, <2>2
<1> QED BY <1>5, <1>6

LEMMA DiscInitHolds == DiscInit => DiscInv
<1> SUFFICES ASSUME DiscInit PROVE DiscInv
  OBVIOUS
<1>1. discCalls \in [Listeners -> [at : DiscPlaces, left : Seq(Services)]]
  BY DEF DiscInit, NoCall, DiscPlaces
<1>2. DiscTypeOK
  BY <1>1 DEF DiscInit, DiscTypeOK
<1>3. CallsHaveService /\ StagesInOrder /\ AloneBehindGate
  BY DEF DiscInit, NoCall, CallsHaveService, StagesInOrder, AloneBehindGate, AtService
<1>4. HandlersOnce /\ ToldOnceOfRecorded /\ SubscribersAgree
  BY DEF DiscInit, HandlersOnce, ToldOnceOfRecorded, SubscribersAgree, Subscribed
<1> QED BY <1>2, <1>3, <1>4 DEF DiscInv

-----------------------------------------------------------------------------
\* A step of a listener that leaves the service it handles, or handles none.
LEMMA CallStep ==
  ASSUME DiscInv, NEW l \in Listeners, NEW call \in [at : DiscPlaces, left : Seq(Services)],
         call.at \in {"idle", "next"}, call.at # "idle" => call.left # <<>>,
         discCalls' = [discCalls EXCEPT ![l] = call]
  PROVE  /\ discCalls' \in [Listeners -> [at : DiscPlaces, left : Seq(Services)]]
         /\ CallsHaveService'
         /\ ~AtService(l)'
         /\ \A m \in Listeners \ {l} : AtService(m)' = AtService(m)
                                       /\ ServiceOf(m)' = ServiceOf(m)
                                       /\ discCalls'[m] = discCalls[m]
<1> USE DEF DiscInv, DiscTypeOK
<1>1. /\ discCalls'[l] = call
      /\ \A m \in Listeners \ {l} : discCalls'[m] = discCalls[m]
  OBVIOUS
<1>2. discCalls' \in [Listeners -> [at : DiscPlaces, left : Seq(Services)]]
  OBVIOUS
<1>3. CallsHaveService'
  <2> SUFFICES ASSUME NEW m \in Listeners, discCalls'[m].at # "idle"
               PROVE  discCalls'[m].left # <<>>
    BY DEF CallsHaveService
  <2> QED BY <1>1 DEF CallsHaveService
<1> QED BY <1>1, <1>2, <1>3 DEF AtService, ServiceOf

LEMMA ReportHostStep ==
  ASSUME DiscInv, NEW l \in Listeners, NEW a \in Announcements, ReportHost(l, a)
  PROVE  DiscInv'
<1>1. /\ discCalls' = [discCalls EXCEPT ![l] = CallFor(a)]
      /\ UNCHANGED <<discInstances, discAddresses, discServices, discHandlers,
                     discTold, discDisturbed>>
  BY DEF ReportHost
<1>2. /\ CallFor(a) \in [at : DiscPlaces, left : Seq(Services)]
      /\ CallFor(a).at \in {"idle", "next"}
      /\ CallFor(a).at # "idle" => CallFor(a).left # <<>>
  BY AnnouncedAreServices, CallForIsCall
<1>3. /\ discCalls' \in [Listeners -> [at : DiscPlaces, left : Seq(Services)]]
      /\ CallsHaveService'
      /\ ~AtService(l)'
      /\ \A m \in Listeners \ {l} : AtService(m)' = AtService(m)
                                    /\ ServiceOf(m)' = ServiceOf(m)
                                    /\ discCalls'[m] = discCalls[m]
  BY <1>1, <1>2, CallStep
<1>4. DiscTypeOK' /\ StagesInOrder' /\ HandlersOnce' /\ ToldOnceOfRecorded'
      /\ SubscribersAgree'
  BY <1>1, <1>3 DEF DiscInv, DiscTypeOK, StagesInOrder, HandlersOnce, ToldOnceOfRecorded,
                    SubscribersAgree, Subscribed
<1>5. AloneBehindGate'
  BY <1>1, <1>3 DEF DiscInv, AloneBehindGate
<1> QED BY <1>3, <1>4, <1>5 DEF DiscInv

\* A call that ends, with whatever it had to do, leaves everybody as informed as before.
LEMMA CallEndsStep ==
  ASSUME DiscInv, NEW l \in Listeners, NEW list, GiveUpOn(l, list),
         UNCHANGED <<discInstances, discAddresses, discServices, discHandlers, discTold,
                     discDisturbed>>
  PROVE  DiscInv'
<1> USE DEF DiscInv, DiscTypeOK
<1>1. HandlersOnce' /\ ToldOnceOfRecorded' /\ SubscribersAgree'
  BY DEF HandlersOnce, ToldOnceOfRecorded, SubscribersAgree, Subscribed
<1>2. discCalls' = [discCalls EXCEPT ![l] = NoCall]
  BY DEF GiveUpOn
<1>3. NoCall \in [at : DiscPlaces, left : Seq(Services)] /\ NoCall.at = "idle"
  BY DEF NoCall, DiscPlaces
<1>4. /\ discCalls' \in [Listeners -> [at : DiscPlaces, left : Seq(Services)]]
      /\ CallsHaveService'
      /\ ~AtService(l)'
      /\ \A m \in Listeners \ {l} : AtService(m)' = AtService(m)
                                    /\ ServiceOf(m)' = ServiceOf(m)
                                    /\ discCalls'[m] = discCalls[m]
  BY <1>2, <1>3, CallStep
<1>5. DiscTypeOK' /\ StagesInOrder'
  BY <1>4 DEF StagesInOrder
<1>6. AloneBehindGate'
  BY <1>4 DEF AloneBehindGate
<1> QED BY <1>1, <1>4, <1>5, <1>6

LEMMA AddThrowsStep ==
  ASSUME DiscInv, NEW l \in Listeners, AddThrows(l)
  PROVE  DiscInv'
BY CallEndsStep DEF AddThrows

LEMMA AddInstanceStep ==
  ASSUME DiscInv, NEW l \in Listeners, AddInstance(l)
  PROVE  DiscInv'
<1> DEFINE s == Head(discCalls[l].left)
<1> USE DEF DiscInv, DiscTypeOK
<1>1. /\ discCalls[l].at = "next" /\ discCalls[l].left # <<>> /\ s \in Services
      /\ UNCHANGED <<discAddresses, discServices, discHandlers, discTold, discDisturbed>>
  BY DEF AddInstance, CallsHaveService
<1>2. HandlersOnce' /\ ToldOnceOfRecorded' /\ SubscribersAgree'
  BY <1>1 DEF HandlersOnce, ToldOnceOfRecorded, SubscribersAgree, Subscribed
<1>3. CASE s \in discInstances
  BY <1>1, <1>3, CallEndsStep DEF AddInstance
<1>4. CASE s \notin discInstances
  <2>1. /\ discCalls' = [discCalls EXCEPT ![l].at = "address"]
        /\ discInstances' = discInstances \union {s}
    BY <1>4 DEF AddInstance
  <2>2. /\ discCalls' \in [Listeners -> [at : DiscPlaces, left : Seq(Services)]]
        /\ discCalls'[l].at = "address" /\ discCalls'[l].left = discCalls[l].left
        /\ \A m \in Listeners \ {l} : discCalls'[m] = discCalls[m]
    BY <2>1 DEF DiscPlaces
  <2>3. DiscTypeOK' /\ StagesInOrder'
    BY <1>1, <2>1, <2>2 DEF StagesInOrder
  <2>4. CallsHaveService'
    <3> SUFFICES ASSUME NEW m \in Listeners, discCalls'[m].at # "idle"
                 PROVE  discCalls'[m].left # <<>>
      BY DEF CallsHaveService
    <3> QED BY <1>1, <2>2 DEF CallsHaveService
  <2>5. s \notin discServices
    BY <1>4 DEF StagesInOrder
  <2>6. \A m \in Listeners \ {l} : AtService(m) => ServiceOf(m) # s
    BY <1>4 DEF AloneBehindGate
  <2>7. AloneBehindGate'
    <3>1. /\ ServiceOf(l)' = s
          /\ \A m \in Listeners \ {l} : AtService(m)' = AtService(m)
                                        /\ ServiceOf(m)' = ServiceOf(m)
      BY <2>2 DEF AtService, ServiceOf
    <3> SUFFICES ASSUME NEW k \in Listeners, AtService(k)'
                 PROVE  /\ ServiceOf(k)' \in discInstances'
                        /\ ServiceOf(k)' \notin discServices'
                        /\ discCalls'[k].at = "raise" => ServiceOf(k)' \in discAddresses'
                        /\ \A m \in Listeners :
                             AtService(m)' /\ ServiceOf(m)' = ServiceOf(k)' => m = k
      BY DEF AloneBehindGate
    <3>2. CASE k = l
      BY <1>1, <2>1, <2>2, <2>5, <2>6, <3>1, <3>2
    <3>3. CASE k # l
      <4>1. AtService(k) /\ ServiceOf(k)' = ServiceOf(k) /\ discCalls'[k] = discCalls[k]
        BY <2>2, <3>1, <3>3
      <4>2. /\ ServiceOf(k) \in discInstances /\ ServiceOf(k) \notin discServices
            /\ discCalls[k].at = "raise" => ServiceOf(k) \in discAddresses
            /\ \A m \in Listeners : AtService(m) /\ ServiceOf(m) = ServiceOf(k) => m = k
        BY <4>1 DEF AloneBehindGate
      <4>3. ServiceOf(k) # s
        BY <2>6, <3>3, <4>1
      <4>4. \A m \in Listeners : AtService(m)' /\ ServiceOf(m)' = ServiceOf(k)' => m = k
        BY <3>1, <4>1, <4>2, <4>3
      <4> QED BY <1>1, <2>1, <4>1, <4>2, <4>4
    <3> QED BY <3>2, <3>3
  <2> QED BY <1>2, <2>3, <2>4, <2>7
<1> QED BY <1>3, <1>4

LEMMA AddAddressStep ==
  ASSUME DiscInv, NEW l \in Listeners, AddAddress(l)
  PROVE  DiscInv'
<1> DEFINE s == Head(discCalls[l].left)
<1> USE DEF DiscInv, DiscTypeOK
<1>1. /\ discCalls[l].at = "address" /\ discCalls[l].left # <<>> /\ s \in Services
      /\ discAddresses' = discAddresses \union {s}
      /\ discCalls' = [discCalls EXCEPT ![l].at = "raise"]
      /\ UNCHANGED <<discInstances, discServices, discHandlers, discTold, discDisturbed>>
  BY DEF AddAddress, CallsHaveService
<1>2. /\ discCalls' \in [Listeners -> [at : DiscPlaces, left : Seq(Services)]]
      /\ discCalls'[l].at = "raise" /\ discCalls'[l].left = discCalls[l].left
      /\ \A m \in Listeners \ {l} : discCalls'[m] = discCalls[m]
  BY <1>1 DEF DiscPlaces
<1>3. AtService(l) /\ ServiceOf(l) = s /\ s \in discInstances
  BY <1>1 DEF AtService, ServiceOf, AloneBehindGate
<1>4. DiscTypeOK' /\ StagesInOrder'
  BY <1>1, <1>2, <1>3 DEF StagesInOrder
<1>5. CallsHaveService'
  <2> SUFFICES ASSUME NEW m \in Listeners, discCalls'[m].at # "idle"
               PROVE  discCalls'[m].left # <<>>
    BY DEF CallsHaveService
  <2> QED BY <1>1, <1>2 DEF CallsHaveService
<1>6. AloneBehindGate'
  <2>1. \A m \in Listeners : AtService(m)' = AtService(m) /\ ServiceOf(m)' = ServiceOf(m)
    BY <1>1, <1>2 DEF AtService, ServiceOf
  <2>2. \A m \in Listeners : discCalls'[m].at = "raise" =>
          m = l \/ discCalls[m].at = "raise"
    BY <1>2
  <2> QED BY <1>1, <1>3, <2>1, <2>2 DEF AloneBehindGate
<1>7. HandlersOnce' /\ ToldOnceOfRecorded' /\ SubscribersAgree'
  BY <1>1 DEF HandlersOnce, ToldOnceOfRecorded, SubscribersAgree, Subscribed
<1> QED BY <1>4, <1>5, <1>6, <1>7

\* Telling the subscribers of a service nobody was told of.
LEMMA InvokeTells ==
  ASSUME DiscInv, NEW s \in Services, s \notin discServices, Invoke(s),
         discHandlers' = discHandlers
  PROVE  /\ discTold' \in [Handlers -> [Services -> Nat]]
         /\ \A h \in Handlers : /\ discTold'[h][s] \in {0, 1}
                                /\ \A t \in Services \ {s} : discTold'[h][t] = discTold[h][t]
                                /\ h \in discDisturbed => h \in discDisturbed'
                                /\ Subscribed(h) /\ h \notin discDisturbed'
                                     => discTold'[h][s] = 1
<1>1. PICK called \in 0 .. Len(discHandlers) :
        LET reached == {discHandlers[i] : i \in 1 .. called}
        IN  /\ discTold' = [h \in Handlers |->
                 IF h \in reached THEN [discTold[h] EXCEPT ![s] = @ + 1] ELSE discTold[h]]
            /\ \/ called = Len(discHandlers) /\ UNCHANGED discDisturbed
               \/ /\ called > 0
                  /\ discDisturbed' = discDisturbed
                       \union {discHandlers[i] : i \in called .. Len(discHandlers)}
  BY DEF Invoke
<1> DEFINE reached == {discHandlers[i] : i \in 1 .. called}
<1>2. discTold' = [h \in Handlers |->
                 IF h \in reached THEN [discTold[h] EXCEPT ![s] = @ + 1] ELSE discTold[h]]
  BY <1>1
<1>3. /\ discTold \in [Handlers -> [Services -> Nat]] /\ discHandlers \in Seq(Handlers)
      /\ \A h \in Handlers : discTold[h][s] = 0
  BY DEF DiscInv, DiscTypeOK, ToldOnceOfRecorded
<1>4. \A h \in Handlers : Subscribed(h) /\ h \notin discDisturbed' => h \in reached
  <2> SUFFICES ASSUME NEW h \in Handlers, Subscribed(h), h \notin discDisturbed'
               PROVE  h \in reached
    OBVIOUS
  <2>1. PICK i \in 1 .. Len(discHandlers) : discHandlers[i] = h
    BY <1>3 DEF Subscribed
  <2>2. Len(discHandlers) \in Nat
    BY <1>3
  <2>3. CASE called = Len(discHandlers)
    BY <2>1, <2>3
  <2>4. CASE discDisturbed' = discDisturbed
                       \union {discHandlers[j] : j \in called .. Len(discHandlers)}
    <3>1. ~(i \in called .. Len(discHandlers))
      BY <2>1, <2>4
    <3>2. i \in 1 .. called
      BY <2>1, <2>2, <3>1
    <3> QED BY <2>1, <3>2
  <2> QED BY <1>1, <2>3, <2>4
<1>5. \A h \in Handlers : h \in discDisturbed => h \in discDisturbed'
  BY <1>1
<1> HIDE DEF reached
<1>6. discTold' \in [Handlers -> [Services -> Nat]]
  BY <1>2, <1>3
<1>7. \A h \in Handlers : /\ discTold'[h][s] = IF h \in reached THEN 1 ELSE 0
                          /\ \A t \in Services \ {s} : discTold'[h][t] = discTold[h][t]
  BY <1>2, <1>3
<1> QED BY <1>4, <1>5, <1>6, <1>7

LEMMA RaiseFoundStep ==
  ASSUME DiscInv, NEW l \in Listeners, RaiseFound(l)
  PROVE  DiscInv'
<1> DEFINE s == ServiceOf(l)
           call == CallFor(Tail(discCalls[l].left))
<1>1. /\ discCalls[l].at = "raise" /\ discCalls[l].left # <<>>
      /\ discCalls[l].left \in Seq(Services) /\ s \in Services
  BY DEF RaiseFound, DiscInv, DiscTypeOK, CallsHaveService, ServiceOf
<1>2. /\ Invoke(s) /\ discServices' = discServices \union {s}
      /\ discCalls' = [discCalls EXCEPT ![l] = call]
      /\ UNCHANGED <<discInstances, discAddresses, discHandlers>>
  BY DEF RaiseFound, Continue, ServiceOf
<1>3. AtService(l) /\ s \in discAddresses /\ s \notin discServices
  BY <1>1 DEF AtService, DiscInv, AloneBehindGate
<1>4. /\ discTold' \in [Handlers -> [Services -> Nat]]
      /\ \A h \in Handlers : /\ discTold'[h][s] \in {0, 1}
                             /\ \A t \in Services \ {s} : discTold'[h][t] = discTold[h][t]
                             /\ h \in discDisturbed => h \in discDisturbed'
                             /\ Subscribed(h) /\ h \notin discDisturbed'
                                  => discTold'[h][s] = 1
  BY <1>1, <1>2, <1>3, InvokeTells
<1>5. /\ call \in [at : DiscPlaces, left : Seq(Services)]
      /\ call.at \in {"idle", "next"}
      /\ call.at # "idle" => call.left # <<>>
  <2>1. Tail(discCalls[l].left) \in Seq(Services)
    BY <1>1
  <2> QED BY <2>1, CallForIsCall
<1> HIDE DEF call
<1>6. /\ discCalls' \in [Listeners -> [at : DiscPlaces, left : Seq(Services)]]
      /\ CallsHaveService'
      /\ ~AtService(l)'
      /\ \A m \in Listeners \ {l} : AtService(m)' = AtService(m)
                                    /\ ServiceOf(m)' = ServiceOf(m)
                                    /\ discCalls'[m] = discCalls[m]
  BY <1>2, <1>5, CallStep
<1> HIDE DEF s
<1>7. DiscTypeOK' /\ StagesInOrder' /\ HandlersOnce'
  BY <1>1, <1>2, <1>3, <1>4, <1>6 DEF DiscInv, DiscTypeOK, StagesInOrder, HandlersOnce
<1>8. AloneBehindGate'
  <2>1. \A m \in Listeners \ {l} : AtService(m) => ServiceOf(m) # s
    BY <1>3 DEF s, DiscInv, AloneBehindGate
  <2> QED BY <1>2, <1>6, <2>1 DEF DiscInv, AloneBehindGate
<1>9. \A h \in Handlers : Subscribed(h)' = Subscribed(h)
  BY <1>2 DEF Subscribed
<1>10. ToldOnceOfRecorded'
  <2> SUFFICES ASSUME NEW h \in Handlers, NEW t \in Services
               PROVE  discTold'[h][t] <= 1 /\ (discTold'[h][t] > 0 => t \in discServices')
    BY DEF ToldOnceOfRecorded
  <2>1. CASE t = s
    BY <1>2, <1>4, <2>1
  <2>2. CASE t # s
    BY <1>2, <1>4, <2>2 DEF DiscInv, ToldOnceOfRecorded
  <2> QED BY <2>1, <2>2
<1>11. SubscribersAgree'
  <2> SUFFICES ASSUME NEW h \in Handlers, NEW t \in Services
               PROVE  /\ Subscribed(h) /\ h \notin discDisturbed'
                           => discTold'[h][t] = IF t \in discServices' THEN 1 ELSE 0
                      /\ discTold'[h][t] <= 1
                      /\ discTold'[h][t] > 0 => t \in discAddresses'
    BY <1>9 DEF SubscribersAgree
  <2>1. CASE t = s
    BY <1>2, <1>3, <1>4, <2>1
  <2>2. CASE t # s
    BY <1>2, <1>4, <2>2 DEF DiscInv, SubscribersAgree
  <2> QED BY <2>1, <2>2
<1> QED BY <1>6, <1>7, <1>8, <1>10, <1>11 DEF DiscInv

\* Subscribers come and go without touching what the listeners do.
LEMMA GateUntouched ==
  ASSUME DiscInv, UNCHANGED <<discInstances, discAddresses, discServices, discCalls>>
  PROVE  CallsHaveService' /\ StagesInOrder' /\ AloneBehindGate'
BY DEF DiscInv, CallsHaveService, StagesInOrder, AloneBehindGate, AtService, ServiceOf

LEMMA SubscribeFoundStep ==
  ASSUME DiscInv, NEW h \in Handlers, SubscribeFound(h)
  PROVE  DiscInv'
<1>1. PICK replayed \in SUBSET discServices :
       /\ discTold' = [discTold EXCEPT
            ![h] = [s \in Services |-> IF s \in replayed THEN 1 ELSE 0]]
       /\ \/ replayed = discServices /\ discDisturbed' = discDisturbed \ {h}
          \/ discDisturbed' = discDisturbed \union {h}
  BY DEF SubscribeFound
<1>2. /\ ~Subscribed(h) /\ discHandlers' = Append(discHandlers, h)
      /\ UNCHANGED <<discInstances, discAddresses, discServices, discCalls>>
  BY DEF SubscribeFound
<1>3. /\ discHandlers \in Seq(Handlers) /\ discTold \in [Handlers -> [Services -> Nat]]
      /\ discServices \in SUBSET Services
  BY DEF DiscInv, DiscTypeOK
<1>4. /\ discHandlers' \in Seq(Handlers) /\ Len(discHandlers') = Len(discHandlers) + 1
      /\ DOMAIN discHandlers = 1 .. Len(discHandlers) /\ Len(discHandlers) \in Nat
      /\ DOMAIN discHandlers' = 1 .. Len(discHandlers) + 1
      /\ discHandlers'[Len(discHandlers) + 1] = h
      /\ \A i \in 1 .. Len(discHandlers) : discHandlers'[i] = discHandlers[i]
  BY <1>2, <1>3
<1>5. \A g \in Handlers \ {h} : Subscribed(g)' => Subscribed(g)
  <2> SUFFICES ASSUME NEW g \in Handlers \ {h}, Subscribed(g)' PROVE Subscribed(g)
    OBVIOUS
  <2>1. PICK i \in DOMAIN discHandlers' : discHandlers'[i] = g
    BY DEF Subscribed
  <2>2. i \in DOMAIN discHandlers /\ discHandlers[i] = g
    BY <1>4, <2>1
  <2> QED BY <2>2 DEF Subscribed
<1>6. HandlersOnce'
  <2> SUFFICES ASSUME NEW i \in DOMAIN discHandlers', NEW j \in DOMAIN discHandlers',
                      discHandlers'[i] = discHandlers'[j]
               PROVE  i = j
    BY DEF HandlersOnce
  <2>1. \A k \in 1 .. Len(discHandlers) : discHandlers[k] # h
    BY <1>2, <1>4 DEF Subscribed
  <2> QED BY <1>4, <2>1 DEF DiscInv, HandlersOnce
<1>7. /\ discTold' \in [Handlers -> [Services -> Nat]]
      /\ \A g \in Handlers \ {h} : discTold'[g] = discTold[g]
      /\ \A s \in Services : discTold'[h][s] = IF s \in replayed THEN 1 ELSE 0
  BY <1>1, <1>3
<1>8. DiscTypeOK'
  BY <1>2, <1>4, <1>7 DEF DiscInv, DiscTypeOK
<1>9. ToldOnceOfRecorded'
  <2> SUFFICES ASSUME NEW g \in Handlers, NEW t \in Services
               PROVE  discTold'[g][t] <= 1 /\ (discTold'[g][t] > 0 => t \in discServices)
    BY <1>2 DEF ToldOnceOfRecorded
  <2>1. CASE g = h
    BY <1>7, <2>1
  <2>2. CASE g # h
    BY <1>7, <2>2 DEF DiscInv, ToldOnceOfRecorded
  <2> QED BY <2>1, <2>2
<1>10. SubscribersAgree'
  <2> SUFFICES ASSUME NEW g \in Handlers, NEW t \in Services
               PROVE  /\ Subscribed(g)' /\ g \notin discDisturbed'
                           => discTold'[g][t] = IF t \in discServices THEN 1 ELSE 0
                      /\ discTold'[g][t] <= 1
                      /\ discTold'[g][t] > 0 => t \in discAddresses
    BY <1>2 DEF SubscribersAgree
  <2>1. CASE g = h
    BY <1>1, <1>7, <2>1 DEF DiscInv, StagesInOrder
  <2>2. CASE g # h
    <3>1. g \notin discDisturbed' => g \notin discDisturbed
      BY <1>1, <2>2
    <3> QED BY <1>5, <1>7, <2>2, <3>1 DEF DiscInv, SubscribersAgree
  <2> QED BY <2>1, <2>2
<1> QED BY <1>2, <1>6, <1>8, <1>9, <1>10, GateUntouched DEF DiscInv

LEMMA UnsubscribeFoundStep ==
  ASSUME DiscInv, NEW h \in Handlers, UnsubscribeFound(h)
  PROVE  DiscInv'
<1>1. PICK i \in DOMAIN discHandlers :
       /\ discHandlers[i] = h
       /\ discHandlers' = SubSeq(discHandlers, 1, i - 1)
                            \o SubSeq(discHandlers, i + 1, Len(discHandlers))
  BY DEF UnsubscribeFound
<1>2. /\ discTold' = [discTold EXCEPT ![h] = [s \in Services |-> 0]]
      /\ discDisturbed' = discDisturbed \ {h}
      /\ UNCHANGED <<discInstances, discAddresses, discServices, discCalls>>
  BY DEF UnsubscribeFound
<1>3. /\ discHandlers \in Seq(Handlers) /\ discTold \in [Handlers -> [Services -> Nat]]
      /\ HandlersOnce
  BY DEF DiscInv, DiscTypeOK
<1>4. /\ discHandlers' \in Seq(Handlers) /\ Len(discHandlers') = Len(discHandlers) - 1
      /\ \A j \in DOMAIN discHandlers' :
           discHandlers'[j] = IF j < i THEN discHandlers[j] ELSE discHandlers[j + 1]
  BY <1>1, <1>3, WithoutElement
<1>5. /\ DOMAIN discHandlers = 1 .. Len(discHandlers) /\ Len(discHandlers) \in Nat
      /\ DOMAIN discHandlers' = 1 .. Len(discHandlers) - 1 /\ i \in 1 .. Len(discHandlers)
  BY <1>1, <1>3, <1>4
<1>6. HandlersOnce'
  <2> SUFFICES ASSUME NEW j \in DOMAIN discHandlers', NEW k \in DOMAIN discHandlers',
                      discHandlers'[j] = discHandlers'[k]
               PROVE  j = k
    BY DEF HandlersOnce
  <2> DEFINE jj == IF j < i THEN j ELSE j + 1
             kk == IF k < i THEN k ELSE k + 1
  <2>1. jj \in DOMAIN discHandlers /\ kk \in DOMAIN discHandlers
    BY <1>5
  <2>2. discHandlers[jj] = discHandlers[kk]
    BY <1>4
  <2>3. jj = kk
    BY <1>3, <2>1, <2>2 DEF HandlersOnce
  <2> QED BY <1>5, <2>3
<1>7. \A g \in Handlers : Subscribed(g)' => Subscribed(g) /\ g # h
  <2> SUFFICES ASSUME NEW j \in DOMAIN discHandlers'
               PROVE  \E k \in DOMAIN discHandlers :
                        discHandlers[k] = discHandlers'[j] /\ discHandlers[k] # h
    BY DEF Subscribed
  <2> DEFINE jj == IF j < i THEN j ELSE j + 1
  <2>1. jj \in DOMAIN discHandlers /\ jj # i /\ discHandlers'[j] = discHandlers[jj]
    BY <1>4, <1>5
  <2>2. discHandlers[jj] # h
    BY <1>1, <1>3, <2>1 DEF HandlersOnce
  <2> QED BY <2>1, <2>2
<1>8. /\ discTold' \in [Handlers -> [Services -> Nat]]
      /\ \A g \in Handlers \ {h} : discTold'[g] = discTold[g]
      /\ \A s \in Services : discTold'[h][s] = 0
  BY <1>2, <1>3
<1>9. DiscTypeOK'
  BY <1>2, <1>4, <1>8 DEF DiscInv, DiscTypeOK
<1>10. ToldOnceOfRecorded'
  <2> SUFFICES ASSUME NEW g \in Handlers, NEW t \in Services
               PROVE  discTold'[g][t] <= 1 /\ (discTold'[g][t] > 0 => t \in discServices)
    BY <1>2 DEF ToldOnceOfRecorded
  <2> QED BY <1>8 DEF DiscInv, ToldOnceOfRecorded
<1>11. SubscribersAgree'
  <2> SUFFICES ASSUME NEW g \in Handlers, NEW t \in Services
               PROVE  /\ Subscribed(g)' /\ g \notin discDisturbed'
                           => discTold'[g][t] = IF t \in discServices THEN 1 ELSE 0
                      /\ discTold'[g][t] <= 1
                      /\ discTold'[g][t] > 0 => t \in discAddresses
    BY <1>2 DEF SubscribersAgree
  <2> QED BY <1>2, <1>7, <1>8 DEF DiscInv, SubscribersAgree
<1> QED BY <1>2, <1>6, <1>9, <1>10, <1>11, GateUntouched DEF DiscInv

LEMMA DiscInvariant == DiscSpec => []DiscInv
<1>1. DiscInv /\ [DiscNext]_discVars => DiscInv'
  <2> SUFFICES ASSUME DiscInv, [DiscNext]_discVars PROVE DiscInv'
    OBVIOUS
  <2>1. CASE DiscNext
    BY <2>1, ReportHostStep, AddInstanceStep, AddAddressStep, AddThrowsStep, RaiseFoundStep,
       SubscribeFoundStep, UnsubscribeFoundStep DEF DiscNext, AddService
  <2>2. CASE UNCHANGED discVars
    BY <2>2 DEF discVars, DiscInv, DiscTypeOK, CallsHaveService, StagesInOrder,
                AloneBehindGate, AtService, ServiceOf, HandlersOnce, ToldOnceOfRecorded,
                SubscribersAgree, Subscribed
  <2> QED BY <2>1, <2>2
<1> QED BY DiscInitHolds, <1>1, PTL DEF DiscSpec

\* For any number of hosts, listeners and subscribers: whoever was not cut off by
\* an exception knows exactly the services that were raised, each of them once.
THEOREM SubscribersKnowAll == DiscSpec => []SubscribersAgree
BY DiscInvariant, PTL DEF DiscInv

-----------------------------------------------------------------------------
(* AutoUpdate, for any number of sessions and composes: an update that is  *)
(* alone and was decided on a complete list is for the newest version      *)
(* there is locally, so that the record of the package lags behind while   *)
(* it is updated, and says the newest version only when that one was       *)
(* checked out and its compose, the only one of the package, was started.  *)

UpdPlaces ==
  {"idle", "versions", "fetch", "fill", "listed", "checkout", "compose", "record"}
Updating == {"checkout", "compose", "record"}

Session ==
  [at : UpdPlaces, pkg : Packages, latest : Nat, left : SUBSET Nat]
Compose == [at : {"none", "starting", "running"}, pkg : Packages, files : Nat]

UpdTypeOK ==
  /\ updTags \in [Packages -> Nat] /\ updLocal \in [Packages -> Nat]
  /\ updVersions \in [Packages -> SUBSET Nat]
  /\ updCopy \in [Packages -> Nat] /\ updRecord \in [Packages -> Nat]
  /\ updContainers \in [Packages -> Nat]
  /\ updCompose \in [Composes -> Compose]
  /\ updSessions \in [Sessions -> Session]

\* Nothing is known of a version before its tag was fetched.
KnownOf(p) ==
  updLocal[p] <= updTags[p] /\ updRecord[p] <= updLocal[p]
    /\ updVersions[p] \subseteq 1 .. updLocal[p]
KnownTo(s) ==
  /\ updSessions[s].at = "fill" => updSessions[s].left \subseteq 1 .. updLocal[Pkg(s)]
  /\ updSessions[s].at \in Updating => updSessions[s].latest \in 1 .. updLocal[Pkg(s)]
Known == (\A p \in Packages : KnownOf(p)) /\ (\A s \in Sessions : KnownTo(s))

\* How far a session that updates p has come.
OnTheWay(s, p) ==
  Pkg(s) = p /\ updSessions[s].at \in Updating =>
    LET latest == updSessions[s].latest
    IN  /\ updRecord[p] < latest
        /\ updSessions[s].at \in {"compose", "record"} => updCopy[p] = latest
        /\ updSessions[s].at = "record" => Runs(p, latest)

RecordHolds(p) ==
  updRecord[p] > 0 /\ updRecord[p] = updLocal[p]
    => updCopy[p] = updRecord[p] /\ Runs(p, updRecord[p])

OneAtATime(p) ==
  /\ \A s, t \in Working(p) : s = t
  /\ \A c, d \in UnderWay(p) : c = d

Trusted(p) == RecordHolds(p) /\ (\A s \in Sessions : OnTheWay(s, p)) /\ OneAtATime(p)
Trustworthy == \A p \in Packages \ updDoubtful : Trusted(p)

UpdInv == UpdTypeOK /\ Known /\ Trustworthy

-----------------------------------------------------------------------------
LEMMA IdleIsSession ==
  /\ 0 \in Packages /\ Idle \in Session /\ Idle.at = "idle"
  /\ \A p \in Packages :
       LET new == [Idle EXCEPT !.at = "versions", !.pkg = p]
       IN  new \in Session /\ new.at = "versions"
<1>1. 0 \in Packages
  BY PackageCountAssumption DEF Packages
<1>2. Idle \in Session /\ Idle.at = "idle"
  BY <1>1 DEF Idle, Session, UpdPlaces
<1>3. ASSUME NEW p \in Packages
      PROVE  /\ [Idle EXCEPT !.at = "versions", !.pkg = p] \in Session
             /\ [Idle EXCEPT !.at = "versions", !.pkg = p].at = "versions"
  BY <1>2 DEF Session, UpdPlaces
<1> QED BY <1>1, <1>2, <1>3

LEMMA NoComposeIsCompose == NoCompose \in Compose /\ NoCompose.at = "none"
  BY IdleIsSession DEF NoCompose, Compose

LEMMA UpdInitHolds == UpdInit => UpdInv
<1> SUFFICES ASSUME UpdInit PROVE UpdInv
  OBVIOUS
<1>1. UpdTypeOK
  BY IdleIsSession, NoComposeIsCompose DEF UpdInit, UpdTypeOK
<1>2. Known
  <2>1. \A p \in Packages : KnownOf(p)
    BY DEF UpdInit, KnownOf
  <2>2. \A s \in Sessions : KnownTo(s)
    BY IdleIsSession DEF UpdInit, KnownTo, Updating
  <2> QED BY <2>1, <2>2 DEF Known
<1>3. \A p \in Packages : Working(p) = {} /\ UnderWay(p) = {}
  BY IdleIsSession, NoComposeIsCompose DEF UpdInit, Working, UnderWay
<1>4. \A p \in Packages : RecordHolds(p) /\ OneAtATime(p)
  BY <1>3 DEF UpdInit, RecordHolds, OneAtATime
<1>5. \A s \in Sessions : \A p \in Packages : OnTheWay(s, p)
  BY IdleIsSession DEF UpdInit, OnTheWay, Updating
<1> QED BY <1>1, <1>2, <1>4, <1>5 DEF UpdInv, Trustworthy, Trusted

-----------------------------------------------------------------------------
\* A session that turns to something else.
LEMMA SessionTurns ==
  ASSUME UpdInv, NEW s \in Sessions, NEW new \in Session,
         updSessions' = [updSessions EXCEPT ![s] = new]
  PROVE  /\ updSessions' \in [Sessions -> Session]
         /\ updSessions'[s] = new
         /\ \A t \in Sessions \ {s} : updSessions'[t] = updSessions[t]
  BY DEF UpdInv, UpdTypeOK

\* A package stays as trusted as it is in a step that neither touches it nor its
\* composes nor begins or furthers an update of it.
LEMMA PackageKept ==
  ASSUME UpdInv, NEW p \in Packages, p \notin updDoubtful,
         updCopy'[p] = updCopy[p], updRecord'[p] = updRecord[p],
         updContainers'[p] = updContainers[p],
         p \in updFailed => p \in updFailed',
         updLocal'[p] \in Nat, updLocal[p] <= updLocal'[p],
         \A c \in Composes : \/ updCompose'[c] = updCompose[c]
                             \/ c \notin UnderWay(p) /\ c \notin UnderWay(p)',
         \A s \in Sessions :
           Pkg(s)' = p /\ updSessions'[s].at \in Updating => updSessions'[s] = updSessions[s]
  PROVE  Trusted(p)'
<1>1. Trusted(p) /\ KnownOf(p) /\ updLocal[p] \in Nat /\ updRecord[p] \in Nat
  BY DEF UpdInv, Trustworthy, Known, UpdTypeOK
<1>2. UnderWay(p)' = UnderWay(p)
      /\ \A c \in UnderWay(p) : updCompose'[c] = updCompose[c]
  BY DEF UnderWay
<1>3. ASSUME NEW v, Runs(p, v) PROVE Runs(p, v)'
  BY <1>2, <1>3 DEF Runs
<1>4. RecordHolds(p)'
  BY <1>1, <1>3 DEF Trusted, RecordHolds, KnownOf
<1>5. ASSUME NEW s \in Sessions PROVE OnTheWay(s, p)'
  <2> SUFFICES ASSUME Pkg(s)' = p, updSessions'[s].at \in Updating PROVE OnTheWay(s, p)'
    BY DEF OnTheWay
  <2>1. updSessions'[s] = updSessions[s]
    OBVIOUS
  <2>2. OnTheWay(s, p)
    BY <1>1 DEF Trusted
  <2>3. Pkg(s) = p
    BY <2>1 DEF Pkg
  <2>4. updRecord[p] < updSessions[s].latest
        /\ (updSessions[s].at \in {"compose", "record"} => updCopy[p] = updSessions[s].latest)
        /\ (updSessions[s].at = "record" => Runs(p, updSessions[s].latest))
    BY <2>1, <2>2, <2>3 DEF OnTheWay
  <2>5. updSessions[s].at = "record" => Runs(p, updSessions[s].latest)'
    <3> DEFINE v == updSessions[s].latest
    <3>1. updSessions'[s].latest = updSessions[s].latest
      BY <2>1
    <3>2. updSessions[s].at = "record" =>
            IF UnderWay(p)' = {} THEN updContainers'[p] = v \/ p \in updFailed'
            ELSE \A c \in UnderWay(p)' : updCompose'[c].at = "running" => updCompose'[c].files = v
      BY <2>4, <1>2 DEF Runs
    <3> QED BY <3>1, <3>2 DEF Runs
  <2> QED BY <2>1, <2>4, <2>5 DEF OnTheWay
<1>6. OneAtATime(p)'
  <2>1. \A s \in Working(p)' : s \in Working(p)
    BY DEF Working, Updating, Pkg
  <2> QED BY <1>1, <1>2, <2>1 DEF Trusted, OneAtATime
<1> QED BY <1>4, <1>5, <1>6 DEF Trusted
-----------------------------------------------------------------------------
\* What the world leaves alone: the disk, the host and the doubts; sessions may die.
UpdWorldMoves ==
  /\ UNCHANGED <<updLocal, updCopy, updRecord, updContainers, updCompose, updFailed,
                 updDoubtful>>
  /\ updTags' \in [Packages -> Nat]
  /\ \A p \in Packages : updTags[p] <= updTags'[p]
  /\ \A p \in Packages : updVersions'[p] \subseteq updVersions[p]
  /\ updVersions' \in [Packages -> SUBSET Nat]
  /\ updSessions' \in [Sessions -> Session]
  /\ \A s \in Sessions : updSessions'[s] = updSessions[s] \/ updSessions'[s].at = "idle"

LEMMA UpdWorldStep ==
  ASSUME UpdInv,
         \/ \E p \in Packages : TagVersion(p) \/ TenSecondsPass(p)
         \/ Restart \/ UNCHANGED updVars
  PROVE  UpdInv'
<1>1. UpdWorldMoves
  <2> USE DEF UpdWorldMoves
  <2>1. ASSUME NEW p \in Packages, TagVersion(p) PROVE UpdWorldMoves
    BY <2>1 DEF TagVersion, UpdInv, UpdTypeOK, updDisk, updHost, updList
  <2>2. ASSUME NEW p \in Packages, TenSecondsPass(p) PROVE UpdWorldMoves
    BY <2>2 DEF TenSecondsPass, UpdInv, UpdTypeOK, updDisk, updHost
  <2>3. CASE Restart
    <3>1. /\ UNCHANGED <<updTags, updLocal, updCopy, updRecord, updContainers, updCompose,
                         updFailed, updDoubtful>>
          /\ updVersions' = [p \in Packages |-> {}]
          /\ updSessions' = [s \in Sessions |-> Idle]
      BY <2>3 DEF Restart, updDisk, updHost
    <3>2. updSessions' \in [Sessions -> Session]
          /\ \A s \in Sessions : updSessions'[s].at = "idle"
      BY <3>1, IdleIsSession
    <3>3. \A p \in Packages : updTags[p] <= updTags'[p]
      BY <3>1 DEF UpdInv, UpdTypeOK
    <3> QED BY <3>1, <3>2, <3>3 DEF UpdInv, UpdTypeOK
  <2>4. CASE UNCHANGED updVars
    BY <2>4 DEF updVars, updDisk, updHost, updList, UpdInv, UpdTypeOK
  <2> QED BY <2>1, <2>2, <2>3, <2>4
<1> USE <1>1 DEF UpdWorldMoves
<1>2. UpdTypeOK'
  BY <1>1 DEF UpdInv, UpdTypeOK
<1>3. Known'
  <2>1. ASSUME NEW p \in Packages PROVE KnownOf(p)'
    <3>1. KnownOf(p) /\ updTags[p] \in Nat /\ updTags'[p] \in Nat /\ updLocal[p] \in Nat
      BY <1>1 DEF UpdInv, Known, UpdTypeOK
    <3> QED BY <1>1, <3>1 DEF KnownOf
  <2>2. ASSUME NEW s \in Sessions PROVE KnownTo(s)'
    BY <1>1 DEF UpdInv, Known, KnownTo, Updating, Pkg
  <2> QED BY <2>1, <2>2 DEF Known
<1>4. Trustworthy'
  <2> SUFFICES ASSUME NEW p \in Packages, p \notin updDoubtful PROVE Trusted(p)'
    BY <1>1 DEF Trustworthy
  <2>1. updLocal[p] \in Nat
    BY DEF UpdInv, UpdTypeOK
  <2>2. \A s \in Sessions :
          Pkg(s)' = p /\ updSessions'[s].at \in Updating => updSessions'[s] = updSessions[s]
    BY <1>1 DEF Updating
  <2> QED BY <1>1, <2>1, <2>2, PackageKept
<1> QED BY <1>2, <1>3, <1>4 DEF UpdInv

\* A compose reads what the session on the way has checked out, or what the record
\* says.
LEMMA ComposeReadsStep ==
  ASSUME UpdInv, NEW c \in Composes, ComposeReads(c)
  PROVE  UpdInv'
<1> DEFINE p == updCompose[c].pkg
           new == [updCompose[c] EXCEPT !.at = "running", !.files = updCopy[p]]
<1>1. /\ updCompose[c] \in Compose /\ p \in Packages /\ updCompose[c].at = "starting"
      /\ updCompose' = [updCompose EXCEPT ![c] = new]
      /\ UNCHANGED <<updTags, updLocal, updVersions, updCopy, updRecord, updContainers,
                     updFailed, updSessions, updDoubtful>>
  BY DEF ComposeReads, UpdInv, UpdTypeOK, Compose, updList, updDisk
<1>2. /\ new \in Compose /\ new.at = "running" /\ new.files = updCopy[p] /\ new.pkg = p
  BY <1>1 DEF Compose, UpdInv, UpdTypeOK
<1> HIDE DEF new
<1>3. /\ updCompose' \in [Composes -> Compose] /\ updCompose'[c] = new
      /\ \A d \in Composes \ {c} : updCompose'[d] = updCompose[d]
  BY <1>1, <1>2 DEF UpdInv, UpdTypeOK
<1>4. UpdTypeOK' /\ Known'
  BY <1>1, <1>3 DEF UpdInv, UpdTypeOK, Known, KnownOf, KnownTo, Pkg
<1>5. \A q \in Packages : UnderWay(q)' = UnderWay(q) /\ Working(q)' = Working(q)
  BY <1>1, <1>2, <1>3 DEF UnderWay, Working, Pkg
<1>6. ASSUME NEW q \in Packages, NEW v, Runs(q, v), updCopy[q] = v PROVE Runs(q, v)'
  <2>1. CASE UnderWay(q) = {}
    BY <1>1, <1>5, <1>6, <2>1 DEF Runs
  <2>2. CASE UnderWay(q) # {}
    <3>1. \A d \in UnderWay(q) : updCompose[d].at = "running" => updCompose[d].files = v
      BY <1>6, <2>2 DEF Runs
    <3>2. \A d \in UnderWay(q) : updCompose'[d].at = "running" => updCompose'[d].files = v
      <4> SUFFICES ASSUME NEW d \in UnderWay(q), updCompose'[d].at = "running"
                   PROVE  updCompose'[d].files = v
        OBVIOUS
      <4>1. d \in Composes /\ updCompose[d].pkg = q
        BY DEF UnderWay
      <4>2. CASE d = c
        BY <1>2, <1>3, <1>6, <4>1, <4>2
      <4>3. CASE d # c
        BY <1>3, <3>1, <4>1, <4>3
      <4> QED BY <4>2, <4>3
    <3> QED BY <1>5, <2>2, <3>2 DEF Runs
  <2> QED BY <2>1, <2>2
<1>7. Trustworthy'
  <2> SUFFICES ASSUME NEW q \in Packages, q \notin updDoubtful PROVE Trusted(q)'
    BY <1>1 DEF Trustworthy
  <2>1. Trusted(q)
    BY DEF UpdInv, Trustworthy
  <2>2. RecordHolds(q)'
    BY <1>1, <1>6, <2>1 DEF Trusted, RecordHolds
  <2>3. ASSUME NEW s \in Sessions PROVE OnTheWay(s, q)'
    <3>1. OnTheWay(s, q)
      BY <2>1 DEF Trusted
    <3> DEFINE v == updSessions[s].latest
    <3>2. Runs(q, v) /\ updCopy[q] = v =>
            IF UnderWay(q)' = {} THEN updContainers'[q] = v \/ q \in updFailed'
            ELSE \A d \in UnderWay(q)' : updCompose'[d].at = "running" => updCompose'[d].files = v
      BY <1>6 DEF Runs
    <3> QED BY <1>1, <3>1, <3>2 DEF OnTheWay, Runs, Pkg
  <2>4. OneAtATime(q)'
    BY <1>5, <2>1 DEF Trusted, OneAtATime
  <2> QED BY <2>2, <2>3, <2>4 DEF Trusted
<1> QED BY <1>4, <1>7 DEF UpdInv

LEMMA ComposeEndsStep ==
  ASSUME UpdInv, NEW c \in Composes, ComposeEnds(c)
  PROVE  UpdInv'
<1> DEFINE p == updCompose[c].pkg
<1>1. /\ updCompose[c] \in Compose /\ p \in Packages /\ updCompose[c].at # "none"
      /\ updCompose' = [updCompose EXCEPT ![c] = NoCompose]
      /\ \/ /\ updCompose[c].at = "running"
            /\ updContainers' = [updContainers EXCEPT ![p] = updCompose[c].files]
            /\ updFailed' = updFailed \ {p}
         \/ /\ updFailed' = updFailed \union {p}
            /\ UNCHANGED updContainers
      /\ UNCHANGED <<updTags, updLocal, updVersions, updCopy, updRecord, updSessions, updDoubtful>>
  BY DEF ComposeEnds, UpdInv, UpdTypeOK, Compose, updList, updDisk
<1>2. /\ updCompose' \in [Composes -> Compose] /\ updCompose'[c].at = "none"
      /\ \A d \in Composes \ {c} : updCompose'[d] = updCompose[d]
  BY <1>1, NoComposeIsCompose DEF UpdInv, UpdTypeOK
<1>3. updContainers' \in [Packages -> Nat]
  BY <1>1 DEF UpdInv, UpdTypeOK, Compose
<1>4. UpdTypeOK' /\ Known'
  BY <1>1, <1>2, <1>3 DEF UpdInv, UpdTypeOK, Known, KnownOf, KnownTo, Pkg
<1>5. Trustworthy'
  <2> SUFFICES ASSUME NEW q \in Packages, q \notin updDoubtful PROVE Trusted(q)'
    BY <1>1 DEF Trustworthy
  <2>1. Trusted(q)
    BY DEF UpdInv, Trustworthy
  <2>2. CASE q # p
    <3>1. updContainers'[q] = updContainers[q] /\ (q \in updFailed => q \in updFailed')
      BY <1>1, <2>2 DEF UpdInv, UpdTypeOK
    <3>2. \A d \in Composes : \/ updCompose'[d] = updCompose[d]
                              \/ d \notin UnderWay(q) /\ d \notin UnderWay(q)'
      BY <1>1, <1>2, <2>2 DEF UnderWay
    <3>3. updLocal[q] \in Nat
      BY DEF UpdInv, UpdTypeOK
    <3> QED BY <1>1, <3>1, <3>2, <3>3, PackageKept
  <2>3. CASE q = p
    <3>1. c \in UnderWay(q)
      BY <1>1, <2>3 DEF UnderWay
    <3>2. UnderWay(q) = {c} /\ UnderWay(q)' = {}
      BY <1>2, <2>1, <3>1 DEF Trusted, OneAtATime, UnderWay
    <3>3. ASSUME NEW v, Runs(q, v)
          PROVE  updContainers'[q] = v \/ q \in updFailed'
      BY <1>1, <2>3, <3>2, <3>3 DEF Runs, UpdInv, UpdTypeOK
    <3>4. RecordHolds(q)'
      BY <1>1, <2>1, <3>2, <3>3 DEF Trusted, RecordHolds, Runs
    <3>5. ASSUME NEW s \in Sessions PROVE OnTheWay(s, q)'
      <4>1. OnTheWay(s, q)
        BY <2>1 DEF Trusted
      <4>2. Runs(q, updSessions[s].latest) =>
              updContainers'[q] = updSessions[s].latest \/ q \in updFailed'
        BY <3>3
      <4> QED BY <1>1, <3>2, <4>1, <4>2 DEF OnTheWay, Runs, Pkg
    <3>6. OneAtATime(q)'
      <4>1. Working(q)' = Working(q)
        BY <1>1 DEF Working, Pkg
      <4> QED BY <2>1, <3>2, <4>1 DEF Trusted, OneAtATime
    <3> QED BY <3>4, <3>5, <3>6 DEF Trusted
  <2> QED BY <2>2, <2>3
<1> QED BY <1>4, <1>5 DEF UpdInv
-----------------------------------------------------------------------------
(* The steps of a session.                                                 *)

\* A session that does not update what it turns to, while versions become known.
LEMMA SessionStep ==
  ASSUME UpdInv, NEW s \in Sessions, NEW new \in Session,
         updSessions' = [updSessions EXCEPT ![s] = new],
         new.at \notin Updating,
         UNCHANGED <<updTags, updDisk, updHost, updDoubtful>>,
         updLocal' \in [Packages -> Nat], updVersions' \in [Packages -> SUBSET Nat],
         \A p \in Packages : /\ updLocal[p] <= updLocal'[p] /\ updLocal'[p] <= updTags[p]
                             /\ updVersions'[p] \subseteq 1 .. updLocal'[p],
         new.at = "fill" => new.left \subseteq 1 .. updLocal'[new.pkg]
  PROVE  UpdInv'
<1>1. /\ updSessions' \in [Sessions -> Session] /\ updSessions'[s] = new
      /\ \A t \in Sessions \ {s} : updSessions'[t] = updSessions[t]
  BY SessionTurns
<1>2. UNCHANGED <<updCopy, updRecord, updContainers, updCompose, updFailed>>
  BY DEF updDisk, updHost
<1>3. UpdTypeOK'
  BY <1>1, <1>2 DEF UpdInv, UpdTypeOK
<1>4. ASSUME NEW p \in Packages PROVE KnownOf(p)'
  <2>1. KnownOf(p) /\ updLocal[p] \in Nat /\ updLocal'[p] \in Nat /\ updRecord[p] \in Nat
    BY DEF UpdInv, Known, UpdTypeOK
  <2> QED BY <1>2, <2>1 DEF KnownOf
<1>5. ASSUME NEW t \in Sessions PROVE KnownTo(t)'
  <2>1. CASE t = s
    BY <1>1, <2>1 DEF KnownTo, Pkg
  <2>2. CASE t # s
    <3>1. updSessions'[t] = updSessions[t] /\ KnownTo(t) /\ Pkg(t) \in Packages
      BY <1>1, <2>2 DEF UpdInv, Known, UpdTypeOK, Session, Pkg
    <3>2. 1 .. updLocal[Pkg(t)] \subseteq 1 .. updLocal'[Pkg(t)]
      BY <3>1 DEF UpdInv, UpdTypeOK
    <3> QED BY <3>1, <3>2 DEF KnownTo, Pkg
  <2> QED BY <2>1, <2>2
<1>6. ASSUME NEW p \in Packages, p \notin updDoubtful PROVE Trusted(p)'
  <2>1. \A t \in Sessions :
          Pkg(t)' = p /\ updSessions'[t].at \in Updating => updSessions'[t] = updSessions[t]
    BY <1>1
  <2> QED BY <1>2, <1>6, <2>1, PackageKept
<1> QED BY <1>3, <1>4, <1>5, <1>6 DEF UpdInv, Known, Trustworthy

LEMMA NextPackageTurns ==
  ASSUME UpdInv, NEW s \in Sessions, NextPackage(s)
  PROVE  \E new \in Session : /\ updSessions' = [updSessions EXCEPT ![s] = new]
                              /\ new.at \in {"idle", "versions"}
<1>1. Pkg(s) \in Packages
  BY DEF UpdInv, UpdTypeOK, Session, Pkg
<1>2. Pkg(s) + 1 < PackageCount => Pkg(s) + 1 \in Packages
  BY <1>1, PackageCountAssumption DEF Packages
<1>3. CASE Pkg(s) + 1 < PackageCount
  <2> DEFINE new == [Idle EXCEPT !.at = "versions", !.pkg = Pkg(s) + 1]
  <2>1. updSessions' = [updSessions EXCEPT ![s] = new]
    BY <1>3 DEF NextPackage
  <2>2. new \in Session /\ new.at = "versions"
    BY <1>2, <1>3, IdleIsSession
  <2> QED BY <2>1, <2>2
<1>4. CASE ~(Pkg(s) + 1 < PackageCount)
  BY <1>4, IdleIsSession DEF NextPackage
<1> QED BY <1>3, <1>4

LEMMA VersionsStep ==
  ASSUME UpdInv, NEW s \in Sessions, Versions(s)
  PROVE  UpdInv'
<1> DEFINE p == Pkg(s)
<1>1. updSessions[s] \in Session /\ p \in Packages /\ updSessions[s].at \in UpdPlaces
  BY DEF UpdInv, UpdTypeOK, Session, Pkg
<1>3. UNCHANGED <<updTags, updDisk, updHost, updDoubtful>>
  BY DEF Versions, Begin, CheckVersions, Fetch, FetchFails, AddVersion, Show, updList
<1>4. \A q \in Packages : /\ updLocal[q] \in Nat /\ updTags[q] \in Nat
                          /\ updVersions[q] \subseteq 1 .. updLocal[q]
                          /\ updLocal[q] <= updTags[q]
  BY DEF UpdInv, UpdTypeOK, Known, KnownOf
<1>5. updLocal \in [Packages -> Nat] /\ updVersions \in [Packages -> SUBSET Nat]
  BY DEF UpdInv, UpdTypeOK
\* The steps that learn nothing.
<1>6. ASSUME NEW new \in Session, updSessions' = [updSessions EXCEPT ![s] = new],
             new.at \in {"idle", "versions", "fetch", "listed"},
             UNCHANGED <<updLocal, updVersions>>
      PROVE  UpdInv'
  <2>1. \A q \in Packages : /\ updLocal[q] <= updLocal'[q] /\ updLocal'[q] <= updTags[q]
                            /\ updVersions'[q] \subseteq 1 .. updLocal'[q]
    BY <1>4, <1>6
  <2>2. new.at \notin Updating /\ new.at # "fill"
    BY <1>6 DEF Updating
  <2> QED BY <1>3, <1>5, <1>6, <2>1, <2>2, SessionStep
<1>7. ASSUME NEW at \in {"versions", "fetch", "listed"}, Goto(s, at),
             UNCHANGED <<updLocal, updVersions>>
      PROVE  UpdInv'
  <2> DEFINE new == [updSessions[s] EXCEPT !.at = at]
  <2>1. new \in Session /\ new.at = at
    BY <1>1 DEF Session, UpdPlaces
  <2>2. updSessions' = [updSessions EXCEPT ![s] = new]
    BY <1>7 DEF Goto
  <2> HIDE DEF new
  <2> QED BY <1>6, <1>7, <2>1, <2>2
<1>8. CASE Begin(s)
  BY <1>7, <1>8 DEF Begin, updList
<1>9. CASE CheckVersions(s)
  BY <1>7, <1>9 DEF CheckVersions
<1>13. CASE Show(s)
  <2>1. NextPackage(s) /\ UNCHANGED <<updLocal, updVersions>>
    BY <1>13 DEF Show, updList
  <2> QED BY <1>6, <2>1, NextPackageTurns
<1>10. CASE FetchFails(s)
  BY <1>6, <1>10, IdleIsSession DEF FetchFails, GiveUp, updList
<1>11. CASE Fetch(s)
  <2> DEFINE new == [updSessions[s] EXCEPT !.at = "fill", !.left = 1 .. updTags[p]]
  <2>1. /\ updLocal' = [updLocal EXCEPT ![p] = updTags[p]]
        /\ updVersions' = [updVersions EXCEPT ![p] = {}]
        /\ updSessions' = [updSessions EXCEPT ![s] = new]
    BY <1>11 DEF Fetch
  <2>2. new \in Session /\ new.at = "fill" /\ new.left = 1 .. updTags[p] /\ new.pkg = p
    <3>1. 1 .. updTags[p] \in SUBSET Nat
      BY <1>1, <1>4
    <3> QED BY <1>1, <3>1 DEF Session, UpdPlaces, Pkg
  <2>3. /\ updLocal' \in [Packages -> Nat] /\ updVersions' \in [Packages -> SUBSET Nat]
        /\ updLocal'[p] = updTags[p]
    BY <1>1, <1>4, <1>5, <2>1
  <2>4. \A q \in Packages : /\ updLocal[q] <= updLocal'[q] /\ updLocal'[q] <= updTags[q]
                            /\ updVersions'[q] \subseteq 1 .. updLocal'[q]
    <3> TAKE q \in Packages
    <3>1. CASE q = p
      BY <1>4, <1>5, <2>1, <2>3, <3>1
    <3>2. CASE q # p
      BY <1>4, <1>5, <2>1, <3>2
    <3> QED BY <3>1, <3>2
  <2> HIDE DEF new
  <2> QED BY <1>3, <2>1, <2>2, <2>3, <2>4, SessionStep DEF Updating
<1>12. CASE AddVersion(s)
  <2>1. updSessions[s].at = "fill" /\ UNCHANGED updLocal
    BY <1>12 DEF AddVersion, At
  <2>2. CASE updSessions[s].left = {}
    BY <1>7, <1>12, <2>1, <2>2 DEF AddVersion
  <2>3. CASE updSessions[s].left # {}
    <3>1. PICK v \in updSessions[s].left :
            /\ updVersions' = [updVersions EXCEPT ![p] = @ \union {v}] \/ UNCHANGED updVersions
            /\ updSessions' = [updSessions EXCEPT ![s].left = @ \ {v}]
      BY <1>12, <2>3 DEF AddVersion
    <3> DEFINE new == [updSessions[s] EXCEPT !.left = updSessions[s].left \ {v}]
    <3>2. updSessions' = [updSessions EXCEPT ![s] = new]
      BY <3>1
    <3>3. updSessions[s].left \subseteq 1 .. updLocal[p]
      BY <2>1 DEF UpdInv, Known, KnownTo
    <3>4. /\ new \in Session /\ new.at = "fill" /\ new.left \subseteq 1 .. updLocal[p]
          /\ new.pkg = p
      BY <1>1, <2>1, <3>3 DEF Session, Pkg
    <3>5. /\ updVersions' \in [Packages -> SUBSET Nat]
          /\ \A q \in Packages : updVersions'[q] \subseteq 1 .. updLocal[q]
      BY <1>1, <1>4, <1>5, <3>1, <3>3
    <3>6. \A q \in Packages : updLocal[q] <= updLocal[q] /\ updLocal[q] <= updTags[q]
      BY <1>4
    <3> HIDE DEF new
    <3> QED BY <1>3, <1>5, <2>1, <3>2, <3>4, <3>5, <3>6, SessionStep DEF Updating
  <2> QED BY <2>2, <2>3
<1> QED BY <1>8, <1>9, <1>10, <1>11, <1>12, <1>13 DEF Versions

LEMMA GivingUpStep ==
  ASSUME UpdInv, NEW s \in Sessions, DecideThrows(s) \/ UpdateFails(s)
  PROVE  UpdInv'
<1>1. /\ updSessions' = [updSessions EXCEPT ![s] = Idle]
      /\ UNCHANGED <<updTags, updLocal, updVersions, updDisk, updHost, updDoubtful>>
  BY DEF DecideThrows, UpdateFails, GiveUp, updList
<1>2. /\ updLocal \in [Packages -> Nat] /\ updVersions \in [Packages -> SUBSET Nat]
      /\ \A p \in Packages : /\ updLocal[p] <= updLocal[p] /\ updLocal[p] <= updTags[p]
                              /\ updVersions[p] \subseteq 1 .. updLocal[p]
  BY DEF UpdInv, UpdTypeOK, Known, KnownOf
<1> QED BY <1>1, <1>2, IdleIsSession, SessionStep DEF Updating
\* A decision for nothing new, or for the newest version there is.
LEMMA DecideStep ==
  ASSUME UpdInv, NEW s \in Sessions, Decide(s)
  PROVE  UpdInv'
<1>0. PICK p \in Packages : p = Pkg(s)
  BY DEF UpdInv, UpdTypeOK, Session, Pkg
<1> USE <1>0
<1>1. PICK latest \in updVersions[p] :
        (\A v \in updVersions[p] : v <= latest) /\ DecideOn(s, latest)
  BY DEF Decide
<1>2. /\ updSessions[s] \in Session /\ p \in Packages /\ updSessions[s].at = "listed"
      /\ UNCHANGED <<updTags, updLocal, updVersions, updDisk, updHost>>
  BY DEF Decide, At, UpdInv, UpdTypeOK, Session, Pkg, updList
<1>3. /\ updLocal[p] \in Nat /\ latest \in 1 .. updLocal[p]
      /\ updRecord[p] \in Nat /\ updRecord[p] <= updLocal[p]
  BY <1>1, <1>2 DEF UpdInv, UpdTypeOK, Known, KnownOf
<1>4. UNCHANGED <<updCopy, updRecord, updContainers, updCompose, updFailed>>
  BY <1>2 DEF updDisk, updHost
<1>5. CASE updRecord[p] = latest
  <2>1. NextPackage(s) /\ UNCHANGED updDoubtful
    BY <1>1, <1>5 DEF DecideOn
  <2>2. PICK new \in Session : /\ updSessions' = [updSessions EXCEPT ![s] = new]
                               /\ new.at \in {"idle", "versions"}
    BY <2>1, NextPackageTurns
  <2>3. /\ updLocal \in [Packages -> Nat] /\ updVersions \in [Packages -> SUBSET Nat]
        /\ \A q \in Packages : /\ updLocal[q] <= updLocal[q] /\ updLocal[q] <= updTags[q]
                                /\ updVersions[q] \subseteq 1 .. updLocal[q]
    BY DEF UpdInv, UpdTypeOK, Known, KnownOf
  <2>4. new.at \notin Updating /\ new.at # "fill"
    BY <2>2 DEF Updating
  <2> QED BY <1>2, <2>1, <2>2, <2>3, <2>4, SessionStep
<1>6. CASE updRecord[p] # latest
  <2> DEFINE new == [updSessions[s] EXCEPT !.at = "checkout", !.latest = latest]
  <2>1. updSessions' = [updSessions EXCEPT ![s] = new] /\ updDoubtful' = Doubts(p)
    BY <1>1, <1>6 DEF DecideOn
  <2>2. /\ new \in Session /\ new.at = "checkout" /\ new.latest = latest /\ new.pkg = p
    <3>1. latest \in Nat
      BY <1>3
    <3> QED BY <1>2, <3>1 DEF Session, UpdPlaces, Pkg
  <2> HIDE DEF new
  <2>3. /\ updSessions' \in [Sessions -> Session] /\ updSessions'[s] = new
        /\ \A t \in Sessions \ {s} : updSessions'[t] = updSessions[t]
    BY <2>1, <2>2, SessionTurns
  <2>4. UpdTypeOK'
    BY <1>2, <1>4, <2>3 DEF UpdInv, UpdTypeOK
  <2>5. Known'
    <3>1. \A q \in Packages : KnownOf(q)'
      BY <1>2, <1>4 DEF UpdInv, Known, KnownOf
    <3>2. ASSUME NEW t \in Sessions PROVE KnownTo(t)'
      <4>1. CASE t = s
        BY <1>2, <1>3, <2>2, <2>3, <4>1 DEF KnownTo, Pkg
      <4>2. CASE t # s
        BY <1>2, <2>3, <4>2 DEF UpdInv, Known, KnownTo, Pkg
      <4> QED BY <4>1, <4>2
    <3> QED BY <3>1, <3>2 DEF Known
  <2>6. ASSUME NEW q \in Packages, q \notin updDoubtful', q # p PROVE Trusted(q)'
    <3>1. q \notin updDoubtful
      BY <2>1, <2>6 DEF Doubts
    <3>2. \A t \in Sessions :
            Pkg(t)' = q /\ updSessions'[t].at \in Updating => updSessions'[t] = updSessions[t]
      BY <2>2, <2>3, <2>6 DEF Pkg
    <3>3. updLocal'[q] \in Nat /\ updLocal[q] <= updLocal'[q]
      BY <1>2 DEF UpdInv, UpdTypeOK
    <3> QED BY <1>4, <3>1, <3>2, <3>3, PackageKept
  <2>7. ASSUME p \notin updDoubtful' PROVE Trusted(p)'
    <3>1. /\ updVersions[p] = 1 .. updLocal[p] /\ Working(p) = {}
          /\ p \in updDoubtful => UnderWay(p) = {}
      BY <2>1, <2>7 DEF Doubts, Incomplete
    <3>2. latest = updLocal[p]
      BY <1>1, <1>3, <3>1
    <3>3. updRecord[p] < latest
      BY <1>3, <1>6, <3>2
    <3>4. RecordHolds(p)'
      BY <1>2, <1>3, <1>4, <3>2, <3>3 DEF RecordHolds
    <3>5. Working(p)' \subseteq {s} /\ \A t \in Sessions \ {s} : t \notin Working(p)'
      BY <2>3, <3>1 DEF Working, Pkg
    <3>6. ASSUME NEW t \in Sessions PROVE OnTheWay(t, p)'
      <4>1. CASE t = s
        BY <1>4, <2>2, <2>3, <3>3, <4>1 DEF OnTheWay
      <4>2. CASE t # s
        BY <3>5, <4>2 DEF OnTheWay, Working, Updating
      <4> QED BY <4>1, <4>2
    <3>7. UnderWay(p)' = UnderWay(p)
      BY <1>4 DEF UnderWay
    <3>8. \A c, d \in UnderWay(p) : c = d
      BY <1>2, <3>1 DEF UpdInv, Trustworthy, Trusted, OneAtATime
    <3>9. OneAtATime(p)'
      BY <3>5, <3>7, <3>8 DEF OneAtATime
    <3> QED BY <3>4, <3>6, <3>9 DEF Trusted
  <2> QED BY <2>4, <2>5, <2>6, <2>7 DEF UpdInv, Trustworthy
<1> QED BY <1>5, <1>6

\* The next place of a session that updates, and what that leaves as it was.
LEMMA SessionFurther ==
  ASSUME UpdInv, NEW s \in Sessions, NEW at \in {"compose", "record"},
         updSessions[s].at \in Updating, Goto(s, at),
         UNCHANGED <<updTags, updLocal, updVersions, updRecord>>
  PROVE  /\ updSessions' \in [Sessions -> Session] /\ Known'
         /\ updSessions'[s].at = at /\ updSessions'[s].latest = updSessions[s].latest
         /\ \A t \in Sessions : Pkg(t)' = Pkg(t)
         /\ \A t \in Sessions \ {s} : updSessions'[t] = updSessions[t]
         /\ \A p \in Packages : Working(p)' = Working(p)
<1> DEFINE new == [updSessions[s] EXCEPT !.at = at]
<1>1. updSessions[s] \in Session /\ updSessions' = [updSessions EXCEPT ![s] = new]
  BY DEF UpdInv, UpdTypeOK, Goto
<1>2. /\ new \in Session /\ new.at = at /\ new.latest = updSessions[s].latest
      /\ new.pkg = Pkg(s)
  BY <1>1 DEF Session, UpdPlaces, Pkg
<1> HIDE DEF new
<1>3. /\ updSessions' \in [Sessions -> Session] /\ updSessions'[s] = new
      /\ \A t \in Sessions \ {s} : updSessions'[t] = updSessions[t]
  BY <1>1, <1>2, SessionTurns
<1>4. \A t \in Sessions : Pkg(t)' = Pkg(t)
  BY <1>2, <1>3 DEF Pkg
<1>5. \A t \in Sessions : updSessions'[t].at \in Updating <=> updSessions[t].at \in Updating
  BY <1>2, <1>3 DEF Updating
<1>6. \A p \in Packages : Working(p)' = Working(p)
  BY <1>4, <1>5 DEF Working, Updating
<1>7. Known'
  <2>1. \A p \in Packages : KnownOf(p)'
    BY DEF UpdInv, Known, KnownOf
  <2>2. ASSUME NEW t \in Sessions PROVE KnownTo(t)'
    <3>1. KnownTo(t)
      BY DEF UpdInv, Known
    <3>2. CASE t = s
      BY <1>2, <1>3, <1>4, <3>1, <3>2 DEF KnownTo
    <3>3. CASE t # s
      BY <1>3, <1>4, <3>1, <3>3 DEF KnownTo
    <3> QED BY <3>2, <3>3
  <2> QED BY <2>1, <2>2 DEF Known
<1> QED BY <1>2, <1>3, <1>4, <1>6, <1>7

LEMMA CheckoutStep ==
  ASSUME UpdInv, NEW s \in Sessions, Checkout(s)
  PROVE  UpdInv'
<1>0. PICK p \in Packages : p = Pkg(s)
  BY DEF UpdInv, UpdTypeOK, Session, Pkg
<1> USE <1>0
<1> DEFINE latest == updSessions[s].latest
<1>1. /\ updSessions[s] \in Session /\ p \in Packages /\ latest \in Nat
      /\ updSessions[s].at = "checkout" /\ updSessions[s].at \in Updating
  BY DEF UpdInv, UpdTypeOK, Session, Pkg, Checkout, At, Updating
<1>2. /\ updCopy' = [updCopy EXCEPT ![p] = latest]
      /\ Goto(s, "compose")
      /\ UNCHANGED <<updTags, updLocal, updVersions, updRecord, updContainers, updCompose,
                     updFailed, updDoubtful>>
  BY DEF Checkout, updList, updHost
<1>3. /\ updSessions' \in [Sessions -> Session] /\ Known'
      /\ updSessions'[s].at = "compose" /\ updSessions'[s].latest = latest
      /\ \A t \in Sessions : Pkg(t)' = Pkg(t)
      /\ \A t \in Sessions \ {s} : updSessions'[t] = updSessions[t]
      /\ \A q \in Packages : Working(q)' = Working(q)
  BY <1>1, <1>2, SessionFurther
<1>4. updCopy' \in [Packages -> Nat] /\ updCopy'[p] = latest
      /\ \A q \in Packages \ {p} : updCopy'[q] = updCopy[q]
  BY <1>1, <1>2 DEF UpdInv, UpdTypeOK
<1>5. UpdTypeOK'
  BY <1>2, <1>3, <1>4 DEF UpdInv, UpdTypeOK
<1>6. ASSUME NEW q \in Packages, q \notin updDoubtful, q # p PROVE Trusted(q)'
  <2>1. \A t \in Sessions :
          Pkg(t)' = q /\ updSessions'[t].at \in Updating => updSessions'[t] = updSessions[t]
    BY <1>3, <1>6
  <2>2. updLocal'[q] \in Nat /\ updLocal[q] <= updLocal'[q]
    BY <1>2 DEF UpdInv, UpdTypeOK
  <2> QED BY <1>2, <1>4, <1>6, <2>1, <2>2, PackageKept
<1>7. ASSUME p \notin updDoubtful PROVE Trusted(p)'
  <2>1. Trusted(p) /\ s \in Working(p)
    BY <1>1, <1>7 DEF UpdInv, Trustworthy, Working
  <2>2. /\ latest <= updLocal[p] /\ updLocal[p] \in Nat /\ updRecord[p] \in Nat
        /\ updRecord[p] < latest
    BY <1>1, <2>1 DEF UpdInv, Known, KnownTo, UpdTypeOK, Trusted, OnTheWay
  <2>3. RecordHolds(p)'
    BY <1>1, <1>2, <2>2 DEF RecordHolds
  <2>4. ASSUME NEW t \in Sessions PROVE OnTheWay(t, p)'
    <3>1. CASE t = s
      BY <1>2, <1>3, <1>4, <2>2, <3>1 DEF OnTheWay
    <3>2. CASE t # s
      <4>1. t \notin Working(p)
        BY <2>1, <3>2 DEF Trusted, OneAtATime
      <4> QED BY <1>3, <4>1 DEF OnTheWay, Working, Updating
    <3> QED BY <3>1, <3>2
  <2>5. UnderWay(p)' = UnderWay(p)
    BY <1>2 DEF UnderWay
  <2>6. OneAtATime(p)'
    BY <1>1, <1>3, <2>1, <2>5 DEF Trusted, OneAtATime
  <2> QED BY <2>3, <2>4, <2>6 DEF Trusted
<1> QED BY <1>2, <1>3, <1>5, <1>6, <1>7 DEF UpdInv, Trustworthy

LEMMA RunComposeStep ==
  ASSUME UpdInv, NEW s \in Sessions, RunCompose(s)
  PROVE  UpdInv'
<1>0. PICK p \in Packages : p = Pkg(s)
  BY DEF UpdInv, UpdTypeOK, Session, Pkg
<1> USE <1>0
<1>1. PICK c \in Composes :
        /\ updCompose[c].at = "none"
        /\ updCompose' = [updCompose EXCEPT ![c] = [at |-> "starting", pkg |-> p, files |-> 0]]
  BY DEF RunCompose
<1>2. /\ updSessions[s] \in Session /\ p \in Packages
      /\ updSessions[s].at = "compose" /\ updSessions[s].at \in Updating
  BY DEF UpdInv, UpdTypeOK, Session, Pkg, RunCompose, At, Updating
<1>3. /\ Goto(s, "record")
      /\ updDoubtful' = IF UnderWay(p) = {} THEN updDoubtful ELSE updDoubtful \union {p}
      /\ UNCHANGED <<updTags, updLocal, updVersions, updCopy, updRecord, updContainers, updFailed>>
  BY DEF RunCompose, updList, updDisk
<1>4. /\ updSessions' \in [Sessions -> Session] /\ Known'
      /\ updSessions'[s].at = "record" /\ updSessions'[s].latest = updSessions[s].latest
      /\ \A t \in Sessions : Pkg(t)' = Pkg(t)
      /\ \A t \in Sessions \ {s} : updSessions'[t] = updSessions[t]
      /\ \A q \in Packages : Working(q)' = Working(q)
  BY <1>2, <1>3, SessionFurther
<1>5. /\ updCompose' \in [Composes -> Compose]
      /\ updCompose'[c].at = "starting" /\ updCompose'[c].pkg = p
      /\ \A d \in Composes \ {c} : updCompose'[d] = updCompose[d]
  <2>1. [at |-> "starting", pkg |-> p, files |-> 0] \in Compose
    BY <1>2 DEF Compose
  <2> QED BY <1>1, <2>1 DEF UpdInv, UpdTypeOK
<1>6. UpdTypeOK'
  BY <1>3, <1>4, <1>5 DEF UpdInv, UpdTypeOK
<1>7. ASSUME NEW q \in Packages, q \notin updDoubtful', q # p PROVE Trusted(q)'
  <2>1. \A t \in Sessions :
          Pkg(t)' = q /\ updSessions'[t].at \in Updating => updSessions'[t] = updSessions[t]
    BY <1>4, <1>7
  <2>2. updLocal'[q] \in Nat /\ updLocal[q] <= updLocal'[q]
    BY <1>3 DEF UpdInv, UpdTypeOK
  <2>3. \A d \in Composes : \/ updCompose'[d] = updCompose[d]
                            \/ d \notin UnderWay(q) /\ d \notin UnderWay(q)'
    BY <1>1, <1>5, <1>7 DEF UnderWay
  <2>4. q \notin updDoubtful
    BY <1>3, <1>7
  <2> QED BY <1>3, <1>7, <2>1, <2>2, <2>3, <2>4, PackageKept
<1>8. ASSUME p \notin updDoubtful' PROVE Trusted(p)'
  <2>1. UnderWay(p) = {} /\ p \notin updDoubtful
    BY <1>3, <1>8
  <2>2. Trusted(p) /\ s \in Working(p)
    BY <1>2, <2>1 DEF UpdInv, Trustworthy, Working
  <2>3. UnderWay(p)' = {c}
    BY <1>1, <1>5, <2>1 DEF UnderWay
  <2>4. /\ updSessions[s].latest \in Nat /\ updSessions[s].latest <= updLocal[p]
        /\ updLocal[p] \in Nat /\ updRecord[p] \in Nat
        /\ updRecord[p] < updSessions[s].latest /\ updCopy[p] = updSessions[s].latest
    BY <1>2, <2>2 DEF UpdInv, Known, KnownTo, UpdTypeOK, Trusted, OnTheWay, Session
  <2>5. RecordHolds(p)'
    BY <1>3, <2>4 DEF RecordHolds
  <2>6. ASSUME NEW t \in Sessions PROVE OnTheWay(t, p)'
    <3>1. CASE t = s
      <4>2. \A v : Runs(p, v)'
        BY <1>5, <2>3 DEF Runs
      <4> QED BY <1>3, <1>4, <2>4, <3>1, <4>2 DEF OnTheWay
    <3>2. CASE t # s
      <4>1. t \notin Working(p)
        BY <2>2, <3>2 DEF Trusted, OneAtATime
      <4> QED BY <1>4, <4>1 DEF OnTheWay, Working, Updating
    <3> QED BY <3>1, <3>2
  <2>7. OneAtATime(p)'
    BY <1>2, <1>4, <2>2, <2>3 DEF Trusted, OneAtATime
  <2> QED BY <2>5, <2>6, <2>7 DEF Trusted
<1> QED BY <1>4, <1>6, <1>7, <1>8 DEF UpdInv, Trustworthy

LEMMA RecordStep ==
  ASSUME UpdInv, NEW s \in Sessions, Record(s)
  PROVE  UpdInv' /\ (Pkg(s) \notin updDoubtful => updRecord[Pkg(s)] < updSessions[s].latest)
<1>0. PICK p \in Packages : p = Pkg(s)
  BY DEF UpdInv, UpdTypeOK, Session, Pkg
<1> USE <1>0
<1> DEFINE latest == updSessions[s].latest
<1>1. /\ updSessions[s] \in Session /\ p \in Packages /\ latest \in Nat
      /\ updSessions[s].at = "record" /\ updSessions[s].at \in Updating
  BY DEF UpdInv, UpdTypeOK, Session, Pkg, Record, At, Updating
<1>2. /\ updRecord' = [updRecord EXCEPT ![p] = latest]
      /\ NextPackage(s)
      /\ UNCHANGED <<updTags, updLocal, updVersions, updCopy, updContainers, updCompose,
                     updFailed, updDoubtful>>
  BY DEF Record, updList, updHost
<1>3. PICK new \in Session : /\ updSessions' = [updSessions EXCEPT ![s] = new]
                             /\ new.at \in {"idle", "versions"}
  BY <1>2, NextPackageTurns
<1>4. /\ updSessions' \in [Sessions -> Session] /\ updSessions'[s] = new
      /\ \A t \in Sessions \ {s} : updSessions'[t] = updSessions[t]
      /\ new.at \notin Updating /\ new.at # "fill"
  BY <1>3, SessionTurns DEF Updating
<1>5. /\ updRecord' \in [Packages -> Nat] /\ updRecord'[p] = latest
      /\ \A q \in Packages \ {p} : updRecord'[q] = updRecord[q]
  BY <1>1, <1>2 DEF UpdInv, UpdTypeOK
<1>6. UpdTypeOK'
  BY <1>2, <1>4, <1>5 DEF UpdInv, UpdTypeOK
<1>7. latest \in 1 .. updLocal[p]
  BY <1>1 DEF UpdInv, Known, KnownTo
<1>8. Known'
  <2>1. ASSUME NEW q \in Packages PROVE KnownOf(q)'
    <3>1. KnownOf(q) /\ updLocal[q] \in Nat
      BY DEF UpdInv, Known, UpdTypeOK
    <3> QED BY <1>2, <1>5, <1>7, <3>1 DEF KnownOf
  <2>2. \A t \in Sessions : KnownTo(t)'
    BY <1>2, <1>4 DEF UpdInv, Known, KnownTo, Pkg
  <2> QED BY <2>1, <2>2 DEF Known
<1>9. p \notin updDoubtful =>
        Trusted(p) /\ updRecord[p] < latest /\ updCopy[p] = latest /\ Runs(p, latest)
  BY <1>1 DEF UpdInv, Trustworthy, Trusted, OnTheWay
<1>10. ASSUME NEW q \in Packages, q \notin updDoubtful, q # p PROVE Trusted(q)'
  <2>1. \A t \in Sessions :
          Pkg(t)' = q /\ updSessions'[t].at \in Updating => updSessions'[t] = updSessions[t]
    BY <1>4
  <2>2. updLocal'[q] \in Nat /\ updLocal[q] <= updLocal'[q]
    BY <1>2 DEF UpdInv, UpdTypeOK
  <2> QED BY <1>2, <1>5, <1>10, <2>1, <2>2, PackageKept
<1>11. ASSUME p \notin updDoubtful PROVE Trusted(p)'
  <2>1. UnderWay(p)' = UnderWay(p)
    BY <1>2 DEF UnderWay
  <2>2. \A v : Runs(p, v) => Runs(p, v)'
    BY <1>2, <2>1 DEF Runs
  <2>3. RecordHolds(p)'
    BY <1>2, <1>5, <1>9, <1>11, <2>2 DEF RecordHolds
  <2>4. s \in Working(p) /\ s \notin Working(p)'
    BY <1>1, <1>4 DEF Working, Updating
  <2>5. \A t \in Sessions : t \notin Working(p)'
    BY <1>4, <1>9, <1>11, <2>4 DEF Trusted, OneAtATime, Working, Pkg
  <2>6. \A t \in Sessions : OnTheWay(t, p)'
    BY <2>5 DEF OnTheWay, Working, Updating
  <2>7. OneAtATime(p)'
    BY <1>9, <1>11, <2>1, <2>5 DEF Trusted, OneAtATime, Working
  <2> QED BY <2>3, <2>6, <2>7 DEF Trusted
<1> QED BY <1>2, <1>6, <1>8, <1>9, <1>10, <1>11 DEF UpdInv, Trustworthy

LEMMA UpdStep ==
  ASSUME UpdInv, [UpdNext]_updVars
  PROVE  UpdInv'
<1>1. CASE UpdNext
  BY <1>1, UpdWorldStep, ComposeReadsStep, ComposeEndsStep, VersionsStep, GivingUpStep, DecideStep,
     CheckoutStep, RunComposeStep, RecordStep DEF UpdNext, Update
<1>2. CASE UNCHANGED updVars
  BY <1>2, UpdWorldStep
<1> QED BY <1>1, <1>2

LEMMA UpdInvariant == UpdSpec => []UpdInv
<1>1. UpdInv /\ [UpdNext]_updVars => UpdInv'
  BY UpdStep
<1> QED BY UpdInitHolds, <1>1, PTL DEF UpdSpec

\* For any number of packages, versions, composes and sessions that update or look:
\* the newest version in the record of a package whose last update met no other
\* one is checked out, and runs, is being started, or was tried in vain.
THEOREM RecordIsTrusted == UpdSpec => []RecordTrusted
<1>1. UpdInv => RecordTrusted
  BY DEF UpdInv, Trustworthy, Trusted, RecordHolds, RecordTrusted
<1> QED BY UpdInvariant, <1>1, PTL

\* Nor does such a package ever go back to an older version.
THEOREM OnlyDoubtfulGoesBack == UpdSpec => GoesBackIfDoubtful
<1> DEFINE Forward == \A p \in Packages : updRecord'[p] < updRecord[p] => p \in updDoubtful
<1>1. ASSUME UpdInv, UpdNext PROVE Forward
  <2> SUFFICES ASSUME NEW p \in Packages, p \notin updDoubtful
               PROVE  ~(updRecord'[p] < updRecord[p])
    OBVIOUS
  <2>1. updRecord[p] \in Nat /\ updRecord \in [Packages -> Nat]
    BY <1>1 DEF UpdInv, UpdTypeOK
  <2>2. CASE UNCHANGED updRecord
    BY <2>1, <2>2
  <2>3. ASSUME NEW s \in Sessions, Record(s) PROVE ~(updRecord'[p] < updRecord[p])
    <3>1. Pkg(s) \notin updDoubtful => updRecord[Pkg(s)] < updSessions[s].latest
      BY <1>1, <2>3, RecordStep
    <3>2. updRecord' = [updRecord EXCEPT ![Pkg(s)] = updSessions[s].latest]
      BY <2>3 DEF Record
    <3>3. updSessions[s].latest \in Nat
      BY <1>1 DEF UpdInv, UpdTypeOK, Session
    <3>4. CASE Pkg(s) = p
      BY <2>1, <3>1, <3>2, <3>3, <3>4
    <3>5. CASE Pkg(s) # p
      BY <2>1, <3>2, <3>5
    <3> QED BY <3>4, <3>5
  <2>4. (\E s \in Sessions : Record(s)) \/ UNCHANGED updRecord
    BY <1>1 DEF UpdNext, TagVersion, TenSecondsPass, ComposeReads, ComposeEnds, Restart, Versions,
       Begin, CheckVersions, Fetch, FetchFails, AddVersion, Show, Update, Decide, DecideThrows, Checkout,
       RunCompose, UpdateFails, updDisk
  <2> QED BY <2>2, <2>3, <2>4
<1>2. UpdInv /\ [UpdNext]_updVars => [Forward]_updVars
  BY <1>1
<1> QED BY UpdInvariant, <1>2, PTL DEF UpdSpec, GoesBackIfDoubtful

-----------------------------------------------------------------------------
(* SignalHub: a client is fed each value once, into the buffer that is     *)
(* being filled; a call of AggregateAvg that no swap has cut adds just     *)
(* that value, and one that was cut repeats a value once at the most.      *)

HubPlaces == {"out", "joining", "waiting", "exchanging", "writing", "leaving", "left"}
ChaserPlaces == {"resting", "dispatching", "choosing", "aggregated"}
Calling == {"choosing", "aggregated"}
Refs == {[read |-> 1, write |-> 2], [read |-> 2, write |-> 1]}

HubTypeOK ==
  /\ hubChannel \in Seq([signal : Signals, value : Values])
  /\ hubPipes \in [Signals -> SUBSET Clients]
  /\ hubChaser \in [at : ChaserPlaces, value : Nat, signal : Signals, todo : SUBSET Clients,
                    client : Clients \union {0}, target : 1 .. 2,
                    average : SUBSET Values, cut : BOOLEAN]
  /\ hubLoop \in [Clients -> [at : HubPlaces, signal : Signals]]
  /\ hubBuffers \in [Clients -> [1 .. 2 -> [Signals -> SUBSET Values]]]
  /\ hubRefs \in [Clients -> Refs]
  /\ hubWrites \in 0 .. MaxWrites
  /\ hubFed \in [Clients -> SUBSET Values]
  /\ hubReports \in [Clients -> [Values -> Nat]]
  /\ hubMissed \in [Clients -> SUBSET Values]
  /\ hubRaces \in [Clients -> Nat]

\* The values below this one were taken out of the channel, in their order.
Taken == hubWrites - Len(hubChannel)

ChannelInOrder ==
  /\ Len(hubChannel) <= hubWrites
  /\ \A i \in DOMAIN hubChannel : hubChannel[i].value = Taken + i - 1
  /\ \A c \in Clients : \A v \in hubFed[c] : v < Taken

\* The value in hand is yet to be fed to the clients that are left.
ValueInHand ==
  hubChaser.at # "resting" =>
    /\ hubChaser.value < Taken /\ hubChaser.value \in Values
    /\ \A c \in hubChaser.todo : hubChaser.value \notin hubFed[c]
    /\ hubChaser.at \in Calling =>
         /\ hubChaser.client \in Clients \ hubChaser.todo
         /\ hubChaser.value \notin hubFed[hubChaser.client]

\* What a call has read: without a cut, what is still there to be extended.
CallInHand ==
  LET c == hubChaser.client
  IN  /\ hubChaser.at \in Calling /\ ~hubChaser.cut => hubChaser.target = hubRefs[c].write
      /\ hubChaser.at = "aggregated" =>
           /\ hubChaser.average \subseteq hubFed[c] \union {hubChaser.value}
           /\ ~hubChaser.cut
                => hubChaser.average = hubBuffers[c][hubRefs[c].write][hubChaser.signal]
                                         \union {hubChaser.value}

In(c, b, v) == \E s \in Signals : v \in hubBuffers[c][b][s]
Filling(c, v) == IF In(c, hubRefs[c].write, v) THEN 1 ELSE 0
Sending(c, v) == IF In(c, hubRefs[c].read, v) THEN 1 ELSE 0
Missed(c, v) == IF v \in hubMissed[c] THEN 1 ELSE 0

\* A value that a client was not fed is nowhere.
UnfedNowhere(c) ==
  \A v \in Values \ hubFed[c] :
    ~In(c, 1, v) /\ ~In(c, 2, v) /\ hubReports[c][v] = 0 /\ v \notin hubMissed[c]

\* The messages that a value was or will be in.  After a tick, what is in the
\* buffer that was sent before counts as well.
CopiesBounded(c) ==
  \A v \in Values :
    hubReports[c][v] + Filling(c, v)
      + (IF hubLoop[c].at \in {"exchanging", "writing"} THEN Sending(c, v) ELSE 0)
    <= 1 + hubRaces[c]

\* As long as no call was cut, each value is in one place.
OnePlace(c) ==
  hubRaces[c] = 0 /\ hubLoop[c].at \notin {"leaving", "left"} =>
    /\ hubLoop[c].at = "exchanging" => \A v \in Values : ~In(c, hubRefs[c].read, v)
    /\ \A b \in 1 .. 2 : \A s, t \in Signals :
         \A v \in hubBuffers[c][b][s] \intersect hubBuffers[c][b][t] : s = t
    /\ \A v \in hubFed[c] :
         hubReports[c][v] + Filling(c, v) + Missed(c, v)
           + (IF hubLoop[c].at = "writing" THEN Sending(c, v) ELSE 0) = 1

PipeInv(c) == UnfedNowhere(c) /\ CopiesBounded(c) /\ OnePlace(c)

HubInv ==
  /\ HubTypeOK /\ ChannelInOrder /\ ValueInHand /\ CallInHand
  /\ \A c \in Clients : PipeInv(c)

-----------------------------------------------------------------------------
LEMMA SignalFacts == 0 \in Signals /\ Resting.at = "resting"
BY SignalCountAssumption DEF Signals, Resting

LEMMA HubInitHolds == HubInit => HubInv
<1> SUFFICES ASSUME HubInit PROVE HubInv
  OBVIOUS
<1>1. Resting \in [at : ChaserPlaces, value : Nat, signal : Signals, todo : SUBSET Clients,
                   client : Clients \union {0}, target : 1 .. 2,
                   average : SUBSET Values, cut : BOOLEAN]
  BY SignalFacts DEF Resting, ChaserPlaces
<1>2. /\ hubBuffers \in [Clients -> [1 .. 2 -> [Signals -> SUBSET Values]]]
      /\ hubRefs \in [Clients -> Refs]
      /\ hubLoop \in [Clients -> [at : HubPlaces, signal : Signals]]
      /\ hubReports \in [Clients -> [Values -> Nat]]
  BY SignalFacts DEF HubInit, Refs, HubPlaces
<1>3. HubTypeOK
  BY <1>1, <1>2, MaxWritesAssumption DEF HubInit, HubTypeOK
<1>4. ChannelInOrder /\ ValueInHand /\ CallInHand
  BY SignalFacts DEF HubInit, ChannelInOrder, Taken, ValueInHand, CallInHand, Calling
<1>5. ASSUME NEW c \in Clients PROVE PipeInv(c)
  <2>1. \A b \in 1 .. 2 : \A v : ~In(c, b, v)
    BY DEF HubInit, In
  <2>2. hubRefs[c].write \in 1 .. 2 /\ hubRefs[c].read \in 1 .. 2
    BY DEF HubInit
  <2>3. \A v : Filling(c, v) = 0
    BY <2>1, <2>2 DEF Filling
  <2>4. UnfedNowhere(c) /\ CopiesBounded(c)
    BY <2>1, <2>3 DEF HubInit, UnfedNowhere, CopiesBounded
  <2>5. OnePlace(c)
    BY DEF HubInit, OnePlace
  <2> QED BY <2>4, <2>5 DEF PipeInv
<1> QED BY <1>3, <1>4, <1>5 DEF HubInv

\* The numbers of the two buffers.
LEMMA TwoBuffers ==
  ASSUME HubTypeOK, NEW c \in Clients
  PROVE  /\ hubRefs[c].read \in 1 .. 2 /\ hubRefs[c].write \in 1 .. 2
         /\ hubRefs[c].read # hubRefs[c].write
         /\ \A b \in 1 .. 2 : b = hubRefs[c].read \/ b = hubRefs[c].write
BY DEF HubTypeOK, Refs

\* What a pipe's part of the invariant depends on.
LEMMA PipeKept ==
  ASSUME NEW c \in Clients, PipeInv(c),
         hubBuffers'[c] = hubBuffers[c], hubRefs'[c] = hubRefs[c], hubFed'[c] = hubFed[c],
         hubReports'[c] = hubReports[c], hubMissed'[c] = hubMissed[c],
         hubRaces'[c] = hubRaces[c], hubLoop'[c].at = hubLoop[c].at
  PROVE  PipeInv(c)'
BY DEF PipeInv, UnfedNowhere, CopiesBounded, OnePlace, In, Filling, Sending, Missed

LEMMA PipesKept ==
  ASSUME HubInv, UNCHANGED <<hubBuffers, hubRefs, hubFed, hubReports, hubMissed, hubRaces>>,
         \A c \in Clients : hubLoop'[c].at = hubLoop[c].at
  PROVE  \A c \in Clients : PipeInv(c)'
<1> SUFFICES ASSUME NEW c \in Clients PROVE PipeInv(c)'
  OBVIOUS
<1> QED BY PipeKept DEF HubInv

-----------------------------------------------------------------------------
LEMMA WriteSignalStep ==
  ASSUME HubInv, NEW s \in Signals, WriteSignal(s)
  PROVE  HubInv'
<1> DEFINE event == [signal |-> s, value |-> hubWrites]
<1>1. /\ hubWrites < MaxWrites /\ hubWrites' = hubWrites + 1
      /\ hubChannel' = Append(hubChannel, event)
      /\ UNCHANGED <<hubPipes, hubChaser, hubLoop, hubBuffers, hubRefs, hubFed, hubReports,
                     hubMissed, hubRaces>>
  BY DEF WriteSignal
<1>2. /\ hubWrites \in Values /\ hubWrites \in Nat /\ hubWrites + 1 \in 0 .. MaxWrites
      /\ hubChannel \in Seq([signal : Signals, value : Values])
  BY <1>1, MaxWritesAssumption DEF HubInv, HubTypeOK, Values
<1>3. event \in [signal : Signals, value : Values] /\ event.value = hubWrites
  BY <1>2
<1> HIDE DEF event
<1>4. /\ hubChannel' \in Seq([signal : Signals, value : Values])
      /\ Len(hubChannel) \in Nat /\ Len(hubChannel') = Len(hubChannel) + 1
      /\ DOMAIN hubChannel = 1 .. Len(hubChannel)
      /\ DOMAIN hubChannel' = 1 .. Len(hubChannel) + 1
      /\ \A i \in 1 .. Len(hubChannel) : hubChannel'[i] = hubChannel[i]
      /\ hubChannel'[Len(hubChannel) + 1] = event
  BY <1>1, <1>2, <1>3
<1>5. HubTypeOK'
  BY <1>1, <1>2, <1>4 DEF HubInv, HubTypeOK
<1>6. Taken' = Taken
  BY <1>1, <1>2, <1>4 DEF Taken
<1>7. ChannelInOrder'
  <2>1. \A i \in DOMAIN hubChannel' : hubChannel'[i].value = Taken + i - 1
    <3> SUFFICES ASSUME NEW i \in DOMAIN hubChannel'
                 PROVE  hubChannel'[i].value = Taken + i - 1
      OBVIOUS
    <3>1. CASE i \in 1 .. Len(hubChannel)
      BY <1>4, <3>1 DEF HubInv, ChannelInOrder
    <3>2. CASE i = Len(hubChannel) + 1
      BY <1>2, <1>3, <1>4, <3>2 DEF Taken
    <3> QED BY <1>4, <3>1, <3>2
  <2> QED BY <1>1, <1>2, <1>4, <1>6, <2>1 DEF HubInv, ChannelInOrder
<1>8. ValueInHand' /\ CallInHand'
  BY <1>1, <1>6 DEF HubInv, ValueInHand, CallInHand
<1>9. \A c \in Clients : PipeInv(c)'
  BY <1>1, PipesKept
<1> QED BY <1>5, <1>7, <1>8, <1>9 DEF HubInv

LEMMA ElementType ==
  ASSUME NEW S, NEW q \in Seq(S), NEW i \in DOMAIN q
  PROVE  q[i] \in S
OBVIOUS

LEMMA TakeValueStep ==
  ASSUME HubInv, TakeValue
  PROVE  HubInv'
<1> DEFINE event == Head(hubChannel)
<1>1. /\ hubChaser.at = "resting" /\ hubChannel # <<>>
      /\ hubChaser' = IF hubPipes[event.signal] = {} THEN Resting
                      ELSE [Resting EXCEPT !.at = "dispatching",
                                           !.value = event.value,
                                           !.signal = event.signal,
                                           !.todo = hubPipes[event.signal]]
      /\ hubChannel' = Tail(hubChannel)
      /\ UNCHANGED <<hubPipes, hubLoop, hubBuffers, hubRefs, hubWrites, hubFed, hubReports,
                     hubMissed, hubRaces>>
  BY DEF TakeValue, hubHistory
<1>2. hubChannel \in Seq([signal : Signals, value : Values]) /\ hubWrites \in Nat
  BY MaxWritesAssumption DEF HubInv, HubTypeOK
<1>3. /\ hubChannel' \in Seq([signal : Signals, value : Values])
      /\ Len(hubChannel) \in Nat /\ Len(hubChannel') = Len(hubChannel) - 1
      /\ 1 \in DOMAIN hubChannel /\ event = hubChannel[1]
      /\ DOMAIN hubChannel' = 1 .. Len(hubChannel) - 1
      /\ \A i \in 1 .. Len(hubChannel) - 1 : hubChannel'[i] = hubChannel[i + 1]
                                             /\ i + 1 \in DOMAIN hubChannel
  BY <1>1, <1>2
<1>4. event.signal \in Signals /\ event.value \in Values /\ event.value \in Nat
  <2>1. hubChannel[1] \in [signal : Signals, value : Values]
    <3> HIDE DEF event
    <3> QED BY <1>2, <1>3, ElementType
  <2>2. hubChannel[1].signal \in Signals /\ hubChannel[1].value \in Values
    BY <2>1
  <2>3. Values \subseteq Nat
    BY MaxWritesAssumption DEF Values
  <2> HIDE DEF event
  <2> QED BY <1>3, <2>2, <2>3
<1>5. event.value = Taken /\ Taken' = Taken + 1 /\ Taken \in Int
  BY <1>1, <1>2, <1>3 DEF HubInv, ChannelInOrder, Taken
<1> HIDE DEF event
<1>6. /\ hubChaser' \in [at : ChaserPlaces, value : Nat, signal : Signals,
                         todo : SUBSET Clients, client : Clients \union {0},
                         target : 1 .. 2, average : SUBSET Values, cut : BOOLEAN]
      /\ hubChaser'.at # "resting" => hubChaser'.at = "dispatching"
                                      /\ hubChaser'.value = event.value
      /\ hubChaser'.at \in {"resting", "dispatching"}
  <2>1. Resting \in [at : ChaserPlaces, value : Nat, signal : Signals, todo : SUBSET Clients,
                     client : Clients \union {0}, target : 1 .. 2,
                     average : SUBSET Values, cut : BOOLEAN]
    BY SignalFacts DEF Resting, ChaserPlaces
  <2>2. hubPipes[event.signal] \in SUBSET Clients
    BY <1>4 DEF HubInv, HubTypeOK
  <2> QED BY <1>1, <1>4, <2>1, <2>2, SignalFacts DEF ChaserPlaces
<1>7. HubTypeOK'
  BY <1>1, <1>3, <1>6 DEF HubInv, HubTypeOK
<1>8. \A c \in Clients : \A v \in hubFed[c] : v < Taken /\ v \in Nat
  BY DEF HubInv, HubTypeOK, ChannelInOrder, Values
<1>9. ChannelInOrder'
  <2>1. \A i \in DOMAIN hubChannel' : hubChannel'[i].value = Taken' + i - 1
    <3> SUFFICES ASSUME NEW i \in DOMAIN hubChannel'
                 PROVE  hubChannel'[i].value = Taken' + i - 1
      OBVIOUS
    <3>1. i \in Int /\ hubChannel[i + 1].value = Taken + (i + 1) - 1
      BY <1>3 DEF HubInv, ChannelInOrder
    <3> QED BY <1>3, <1>5, <3>1
  <2>2. \A c \in Clients : \A v \in hubFed'[c] : v < Taken'
    BY <1>1, <1>5, <1>8
  <2>3. Len(hubChannel') <= hubWrites'
    BY <1>1, <1>2, <1>3 DEF HubInv, ChannelInOrder
  <2> QED BY <2>1, <2>2, <2>3 DEF ChannelInOrder
<1>10. ValueInHand'
  <2>1. \A c \in Clients : event.value \notin hubFed[c]
    BY <1>5, <1>8
  <2>2. event.value < Taken'
    BY <1>5
  <2>3. hubChaser'.todo \subseteq Clients
    BY <1>6
  <2> QED BY <1>1, <1>4, <1>6, <2>1, <2>2, <2>3 DEF ValueInHand, Calling
<1>11. CallInHand'
  BY <1>6 DEF CallInHand, Calling
<1>12. \A c \in Clients : PipeInv(c)'
  BY <1>1, PipesKept
<1> QED BY <1>7, <1>9, <1>10, <1>11, <1>12 DEF HubInv

LEMMA ChooseTargetStep ==
  ASSUME HubInv, NEW c \in Clients, ChooseTarget(c)
  PROVE  HubInv'
<1>1. /\ hubChaser.at = "dispatching" /\ c \in hubChaser.todo
      /\ hubChaser' = [hubChaser EXCEPT !.at = "choosing", !.client = c,
                                        !.target = hubRefs[c].write, !.cut = FALSE,
                                        !.todo = hubChaser.todo \ {c}]
      /\ UNCHANGED <<hubChannel, hubPipes, hubLoop, hubBuffers, hubRefs, hubWrites, hubFed,
                     hubReports, hubMissed, hubRaces>>
  BY DEF ChooseTarget, hubHistory
<1>2. hubRefs[c].write \in 1 .. 2
  BY TwoBuffers DEF HubInv
<1>3. /\ hubChaser'.at = "choosing" /\ hubChaser'.client = c
      /\ hubChaser'.target = hubRefs[c].write /\ hubChaser'.todo = hubChaser.todo \ {c}
      /\ hubChaser'.value = hubChaser.value /\ hubChaser'.cut = FALSE
  BY <1>1 DEF HubInv, HubTypeOK
<1>4. HubTypeOK'
  BY <1>1, <1>2 DEF HubInv, HubTypeOK, ChaserPlaces
<1>5. Taken' = Taken
  BY <1>1 DEF Taken
<1>6. ChannelInOrder' /\ CallInHand'
  BY <1>1, <1>3, <1>5 DEF HubInv, ChannelInOrder, CallInHand
<1>7. ValueInHand'
  BY <1>1, <1>3, <1>5 DEF HubInv, ValueInHand, Calling
<1>8. \A d \in Clients : PipeInv(d)'
  BY <1>1, PipesKept
<1> QED BY <1>4, <1>6, <1>7, <1>8 DEF HubInv

LEMMA ReadAverageStep ==
  ASSUME HubInv, ReadAverage
  PROVE  HubInv'
<1> DEFINE c == hubChaser.client
           b == hubRefs[c].write
           average == hubBuffers[c][b][hubChaser.signal] \union {hubChaser.value}
<1>1. /\ hubChaser.at = "choosing"
      /\ hubChaser' = [hubChaser EXCEPT !.at = "aggregated", !.average = average]
      /\ UNCHANGED <<hubChannel, hubPipes, hubLoop, hubBuffers, hubRefs, hubWrites, hubFed,
                     hubReports, hubMissed, hubRaces>>
  BY DEF ReadAverage, hubHistory
<1>2. c \in Clients /\ hubChaser.value \in Values
  BY <1>1 DEF HubInv, ValueInHand, Calling
<1>3. b \in 1 .. 2 /\ hubChaser.signal \in Signals
  BY <1>2, TwoBuffers DEF HubInv, HubTypeOK
<1>4. hubBuffers[c][b][hubChaser.signal] \subseteq hubFed[c]
  <2>1. hubBuffers[c][b][hubChaser.signal] \in SUBSET Values
    BY <1>2, <1>3 DEF HubInv, HubTypeOK
  <2>2. \A v \in Values \ hubFed[c] : ~In(c, b, v)
    BY <1>2, <1>3 DEF HubInv, PipeInv, UnfedNowhere
  <2> QED BY <1>3, <2>1, <2>2 DEF In
<1>5. average \in SUBSET Values /\ average \subseteq hubFed[c] \union {hubChaser.value}
  BY <1>2, <1>4 DEF HubInv, HubTypeOK
<1>7. /\ hubChaser'.at = "aggregated" /\ hubChaser'.average = average
      /\ hubChaser'.client = c /\ hubChaser'.value = hubChaser.value
      /\ hubChaser'.todo = hubChaser.todo /\ hubChaser'.target = hubChaser.target
      /\ hubChaser'.signal = hubChaser.signal /\ hubChaser'.cut = hubChaser.cut
  <2> HIDE DEF average
  <2> QED BY <1>1 DEF HubInv, HubTypeOK
<1>8. HubTypeOK'
  <2> HIDE DEF average
  <2> QED BY <1>1, <1>5 DEF HubInv, HubTypeOK, ChaserPlaces
<1>9. Taken' = Taken
  BY <1>1 DEF Taken
<1>10. ChannelInOrder' /\ ValueInHand'
  BY <1>1, <1>7, <1>9 DEF HubInv, ChannelInOrder, ValueInHand, Calling
<1>11. CallInHand'
  BY <1>1, <1>5, <1>7 DEF HubInv, CallInHand, Calling
<1>12. \A d \in Clients : PipeInv(d)'
  BY <1>1, PipesKept
<1> QED BY <1>8, <1>10, <1>11, <1>12 DEF HubInv

\* A store outside every cut adds the value in hand to what was there, and a store
\* of a cut call puts back what the client was fed: one buffer changes in either.
LEMMA StoreFacts ==
  ASSUME HubInv, StoreAverage
  PROVE  LET c == hubChaser.client
             b == hubChaser.target
             x == hubChaser.value
         IN  /\ c \in Clients /\ b \in 1 .. 2 /\ hubChaser.signal \in Signals
             /\ x \in Values \ hubFed[c] /\ x < Taken
             /\ hubFed' = [hubFed EXCEPT ![c] = hubFed[c] \union {x}]
             /\ hubChaser.average \subseteq Values
             /\ hubChaser.average \subseteq hubFed[c] \union {x}
             /\ \A d \in Clients \ {c} : hubBuffers'[d] = hubBuffers[d]
             /\ hubBuffers'[c] = [hubBuffers[c] EXCEPT
                  ![b] = [hubBuffers[c][b] EXCEPT ![hubChaser.signal] = hubChaser.average]]
             /\ hubRaces' = IF hubChaser.cut
                              THEN [hubRaces EXCEPT ![c] = hubRaces[c] + 1] ELSE hubRaces
             /\ ~hubChaser.cut =>
                  /\ b = hubRefs[c].write
                  /\ hubChaser.average = hubBuffers[c][b][hubChaser.signal] \union {x}
             /\ UNCHANGED <<hubChannel, hubPipes, hubLoop, hubRefs, hubWrites, hubReports,
                            hubMissed>>
<1> DEFINE c == hubChaser.client
           b == hubChaser.target
           x == hubChaser.value
<1>1. /\ hubChaser.at = "aggregated"
      /\ hubBuffers' = [hubBuffers EXCEPT ![c][b][hubChaser.signal] = hubChaser.average]
      /\ hubFed' = [hubFed EXCEPT ![c] = hubFed[c] \union {x}]
      /\ hubRaces' = IF hubChaser.cut THEN [hubRaces EXCEPT ![c] = hubRaces[c] + 1]
                     ELSE hubRaces
      /\ UNCHANGED <<hubChannel, hubPipes, hubLoop, hubRefs, hubWrites, hubReports, hubMissed>>
  BY DEF StoreAverage
<1>2. c \in Clients /\ x \in Values \ hubFed[c] /\ x < Taken
  BY <1>1 DEF HubInv, ValueInHand, Calling
<1>3. b \in 1 .. 2 /\ hubChaser.signal \in Signals /\ hubChaser.average \subseteq Values
  BY DEF HubInv, HubTypeOK
<1>4. /\ hubChaser.average \subseteq hubFed[c] \union {x}
      /\ ~hubChaser.cut =>
           /\ b = hubRefs[c].write
           /\ hubChaser.average = hubBuffers[c][b][hubChaser.signal] \union {x}
  BY <1>1 DEF HubInv, CallInHand, Calling
<1>5. /\ \A d \in Clients \ {c} : hubBuffers'[d] = hubBuffers[d]
      /\ hubBuffers'[c] = [hubBuffers[c] EXCEPT
           ![b] = [hubBuffers[c][b] EXCEPT ![hubChaser.signal] = hubChaser.average]]
  <2>1. hubBuffers \in [Clients -> [1 .. 2 -> [Signals -> SUBSET Values]]]
    BY DEF HubInv, HubTypeOK
  <2> HIDE DEF c, b
  <2> QED BY <1>1, <1>2, <1>3, <2>1
<1> QED BY <1>1, <1>2, <1>3, <1>4, <1>5

LEMMA StoreTypes ==
  ASSUME HubInv, StoreAverage
  PROVE  /\ HubTypeOK' /\ ChannelInOrder' /\ ValueInHand' /\ CallInHand'
<1> DEFINE c == hubChaser.client
           x == hubChaser.value
<1>1. /\ c \in Clients /\ x \in Values \ hubFed[c] /\ x < Taken
      /\ hubFed' = [hubFed EXCEPT ![c] = hubFed[c] \union {x}]
      /\ hubRaces' = IF hubChaser.cut THEN [hubRaces EXCEPT ![c] = hubRaces[c] + 1]
                     ELSE hubRaces
      /\ UNCHANGED <<hubChannel, hubPipes, hubLoop, hubRefs, hubWrites, hubReports, hubMissed>>
  BY StoreFacts
<1>2. /\ hubChaser.at = "aggregated"
      /\ hubBuffers' = [hubBuffers EXCEPT
           ![c][hubChaser.target][hubChaser.signal] = hubChaser.average]
      /\ hubChaser' = IF hubChaser.todo = {} THEN Resting
                      ELSE [hubChaser EXCEPT !.at = "dispatching", !.average = {}]
  BY DEF StoreAverage
<1>3. Resting \in [at : ChaserPlaces, value : Nat, signal : Signals, todo : SUBSET Clients,
                   client : Clients \union {0}, target : 1 .. 2,
                   average : SUBSET Values, cut : BOOLEAN]
  BY SignalFacts DEF Resting, ChaserPlaces
<1>4. /\ hubChaser' \in [at : ChaserPlaces, value : Nat, signal : Signals,
                         todo : SUBSET Clients, client : Clients \union {0},
                         target : 1 .. 2, average : SUBSET Values, cut : BOOLEAN]
      /\ hubChaser'.at \in {"resting", "dispatching"}
      /\ hubChaser'.at # "resting" => hubChaser'.value = x /\ hubChaser'.todo = hubChaser.todo
  BY <1>2, <1>3, SignalFacts DEF HubInv, HubTypeOK, ChaserPlaces
<1>5. hubBuffers' \in [Clients -> [1 .. 2 -> [Signals -> SUBSET Values]]]
  BY <1>1, <1>2 DEF HubInv, HubTypeOK
<1>6. hubFed' \in [Clients -> SUBSET Values] /\ hubRaces' \in [Clients -> Nat]
  <2> HIDE DEF c, x
  <2> QED BY <1>1 DEF HubInv, HubTypeOK
<1>7. HubTypeOK'
  BY <1>1, <1>4, <1>5, <1>6 DEF HubInv, HubTypeOK
<1>8. Taken' = Taken
  BY <1>1 DEF Taken
<1>9. /\ hubFed'[c] = hubFed[c] \union {x}
      /\ \A d \in Clients \ {c} : hubFed'[d] = hubFed[d]
  <2> HIDE DEF c, x
  <2> QED BY <1>1 DEF HubInv, HubTypeOK
<1>10. ChannelInOrder'
  <2>1. \A d \in Clients : \A v \in hubFed'[d] : v < Taken
    <3> HIDE DEF c, x
    <3> QED BY <1>1, <1>9 DEF HubInv, ChannelInOrder
  <2> QED BY <1>1, <1>8, <2>1 DEF HubInv, ChannelInOrder
<1>11. ValueInHand'
  <2>1. c \notin hubChaser.todo /\ \A d \in hubChaser.todo : x \notin hubFed[d]
    BY <1>2 DEF HubInv, ValueInHand, Calling
  <2>2. hubChaser.todo \subseteq Clients
    BY DEF HubInv, HubTypeOK
  <2>3. \A d \in hubChaser.todo : x \notin hubFed'[d]
    BY <1>9, <2>1, <2>2
  <2> QED BY <1>1, <1>4, <1>8, <2>3 DEF ValueInHand, Calling
<1>12. CallInHand'
  BY <1>4 DEF CallInHand, Calling
<1> QED BY <1>7, <1>10, <1>11, <1>12

\* What the four counts of a pipe are in two successive states.
LEMMA Counts ==
  ASSUME NEW c \in Clients, NEW w, NEW r, NEW w2, NEW r2,
         hubRefs[c].write = w, hubRefs[c].read = r,
         hubRefs'[c].write = w2, hubRefs'[c].read = r2, NEW v
  PROVE  /\ Filling(c, v) = IF \E s \in Signals : v \in hubBuffers[c][w][s] THEN 1 ELSE 0
         /\ Sending(c, v) = IF \E s \in Signals : v \in hubBuffers[c][r][s] THEN 1 ELSE 0
         /\ Filling(c, v)' = IF \E s \in Signals : v \in hubBuffers'[c][w2][s] THEN 1 ELSE 0
         /\ Sending(c, v)' = IF \E s \in Signals : v \in hubBuffers'[c][r2][s] THEN 1 ELSE 0
         /\ Missed(c, v) = IF v \in hubMissed[c] THEN 1 ELSE 0
         /\ Missed(c, v)' = IF v \in hubMissed'[c] THEN 1 ELSE 0
BY DEF Filling, Sending, Missed, In

\* A value no client was fed is counted nowhere.
LEMMA UnfedCounts ==
  ASSUME HubTypeOK, NEW c \in Clients, UnfedNowhere(c), NEW v \in Values \ hubFed[c]
  PROVE  /\ Filling(c, v) = 0 /\ Sending(c, v) = 0 /\ Missed(c, v) = 0
         /\ hubReports[c][v] = 0
BY TwoBuffers DEF UnfedNowhere, Filling, Sending, Missed

LEMMA StorePipe ==
  ASSUME HubInv, StoreAverage, NEW c \in Clients, c = hubChaser.client,
         NEW x, x = hubChaser.value
  PROVE  PipeInv(c)'
<1> DEFINE b == hubChaser.target
           sig == hubChaser.signal
           average == hubChaser.average
           w == hubRefs[c].write
           r == hubRefs[c].read
           at == hubLoop[c].at
<1>1. /\ b \in 1 .. 2 /\ sig \in Signals /\ x \in Values \ hubFed[c]
      /\ average \subseteq Values /\ average \subseteq hubFed[c] \union {x}
      /\ hubBuffers'[c] = [hubBuffers[c] EXCEPT
                             ![b] = [hubBuffers[c][b] EXCEPT ![sig] = average]]
      /\ ~hubChaser.cut => b = w /\ average = hubBuffers[c][b][sig] \union {x}
      /\ hubRefs' = hubRefs /\ hubLoop' = hubLoop
      /\ hubReports' = hubReports /\ hubMissed' = hubMissed
  BY StoreFacts
<1>2. /\ hubFed'[c] = hubFed[c] \union {x}
      /\ hubRaces[c] \in Nat
      /\ hubRaces'[c] = IF hubChaser.cut THEN hubRaces[c] + 1 ELSE hubRaces[c]
  BY StoreFacts DEF HubInv, HubTypeOK
<1>3. hubBuffers[c] \in [1 .. 2 -> [Signals -> SUBSET Values]]
  BY DEF HubInv, HubTypeOK
<1>4. w \in 1 .. 2 /\ r \in 1 .. 2 /\ r # w /\ \A d \in 1 .. 2 : d = r \/ d = w
  BY TwoBuffers DEF HubInv
<1>5. /\ PipeInv(c) /\ hubReports[c] \in [Values -> Nat]
      /\ hubChaser.cut \in BOOLEAN
  BY DEF HubInv, HubTypeOK
<1>6. \A v \in Values \ hubFed[c] : Filling(c, v) = 0 /\ Sending(c, v) = 0 /\ Missed(c, v) = 0
                                   /\ hubReports[c][v] = 0
  BY <1>5, UnfedCounts DEF HubInv, PipeInv
<1>7. \A v : /\ Filling(c, v) \in {0, 1} /\ Sending(c, v) \in {0, 1}
             /\ Filling(c, v)' \in {0, 1} /\ Sending(c, v)' \in {0, 1}
             /\ Missed(c, v) \in {0, 1} /\ Missed(c, v)' = Missed(c, v)
  BY <1>1 DEF Filling, Sending, Missed
<1>8. /\ \A v : Filling(c, v) = 1 <=> \E s \in Signals : v \in hubBuffers[c][w][s]
      /\ \A v : Sending(c, v) = 1 <=> \E s \in Signals : v \in hubBuffers[c][r][s]
      /\ \A v : Filling(c, v)' = 1 <=> \E s \in Signals : v \in hubBuffers'[c][w][s]
      /\ \A v : Sending(c, v)' = 1 <=> \E s \in Signals : v \in hubBuffers'[c][r][s]
  BY <1>1 DEF Filling, Sending, In
<1> HIDE DEF b, sig, average, w, r, at
<1>9. /\ \A d \in 1 .. 2 : d # b => hubBuffers'[c][d] = hubBuffers[c][d]
      /\ hubBuffers'[c][b][sig] = average
      /\ \A s \in Signals : s # sig => hubBuffers'[c][b][s] = hubBuffers[c][b][s]
  BY <1>1, <1>3
<1>10. b # w => \A v : Filling(c, v)' = Filling(c, v)
  BY <1>4, <1>7, <1>8, <1>9
<1>11. b # r => \A v : Sending(c, v)' = Sending(c, v)
  BY <1>4, <1>7, <1>8, <1>9
<1>12. ~hubChaser.cut => /\ \A v : v # x => Filling(c, v)' = Filling(c, v)
                         /\ Filling(c, x)' = 1
                         /\ \A v : Sending(c, v)' = Sending(c, v)
  <2> SUFFICES ASSUME ~hubChaser.cut
               PROVE  /\ \A v : v # x => Filling(c, v)' = Filling(c, v)
                      /\ Filling(c, x)' = 1
                      /\ \A v : Sending(c, v)' = Sending(c, v)
    OBVIOUS
  <2>1. b = w /\ average = hubBuffers[c][w][sig] \union {x}
    BY <1>1
  <2>2. \A v : v # x => (v \in hubBuffers'[c][w][sig] <=> v \in hubBuffers[c][w][sig])
    BY <1>9, <2>1
  <2>3. \A v : v # x => Filling(c, v)' = Filling(c, v)
    BY <1>7, <1>8, <1>9, <2>1, <2>2
  <2>4. x \in hubBuffers'[c][w][sig]
    BY <1>9, <2>1
  <2>5. Filling(c, x)' = 1
    BY <1>1, <1>8, <2>4
  <2> QED BY <1>4, <1>11, <2>1, <2>3, <2>5
<1>13. UnfedNowhere(c)'
  <2> SUFFICES ASSUME NEW v \in Values, v \notin hubFed'[c]
               PROVE  /\ ~In(c, 1, v)' /\ ~In(c, 2, v)'
                      /\ hubReports'[c][v] = 0 /\ v \notin hubMissed'[c]
    BY DEF UnfedNowhere
  <2>1. v \notin hubFed[c] /\ v \notin average
    BY <1>1, <1>2
  <2>2. \A d \in 1 .. 2 : \A s \in Signals : v \notin hubBuffers[c][d][s]
    BY <1>5, <2>1 DEF PipeInv, UnfedNowhere, In
  <2>3. \A d \in 1 .. 2 : \A s \in Signals : v \notin hubBuffers'[c][d][s]
    BY <1>1, <1>9, <2>1, <2>2
  <2> QED BY <1>1, <1>5, <2>1, <2>3 DEF PipeInv, UnfedNowhere, In
<1>14. CopiesBounded(c)'
  <2> SUFFICES ASSUME NEW v \in Values
               PROVE  hubReports'[c][v] + Filling(c, v)'
                        + (IF hubLoop'[c].at \in {"exchanging", "writing"}
                             THEN Sending(c, v)' ELSE 0)
                      <= 1 + hubRaces'[c]
    BY DEF CopiesBounded
  <2>1. hubReports[c][v] + Filling(c, v)
          + (IF at \in {"exchanging", "writing"} THEN Sending(c, v) ELSE 0)
        <= 1 + hubRaces[c]
    BY <1>5 DEF PipeInv, CopiesBounded, at
  <2>2. hubReports'[c][v] = hubReports[c][v] /\ hubLoop'[c].at = at /\ hubReports[c][v] \in Nat
    BY <1>1, <1>5 DEF at
  <2>3. CASE hubChaser.cut
    <3>1. hubRaces'[c] = hubRaces[c] + 1
      BY <1>2, <2>3
    <3>2. Filling(c, v)' = Filling(c, v) \/ Sending(c, v)' = Sending(c, v)
      BY <1>4, <1>10, <1>11
    <3> QED BY <1>2, <1>7, <2>1, <2>2, <3>1, <3>2
  <2>4. CASE ~hubChaser.cut
    <3>1. hubRaces'[c] = hubRaces[c]
      BY <1>2, <2>4
    <3>2. CASE v = x
      <4>1. hubReports[c][v] = 0 /\ Sending(c, v) = 0
        BY <1>1, <1>6, <3>2
      <4>2. Filling(c, v)' = 1 /\ Sending(c, v)' = Sending(c, v)
        BY <1>12, <2>4, <3>2
      <4> QED BY <1>2, <2>2, <3>1, <4>1, <4>2
    <3>3. CASE v # x
      BY <1>2, <1>12, <2>1, <2>2, <2>4, <3>1, <3>3
    <3> QED BY <3>2, <3>3
  <2> QED BY <1>5, <2>3, <2>4
<1>15. OnePlace(c)'
  <2> SUFFICES ASSUME hubRaces'[c] = 0, hubLoop'[c].at \notin {"leaving", "left"}
               PROVE
        /\ hubLoop'[c].at = "exchanging" => \A v \in Values : ~In(c, hubRefs[c].read, v)'
        /\ \A d \in 1 .. 2 : \A s, t \in Signals :
             \A v \in hubBuffers'[c][d][s] \intersect hubBuffers'[c][d][t] : s = t
        /\ \A v \in hubFed'[c] :
             hubReports'[c][v] + Filling(c, v)' + Missed(c, v)'
               + (IF hubLoop'[c].at = "writing" THEN Sending(c, v)' ELSE 0) = 1
    BY DEF OnePlace
  <2>1. ~hubChaser.cut /\ hubRaces[c] = 0 /\ hubLoop'[c].at = at
    BY <1>1, <1>2, <1>5 DEF at
  <2>2. /\ at = "exchanging" => \A v \in Values : Sending(c, v) = 0
        /\ \A d \in 1 .. 2 : \A s, t \in Signals :
             \A v \in hubBuffers[c][d][s] \intersect hubBuffers[c][d][t] : s = t
        /\ \A v \in hubFed[c] :
             hubReports[c][v] + Filling(c, v) + Missed(c, v)
               + (IF at = "writing" THEN Sending(c, v) ELSE 0) = 1
    BY <1>5, <2>1 DEF PipeInv, OnePlace, at, Sending
  <2>3. at = "exchanging" => \A v \in Values : Sending(c, v)' = 0
    BY <1>12, <2>1, <2>2
  <2>4. ASSUME NEW d \in 1 .. 2, NEW s \in Signals, NEW t \in Signals,
               NEW v \in hubBuffers'[c][d][s] \intersect hubBuffers'[c][d][t]
        PROVE  s = t
    <3>1. CASE d # b
      BY <1>9, <2>2, <3>1
    <3>2. CASE d = b /\ v = x
      <4>1. \A u \in Signals : x \notin hubBuffers[c][b][u]
        BY <1>1, <1>5 DEF PipeInv, UnfedNowhere, In
      <4> QED BY <1>9, <2>4, <3>2, <4>1
    <3>3. CASE d = b /\ v # x
      <4>1. hubBuffers'[c][b][sig] = hubBuffers[c][b][sig] \union {x}
        BY <1>1, <1>9, <2>1
      <4>2. v \in hubBuffers[c][b][s] \intersect hubBuffers[c][b][t]
        BY <1>9, <3>3, <4>1
      <4> QED BY <1>1, <2>2, <4>2
    <3> QED BY <3>1, <3>2, <3>3
  <2>5. ASSUME NEW v \in hubFed'[c]
        PROVE  hubReports'[c][v] + Filling(c, v)' + Missed(c, v)'
                 + (IF at = "writing" THEN Sending(c, v)' ELSE 0) = 1
    <3>1. hubReports'[c][v] = hubReports[c][v] /\ Missed(c, v)' = Missed(c, v)
      BY <1>1, <1>7
    <3>2. CASE v = x
      <4>1. hubReports[c][v] = 0 /\ Sending(c, v) = 0 /\ Missed(c, v) = 0
        BY <1>1, <1>6, <3>2
      <4>2. Filling(c, v)' = 1 /\ Sending(c, v)' = Sending(c, v)
        BY <1>12, <2>1, <3>2
      <4> QED BY <3>1, <4>1, <4>2
    <3>3. CASE v # x
      <4>1. v \in hubFed[c]
        BY <1>2, <3>3
      <4>2. Filling(c, v)' = Filling(c, v) /\ Sending(c, v)' = Sending(c, v)
        BY <1>12, <2>1, <3>3
      <4> QED BY <2>2, <3>1, <4>1, <4>2
    <3> QED BY <3>2, <3>3
  <2>6. at = "exchanging" => \A v \in Values : ~In(c, hubRefs[c].read, v)'
    BY <1>1, <2>3 DEF Sending
  <2> QED BY <2>1, <2>4, <2>5, <2>6
<1> QED BY <1>13, <1>14, <1>15 DEF PipeInv

LEMMA StoreAverageStep ==
  ASSUME HubInv, StoreAverage
  PROVE  HubInv'
<1>1. ASSUME NEW d \in Clients, d # hubChaser.client PROVE PipeInv(d)'
  <2>1. /\ hubBuffers'[d] = hubBuffers[d] /\ hubRefs' = hubRefs /\ hubLoop' = hubLoop
        /\ hubReports' = hubReports /\ hubMissed' = hubMissed
    BY <1>1, StoreFacts
  <2>2. hubFed'[d] = hubFed[d] /\ hubRaces'[d] = hubRaces[d]
    BY <1>1, StoreFacts DEF HubInv, HubTypeOK
  <2> QED BY <2>1, <2>2, PipeKept DEF HubInv
<1>2. \A d \in Clients : PipeInv(d)'
  BY <1>1, StorePipe
<1> QED BY <1>2, StoreTypes DEF HubInv

-----------------------------------------------------------------------------
\* Where a loop goes to.
LEMMA LoopGoes ==
  ASSUME HubTypeOK, NEW c \in Clients, NEW at \in HubPlaces, NEW after \in HubPlaces,
         GoTo(c, after) \/ NextSignal(c, at, after)
  PROVE  /\ hubLoop' \in [Clients -> [at : HubPlaces, signal : Signals]]
         /\ hubLoop'[c].at \in {at, after}
         /\ GoTo(c, after) => hubLoop'[c].at = after
         /\ \A d \in Clients \ {c} : hubLoop'[d] = hubLoop[d]
<1>1. hubLoop \in [Clients -> [at : HubPlaces, signal : Signals]] /\ 0 \in Signals
  BY SignalFacts DEF HubTypeOK
<1>2. hubLoop[c].signal \in Signals
  BY <1>1
<1>3. ASSUME GoTo(c, after)
      PROVE  hubLoop' = [hubLoop EXCEPT ![c] = [at |-> after, signal |-> 0]]
  BY <1>3 DEF GoTo
<1>4. ASSUME ~GoTo(c, after)
      PROVE  /\ hubLoop' = [hubLoop EXCEPT ![c] = [at |-> at, signal |-> hubLoop[c].signal + 1]]
             /\ hubLoop[c].signal + 1 \in Signals
  BY <1>2, <1>4, SignalCountAssumption DEF NextSignal, Signals
<1> QED BY <1>1, <1>3, <1>4

\* A step of a loop that keeps off the chaser, and off the buffer that is filled.
LEMMA ChaserUndisturbed ==
  ASSUME HubInv, UNCHANGED <<hubChannel, hubChaser, hubWrites, hubFed, hubRefs>>,
         \A c \in Clients :
           hubBuffers'[c][hubRefs[c].write] = hubBuffers[c][hubRefs[c].write]
  PROVE  ChannelInOrder' /\ ValueInHand' /\ CallInHand'
<1>1. Taken' = Taken
  BY DEF Taken
<1>2. ChannelInOrder' /\ ValueInHand'
  BY <1>1 DEF HubInv, ChannelInOrder, ValueInHand
<1>3. hubChaser.at \in Calling => hubChaser.client \in Clients
  BY DEF HubInv, ValueInHand, Calling
<1>4. CallInHand'
  BY <1>3 DEF HubInv, CallInHand, Calling
<1> QED BY <1>2, <1>4

\* Subscribing and leaving turn no value round.
LEMMA ComeAndGoStep ==
  ASSUME HubInv, NEW c \in Clients, Subscribe(c) \/ Leave(c) \/ LeaveSignal(c)
  PROVE  HubInv'
<1>1. UNCHANGED <<hubChannel, hubChaser, hubBuffers, hubRefs, hubWrites, hubFed, hubReports,
                  hubMissed, hubRaces>>
  BY DEF Subscribe, Leave, LeaveSignal, hubHistory
<1>2. hubLoop[c].signal \in Signals /\ hubPipes \in [Signals -> SUBSET Clients]
  BY DEF HubInv, HubTypeOK
<1>3. hubPipes' \in [Signals -> SUBSET Clients]
  BY <1>2 DEF Subscribe, Leave, LeaveSignal
<1>4. /\ hubLoop' \in [Clients -> [at : HubPlaces, signal : Signals]]
      /\ \A d \in Clients \ {c} : hubLoop'[d] = hubLoop[d]
      /\ \/ /\ hubLoop[c].at \in {"out", "joining"}
            /\ hubLoop'[c].at \in {"joining", "waiting"}
         \/ hubLoop'[c].at \in {"leaving", "left"}
  <2>1. CASE Subscribe(c)
    <3>1. hubLoop[c].at \in {"out", "joining"} /\ NextSignal(c, "joining", "waiting")
      BY <2>1 DEF Subscribe, LoopAt
    <3>2. "joining" \in HubPlaces /\ "waiting" \in HubPlaces
      BY DEF HubPlaces
    <3> QED BY <3>1, <3>2, LoopGoes DEF HubInv
  <2>2. CASE Leave(c)
    <3>1. GoTo(c, "leaving") /\ "leaving" \in HubPlaces
      BY <2>2 DEF Leave, HubPlaces
    <3> QED BY <3>1, LoopGoes DEF HubInv
  <2>3. CASE LeaveSignal(c)
    <3>1. NextSignal(c, "leaving", "left") /\ "leaving" \in HubPlaces /\ "left" \in HubPlaces
      BY <2>3 DEF LeaveSignal, HubPlaces
    <3> QED BY <3>1, LoopGoes DEF HubInv
  <2> QED BY <2>1, <2>2, <2>3
<1>5. HubTypeOK'
  BY <1>1, <1>3, <1>4 DEF HubInv, HubTypeOK
<1>6. ChannelInOrder' /\ ValueInHand' /\ CallInHand'
  BY <1>1, ChaserUndisturbed
<1>7. PipeInv(c)'
  <2>1. PipeInv(c) /\ hubReports[c] \in [Values -> Nat] /\ hubRaces[c] \in Nat
    BY DEF HubInv, HubTypeOK
  <2>2. \A v : /\ Filling(c, v)' = Filling(c, v) /\ Sending(c, v)' = Sending(c, v)
               /\ Missed(c, v)' = Missed(c, v) /\ Filling(c, v) \in {0, 1}
               /\ Sending(c, v) \in {0, 1}
    BY <1>1 DEF Filling, Sending, Missed, In
  <2>3. UnfedNowhere(c)'
    BY <1>1, <2>1 DEF PipeInv, UnfedNowhere, In
  <2>4. CopiesBounded(c)'
    <3> SUFFICES ASSUME NEW v \in Values
                 PROVE  hubReports'[c][v] + Filling(c, v)'
                          + (IF hubLoop'[c].at \in {"exchanging", "writing"}
                               THEN Sending(c, v)' ELSE 0)
                        <= 1 + hubRaces'[c]
      BY DEF CopiesBounded
    <3>1. hubReports[c][v] + Filling(c, v)
            + (IF hubLoop[c].at \in {"exchanging", "writing"} THEN Sending(c, v) ELSE 0)
          <= 1 + hubRaces[c]
      BY <2>1 DEF PipeInv, CopiesBounded
    <3>2. hubReports[c][v] \in Nat /\ hubLoop'[c].at \notin {"exchanging", "writing"}
      BY <1>4, <2>1
    <3> QED BY <1>1, <2>1, <2>2, <3>1, <3>2
  <2>5. OnePlace(c)'
    BY <1>1, <1>4, <2>1, <2>2 DEF PipeInv, OnePlace
  <2> QED BY <2>3, <2>4, <2>5 DEF PipeInv
<1>8. \A d \in Clients \ {c} : PipeInv(d)'
  BY <1>1, <1>4, PipeKept DEF HubInv
<1> QED BY <1>5, <1>6, <1>7, <1>8 DEF HubInv

\* The reset empties the buffer whose message went out at the tick before.
LEMMA TickResetsStep ==
  ASSUME HubInv, NEW c \in Clients, TickResets(c)
  PROVE  HubInv'
<1> DEFINE w == hubRefs[c].write
           r == hubRefs[c].read
<1>1. /\ hubLoop[c].at = "waiting"
      /\ hubBuffers' = [hubBuffers EXCEPT ![c][r] = [s \in Signals |-> {}]]
      /\ GoTo(c, "exchanging")
      /\ UNCHANGED <<hubChannel, hubPipes, hubChaser, hubRefs, hubWrites, hubFed, hubReports,
                     hubMissed, hubRaces>>
  BY DEF TickResets, LoopAt, hubHistory
<1>2. w \in 1 .. 2 /\ r \in 1 .. 2 /\ r # w /\ \A b \in 1 .. 2 : b = r \/ b = w
  BY TwoBuffers DEF HubInv
<1>3. hubBuffers \in [Clients -> [1 .. 2 -> [Signals -> SUBSET Values]]]
  BY DEF HubInv, HubTypeOK
<1>4. /\ hubLoop' \in [Clients -> [at : HubPlaces, signal : Signals]]
      /\ hubLoop'[c].at = "exchanging"
      /\ \A d \in Clients \ {c} : hubLoop'[d] = hubLoop[d]
  BY <1>1, LoopGoes DEF HubInv, HubPlaces
<1>5. /\ hubBuffers' \in [Clients -> [1 .. 2 -> [Signals -> SUBSET Values]]]
      /\ \A d \in Clients \ {c} : hubBuffers'[d] = hubBuffers[d]
      /\ hubBuffers'[c][w] = hubBuffers[c][w]
      /\ \A s \in Signals : hubBuffers'[c][r][s] = {}
  <2> HIDE DEF w, r
  <2> QED BY <1>1, <1>2, <1>3
<1>6. HubTypeOK'
  BY <1>1, <1>4, <1>5 DEF HubInv, HubTypeOK
<1>7. ChannelInOrder' /\ ValueInHand' /\ CallInHand'
  BY <1>1, <1>5, ChaserUndisturbed
<1>8. \A d \in Clients \ {c} : PipeInv(d)'
  BY <1>1, <1>4, <1>5, PipeKept DEF HubInv
<1>9. PipeInv(c)'
  <2>1. PipeInv(c) /\ hubReports[c] \in [Values -> Nat] /\ hubRaces[c] \in Nat
    BY DEF HubInv, HubTypeOK
  <2>2. \A v : /\ Filling(c, v)' = Filling(c, v) /\ Sending(c, v)' = 0
               /\ Missed(c, v)' = Missed(c, v) /\ Filling(c, v) \in {0, 1}
    BY <1>1, <1>5 DEF Filling, Sending, Missed, In
  <2>3. UnfedNowhere(c)'
    <3>1. \A b \in 1 .. 2 : \A v : In(c, b, v)' => In(c, b, v)
      <4> HIDE DEF w, r
      <4> QED BY <1>2, <1>5 DEF In
    <3> QED BY <1>1, <2>1, <3>1 DEF PipeInv, UnfedNowhere
  <2>4. CopiesBounded(c)'
    BY <1>1, <1>4, <2>1, <2>2 DEF PipeInv, CopiesBounded
  <2>5. OnePlace(c)'
    <3> SUFFICES ASSUME hubRaces'[c] = 0
                 PROVE
          /\ \A v \in Values : ~In(c, hubRefs[c].read, v)'
          /\ \A b \in 1 .. 2 : \A s, t \in Signals :
               \A v \in hubBuffers'[c][b][s] \intersect hubBuffers'[c][b][t] : s = t
          /\ \A v \in hubFed'[c] :
               hubReports'[c][v] + Filling(c, v)' + Missed(c, v)' + 0 = 1
      BY <1>4 DEF OnePlace
    <3>1. /\ \A s, t \in Signals :
               \A v \in hubBuffers[c][w][s] \intersect hubBuffers[c][w][t] : s = t
          /\ \A v \in hubFed[c] :
               hubReports[c][v] + Filling(c, v) + Missed(c, v) + 0 = 1
      BY <1>1, <1>2, <2>1 DEF PipeInv, OnePlace
    <3>2. \A b \in 1 .. 2 : \A s, t \in Signals :
            \A v \in hubBuffers'[c][b][s] \intersect hubBuffers'[c][b][t] : s = t
      <4> HIDE DEF w, r
      <4> QED BY <1>2, <1>5, <3>1
    <3>3. \A v \in Values : ~In(c, hubRefs[c].read, v)'
      BY <1>1, <1>5 DEF In
    <3> QED BY <1>1, <2>2, <3>1, <3>2, <3>3
  <2> QED BY <2>3, <2>4, <2>5 DEF PipeInv
<1> QED BY <1>6, <1>7, <1>8, <1>9 DEF HubInv

\* The exchange cuts a call that has chosen its array.  What was being filled is
\* sent now, and nothing is in the buffer that is filled next.
LEMMA ExchangeStep ==
  ASSUME HubInv, NEW c \in Clients, Exchange(c)
  PROVE  HubInv'
<1> DEFINE w == hubRefs[c].write
           r == hubRefs[c].read
           calls == hubChaser.at \in Calling /\ hubChaser.client = c
<1>1. /\ hubLoop[c].at = "exchanging"
      /\ hubRefs' = [hubRefs EXCEPT ![c] = [read |-> w, write |-> r]]
      /\ GoTo(c, "writing")
      /\ hubChaser' = [hubChaser EXCEPT !.cut = hubChaser.cut \/ calls]
      /\ UNCHANGED <<hubChannel, hubPipes, hubBuffers, hubWrites, hubFed, hubReports,
                     hubMissed, hubRaces>>
  BY DEF Exchange, LoopAt, hubHistory, Calling
<1>2. w \in 1 .. 2 /\ r \in 1 .. 2 /\ r # w /\ \A b \in 1 .. 2 : b = r \/ b = w
  BY TwoBuffers DEF HubInv
<1>3. [read |-> w, write |-> r] \in Refs
  BY <1>2 DEF Refs
<1>4. /\ hubLoop' \in [Clients -> [at : HubPlaces, signal : Signals]]
      /\ hubLoop'[c].at = "writing"
      /\ \A d \in Clients \ {c} : hubLoop'[d] = hubLoop[d]
  BY <1>1, LoopGoes DEF HubInv, HubPlaces
<1>5. /\ hubRefs' \in [Clients -> Refs]
      /\ \A d \in Clients \ {c} : hubRefs'[d] = hubRefs[d]
      /\ hubRefs'[c].write = r /\ hubRefs'[c].read = w
  <2> HIDE DEF w, r
  <2> QED BY <1>1, <1>3 DEF HubInv, HubTypeOK
<1>6. /\ hubChaser'.at = hubChaser.at /\ hubChaser'.value = hubChaser.value
      /\ hubChaser'.signal = hubChaser.signal /\ hubChaser'.todo = hubChaser.todo
      /\ hubChaser'.client = hubChaser.client /\ hubChaser'.target = hubChaser.target
      /\ hubChaser'.average = hubChaser.average
      /\ hubChaser'.cut = (hubChaser.cut \/ calls)
      /\ hubChaser' \in [at : ChaserPlaces, value : Nat, signal : Signals,
                         todo : SUBSET Clients, client : Clients \union {0},
                         target : 1 .. 2, average : SUBSET Values, cut : BOOLEAN]
  <2>1. calls \in BOOLEAN /\ hubChaser.cut \in BOOLEAN
    BY DEF HubInv, HubTypeOK
  <2> HIDE DEF calls
  <2> QED BY <1>1, <2>1 DEF HubInv, HubTypeOK
<1>7. HubTypeOK'
  BY <1>1, <1>4, <1>5, <1>6 DEF HubInv, HubTypeOK
<1>8. Taken' = Taken
  BY <1>1 DEF Taken
<1>9. ChannelInOrder' /\ ValueInHand'
  BY <1>1, <1>6, <1>8 DEF HubInv, ChannelInOrder, ValueInHand
<1>10. CallInHand'
  <2>1. hubChaser.at \in Calling /\ hubChaser.client # c
          => hubRefs'[hubChaser.client] = hubRefs[hubChaser.client]
    BY <1>5 DEF HubInv, ValueInHand, Calling
  <2>2. CASE calls
    <3>1. hubChaser'.cut
      BY <1>6, <2>2
    <3> QED BY <1>1, <1>6, <3>1 DEF HubInv, CallInHand, Calling
  <2>3. CASE ~calls
    <3>1. hubChaser'.cut = hubChaser.cut
      BY <1>6, <2>3 DEF HubInv, HubTypeOK
    <3>2. hubChaser.at \in Calling => hubRefs'[hubChaser.client] = hubRefs[hubChaser.client]
      BY <2>1, <2>3
    <3> HIDE DEF calls
    <3> QED BY <1>1, <1>6, <3>1, <3>2 DEF HubInv, CallInHand, Calling
  <2> QED BY <2>2, <2>3
<1>11. \A d \in Clients \ {c} : PipeInv(d)'
  BY <1>1, <1>4, <1>5, PipeKept DEF HubInv
<1>12. PipeInv(c)'
  <2>1. PipeInv(c) /\ hubReports[c] \in [Values -> Nat] /\ hubRaces[c] \in Nat
    BY DEF HubInv, HubTypeOK
  <2>2. \A v : /\ Filling(c, v)' = Sending(c, v) /\ Sending(c, v)' = Filling(c, v)
               /\ Missed(c, v)' = Missed(c, v) /\ Filling(c, v) \in {0, 1}
               /\ Sending(c, v) \in {0, 1}
    BY <1>1, <1>5 DEF Filling, Sending, Missed, In
  <2>3. UnfedNowhere(c)'
    BY <1>1, <2>1 DEF PipeInv, UnfedNowhere, In
  <2>4. CopiesBounded(c)'
    BY <1>1, <1>4, <2>1, <2>2 DEF PipeInv, CopiesBounded
  <2>5. OnePlace(c)'
    <3> SUFFICES ASSUME hubRaces'[c] = 0
                 PROVE
          /\ \A b \in 1 .. 2 : \A s, t \in Signals :
               \A v \in hubBuffers'[c][b][s] \intersect hubBuffers'[c][b][t] : s = t
          /\ \A v \in hubFed'[c] :
               hubReports'[c][v] + Filling(c, v)' + Missed(c, v)' + Sending(c, v)' = 1
      BY <1>4 DEF OnePlace
    <3>1. /\ \A b \in 1 .. 2 : \A s, t \in Signals :
               \A v \in hubBuffers[c][b][s] \intersect hubBuffers[c][b][t] : s = t
          /\ \A v \in Values : Sending(c, v) = 0
          /\ \A v \in hubFed[c] :
               hubReports[c][v] + Filling(c, v) + Missed(c, v) + 0 = 1
      BY <1>1, <2>1 DEF PipeInv, OnePlace, Sending
    <3>2. hubFed[c] \subseteq Values
      BY DEF HubInv, HubTypeOK
    <3>3. \A v : Missed(c, v) \in {0, 1}
      BY DEF Missed
    <3> QED BY <1>1, <2>1, <2>2, <3>1, <3>2, <3>3
  <2> QED BY <2>3, <2>4, <2>5 DEF PipeInv
<1> QED BY <1>7, <1>9, <1>10, <1>11, <1>12 DEF HubInv

\* A buffer holds finitely many values, so that each count is a number.
LEMMA CountIsNat ==
  ASSUME NEW average \in SUBSET Values
  PROVE  Count(average) \in Nat
<1>1. IsFiniteSet(Values)
  BY MaxWritesAssumption, FS_Interval DEF Values
<1>2. Cardinality(average) \in Nat
  BY <1>1, FS_Subset, FS_CardinalityType
<1>3. CountMod \in Nat \ {0}
  BY CountModAssumption
<1> QED BY <1>2, <1>3 DEF Count

\* A message takes each value of the buffer that is sent, or it is missed.
LEMMA WriteToFacts ==
  ASSUME HubInv, NEW c \in Clients, WriteTo(c)
  PROVE  LET r == hubRefs[c].read
             Sent(v) == \E s \in Signals : v \in hubBuffers[c][r][s] /\ Count(hubBuffers[c][r][s]) > 0
             Lost(v) == \E s \in Signals : v \in hubBuffers[c][r][s] /\ Count(hubBuffers[c][r][s]) = 0
         IN  /\ hubLoop[c].at = "writing" /\ GoTo(c, "waiting")
             /\ hubReports' = [hubReports EXCEPT ![c] =
                  [v \in Values |-> IF Sent(v) THEN hubReports[c][v] + 1 ELSE hubReports[c][v]]]
             /\ hubMissed' \in [Clients -> SUBSET Values]
             /\ \A d \in Clients \ {c} : hubMissed'[d] = hubMissed[d]
             /\ \A v : v \in hubMissed'[c] <=> v \in hubMissed[c] \/ Lost(v)
             /\ \A v : Sending(c, v) = 1 <=> Sent(v) \/ Lost(v)
             /\ UNCHANGED <<hubChannel, hubPipes, hubChaser, hubBuffers, hubRefs, hubWrites,
                            hubFed, hubRaces>>
<1> DEFINE r == hubRefs[c].read
           averages == {hubBuffers[c][r][s] : s \in Signals}
           sent == UNION {a \in averages : Count(a) > 0}
           lost == UNION {a \in averages : Count(a) = 0}
<1>1. /\ hubLoop[c].at = "writing" /\ GoTo(c, "waiting")
      /\ hubReports' = [hubReports EXCEPT ![c] =
           [v \in Values |-> IF v \in sent THEN hubReports[c][v] + 1 ELSE hubReports[c][v]]]
      /\ hubMissed' = [hubMissed EXCEPT ![c] = hubMissed[c] \union lost]
      /\ UNCHANGED <<hubChannel, hubPipes, hubChaser, hubBuffers, hubRefs, hubWrites,
                     hubFed, hubRaces>>
  BY DEF WriteTo, LoopAt
<1>2. \A v : v \in sent <=> \E s \in Signals : v \in hubBuffers[c][r][s]
                                               /\ Count(hubBuffers[c][r][s]) > 0
  <2> HIDE DEF r
  <2> QED OBVIOUS
<1>3. \A v : v \in lost <=> \E s \in Signals : v \in hubBuffers[c][r][s]
                                               /\ Count(hubBuffers[c][r][s]) = 0
  <2> HIDE DEF r
  <2> QED OBVIOUS
<1>4. \A s \in Signals : hubBuffers[c][r][s] \in SUBSET Values
  <2>1. r \in 1 .. 2
    BY TwoBuffers DEF HubInv
  <2>2. hubBuffers \in [Clients -> [1 .. 2 -> [Signals -> SUBSET Values]]]
    BY DEF HubInv, HubTypeOK
  <2> HIDE DEF r
  <2> QED BY <2>1, <2>2
<1>5. \A s \in Signals : Count(hubBuffers[c][r][s]) \in Nat
  BY <1>4, CountIsNat
<1>6. \A v : Sending(c, v) = 1 <=> \E s \in Signals : v \in hubBuffers[c][r][s]
  BY DEF Sending, In
<1>7. lost \in SUBSET Values
  <2> HIDE DEF r
  <2> QED BY <1>4
<1>8. hubMissed \in [Clients -> SUBSET Values]
  BY DEF HubInv, HubTypeOK
<1> HIDE DEF r, sent, lost
<1>9. \A v : Sending(c, v) = 1 <=> v \in sent \/ v \in lost
  <2> SUFFICES ASSUME NEW v PROVE Sending(c, v) = 1 <=> v \in sent \/ v \in lost
    OBVIOUS
  <2>1. ASSUME NEW s \in Signals, v \in hubBuffers[c][r][s] PROVE v \in sent \/ v \in lost
    BY <1>2, <1>3, <1>5, <2>1
  <2> QED BY <1>2, <1>3, <1>6, <2>1
<1>10. /\ hubMissed' \in [Clients -> SUBSET Values]
       /\ \A d \in Clients \ {c} : hubMissed'[d] = hubMissed[d]
       /\ \A v : v \in hubMissed'[c] <=> v \in hubMissed[c] \/ v \in lost
  BY <1>1, <1>7, <1>8
<1>11. [v \in Values |-> IF v \in sent THEN hubReports[c][v] + 1 ELSE hubReports[c][v]]
         = [v \in Values |->
              IF \E s \in Signals : v \in hubBuffers[c][r][s] /\ Count(hubBuffers[c][r][s]) > 0
                THEN hubReports[c][v] + 1 ELSE hubReports[c][v]]
  BY <1>2
<1> QED BY <1>1, <1>2, <1>3, <1>9, <1>10, <1>11 DEF r

LEMMA WriteToStep ==
  ASSUME HubInv, NEW c \in Clients, WriteTo(c)
  PROVE  HubInv'
<1> DEFINE r == hubRefs[c].read
           Sent(v) == \E s \in Signals : v \in hubBuffers[c][r][s] /\ Count(hubBuffers[c][r][s]) > 0
           Lost(v) == \E s \in Signals : v \in hubBuffers[c][r][s] /\ Count(hubBuffers[c][r][s]) = 0
<1>1. /\ hubLoop[c].at = "writing" /\ GoTo(c, "waiting")
      /\ hubReports' = [hubReports EXCEPT ![c] =
           [v \in Values |-> IF Sent(v) THEN hubReports[c][v] + 1 ELSE hubReports[c][v]]]
      /\ hubMissed' \in [Clients -> SUBSET Values]
      /\ \A d \in Clients \ {c} : hubMissed'[d] = hubMissed[d]
      /\ \A v : v \in hubMissed'[c] <=> v \in hubMissed[c] \/ Lost(v)
      /\ \A v : Sending(c, v) = 1 <=> Sent(v) \/ Lost(v)
      /\ UNCHANGED <<hubChannel, hubPipes, hubChaser, hubBuffers, hubRefs, hubWrites,
                     hubFed, hubRaces>>
  BY WriteToFacts
<1>2. /\ hubLoop' \in [Clients -> [at : HubPlaces, signal : Signals]]
      /\ hubLoop'[c].at = "waiting"
      /\ \A d \in Clients \ {c} : hubLoop'[d] = hubLoop[d]
  BY <1>1, LoopGoes DEF HubInv, HubPlaces
<1>3. /\ hubReports' \in [Clients -> [Values -> Nat]]
      /\ \A d \in Clients \ {c} : hubReports'[d] = hubReports[d]
      /\ \A v \in Values :
           hubReports'[c][v] = IF Sent(v) THEN hubReports[c][v] + 1 ELSE hubReports[c][v]
  <2>1. hubReports \in [Clients -> [Values -> Nat]]
    BY DEF HubInv, HubTypeOK
  <2>2. [v \in Values |-> IF Sent(v) THEN hubReports[c][v] + 1 ELSE hubReports[c][v]]
          \in [Values -> Nat]
    <3> HIDE DEF Sent
    <3> QED BY <2>1
  <2> HIDE DEF Sent
  <2> QED BY <1>1, <2>1, <2>2
<1>4. HubTypeOK'
  BY <1>1, <1>2, <1>3 DEF HubInv, HubTypeOK
<1>5. ChannelInOrder' /\ ValueInHand' /\ CallInHand'
  BY <1>1, ChaserUndisturbed
<1>6. \A d \in Clients \ {c} : PipeInv(d)'
  BY <1>1, <1>2, <1>3, PipeKept DEF HubInv
<1>7. PipeInv(c)'
  <2>1. PipeInv(c) /\ hubReports[c] \in [Values -> Nat] /\ hubRaces[c] \in Nat
    BY DEF HubInv, HubTypeOK
  <2>2. \A v : /\ Filling(c, v)' = Filling(c, v) /\ Filling(c, v) \in {0, 1}
               /\ Sending(c, v) \in {0, 1}
               /\ Missed(c, v) \in {0, 1} /\ Missed(c, v)' \in {0, 1}
               /\ Missed(c, v)' = 1 <=> Missed(c, v) = 1 \/ Lost(v)
    <3> HIDE DEF Lost
    <3> QED BY <1>1 DEF Filling, Sending, Missed, In
  <2>3. UnfedNowhere(c)'
    <3> SUFFICES ASSUME NEW v \in Values, v \notin hubFed[c]
                 PROVE  /\ ~In(c, 1, v)' /\ ~In(c, 2, v)'
                        /\ hubReports'[c][v] = 0 /\ v \notin hubMissed'[c]
      BY <1>1 DEF UnfedNowhere
    <3>1. Sending(c, v) = 0
      BY <2>1, UnfedCounts DEF HubInv, PipeInv
    <3>2. ~Sent(v) /\ ~Lost(v)
      <4> HIDE DEF Sent, Lost
      <4> QED BY <1>1, <3>1
    <3> HIDE DEF Sent, Lost
    <3> QED BY <1>1, <1>3, <2>1, <3>2 DEF PipeInv, UnfedNowhere, In
  <2>4. CopiesBounded(c)'
    <3> SUFFICES ASSUME NEW v \in Values
                 PROVE  hubReports'[c][v] + Filling(c, v)' + 0 <= 1 + hubRaces'[c]
      BY <1>2 DEF CopiesBounded
    <3>1. hubReports[c][v] + Filling(c, v) + Sending(c, v) <= 1 + hubRaces[c]
      BY <1>1, <2>1 DEF PipeInv, CopiesBounded
    <3> HIDE DEF Sent, Lost
    <3>2. hubReports'[c][v] <= hubReports[c][v] + Sending(c, v) /\ hubReports'[c][v] \in Nat
      BY <1>1, <1>3, <2>1, <2>2
    <3> QED BY <1>1, <2>1, <2>2, <3>1, <3>2
  <2>5. OnePlace(c)'
    <3> SUFFICES ASSUME hubRaces'[c] = 0
                 PROVE
          /\ \A b \in 1 .. 2 : \A s, t \in Signals :
               \A v \in hubBuffers'[c][b][s] \intersect hubBuffers'[c][b][t] : s = t
          /\ \A v \in hubFed'[c] :
               hubReports'[c][v] + Filling(c, v)' + Missed(c, v)' + 0 = 1
      BY <1>2 DEF OnePlace
    <3>1. /\ \A b \in 1 .. 2 : \A s, t \in Signals :
               \A v \in hubBuffers[c][b][s] \intersect hubBuffers[c][b][t] : s = t
          /\ \A v \in hubFed[c] :
               hubReports[c][v] + Filling(c, v) + Missed(c, v) + Sending(c, v) = 1
      BY <1>1, <2>1 DEF PipeInv, OnePlace
    <3>2. r \in 1 .. 2 /\ hubFed[c] \subseteq Values
      BY TwoBuffers DEF HubInv, HubTypeOK
    <3>3. \A v : ~(Sent(v) /\ Lost(v))
      <4> HIDE DEF r
      <4> QED BY <3>1, <3>2
    <3>4. ASSUME NEW v \in hubFed[c]
          PROVE  hubReports'[c][v] + Filling(c, v)' + Missed(c, v)' + 0 = 1
      <4>1. hubReports[c][v] \in Nat /\ v \in Values
        BY <2>1, <3>2
      <4>2. hubReports[c][v] + Filling(c, v) + Missed(c, v) + Sending(c, v) = 1
        BY <3>1
      <4> HIDE DEF Sent, Lost
      <4>3. CASE Sent(v)
        <5>1. Sending(c, v) = 1 /\ ~Lost(v)
          BY <1>1, <3>3, <4>3
        <5> QED BY <1>3, <2>2, <4>1, <4>2, <4>3, <5>1
      <4>4. CASE Lost(v) /\ ~Sent(v)
        <5>1. Sending(c, v) = 1
          BY <1>1, <4>4
        <5>2. Missed(c, v)' = 1 /\ Missed(c, v) = 0
          BY <2>2, <4>1, <4>2, <4>4, <5>1
        <5> QED BY <1>3, <2>2, <4>1, <4>2, <4>4, <5>1, <5>2
      <4>5. CASE ~Sent(v) /\ ~Lost(v)
        <5>1. Sending(c, v) = 0
          BY <1>1, <2>2, <4>5
        <5>2. Missed(c, v)' = Missed(c, v)
          BY <2>2, <4>5
        <5> QED BY <1>3, <2>2, <4>1, <4>2, <4>5, <5>1, <5>2
      <4> QED BY <4>3, <4>4, <4>5
    <3> QED BY <1>1, <3>1, <3>4
  <2> QED BY <2>3, <2>4, <2>5 DEF PipeInv
<1> QED BY <1>4, <1>5, <1>6, <1>7 DEF HubInv

LEMMA HubInvariant == HubSpec => []HubInv
<1>1. HubInv /\ [HubNext]_hubVars => HubInv'
  <2> SUFFICES ASSUME HubInv, [HubNext]_hubVars PROVE HubInv'
    OBVIOUS
  <2>1. CASE UNCHANGED hubVars
    <3>1. \A c \in Clients : PipeInv(c)'
      BY <2>1, PipesKept DEF hubVars, hubHistory
    <3> QED BY <2>1, <3>1 DEF hubVars, hubHistory, HubInv, HubTypeOK, ChannelInOrder, Taken,
          ValueInHand, CallInHand
  <2>2. CASE \E s \in Signals : WriteSignal(s)
    BY <2>2, WriteSignalStep
  <2>3. CASE Chaser
    BY <2>3, TakeValueStep, ChooseTargetStep, ReadAverageStep, StoreAverageStep DEF Chaser
  <2>4. CASE \E c \in Clients : Subscribe(c) \/ Loop(c) \/ Leave(c)
    BY <2>4, ComeAndGoStep, TickResetsStep, ExchangeStep, WriteToStep DEF Loop
  <2> QED BY <2>1, <2>2, <2>3, <2>4 DEF HubNext
<1> QED BY HubInitHolds, <1>1, PTL DEF HubSpec

\* However many clients, signals and values there are, and wherever the counts of an
\* average come round to 0: without a swap in the middle of AggregateAvg each value is
\* reported once, and each such swap repeats a value once at the most.
THEOREM EachValueReportedOnce == HubSpec => []ReportedOnce
<1>1. HubInv => ReportedOnce
  <2> SUFFICES ASSUME HubInv, NEW c \in Clients
               PROVE
        /\ \A v \in hubFed[c] :
             hubRaces[c] > 0 \/ hubLoop[c].at \in {"leaving", "left"}
               \/ (IF Pending(c, v) THEN 1 ELSE 0) + (IF v \in hubMissed[c] THEN 1 ELSE 0)
                    + hubReports[c][v] = 1
        /\ \A v \in Values : hubReports[c][v] <= 1 + hubRaces[c]
    BY DEF ReportedOnce
  <2>1. /\ UnfedNowhere(c) /\ CopiesBounded(c) /\ OnePlace(c)
        /\ hubReports[c] \in [Values -> Nat] /\ hubRaces[c] \in Nat /\ hubFed[c] \subseteq Values
    BY DEF HubInv, PipeInv, HubTypeOK
  <2>2. \A v : Filling(c, v) \in {0, 1} /\ Sending(c, v) \in {0, 1} /\ Missed(c, v) \in {0, 1}
    BY DEF Filling, Sending, Missed
  <2>3. \A v \in Values : hubReports[c][v] <= 1 + hubRaces[c]
    BY <2>1, <2>2 DEF CopiesBounded
  <2>4. ASSUME NEW v \in hubFed[c], hubRaces[c] = 0, hubLoop[c].at \notin {"leaving", "left"}
        PROVE  (IF Pending(c, v) THEN 1 ELSE 0) + (IF v \in hubMissed[c] THEN 1 ELSE 0)
                 + hubReports[c][v] = 1
    <3>1. hubReports[c][v] + Filling(c, v) + Missed(c, v)
            + (IF hubLoop[c].at = "writing" THEN Sending(c, v) ELSE 0) = 1
      BY <2>1, <2>4 DEF OnePlace
    <3>2. Pending(c, v) <=> Filling(c, v) = 1
                            \/ (hubLoop[c].at = "writing" /\ Sending(c, v) = 1)
      BY DEF Pending, LoopAt, Filling, Sending, In
    <3>3. hubReports[c][v] \in Nat
      BY <2>1
    <3>4. (IF Pending(c, v) THEN 1 ELSE 0)
            = Filling(c, v) + (IF hubLoop[c].at = "writing" THEN Sending(c, v) ELSE 0)
      BY <2>2, <3>1, <3>2, <3>3
    <3> QED BY <2>2, <3>1, <3>3, <3>4 DEF Missed
  <2> QED BY <2>1, <2>3, <2>4
<1> QED BY HubInvariant, <1>1, PTL

-----------------------------------------------------------------------------
(* NetworkMonitor: a change of the device is in the stream, on its way to   *)
(* it, or known to be late.  A full channel drops reports from its front    *)
(* and never the ones of the last change, which are behind them.            *)

NetStates == {"on", "off"}
Items == [of : {"stations", "profiles", "connectivity"}, st : {"now"} \union NetStates]
Lists == SUBSET (Networks \X BOOLEAN)

NetTypeOK ==
  /\ nmProfiles \in SUBSET Networks
  /\ nmWired \in 0 .. 1
  /\ nmVisible \in BOOLEAN
  /\ nmQueue \in Seq(Items)
  /\ nmListener \in {"starting", "listening", "dead"}
  /\ nmTodo \in [Runners -> Seq(Items)]
  /\ DOMAIN nmSeen = Runners
  /\ nmReported \in [stations : BOOLEAN, profiles : Lists,
                     connectivity : {"none"} \union NetStates]
  /\ nmLate \in SUBSET {"stations", "connectivity", "profiles"}

\* What was read has its type, and the state of an event is the event's.
Fits(r, seen) ==
  /\ DOMAIN seen = {"visible"} => seen.visible \in BOOLEAN
  /\ DOMAIN seen = {"profiles"} => seen.profiles \in Lists
  /\ DOMAIN seen = {"actual", "current"} => seen.actual \in Lists
  /\ "state" \in DOMAIN seen =>
       /\ seen.state \in NetStates
       /\ Head(nmTodo[r]).st # "now" => seen.state = Head(nmTodo[r]).st

SeenFits ==
  \A r \in Runners :
    Fits(r, nmSeen[r]) /\ (nmTodo[r] = <<>> => nmSeen[r] = Unread)

\* Nothing comes from the device before the listener has subscribed, and commands
\* and scans report what they read.
PlainReports ==
  /\ nmListener = "starting" =>
       /\ nmQueue = <<>>
       /\ \A i \in DOMAIN nmTodo["listener"] : nmTodo["listener"][i].st = "now"
  /\ \A r \in Runners \ {"listener"} : \A i \in DOMAIN nmTodo[r] : nmTodo[r][i].st = "now"

Awaited(what) == \E i \in DOMAIN nmQueue : nmQueue[i].of = what
ToDo(r, what) == \E i \in DOMAIN nmTodo[r] : nmTodo[r][i].of = what

\* The last event of the device says what the device is.
LastEventIsTrue ==
  /\ \A i \in DOMAIN nmQueue :
       nmQueue[i].of = "connectivity"
         => \/ \E j \in DOMAIN nmQueue : j > i /\ nmQueue[j].of = "connectivity"
            \/ nmQueue[i].st = IsOn(nmDevice)
  /\ ~Awaited("connectivity") =>
       \A i \in DOMAIN nmTodo["listener"] :
         nmTodo["listener"][i].of = "connectivity" /\ nmTodo["listener"][i].st # "now"
           => nmTodo["listener"][i].st = IsOn(nmDevice)

\* What is neither on its way nor late is in the stream.
ConnectivityFollows ==
  \/ Awaited("connectivity") \/ ToDo("listener", "connectivity")
  \/ "connectivity" \in nmLate \/ nmListener = "dead"
  \/ nmReported.connectivity = IsOn(nmDevice)

ProfilesFollow ==
  \/ Awaited("profiles") \/ (\E r \in Runners : ToDo(r, "profiles"))
  \/ "profiles" \in nmLate \/ nmListener = "dead"
  \/ ProfilesAsListed

NetInv ==
  /\ NetTypeOK /\ SeenFits /\ PlainReports /\ LastEventIsTrue
  /\ ConnectivityFollows /\ ProfilesFollow

-----------------------------------------------------------------------------
LEMMA ListsAreTyped == \A active : ListOf(nmProfiles, active) \subseteq nmProfiles \X BOOLEAN
<1> SUFFICES ASSUME NEW active, NEW n \in nmProfiles
             PROVE  <<n, n = active>> \in nmProfiles \X BOOLEAN
  BY DEF ListOf
<1>1. (n = active) \in BOOLEAN
  OBVIOUS
<1> QED BY <1>1

LEMMA NetworksFinite ==
  ASSUME NetTypeOK
  PROVE  /\ IsFiniteSet(Listed) /\ \A list \in Lists : IsFiniteSet(list)
         /\ \A active : ListOf(nmProfiles, active) \in Lists
<1>1. IsFiniteSet(Networks \X BOOLEAN)
  <2>1. IsFiniteSet(BOOLEAN)
    <3>1. BOOLEAN = {TRUE, FALSE}
      OBVIOUS
    <3>2. IsFiniteSet({TRUE} \union {FALSE})
      BY FS_AddElement, FS_Singleton
    <3>3. BOOLEAN = {TRUE} \union {FALSE}
      BY <3>1
    <3> QED BY <3>2, <3>3
  <2> QED BY <2>1, NetworkBoundsAssumption, FS_Product
<1>2. \A list \in Lists : IsFiniteSet(list)
  BY <1>1, FS_Subset DEF Lists
<1>3. \A active : ListOf(nmProfiles, active) \in Lists
  BY ListsAreTyped DEF NetTypeOK, Lists
<1> QED BY <1>2, <1>3 DEF Listed

LEMMA ReportsAreItems ==
  /\ \A what \in {"stations", "profiles", "connectivity"} :
       Report(what) \in Items /\ Report(what).of = what /\ Report(what).st = "now"
  /\ \A st \in NetStates :
       Connectivity(st) \in Items /\ Connectivity(st).of = "connectivity"
       /\ Connectivity(st).st = st
  /\ \A d : IsOn(d) \in NetStates /\ (IsOn(d) = "on" <=> d # Off)
BY DEF Report, Connectivity, Items, NetStates, IsOn

LEMMA UnreadIsNothing == DOMAIN Unread = {"nothing"}
BY DEF Unread

LEMMA RunnersAre ==
  /\ "listener" \in Runners /\ "command" \in Runners /\ "command" # "listener"
  /\ \A s \in Scans : s \in Runners /\ s # "listener"
BY ScansAssumption DEF Runners

\* What a runner of <<a, b, c>> or <<a, b>> has to do.
LEMMA ListOfThree ==
  ASSUME NEW S, NEW a \in S, NEW b \in S, NEW c \in S
  PROVE  LET q == <<a, b, c>>
         IN  /\ q \in Seq(S) /\ Len(q) = 3 /\ DOMAIN q = 1 .. 3
             /\ q[1] = a /\ q[2] = b /\ q[3] = c
OBVIOUS

LEMMA ListOfTwo ==
  ASSUME NEW S, NEW a \in S, NEW b \in S
  PROVE  LET q == <<a, b>>
         IN  /\ q \in Seq(S) /\ Len(q) = 2 /\ DOMAIN q = 1 .. 2
             /\ q[1] = a /\ q[2] = b
OBVIOUS

LEMMA ListOfOne ==
  ASSUME NEW S, NEW a \in S
  PROVE  LET q == <<a>>
         IN  q \in Seq(S) /\ Len(q) = 1 /\ DOMAIN q = 1 .. 1 /\ q[1] = a
OBVIOUS

\* The first item of a sequence and the ones behind it.
LEMMA HeadAndTail ==
  ASSUME NEW S, NEW q \in Seq(S), q # <<>>
  PROVE  /\ Len(q) \in Nat /\ Len(q) >= 1 /\ DOMAIN q = 1 .. Len(q)
         /\ Head(q) = q[1] /\ Head(q) \in S /\ 1 \in DOMAIN q
         /\ Tail(q) \in Seq(S) /\ Len(Tail(q)) = Len(q) - 1
         /\ DOMAIN Tail(q) = 1 .. Len(q) - 1
         /\ \A i \in DOMAIN Tail(q) : i + 1 \in DOMAIN q /\ Tail(q)[i] = q[i + 1]
         /\ \A i \in DOMAIN q : i # 1 => i - 1 \in DOMAIN Tail(q) /\ Tail(q)[i - 1] = q[i]
OBVIOUS

\* Three items appended to others.
LEMMA Appended ==
  ASSUME NEW S, NEW q \in Seq(S), NEW items \in Seq(S), Len(items) = 3
  PROVE  /\ q \o items \in Seq(S) /\ Len(q \o items) = Len(q) + 3 /\ Len(q) \in Nat
         /\ DOMAIN q = 1 .. Len(q)
         /\ \A i \in 1 .. Len(q) : (q \o items)[i] = q[i]
         /\ (q \o items)[Len(q) + 1] = items[1]
         /\ (q \o items)[Len(q) + 2] = items[2]
         /\ (q \o items)[Len(q) + 3] = items[3]
<1>1. Len(q) \in Nat /\ DOMAIN q = 1 .. Len(q) /\ DOMAIN items = 1 .. 3
  OBVIOUS
<1>2. /\ q \o items \in Seq(S) /\ Len(q \o items) = Len(q) + Len(items)
      /\ \A i \in 1 .. Len(q) + Len(items) :
           (q \o items)[i] = IF i <= Len(q) THEN q[i] ELSE items[i - Len(q)]
  BY ConcatProperties
<1> DEFINE all == q \o items
<1> HIDE DEF all
<1>3. \A i \in 1 .. Len(q) : all[i] = q[i]
  BY <1>1, <1>2 DEF all
<1>4. \A i \in 1 .. 3 : all[Len(q) + i] = items[i]
  <2> SUFFICES ASSUME NEW i \in 1 .. 3 PROVE all[Len(q) + i] = items[i]
    OBVIOUS
  <2>1. Len(q) + i \in 1 .. Len(q) + Len(items) /\ ~(Len(q) + i <= Len(q))
        /\ (Len(q) + i) - Len(q) = i
    BY <1>1
  <2> QED BY <1>2, <2>1 DEF all
<1> QED BY <1>1, <1>2, <1>3, <1>4 DEF all

\* Three items written to the channel are its last ones; what is before them was in
\* it already.
LEMMA WrittenLast ==
  ASSUME NEW q \in Seq(Items), NEW items \in Seq(Items), Len(items) = 3
  PROVE  \E n \in Nat :
           /\ WriteAll(q, items) \in Seq(Items)
           /\ DOMAIN WriteAll(q, items) = 1 .. n + 3
           /\ WriteAll(q, items)[n + 1] = items[1]
           /\ WriteAll(q, items)[n + 2] = items[2]
           /\ WriteAll(q, items)[n + 3] = items[3]
           /\ \A i \in 1 .. n : \E j \in DOMAIN q : WriteAll(q, items)[i] = q[j]
<1> DEFINE all == q \o items
<1>1. /\ all \in Seq(Items) /\ Len(all) = Len(q) + 3 /\ Len(q) \in Nat
      /\ DOMAIN q = 1 .. Len(q)
      /\ \A i \in 1 .. Len(q) : all[i] = q[i]
      /\ all[Len(q) + 1] = items[1] /\ all[Len(q) + 2] = items[2]
      /\ all[Len(q) + 3] = items[3]
  BY Appended
<1>2. WriteAll(q, items) = IF Len(all) <= 5 THEN all ELSE SubSeq(all, Len(all) - 5 + 1, Len(all))
  BY DEF WriteAll, Places
<1> HIDE DEF all
<1>3. CASE Len(all) <= 5
  <2>1. WriteAll(q, items) = all /\ DOMAIN all = 1 .. Len(q) + 3
    BY <1>1, <1>2, <1>3
  <2> QED BY <1>1, <2>1
<1>4. CASE Len(all) > 5
  <2> DEFINE w == SubSeq(all, Len(all) - 5 + 1, Len(all))
  <2>1. WriteAll(q, items) = w
    BY <1>1, <1>2, <1>4
  <2>2. /\ w \in Seq(Items) /\ Len(w) = 5 /\ DOMAIN w = 1 .. 5
        /\ \A i \in 1 .. 5 : w[i] = all[Len(all) - 5 + i]
    BY <1>1, <1>4
  <2> HIDE DEF w
  <2>3. w[1] = all[Len(q) - 1] /\ w[2] = all[Len(q)] /\ w[3] = all[Len(q) + 1]
        /\ w[4] = all[Len(q) + 2] /\ w[5] = all[Len(q) + 3]
    BY <1>1, <1>4, <2>2
  <2>4. Len(q) - 1 \in 1 .. Len(q) /\ Len(q) \in 1 .. Len(q)
    BY <1>1, <1>4
  <2>5. \A i \in 1 .. 2 : \E j \in DOMAIN q : w[i] = q[j]
    <3>1. w[1] = q[Len(q) - 1] /\ w[2] = q[Len(q)]
      BY <1>1, <2>3, <2>4
    <3>2. \A i \in 1 .. 2 : i = 1 \/ i = 2
      OBVIOUS
    <3> QED BY <1>1, <2>4, <3>1, <3>2
  <2>6. DOMAIN w = 1 .. 2 + 3 /\ w[2 + 1] = items[1] /\ w[2 + 2] = items[2] /\ w[2 + 3] = items[3]
    BY <1>1, <2>2, <2>3
  <2> QED BY <2>1, <2>2, <2>5, <2>6
<1> QED BY <1>1, <1>3, <1>4

LEMMA NetInitHolds == NetInit => NetInv
<1> SUFFICES ASSUME NetInit PROVE NetInv
  OBVIOUS
<1> DEFINE start == <<Report("stations"), Report("profiles"), Report("connectivity")>>
<1>1. /\ start \in Seq(Items) /\ DOMAIN start = 1 .. 3
      /\ start[1] = Report("stations") /\ start[2] = Report("profiles")
      /\ start[3] = Report("connectivity")
  BY ReportsAreItems, ListOfThree
<1>2. /\ nmTodo["listener"] = start
      /\ \A r \in Runners \ {"listener"} : nmTodo[r] = <<>>
      /\ nmTodo \in [Runners -> Seq(Items)]
  BY <1>1, RunnersAre DEF NetInit
<1> HIDE DEF start
<1>3. NetTypeOK
  <2>1. DOMAIN nmSeen = Runners /\ nmQueue \in Seq(Items)
    BY DEF NetInit
  <2>2. nmReported \in [stations : BOOLEAN, profiles : Lists,
                        connectivity : {"none"} \union NetStates]
    BY DEF NetInit, Lists
  <2> QED BY <1>2, <2>1, <2>2 DEF NetInit, NetTypeOK
<1>4. SeenFits
  <2>1. \A r \in Runners : nmSeen[r] = Unread
    BY DEF NetInit
  <2> QED BY <2>1, UnreadIsNothing DEF SeenFits, Fits
<1>5. PlainReports
  <2>1. \A i \in 1 .. 3 : start[i].st = "now"
    BY <1>1, ReportsAreItems
  <2> QED BY <1>1, <1>2, <2>1 DEF NetInit, PlainReports
<1>6. LastEventIsTrue
  <2>1. \A i \in DOMAIN nmTodo["listener"] : nmTodo["listener"][i].st = "now"
    BY <1>5 DEF PlainReports, NetInit
  <2>2. nmQueue = <<>>
    BY DEF NetInit
  <2> QED BY <2>1, <2>2 DEF LastEventIsTrue
<1>7. ToDo("listener", "connectivity") /\ ToDo("listener", "profiles")
  BY <1>1, <1>2, ReportsAreItems DEF ToDo
<1>8. ConnectivityFollows /\ ProfilesFollow
  BY <1>7, RunnersAre DEF ConnectivityFollows, ProfilesFollow
<1> QED BY <1>3, <1>4, <1>5, <1>6, <1>8 DEF NetInv

-----------------------------------------------------------------------------
\* The device is another one, and the listener hears of it once it has subscribed.
LEMMA DeviceFacts ==
  ASSUME NetInv, NEW d, DeviceBecomes(d)
  PROVE  /\ nmDevice' = d
         /\ nmQueue' \in Seq(Items)
         /\ nmLate' \in SUBSET {"stations", "connectivity", "profiles"}
         /\ nmListener = "starting"
              => nmQueue' = nmQueue /\ nmLate' = {"connectivity", "profiles"}
         /\ nmListener # "starting" =>
              /\ nmLate' = nmLate
              /\ \E n \in Nat :
                   /\ DOMAIN nmQueue' = 1 .. n + 3
                   /\ nmQueue'[n + 1] = Report("stations")
                   /\ nmQueue'[n + 2] = Connectivity(IsOn(d))
                   /\ nmQueue'[n + 3] = Report("profiles")
                   /\ \A i \in 1 .. n : \E j \in DOMAIN nmQueue : nmQueue'[i] = nmQueue[j]
<1>1. /\ nmDevice' = d /\ Handled(IsOn(d))
      /\ nmLate' = IF nmListener = "starting" THEN {"connectivity", "profiles"} ELSE nmLate
  BY DEF DeviceBecomes
<1>2. nmQueue \in Seq(Items) /\ nmLate \in SUBSET {"stations", "connectivity", "profiles"}
  BY DEF NetInv, NetTypeOK
<1>3. CASE nmListener = "starting"
  BY <1>1, <1>2, <1>3 DEF Handled
<1>4. CASE nmListener # "starting"
  <2> DEFINE items == <<Report("stations"), Connectivity(IsOn(d)), Report("profiles")>>
  <2>1. /\ items \in Seq(Items) /\ Len(items) = 3 /\ items[1] = Report("stations")
        /\ items[2] = Connectivity(IsOn(d)) /\ items[3] = Report("profiles")
    BY ReportsAreItems, ListOfThree
  <2>2. nmQueue' = WriteAll(nmQueue, items)
    BY <1>1, <1>4 DEF Handled
  <2> HIDE DEF items
  <2>3. PICK n \in Nat :
          /\ WriteAll(nmQueue, items) \in Seq(Items)
          /\ DOMAIN WriteAll(nmQueue, items) = 1 .. n + 3
          /\ WriteAll(nmQueue, items)[n + 1] = items[1]
          /\ WriteAll(nmQueue, items)[n + 2] = items[2]
          /\ WriteAll(nmQueue, items)[n + 3] = items[3]
          /\ \A i \in 1 .. n : \E j \in DOMAIN nmQueue :
               WriteAll(nmQueue, items)[i] = nmQueue[j]
    BY <1>2, <2>1, WrittenLast
  <2> QED BY <1>1, <1>2, <1>4, <2>1, <2>2, <2>3
<1> QED BY <1>3, <1>4

\* What the reports of a command or a scan have in common.
Commanded(reports) ==
  /\ reports \in Seq(Items)
  /\ \A i \in DOMAIN reports : reports[i].st = "now"
  /\ \E i \in DOMAIN reports : reports[i].of = "profiles"

\* What the others and the handler of commands do to NetworkManager.
WorldMoves ==
  /\ UNCHANGED <<nmListener, nmSeen, nmReported, nmWired>>
  /\ nmProfiles' \in SUBSET Networks /\ nmVisible' \in BOOLEAN
  /\ \/ nmTodo' = nmTodo /\ nmProfiles' = nmProfiles
     \/ \E r \in Runners \ {"listener"} : \E reports :
          /\ Commanded(reports)
          /\ nmTodo[r] = <<>> /\ nmTodo' = [nmTodo EXCEPT ![r] = reports]
  /\ \/ UNCHANGED <<nmDevice, nmQueue, nmLate>>
     \/ \E d : DeviceBecomes(d)

LEMMA CommandMoves ==
  ASSUME NetInv, NEW reports, Commanded(reports), NextCommand(reports),
         nmProfiles' \in SUBSET Networks,
         UNCHANGED <<nmDevice, nmQueue, nmLate>> \/ \E d : DeviceBecomes(d)
  PROVE  WorldMoves
<1>1. /\ UNCHANGED <<nmListener, nmSeen, nmReported, nmWired>>
      /\ nmTodo["command"] = <<>> /\ nmTodo' = [nmTodo EXCEPT !["command"] = reports]
      /\ nmVisible' \in BOOLEAN
  BY DEF NetInv, NetTypeOK, NextCommand
<1>2. "command" \in Runners \ {"listener"}
  BY RunnersAre
<1> QED BY <1>1, <1>2 DEF WorldMoves

LEMMA CommandLists ==
  /\ Commanded(<<Report("profiles")>>)
  /\ Commanded(<<Report("profiles"), Report("connectivity")>>)
  /\ Commanded(<<Report("stations"), Report("profiles"), Report("connectivity")>>)
<1> DEFINE one == <<Report("profiles")>>
           two == <<Report("profiles"), Report("connectivity")>>
           three == <<Report("stations"), Report("profiles"), Report("connectivity")>>
<1>1. /\ one \in Seq(Items) /\ DOMAIN one = 1 .. 1 /\ one[1] = Report("profiles")
  BY ReportsAreItems, ListOfOne
<1>2. /\ two \in Seq(Items) /\ DOMAIN two = 1 .. 2
      /\ two[1] = Report("profiles") /\ two[2] = Report("connectivity")
  BY ReportsAreItems, ListOfTwo
<1>3. /\ three \in Seq(Items) /\ DOMAIN three = 1 .. 3
      /\ three[1] = Report("stations") /\ three[2] = Report("profiles")
      /\ three[3] = Report("connectivity")
  BY ReportsAreItems, ListOfThree
<1> HIDE DEF one, two, three
<1>4. Commanded(one) /\ Commanded(two) /\ Commanded(three)
  BY <1>1, <1>2, <1>3, ReportsAreItems DEF Commanded
<1> QED BY <1>4 DEF one, two, three

LEMMA WorldIs ==
  ASSUME NetInv,
         \/ DeviceChanges \/ AccessPointChanges
         \/ \E n \in Networks : Define(n) \/ Delete(n) \/ Activate(n)
         \/ Disconnect \/ RequestWifiScan
  PROVE  WorldMoves
<1>1. nmProfiles \in SUBSET Networks /\ nmVisible \in BOOLEAN
  BY DEF NetInv, NetTypeOK
<1>2. CASE DeviceChanges
  <2>1. \E d : DeviceBecomes(d)
    BY <1>2 DEF DeviceChanges
  <2> QED BY <1>1, <1>2, <2>1 DEF DeviceChanges, WorldMoves
<1>3. CASE AccessPointChanges
  BY <1>1, <1>3 DEF AccessPointChanges, WorldMoves
<1>4. ASSUME NEW n \in Networks, Define(n) PROVE WorldMoves
  <2>1. NextCommand(<<Report("profiles")>>) /\ nmProfiles' = nmProfiles \union {n}
        /\ UNCHANGED <<nmDevice, nmQueue, nmLate>>
    BY <1>4 DEF Define
  <2>2. nmProfiles' \in SUBSET Networks
    BY <1>1, <2>1
  <2> QED BY <2>1, <2>2, CommandLists, CommandMoves
<1>5. ASSUME NEW n \in Networks, Delete(n) PROVE WorldMoves
  <2>1. /\ NextCommand(<<Report("profiles")>>) /\ nmProfiles' = nmProfiles \ {n}
        /\ \/ UNCHANGED <<nmDevice, nmQueue, nmLate>>
           \/ DeviceBecomes(Off)
    BY <1>5 DEF Delete
  <2>2. nmProfiles' \in SUBSET Networks
    BY <1>1, <2>1
  <2>3. UNCHANGED <<nmDevice, nmQueue, nmLate>> \/ \E d : DeviceBecomes(d)
    BY <2>1
  <2> QED BY <2>1, <2>2, <2>3, CommandLists, CommandMoves
<1>6. ASSUME NEW d, NextCommand(<<Report("profiles"), Report("connectivity")>>),
             DeviceBecomes(d), nmProfiles' = nmProfiles
      PROVE  WorldMoves
  BY <1>1, <1>6, CommandLists, CommandMoves
<1>7. CASE RequestWifiScan
  <2> DEFINE three == <<Report("stations"), Report("profiles"), Report("connectivity")>>
  <2>1. PICK s \in Scans : nmTodo[s] = <<>> /\ nmTodo' = [nmTodo EXCEPT ![s] = three]
    BY <1>7 DEF RequestWifiScan
  <2>2. Commanded(three)
    BY CommandLists
  <2> HIDE DEF three
  <2>3. UNCHANGED <<nmProfiles, nmDevice, nmWired, nmVisible, nmQueue, nmListener, nmSeen,
                    nmReported, nmLate>>
    BY <1>7 DEF RequestWifiScan, nmWorld
  <2> QED BY <1>1, <2>1, <2>2, <2>3, RunnersAre DEF WorldMoves
<1>8. CASE Disconnect
  BY <1>6, <1>8 DEF Disconnect
<1>9. ASSUME NEW n \in Networks, Activate(n) PROVE WorldMoves
  BY <1>6, <1>9 DEF Activate
<1> QED BY <1>2, <1>3, <1>4, <1>5, <1>7, <1>8, <1>9

\* They change what a runner that has nothing to do has to do, and when they change
\* the profiles it has to report them.
LEMMA WorldTodo ==
  ASSUME NetInv, WorldMoves
  PROVE  /\ nmTodo' \in [Runners -> Seq(Items)]
         /\ nmTodo'["listener"] = nmTodo["listener"]
         /\ \A r \in Runners : nmTodo'[r] = nmTodo[r] \/ nmTodo[r] = <<>>
         /\ \A r \in Runners \ {"listener"} :
              \A i \in DOMAIN nmTodo'[r] : nmTodo'[r][i].st = "now"
         /\ \/ nmTodo' = nmTodo /\ nmProfiles' = nmProfiles
            \/ \E r \in Runners : ToDo(r, "profiles")'
<1>1. /\ nmTodo \in [Runners -> Seq(Items)]
      /\ \A r \in Runners \ {"listener"} : \A i \in DOMAIN nmTodo[r] : nmTodo[r][i].st = "now"
  BY DEF NetInv, NetTypeOK, PlainReports
<1>2. CASE nmTodo' = nmTodo /\ nmProfiles' = nmProfiles
  BY <1>1, <1>2
<1>3. ASSUME NEW r \in Runners \ {"listener"}, NEW reports, Commanded(reports),
             nmTodo[r] = <<>>, nmTodo' = [nmTodo EXCEPT ![r] = reports]
      PROVE  /\ nmTodo' \in [Runners -> Seq(Items)]
             /\ nmTodo'["listener"] = nmTodo["listener"]
             /\ \A s \in Runners : nmTodo'[s] = nmTodo[s] \/ nmTodo[s] = <<>>
             /\ \A s \in Runners \ {"listener"} :
                  \A i \in DOMAIN nmTodo'[s] : nmTodo'[s][i].st = "now"
             /\ \E s \in Runners : ToDo(s, "profiles")'
  <2>1. reports \in Seq(Items) /\ \A i \in DOMAIN reports : reports[i].st = "now"
    BY <1>3 DEF Commanded
  <2>2. nmTodo'[r] = reports /\ \A s \in Runners \ {r} : nmTodo'[s] = nmTodo[s]
    BY <1>1, <1>3
  <2>3. nmTodo' \in [Runners -> Seq(Items)]
    BY <1>1, <1>3, <2>1
  <2>4. ToDo(r, "profiles")'
    BY <1>3, <2>2 DEF Commanded, ToDo
  <2> QED BY <1>1, <1>3, <2>1, <2>2, <2>3, <2>4, RunnersAre
<1> QED BY <1>2, <1>3 DEF WorldMoves

\* Under them the last event stays true, and what has to be reported is known.
LEMMA WorldMovesStep ==
  ASSUME NetInv, WorldMoves
  PROVE  NetInv'
<1>1. /\ UNCHANGED <<nmListener, nmSeen, nmReported, nmWired>>
      /\ nmProfiles' \in SUBSET Networks /\ nmVisible' \in BOOLEAN
      /\ \/ UNCHANGED <<nmDevice, nmQueue, nmLate>>
         \/ \E d : DeviceBecomes(d)
  BY DEF WorldMoves
<1>2. /\ nmTodo' \in [Runners -> Seq(Items)]
      /\ nmTodo'["listener"] = nmTodo["listener"]
      /\ \A r \in Runners : nmTodo'[r] = nmTodo[r] \/ nmTodo[r] = <<>>
      /\ \A r \in Runners \ {"listener"} :
           \A i \in DOMAIN nmTodo'[r] : nmTodo'[r][i].st = "now"
      /\ \/ nmTodo' = nmTodo /\ nmProfiles' = nmProfiles
         \/ \E r \in Runners : ToDo(r, "profiles")'
  BY WorldTodo
<1>3. NetTypeOK'
  <2>1. /\ nmQueue' \in Seq(Items)
        /\ nmLate' \in SUBSET {"stations", "connectivity", "profiles"}
    <3>1. CASE UNCHANGED <<nmDevice, nmQueue, nmLate>>
      BY <3>1 DEF NetInv, NetTypeOK
    <3>2. ASSUME NEW d, DeviceBecomes(d)
          PROVE  /\ nmQueue' \in Seq(Items)
                 /\ nmLate' \in SUBSET {"stations", "connectivity", "profiles"}
      BY <3>2, DeviceFacts
    <3> QED BY <1>1, <3>1, <3>2
  <2> QED BY <1>1, <1>2, <2>1 DEF NetInv, NetTypeOK
<1>4. SeenFits'
  <2> SUFFICES ASSUME NEW r \in Runners
               PROVE  Fits(r, nmSeen[r])' /\ (nmTodo'[r] = <<>> => nmSeen'[r] = Unread)
    BY DEF SeenFits
  <2>1. Fits(r, nmSeen[r]) /\ (nmTodo[r] = <<>> => nmSeen[r] = Unread) /\ nmSeen' = nmSeen
    BY <1>1 DEF NetInv, SeenFits
  <2>2. CASE nmTodo'[r] = nmTodo[r]
    BY <2>1, <2>2 DEF Fits
  <2>3. CASE nmTodo[r] = <<>>
    BY <2>1, <2>3, UnreadIsNothing DEF Fits
  <2> QED BY <1>2, <2>2, <2>3
<1>5. PlainReports'
  <2>1. nmListener = "starting" => nmQueue' = <<>>
    <3>1. nmListener = "starting" => nmQueue = <<>>
      BY DEF NetInv, PlainReports
    <3>2. CASE nmQueue' = nmQueue
      BY <3>1, <3>2
    <3>3. ASSUME NEW d, DeviceBecomes(d) PROVE nmListener = "starting" => nmQueue' = nmQueue
      BY <3>3, DeviceFacts
    <3> QED BY <1>1, <3>1, <3>2, <3>3
  <2> QED BY <1>1, <1>2, <2>1 DEF NetInv, PlainReports
<1>6. CASE UNCHANGED <<nmDevice, nmQueue, nmLate>>
  <2>1. LastEventIsTrue' /\ ConnectivityFollows'
    BY <1>1, <1>2, <1>6 DEF NetInv, LastEventIsTrue, ConnectivityFollows, Awaited, ToDo
  <2>2. ProfilesFollow'
    <3>1. CASE nmTodo' = nmTodo /\ nmProfiles' = nmProfiles
      BY <1>1, <1>6, <3>1 DEF NetInv, ProfilesFollow, ProfilesAsListed, Listed, ListOf,
         Awaited, ToDo
    <3>2. CASE \E r \in Runners : ToDo(r, "profiles")'
      BY <3>2 DEF ProfilesFollow
    <3> QED BY <1>2, <3>1, <3>2
  <2> QED BY <1>3, <1>4, <1>5, <2>1, <2>2 DEF NetInv
<1>7. ASSUME NEW d, DeviceBecomes(d), nmListener = "starting" PROVE NetInv'
  <2>1. nmDevice' = d /\ nmQueue' = <<>> /\ nmLate' = {"connectivity", "profiles"}
    BY <1>7, DeviceFacts DEF NetInv, PlainReports
  <2>2. \A i \in DOMAIN nmTodo'["listener"] : nmTodo'["listener"][i].st = "now"
    BY <1>2, <1>7 DEF NetInv, PlainReports
  <2>3. LastEventIsTrue' /\ ConnectivityFollows' /\ ProfilesFollow'
    BY <2>1, <2>2 DEF LastEventIsTrue, ConnectivityFollows, ProfilesFollow
  <2> QED BY <1>3, <1>4, <1>5, <2>3 DEF NetInv
<1>8. ASSUME NEW d, DeviceBecomes(d), nmListener # "starting" PROVE NetInv'
  <2>1. nmDevice' = d /\ nmLate' = nmLate
    BY <1>8, DeviceFacts
  <2>2. PICK n \in Nat :
          /\ DOMAIN nmQueue' = 1 .. n + 3
          /\ nmQueue'[n + 1] = Report("stations")
          /\ nmQueue'[n + 2] = Connectivity(IsOn(d))
          /\ nmQueue'[n + 3] = Report("profiles")
          /\ \A i \in 1 .. n : \E j \in DOMAIN nmQueue : nmQueue'[i] = nmQueue[j]
    BY <1>8, DeviceFacts
  <2>3. /\ n + 1 \in 1 .. n + 3 /\ n + 2 \in 1 .. n + 3 /\ n + 3 \in 1 .. n + 3
        /\ \A i \in 1 .. n + 3 : i \in 1 .. n \/ i = n + 1 \/ i = n + 2 \/ i = n + 3
        /\ \A i \in 1 .. n : n + 2 > i
        /\ n + 2 > n + 1
    OBVIOUS
  <2>4. /\ nmQueue'[n + 1].of = "stations"
        /\ nmQueue'[n + 2].of = "connectivity" /\ nmQueue'[n + 2].st = IsOn(d)
        /\ nmQueue'[n + 3].of = "profiles"
    BY <2>2, ReportsAreItems
  <2>5. Awaited("connectivity")' /\ Awaited("profiles")'
    BY <2>2, <2>3, <2>4 DEF Awaited
  <2>6. ConnectivityFollows' /\ ProfilesFollow'
    BY <2>5 DEF ConnectivityFollows, ProfilesFollow
  <2>7. LastEventIsTrue'
    <3> SUFFICES ASSUME NEW i \in DOMAIN nmQueue', nmQueue'[i].of = "connectivity"
                 PROVE  \/ \E j \in DOMAIN nmQueue' : j > i /\ nmQueue'[j].of = "connectivity"
                        \/ nmQueue'[i].st = IsOn(nmDevice')
      BY <2>5 DEF LastEventIsTrue, IsOn
    <3> QED BY <2>1, <2>2, <2>3, <2>4
  <2> QED BY <1>3, <1>4, <1>5, <2>6, <2>7 DEF NetInv
<1>9. ASSUME NEW d, DeviceBecomes(d) PROVE NetInv'
  BY <1>7, <1>8, <1>9
<1> QED BY <1>1, <1>6, <1>9

-----------------------------------------------------------------------------
\* A report that is made leaves the rest of what a runner has to do.
LEMMA FinishKeeps ==
  ASSUME NetInv, NEW r \in Runners, nmTodo[r] # <<>>, Finish(r),
         nmReported' \in [stations : BOOLEAN, profiles : Lists,
                          connectivity : {"none"} \union NetStates],
         nmLate' \in SUBSET {"stations", "connectivity", "profiles"}
  PROVE  /\ NetTypeOK' /\ SeenFits' /\ PlainReports' /\ LastEventIsTrue'
         /\ \A what : Awaited(what)' = Awaited(what)
         /\ \A s \in Runners : \A what : s # r \/ Head(nmTodo[r]).of # what
                               => (ToDo(s, what)' <=> ToDo(s, what))
<1> DEFINE q == nmTodo[r]
<1>1. /\ nmTodo \in [Runners -> Seq(Items)] /\ DOMAIN nmSeen = Runners
      /\ q \in Seq(Items) /\ q # <<>>
      /\ nmTodo' = [nmTodo EXCEPT ![r] = Tail(nmTodo[r])]
      /\ nmSeen' = [nmSeen EXCEPT ![r] = Unread]
      /\ UNCHANGED <<nmProfiles, nmDevice, nmWired, nmVisible, nmQueue, nmListener,
                     nmChanges, nmCommands>>
  BY DEF NetInv, NetTypeOK, Finish, nmWorld
<1>2. /\ Len(q) \in Nat /\ Len(q) >= 1 /\ DOMAIN q = 1 .. Len(q)
      /\ Head(q) = q[1] /\ Head(q) \in Items /\ 1 \in DOMAIN q
      /\ Tail(q) \in Seq(Items) /\ Len(Tail(q)) = Len(q) - 1
      /\ DOMAIN Tail(q) = 1 .. Len(q) - 1
      /\ \A i \in DOMAIN Tail(q) : i + 1 \in DOMAIN q /\ Tail(q)[i] = q[i + 1]
      /\ \A i \in DOMAIN q : i # 1 => i - 1 \in DOMAIN Tail(q) /\ Tail(q)[i - 1] = q[i]
  <2> HIDE DEF q
  <2> QED BY <1>1, HeadAndTail
<1>3. /\ nmTodo' \in [Runners -> Seq(Items)] /\ nmTodo'[r] = Tail(q)
      /\ \A s \in Runners \ {r} : nmTodo'[s] = nmTodo[s]
  <2> HIDE DEF q
  <2> QED BY <1>1, <1>2 DEF q
<1>4. /\ nmSeen'[r] = Unread /\ \A s \in Runners \ {r} : nmSeen'[s] = nmSeen[s]
      /\ DOMAIN nmSeen' = Runners
  BY <1>1
<1>5. NetTypeOK'
  BY <1>1, <1>3, <1>4 DEF NetInv, NetTypeOK
<1>6. SeenFits'
  <2> SUFFICES ASSUME NEW s \in Runners
               PROVE  Fits(s, nmSeen[s])' /\ (nmTodo'[s] = <<>> => nmSeen'[s] = Unread)
    BY DEF SeenFits
  <2>1. CASE s = r
    BY <1>4, <2>1, UnreadIsNothing DEF Fits
  <2>2. CASE s # r
    <3>1. nmTodo'[s] = nmTodo[s] /\ nmSeen'[s] = nmSeen[s]
      BY <1>3, <1>4, <2>2
    <3>2. Fits(s, nmSeen[s]) /\ (nmTodo[s] = <<>> => nmSeen[s] = Unread)
      BY DEF NetInv, SeenFits
    <3> QED BY <3>1, <3>2 DEF Fits
  <2> QED BY <2>1, <2>2
<1> HIDE DEF q
<1>7. ASSUME \A i \in DOMAIN q : q[i].st = "now"
      PROVE  \A i \in DOMAIN Tail(q) : Tail(q)[i].st = "now"
  BY <1>2, <1>7
<1>8. PlainReports'
  <2>1. ASSUME nmListener = "starting"
        PROVE  \A i \in DOMAIN nmTodo'["listener"] : nmTodo'["listener"][i].st = "now"
    <3>1. \A i \in DOMAIN nmTodo["listener"] : nmTodo["listener"][i].st = "now"
      BY <2>1 DEF NetInv, PlainReports
    <3>2. CASE r = "listener"
      BY <1>3, <1>7, <3>1, <3>2 DEF q
    <3>3. CASE r # "listener"
      BY <1>3, <3>1, <3>3, RunnersAre
    <3> QED BY <3>2, <3>3
  <2>2. ASSUME NEW s \in Runners \ {"listener"}
        PROVE  \A i \in DOMAIN nmTodo'[s] : nmTodo'[s][i].st = "now"
    <3>1. \A i \in DOMAIN nmTodo[s] : nmTodo[s][i].st = "now"
      BY DEF NetInv, PlainReports
    <3>2. CASE s = r
      BY <1>3, <1>7, <3>1, <3>2 DEF q
    <3>3. CASE s # r
      BY <1>3, <3>1, <3>3
    <3> QED BY <3>2, <3>3
  <2>3. nmListener = "starting" => nmQueue = <<>>
    BY DEF NetInv, PlainReports
  <2> QED BY <1>1, <2>1, <2>2, <2>3 DEF PlainReports
<1>9. \A what : Awaited(what)' = Awaited(what)
  BY <1>1 DEF Awaited
<1>10. LastEventIsTrue'
  <2>1. ~Awaited("connectivity") =>
          \A i \in DOMAIN nmTodo'["listener"] :
            nmTodo'["listener"][i].of = "connectivity" /\ nmTodo'["listener"][i].st # "now"
              => nmTodo'["listener"][i].st = IsOn(nmDevice)
    <3>1. CASE r = "listener"
      <4>1. nmTodo'["listener"] = Tail(q) /\ nmTodo["listener"] = q
        BY <1>3, <3>1, RunnersAre DEF q
      <4>2. ~Awaited("connectivity") =>
              \A i \in DOMAIN q : q[i].of = "connectivity" /\ q[i].st # "now"
                                    => q[i].st = IsOn(nmDevice)
        BY <4>1 DEF NetInv, LastEventIsTrue
      <4> QED BY <1>2, <4>1, <4>2
    <3>2. CASE r # "listener"
      BY <1>3, <3>2, RunnersAre DEF NetInv, LastEventIsTrue
    <3> QED BY <3>1, <3>2
  <2>2. IsOn(nmDevice)' = IsOn(nmDevice)
    BY <1>1 DEF IsOn
  <2> QED BY <1>1, <1>9, <2>1, <2>2 DEF NetInv, LastEventIsTrue
<1>11. ASSUME NEW s \in Runners, NEW what, s # r \/ Head(nmTodo[r]).of # what
       PROVE  ToDo(s, what)' <=> ToDo(s, what)
  <2>1. CASE s # r
    BY <1>3, <2>1 DEF ToDo
  <2>2. CASE s = r
    <3>1. q[1].of # what /\ nmTodo[s] = q /\ nmTodo'[s] = Tail(q)
      BY <1>2, <1>3, <1>11, <2>2 DEF q
    <3>2. (\E i \in DOMAIN Tail(q) : Tail(q)[i].of = what)
            <=> (\E i \in DOMAIN q : q[i].of = what)
      <4>1. ASSUME NEW i \in DOMAIN Tail(q), Tail(q)[i].of = what
            PROVE  \E j \in DOMAIN q : q[j].of = what
        BY <1>2, <4>1
      <4>2. ASSUME NEW i \in DOMAIN q, q[i].of = what
            PROVE  \E j \in DOMAIN Tail(q) : Tail(q)[j].of = what
        <5>1. i - 1 \in DOMAIN Tail(q) /\ Tail(q)[i - 1] = q[i]
          BY <1>2, <3>1, <4>2
        <5> QED BY <4>2, <5>1
      <4> QED BY <4>1, <4>2
    <3> QED BY <3>1, <3>2 DEF ToDo
  <2> QED BY <2>1, <2>2
<1> QED BY <1>5, <1>6, <1>8, <1>9, <1>10, <1>11

LEMMA AppendStationsStep ==
  ASSUME NetInv, NEW r \in Runners, AppendStations(r)
  PROVE  NetInv'
<1>1. /\ nmTodo[r] # <<>> /\ Head(nmTodo[r]).of = "stations"
      /\ DOMAIN nmSeen[r] = {"visible"}
      /\ nmReported' = [nmReported EXCEPT !.stations = nmReported.stations \/ nmSeen[r].visible]
      /\ Finish(r) /\ nmLate' = nmLate
  BY DEF AppendStations, Due
<1>2. /\ nmReported' \in [stations : BOOLEAN, profiles : Lists,
                          connectivity : {"none"} \union NetStates]
      /\ nmReported'.profiles = nmReported.profiles
      /\ nmReported'.connectivity = nmReported.connectivity
  <2>1. /\ nmReported \in [stations : BOOLEAN, profiles : Lists,
                           connectivity : {"none"} \union NetStates]
    BY DEF NetInv, NetTypeOK
  <2>2. (nmReported.stations \/ nmSeen[r].visible) \in BOOLEAN
    OBVIOUS
  <2> QED BY <1>1, <2>1, <2>2
<1>3. nmLate' \in SUBSET {"stations", "connectivity", "profiles"}
  BY <1>1 DEF NetInv, NetTypeOK
<1>4. /\ NetTypeOK' /\ SeenFits' /\ PlainReports' /\ LastEventIsTrue'
      /\ \A what : Awaited(what)' = Awaited(what)
      /\ \A s \in Runners : \A what : s # r \/ Head(nmTodo[r]).of # what
                            => (ToDo(s, what)' <=> ToDo(s, what))
  BY <1>1, <1>2, <1>3, FinishKeeps
<1>5. UNCHANGED <<nmProfiles, nmDevice, nmWired, nmListener>>
  BY <1>1 DEF Finish, nmWorld
<1>6. \A s \in Runners : \A what \in {"connectivity", "profiles"} :
        ToDo(s, what)' <=> ToDo(s, what)
  BY <1>1, <1>4
<1>7. ConnectivityFollows'
  BY <1>1, <1>2, <1>4, <1>5, <1>6, RunnersAre DEF NetInv, ConnectivityFollows, IsOn
<1>8. ProfilesFollow'
  <2>1. ProfilesAsListed' = ProfilesAsListed
    BY <1>2, <1>5 DEF ProfilesAsListed, Listed, ListOf
  <2> QED BY <1>1, <1>4, <1>5, <1>6, <2>1 DEF NetInv, ProfilesFollow
<1> QED BY <1>4, <1>7, <1>8 DEF NetInv

\* A report of what is still so leaves the list as it is, or as good as it is.
LEMMA AppendProfilesStep ==
  ASSUME NetInv, NEW r \in Runners, AppendProfiles(r)
  PROVE  NetInv'
<1> DEFINE late == nmSeen[r] # [actual |-> Listed, current |-> nmReported.profiles]
<1>1. /\ nmTodo[r] # <<>> /\ Head(nmTodo[r]).of = "profiles"
      /\ DOMAIN nmSeen[r] = {"actual", "current"}
      /\ nmReported' = IF ProfilesChanged(nmSeen[r])
           THEN [nmReported EXCEPT !.profiles = nmSeen[r].actual] ELSE nmReported
      /\ nmLate' = IF late THEN nmLate \union {"profiles"} ELSE nmLate \ {"profiles"}
      /\ Finish(r)
  BY DEF AppendProfiles, Due, Overtaken
<1>2. nmSeen[r].actual \in Lists
  BY <1>1 DEF NetInv, SeenFits, Fits
<1>3. /\ nmReported' \in [stations : BOOLEAN, profiles : Lists,
                          connectivity : {"none"} \union NetStates]
      /\ nmReported'.connectivity = nmReported.connectivity
      /\ nmReported'.profiles = IF ProfilesChanged(nmSeen[r]) THEN nmSeen[r].actual
                                ELSE nmReported.profiles
      /\ nmReported.profiles \in Lists
  <2>1. nmReported \in [stations : BOOLEAN, profiles : Lists,
                        connectivity : {"none"} \union NetStates]
    BY DEF NetInv, NetTypeOK
  <2> QED BY <1>1, <1>2, <2>1
<1>4. nmLate' \in SUBSET {"stations", "connectivity", "profiles"}
      /\ ("connectivity" \in nmLate' <=> "connectivity" \in nmLate)
      /\ (late => "profiles" \in nmLate')
  <2> HIDE DEF late
  <2> QED BY <1>1 DEF NetInv, NetTypeOK
<1>5. /\ NetTypeOK' /\ SeenFits' /\ PlainReports' /\ LastEventIsTrue'
      /\ \A what : Awaited(what)' = Awaited(what)
      /\ \A s \in Runners : \A what : s # r \/ Head(nmTodo[r]).of # what
                            => (ToDo(s, what)' <=> ToDo(s, what))
  BY <1>1, <1>3, <1>4, FinishKeeps
<1>6. UNCHANGED <<nmProfiles, nmDevice, nmWired, nmListener>>
  BY <1>1 DEF Finish, nmWorld
<1>7. \A s \in Runners : ToDo(s, "connectivity")' <=> ToDo(s, "connectivity")
  BY <1>1, <1>5
<1>8. ConnectivityFollows'
  BY <1>1, <1>3, <1>4, <1>5, <1>6, <1>7, RunnersAre DEF NetInv, ConnectivityFollows, IsOn
<1>9. ASSUME ~late PROVE ProfilesAsListed'
  <2> DEFINE list == nmReported.profiles
  <2>1. nmSeen[r].actual = Listed /\ nmSeen[r].current = list
    BY <1>9
  <2>2. Listed' = Listed /\ nmWired' = nmWired
    BY <1>6 DEF Listed, ListOf
  <2>3. IsFiniteSet(Listed) /\ IsFiniteSet(list) /\ nmWired \in Nat
    BY <1>3, NetworksFinite DEF NetInv, NetTypeOK
  <2>4. CASE ProfilesChanged(nmSeen[r])
    <3>1. nmReported'.profiles = Listed
      BY <1>3, <2>1, <2>4
    <3>2. Cardinality(Listed \ Listed) = 0
      <4>1. Listed \ Listed = {}
        OBVIOUS
      <4> QED BY <4>1, FS_EmptySet
    <3> QED BY <2>2, <3>1, <3>2 DEF ProfilesAsListed
  <2>5. CASE ~ProfilesChanged(nmSeen[r])
    <3>1. /\ nmReported'.profiles = list
          /\ Listed \subseteq list
          /\ Cardinality(list) = Cardinality(Listed) + nmWired
      BY <1>3, <2>1, <2>5 DEF ProfilesChanged
    <3>2. Cardinality(list \ Listed) = Cardinality(list) - Cardinality(list \intersect Listed)
      BY <2>3, FS_Difference
    <3>3. list \intersect Listed = Listed
      BY <3>1
    <3>4. Cardinality(Listed) \in Nat
      BY <2>3, FS_CardinalityType
    <3>5. Cardinality(list \ Listed) = nmWired
      <4>1. Cardinality(list \ Listed) = Cardinality(list) - Cardinality(Listed)
        BY <3>2, <3>3
      <4>2. \A m, n, k \in Nat : m = n + k => m - n = k
        OBVIOUS
      <4>3. Cardinality(list) \in Nat
        BY <2>3, FS_CardinalityType
      <4> HIDE DEF list
      <4> QED BY <2>3, <3>1, <3>4, <4>1, <4>2, <4>3
    <3> QED BY <2>2, <3>1, <3>5 DEF ProfilesAsListed
  <2> QED BY <2>4, <2>5
<1>10. ProfilesFollow'
  BY <1>4, <1>9 DEF ProfilesFollow
<1> QED BY <1>5, <1>8, <1>10 DEF NetInv

\* A report of what the device was at an event is followed by those of later events.
LEMMA AppendConnectivityStep ==
  ASSUME NetInv, NEW r \in Runners, AppendConnectivity(r)
  PROVE  NetInv'
<1> DEFINE state == nmSeen[r].state
           item == Head(nmTodo[r])
           late == item.st = "now" /\ state # IsOn(nmDevice)
<1>1. /\ nmTodo[r] # <<>> /\ item.of = "connectivity" /\ DOMAIN nmSeen[r] = {"state", "ssid"}
      /\ nmReported' = [nmReported EXCEPT !.connectivity = state]
      /\ nmLate' = IF late THEN nmLate \union {"connectivity"} ELSE nmLate \ {"connectivity"}
      /\ Finish(r)
  BY DEF AppendConnectivity, Due, Overtaken
<1>2. state \in NetStates /\ (item.st # "now" => state = item.st)
  BY <1>1 DEF NetInv, SeenFits, Fits
<1>3. /\ nmReported' \in [stations : BOOLEAN, profiles : Lists,
                          connectivity : {"none"} \union NetStates]
      /\ nmReported'.connectivity = state /\ nmReported'.profiles = nmReported.profiles
  <2>1. nmReported \in [stations : BOOLEAN, profiles : Lists,
                        connectivity : {"none"} \union NetStates]
    BY DEF NetInv, NetTypeOK
  <2> HIDE DEF state
  <2> QED BY <1>1, <1>2, <2>1
<1>4. nmLate' \in SUBSET {"stations", "connectivity", "profiles"}
      /\ ("profiles" \in nmLate' <=> "profiles" \in nmLate)
      /\ (late => "connectivity" \in nmLate')
  <2> HIDE DEF late
  <2> QED BY <1>1 DEF NetInv, NetTypeOK
<1>5. /\ NetTypeOK' /\ SeenFits' /\ PlainReports' /\ LastEventIsTrue'
      /\ \A what : Awaited(what)' = Awaited(what)
      /\ \A s \in Runners : \A what : s # r \/ Head(nmTodo[r]).of # what
                            => (ToDo(s, what)' <=> ToDo(s, what))
  BY <1>1, <1>3, <1>4, FinishKeeps
<1>6. UNCHANGED <<nmProfiles, nmDevice, nmWired, nmListener>>
  BY <1>1 DEF Finish, nmWorld
<1>7. \A s \in Runners : ToDo(s, "profiles")' <=> ToDo(s, "profiles")
  BY <1>1, <1>5
<1>8. ProfilesFollow'
  <2>1. ProfilesAsListed' = ProfilesAsListed
    BY <1>3, <1>6 DEF ProfilesAsListed, Listed, ListOf
  <2> QED BY <1>1, <1>4, <1>5, <1>6, <1>7, <2>1 DEF NetInv, ProfilesFollow
<1>9. ASSUME ~Awaited("connectivity"), ~late PROVE state = IsOn(nmDevice)
  <2>1. CASE item.st = "now"
    BY <1>9, <2>1
  <2>2. CASE item.st # "now"
    <3>1. nmTodo[r] \in Seq(Items)
      BY DEF NetInv, NetTypeOK
    <3>2. 1 \in DOMAIN nmTodo[r] /\ item = nmTodo[r][1]
      BY <1>1, <3>1, HeadAndTail
    <3>3. r = "listener"
      BY <2>2, <3>2 DEF NetInv, PlainReports
    <3>4. item.st = IsOn(nmDevice)
      BY <1>1, <1>9, <2>2, <3>2, <3>3 DEF NetInv, LastEventIsTrue
    <3> QED BY <1>2, <2>2, <3>4
  <2> QED BY <2>1, <2>2
<1>10. ConnectivityFollows'
  <2>1. IsOn(nmDevice)' = IsOn(nmDevice)
    BY <1>6 DEF IsOn
  <2> HIDE DEF late, state, item
  <2> QED BY <1>3, <1>4, <1>5, <1>9, <2>1 DEF ConnectivityFollows
<1> QED BY <1>5, <1>8, <1>10 DEF NetInv

\* What a report that threw leaves undone is known as late, or the listener is dead.
LEMMA ReportThrowsStep ==
  ASSUME NetInv, NEW r \in Runners, ReportThrows(r)
  PROVE  NetInv'
<1>1. /\ nmTodo' = [nmTodo EXCEPT ![r] = <<>>]
      /\ nmSeen' = [nmSeen EXCEPT ![r] = Unread]
      /\ nmListener' = IF r = "listener" THEN "dead" ELSE nmListener
      /\ nmLate' = nmLate \union {nmTodo[r][i].of : i \in DOMAIN nmTodo[r]}
      /\ UNCHANGED <<nmProfiles, nmDevice, nmWired, nmVisible, nmQueue, nmReported>>
  BY DEF ReportThrows, nmWorld
<1>2. nmTodo \in [Runners -> Seq(Items)] /\ DOMAIN nmSeen = Runners
  BY DEF NetInv, NetTypeOK
<1>3. /\ nmTodo' \in [Runners -> Seq(Items)] /\ nmTodo'[r] = <<>> /\ nmSeen'[r] = Unread
      /\ \A s \in Runners \ {r} : nmTodo'[s] = nmTodo[s] /\ nmSeen'[s] = nmSeen[s]
      /\ DOMAIN nmSeen' = Runners
  BY <1>1, <1>2
<1>4. NetTypeOK'
  <2>1. nmTodo[r] \in Seq(Items)
    BY <1>2
  <2>2. \A i \in DOMAIN nmTodo[r] : nmTodo[r][i] \in Items
    BY <2>1
  <2>3. {nmTodo[r][i].of : i \in DOMAIN nmTodo[r]} \subseteq {"stations", "connectivity", "profiles"}
    BY <2>2 DEF Items
  <2>4. nmLate' \in SUBSET {"stations", "connectivity", "profiles"}
    BY <1>1, <2>3 DEF NetInv, NetTypeOK
  <2> QED BY <1>1, <1>3, <2>4 DEF NetInv, NetTypeOK
<1>5. SeenFits'
  <2> SUFFICES ASSUME NEW s \in Runners
               PROVE  Fits(s, nmSeen[s])' /\ (nmTodo'[s] = <<>> => nmSeen'[s] = Unread)
    BY DEF SeenFits
  <2>1. CASE s = r
    BY <1>3, <2>1, UnreadIsNothing DEF Fits
  <2>2. CASE s # r
    <3>1. nmTodo'[s] = nmTodo[s] /\ nmSeen'[s] = nmSeen[s]
      BY <1>3, <2>2
    <3>2. Fits(s, nmSeen[s]) /\ (nmTodo[s] = <<>> => nmSeen[s] = Unread)
      BY DEF NetInv, SeenFits
    <3> QED BY <3>1, <3>2 DEF Fits
  <2> QED BY <2>1, <2>2
<1>6. CASE r = "listener"
  <2>1. /\ nmTodo'["listener"] = <<>> /\ nmListener' = "dead"
        /\ \A s \in Runners \ {"listener"} : nmTodo'[s] = nmTodo[s]
    BY <1>1, <1>3, <1>6
  <2>2. PlainReports'
    BY <2>1 DEF NetInv, PlainReports
  <2>3. LastEventIsTrue'
    BY <1>1, <2>1 DEF NetInv, LastEventIsTrue, Awaited
  <2>4. ConnectivityFollows' /\ ProfilesFollow'
    BY <2>1 DEF ConnectivityFollows, ProfilesFollow
  <2> QED BY <1>4, <1>5, <2>2, <2>3, <2>4 DEF NetInv
<1>7. CASE r # "listener"
  <2>1. nmTodo'["listener"] = nmTodo["listener"] /\ nmListener' = nmListener
    BY <1>1, <1>3, <1>7, RunnersAre
  <2>2. PlainReports'
    BY <1>1, <1>3, <2>1 DEF NetInv, PlainReports
  <2>3. LastEventIsTrue' /\ ConnectivityFollows'
    BY <1>1, <2>1 DEF NetInv, LastEventIsTrue, ConnectivityFollows, Awaited, ToDo, IsOn
  <2>4. ToDo(r, "profiles") => "profiles" \in nmLate'
    BY <1>1 DEF ToDo
  <2>5. \A s \in Runners \ {r} : ToDo(s, "profiles") => ToDo(s, "profiles")'
    BY <1>3 DEF ToDo
  <2>6. ProfilesAsListed' = ProfilesAsListed /\ (Awaited("profiles")' <=> Awaited("profiles"))
    BY <1>1 DEF ProfilesAsListed, Listed, ListOf, Awaited
  <2>7. ProfilesFollow'
    BY <1>1, <2>1, <2>4, <2>5, <2>6 DEF NetInv, ProfilesFollow
  <2> QED BY <1>4, <1>5, <2>2, <2>3, <2>7 DEF NetInv
<1> QED BY <1>6, <1>7

-----------------------------------------------------------------------------
\* A read changes nothing but what the runner has seen.
LEMMA SeesStep ==
  ASSUME NetInv, NEW r \in Runners, NEW seen, nmTodo[r] # <<>>, Fits(r, seen), Sees(r, seen)
  PROVE  NetInv'
<1>1. /\ nmSeen' = [nmSeen EXCEPT ![r] = seen]
      /\ UNCHANGED <<nmProfiles, nmDevice, nmWired, nmVisible, nmQueue, nmListener, nmTodo,
                     nmReported, nmLate>>
      /\ DOMAIN nmSeen = Runners
  BY DEF Sees, nmWorld, NetInv, NetTypeOK
<1>2. /\ nmSeen'[r] = seen /\ \A s \in Runners \ {r} : nmSeen'[s] = nmSeen[s]
      /\ DOMAIN nmSeen' = Runners
  BY <1>1
<1>3. NetTypeOK'
  BY <1>1, <1>2 DEF NetInv, NetTypeOK
<1>4. SeenFits'
  <2> SUFFICES ASSUME NEW s \in Runners
               PROVE  Fits(s, nmSeen[s])' /\ (nmTodo'[s] = <<>> => nmSeen'[s] = Unread)
    BY DEF SeenFits
  <2>1. CASE s = r
    BY <1>1, <1>2, <2>1 DEF Fits
  <2>2. CASE s # r
    BY <1>1, <1>2, <2>2 DEF NetInv, SeenFits, Fits
  <2> QED BY <2>1, <2>2
<1>5. PlainReports' /\ LastEventIsTrue' /\ ConnectivityFollows'
  BY <1>1 DEF NetInv, PlainReports, LastEventIsTrue, ConnectivityFollows, Awaited, ToDo, IsOn
<1>6. ProfilesFollow'
  BY <1>1 DEF NetInv, ProfilesFollow, ProfilesAsListed, Listed, ListOf, Awaited, ToDo
<1> QED BY <1>3, <1>4, <1>5, <1>6 DEF NetInv

LEMMA ReadStep ==
  ASSUME NetInv, NEW r \in Runners,
         ReadStations(r) \/ ReadProfiles(r) \/ ReadConnectivity(r) \/ ReadAccessPoint(r)
  PROVE  NetInv'
<1>1. Fits(r, nmSeen[r]) /\ nmVisible \in BOOLEAN
  BY DEF NetInv, NetTypeOK, SeenFits
<1>2. CASE ReadStations(r)
  <2> DEFINE seen == [visible |-> nmVisible]
  <2>1. nmTodo[r] # <<>> /\ Sees(r, seen)
    BY <1>2 DEF ReadStations, Due
  <2>2. DOMAIN seen = {"visible"} /\ seen.visible \in BOOLEAN
    BY <1>1
  <2> HIDE DEF seen
  <2>3. Fits(r, seen)
    BY <2>2 DEF Fits
  <2> QED BY <2>1, <2>3, SeesStep
<1>3. CASE ReadProfiles(r)
  <2>1. nmTodo[r] # <<>>
    BY <1>3 DEF ReadProfiles, Due
  <2>2. ASSUME Sees(r, [active |-> nmDevice]) PROVE NetInv'
    <3> DEFINE seen == [active |-> nmDevice]
    <3>1. DOMAIN seen = {"active"}
      OBVIOUS
    <3>2. Sees(r, seen)
      BY <2>2
    <3> HIDE DEF seen
    <3>3. Fits(r, seen)
      BY <3>1 DEF Fits
    <3> QED BY <2>1, <3>2, <3>3, SeesStep
  <2>3. ASSUME Sees(r, [profiles |-> ListOf(nmProfiles, nmSeen[r].active)]) PROVE NetInv'
    <3> DEFINE seen == [profiles |-> ListOf(nmProfiles, nmSeen[r].active)]
    <3>1. DOMAIN seen = {"profiles"} /\ seen.profiles \in Lists
      BY NetworksFinite DEF NetInv
    <3>2. Sees(r, seen)
      BY <2>3
    <3> HIDE DEF seen
    <3>3. Fits(r, seen)
      BY <3>1 DEF Fits
    <3> QED BY <2>1, <3>2, <3>3, SeesStep
  <2>4. ASSUME DOMAIN nmSeen[r] = {"profiles"},
               Sees(r, [actual |-> nmSeen[r].profiles, current |-> nmReported.profiles])
        PROVE  NetInv'
    <3> DEFINE seen == [actual |-> nmSeen[r].profiles, current |-> nmReported.profiles]
    <3>1. DOMAIN seen = {"actual", "current"} /\ seen.actual = nmSeen[r].profiles
      OBVIOUS
    <3>2. Sees(r, seen)
      BY <2>4
    <3>3. nmSeen[r].profiles \in Lists
      BY <1>1, <2>4 DEF Fits
    <3> HIDE DEF seen
    <3>4. Fits(r, seen)
      BY <3>1, <3>3 DEF Fits
    <3> QED BY <2>1, <3>2, <3>4, SeesStep
  <2> QED BY <1>3, <2>2, <2>3, <2>4 DEF ReadProfiles
<1>4. CASE ReadConnectivity(r)
  <2> DEFINE item == Head(nmTodo[r])
             state == IF item.st = "now" THEN IsOn(nmDevice) ELSE item.st
             seen == [state |-> state]
  <2>1. nmTodo[r] # <<>> /\ Sees(r, seen)
    BY <1>4 DEF ReadConnectivity, Due
  <2>2. item \in Items
    BY <2>1, HeadAndTail DEF NetInv, NetTypeOK
  <2>3. state \in NetStates /\ (item.st # "now" => state = item.st)
    BY <2>2, ReportsAreItems DEF Items
  <2>4. DOMAIN seen = {"state"} /\ seen.state = state
    OBVIOUS
  <2> HIDE DEF seen, state
  <2>5. Fits(r, seen)
    BY <2>3, <2>4 DEF Fits
  <2> QED BY <2>1, <2>5, SeesStep
<1>5. CASE ReadAccessPoint(r)
  <2> DEFINE seen == [state |-> nmSeen[r].state, ssid |-> TRUE]
  <2>1. nmTodo[r] # <<>> /\ Sees(r, seen) /\ DOMAIN nmSeen[r] = {"state"}
    BY <1>5 DEF ReadAccessPoint, Due
  <2>2. DOMAIN seen = {"state", "ssid"} /\ seen.state = nmSeen[r].state
    OBVIOUS
  <2> HIDE DEF seen
  <2>3. Fits(r, seen)
    BY <1>1, <2>1, <2>2 DEF Fits
  <2> QED BY <2>1, <2>3, SeesStep
<1> QED BY <1>2, <1>3, <1>4, <1>5

-----------------------------------------------------------------------------
LEMMA SubscribesStep ==
  ASSUME NetInv, Subscribes
  PROVE  NetInv'
<1>1. /\ nmListener = "starting" /\ nmTodo["listener"] = <<>> /\ nmListener' = "listening"
      /\ UNCHANGED <<nmProfiles, nmDevice, nmWired, nmVisible, nmQueue, nmTodo, nmSeen,
                     nmReported, nmLate>>
  BY DEF Subscribes, nmWorld
<1>2. NetTypeOK' /\ SeenFits' /\ PlainReports'
  BY <1>1 DEF NetInv, NetTypeOK, SeenFits, Fits, PlainReports
<1>3. LastEventIsTrue' /\ ConnectivityFollows'
  BY <1>1 DEF NetInv, LastEventIsTrue, ConnectivityFollows, Awaited, ToDo, IsOn
<1>4. ProfilesFollow'
  BY <1>1 DEF NetInv, ProfilesFollow, ProfilesAsListed, Listed, ListOf, Awaited, ToDo
<1> QED BY <1>2, <1>3, <1>4 DEF NetInv

\* An item that is taken is the listener's to report.
LEMMA TakeItemStep ==
  ASSUME NetInv, TakeItem
  PROVE  NetInv'
<1> DEFINE item == Head(nmQueue)
           rest == Tail(nmQueue)
<1>1. /\ nmListener = "listening" /\ nmTodo["listener"] = <<>> /\ nmQueue # <<>>
      /\ nmTodo' = [nmTodo EXCEPT !["listener"] = <<item>>]
      /\ nmQueue' = rest
      /\ UNCHANGED <<nmProfiles, nmDevice, nmWired, nmVisible, nmListener, nmSeen, nmReported,
                     nmLate>>
  BY DEF TakeItem, nmWorld
<1>2. nmQueue \in Seq(Items) /\ nmTodo \in [Runners -> Seq(Items)]
  BY DEF NetInv, NetTypeOK
<1>3. /\ item = nmQueue[1] /\ item \in Items /\ 1 \in DOMAIN nmQueue
      /\ rest \in Seq(Items)
      /\ \A i \in DOMAIN rest : i + 1 \in DOMAIN nmQueue /\ rest[i] = nmQueue[i + 1]
      /\ \A i \in DOMAIN nmQueue : i # 1 => i - 1 \in DOMAIN rest /\ rest[i - 1] = nmQueue[i]
      /\ DOMAIN rest \subseteq Nat /\ DOMAIN nmQueue \subseteq Nat
      /\ \A i \in DOMAIN nmQueue : i >= 1
  BY <1>1, <1>2, HeadAndTail
<1>4. /\ <<item>> \in Seq(Items) /\ DOMAIN <<item>> = 1 .. 1 /\ <<item>>[1] = item
  BY <1>3, ListOfOne
<1> HIDE DEF item, rest
<1>5. /\ nmTodo' \in [Runners -> Seq(Items)]
      /\ \A s \in Runners \ {"listener"} : nmTodo'[s] = nmTodo[s]
      /\ nmTodo'["listener"] = <<item>>
  BY <1>1, <1>2, <1>4, RunnersAre
<1>6. NetTypeOK'
  BY <1>1, <1>3, <1>5 DEF NetInv, NetTypeOK
<1>7. nmSeen["listener"] = Unread
  BY <1>1, RunnersAre DEF NetInv, SeenFits
<1>8. SeenFits'
  <2> SUFFICES ASSUME NEW s \in Runners
               PROVE  Fits(s, nmSeen[s])' /\ (nmTodo'[s] = <<>> => nmSeen'[s] = Unread)
    BY DEF SeenFits
  <2>1. CASE s = "listener"
    BY <1>1, <1>7, <2>1, UnreadIsNothing DEF Fits
  <2>2. CASE s # "listener"
    BY <1>1, <1>5, <2>2 DEF NetInv, SeenFits, Fits
  <2> QED BY <2>1, <2>2
<1>9. PlainReports'
  BY <1>1, <1>5 DEF NetInv, PlainReports
<1>10. ASSUME NEW what, Awaited(what)
       PROVE  item.of = what \/ Awaited(what)'
  BY <1>1, <1>3, <1>10 DEF Awaited
<1>11. \A what : item.of = what => ToDo("listener", what)'
  BY <1>4, <1>5 DEF ToDo
<1>12. LastEventIsTrue'
  <2>1. IsOn(nmDevice)' = IsOn(nmDevice)
    BY <1>1 DEF IsOn
  <2>2. ASSUME NEW i \in DOMAIN rest, rest[i].of = "connectivity"
        PROVE  \/ \E j \in DOMAIN rest : j > i /\ rest[j].of = "connectivity"
               \/ rest[i].st = IsOn(nmDevice)
    <3>1. i + 1 \in DOMAIN nmQueue /\ rest[i] = nmQueue[i + 1] /\ i \in Nat /\ i + 1 \in Nat
      BY <1>3
    <3>2. \/ \E j \in DOMAIN nmQueue : j > i + 1 /\ nmQueue[j].of = "connectivity"
          \/ nmQueue[i + 1].st = IsOn(nmDevice)
      BY <2>2, <3>1 DEF NetInv, LastEventIsTrue
    <3>3. ASSUME NEW j \in DOMAIN nmQueue, j > i + 1, nmQueue[j].of = "connectivity"
          PROVE  \E k \in DOMAIN rest : k > i /\ rest[k].of = "connectivity"
      <4>1. j \in Nat /\ j # 1 /\ j - 1 > i
        BY <1>3, <3>1, <3>3
      <4>2. j - 1 \in DOMAIN rest /\ rest[j - 1] = nmQueue[j]
        BY <1>3, <4>1
      <4> QED BY <3>3, <4>1, <4>2
    <3> QED BY <3>1, <3>2, <3>3
  <2>3. ASSUME ~Awaited("connectivity")', item.of = "connectivity"
        PROVE  item.st = IsOn(nmDevice)
    <3>1. \A j \in DOMAIN rest : rest[j].of # "connectivity"
      BY <1>1, <2>3 DEF Awaited
    <3>2. ~\E j \in DOMAIN nmQueue : j > 1 /\ nmQueue[j].of = "connectivity"
      <4> SUFFICES ASSUME NEW j \in DOMAIN nmQueue, j > 1 PROVE nmQueue[j].of # "connectivity"
        OBVIOUS
      <4>1. j # 1
        BY <1>3
      <4>2. j - 1 \in DOMAIN rest /\ rest[j - 1] = nmQueue[j]
        BY <1>3, <4>1
      <4> QED BY <3>1, <4>2
    <3> QED BY <1>3, <2>3, <3>2 DEF NetInv, LastEventIsTrue
  <2>4. \A i \in DOMAIN nmTodo'["listener"] : nmTodo'["listener"][i] = item
    BY <1>4, <1>5
  <2> QED BY <1>1, <2>1, <2>2, <2>3, <2>4 DEF LastEventIsTrue
<1>13. ConnectivityFollows'
  <2>1. ~ToDo("listener", "connectivity")
    BY <1>1 DEF ToDo
  <2>2. IsOn(nmDevice)' = IsOn(nmDevice)
    BY <1>1 DEF IsOn
  <2> QED BY <1>1, <1>10, <1>11, <2>1, <2>2 DEF NetInv, ConnectivityFollows
<1>14. ProfilesFollow'
  <2>1. ~ToDo("listener", "profiles")
    BY <1>1 DEF ToDo
  <2>2. \A s \in Runners \ {"listener"} : ToDo(s, "profiles") => ToDo(s, "profiles")'
    BY <1>5 DEF ToDo
  <2>3. ProfilesAsListed' = ProfilesAsListed
    BY <1>1 DEF ProfilesAsListed, Listed, ListOf
  <2> QED BY <1>1, <1>10, <1>11, <2>1, <2>2, <2>3, RunnersAre DEF NetInv, ProfilesFollow
<1> QED BY <1>6, <1>8, <1>9, <1>12, <1>13, <1>14 DEF NetInv

LEMMA NetInvariant == NetSpec => []NetInv
<1>1. NetInv /\ [NetNext]_nmVars => NetInv'
  <2> SUFFICES ASSUME NetInv, [NetNext]_nmVars PROVE NetInv'
    OBVIOUS
  <2>1. CASE UNCHANGED nmVars
    BY <2>1 DEF nmVars, nmWorld, NetInv, NetTypeOK, SeenFits, Fits, PlainReports,
       LastEventIsTrue, ConnectivityFollows, ProfilesFollow, ProfilesAsListed, Listed, ListOf,
       Awaited, ToDo, IsOn
  <2>2. CASE \/ DeviceChanges \/ AccessPointChanges
             \/ \E n \in Networks : Define(n) \/ Delete(n) \/ Activate(n)
             \/ Disconnect \/ RequestWifiScan
    <3>1. WorldMoves
      BY <2>2, WorldIs
    <3> QED BY <3>1, WorldMovesStep
  <2>3. CASE \E r \in Runners : ReportOf(r)
    BY <2>3, ReadStep, AppendStationsStep, AppendProfilesStep, AppendConnectivityStep,
       ReportThrowsStep DEF ReportOf
  <2>4. CASE Subscribes \/ TakeItem
    BY <2>4, SubscribesStep, TakeItemStep
  <2> QED BY <2>1, <2>2, <2>3, <2>4 DEF NetNext
<1> QED BY NetInitHolds, <1>1, PTL DEF NetSpec

\* Whatever networks and scans there are and however many changes the channel has
\* dropped: a listener that has caught up has the streams say what the device is and
\* which profiles there are, unless the last report had read what was no longer so,
\* or threw.
THEOREM StreamsFollowDevice == NetSpec => []ReportsFollowDevice
<1>1. NetInv => ReportsFollowDevice
  <2> SUFFICES ASSUME NetInv PROVE ReportsFollowDevice
    OBVIOUS
  <2>1. ASSUME Quiet PROVE /\ nmListener = "listening"
                           /\ \A what : ~Awaited(what)
                           /\ \A what : \A r \in Runners : ~ToDo(r, what)
    BY <2>1 DEF Quiet, Awaited, ToDo
  <2> QED BY <2>1, RunnersAre DEF NetInv, ConnectivityFollows, ProfilesFollow,
        ReportsFollowDevice
<1> QED BY NetInvariant, <1>1, PTL

-----------------------------------------------------------------------------
(* CircularBuffer: it implements the sliding window, and an enumeration    *)
(* keeps its place whatever happens to the buffer in the meantime.  The    *)
(* indices are the numbers of removed and of added items around the ring, and *)
(* the slot of every item ever added holds it or one whole rings newer.    *)

RingIndices ==
  /\ count <= added
  /\ head = (added - count) % Capacity
  /\ tail = added % Capacity

\* Slot of item n: it holds n, or a later item of the same slot.
SlotOf(n) ==
  LET item == buffer[n % Capacity]
  IN  item \in Nat /\ n <= item /\ item < added /\ (item - n) % Capacity = 0

RingContents == \A n \in Nat : n < added => SlotOf(n)

WalkPlace ==
  walk.on => /\ walk.h = walk.first % Capacity
             /\ walk.first + walk.c <= added

RingInv == BufferTypeOK /\ RingIndices /\ RingContents /\ WalkPlace

USE CapacityAssumption, MaxAddedAssumption, NoneAssumption

\* Every remainder is an index of the array.
LEMMA IndexFacts ==
  /\ Index \subseteq Nat
  /\ 0 \in Index
  /\ \A n \in Nat : n % Capacity \in Index
BY ModRange DEF Index

\* The fields of an enumeration.
LEMMA WalkFields ==
  ASSUME NEW w \in Walk
  PROVE  /\ w.on \in BOOLEAN /\ w.h \in Index /\ w.first \in Nat
         /\ w.c \in 0 .. Capacity /\ w.i \in 0 .. Capacity
         /\ \A v \in Item, k \in 0 .. Capacity :
              [w EXCEPT !.yielded = v, !.i = k] \in Walk
BY Zenon DEF Walk

\* An item less than a ring old is still in its slot.
LEMMA RecentItem ==
  ASSUME NEW n \in Nat, RingInv, n < added, added <= n + Capacity
  PROVE  buffer[n % Capacity] = n
<1> DEFINE item == buffer[n % Capacity]
<1>1. item \in Nat /\ n <= item /\ item < added /\ (item - n) % Capacity = 0
  BY DEF RingInv, RingContents, SlotOf
<1> HIDE DEF item
<1>2. item - n \in 0 .. Capacity - 1
  BY <1>1 DEF RingInv, BufferTypeOK
<1>3. item - n = 0
  BY <1>1, <1>2, ModZero
<1>4. item = n
  BY <1>1, <1>3
<1> QED BY <1>4 DEF item

LEMMA RingInitHolds == BufferInit => RingInv
<1> SUFFICES ASSUME BufferInit
             PROVE  RingInv
  OBVIOUS
<1>1. 0 % Capacity = 0
  BY ModUnique, 0 \in 0 .. Capacity - 1, 0 = Capacity * 0 + 0
<1>2. BufferTypeOK
  <2>1. walk \in Walk
    BY IndexFacts, 0 \in 0 .. Capacity, Zenon DEF BufferInit, Walk, Item
  <2>2. buffer \in [Index -> Item]
    BY DEF BufferInit, Item
  <2> QED BY <2>1, <2>2, IndexFacts DEF BufferInit, BufferTypeOK, Item
<1>3. RingIndices /\ RingContents /\ WalkPlace
  BY <1>1 DEF BufferInit, RingIndices, RingContents, WalkPlace
<1> QED BY <1>2, <1>3 DEF RingInv

LEMMA RingTypeStep == RingInv /\ [BufferNext]_bufferVars => BufferTypeOK'
<1> SUFFICES ASSUME RingInv, [BufferNext]_bufferVars
             PROVE  BufferTypeOK'
  OBVIOUS
<1> USE IndexFacts DEF RingInv, BufferTypeOK, RingIndices, ring
<1>1. CASE AddLast
  <2>1. (head + 1) % Capacity \in Index /\ (tail + 1) % Capacity \in Index
    BY head + 1 \in Nat, tail + 1 \in Nat
  <2>2. buffer' \in [Index -> Item]
    BY <1>1 DEF AddLast, Item
  <2> QED BY <1>1, <2>1, <2>2 DEF AddLast
<1>2. CASE RemoveNone
  BY <1>2 DEF RemoveNone, Item
<1>3. CASE RemoveOldest
  <2>1. (head + 1) % Capacity \in Index
    BY head + 1 \in Nat
  <2> QED BY <1>3, <2>1 DEF RemoveOldest
<1>4. CASE GetHead
  BY <1>4 DEF GetHead
<1>5. CASE BeginWalk
  <2>1. walk' \in Walk
    BY <1>5 DEF BeginWalk, Walk, Item
  <2> QED BY <1>5, <2>1 DEF BeginWalk
<1>6. CASE MoveNext
  <2>0. walk.h \in Index /\ walk.c \in 0 .. Capacity /\ walk.i \in 0 .. Capacity
    BY WalkFields
  <2>1. walk.h + walk.i \in Nat /\ walk.i + 1 \in 0 .. Capacity
    BY <1>6, <2>0 DEF MoveNext
  <2>2. buffer[(walk.h + walk.i) % Capacity] \in Item
    BY <2>1
  <2>3. walk' \in Walk
    BY <1>6, <2>1, <2>2, WalkFields DEF MoveNext
  <2> QED BY <1>6, <2>3 DEF MoveNext
<1>7. CASE EndWalk
  BY <1>7 DEF EndWalk, Walk
<1>8. CASE UNCHANGED bufferVars
  BY <1>8 DEF bufferVars
<1> QED
  BY <1>1, <1>2, <1>3, <1>4, <1>5, <1>6, <1>7, <1>8 DEF BufferNext

LEMMA IndicesStep == RingInv /\ [BufferNext]_bufferVars => RingIndices'
<1> SUFFICES ASSUME RingInv, [BufferNext]_bufferVars
             PROVE  RingIndices'
  OBVIOUS
<1> USE DEF RingInv, BufferTypeOK, RingIndices, ring
<1>1. CASE AddLast
  <2>1. tail' = added' % Capacity
    BY <1>1, ModNext DEF AddLast
  <2>2. CASE count = Capacity
    <3>1. added - count \in Nat /\ added' - count' = (added - count) + 1
      BY <1>1, <2>2 DEF AddLast
    <3>2. head' = ((added - count) + 1) % Capacity
      BY <1>1, <2>2, <3>1, ModNext DEF AddLast
    <3> QED BY <1>1, <2>1, <2>2, <3>1, <3>2 DEF AddLast
  <2>3. CASE count # Capacity
    <3>1. added' - count' = added - count
      BY <1>1, <2>3 DEF AddLast
    <3> QED BY <1>1, <2>1, <2>3, <3>1 DEF AddLast
  <2> QED BY <2>2, <2>3
<1>2. CASE RemoveOldest
  <2>1. added - count \in Nat /\ added' - count' = (added - count) + 1
    BY <1>2 DEF RemoveOldest
  <2>2. head' = ((added - count) + 1) % Capacity
    BY <1>2, <2>1, ModNext DEF RemoveOldest
  <2> QED BY <1>2, <2>1, <2>2 DEF RemoveOldest
<1>3. CASE UNCHANGED ring
  BY <1>3
<1> QED
  BY <1>1, <1>2, <1>3
  DEF BufferNext, RemoveNone, GetHead, BeginWalk, MoveNext, EndWalk, bufferVars

LEMMA ContentsStep == RingInv /\ [BufferNext]_bufferVars => RingContents'
<1> SUFFICES ASSUME RingInv, [BufferNext]_bufferVars
             PROVE  RingContents'
  OBVIOUS
<1>1. CASE AddLast
  <2> SUFFICES ASSUME NEW n \in Nat, n < added'
               PROVE  SlotOf(n)'
    BY DEF RingContents
  <2>1. /\ added \in Nat /\ added' = added + 1 /\ n <= added
        /\ tail = added % Capacity /\ tail \in Index /\ n % Capacity \in Index
        /\ buffer \in [Index -> Item] /\ buffer' = [buffer EXCEPT ![tail] = added]
    BY <1>1, IndexFacts DEF AddLast, RingInv, BufferTypeOK, RingIndices
  <2>2. CASE n % Capacity = tail
    <3>1. buffer'[n % Capacity] = added
      BY <2>1, <2>2
    <3>2. (added - n) % Capacity = 0
      BY <2>1, <2>2, ModDiff
    <3> QED BY <2>1, <3>1, <3>2 DEF SlotOf
  <2>3. CASE n % Capacity # tail
    <3>1. n < added
      BY <2>1, <2>3
    <3>2. SlotOf(n)
      BY <3>1 DEF RingInv, RingContents
    <3>3. buffer'[n % Capacity] = buffer[n % Capacity]
      BY <2>1, <2>3
    <3> QED BY <2>1, <3>2, <3>3 DEF SlotOf
  <2> QED BY <2>2, <2>3
<1>2. CASE UNCHANGED <<buffer, added>>
  BY <1>2 DEF RingInv, RingContents, SlotOf
<1> QED
  BY <1>1, <1>2
  DEF BufferNext, RemoveNone, RemoveOldest, GetHead, BeginWalk, MoveNext, EndWalk, bufferVars,
      ring

LEMMA WalkStep == RingInv /\ [BufferNext]_bufferVars => WalkPlace'
<1> SUFFICES ASSUME RingInv, [BufferNext]_bufferVars
             PROVE  WalkPlace'
  OBVIOUS
<1> USE DEF RingInv, BufferTypeOK, RingIndices, WalkPlace, Walk
<1>1. CASE AddLast
  BY <1>1 DEF AddLast
<1>2. CASE BeginWalk
  BY <1>2 DEF BeginWalk, ring
<1>3. CASE MoveNext
  BY <1>3 DEF MoveNext, ring
<1>4. CASE EndWalk
  BY <1>4 DEF EndWalk
<1>5. CASE UNCHANGED <<walk, added>>
  BY <1>5
<1> QED
  BY <1>1, <1>2, <1>3, <1>4, <1>5
  DEF BufferNext, RemoveNone, RemoveOldest, GetHead, bufferVars, ring

LEMMA RingInvariant == BufferSpec => []RingInv
<1>1. RingInv /\ [BufferNext]_bufferVars => RingInv'
  BY RingTypeStep, IndicesStep, ContentsStep, WalkStep DEF RingInv
<1> QED BY RingInitHolds, <1>1, PTL DEF BufferSpec

\* Type correctness: the indices never leave the array.
THEOREM RingTypeCorrect == BufferSpec => []BufferTypeOK
BY RingInvariant, PTL DEF RingInv

\* An enumeration keeps its place: of each item it was started on it yields
\* that item or, if it has been overwritten, one whole rings newer.
THEOREM WalkKeepsItsPlace == BufferSpec => WalkInOrder
<1> DEFINE Place ==
      LET due == walk.first + walk.i
          item == walk'.yielded
      IN  /\ item \in Nat
          /\ item >= due
          /\ (item - due) % Capacity = 0
          /\ added <= due + Capacity => item = due
<1>1. ASSUME RingInv, MoveNext
      PROVE  Place
  <2> DEFINE due == walk.first + walk.i
  <2>1. /\ walk.first \in Nat /\ walk.i \in Nat /\ due \in Nat /\ due < added
        /\ walk.h = walk.first % Capacity
    BY <1>1 DEF RingInv, BufferTypeOK, Walk, WalkPlace, MoveNext
  <2>2. (walk.h + walk.i) % Capacity = due % Capacity
    BY <2>1, ModShift
  <2>3. walk'.yielded = buffer[due % Capacity]
    BY <1>1, <2>2 DEF MoveNext, RingInv, BufferTypeOK, Walk
  <2>4. SlotOf(due)
    BY <1>1, <2>1 DEF RingInv, RingContents
  <2>5. added <= due + Capacity => buffer[due % Capacity] = due
    BY <1>1, <2>1, RecentItem
  <2> QED BY <2>1, <2>3, <2>4, <2>5 DEF SlotOf
<1>2. RingInv /\ [BufferNext]_bufferVars => [MoveNext => Place]_bufferVars
  BY <1>1
<1> QED BY RingInvariant, <1>2, PTL DEF BufferSpec, WalkInOrder

\* The buffer implements the sliding window.
THEOREM WindowRefinement == BufferSpec => ImplementsWindow
<1> USE DEF Window!vars
<1>1. BufferInit => Window!Init
  BY DEF BufferInit, Window!Init
<1>2. ASSUME RingInv, [BufferNext]_bufferVars
      PROVE  [Window!Next]_(Window!vars)
  <2> USE <1>2 DEF RingInv, BufferTypeOK, RingIndices
  <2>1. CASE AddLast
    BY <2>1 DEF AddLast, Window!Next, Window!AddLast, Window!Full
  <2>2. CASE RemoveNone
    BY <2>2 DEF RemoveNone, Window!Next, Window!Remove, ring
  <2>3. CASE RemoveOldest
    <3>1. buffer[(added - count) % Capacity] = added - count
      BY <2>3, RecentItem DEF RemoveOldest
    <3>2. Window!Remove
      BY <2>3, <3>1 DEF RemoveOldest, Window!Remove
    <3> QED BY <3>2 DEF Window!Next
  <2>4. CASE GetHead
    <3>1. count > 0 => buffer[(added - count) % Capacity] = added - count
      BY RecentItem
    <3>2. Window!Head
      BY <2>4, <3>1 DEF GetHead, Window!Head, ring
    <3> QED BY <3>2 DEF Window!Next
  <2>5. CASE UNCHANGED <<ring, dropped, result>>
    BY <2>5 DEF ring
  <2> QED
    BY <2>1, <2>2, <2>3, <2>4, <2>5
    DEF BufferNext, BeginWalk, MoveNext, EndWalk, bufferVars
<1> QED
  BY RingInvariant, <1>1, <1>2, PTL DEF BufferSpec, ImplementsWindow, Window!Spec
=============================================================================
