------------------------- MODULE CameraManager_proofs -------------------------
(***************************************************************************)
(* Proofs about CameraManager: for any number of cameras, commands,        *)
(* greetings and attempts the last job queued for a camera decides what it *)
(* is set to, a camera that took its last job holds the newest command for *)
(* it or for all, which the event store names unless it was bypassed, and  *)
(* greetings end the runner before its first call to a camera only.        *)
(*                                                                         *)
(* The queue is known by the newest job it holds for an address: that is   *)
(* the one the history and the event store speak of, and it can be taken   *)
(* out only when no other job for that address is behind it.               *)
(***************************************************************************)
EXTENDS CameraManager, TLAPS

Command == Nat \union {NoCommand}
Places == {"waiting", "idle", "expand", "options", "shutter", "histogram", "delay", "dead",
           "ended"}

TypeOK ==
  /\ queue \in Seq(Job)
  /\ channels \in [Cameras -> {"none", "open", "closed"}]
  /\ pc \in Places /\ client \in {"lookup", "adding", "ready"}
  /\ job \in Job /\ attempt \in Nat /\ error \in BOOLEAN
  /\ handlers \in SUBSET Job
  /\ recorded \in [Address -> Command]
  /\ camera \in [Cameras -> [options : Command, shutter : Command, histogram : Command]]
  /\ greeting \in [on : BOOLEAN, cam : Cameras, at : {"lookup", "adding", "ready"}]
  /\ disposer \in [at : {"none", "disposed", "cancelled", "failed"}, seen : SUBSET Cameras]
  /\ given \in Nat /\ greeted \in Nat
  /\ intended \in [Cameras -> Command]
  /\ gaveUp \in SUBSET Cameras /\ bypassed \in SUBSET Address
  /\ last \in [Address -> Command]

\* A job for all cameras never reaches a camera as such.
RunnerFitsJob ==
  /\ pc = "expand" => job.kind = "params" /\ job.cam = All /\ attempt < CameraCount
  /\ pc \in {"options", "shutter"} => job.kind = "params"
  /\ pc \in {"histogram", "dead"} => job.kind = "histogram"
  /\ pc \in {"options", "shutter", "histogram", "delay", "dead"} => job.cam \in Cameras
  /\ pc = "delay" => client = "lookup"
  /\ \A i \in DOMAIN queue : queue[i].kind = "histogram" => queue[i].cam \in Cameras

-----------------------------------------------------------------------------
(* The newest job for an address.                                          *)

IsFor(j, a) == j.kind = "params" /\ j.cam = a

NoneFor(q, a) == \A i \in DOMAIN q : ~IsFor(q[i], a)

\* The newest job for a in q, if there is one, carries the command n.
NewestFor(q, a, n) ==
  \A i \in DOMAIN q :
    IsFor(q[i], a) /\ (\A k \in DOMAIN q : k > i => ~IsFor(q[k], a)) => q[i].cmd = n

\* A job that is put behind the others is the newest one for its address ...
LEMMA AppendedIsNewest ==
  ASSUME NEW q \in Seq(Job), NEW j \in Job, NEW a, IsFor(j, a)
  PROVE  NewestFor(Append(q, j), a, j.cmd) /\ ~NoneFor(Append(q, j), a)
<1>1. /\ DOMAIN Append(q, j) = 1 .. Len(q) + 1
      /\ Append(q, j)[Len(q) + 1] = j
      /\ Len(q) + 1 \in DOMAIN Append(q, j)
  OBVIOUS
<1>2. ASSUME NEW i \in DOMAIN Append(q, j), i # Len(q) + 1
      PROVE  i < Len(q) + 1
  BY <1>1, <1>2
<1> QED BY <1>1, <1>2 DEF NewestFor, NoneFor

\* ... and makes no difference to the others.
LEMMA AppendedForOthers ==
  ASSUME NEW q \in Seq(Job), NEW j \in Job, NEW a, ~IsFor(j, a)
  PROVE  /\ NoneFor(Append(q, j), a) <=> NoneFor(q, a)
         /\ \A n : NewestFor(q, a, n) => NewestFor(Append(q, j), a, n)
<1>1. /\ DOMAIN Append(q, j) = 1 .. Len(q) + 1 /\ DOMAIN q = 1 .. Len(q)
      /\ Append(q, j)[Len(q) + 1] = j
      /\ \A i \in DOMAIN q : Append(q, j)[i] = q[i]
      /\ Len(q) \in Nat
  OBVIOUS
<1>2. DOMAIN Append(q, j) = DOMAIN q \union {Len(q) + 1}
  BY <1>1
<1> QED BY <1>1, <1>2 DEF NewestFor, NoneFor

LEMMA TailKeepsNewest ==
  ASSUME NEW q \in Seq(Job), q # <<>>, NEW a
  PROVE  /\ NoneFor(q, a) => NoneFor(Tail(q), a)
         /\ NoneFor(Tail(q), a) /\ ~IsFor(Head(q), a) => NoneFor(q, a)
         /\ \A n : NewestFor(q, a, n) => NewestFor(Tail(q), a, n)
         /\ \A n : NewestFor(q, a, n) /\ NoneFor(Tail(q), a) /\ IsFor(Head(q), a)
                     => Head(q).cmd = n
<1>1. /\ DOMAIN q = 1 .. Len(q) /\ Len(q) \in Nat \ {0}
      /\ DOMAIN Tail(q) = 1 .. Len(q) - 1
      /\ Head(q) = q[1]
      /\ \A i \in DOMAIN Tail(q) : Tail(q)[i] = q[i + 1]
  OBVIOUS
<1>2. \A i \in DOMAIN q : i = 1 \/ (i - 1 \in DOMAIN Tail(q) /\ q[i] = Tail(q)[i - 1])
  BY <1>1
<1>3. \A i \in DOMAIN Tail(q) : i + 1 \in DOMAIN q
  BY <1>1
<1>4. ASSUME NEW n, NewestFor(q, a, n) PROVE NewestFor(Tail(q), a, n)
  <2> SUFFICES ASSUME NEW i \in DOMAIN Tail(q), IsFor(Tail(q)[i], a),
                      \A k \in DOMAIN Tail(q) : k > i => ~IsFor(Tail(q)[k], a)
               PROVE  Tail(q)[i].cmd = n
    BY DEF NewestFor
  <2>1. ASSUME NEW k \in DOMAIN q, k > i + 1 PROVE ~IsFor(q[k], a)
    BY <1>1, <1>2, <2>1
  <2> QED BY <1>1, <1>3, <1>4, <2>1 DEF NewestFor
<1>5. ASSUME NEW n, NewestFor(q, a, n), NoneFor(Tail(q), a), IsFor(Head(q), a)
      PROVE  Head(q).cmd = n
  <2>1. ASSUME NEW k \in DOMAIN q, k > 1 PROVE ~IsFor(q[k], a)
    <3>1. k - 1 \in DOMAIN Tail(q) /\ q[k] = Tail(q)[k - 1]
      BY <1>1, <1>2, <2>1
    <3> QED BY <1>5, <3>1 DEF NoneFor
  <2>2. 1 \in DOMAIN q
    BY <1>1
  <2> QED BY <1>1, <1>5, <2>1, <2>2 DEF NewestFor
<1>6. NoneFor(q, a) => NoneFor(Tail(q), a)
  BY <1>1, <1>3 DEF NoneFor
<1>7. NoneFor(Tail(q), a) /\ ~IsFor(Head(q), a) => NoneFor(q, a)
  BY <1>1, <1>2 DEF NoneFor
<1> QED BY <1>4, <1>5, <1>6, <1>7

-----------------------------------------------------------------------------
(* The inductive invariant.                                                *)

Unused(c) == \A part \in DOMAIN camera[c] : camera[c][part] = NoCommand

\* A camera without a channel was never called, even if somebody else adds the
\* channel while the runner is about to.
UnusedBeforeChannel ==
  /\ \A c \in Cameras : channels[c] = "none" => Unused(c)
  /\ calling /\ client = "adding" => Unused(job.cam)
  /\ pc = "dead" => Unused(job.cam)

\* The settings of a camera come from its newest job, as soon as that is done.
SettingsFollow(c) ==
  /\ NewestFor(queue, c, intended[c])
  /\ WorkingFor(c) /\ NoneFor(queue, c) => job.cmd = intended[c]
  /\ ~WorkingFor(c) /\ NoneFor(queue, c) /\ c \notin gaveUp
       => camera[c].options = intended[c] /\ camera[c].shutter = intended[c]
  /\ pc = "shutter" /\ job.cam = c /\ ~error => camera[c].options = job.cmd

SettingsFollowQueue == \A c \in Cameras : SettingsFollow(c)

\* A job for all cameras has yet to reach this one.
AwaitsAll(c) == ~NoneFor(queue, All) \/ (pc = "expand" /\ attempt <= c)

\* The newest job for all cameras carries the last command for all of them.
BroadcastsAreLast ==
  /\ NewestFor(queue, All, last[All])
  /\ pc = "expand" /\ NoneFor(queue, All) => job.cmd = last[All]

\* What a camera is meant to be set to is the last command for it or the last one
\* for all, once that one has come through.
IntendedLast(c) == AwaitsAll(c) \/ intended[c] \in {last[c], last[All]}

IntentionsAreLast == BroadcastsAreLast /\ \A c \in Cameras : IntendedLast(c)

\* The store names the last command of an address, or its only handler is about to
\* make it do so, unless the store was bypassed.
StoreNames(a) ==
  \/ a \in bypassed
  \/ HandlersOf(a) = {} /\ recorded[a] = last[a]
  \/ HandlersOf(a) = {Params(last[a], a)}

StoreNamesLast == \A a \in Address : StoreNames(a)

IInv ==
  TypeOK /\ RunnerFitsJob /\ UnusedBeforeChannel /\ SettingsFollowQueue
    /\ IntentionsAreLast /\ StoreNamesLast

-----------------------------------------------------------------------------
LEMMA AllIsNoCamera == All \notin Cameras /\ All \in Address /\ Cameras \subseteq Address /\ 0 \in Cameras
BY CameraCountAssumption DEF All, Cameras, Address

LEMMA InitHolds == Init => IInv
<1> SUFFICES ASSUME Init PROVE IInv
  OBVIOUS
<1> USE AllIsNoCamera DEF Init
<1>1. TypeOK
  <2>1. NoJob \in Job /\ last \in [Address -> Command] /\ recorded \in [Address -> Command]
    BY DEF Job, NoJob, Command, Address
  <2> QED BY <2>1 DEF TypeOK, NoOne, Places, Command
<1>2. RunnerFitsJob
  BY DEF RunnerFitsJob
<1>3. UnusedBeforeChannel
  BY DEF UnusedBeforeChannel, Unused, calling
<1>4. SettingsFollowQueue
  BY DEF SettingsFollowQueue, SettingsFollow, NewestFor, WorkingFor
<1>5. IntentionsAreLast
  BY DEF IntentionsAreLast, BroadcastsAreLast, IntendedLast, NewestFor, Address
<1>6. StoreNamesLast
  BY DEF StoreNamesLast, StoreNames, HandlersOf
<1> QED BY <1>1, <1>2, <1>3, <1>4, <1>5, <1>6 DEF IInv

-----------------------------------------------------------------------------
(* Types, and the places of the runner.                                    *)

LEMMA ParamsIsJob ==
  /\ \A cmd \in Nat : \A a \in Address : Params(cmd, a) \in Job
  /\ \A j \in Job : FirstStep(j) \in {"histogram", "expand", "options"}
BY DEF Params, Job, FirstStep

LEMMA TypeStep == TypeOK /\ RunnerFitsJob /\ [Next]_vars => TypeOK'
<1> SUFFICES ASSUME TypeOK, RunnerFitsJob, [Next]_vars PROVE TypeOK'
  OBVIOUS
<1> USE AllIsNoCamera, ParamsIsJob DEF TypeOK, runnerVars, callerVars
<1>1. ASSUME NEW a \in Address, HandleParameters(a) \/ (a \in Cameras /\ SendDirectly(a))
      PROVE  TypeOK'
  <2>1. Params(given, a) \in Job /\ Params(given, a).cam = a /\ Params(given, a).cmd = given
    BY DEF Params
  <2>2. intended' \in [Cameras -> Command]
    BY <1>1, <2>1 DEF HandleParameters, SendDirectly, Enqueue, Command, Address
  <2>3. last' \in [Address -> Command]
    BY <1>1 DEF HandleParameters, SendDirectly, Command
  <2>4. bypassed' \in SUBSET Address /\ handlers' \in SUBSET Job
    BY <1>1, <2>1 DEF HandleParameters, SendDirectly
  <2>7. queue' = Append(queue, Params(given, a)) /\ given' = given + 1
    BY <1>1 DEF HandleParameters, SendDirectly, Enqueue
  <2>5. queue' \in Seq(Job) /\ given' \in Nat
    BY <2>1, <2>7
  <2>6. UNCHANGED <<channels, runnerVars, recorded, camera, greeting, disposer, greeted, gaveUp>>
    BY <1>1 DEF HandleParameters, SendDirectly
  <2> QED BY <2>2, <2>3, <2>4, <2>5, <2>6
<1>2. CASE HandleHistogram
  <2>1. [kind |-> "histogram", cmd |-> given, cam |-> 0] \in Job
    BY DEF Job, Address
  <2> QED BY <1>2, <2>1 DEF HandleHistogram, Enqueue
<1>3. CASE Recorder
  <2>1. CASE RecordState
    <3>1. PICK h \in handlers : recorded' = [recorded EXCEPT ![h.cam] = h.cmd]
                                /\ handlers' = handlers \ {h}
      BY <2>1 DEF RecordState
    <3>2. h.cmd \in Command
      BY <3>1 DEF Job, Command
    <3>3. recorded' \in [Address -> Command]
      BY <3>1, <3>2
    <3>4. UNCHANGED <<queue, channels, runnerVars, given, last, bypassed, camera, greeting,
                      disposer, greeted, intended, gaveUp>>
      BY <2>1 DEF RecordState
    <3> QED BY <3>1, <3>3, <3>4
  <2>2. CASE RecordFails
    <3>1. PICK h \in handlers : bypassed' = bypassed \union {h.cam}
                                /\ handlers' = handlers \ {h}
      BY <2>2 DEF RecordFails
    <3>2. h.cam \in Address
      BY <3>1 DEF Job
    <3>3. UNCHANGED <<queue, channels, runnerVars, recorded, given, last, camera, greeting,
                      disposer, greeted, intended, gaveUp>>
      BY <2>2 DEF RecordFails
    <3> QED BY <3>1, <3>2, <3>3
  <2> QED BY <1>3, <2>1, <2>2 DEF Recorder
<1>4. CASE TakeJob
  <2>1. Head(queue) \in Job /\ Tail(queue) \in Seq(Job)
    BY <1>4 DEF TakeJob
  <2> QED BY <1>4, <2>1 DEF TakeJob, Places
<1>5. CASE ExpandNext
  <2>1. attempt \in Cameras /\ job.cmd \in Nat
    BY <1>5, CameraCountAssumption DEF ExpandNext, RunnerFitsJob, Cameras, Job
  <2>2. /\ Params(job.cmd, attempt) \in Job
        /\ Params(job.cmd, attempt).cam = attempt /\ Params(job.cmd, attempt).cmd = job.cmd
    BY <2>1 DEF Params, Address
  <2>3. intended' \in [Cameras -> Command]
    BY <1>5, <2>1, <2>2 DEF ExpandNext, Enqueue, Command
  <2> QED BY <1>5, <2>2, <2>3 DEF ExpandNext, Enqueue, Places
<1>6. CASE LookupChannel
  BY <1>6 DEF LookupChannel
<1>7. CASE AddChannel
  BY <1>7 DEF AddChannel
<1>8. ASSUME AfterCall(TRUE) \/ AfterCall(FALSE), calling, UNCHANGED channels,
             camera' \in [Cameras -> [options : Command, shutter : Command, histogram : Command]]
      PROVE  TypeOK'
  <2>1. pc' \in Places /\ client' \in {"lookup", "adding", "ready"} /\ error' \in BOOLEAN
    BY <1>8 DEF AfterCall, Places
  <2>2. gaveUp' \in SUBSET Cameras
    BY <1>8 DEF AfterCall
  <2>3. UNCHANGED <<queue, job, attempt, callerVars, greeting, disposer, greeted, intended>>
    BY <1>8 DEF AfterCall
  <2> QED BY <1>8, <2>1, <2>2, <2>3
<1>9. CASE AddThrows
  <2>1. CASE pc = "histogram"
    BY <1>9, <2>1 DEF AddThrows, Places
  <2>2. CASE pc # "histogram"
    <3>1. AfterCall(TRUE) /\ calling /\ UNCHANGED <<channels, camera>>
      BY <1>9, <2>2 DEF AddThrows
    <3> QED BY <1>8, <3>1
  <2> QED BY <2>1, <2>2
<1>10. CASE Answered \/ CallFails
  <2>1. job.cmd \in Command /\ job.cam \in Cameras
    BY <1>10 DEF Answered, CallFails, calling, RunnerFitsJob, Job, Command
  <2>2. [camera EXCEPT ![job.cam][pc] = job.cmd]
          \in [Cameras -> [options : Command, shutter : Command, histogram : Command]]
    BY <1>10, <2>1 DEF Answered, CallFails, calling
  <2>3. camera' \in [Cameras -> [options : Command, shutter : Command, histogram : Command]]
    BY <1>10, <2>2 DEF Answered, CallFails
  <2>4. CASE Answered
    <3>1. AfterCall(FALSE) /\ calling /\ UNCHANGED channels
      BY <2>4 DEF Answered
    <3> QED BY <1>8, <2>3, <3>1
  <2>5. CASE CallFails
    <3>1. AfterCall(TRUE) /\ calling /\ UNCHANGED channels
      BY <2>5 DEF CallFails
    <3> QED BY <1>8, <2>3, <3>1
  <2> QED BY <1>10, <2>4, <2>5
<1>11. CASE CallDisposed
  <2>1. AfterCall(TRUE) /\ calling /\ UNCHANGED <<channels, camera>>
    BY <1>11 DEF CallDisposed
  <2> QED BY <1>8, <2>1
<1>12. CASE DelayEnds
  <2>1. FirstStep(job) \in Places /\ job.cam \in Cameras
    BY <1>12 DEF DelayEnds, Places, RunnerFitsJob
  <2>2. pc' \in Places /\ attempt' \in Nat
    BY <1>12, <2>1 DEF DelayEnds, Places
  <2>4. error' \in BOOLEAN
    BY <1>12, <2>1 DEF DelayEnds
  <2>5. gaveUp' \in SUBSET Cameras
    BY <1>12, <2>1 DEF DelayEnds
  <2>3. UNCHANGED <<queue, channels, client, job, callerVars, camera, greeting, disposer,
                    greeted, intended>>
    BY <1>12 DEF DelayEnds
  <2> QED BY <2>2, <2>3, <2>4, <2>5
<1>13. CASE FindNothing \/ WakeUp \/ RunnerEnds
  BY <1>13 DEF FindNothing, WakeUp, RunnerEnds, Places
<1>14. CASE Greeter
  <2>1. ASSUME NEW c \in Cameras, BeginGreeting(c) PROVE TypeOK'
    BY <2>1 DEF BeginGreeting
  <2>2. CASE GreetingAdds
    <3>1. channels' \in [Cameras -> {"none", "open", "closed"}]
      BY <2>2 DEF GreetingAdds
    <3>3. greeting' \in [on : BOOLEAN, cam : Cameras, at : {"lookup", "adding", "ready"}]
      <4>1. CASE channels[greeting.cam] = "none"
        BY <2>2, <4>1 DEF GreetingAdds
      <4>2. CASE channels[greeting.cam] # "none"
        <5>1. greeting' = NoOne
          BY <2>2, <4>2 DEF GreetingAdds
        <5> QED BY <5>1 DEF NoOne
      <4> QED BY <4>1, <4>2
    <3>2. UNCHANGED <<queue, runnerVars, callerVars, camera, disposer, greeted, intended, gaveUp>>
      BY <2>2 DEF GreetingAdds
    <3> QED BY <3>1, <3>2, <3>3
  <2>3. CASE GreetingEnds
    BY <2>3 DEF GreetingEnds, NoOne
  <2> QED BY <1>14, <2>1, <2>2, <2>3 DEF Greeter
<1>15. CASE DisposeChannels \/ CancelRunner
  BY <1>15 DEF DisposeChannels, CancelRunner
<1>16. CASE UNCHANGED vars
  BY <1>16 DEF vars
<1> QED BY <1>1, <1>2, <1>3, <1>4, <1>5, <1>6, <1>7, <1>9, <1>10, <1>11, <1>12, <1>13,
           <1>14, <1>15, <1>16 DEF Next, Callers, Runner

LEMMA RunnerStep == TypeOK /\ RunnerFitsJob /\ [Next]_vars => RunnerFitsJob'
<1> SUFFICES ASSUME TypeOK, RunnerFitsJob, [Next]_vars PROVE RunnerFitsJob'
  OBVIOUS
<1> DEFINE Histograms(q) ==
      \A i \in DOMAIN q : q[i].kind = "histogram" => q[i].cam \in Cameras
<1> USE AllIsNoCamera DEF RunnerFitsJob, runnerVars
\* What is appended is a job of parameters, or one for camera 0.
<1>1. ASSUME NEW j \in Job, j.kind = "histogram" => j.cam \in Cameras, Enqueue(j),
             UNCHANGED runnerVars
      PROVE  RunnerFitsJob'
  <2>1. queue \in Seq(Job) /\ queue' = Append(queue, j)
    BY <1>1 DEF TypeOK, Enqueue
  <2>2. Histograms(queue')
    BY <1>1, <2>1
  <2> QED BY <1>1, <2>2
<1>2. ASSUME NEW a \in Address, HandleParameters(a) \/ SendDirectly(a) PROVE RunnerFitsJob'
  <2>1. Params(given, a) \in Job /\ Params(given, a).kind = "params"
    BY ParamsIsJob DEF TypeOK, Params
  <2> QED BY <1>1, <1>2, <2>1 DEF HandleParameters, SendDirectly
<1>3. CASE HandleHistogram
  <2>1. [kind |-> "histogram", cmd |-> given, cam |-> 0] \in Job
    BY DEF TypeOK, Job, Address
  <2> QED BY <1>1, <1>3, <2>1 DEF HandleHistogram
<1>4. CASE TakeJob
  <2>1. /\ queue \in Seq(Job) /\ queue # <<>>
        /\ job' = Head(queue) /\ queue' = Tail(queue) /\ attempt' = 0
        /\ pc' = FirstStep(job') /\ client' = "lookup"
    BY <1>4 DEF TakeJob, TypeOK
  <2>2. job' \in Job /\ (job'.kind = "histogram" => job'.cam \in Cameras)
    BY <2>1
  <2>3. Histograms(queue')
    BY <2>1
  <2>4. \/ pc' = "expand" /\ job'.kind = "params" /\ job'.cam = All
        \/ pc' = "options" /\ job'.kind = "params" /\ job'.cam \in Cameras
        \/ pc' = "histogram" /\ job'.kind = "histogram" /\ job'.cam \in Cameras
    BY <2>1, <2>2 DEF FirstStep, Job, Address
  <2>5. attempt' < CameraCount
    BY <2>1, CameraCountAssumption
  <2> QED BY <2>3, <2>4, <2>5
<1>5. CASE ExpandNext
  <2>1. queue \in Seq(Job) /\ queue' = Append(queue, Params(job.cmd, attempt))
    BY <1>5 DEF ExpandNext, Enqueue, TypeOK
  <2>2. Params(job.cmd, attempt) \in Job /\ Params(job.cmd, attempt).kind = "params"
    <3>1. attempt \in Address /\ job.cmd \in Nat
      BY <1>5, CameraCountAssumption DEF ExpandNext, TypeOK, Address, Cameras, Job
    <3> QED BY <3>1, ParamsIsJob DEF Params
  <2>3. Histograms(queue')
    BY <2>1, <2>2
  <2>4. attempt + 1 # CameraCount => attempt + 1 < CameraCount
    BY <1>5, CameraCountAssumption DEF ExpandNext, TypeOK
  <2> QED BY <1>5, <2>3, <2>4 DEF ExpandNext
<1>6. CASE LookupChannel \/ AddChannel
  BY <1>6 DEF LookupChannel, AddChannel, calling
<1>7. ASSUME AfterCall(TRUE) \/ AfterCall(FALSE), calling PROVE RunnerFitsJob'
  <2>1. job.cam \in Cameras /\ job' = job /\ queue' = queue /\ client' = "lookup"
    BY <1>7 DEF AfterCall, calling
  <2>2. pc' = (IF pc = "options" THEN "shutter" ELSE IF error' THEN "delay" ELSE "idle")
    BY <1>7 DEF AfterCall
  <2>3. CASE pc = "options"
    BY <2>1, <2>2, <2>3
  <2>4. CASE pc # "options"
    BY <2>1, <2>2, <2>4
  <2> QED BY <2>3, <2>4
<1>8. CASE AddThrows
  <2>1. CASE pc = "histogram"
    BY <1>8, <2>1 DEF AddThrows
  <2>2. CASE pc # "histogram"
    BY <1>7, <1>8, <2>2 DEF AddThrows
  <2> QED BY <2>1, <2>2
<1>9. CASE Answered \/ CallFails \/ CallDisposed
  BY <1>7, <1>9 DEF Answered, CallFails, CallDisposed
<1>10. CASE DelayEnds
  <2>1. job.cam \in Cameras /\ job' = job /\ queue' = queue /\ client' = "lookup"
    BY <1>10 DEF DelayEnds
  <2>2. \/ pc' = "idle"
        \/ pc' = "options" /\ job.kind = "params"
        \/ pc' = "histogram" /\ job.kind = "histogram"
    BY <1>10, <2>1 DEF DelayEnds, FirstStep, TypeOK, Job
  <2> QED BY <2>1, <2>2
<1>11. CASE FindNothing \/ WakeUp \/ RunnerEnds
  BY <1>11 DEF FindNothing, WakeUp, RunnerEnds
<1>12. CASE Recorder \/ Greeter \/ DisposeChannels \/ CancelRunner
  BY <1>12 DEF Recorder, RecordState, RecordFails, Greeter, BeginGreeting, GreetingAdds,
               GreetingEnds, DisposeChannels, CancelRunner
<1>13. CASE UNCHANGED vars
  BY <1>13 DEF vars
<1> QED BY <1>2, <1>3, <1>4, <1>5, <1>6, <1>8, <1>9, <1>10, <1>11, <1>12, <1>13
        DEF Next, Callers, Runner

-----------------------------------------------------------------------------
(* Greetings.                                                              *)

LEMMA UnusedStep ==
  TypeOK /\ RunnerFitsJob /\ UnusedBeforeChannel /\ [Next]_vars => UnusedBeforeChannel'
<1> SUFFICES ASSUME TypeOK, RunnerFitsJob, UnusedBeforeChannel, [Next]_vars
             PROVE  UnusedBeforeChannel'
  OBVIOUS
<1> USE DEF UnusedBeforeChannel, calling, runnerVars
\* Only an answer changes a camera, and only a channel that is there brings one.
<1>1. ASSUME camera' = camera
      PROVE  \A c : Unused(c)' <=> Unused(c)
  BY <1>1 DEF Unused
<1>2. CASE Callers \/ Recorder
  BY <1>1, <1>2 DEF Callers, HandleParameters, SendDirectly, HandleHistogram, Recorder, RecordState,
                    RecordFails
<1>3. CASE TakeJob \/ FindNothing \/ WakeUp \/ RunnerEnds \/ ExpandNext
  <2>1. UNCHANGED <<camera, channels>>
    BY <1>3 DEF TakeJob, FindNothing, WakeUp, RunnerEnds, ExpandNext
  <2>2. (client' = "lookup" \/ pc' \notin {"options", "shutter", "histogram"}) /\ pc' # "dead"
    BY <1>3 DEF TakeJob, FindNothing, WakeUp, RunnerEnds, ExpandNext, FirstStep
  <2> QED BY <1>1, <2>1, <2>2
<1>4. CASE LookupChannel
  BY <1>1, <1>4 DEF LookupChannel, RunnerFitsJob
<1>5. CASE AddChannel
  BY <1>1, <1>5 DEF AddChannel, TypeOK
<1>6. CASE AddThrows
  BY <1>1, <1>6 DEF AddThrows, AfterCall
<1>7. CASE Answered \/ CallFails
  <2>1. job.cam \in Cameras /\ channels[job.cam] = "open" /\ channels' = channels
    BY <1>7 DEF Answered, CallFails, RunnerFitsJob
  <2>2. client' = "lookup" /\ pc' # "dead"
    BY <1>7 DEF Answered, CallFails, AfterCall
  <2>3. \A c \in Cameras : c # job.cam => camera'[c] = camera[c]
    BY <1>7 DEF Answered, CallFails, TypeOK
  <2>4. \A c \in Cameras : c # job.cam => (Unused(c)' <=> Unused(c))
    BY <2>3 DEF Unused
  <2> QED BY <2>1, <2>2, <2>4
<1>8. CASE CallDisposed
  BY <1>1, <1>8 DEF CallDisposed, AfterCall
<1>9. CASE DelayEnds
  BY <1>1, <1>9 DEF DelayEnds, RunnerFitsJob, FirstStep
<1>10. CASE Greeter
  <2>1. /\ \A c \in Cameras : channels'[c] = "none" => channels[c] = "none"
        /\ UNCHANGED <<camera, runnerVars>>
    BY <1>10 DEF Greeter, BeginGreeting, GreetingAdds, GreetingEnds, TypeOK
  <2> QED BY <1>1, <2>1
<1>11. CASE DisposeChannels \/ CancelRunner
  <2>1. /\ \A c \in Cameras : channels'[c] = "none" => channels[c] = "none"
        /\ UNCHANGED <<camera, runnerVars>>
    BY <1>11 DEF DisposeChannels, CancelRunner
  <2> QED BY <1>1, <2>1
<1>12. CASE UNCHANGED vars
  BY <1>1, <1>12 DEF vars
<1> QED BY <1>2, <1>3, <1>4, <1>5, <1>6, <1>7, <1>8, <1>9, <1>10, <1>11, <1>12
        DEF Next, Runner

-----------------------------------------------------------------------------
(* The settings.                                                           *)

\* Steps that leave the queue, the cameras and the history alone, and the runner
\* at work for whom it was.
LEMMA SettingsKept ==
  ASSUME SettingsFollowQueue,
         UNCHANGED <<queue, camera, intended, job>>,
         gaveUp \subseteq gaveUp',
         \A c \in Cameras : WorkingFor(c) <=> WorkingFor(c)',
         pc' = "shutter" => pc = "shutter" /\ error' = error
  PROVE  SettingsFollowQueue'
<1> SUFFICES ASSUME NEW c \in Cameras PROVE SettingsFollow(c)'
  BY DEF SettingsFollowQueue
<1>1. SettingsFollow(c)
  BY DEF SettingsFollowQueue
<1>2. \A n : (NewestFor(queue, c, n)' <=> NewestFor(queue, c, n))
  OBVIOUS
<1> QED BY <1>1 DEF SettingsFollow

LEMMA SettingsAfterEnqueue ==
  ASSUME TypeOK, SettingsFollowQueue, NEW j \in Job, Enqueue(j),
         UNCHANGED <<camera, gaveUp, job, error>>,
         \A c \in Cameras : WorkingFor(c) <=> WorkingFor(c)',
         pc' = "shutter" => pc = "shutter"
  PROVE  SettingsFollowQueue'
<1> SUFFICES ASSUME NEW c \in Cameras PROVE SettingsFollow(c)'
  BY DEF SettingsFollowQueue
<1>1. SettingsFollow(c) /\ queue \in Seq(Job) /\ queue' = Append(queue, j)
  BY DEF SettingsFollowQueue, TypeOK, Enqueue
<1>2. CASE IsFor(j, c)
  <2>1. intended'[c] = j.cmd
    BY <1>2, AllIsNoCamera DEF Enqueue, IsFor, TypeOK
  <2>2. NewestFor(queue', c, j.cmd) /\ ~NoneFor(queue', c)
    BY <1>1, <1>2, AppendedIsNewest
  <2> QED BY <1>1, <2>1, <2>2 DEF SettingsFollow
<1>3. CASE ~IsFor(j, c)
  <2>1. intended'[c] = intended[c]
    BY <1>3 DEF Enqueue, IsFor, TypeOK
  <2>2. NewestFor(queue', c, intended[c]) /\ (NoneFor(queue', c) <=> NoneFor(queue, c))
    BY <1>1, <1>3, AppendedForOthers DEF SettingsFollow
  <2> QED BY <1>1, <2>1, <2>2 DEF SettingsFollow
<1> QED BY <1>2, <1>3

LEMMA SettingsStep ==
  TypeOK /\ RunnerFitsJob /\ SettingsFollowQueue /\ [Next]_vars => SettingsFollowQueue'
<1> SUFFICES ASSUME TypeOK, RunnerFitsJob, SettingsFollowQueue, [Next]_vars
             PROVE  SettingsFollowQueue'
  OBVIOUS
<1> USE DEF runnerVars
<1>1. ASSUME NEW a \in Address, HandleParameters(a) \/ SendDirectly(a)
      PROVE  SettingsFollowQueue'
  <2>1. Params(given, a) \in Job
    BY ParamsIsJob DEF TypeOK
  <2>2. /\ Enqueue(Params(given, a)) /\ UNCHANGED <<camera, gaveUp, job, error, pc>>
    BY <1>1 DEF HandleParameters, SendDirectly
  <2> QED BY <2>1, <2>2, SettingsAfterEnqueue DEF WorkingFor
<1>2. CASE HandleHistogram
  <2>1. [kind |-> "histogram", cmd |-> given, cam |-> 0] \in Job
    BY AllIsNoCamera DEF TypeOK, Job, Address
  <2>2. /\ Enqueue([kind |-> "histogram", cmd |-> given, cam |-> 0])
        /\ UNCHANGED <<camera, gaveUp, job, error, pc>>
    BY <1>2 DEF HandleHistogram
  <2> QED BY <2>1, <2>2, SettingsAfterEnqueue DEF WorkingFor
<1>3. CASE TakeJob
  <2> SUFFICES ASSUME NEW c \in Cameras PROVE SettingsFollow(c)'
    BY DEF SettingsFollowQueue
  <2>1. /\ queue \in Seq(Job) /\ queue # <<>> /\ queue' = Tail(queue)
        /\ pc = "idle" /\ job' = Head(queue) /\ pc' = FirstStep(job')
        /\ UNCHANGED <<camera, intended, gaveUp>>
    BY <1>3 DEF TakeJob, TypeOK
  <2>2. SettingsFollow(c) /\ ~WorkingFor(c) /\ job' \in Job
    BY <2>1 DEF SettingsFollowQueue, WorkingFor
  <2>3. WorkingFor(c)' <=> IsFor(Head(queue), c)
    BY <2>1, <2>2, AllIsNoCamera DEF WorkingFor, IsFor, FirstStep
  <2>4. pc' # "shutter"
    BY <2>1, <2>2, ParamsIsJob
  <2> QED BY <2>1, <2>2, <2>3, <2>4, TailKeepsNewest DEF SettingsFollow
<1>4. CASE ExpandNext
  <2>1. Params(job.cmd, attempt) \in Job
    <3>1. attempt \in Address /\ job.cmd \in Nat
      BY <1>4, CameraCountAssumption
         DEF ExpandNext, RunnerFitsJob, TypeOK, Address, Cameras, Job
    <3> QED BY <3>1, ParamsIsJob
  <2>2. /\ Enqueue(Params(job.cmd, attempt)) /\ UNCHANGED <<camera, gaveUp, job, error>>
        /\ pc = "expand" /\ pc' \in {"expand", "idle"}
    BY <1>4 DEF ExpandNext
  <2> QED BY <2>1, <2>2, SettingsAfterEnqueue DEF WorkingFor
<1>5. CASE LookupChannel \/ AddChannel \/ FindNothing \/ WakeUp \/ RunnerEnds
  <2>1. UNCHANGED <<queue, camera, intended, job, gaveUp, error>>
    BY <1>5 DEF LookupChannel, AddChannel, FindNothing, WakeUp, RunnerEnds
  <2>2. \/ pc' = pc
        \/ pc \in {"idle", "waiting"} /\ pc' \in {"idle", "waiting", "ended"}
    BY <1>5 DEF LookupChannel, AddChannel, FindNothing, WakeUp, RunnerEnds
  <2> QED BY <2>1, <2>2, SettingsKept DEF WorkingFor
<1>6. CASE AddThrows /\ pc = "histogram"
  BY <1>6, SettingsKept DEF AddThrows, WorkingFor
\* One of the calls ends, with what it has done to the camera or without.
<1>7. ASSUME NEW failed \in {TRUE, FALSE}, calling, AfterCall(failed),
             \/ camera' = [camera EXCEPT ![job.cam][pc] = job.cmd]
             \/ failed = TRUE /\ camera' = camera
      PROVE  SettingsFollowQueue'
  <2> SUFFICES ASSUME NEW c \in Cameras PROVE SettingsFollow(c)'
    BY DEF SettingsFollowQueue
  <2>1. SettingsFollow(c) /\ job.cam \in Cameras /\ UNCHANGED <<queue, job, intended>>
    BY <1>7 DEF SettingsFollowQueue, RunnerFitsJob, calling, AfterCall
  <2>2. CASE pc = "histogram"
    <3>1. pc' # "shutter" /\ ~WorkingFor(c) /\ ~WorkingFor(c)' /\ gaveUp' = gaveUp
      BY <1>7, <2>1, <2>2 DEF AfterCall, WorkingFor, RunnerFitsJob
    <3>2. camera'[c].options = camera[c].options /\ camera'[c].shutter = camera[c].shutter
      BY <1>7, <2>2 DEF TypeOK
    <3> QED BY <2>1, <3>1, <3>2 DEF SettingsFollow
  <2>3. CASE pc # "histogram" /\ c # job.cam
    <3>1. ~WorkingFor(c) /\ ~WorkingFor(c)' /\ (c \in gaveUp' <=> c \in gaveUp)
      BY <1>7, <2>1, <2>3 DEF AfterCall, WorkingFor
    <3>2. camera'[c] = camera[c]
      BY <1>7, <2>1, <2>3 DEF TypeOK
    <3> QED BY <2>1, <2>3, <3>1, <3>2 DEF SettingsFollow
  <2>4. CASE pc = "options" /\ c = job.cam
    <3>1. WorkingFor(c) /\ WorkingFor(c)' /\ (error' <=> error \/ failed)
      BY <1>7, <2>1, <2>4 DEF AfterCall, WorkingFor, RunnerFitsJob
    <3>2. ~failed => camera'[c].options = job.cmd
      BY <1>7, <2>1, <2>4 DEF TypeOK
    <3> QED BY <2>1, <3>1, <3>2 DEF SettingsFollow
  <2>5. CASE pc = "shutter" /\ c = job.cam
    <3>1. WorkingFor(c) /\ (error' <=> error \/ failed) /\ pc' # "shutter"
      BY <1>7, <2>1, <2>5 DEF AfterCall, WorkingFor, RunnerFitsJob
    <3>2. CASE error'
      BY <1>7, <2>1, <2>5, <3>1, <3>2 DEF AfterCall, WorkingFor, SettingsFollow
    <3>3. CASE ~error'
      <4>1. camera'[c].options = camera[c].options /\ camera'[c].shutter = job.cmd
        BY <1>7, <2>1, <2>5, <3>1, <3>3 DEF TypeOK
      <4> QED BY <2>1, <2>5, <3>1, <3>3, <4>1 DEF SettingsFollow
    <3> QED BY <3>2, <3>3
  <2> QED BY <1>7, <2>2, <2>3, <2>4, <2>5 DEF calling
<1>8. CASE AddThrows /\ pc # "histogram"
  <2>1. calling /\ AfterCall(TRUE) /\ camera' = camera
    BY <1>8 DEF AddThrows
  <2> QED BY <1>7, <2>1
<1>9. CASE Answered
  <2>1. calling /\ AfterCall(FALSE) /\ camera' = [camera EXCEPT ![job.cam][pc] = job.cmd]
    BY <1>9 DEF Answered
  <2> QED BY <1>7, <2>1
<1>10. CASE CallFails \/ CallDisposed
  <2>1. /\ calling /\ AfterCall(TRUE)
        /\ camera' = [camera EXCEPT ![job.cam][pc] = job.cmd] \/ camera' = camera
    BY <1>10 DEF CallFails, CallDisposed
  <2> QED BY <1>7, <2>1
<1>11. CASE DelayEnds
  <2> SUFFICES ASSUME NEW c \in Cameras PROVE SettingsFollow(c)'
    BY DEF SettingsFollowQueue
  <2>1. SettingsFollow(c) /\ UNCHANGED <<queue, job, intended, camera>> /\ pc = "delay"
    BY <1>11 DEF SettingsFollowQueue, DelayEnds
  <2>2. pc' # "shutter"
    BY <1>11, ParamsIsJob DEF DelayEnds, TypeOK
  <2>3. CASE attempt + 1 < Retry
    <3>1. gaveUp' = gaveUp /\ pc' = FirstStep(job)
      BY <1>11, <2>3 DEF DelayEnds
    <3>2. WorkingFor(c)' <=> WorkingFor(c)
      BY <2>1, <3>1, AllIsNoCamera DEF WorkingFor, FirstStep, RunnerFitsJob
    <3> QED BY <2>1, <2>2, <3>1, <3>2 DEF SettingsFollow
  <2>4. CASE ~(attempt + 1 < Retry)
    <3>1. /\ ~WorkingFor(c)' /\ (WorkingFor(c) => c \in gaveUp')
          /\ c \in gaveUp => c \in gaveUp'
      BY <1>11, <2>1, <2>4 DEF DelayEnds, WorkingFor
    <3> QED BY <2>1, <2>2, <3>1 DEF SettingsFollow
  <2> QED BY <2>3, <2>4
<1>12. CASE Recorder \/ Greeter \/ DisposeChannels \/ CancelRunner
  <2>1. UNCHANGED <<queue, camera, intended, job, gaveUp, error, pc>>
    BY <1>12 DEF Recorder, RecordState, RecordFails, Greeter, BeginGreeting, GreetingAdds,
                 GreetingEnds, DisposeChannels, CancelRunner
  <2> QED BY <2>1, SettingsKept DEF WorkingFor
<1>13. CASE UNCHANGED vars
  BY <1>13, SettingsKept DEF vars, WorkingFor
<1> QED BY <1>1, <1>2, <1>3, <1>4, <1>5, <1>6, <1>8, <1>9, <1>10, <1>11, <1>12, <1>13,
           AllIsNoCamera
        DEF Next, Callers, Runner

-----------------------------------------------------------------------------
(* The event store.                                                        *)

\* Steps of the runner that neither take nor add a job, and of the others.
LEMMA IntentionsKept ==
  ASSUME IntentionsAreLast,
         UNCHANGED <<queue, intended, job, last>>,
         pc' = "expand" <=> pc = "expand",
         pc = "expand" => attempt' = attempt
  PROVE  IntentionsAreLast'
BY DEF IntentionsAreLast, BroadcastsAreLast, IntendedLast, AwaitsAll

LEMMA IntentionsStep ==
  TypeOK /\ RunnerFitsJob /\ IntentionsAreLast /\ [Next]_vars => IntentionsAreLast'
<1> SUFFICES ASSUME TypeOK, RunnerFitsJob, IntentionsAreLast, [Next]_vars
             PROVE  IntentionsAreLast'
  OBVIOUS
<1> USE DEF runnerVars, callerVars
<1>0. BroadcastsAreLast /\ \A c \in Cameras : IntendedLast(c)
  BY DEF IntentionsAreLast
\* A new command for an address is the last one for it.
<1>1. ASSUME NEW a \in Address, HandleParameters(a) \/ SendDirectly(a)
      PROVE  IntentionsAreLast'
  <2>1. /\ Params(given, a) \in Job /\ IsFor(Params(given, a), a)
        /\ Params(given, a).cmd = given /\ Params(given, a).cam = a
        /\ Params(given, a).kind = "params"
    BY ParamsIsJob DEF TypeOK, Params, IsFor
  <2>2. queue \in Seq(Job) /\ queue' = Append(queue, Params(given, a))
    BY <1>1 DEF TypeOK, HandleParameters, SendDirectly, Enqueue
  <2>3. last' = [last EXCEPT ![a] = given] /\ UNCHANGED <<job, pc, attempt>>
    BY <1>1 DEF HandleParameters, SendDirectly
  <2>4. last'[a] = given /\ \A b \in Address : b # a => last'[b] = last[b]
    BY <2>3 DEF TypeOK
  <2>6. CASE a = All
    <3>1. NewestFor(queue', All, given) /\ ~NoneFor(queue', All)
      BY <2>1, <2>2, <2>6, AppendedIsNewest
    <3> QED BY <2>4, <2>6, <3>1 DEF IntentionsAreLast, BroadcastsAreLast, IntendedLast,
                                    AwaitsAll
  <2>7. CASE a # All
    <3>1. a \in Cameras /\ intended' = [intended EXCEPT ![a] = given]
      BY <1>1, <2>1, <2>7 DEF HandleParameters, SendDirectly, Enqueue, Address
    <3>2. ~IsFor(Params(given, a), All)
      BY <2>1, <2>7 DEF IsFor
    <3>3. /\ NoneFor(queue', All) <=> NoneFor(queue, All)
          /\ \A n : NewestFor(queue, All, n) => NewestFor(queue', All, n)
      BY <2>1, <2>2, <3>2, AppendedForOthers
    <3>4. last'[All] = last[All]
      BY <2>4, <2>7, AllIsNoCamera
    <3>5. BroadcastsAreLast'
      BY <1>0, <2>3, <3>3, <3>4 DEF BroadcastsAreLast
    <3>6. IntendedLast(a)'
      BY <2>4, <3>1 DEF IntendedLast, TypeOK
    <3>7. ASSUME NEW c \in Cameras, c # a PROVE IntendedLast(c)'
      <4>1. intended'[c] = intended[c]
        BY <3>1, <3>7 DEF TypeOK
      <4>2. last'[c] = last[c]
        BY <2>4, <3>7, AllIsNoCamera
      <4> QED BY <1>0, <2>3, <3>3, <3>4, <4>1, <4>2 DEF IntendedLast, AwaitsAll
    <3> QED BY <3>5, <3>6, <3>7 DEF IntentionsAreLast
  <2> QED BY <2>6, <2>7
<1>2. CASE HandleHistogram
  <2> DEFINE j == [kind |-> "histogram", cmd |-> given, cam |-> 0]
  <2>1. j \in Job /\ ~IsFor(j, All)
    BY AllIsNoCamera DEF TypeOK, Job, Address, IsFor
  <2>2. /\ queue \in Seq(Job) /\ queue' = Append(queue, j)
        /\ UNCHANGED <<job, pc, attempt, last, intended>>
    BY <1>2 DEF TypeOK, HandleHistogram, Enqueue
  <2>3. /\ NoneFor(queue', All) <=> NoneFor(queue, All)
        /\ \A n : NewestFor(queue, All, n) => NewestFor(queue', All, n)
    BY <2>1, <2>2, AppendedForOthers
  <2> QED BY <2>2, <2>3, <1>0 DEF IntentionsAreLast, BroadcastsAreLast, IntendedLast,
                                  AwaitsAll
<1>3. CASE Recorder
  <2>1. UNCHANGED <<queue, job, pc, attempt, intended, last>>
    BY <1>3 DEF Recorder, RecordState, RecordFails
  <2> QED BY <2>1, IntentionsKept
<1>4. CASE TakeJob
  <2>1. /\ queue \in Seq(Job) /\ queue # <<>> /\ queue' = Tail(queue)
        /\ pc = "idle" /\ job' = Head(queue) /\ pc' = FirstStep(job') /\ attempt' = 0
        /\ UNCHANGED <<intended, callerVars>>
    BY <1>4 DEF TakeJob, TypeOK
  <2>2. pc' = "expand" <=> IsFor(Head(queue), All)
    BY <2>1 DEF IsFor, FirstStep, Job
  <2>3. last' = last
    BY <2>1
  <2>4. BroadcastsAreLast'
    BY <1>0, <2>1, <2>2, <2>3, TailKeepsNewest DEF BroadcastsAreLast
  <2>5. ASSUME NEW c \in Cameras PROVE IntendedLast(c)'
    <3>1. AwaitsAll(c) => AwaitsAll(c)'
      BY <2>1, <2>2, TailKeepsNewest DEF AwaitsAll, Cameras
    <3> QED BY <1>0, <2>1, <2>3, <3>1 DEF IntendedLast
  <2> QED BY <2>4, <2>5 DEF IntentionsAreLast
<1>5. CASE ExpandNext
  <2>1. /\ attempt \in Cameras /\ attempt \in Address /\ job.cmd \in Nat /\ pc = "expand"
        /\ attempt # All
    BY <1>5, CameraCountAssumption, AllIsNoCamera
       DEF ExpandNext, RunnerFitsJob, TypeOK, Address, Cameras, Job
  <2>2. /\ Params(job.cmd, attempt) \in Job /\ ~IsFor(Params(job.cmd, attempt), All)
        /\ Params(job.cmd, attempt).kind = "params"
        /\ Params(job.cmd, attempt).cam = attempt /\ Params(job.cmd, attempt).cmd = job.cmd
    BY <2>1, ParamsIsJob DEF Params, IsFor
  <2>3. /\ queue \in Seq(Job) /\ queue' = Append(queue, Params(job.cmd, attempt))
        /\ intended' = [intended EXCEPT ![attempt] = job.cmd]
        /\ attempt' = attempt + 1 /\ UNCHANGED <<job, callerVars>>
        /\ pc' = "expand" \/ (attempt + 1 = CameraCount /\ pc' = "idle")
    BY <1>5, <2>1, <2>2 DEF TypeOK, ExpandNext, Enqueue
  <2>4. /\ NoneFor(queue', All) <=> NoneFor(queue, All)
        /\ \A n : NewestFor(queue, All, n) => NewestFor(queue', All, n)
    BY <2>2, <2>3, AppendedForOthers
  <2>5. last' = last
    BY <2>3
  <2>6. BroadcastsAreLast'
    BY <1>0, <2>1, <2>3, <2>4, <2>5 DEF BroadcastsAreLast
  <2>7. ASSUME NEW c \in Cameras, c = attempt PROVE IntendedLast(c)'
    <3>1. ~NoneFor(queue, All) \/ job.cmd = last[All]
      BY <1>0, <2>1 DEF BroadcastsAreLast
    <3>2. intended'[c] = job.cmd
      BY <2>1, <2>3, <2>7 DEF TypeOK
    <3> QED BY <2>3, <2>4, <2>5, <3>1, <3>2 DEF IntendedLast, AwaitsAll
  <2>8. ASSUME NEW c \in Cameras, c # attempt PROVE IntendedLast(c)'
    <3>1. intended'[c] = intended[c]
      BY <2>1, <2>3, <2>8 DEF TypeOK
    <3>2. AwaitsAll(c) => AwaitsAll(c)'
      <4>1. attempt <= c => pc' = "expand" /\ attempt + 1 <= c
        BY <2>1, <2>3, <2>8, CameraCountAssumption DEF Cameras
      <4> QED BY <2>3, <2>4, <4>1 DEF AwaitsAll
    <3> QED BY <1>0, <2>5, <3>1, <3>2 DEF IntendedLast
  <2> QED BY <2>6, <2>7, <2>8 DEF IntentionsAreLast
<1>6. CASE LookupChannel \/ AddChannel \/ FindNothing \/ WakeUp \/ RunnerEnds
  BY <1>6, IntentionsKept DEF LookupChannel, AddChannel, FindNothing, WakeUp, RunnerEnds
<1>7. ASSUME AfterCall(TRUE) \/ AfterCall(FALSE), calling PROVE IntentionsAreLast'
  <2>1. UNCHANGED <<queue, intended, job, last>> /\ pc # "expand"
    BY <1>7 DEF AfterCall, calling
  <2>2. pc' # "expand"
    BY <1>7 DEF AfterCall
  <2> QED BY <2>1, <2>2, IntentionsKept
<1>8. CASE AddThrows
  <2>1. CASE pc = "histogram"
    BY <1>8, <2>1, IntentionsKept DEF AddThrows
  <2>2. CASE pc # "histogram"
    BY <1>7, <1>8, <2>2 DEF AddThrows
  <2> QED BY <2>1, <2>2
<1>9. CASE Answered \/ CallFails \/ CallDisposed
  BY <1>7, <1>9 DEF Answered, CallFails, CallDisposed
<1>10. CASE DelayEnds
  <2>1. pc = "delay" /\ pc' # "expand" /\ UNCHANGED <<queue, intended, job, last>>
    BY <1>10, AllIsNoCamera DEF DelayEnds, FirstStep, RunnerFitsJob
  <2> QED BY <2>1, IntentionsKept
<1>11. CASE Greeter \/ DisposeChannels \/ CancelRunner
  BY <1>11, IntentionsKept DEF Greeter, BeginGreeting, GreetingAdds, GreetingEnds,
                               DisposeChannels, CancelRunner
<1>12. CASE UNCHANGED vars
  BY <1>12, IntentionsKept DEF vars
<1> QED BY <1>1, <1>2, <1>3, <1>4, <1>5, <1>6, <1>8, <1>9, <1>10, <1>11, <1>12,
           AllIsNoCamera DEF Next, Callers, Runner

-----------------------------------------------------------------------------
(* What the store says.                                                    *)

LEMMA StoreStep == TypeOK /\ StoreNamesLast /\ [Next]_vars => StoreNamesLast'
<1> SUFFICES ASSUME TypeOK, StoreNamesLast, [Next]_vars, NEW b \in Address
             PROVE  StoreNames(b)'
  BY DEF StoreNamesLast
<1>0. StoreNames(b)
  BY DEF StoreNamesLast
\* Only a command for this address, and the end of its handler, make a difference.
<1>1. ASSUME NEW a \in Address, HandleParameters(a) PROVE StoreNames(b)'
  <2>1. /\ handlers' = handlers \union {Params(given, a)}
        /\ last' = [last EXCEPT ![a] = given] /\ recorded' = recorded
        /\ bypassed' = IF HandlersOf(a) = {} THEN bypassed \ {a} ELSE bypassed \union {a}
    BY <1>1 DEF HandleParameters
  <2>2. Params(given, a).cam = a
    BY DEF Params
  <2>3. CASE b = a
    <3>1. CASE HandlersOf(a) = {}
      <4>1. HandlersOf(a)' = {Params(given, a)}
        BY <2>1, <2>2, <3>1 DEF HandlersOf
      <4>2. last'[a] = given
        BY <2>1 DEF TypeOK
      <4> QED BY <2>3, <4>1, <4>2 DEF StoreNames
    <3>2. CASE HandlersOf(a) # {}
      BY <2>1, <2>3, <3>2 DEF StoreNames
    <3> QED BY <3>1, <3>2
  <2>4. CASE b # a
    <3>1. HandlersOf(b)' = HandlersOf(b)
      BY <2>1, <2>2, <2>4 DEF HandlersOf
    <3>2. last'[b] = last[b] /\ (b \in bypassed' <=> b \in bypassed)
      BY <2>1, <2>4 DEF TypeOK
    <3> QED BY <1>0, <2>1, <3>1, <3>2 DEF StoreNames
  <2> QED BY <2>3, <2>4
<1>2. ASSUME NEW c \in Cameras, SendDirectly(c) PROVE StoreNames(b)'
  <2>1. /\ last' = [last EXCEPT ![c] = given] /\ bypassed' = bypassed \union {c}
        /\ UNCHANGED <<handlers, recorded>>
    BY <1>2 DEF SendDirectly
  <2>2. CASE b = c
    BY <2>1, <2>2 DEF StoreNames
  <2>3. CASE b # c
    <3>1. last'[b] = last[b]
      BY <2>1, <2>3 DEF TypeOK
    <3>2. HandlersOf(b)' = HandlersOf(b)
      BY <2>1 DEF HandlersOf
    <3> QED BY <1>0, <2>1, <3>1, <3>2 DEF StoreNames
  <2> QED BY <2>2, <2>3
<1>3. CASE RecordState
  <2>1. PICK h \in handlers : /\ recorded' = [recorded EXCEPT ![h.cam] = h.cmd]
                              /\ handlers' = handlers \ {h}
                              /\ UNCHANGED <<last, bypassed>>
    BY <1>3 DEF RecordState
  <2>2. CASE h.cam = b
    <3>1. h \in HandlersOf(b)
      BY <2>2 DEF HandlersOf
    <3>2. CASE HandlersOf(b) = {Params(last[b], b)}
      <4>1. h = Params(last[b], b) /\ HandlersOf(b)' = {}
        BY <2>1, <3>1, <3>2 DEF HandlersOf
      <4>2. h.cmd = last[b]
        BY <4>1 DEF Params
      <4>3. recorded'[b] = last[b]
        BY <2>1, <2>2, <4>2 DEF TypeOK
      <4> QED BY <2>1, <4>1, <4>3 DEF StoreNames
    <3> QED BY <1>0, <2>1, <3>1, <3>2 DEF StoreNames
  <2>3. CASE h.cam # b
    <3>1. HandlersOf(b)' = HandlersOf(b)
      BY <2>1, <2>3 DEF HandlersOf
    <3>2. recorded'[b] = recorded[b]
      BY <2>1, <2>3 DEF TypeOK
    <3> QED BY <1>0, <2>1, <3>1, <3>2 DEF StoreNames
  <2> QED BY <2>2, <2>3
<1>4. CASE RecordFails
  <2>1. PICK h \in handlers : /\ bypassed' = bypassed \union {h.cam}
                              /\ handlers' = handlers \ {h}
                              /\ UNCHANGED <<last, recorded>>
    BY <1>4 DEF RecordFails
  <2>2. CASE h.cam = b
    BY <2>1, <2>2 DEF StoreNames
  <2>3. CASE h.cam # b
    <3>1. HandlersOf(b)' = HandlersOf(b)
      BY <2>1, <2>3 DEF HandlersOf
    <3> QED BY <1>0, <2>1, <3>1 DEF StoreNames
  <2> QED BY <2>2, <2>3
<1>5. ASSUME UNCHANGED <<handlers, recorded, last, bypassed>> PROVE StoreNames(b)'
  <2>1. HandlersOf(b)' = HandlersOf(b)
    BY <1>5 DEF HandlersOf
  <2> QED BY <1>0, <1>5, <2>1 DEF StoreNames
<1>6. CASE HandleHistogram
  BY <1>5, <1>6 DEF HandleHistogram
<1>7. CASE Runner
  <2> USE DEF callerVars
  <2>1. CASE TakeJob \/ ExpandNext \/ LookupChannel \/ AddChannel
    BY <1>5, <2>1 DEF TakeJob, ExpandNext, LookupChannel, AddChannel
  <2>2. AfterCall(TRUE) \/ AfterCall(FALSE) => StoreNames(b)'
    BY <1>5 DEF AfterCall
  <2>3. CASE AddThrows \/ Answered \/ CallFails \/ CallDisposed
    BY <1>5, <2>2, <2>3 DEF AddThrows, Answered, CallFails, CallDisposed
  <2>4. CASE DelayEnds \/ FindNothing \/ WakeUp \/ RunnerEnds
    BY <1>5, <2>4 DEF DelayEnds, FindNothing, WakeUp, RunnerEnds
  <2> QED BY <1>7, <2>1, <2>3, <2>4 DEF Runner
<1>8. CASE Greeter \/ DisposeChannels \/ CancelRunner \/ UNCHANGED vars
  BY <1>5, <1>8 DEF Greeter, BeginGreeting, GreetingAdds, GreetingEnds, DisposeChannels,
                    CancelRunner, vars, callerVars
<1> QED BY <1>1, <1>2, <1>3, <1>4, <1>6, <1>7, <1>8 DEF Next, Callers, Recorder

-----------------------------------------------------------------------------
LEMMA Invariance == Spec => []IInv
<1>1. Init => IInv
  BY InitHolds
<1>2. IInv /\ [Next]_vars => IInv'
  BY TypeStep, RunnerStep, UnusedStep, SettingsStep, IntentionsStep,
     StoreStep DEF IInv
<1> QED BY <1>1, <1>2, PTL DEF Spec

\* Every variable of the camera manager and its callers holds a value of its kind;
\* in particular no job for all cameras is ever sent to one.
THEOREM TypeCorrect == Spec => [](TypeOK /\ RunnerFitsJob)
<1>1. IInv => TypeOK /\ RunnerFitsJob
  BY DEF IInv
<1> QED BY <1>1, Invariance, PTL

\* For any number of cameras, commands and attempts: a camera without a job ends
\* up with the settings of the job that was queued last for it, both halves.
THEOREM LastJobDecides == Spec => []LastQueuedWins
<1>1. IInv => LastQueuedWins
  <2> SUFFICES ASSUME IInv, NEW c \in Cameras, ~Pending(c), c \notin gaveUp
               PROVE  camera[c].options = intended[c] /\ camera[c].shutter = intended[c]
    BY DEF LastQueuedWins
  <2>1. SettingsFollow(c)
    BY DEF IInv, SettingsFollowQueue
  <2>2. ~WorkingFor(c) /\ NoneFor(queue, c)
    BY DEF Pending, NoneFor, IsFor
  <2> QED BY <2>1, <2>2 DEF SettingsFollow
<1> QED BY <1>1, Invariance, PTL

\* When all is quiet a camera that took its last job holds, both halves, the last
\* command that anybody queued for it or for all cameras, and the event store names
\* that command unless it was bypassed.
THEOREM StoreAgrees == Spec => []CameraHoldsRecorded
<1>1. IInv => CameraHoldsRecorded
  <2> SUFFICES ASSUME IInv, pc = "waiting", queue = <<>>, handlers = {},
                      NEW c \in Cameras, c \notin gaveUp
               PROVE  \E a \in {c, All} :
                        /\ camera[c].options = last[a] /\ camera[c].shutter = last[a]
                        /\ recorded[a] = last[a] \/ a \in bypassed
    BY DEF CameraHoldsRecorded
  <2>1. SettingsFollow(c) /\ IntendedLast(c)
    BY DEF IInv, SettingsFollowQueue, IntentionsAreLast
  <2>2. NoneFor(queue, c) /\ NoneFor(queue, All) /\ ~WorkingFor(c)
    BY DEF NoneFor, WorkingFor
  <2>3. camera[c].options = intended[c] /\ camera[c].shutter = intended[c]
    BY <2>1, <2>2 DEF SettingsFollow
  <2>4. PICK a \in {c, All} : intended[c] = last[a]
    BY <2>1, <2>2 DEF IntendedLast, AwaitsAll
  <2>5. StoreNames(a) /\ HandlersOf(a) = {}
    BY AllIsNoCamera DEF IInv, StoreNamesLast, HandlersOf
  <2> QED BY <2>3, <2>4, <2>5 DEF StoreNames
<1> QED BY <1>1, Invariance, PTL

\* However many greetings race the runner: it dies before the first call to a
\* camera or not at all.
THEOREM DiesEarly == Spec => []DiesOnlyAtFirstUse
<1>1. IInv => DiesOnlyAtFirstUse
  BY DEF IInv, UnusedBeforeChannel, Unused, DiesOnlyAtFirstUse
<1> QED BY <1>1, Invariance, PTL
=============================================================================
