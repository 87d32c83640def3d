----------------------------- MODULE LibCameraVid -----------------------------
(***************************************************************************)
(* LibCameraVidProcess of EventPi.Services.Camera: one object starts the   *)
(* camera program, remembers it in _runningApp and, for its camera, in a   *)
(* slot of CameraProcMap.  Stop() asks the program to end, awaits it and   *)
(* forgets it; Stop(nr) cancels what is in the slot.  A task per process   *)
(* awaits _runningApp, as it finds it, and then clears the slot of its own *)
(* camera.                                                                 *)
(*                                                                         *)
(* A program that was cancelled, or ends with another code than zero,      *)
(* makes everybody who awaits it throw (CliWrap).                          *)
(***************************************************************************)
EXTENDS Integers

CONSTANTS
  Cameras,
  MaxStarted     \* how many processes are started (bounds the runs)

ASSUME CamerasAssumption == Cameras # {}
ASSUME MaxStartedAssumption == MaxStarted \in Nat

VARIABLES
  vidApp,        \* _runningApp: a process or NoApp
  vidSlots,      \* CameraProcMap: per camera a process or NoApp
  vidProcs,      \* per process: its camera and how far it has come
  vidCancelled,  \* processes whose tokens are cancelled
  vidWaiters,    \* per process: what the task started with it awaits
  vidStopping,   \* Stop(): TRUE while it awaits
  vidStarts,     \* history: number of processes started
  vidClean       \* history: processes at whose start no task was left

vidVars == <<vidApp, vidSlots, vidProcs, vidCancelled, vidWaiters, vidStopping,
             vidStarts, vidClean>>

NoApp == -1
Apps == 0 .. MaxStarted - 1
Ended == {"succeeded", "failed", "cancelled"}
OneCamera == CHOOSE c \in Cameras : TRUE

VidInit ==
  /\ vidApp = NoApp
  /\ vidSlots = [c \in Cameras |-> NoApp]
  /\ vidProcs = [p \in Apps |-> [at |-> "none", camera |-> OneCamera]]
  /\ vidCancelled = {}
  /\ vidWaiters = [p \in Apps |-> [at |-> "none", for |-> NoApp]]
  /\ vidStopping = FALSE
  /\ vidStarts = 0 /\ vidClean = {}

-----------------------------------------------------------------------------
WaiterDone(p) == vidWaiters[p].at \in {"none", "done"}

\* Start throws, and changes nothing, as long as a process is remembered.
StartVid(c) ==
  /\ vidStarts < MaxStarted
  /\ vidApp = NoApp
  /\ vidApp' = vidStarts
  /\ vidSlots' = [vidSlots EXCEPT ![c] = vidStarts]
  /\ vidProcs' = [vidProcs EXCEPT ![vidStarts] = [at |-> "running", camera |-> c]]
  /\ vidWaiters' = [vidWaiters EXCEPT ![vidStarts].at = "queued"]
  /\ vidStarts' = vidStarts + 1
  /\ vidClean' = IF \A p \in Apps : WaiterDone(p) THEN vidClean \union {vidStarts}
                                                  ELSE vidClean
  /\ UNCHANGED <<vidCancelled, vidStopping>>

\* The program ends by itself, well or badly, or because it was cancelled.
VidEnds(p) ==
  /\ vidProcs[p].at = "running"
  /\ \E how \in IF p \in vidCancelled THEN {"cancelled"} ELSE {"succeeded", "failed"} :
       vidProcs' = [vidProcs EXCEPT ![p].at = how]
  /\ UNCHANGED <<vidApp, vidSlots, vidCancelled, vidWaiters, vidStopping,
                 vidStarts, vidClean>>

\* Stop(nr): what the slot holds is cancelled and leaves it.  _runningApp stays.
StopSlot(c) ==
  /\ vidSlots[c] # NoApp
  /\ vidCancelled' = IF vidProcs[vidSlots[c]].at = "running"
                       THEN vidCancelled \union {vidSlots[c]} ELSE vidCancelled
  /\ vidSlots' = [vidSlots EXCEPT ![c] = NoApp]
  /\ UNCHANGED <<vidApp, vidProcs, vidWaiters, vidStopping, vidStarts, vidClean>>

\* Stop(): of the process that is remembered; without one it throws.
StopBegins ==
  /\ ~vidStopping /\ vidApp # NoApp
  /\ vidCancelled' = IF vidProcs[vidApp].at = "running"
                       THEN vidCancelled \union {vidApp} ELSE vidCancelled
  /\ vidStopping' = TRUE
  /\ UNCHANGED <<vidApp, vidSlots, vidProcs, vidWaiters, vidStarts, vidClean>>

\* The await throws unless the program succeeded; then the process is not forgotten.
StopEnds ==
  /\ vidStopping
  /\ vidProcs[vidApp].at \in Ended
  /\ vidApp' = IF vidProcs[vidApp].at = "succeeded" THEN NoApp ELSE vidApp
  /\ vidStopping' = FALSE
  /\ UNCHANGED <<vidSlots, vidProcs, vidCancelled, vidWaiters, vidStarts, vidClean>>

\* The task reads _runningApp when it runs: by then it may be null, which throws,
\* or a newer process.
WaiterRuns(p) ==
  /\ vidWaiters[p].at = "queued"
  /\ vidWaiters' = [vidWaiters EXCEPT ![p] = [at |-> "awaiting", for |-> vidApp]]
  /\ UNCHANGED <<vidApp, vidSlots, vidProcs, vidCancelled, vidStopping, vidStarts, vidClean>>

\* Mutant: the slot is cleared without the await.
WaiterClears_AtOnce(p) ==
  /\ vidWaiters[p].at = "awaiting"
  /\ vidSlots' = [vidSlots EXCEPT ![vidProcs[p].camera] = NoApp]
  /\ vidWaiters' = [vidWaiters EXCEPT ![p].at = "done"]
  /\ UNCHANGED <<vidApp, vidProcs, vidCancelled, vidStopping, vidStarts, vidClean>>

\* It clears the slot of its camera, whatever process is in there.
WaiterClears(p) ==
  /\ vidWaiters[p].at = "awaiting"
  /\ vidWaiters[p].for # NoApp => vidProcs[vidWaiters[p].for].at \in Ended
  /\ vidSlots' = [vidSlots EXCEPT ![vidProcs[p].camera] = NoApp]
  /\ vidWaiters' = [vidWaiters EXCEPT ![p].at = "done"]
  /\ UNCHANGED <<vidApp, vidProcs, vidCancelled, vidStopping, vidStarts, vidClean>>

-----------------------------------------------------------------------------
VidNext ==
  \/ \E c \in Cameras : StartVid(c) \/ StopSlot(c)
  \/ \E p \in Apps : VidEnds(p) \/ WaiterRuns(p) \/ WaiterClears(p)
  \/ StopBegins \/ StopEnds

VidSpec == VidInit /\ [][VidNext]_vidVars

-----------------------------------------------------------------------------
(* Properties.                                                             *)

\* A process that started when no task of an older one was left to clear slots is
\* within the reach of Stop(nr) for as long as it runs and nobody stopped it.
CleanStartStoppable ==
  \A p \in vidClean :
    vidProcs[p].at = "running" /\ p \notin vidCancelled => vidSlots[vidProcs[p].camera] = p
=============================================================================
