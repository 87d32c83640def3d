--------------------------- MODULE CameraSimulator ---------------------------
(***************************************************************************)
(* CameraSimulatorProcess of EventPi.Services.Camera: a simulator process  *)
(* is started for a file and can be stopped by that file; Dispose cancels  *)
(* all that are left.  _running remembers one process per file and is only *)
(* added to; a task per process removes the entry of the file, whatever    *)
(* process it stands for, if its own one ended with code zero.             *)
(*                                                                         *)
(* The list of tokens for Dispose is a List<T> that is changed and         *)
(* enumerated without a lock.  Add counts the change, reads the size, and  *)
(* then writes the item and the size; Remove looks the item up, shifts     *)
(* those behind it, and counts the change last.  Of two that meet, one may *)
(* be lost; and an enumeration that meets one may miss an item.            *)
(***************************************************************************)
EXTENDS Integers, Sequences, SequencesExt

CONSTANTS
  Files,
  MaxStarts       \* how many processes are started (bounds the runs)

ASSUME MaxStartsAssumption == MaxStarts \in Nat

VARIABLES
  simRunning,     \* _running: per file the process that was registered
  simTokens,      \* _tokenCancellationSources: the processes of the tokens
  simProcs,       \* per process: its file and how far it has come
  simCancelled,   \* processes whose token is cancelled
  simDispose,     \* Dispose: where it is and the index it cancels next
  simStarts,      \* history: number of processes started
  simAlone,       \* history: processes that had their file to themselves
  simBefore,      \* history: processes started before Dispose was called
  simTangled      \* history: two users of the list met in the middle of a change

simHistory == <<simStarts, simAlone, simBefore, simTangled>>
simVars == <<simRunning, simTokens, simProcs, simCancelled, simDispose, simHistory>>

Procs == 0 .. MaxStarts - 1
NoProc == -1

SimInit ==
  /\ simRunning = [f \in Files |-> NoProc]
  /\ simTokens = <<>>
  /\ simProcs = [p \in Procs |-> [at |-> "none", file |-> CHOOSE f \in Files : TRUE,
                                  place |-> 0]]
  /\ simCancelled = {}
  /\ simDispose = [at |-> "none", next |-> 1]
  /\ simStarts = 0 /\ simAlone = {} /\ simBefore = {} /\ simTangled = FALSE

-----------------------------------------------------------------------------
ProcAt(p, at) == simProcs[p].at = at
Advance(p, at) == simProcs' = [simProcs EXCEPT ![p].at = at]
OfFile(f) == {p \in Procs : simProcs[p].file = f /\ ~ProcAt(p, "none")}

\* The change is counted, on which the enumeration of Dispose throws at its next
\* step.
ListChanged ==
  simDispose' = IF simDispose.at = "cancelling"
                  THEN [simDispose EXCEPT !.at = "changed"] ELSE simDispose

\* The list is used while another process is in the middle of a change of it.
Midway == {p \in Procs : simProcs[p].at \in {"adding", "removing", "shifted"}}
ListUsed == simTangled' = (simTangled \/ Midway # {})

\* Start: the token is added to the list, at the place that is free now ...
Launch(f) ==
  /\ simStarts < MaxStarts
  /\ simProcs' = [simProcs EXCEPT ![simStarts] =
                     [at |-> "adding", file |-> f, place |-> Len(simTokens) + 1]]
  /\ ListChanged /\ ListUsed
  /\ simStarts' = simStarts + 1
  /\ simAlone' = IF simRunning[f] = NoProc
                      /\ \A p \in OfFile(f) : ProcAt(p, "forgotten")
                   THEN simAlone \union {simStarts} ELSE simAlone \ OfFile(f)
  /\ UNCHANGED <<simRunning, simTokens, simCancelled, simBefore>>

\* ... and the process begins.  What another Start has written there is lost, and
\* what was taken away before it is null.
AddToken(p) ==
  LET place == simProcs[p].place IN
    /\ ProcAt(p, "adding")
    /\ simTokens' = [i \in 1 .. place |-> IF i = place THEN p
                                          ELSE IF i <= Len(simTokens) THEN simTokens[i]
                                          ELSE NoProc]
    /\ Advance(p, "launched")
    /\ UNCHANGED <<simRunning, simCancelled, simDispose, simHistory>>

\* Mutant: the entry is added by the task, when its process has ended.
Register_Never(p) ==
  /\ ProcAt(p, "launched")
  /\ Advance(p, "running")
  /\ UNCHANGED <<simRunning, simTokens, simCancelled, simDispose, simHistory>>

\* ... then it is registered, unless the file has an entry.
Register(p) ==
  /\ ProcAt(p, "launched")
  /\ simRunning' = [simRunning EXCEPT ![simProcs[p].file] =
                      IF @ = NoProc THEN p ELSE @]
  /\ Advance(p, "running")
  /\ UNCHANGED <<simTokens, simCancelled, simDispose, simHistory>>

\* The process ends by itself, well or badly, or because it was cancelled.
ProcessEnds(p) ==
  /\ ProcAt(p, "running")
  /\ \/ p \notin simCancelled /\ Advance(p, "succeeded")
     \/ Advance(p, "failed")
  /\ UNCHANGED <<simRunning, simTokens, simCancelled, simDispose, simHistory>>

\* Only after success the task forgets the file ...
ForgetFile(p) ==
  /\ ProcAt(p, "succeeded")
  /\ simRunning' = [simRunning EXCEPT ![simProcs[p].file] = NoProc]
  /\ Advance(p, "unlisting")
  /\ UNCHANGED <<simTokens, simCancelled, simDispose, simHistory>>

\* ... and the token, which it looks for,
FindToken(p) ==
  /\ ProcAt(p, "unlisting")
  /\ \/ \E i \in DOMAIN simTokens :
          /\ simTokens[i] = p
          /\ simProcs' = [simProcs EXCEPT ![p].at = "removing", ![p].place = i]
     \/ p \notin ToSet(simTokens) /\ Advance(p, "forgotten")
  /\ ListUsed
  /\ UNCHANGED <<simRunning, simTokens, simCancelled, simDispose, simStarts, simAlone, simBefore>>

\* takes away where it has found it, which throws if the list is shorter by now,
ForgetToken(p) ==
  /\ ProcAt(p, "removing")
  /\ \/ /\ simProcs[p].place <= Len(simTokens)
        /\ simTokens' = RemoveAt(simTokens, simProcs[p].place)
        /\ Advance(p, "shifted")
     \/ /\ simProcs[p].place > Len(simTokens)
        /\ Advance(p, "forgotten")
        /\ UNCHANGED simTokens
  /\ UNCHANGED <<simRunning, simCancelled, simDispose, simHistory>>

\* and counts the change.
CountChange(p) ==
  /\ ProcAt(p, "shifted")
  /\ ListChanged
  /\ Advance(p, "forgotten")
  /\ UNCHANGED <<simRunning, simTokens, simCancelled, simHistory>>

Stop(f) ==
  /\ simRunning[f] # NoProc
  /\ simCancelled' = simCancelled \union {simRunning[f]}
  /\ UNCHANGED <<simRunning, simTokens, simProcs, simDispose, simHistory>>

DisposeBegins ==
  /\ simDispose.at = "none"
  /\ simDispose' = [simDispose EXCEPT !.at = "cancelling"]
  /\ simBefore' = {p \in Procs : simProcs[p].at \notin {"none", "adding"}}
  /\ ListUsed
  /\ UNCHANGED <<simRunning, simTokens, simProcs, simCancelled, simStarts, simAlone>>

NextToken == simTokens[simDispose.next]

\* Mutant: Dispose cancels what is registered, not what is listed.
DisposeCancels_Registered ==
  /\ simDispose.at = "cancelling" /\ simDispose.next \in DOMAIN simTokens
  /\ NextToken # NoProc
  /\ simCancelled' = IF \E f \in Files : simRunning[f] = NextToken
                       THEN simCancelled \union {NextToken} ELSE simCancelled
  /\ simDispose' = [simDispose EXCEPT !.next = @ + 1]
  /\ ListUsed
  /\ UNCHANGED <<simRunning, simTokens, simProcs, simStarts, simAlone, simBefore>>

DisposeCancels ==
  /\ simDispose.at = "cancelling" /\ simDispose.next \in DOMAIN simTokens
  /\ NextToken # NoProc
  /\ simCancelled' = simCancelled \union {NextToken}
  /\ simDispose' = [simDispose EXCEPT !.next = @ + 1]
  /\ ListUsed
  /\ UNCHANGED <<simRunning, simTokens, simProcs, simStarts, simAlone, simBefore>>

\* The enumeration throws if the list was changed, and the loop on a null.
DisposeThrows ==
  /\ \/ simDispose.at = "changed"
     \/ /\ simDispose.at = "cancelling" /\ simDispose.next \in DOMAIN simTokens
        /\ NextToken = NoProc
  /\ simDispose' = [simDispose EXCEPT !.at = "thrown"]
  /\ UNCHANGED <<simRunning, simTokens, simProcs, simCancelled, simHistory>>

\* It ends behind the last token there is ...
DisposeEnds ==
  /\ simDispose.at = "cancelling" /\ simDispose.next \notin DOMAIN simTokens
  /\ simDispose' = [simDispose EXCEPT !.at = "clearing"]
  /\ ListUsed
  /\ UNCHANGED <<simRunning, simTokens, simProcs, simCancelled, simStarts, simAlone, simBefore>>

\* ... and the list is cleared, of tokens that came later as well.
DisposeClears ==
  /\ simDispose.at = "clearing"
  /\ simTokens' = <<>>
  /\ simDispose' = [simDispose EXCEPT !.at = "done"]
  /\ ListUsed
  /\ UNCHANGED <<simRunning, simProcs, simCancelled, simStarts, simAlone, simBefore>>

-----------------------------------------------------------------------------
Dispose == DisposeCancels \/ DisposeEnds \/ DisposeClears \/ DisposeThrows
Start(p) == AddToken(p) \/ Register(p)
Forget(p) == ForgetFile(p) \/ FindToken(p) \/ ForgetToken(p) \/ CountChange(p)

SimNext ==
  \/ \E f \in Files : Launch(f) \/ Stop(f)
  \/ \E p \in Procs : Start(p) \/ ProcessEnds(p) \/ Forget(p)
  \/ DisposeBegins \/ Dispose

\* Cancelled processes are killed; threads go on.
SimFairness ==
  /\ WF_simVars(Dispose)
  /\ \A p \in Procs : /\ WF_simVars(Start(p) \/ Forget(p))
                      /\ WF_simVars(p \in simCancelled /\ ProcessEnds(p))

SimSpec == SimInit /\ [][SimNext]_simVars
SimFairSpec == SimSpec /\ SimFairness

-----------------------------------------------------------------------------
(* Properties.                                                             *)

Alive(p) == simProcs[p].at \in {"launched", "running"}

\* A process whose file was free when it started, and for whose file no other
\* one was started since, is the one that Stop reaches.  (The others may be out
\* of its reach: after a stop the old entry stays and hides every later one.)
StopReaches ==
  \A p \in simAlone : ProcAt(p, "running") => simRunning[simProcs[p].file] = p

\* A Dispose that does not throw ends every process that was started before it,
\* those included that Stop cannot reach and those beside tokens nobody removed,
\* unless two users of the list met in the middle of a change: a whole change
\* between two steps of the enumeration does no harm, it makes Dispose throw.
DisposeEndsAll ==
  \A p \in Procs :
    (simDispose.at = "done" /\ p \in simBefore /\ ~simTangled) ~> (~Alive(p) \/ simTangled)
=============================================================================
