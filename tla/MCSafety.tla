------------------------------- MODULE MCSafety -------------------------------
(***************************************************************************)
(* Three parts of EventPi that share no state and of which nothing is      *)
(* asked in the end, for one run of TLC: the ring in shared memory whose   *)
(* processes come and go, the updater and the network monitor.  A          *)
(* behaviour is a behaviour of one of them, chosen in its first state.     *)
(***************************************************************************)
EXTENDS BufferLifecycle, AutoUpdate, NetworkMonitor

VARIABLE part

\* The network monitor has several initial states, of which only its own
\* behaviours need more than one.
RestingNetwork ==
  nmProfiles = {} /\ nmDevice = Off /\ nmWired = 0 /\ nmVisible = FALSE

PartsInit ==
  /\ part \in {"ring", "packages", "network"}
  /\ Init /\ UpdInit /\ NetInit
  /\ part # "network" => RestingNetwork

PartsNext ==
  /\ UNCHANGED part
  /\ \/ part = "ring" /\ Next /\ UNCHANGED <<updVars, nmVars>>
     \/ part = "packages" /\ UpdNext /\ UNCHANGED <<vars, nmVars>>
     \/ part = "network" /\ NetNext /\ UNCHANGED <<vars, updVars>>

PartsSpec == PartsInit /\ [][PartsNext]_<<part, vars, updVars, nmVars>>
=============================================================================
