---------------------------- MODULE NetworkMonitor ----------------------------
(***************************************************************************)
(* EventPi.Services.NetworkMonitor: what the host's wireless device does   *)
(* is appended to state streams.  NetworkManagerListener reports once when *)
(* it starts, subscribes to the device and from then on works through a    *)
(* channel of five places that drops its oldest item when it is full.      *)
(* NetworkManagerCommandHandler changes NetworkManager and reports itself, *)
(* at the same time as the listener, and a scan it was asked for reports   *)
(* beside both.                                                            *)
(*                                                                         *)
(* A report reads NetworkManager and the stream one after the other, and   *)
(* appends later; any read and any append may throw.  The device is on     *)
(* with one of the profiles, or off; the signals of access points are not  *)
(* there, because their handlers drop them (DeviceInfo.cs 101 and 112).  A *)
(* stream is known by its last state.                                      *)
(***************************************************************************)
EXTENDS Integers, FiniteSets, Sequences

CONSTANTS
  Networks,      \* wireless profiles there may be
  Scans,         \* scans in the background at the same time (bounds the runs)
  MaxChanges,    \* changes of NetworkManager (bounds the runs)
  MaxCommands    \* commands handled (bounds the runs)

ASSUME NetworkBoundsAssumption ==
  IsFiniteSet(Networks) /\ MaxChanges \in Nat /\ MaxCommands \in Nat
ASSUME ScansAssumption == "listener" \notin Scans /\ "command" \notin Scans

VARIABLES
  nmProfiles,    \* profiles NetworkManager holds
  nmDevice,      \* the profile the device is on with, or Off
  nmWired,       \* how many profiles there are that are not wireless
  nmVisible,     \* whether the access point is visible
  nmQueue,       \* the channel of the listener
  nmListener,    \* ExecuteAsync: "starting", "listening" or "dead"
  nmTodo,        \* per runner: the reports it has to make
  nmSeen,        \* per runner: what it has read for the first of them
  nmReported,    \* the last states of the three streams
  nmChanges,     \* history: number of changes
  nmCommands,    \* history: number of commands
  nmLate         \* history: streams whose last report was overtaken or thrown

nmWorld == <<nmProfiles, nmDevice, nmWired, nmVisible>>
nmVars == <<nmWorld, nmQueue, nmListener, nmTodo, nmSeen, nmReported,
            nmChanges, nmCommands, nmLate>>

Off == -1
Unread == [nothing |-> TRUE]
Places == 5
Runners == {"listener", "command"} \union Scans

Report(what) == [of |-> what, st |-> "now"]
Connectivity(st) == [of |-> "connectivity", st |-> st]
IsOn(device) == IF device = Off THEN "off" ELSE "on"

\* What a list of profiles says: for each one whether the device is on with it.
ListOf(profiles, active) == {<<n, n = active>> : n \in profiles}
Listed == ListOf(nmProfiles, nmDevice)

NetInit ==
  /\ nmProfiles \in SUBSET Networks
  /\ nmDevice \in nmProfiles \union {Off}
  /\ nmWired \in 0 .. 1
  /\ nmVisible \in BOOLEAN
  /\ nmQueue = <<>>
  /\ nmListener = "starting"
  /\ nmTodo = [r \in Runners |-> IF r = "listener"
                 THEN <<Report("stations"), Report("profiles"), Report("connectivity")>>
                 ELSE <<>>]
  /\ nmSeen = [r \in Runners |-> Unread]
  /\ nmReported = [stations |-> FALSE, profiles |-> {}, connectivity |-> "none"]
  /\ nmChanges = 0 /\ nmCommands = 0
  /\ nmLate = {}

-----------------------------------------------------------------------------
(* The channel.                                                            *)

\* Mutant: the full channel drops what is written, not its oldest item.
WriteAll_DropWrite(q, items) ==
  LET all == q \o items IN IF Len(all) <= Places THEN all ELSE SubSeq(all, 1, Places)

WriteAll(q, items) ==
  LET all == q \o items IN
  IF Len(all) <= Places THEN all ELSE SubSeq(all, Len(all) - Places + 1, Len(all))

\* OnWifiDeviceStateChanged
Handled(state) ==
  IF nmListener # "starting"
    THEN nmQueue' = WriteAll(nmQueue,
           <<Report("stations"), Connectivity(state), Report("profiles")>>)
    ELSE UNCHANGED nmQueue

DeviceBecomes(d) ==
  /\ nmDevice' = d
  /\ Handled(IsOn(d))
  /\ nmLate' = IF nmListener = "starting"
                 THEN {"connectivity", "profiles"} ELSE nmLate

-----------------------------------------------------------------------------
(* NetworkManager, changed by others.                                      *)

NewChange == nmChanges < MaxChanges /\ nmChanges' = nmChanges + 1

DeviceChanges ==
  /\ NewChange
  /\ \E d \in nmProfiles \union {Off} :
       d # nmDevice /\ (d = Off \/ nmDevice = Off) /\ DeviceBecomes(d)
  /\ UNCHANGED <<nmProfiles, nmWired, nmVisible, nmListener, nmTodo, nmSeen,
                 nmReported, nmCommands>>

AccessPointChanges ==
  /\ NewChange
  /\ nmVisible' = ~nmVisible
  /\ UNCHANGED <<nmProfiles, nmDevice, nmWired, nmQueue, nmListener, nmTodo,
                 nmSeen, nmReported, nmCommands, nmLate>>

-----------------------------------------------------------------------------
(* The handler of commands: it changes NetworkManager, then it reports.    *)

NextCommand(reports) ==
  /\ nmCommands < MaxCommands
  /\ nmTodo["command"] = <<>>
  /\ nmCommands' = nmCommands + 1
  /\ nmTodo' = [nmTodo EXCEPT !["command"] = reports]
  /\ UNCHANGED <<nmWired, nmVisible, nmListener, nmSeen, nmReported>>

Define(n) ==
  /\ NextCommand(<<Report("profiles")>>)
  /\ n \notin nmProfiles
  /\ nmProfiles' = nmProfiles \union {n}
  /\ nmChanges' = nmChanges + 1
  /\ UNCHANGED <<nmDevice, nmQueue, nmLate>>

\* NetworkManager turns the device off if it was on with the profile.
Delete(n) ==
  /\ NextCommand(<<Report("profiles")>>)
  /\ n \in nmProfiles
  /\ nmProfiles' = nmProfiles \ {n}
  /\ nmChanges' = nmChanges + 1
  /\ IF nmDevice = n THEN DeviceBecomes(Off)
                     ELSE UNCHANGED <<nmDevice, nmQueue, nmLate>>

\* ActivateWirelessProfile, and ConnectAccessPoint when its activation succeeds
Activate(n) ==
  /\ NextCommand(<<Report("profiles"), Report("connectivity")>>)
  /\ n \in nmProfiles /\ nmDevice = Off
  /\ DeviceBecomes(n)
  /\ nmChanges' = nmChanges + 1
  /\ UNCHANGED nmProfiles

Disconnect ==
  /\ NextCommand(<<Report("profiles"), Report("connectivity")>>)
  /\ nmDevice # Off
  /\ DeviceBecomes(Off)
  /\ nmChanges' = nmChanges + 1
  /\ UNCHANGED nmProfiles

\* The scan and its reports go on in a task of their own; nobody waits for it.
RequestWifiScan ==
  /\ nmCommands < MaxCommands
  /\ nmTodo["command"] = <<>>
  /\ nmCommands' = nmCommands + 1
  /\ \E s \in Scans :
       /\ nmTodo[s] = <<>>
       /\ nmTodo' = [nmTodo EXCEPT ![s] =
            <<Report("stations"), Report("profiles"), Report("connectivity")>>]
  /\ UNCHANGED <<nmWorld, nmQueue, nmListener, nmSeen, nmReported, nmChanges, nmLate>>

-----------------------------------------------------------------------------
(* One report of a runner.                                                 *)

Due(r, what) == nmTodo[r] # <<>> /\ Head(nmTodo[r]).of = what

Sees(r, seen) ==
  /\ nmSeen' = [nmSeen EXCEPT ![r] = seen]
  /\ UNCHANGED <<nmWorld, nmQueue, nmListener, nmTodo, nmReported, nmChanges,
                 nmCommands, nmLate>>

ReadStations(r) ==
  /\ Due(r, "stations") /\ nmSeen[r] = Unread
  /\ Sees(r, [visible |-> nmVisible])

\* The profile the device is on with, then the profiles, then what is reported.
ReadProfiles(r) ==
  /\ Due(r, "profiles")
  /\ \/ nmSeen[r] = Unread /\ Sees(r, [active |-> nmDevice])
     \/ /\ DOMAIN nmSeen[r] = {"active"}
        /\ Sees(r, [profiles |-> ListOf(nmProfiles, nmSeen[r].active)])
     \/ /\ DOMAIN nmSeen[r] = {"profiles"}
        /\ Sees(r, [actual |-> nmSeen[r].profiles, current |-> nmReported.profiles])

\* An event says itself what the device was.
ReadConnectivity(r) ==
  /\ Due(r, "connectivity") /\ nmSeen[r] = Unread
  /\ Sees(r, [state |->
       IF Head(nmTodo[r]).st = "now" THEN IsOn(nmDevice) ELSE Head(nmTodo[r]).st])

\* A device that is on by what was read, and off by now, has no access point whose
\* Ssid could be taken: that is a null reference.
ReadAccessPoint(r) ==
  /\ Due(r, "connectivity") /\ DOMAIN nmSeen[r] = {"state"}
  /\ nmSeen[r].state = "on" => nmDevice # Off
  /\ Sees(r, [state |-> nmSeen[r].state, ssid |-> TRUE])

Finish(r) ==
  /\ nmTodo' = [nmTodo EXCEPT ![r] = Tail(@)]
  /\ nmSeen' = [nmSeen EXCEPT ![r] = Unread]
  /\ UNCHANGED <<nmWorld, nmQueue, nmListener, nmChanges, nmCommands>>

\* The last report is overtaken if what it tells was no longer so.
Overtaken(what, late) == nmLate' = IF late THEN nmLate \union {what} ELSE nmLate \ {what}

\* WirelessStationService: only a station that is new makes the list required.
AppendStations(r) ==
  /\ Due(r, "stations") /\ DOMAIN nmSeen[r] = {"visible"}
  /\ nmReported' = [nmReported EXCEPT !.stations = @ \/ nmSeen[r].visible]
  /\ Finish(r)
  /\ UNCHANGED nmLate

\* Mutant: the number of profiles is not compared.
ProfilesChanged_Unequal(seen) == \E p \in seen.actual : p \notin seen.current

\* Profiles that are not wireless count on one side of the comparison only.
ProfilesChanged(seen) ==
  \/ \E p \in seen.actual : p \notin seen.current
  \/ Cardinality(seen.current) # Cardinality(seen.actual) + nmWired

AppendProfiles(r) ==
  /\ Due(r, "profiles") /\ DOMAIN nmSeen[r] = {"actual", "current"}
  /\ nmReported' = IF ProfilesChanged(nmSeen[r])
       THEN [nmReported EXCEPT !.profiles = nmSeen[r].actual] ELSE nmReported
  /\ Overtaken("profiles", nmSeen[r] # [actual |-> Listed, current |-> nmReported.profiles])
  /\ Finish(r)

\* What the device was at an event is followed by a later event if it changes.
AppendConnectivity(r) ==
  /\ Due(r, "connectivity") /\ DOMAIN nmSeen[r] = {"state", "ssid"}
  /\ nmReported' = [nmReported EXCEPT !.connectivity = nmSeen[r].state]
  /\ Overtaken("connectivity",
               Head(nmTodo[r]).st = "now" /\ nmSeen[r].state # IsOn(nmDevice))
  /\ Finish(r)

\* A read throws, because what is asked for is gone or NetworkManager does not
\* answer, or the append does: that ends the command, the scan or the listener.
ReportThrows(r) ==
  /\ nmTodo[r] # <<>>
  /\ nmTodo' = [nmTodo EXCEPT ![r] = <<>>]
  /\ nmSeen' = [nmSeen EXCEPT ![r] = Unread]
  /\ nmListener' = IF r = "listener" THEN "dead" ELSE nmListener
  /\ nmLate' = nmLate \union {nmTodo[r][i].of : i \in DOMAIN nmTodo[r]}
  /\ UNCHANGED <<nmWorld, nmQueue, nmReported, nmChanges, nmCommands>>

ReportOf(r) ==
  \/ ReadStations(r) \/ ReadProfiles(r) \/ ReadConnectivity(r) \/ ReadAccessPoint(r)
  \/ AppendStations(r) \/ AppendProfiles(r) \/ AppendConnectivity(r)
  \/ ReportThrows(r)

-----------------------------------------------------------------------------
(* The listener.                                                           *)

Subscribes ==
  /\ nmListener = "starting" /\ nmTodo["listener"] = <<>>
  /\ nmListener' = "listening"
  /\ UNCHANGED <<nmWorld, nmQueue, nmTodo, nmSeen, nmReported, nmChanges,
                 nmCommands, nmLate>>

\* OnStateAppender
TakeItem ==
  /\ nmListener = "listening" /\ nmTodo["listener"] = <<>> /\ nmQueue # <<>>
  /\ nmTodo' = [nmTodo EXCEPT !["listener"] = <<Head(nmQueue)>>]
  /\ nmQueue' = Tail(nmQueue)
  /\ UNCHANGED <<nmWorld, nmListener, nmSeen, nmReported, nmChanges, nmCommands,
                 nmLate>>

NetNext ==
  \/ DeviceChanges \/ AccessPointChanges
  \/ \E n \in Networks : Define(n) \/ Delete(n) \/ Activate(n)
  \/ Disconnect \/ RequestWifiScan
  \/ \E r \in Runners : ReportOf(r)
  \/ Subscribes \/ TakeItem

NetSpec == NetInit /\ [][NetNext]_nmVars

-----------------------------------------------------------------------------
(* Properties.                                                             *)

Quiet ==
  /\ nmListener = "listening" /\ nmQueue = <<>>
  /\ \A r \in Runners : nmTodo[r] = <<>>

\* All profiles there are are listed as they are.  Listed ones that are gone are
\* as many as there are profiles that are not wireless: then the comparison of
\* the numbers misses them.
ProfilesAsListed ==
  /\ Listed \subseteq nmReported.profiles
  /\ Cardinality(nmReported.profiles \ Listed) \in {0, nmWired}

\* However many changes were pushed out of the channel: once the listener has
\* caught up the streams say what the device is and which profiles there are,
\* unless the last report was one that had read NetworkManager before its last
\* change, or one that threw.
ReportsFollowDevice ==
  /\ Quiet /\ "connectivity" \notin nmLate => nmReported.connectivity = IsOn(nmDevice)
  /\ Quiet /\ "profiles" \notin nmLate => ProfilesAsListed
=============================================================================
