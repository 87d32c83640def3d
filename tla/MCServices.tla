------------------------------ MODULE MCServices ------------------------------
(***************************************************************************)
(* The services and classes of EventPi that share no state, for one run of *)
(* TLC: a behaviour is a behaviour of one of them, chosen in its first     *)
(* state, while the variables of the others keep their initial values.     *)
(***************************************************************************)
EXTENDS SignalHub, LocalDiscovery, PwmController, CameraSimulator,
        LibCameraVid, CircularBuffer

VARIABLE service

AnnouncedLists == {<<>>, <<0>>, <<0, 1>>, <<1, 0>>}

AllVars == <<service, hubVars, discVars, pwmVars, simVars, vidVars,
             bufferVars>>

\* All services but one rest.
Others(s) ==
  /\ service = s /\ UNCHANGED service
  /\ s # "hub" => UNCHANGED hubVars
  /\ s # "discovery" => UNCHANGED discVars
  /\ s # "pwm" => UNCHANGED pwmVars
  /\ s # "simulator" => UNCHANGED simVars
  /\ s # "camera" => UNCHANGED vidVars
  /\ s # "window" => UNCHANGED bufferVars

Init ==
  /\ service \in {"hub", "discovery", "pwm", "simulator", "camera", "window"}
  /\ HubInit /\ DiscInit /\ PwmInit /\ SimInit /\ VidInit
  /\ BufferInit

Next ==
  \/ HubNext /\ Others("hub")
  \/ DiscNext /\ Others("discovery")
  \/ PwmNext /\ Others("pwm")
  \/ SimNext /\ Others("simulator")
  \/ VidNext /\ Others("camera")
  \/ BufferNext /\ Others("window")

\* The fairness of each service, asked of its own behaviours only.
Fairness ==
  /\ WF_hubVars(service = "hub" /\ Chaser)
  /\ \A c \in Clients :
       /\ WF_hubVars(service = "hub" /\ Loop(c))
       /\ WF_hubVars(service = "hub" /\ LoopAt(c, "joining") /\ Subscribe(c))
  /\ \A l \in Listeners : WF_discVars(service = "discovery" /\ AddService(l))
  /\ \A i \in Posts : WF_pwmVars(service = "pwm" /\ RunMotor(i))
  /\ WF_simVars(service = "simulator" /\ Dispose)
  /\ \A p \in Procs :
       /\ WF_simVars(service = "simulator"
                       /\ (Start(p) \/ Forget(p)))
       /\ WF_simVars(service = "simulator" /\ p \in simCancelled /\ ProcessEnds(p))

FairSpec == Init /\ [][Next]_AllVars /\ Fairness
=============================================================================
