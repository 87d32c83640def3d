---------------------------- MODULE LocalDiscovery ----------------------------
(***************************************************************************)
(* LocalDiscoveryService of EventPi.Advertiser: listeners of several       *)
(* services report hosts on threads of their own, each with the list of    *)
(* services it offers, and subscribers of ServiceFound are told of every   *)
(* service, those that were found before they subscribed included.         *)
(*                                                                         *)
(* A service stands for a ServiceInstance, a service of a certain host.    *)
(* _servicesAddresses and _serviceInstances are changed without the lock   *)
(* that guards the subscribers and _services.                              *)
(***************************************************************************)
EXTENDS Integers, Sequences

CONSTANTS
  Announcements,     \* the lists of services that hosts announce
  Listeners,         \* threads that report hosts
  Handlers,          \* subscribers
  MaxAnnouncements   \* how many hosts are reported (bounds the runs)

ASSUME AnnouncementsAssumption ==
  \A a \in Announcements : a \in Seq({a[i] : i \in DOMAIN a})

VARIABLES
  discInstances,   \* _serviceInstances: the services that were seen
  discAddresses,   \* _servicesAddresses: those whose address is known
  discServices,    \* _services: those whose event was raised
  discHandlers,    \* _serviceFound: the subscribers in their order
  discCalls,       \* per listener: AddService, the services not yet handled
  discReported,    \* history: number of hosts reported
  discTold,        \* history: how often each subscriber was told since it subscribed
  discDisturbed,   \* history: subscribers that threw or came after one that did
  discGivenUp      \* history: services in a call that ended before their event

discVars == <<discInstances, discAddresses, discServices, discHandlers, discCalls,
              discReported, discTold, discDisturbed, discGivenUp>>

ServicesIn(list) == {list[i] : i \in DOMAIN list}
Services == UNION {ServicesIn(a) : a \in Announcements}
NoCall == [at |-> "idle", left |-> <<>>]

\* The loop of AddService with these services to go.
CallFor(services) ==
  IF services = <<>> THEN NoCall ELSE [at |-> "next", left |-> services]

Subscribed(h) == \E i \in DOMAIN discHandlers : discHandlers[i] = h

DiscInit ==
  /\ discInstances = {} /\ discAddresses = {} /\ discServices = {}
  /\ discHandlers = <<>>
  /\ discCalls = [l \in Listeners |-> NoCall]
  /\ discReported = 0
  /\ discTold = [h \in Handlers |-> [s \in Services |-> 0]]
  /\ discDisturbed = {} /\ discGivenUp = {}

-----------------------------------------------------------------------------
(* AddService, on the thread of a listener.                                *)

ReportHost(l, services) ==
  /\ discReported < MaxAnnouncements
  /\ discCalls[l] = NoCall
  /\ discCalls' = [discCalls EXCEPT ![l] = CallFor(services)]
  /\ discReported' = discReported + 1
  /\ UNCHANGED <<discInstances, discAddresses, discServices, discHandlers,
                 discTold, discDisturbed, discGivenUp>>

\* The call ends with these services to go.
GiveUpOn(l, list) ==
  /\ discCalls' = [discCalls EXCEPT ![l] = NoCall]
  /\ discGivenUp' = discGivenUp \union ServicesIn(list)

\* Mutant: the test for a known service and its addition are not one step.
AddInstance_Unchecked(l) ==
  /\ discCalls[l].at = "next"
  /\ discInstances' = discInstances \union {Head(discCalls[l].left)}
  /\ discCalls' = [discCalls EXCEPT ![l].at = "address"]
  /\ UNCHANGED <<discAddresses, discServices, discHandlers, discReported, discTold,
                 discDisturbed, discGivenUp>>

\* Mutant: the first service of a host counts as known if any is.
AddInstance_AnyKnown(l) ==
  /\ discCalls[l].at = "next"
  /\ LET s == Head(discCalls[l].left)
     IN  IF discInstances # {}
           THEN /\ GiveUpOn(l, Tail(discCalls[l].left))
                /\ UNCHANGED discInstances
           ELSE /\ discInstances' = discInstances \union {s}
                /\ discCalls' = [discCalls EXCEPT ![l].at = "address"]
                /\ UNCHANGED discGivenUp
  /\ UNCHANGED <<discAddresses, discServices, discHandlers, discReported, discTold,
                 discDisturbed>>

\* A known service ends the call, whatever comes after it in the list.
AddInstance(l) ==
  /\ discCalls[l].at = "next"
  /\ LET s == Head(discCalls[l].left)
     IN  IF s \in discInstances
           THEN /\ GiveUpOn(l, Tail(discCalls[l].left))
                /\ UNCHANGED discInstances
           ELSE /\ discInstances' = discInstances \union {s}
                /\ discCalls' = [discCalls EXCEPT ![l].at = "address"]
                /\ UNCHANGED discGivenUp
  /\ UNCHANGED <<discAddresses, discServices, discHandlers, discReported, discTold,
                 discDisturbed>>

\* Mutant: a service gets its address only if it is the last one of its host.
AddAddress_LastOnly(l) ==
  /\ discCalls[l].at = "address"
  /\ discAddresses' = IF Len(discCalls[l].left) = 1
                        THEN discAddresses \union {Head(discCalls[l].left)}
                        ELSE discAddresses
  /\ discCalls' = [discCalls EXCEPT ![l].at = "raise"]
  /\ UNCHANGED <<discInstances, discServices, discHandlers, discReported, discTold,
                 discDisturbed, discGivenUp>>

AddAddress(l) ==
  /\ discCalls[l].at = "address"
  /\ discAddresses' = discAddresses \union {Head(discCalls[l].left)}
  /\ discCalls' = [discCalls EXCEPT ![l].at = "raise"]
  /\ UNCHANGED <<discInstances, discServices, discHandlers, discReported, discTold,
                 discDisturbed, discGivenUp>>

\* An address that is no Uri throws, or two properties of the same name: the service
\* is known and no event was raised for it, and the call is over.
AddThrows(l) ==
  /\ discCalls[l].at \in {"address", "raise"}
  /\ GiveUpOn(l, discCalls[l].left)
  /\ UNCHANGED <<discInstances, discAddresses, discServices, discHandlers, discReported,
                 discTold, discDisturbed>>

\* Invoking the subscribers in their order: one that throws, if any, is the last
\* one that is told.
Invoke(s) ==
  \E called \in 0 .. Len(discHandlers) :
    LET reached == {discHandlers[i] : i \in 1 .. called}
    IN  /\ discHandlers # <<>> => called > 0
        /\ discTold' = [h \in Handlers |->
             IF h \in reached THEN [discTold[h] EXCEPT ![s] = @ + 1] ELSE discTold[h]]
        /\ \/ called = Len(discHandlers) /\ UNCHANGED discDisturbed
           \/ /\ called > 0
              /\ discDisturbed' = discDisturbed
                   \union {discHandlers[i] : i \in called .. Len(discHandlers)}

\* On to the next service of the host.
Continue(l) == discCalls' = [discCalls EXCEPT ![l] = CallFor(Tail(@.left))]

\* Under the lock the subscribers are told and the event is recorded; without a
\* subscriber the null delegate throws, which is caught like any exception.
RaiseFound(l) ==
  /\ discCalls[l].at = "raise"
  /\ LET s == Head(discCalls[l].left)
     IN  /\ Invoke(s)
         /\ discServices' = discServices \union {s}
  /\ Continue(l)
  /\ UNCHANGED <<discInstances, discAddresses, discHandlers, discReported, discGivenUp>>

-----------------------------------------------------------------------------
(* The accessors of the event ServiceFound.                                *)

\* Under the lock a new subscriber is told of every recorded service, as far as
\* it does not throw, and added in any case.
SubscribeFound(h) ==
  /\ ~Subscribed(h)
  /\ \E replayed \in SUBSET discServices :
       /\ discTold' = [discTold EXCEPT
            ![h] = [s \in Services |-> IF s \in replayed THEN 1 ELSE 0]]
       /\ \/ replayed = discServices /\ discDisturbed' = discDisturbed \ {h}
          \/ replayed # {} /\ discDisturbed' = discDisturbed \union {h}
  /\ discHandlers' = Append(discHandlers, h)
  /\ UNCHANGED <<discInstances, discAddresses, discServices, discCalls,
                 discReported, discGivenUp>>

UnsubscribeFound(h) ==
  /\ \E i \in DOMAIN discHandlers :
       /\ discHandlers[i] = h
       /\ discHandlers' = SubSeq(discHandlers, 1, i - 1)
                            \o SubSeq(discHandlers, i + 1, Len(discHandlers))
  /\ discTold' = [discTold EXCEPT ![h] = [s \in Services |-> 0]]
  /\ discDisturbed' = discDisturbed \ {h}
  /\ UNCHANGED <<discInstances, discAddresses, discServices, discCalls,
                 discReported, discGivenUp>>

-----------------------------------------------------------------------------
AddService(l) == AddInstance(l) \/ AddAddress(l) \/ AddThrows(l) \/ RaiseFound(l)

DiscNext ==
  \/ \E l \in Listeners :
       \/ \E a \in Announcements : ReportHost(l, a)
       \/ AddService(l)
  \/ \E h \in Handlers : SubscribeFound(h) \/ UnsubscribeFound(h)

\* A listener's thread goes on with the host it reports.
DiscFairness == \A l \in Listeners : WF_discVars(AddService(l))

DiscSpec == DiscInit /\ [][DiscNext]_discVars
DiscFairSpec == DiscSpec /\ DiscFairness

-----------------------------------------------------------------------------
(* Properties.                                                             *)

\* A subscriber that no exception has cut off knows every service whose event
\* was raised, exactly once, whether it subscribed before or after, and however
\* many listeners reported that service at the same time.  Even with exceptions
\* nobody is told twice, and who is told of a service finds its address.
SubscribersAgree ==
  \A h \in Handlers : \A s \in Services :
    /\ Subscribed(h) /\ h \notin discDisturbed
         => discTold[h][s] = IF s \in discServices THEN 1 ELSE 0
    /\ discTold[h][s] <= 1
    /\ discTold[h][s] > 0 => s \in discAddresses

\* A service that a host lists is found in the end, by this listener or by another
\* that came first, unless AddService gave it up on the way: because of what it threw
\* at it, or because a service listed before it was known or made it throw.
ListedIsFound ==
  \A l \in Listeners : \A s \in Services :
    s \in ServicesIn(discCalls[l].left) ~> s \in discServices \union discGivenUp
=============================================================================
