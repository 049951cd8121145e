-------------------------- MODULE AuthoritySession --------------------------
(***************************************************************************)
(* The identity server's own session on the MQTT broker: the hosted        *)
(* service AgienceAuthorityService drives one Core.Authority, which drives *)
(* one Broker.                                                             *)
(*                                                                         *)
(* Three threads run Connect and Disconnect on the same Authority object,  *)
(* with no lock:                                                           *)
(*   "startup"  the ApplicationStarted callback, which also arms the timer *)
(*   "refresh"  the timer's handler, every 23 hours                        *)
(*   "stop"     StopAsync, when the process is asked to terminate          *)
(* Every await is a point where another thread, or the network, may step   *)
(* in.  The first two are async void: an exception that escapes them ends  *)
(* the process, and the container is restarted on failure.                 *)
(***************************************************************************)
EXTENDS BrokerClient

CONSTANTS
    Authority,    \* the authority's id, the host name of its URI
    BrokerUriInternal,  \* configuration: the broker's URI is given
    MaxFaults     \* bound: lost links, refused connections and
                  \* subscriptions, and kills

ASSUME AuthorityAssumption == Authority # "-" /\ Authority # "+"
ASSUME BrokerUriAssumption == BrokerUriInternal \in BOOLEAN
ASSUME MaxFaultsAssumption == MaxFaults \in Nat

VARIABLES
    proc,         \* the identity server process
    bypass,       \* configuration: do not run the authority service
    brokerUri,    \* Authority.BrokerUri is known
    client,       \* the Broker object
    isConnected,  \* Authority.IsConnected
    timer,        \* the reconnect timer has been started
    pc,           \* where each thread is
    faults        \* how many faults have happened

memory == <<brokerUri, client, isConnected, timer, pc>>
vars == <<proc, bypass, memory, faults>>

Threads == {"startup", "refresh", "stop"}
Connectors == {"startup", "refresh"}

\* The topic filter of the authority, and the key of its handlers.
Filter == SubscribeAsAuthority(Authority)
Key == CallbackTopic(Filter)

DisconnectSteps == {"disconnect", "unsubscribing", "unlinking", "disconnected"}
ConnectSteps == {"connect", "initialize", "linking", "linked", "subscribe",
                 "subscribing", "subscribed", "returned"}
Steps == {"idle", "done"} \cup DisconnectSteps \cup ConnectSteps

ClientType == [link : BOOLEAN, filters : SUBSET {Filter},
               refused : SUBSET {Filter},
               callbacks : [{Key} -> Seq(Threads)]]

TypeOK ==
    /\ proc \in {"up", "crashed", "exited"}
    /\ bypass \in BOOLEAN
    /\ brokerUri \in BOOLEAN
    /\ client \in ClientType
    /\ isConnected \in BOOLEAN
    /\ timer \in BOOLEAN
    /\ pc \in [Threads -> Steps]
    /\ faults \in 0 .. MaxFaults

-----------------------------------------------------------------------------
(* The process.                                                            *)

Fresh == [brokerUri |-> BrokerUriInternal, client |-> NoClient({Key}),
          isConnected |-> FALSE, timer |-> FALSE,
          pc |-> [t \in Threads |-> "idle"]]

\* The memory of a process that has just begun, or of one that has ended.
Reset ==
    /\ brokerUri' = Fresh.brokerUri
    /\ client' = Fresh.client
    /\ isConnected' = Fresh.isConnected
    /\ timer' = Fresh.timer
    /\ pc' = Fresh.pc

Init ==
    /\ proc = "up"
    /\ bypass \in BOOLEAN
    /\ brokerUri = Fresh.brokerUri
    /\ client = Fresh.client
    /\ isConnected = Fresh.isConnected
    /\ timer = Fresh.timer
    /\ pc = Fresh.pc
    /\ faults = 0

End(how) == proc' = how /\ Reset /\ UNCHANGED <<bypass, faults>>

Goto(t, step) == pc' = [pc EXCEPT ![t] = step]

\* Mutant: the handler of the timer catches what Disconnect throws.
ThrowsCaught(t, c) ==
    IF t \in {"refresh", "stop"}
    THEN /\ client' = c
         /\ Goto(t, IF t = "stop" THEN "done" ELSE "idle")
         /\ UNCHANGED <<proc, bypass, brokerUri, isConnected, timer, faults>>
    ELSE End("crashed")

\* An exception escapes thread t, which leaves the Broker object as c.  Out
\* of StopAsync the host only logs it, and goes on to terminate.
Throws(t, c) ==
    IF t = "stop"
    THEN /\ client' = c
         /\ Goto(t, "done")
         /\ UNCHANGED <<proc, bypass, brokerUri, isConnected, timer, faults>>
    ELSE End("crashed")

At(t, step) == proc = "up" /\ pc[t] = step

\* "restart: on-failure" of the container, and an operator's new start.
Restart ==
    /\ proc = "crashed"
    /\ proc' = "up"
    /\ Reset
    /\ UNCHANGED <<bypass, faults>>

Deploy ==
    /\ proc = "exited"
    /\ proc' = "up"
    /\ bypass' \in BOOLEAN
    /\ Reset
    /\ UNCHANGED faults

-----------------------------------------------------------------------------
(* AgienceAuthorityService.                                                *)

\* StartAsync, then the ApplicationStarted callback with a fresh token.
StartAsync ==
    /\ At("startup", "idle")
    /\ Goto("startup", IF bypass THEN "done" ELSE "connect")
    /\ UNCHANGED <<proc, bypass, brokerUri, client, isConnected, timer, faults>>

\* Connect came back: whether or not it connected, the timer is armed.
ArmTimer ==
    /\ At("startup", "returned")
    /\ timer' = TRUE
    /\ Goto("startup", "done")
    /\ UNCHANGED <<proc, bypass, brokerUri, client, isConnected, faults>>

RefreshElapsed ==
    /\ At("refresh", "idle")
    /\ timer
    /\ Goto("refresh", "disconnect")
    /\ UNCHANGED <<proc, bypass, brokerUri, client, isConnected, timer, faults>>

\* The timer's next turn is 23 hours away: a process that is being stopped
\* does not live to see it.
RefreshReturned ==
    /\ At("refresh", "returned")
    /\ Goto("refresh", IF pc["stop"] = "idle" THEN "idle" ELSE "done")
    /\ UNCHANGED <<proc, bypass, brokerUri, client, isConnected, timer, faults>>

StopAsync ==
    /\ At("stop", "idle")
    /\ Goto("stop", "disconnect")
    /\ UNCHANGED <<proc, bypass, brokerUri, client, isConnected, timer, faults>>

\* Some time after StopAsync came back the process ends, wherever its other
\* threads are.
ProcessExits ==
    /\ At("stop", "done")
    /\ End("exited")

-----------------------------------------------------------------------------
(* Authority.Connect.                                                      *)

ConnectCheck(t) ==
    /\ At(t, "connect")
    /\ Goto(t, IF isConnected THEN "returned"
               ELSE IF brokerUri THEN "linking" ELSE "initialize")
    /\ UNCHANGED <<proc, bypass, brokerUri, client, isConnected, timer, faults>>

\* InitializeWithBackoff returns: its attempts fail and are repeated until
\* the discovery document can be read.
Initialize(t) ==
    /\ At(t, "initialize")
    /\ brokerUri' = TRUE
    /\ Goto(t, "linking")
    /\ UNCHANGED <<proc, bypass, client, isConnected, timer, faults>>

\* Broker.Connect: nothing to do on a live link; a refused connection does
\* not throw, an unreachable server does.
Link(t) ==
    /\ At(t, "linking")
    /\ client' = IF client.link THEN client ELSE Linked(client)
    /\ Goto(t, "linked")
    /\ UNCHANGED <<proc, bypass, brokerUri, isConnected, timer, faults>>

LinkRefused(t) ==
    /\ At(t, "linking")
    /\ ~client.link
    /\ faults < MaxFaults
    /\ faults' = faults + 1
    /\ Goto(t, "linked")
    /\ UNCHANGED <<proc, bypass, brokerUri, client, isConnected, timer>>

LinkUnreachable(t) ==
    /\ At(t, "linking")
    /\ ~client.link
    /\ faults < MaxFaults
    /\ faults' = faults + 1
    /\ proc' = "crashed"
    /\ Reset
    /\ UNCHANGED bypass

\* Mutant: the flag is set as soon as the link is up.
LinkedCheckSetsFlag(t) ==
    /\ At(t, "linked")
    /\ Goto(t, IF client.link THEN "subscribe" ELSE "returned")
    /\ isConnected' = client.link
    /\ UNCHANGED <<proc, bypass, brokerUri, client, timer, faults>>

\* if (_broker.IsConnected) ... otherwise Connect returns, silently.
LinkedCheck(t) ==
    /\ At(t, "linked")
    /\ Goto(t, IF client.link THEN "subscribe" ELSE "returned")
    /\ UNCHANGED <<proc, bypass, brokerUri, client, isConnected, timer, faults>>

\* Mutant: Subscribe is not awaited.
SubscribeUnawaited(t) ==
    /\ At(t, "subscribe")
    /\ IF client.link
       THEN /\ client' = WithHandler(client, Filter, t)
            /\ Goto(t, "subscribed")
            /\ UNCHANGED <<proc, bypass, brokerUri, isConnected, timer, faults>>
       ELSE Throws(t, client)

\* Broker.Subscribe up to its await.
Subscribe(t) ==
    /\ At(t, "subscribe")
    /\ IF client.link
       THEN /\ client' = WithHandler(client, Filter, t)
            /\ Goto(t, "subscribing")
            /\ UNCHANGED <<proc, bypass, brokerUri, isConnected, timer, faults>>
       ELSE Throws(t, client)

\* The await ends: with the server's grant, or with the loss of the link.
Subscribed(t) ==
    /\ At(t, "subscribing")
    /\ IF client.link
       THEN /\ client' = WithFilter(client, Filter)
            /\ Goto(t, "subscribed")
            /\ UNCHANGED <<proc, bypass, brokerUri, isConnected, timer, faults>>
       ELSE Throws(t, client)

\* Or with the server's refusal, which Subscribe does not tell from a grant.
\* The token is granted the topic (TopicAcl), but the server asks for that
\* over HTTP, and refuses when it gets no answer.
SubscriptionRefused(t) ==
    /\ At(t, "subscribing")
    /\ client.link
    /\ faults < MaxFaults
    /\ faults' = faults + 1
    /\ client' = WithRefusal(client, Filter)
    /\ Goto(t, "subscribed")
    /\ UNCHANGED <<proc, bypass, brokerUri, isConnected, timer>>

SetConnected(t) ==
    /\ At(t, "subscribed")
    /\ isConnected' = TRUE
    /\ Goto(t, "returned")
    /\ UNCHANGED <<proc, bypass, brokerUri, client, timer, faults>>

-----------------------------------------------------------------------------
(* Authority.Disconnect.                                                   *)

\* What the caller does next: the handler of the timer connects again with
\* a new token, StopAsync returns.
AfterDisconnect(t) == Goto(t, IF t = "refresh" THEN "connect" ELSE "done")

\* Mutant: the flag goes with the handlers, before the link.
UnsubscribeClearsFlag(t) ==
    /\ At(t, "disconnect")
    /\ isConnected
    /\ IF client.link
       THEN /\ client' = WithoutHandlers(client, Filter)
            /\ isConnected' = FALSE
            /\ Goto(t, "unsubscribing")
            /\ UNCHANGED <<proc, bypass, brokerUri, timer, faults>>
       ELSE Throws(t, WithoutHandlers(client, Filter))

\* Unsubscribe drops the handlers, then throws if the link is down.
Unsubscribe(t) ==
    /\ At(t, "disconnect")
    /\ isConnected
    /\ IF client.link
       THEN /\ client' = WithoutHandlers(client, Filter)
            /\ Goto(t, "unsubscribing")
            /\ UNCHANGED <<proc, bypass, brokerUri, isConnected, timer, faults>>
       ELSE Throws(t, WithoutHandlers(client, Filter))

NothingToDisconnect(t) ==
    /\ At(t, "disconnect")
    /\ ~isConnected
    /\ AfterDisconnect(t)
    /\ UNCHANGED <<proc, bypass, brokerUri, client, isConnected, timer, faults>>

Unsubscribed(t) ==
    /\ At(t, "unsubscribing")
    /\ IF client.link
       THEN /\ client' = WithoutFilter(client, Filter)
            /\ Goto(t, "unlinking")
            /\ UNCHANGED <<proc, bypass, brokerUri, isConnected, timer, faults>>
       ELSE Throws(t, client)

\* Broker.Disconnect.
Unlink(t) ==
    /\ At(t, "unlinking")
    /\ client' = Unlinked(client)
    /\ Goto(t, "disconnected")
    /\ UNCHANGED <<proc, bypass, brokerUri, isConnected, timer, faults>>

\* Whatever another thread has made of link and flag since Unlink.
ClearConnected(t) ==
    /\ At(t, "disconnected")
    /\ isConnected' = FALSE
    /\ AfterDisconnect(t)
    /\ UNCHANGED <<proc, bypass, brokerUri, client, timer, faults>>

-----------------------------------------------------------------------------
(* The environment.                                                        *)

\* The connection breaks; nothing in the SDK listens to the event.
LinkLost ==
    /\ proc = "up"
    /\ client.link
    /\ faults < MaxFaults
    /\ faults' = faults + 1
    /\ client' = Unlinked(client)
    /\ UNCHANGED <<proc, bypass, brokerUri, isConnected, timer, pc>>

Killed ==
    /\ proc = "up"
    /\ faults < MaxFaults
    /\ faults' = faults + 1
    /\ proc' = "crashed"
    /\ Reset
    /\ UNCHANGED bypass

-----------------------------------------------------------------------------

ThreadConnect(t) ==
    \/ ConnectCheck(t) \/ Initialize(t) \/ Link(t) \/ LinkedCheck(t)
    \/ Subscribe(t) \/ Subscribed(t) \/ SetConnected(t)

ThreadDisconnect(t) ==
    \/ NothingToDisconnect(t) \/ Unsubscribe(t) \/ Unsubscribed(t)
    \/ Unlink(t) \/ ClearConnected(t)

ServiceStep == StartAsync \/ ArmTimer \/ RefreshElapsed \/ RefreshReturned

Next ==
    \/ ServiceStep
    \/ StopAsync \/ ProcessExits
    \/ \E t \in Connectors :
          ThreadConnect(t) \/ LinkRefused(t) \/ LinkUnreachable(t)
          \/ SubscriptionRefused(t)
    \/ \E t \in {"refresh", "stop"} : ThreadDisconnect(t)
    \/ LinkLost \/ Killed
    \/ Restart \/ Deploy

\* Threads that can run do run, the timer keeps firing, a stopped process
\* ends and the container is restarted; nobody has to stop or deploy the
\* server.
Fairness ==
    /\ WF_vars(ServiceStep)
    /\ \A t \in Connectors : WF_vars(ThreadConnect(t))
    /\ \A t \in {"refresh", "stop"} : WF_vars(ThreadDisconnect(t))
    /\ WF_vars(ProcessExits)
    /\ WF_vars(Restart)

Spec == Init /\ [][Next]_vars
FairSpec == Spec /\ Fairness

-----------------------------------------------------------------------------
(* Properties.                                                             *)

\* What Connect is meant to leave, as far as the client looks: it does not
\* look at what the server answered.
Standing ==
    /\ client.link
    /\ Answered(client, Filter)
    /\ Len(client.callbacks[Key]) = 1
    /\ isConnected

Serving == Standing /\ Filter \in client.filters

Disconnecting(t) == pc[t] \in DisconnectSteps \ {"disconnect"}

Quiescent ==
    /\ proc = "up"
    /\ pc["startup"] = "done"
    /\ pc["refresh"] = "idle"
    /\ pc["stop"] = "idle"

\* However startup, refreshes, a stop and lost links interleave, the list of
\* handlers of the authority's topic never holds two: reconnecting does not
\* make the authority process every host_connect twice.
AtMostOneHandler == Len(client.callbacks[Key]) <= 1

\* When Authority.IsConnected says so on a live link and no thread is inside
\* Disconnect, the server has answered the subscription and exactly one
\* handler is registered: unless it was refused, messages do arrive.
\* (SendHostWelcomeEvent and the UI trust the flag.)
FlagMeansStanding ==
    /\ isConnected
    /\ client.link
    /\ \A t \in Threads : ~Disconnecting(t)
    => Standing

\* No half-made session is ever left behind: once no thread is in the middle
\* of something, a live link is one with the flag, the handler and an answered
\* subscription.
NoHalfSession == Quiescent /\ client.link => Standing

\* AgienceAuthorityService.cs:56, "Reconnect occasionally": when faults stop,
\* the authority serves again and again, unless the service is bypassed or
\* the process was asked to stop, also after a subscription was refused.  (It
\* takes the crash of the async void handler to get there after a lost link:
\* Disconnect cannot clear the flag then.)
KeepsServing == []<>(Serving \/ bypass \/ proc = "exited")

-----------------------------------------------------------------------------
(* The inductive invariant behind the three safety properties.             *)

Handlers == Len(client.callbacks[Key])

\* Only one thread is ever inside Connect: the timer is armed after the
\* startup callback left it, and the handler of the timer is one thread.
\* StopAsync gets beyond its check only when Connect has been through.
OneConnector ==
    /\ timer => pc["startup"] = "done"
    /\ pc["refresh"] # "idle" => timer
    /\ pc["startup"] \notin DisconnectSteps
    /\ pc["stop"] \in {"idle", "done"} \cup DisconnectSteps
    /\ pc["refresh"] = "done" => pc["stop"] # "idle"
    /\ pc["startup"] \in {"idle", "connect"} => ~isConnected
    /\ Disconnecting("stop") => pc["startup"] \in {"returned", "done"}
    /\ proc # "up" => pc = Fresh.pc /\ ~client.link /\ ~timer

BeforeHandler == {"initialize", "linking", "linked", "subscribe"}
WithHandlerSteps == {"subscribing", "subscribed"}

\* Who may own the one handler.  A stop may take back the flag of the one
\* refresh it meets, which then does not come round again.
HandlerInv ==
    /\ Handlers <= 1
    /\ \A t \in Connectors :
          /\ pc[t] \in BeforeHandler => ~isConnected /\ Handlers = 0
          /\ pc[t] \in WithHandlerSteps => ~isConnected /\ Handlers = 1
    /\ ~isConnected /\ pc["startup"] \notin WithHandlerSteps
          /\ \/ pc["refresh"] \in {"idle", "disconnect", "connect"}
             \/ pc["refresh"] = "returned" /\ pc["stop"] # "done"
          => Handlers = 0
    /\ Disconnecting("stop") /\ pc["refresh"] \in {"idle", "disconnect"}
          => Handlers = 0
    /\ Disconnecting("refresh") \/ pc["refresh"] = "connect" => Handlers = 0

\* What the server has done when the flag is about to be set, or is set.
LinkInv ==
    /\ \A t \in Connectors :
          pc[t] = "subscribed" /\ client.link => Answered(client, Filter)
    /\ client.link /\ ~isConnected /\ pc["stop"] # "done"
          => \E t \in Connectors :
                pc[t] \in {"linked", "subscribe", "subscribing", "subscribed"}
    /\ pc["refresh"] = "disconnected" => ~client.link
    /\ ~client.link => client.filters = {} /\ client.refused = {}

SessionInv == TypeOK /\ OneConnector /\ HandlerInv /\ LinkInv /\ FlagMeansStanding

-----------------------------------------------------------------------------
(* The abstract specification it implements.                               *)

Promise == INSTANCE Subscription WITH
    linked <- client.link,
    answered <- Answered(client, Filter),
    handlers <- Handlers,
    announced <- isConnected,
    closing <- pc["stop"] # "idle"

\* Broker.cs:165, Authority.cs:133: whatever the threads and the network do, the
\* session keeps the promise of Subscription, in the order it states.
KeepsPromise == Promise!Spec

=============================================================================
