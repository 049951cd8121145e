---------------------------- MODULE HostSession ----------------------------
(***************************************************************************)
(* A host: Core.Host with its one Broker, the AgentFactory and the agents  *)
(* the authority places on it.                                             *)
(*                                                                         *)
(* One thread runs StartAsync, one may run Stop, and every handler of      *)
(* every received message runs on a task of its own (Broker starts it with *)
(* Task.Run and does not wait), so messages that arrive in order may be    *)
(* handled in any order and at the same time.                              *)
(* The authority is the environment here: it answers a host_connect with a *)
(* host_welcome that lists the host's agents, and may send agent_connect   *)
(* and agent_disconnect.                                                   *)
(***************************************************************************)
EXTENDS BrokerClient, FiniteSets, SequencesExt

CONSTANTS
    Authority, HostId,   \* ids, as they appear in topics
    Agents,              \* ids of the agents the authority may place here
    Broken,              \* those whose executive function cannot be built
    TopicOf,             \* agent -> the names of the topics of its record
    MaxFaults,           \* bound: failed connections and lost links
    Placements,          \* the sets of agents a host_welcome may list
    MaxStarts, MaxStops, \* bounds: calls of StartAsync and of Stop
    MaxEvents,           \* bound: agent_connect and agent_disconnect events
    MaxTasks,            \* bound: message handlers running at one time
    MaxInstances         \* bound: Agent objects ever created

\* "-" stands for "not addressed".
ASSUME IdsAssumption == Authority # HostId /\ Authority \notin Agents /\ HostId # "-"
ASSUME RecordsAssumption ==
    /\ Broken \subseteq Agents
    /\ Placements \subseteq SUBSET Agents
ASSUME BoundsAssumption ==
    {MaxFaults, MaxStarts, MaxStops, MaxEvents, MaxTasks, MaxInstances} \subseteq Nat

VARIABLES
    client,       \* the Broker object
    isConnected,  \* Host.IsConnected
    main,         \* where StartAsync is
    stop,         \* where Stop is: the step and what it iterates over
    agents,       \* Host._agents: agent -> instance, 0 for an absent key
    factory,      \* AgentFactory._agents, a list of instances
    instances,    \* every Agent object ever created, in creation order
    tasks,        \* the running message handlers
    requests,     \* host_connect messages on their way to the authority
    faults, starts, stops, events, welcomes,  \* counters of what happened
    overlapped    \* auxiliary: two handlers, or one and Stop, ran at a time

counters == <<faults, starts, stops, events, welcomes>>
registry == <<agents, factory, instances>>
vars == <<client, isConnected, main, stop, registry, tasks, requests, counters, overlapped>>

HostFilter == SubscribeAsHost(Authority, HostId)
AgentFilter(a) == SubscribeAsAgent(Authority, a)
HostTopic == PublishToHost(Authority, Authority, HostId)
Filters == {HostFilter} \cup {AgentFilter(a) : a \in Agents}
             \cup {ConnectTo(n) : n \in UNION {TopicOf[a] : a \in Agents}}
Keys == {CallbackTopic(f) : f \in Filters}

\* The handler the host files; the handler of an agent is its instance.
HostHandler == 0

Instances == 1 .. Len(instances)
Unused == {}     \* no task, no iteration

NoTask == [step |-> "none", todo |-> Unused, inst |-> 0]
TaskSteps == {"none", "create", "assign", "subscribe", "subscribing",
              "find", "unsubscribing", "dispose"}
MainSteps == {"idle", "connect", "linking", "linked", "subscribing", "publish",
              "published", "waiting"}
StopSteps == {"idle", "agents", "agent", "host", "unlink", "clear"}

TypeOK ==
    /\ client \in [link : BOOLEAN, filters : SUBSET Filters, refused : SUBSET Filters,
                   callbacks : [Keys -> Seq(0 .. MaxInstances)]]
    /\ isConnected \in BOOLEAN
    /\ main \in MainSteps
    /\ stop \in [step : StopSteps, seen : SUBSET Agents, todo : SUBSET Agents,
                 inst : 0 .. MaxInstances]
    /\ agents \in [Agents -> 0 .. MaxInstances]
    /\ factory \in Seq(1 .. MaxInstances)
    /\ instances \in Seq([agent : Agents, topics : SUBSET UNION {TopicOf[a] : a \in Agents},
                          enabled : BOOLEAN, connected : BOOLEAN, disposed : BOOLEAN])
    /\ tasks \in [1 .. MaxTasks -> [step : TaskSteps, todo : SUBSET Agents,
                                    inst : 0 .. MaxInstances]]
    /\ requests \in Nat /\ faults \in Nat /\ starts \in Nat
    /\ stops \in Nat /\ events \in Nat /\ welcomes \in Nat
    /\ overlapped \in BOOLEAN

Init ==
    /\ client = NoClient(Keys)
    /\ isConnected = FALSE
    /\ main = "idle"
    /\ stop = [step |-> "idle", seen |-> Unused, todo |-> Unused, inst |-> 0]
    /\ agents = [a \in Agents |-> 0]
    /\ factory = <<>>
    /\ instances = <<>>
    /\ tasks = [k \in 1 .. MaxTasks |-> NoTask]
    /\ requests = 0
    /\ faults = 0 /\ starts = 0 /\ stops = 0 /\ events = 0 /\ welcomes = 0
    /\ overlapped = FALSE

-----------------------------------------------------------------------------
(* StartAsync: a loop around Connect, with ten seconds after a failure.    *)

StartAsync ==
    /\ main = "idle"
    /\ starts < MaxStarts
    /\ starts' = starts + 1
    /\ main' = "connect"
    /\ UNCHANGED <<client, isConnected, stop, registry, tasks, requests,
                   faults, stops, events, welcomes, overlapped>>

MainLoop ==
    /\ main = "connect"
    /\ main' = IF isConnected THEN "idle" ELSE "linking"
    /\ UNCHANGED <<client, isConnected, stop, registry, tasks, requests, counters, overlapped>>

\* Discovery, the access token and Broker.Connect succeed ...
MainLink ==
    /\ main = "linking"
    /\ main' = "linked"
    /\ client' = IF client.link THEN client ELSE Linked(client)
    /\ UNCHANGED <<isConnected, stop, registry, tasks, requests, counters, overlapped>>

\* Mutant: the exception escapes StartAsync and ends the host program.
MainLinkThrows ==
    /\ main = "linking"
    /\ faults < MaxFaults
    /\ faults' = faults + 1
    /\ main' = "idle" /\ starts' = MaxStarts
    /\ UNCHANGED <<client, isConnected, stop, registry, tasks, requests,
                   stops, events, welcomes, overlapped>>

\* ... or one of them fails; every failure ends in the catch block.
MainLinkFails ==
    /\ main = "linking"
    /\ faults < MaxFaults
    /\ faults' = faults + 1
    /\ main' = "waiting"
    /\ UNCHANGED <<client, isConnected, stop, registry, tasks, requests,
                   starts, stops, events, welcomes, overlapped>>

\* Mutant: Subscribe is not awaited.
MainSubscribeUnawaited ==
    /\ main = "linked"
    /\ IF client.link
       THEN client' = WithHandler(client, HostFilter, HostHandler) /\ main' = "publish"
       ELSE main' = "waiting" /\ UNCHANGED client
    /\ UNCHANGED <<isConnected, stop, registry, tasks, requests, counters, overlapped>>

\* Subscribe files the handler before it awaits the server's answer.
MainSubscribe ==
    /\ main = "linked"
    /\ IF client.link
       THEN client' = WithHandler(client, HostFilter, HostHandler) /\ main' = "subscribing"
       ELSE main' = "waiting" /\ UNCHANGED client
    /\ UNCHANGED <<isConnected, stop, registry, tasks, requests, counters, overlapped>>

\* The server grants the filter or refuses it, which Subscribe does not tell
\* apart.  It refuses all a host's token asks for when the claim
\* "authority_id" is not the id that topics carry (TopicAcl), and any one
\* filter when the authority does not answer its question.
MainSubscribed ==
    /\ main = "subscribing"
    /\ IF client.link
       THEN /\ client' \in {WithFilter(client, HostFilter), WithRefusal(client, HostFilter)}
            /\ main' = "publish"
       ELSE main' = "waiting" /\ UNCHANGED client
    /\ UNCHANGED <<isConnected, stop, registry, tasks, requests, counters, overlapped>>

\* host_connect leaves at most once.  Without a link PublishAsync returns as
\* if it had been sent, or throws when the link went between test and send.
MainPublish ==
    /\ main = "publish"
    /\ \/ client.link /\ requests' = requests + 1 /\ main' = "published"
       \/ ~client.link /\ main' \in {"published", "waiting"} /\ UNCHANGED requests
    /\ UNCHANGED <<client, isConnected, stop, registry, tasks, counters, overlapped>>

MainConnected ==
    /\ main = "published"
    /\ isConnected' = TRUE
    /\ main' = "idle"
    /\ UNCHANGED <<client, stop, registry, tasks, requests, counters, overlapped>>

MainRetry ==
    /\ main = "waiting"
    /\ main' = "connect"
    /\ UNCHANGED <<client, isConnected, stop, registry, tasks, requests, counters, overlapped>>

MainStep ==
    \/ MainLoop \/ MainLink \/ MainSubscribe \/ MainSubscribed \/ MainPublish
    \/ MainConnected \/ MainRetry

-----------------------------------------------------------------------------
(* Messages and their handlers.                                            *)

Live(k) == tasks[k].step # "none"
FreeTasks == {k \in 1 .. MaxTasks : ~Live(k)}

Alone == FreeTasks = 1 .. MaxTasks /\ stop.step = "idle"

\* One task per filed handler.  A message nobody is subscribed to is gone.
Handle(task) ==
    LET n == IF Receives(client, HostTopic)
             THEN Len(HandlersOf(client, HostTopic)) ELSE 0
    IN /\ overlapped' = (overlapped \/ n > 1 \/ (n = 1 /\ ~Alone))
       /\ \E ks \in SUBSET FreeTasks :
            /\ Cardinality(ks) = n
            /\ \A k \in ks, j \in FreeTasks \ ks : k < j
            /\ tasks' = [k \in 1 .. MaxTasks |-> IF k \in ks THEN task ELSE tasks[k]]

\* The authority answers a host_connect: the records of the host's agents.
HostWelcome(placed) ==
    /\ requests > 0
    /\ requests' = requests - 1
    /\ welcomes' = welcomes + 1
    /\ Handle([step |-> IF placed = {} THEN "none" ELSE "create",
               todo |-> placed, inst |-> 0])
    /\ UNCHANGED <<client, isConnected, main, stop, registry,
                   faults, starts, stops, events>>

HostConnectLost ==
    /\ requests > 0
    /\ faults < MaxFaults
    /\ requests' = requests - 1
    /\ faults' = faults + 1
    /\ UNCHANGED <<client, isConnected, main, stop, registry, tasks,
                   starts, stops, events, welcomes, overlapped>>

AgentConnect(a) ==
    /\ events < MaxEvents
    /\ events' = events + 1
    /\ Handle([step |-> "create", todo |-> {a}, inst |-> 0])
    /\ UNCHANGED <<client, isConnected, main, stop, registry, requests,
                   faults, starts, stops, welcomes>>

AgentDisconnect(a) ==
    /\ events < MaxEvents
    /\ events' = events + 1
    /\ Handle([step |-> "find", todo |-> {a}, inst |-> 0])
    /\ UNCHANGED <<client, isConnected, main, stop, registry, requests,
                   faults, starts, stops, welcomes>>

\* A handler that throws is logged and gone, with the agents it had left.
Dies(k) == tasks' = [tasks EXCEPT ![k] = NoTask]

Goto(k, s) == tasks' = [tasks EXCEPT ![k].step = s]

\* Mutant: the loop is left after one agent.
ProceedOnce(k) == Dies(k)

\* The next agent of a welcome.
Proceed(k) ==
    LET a == instances[tasks[k].inst].agent IN
    IF tasks[k].todo = {a} THEN Dies(k)
    ELSE tasks' = [tasks EXCEPT ![k].step = "create", ![k].todo = @ \ {a},
                                ![k].inst = 0]

-----------------------------------------------------------------------------
(* ReceiveAgentConnect, also the body of the loop of ReceiveHostWelcome.   *)

\* The constructor takes id, name and persona from the record; IsEnabled and
\* Topics keep the defaults of the class.
NewInstance(a) == [agent |-> a, topics |-> {}, enabled |-> TRUE,
                   connected |-> FALSE, disposed |-> FALSE]

CreateAgent(k) ==
    /\ tasks[k].step = "create"
    /\ Len(instances) < MaxInstances
    /\ \E a \in tasks[k].todo \ Broken :
         /\ instances' = Append(instances, NewInstance(a))
         /\ factory' = Append(factory, Len(instances'))
         /\ tasks' = [tasks EXCEPT ![k].step = "assign", ![k].inst = Len(instances')]
    /\ UNCHANGED <<client, isConnected, main, stop, agents, requests, counters, overlapped>>

\* AddExecutiveFunction throws before the agent exists.
CreateAgentFails(k) ==
    /\ tasks[k].step = "create"
    /\ tasks[k].todo \cap Broken # {}
    /\ Dies(k)
    /\ UNCHANGED <<client, isConnected, main, stop, registry, requests, counters, overlapped>>

AssignAgent(k) ==
    /\ tasks[k].step = "assign"
    /\ agents' = [agents EXCEPT ![instances[tasks[k].inst].agent] = tasks[k].inst]
    /\ Goto(k, "subscribe")
    /\ UNCHANGED <<client, isConnected, main, stop, factory, instances, requests, counters, overlapped>>

\* Agent.Connect.
SubscribeAgent(k) ==
    /\ tasks[k].step = "subscribe"
    /\ LET i == tasks[k].inst IN
       IF ~instances[i].enabled THEN Proceed(k) /\ UNCHANGED client
       ELSE IF client.link
       THEN /\ client' = WithHandler(client, AgentFilter(instances[i].agent), i)
            /\ Goto(k, "subscribing")
       ELSE Dies(k) /\ UNCHANGED client
    /\ UNCHANGED <<isConnected, main, stop, registry, requests, counters, overlapped>>

\* The server has answered, also for the instance's topics, which it grants to
\* every token; the flag.
AgentSubscribed(k) ==
    /\ tasks[k].step = "subscribing"
    /\ LET i == tasks[k].inst
           filter == AgentFilter(instances[i].agent)
       IN
       IF client.link
       THEN /\ \E c \in {WithFilter(client, filter), WithRefusal(client, filter)} :
                  client' = [c EXCEPT !.filters = @ \cup {ConnectTo(n) : n \in instances[i].topics}]
            /\ instances' = [instances EXCEPT ![i].connected = TRUE]
            /\ Proceed(k)
       ELSE Dies(k) /\ UNCHANGED <<client, instances>>
    /\ UNCHANGED <<isConnected, main, stop, agents, factory, requests, counters, overlapped>>

-----------------------------------------------------------------------------
(* ReceiveAgentDisconnect.                                                 *)

FindAgent(k) ==
    /\ tasks[k].step = "find"
    /\ \E a \in tasks[k].todo :
         LET i == agents[a] IN
         IF i = 0 THEN Dies(k) /\ UNCHANGED client
         ELSE IF ~instances[i].connected
         THEN /\ tasks' = [tasks EXCEPT ![k].step = "dispose", ![k].inst = i]
              /\ UNCHANGED client
         ELSE /\ client' = WithoutHandlers(client, AgentFilter(a))
              /\ IF client.link
                 THEN tasks' = [tasks EXCEPT ![k].step = "unsubscribing", ![k].inst = i]
                 ELSE Dies(k)
    /\ UNCHANGED <<isConnected, main, stop, registry, requests, counters, overlapped>>

\* Mutant: Agent.Disconnect leaves its flag set.
AgentUnsubscribedFlagKept(k) ==
    /\ tasks[k].step = "unsubscribing"
    /\ IF client.link
       THEN /\ client' = WithoutFilter(client, AgentFilter(instances[tasks[k].inst].agent))
            /\ Goto(k, "dispose")
       ELSE Dies(k) /\ UNCHANGED client
    /\ UNCHANGED <<isConnected, main, stop, registry, requests, counters, overlapped>>

AgentUnsubscribed(k) ==
    /\ tasks[k].step = "unsubscribing"
    /\ LET i == tasks[k].inst IN
       IF client.link
       THEN /\ client' = WithoutFilter(client, AgentFilter(instances[i].agent))
            /\ instances' = [instances EXCEPT ![i].connected = FALSE]
            /\ Goto(k, "dispose")
       ELSE Dies(k) /\ UNCHANGED <<client, instances>>
    /\ UNCHANGED <<isConnected, main, stop, agents, factory, requests, counters, overlapped>>

\* AgentFactory.DisposeAgent: the first, that is the oldest, with this id.
DisposeAgent(k) ==
    /\ tasks[k].step = "dispose"
    /\ LET a == instances[tasks[k].inst].agent
           found == SelectInSeq(factory, LAMBDA i : instances[i].agent = a)
       IN IF found = 0 THEN UNCHANGED <<factory, instances>>
          ELSE /\ factory' = RemoveAt(factory, found)
               /\ instances' = [instances EXCEPT ![factory[found]].disposed = TRUE]
    /\ Dies(k)
    /\ UNCHANGED <<client, isConnected, main, stop, agents, requests, counters, overlapped>>

TaskStep(k) ==
    \/ CreateAgent(k) \/ CreateAgentFails(k) \/ AssignAgent(k)
    \/ SubscribeAgent(k) \/ AgentSubscribed(k)
    \/ FindAgent(k) \/ AgentUnsubscribed(k) \/ DisposeAgent(k)

-----------------------------------------------------------------------------
(* Stop: Disconnect of every agent in the dictionary, then of the host.    *)

Present == {a \in Agents : agents[a] # 0}

StopIdle == [step |-> "idle", seen |-> Unused, todo |-> Unused, inst |-> 0]

Stop ==
    /\ stop.step = "idle"
    /\ isConnected
    /\ stops < MaxStops
    /\ stops' = stops + 1
    /\ stop' = [step |-> "agents", seen |-> Present, todo |-> Present, inst |-> 0]
    /\ overlapped' = (overlapped \/ ~Alone)
    /\ UNCHANGED <<client, isConnected, main, registry, tasks, requests,
                   faults, starts, events, welcomes>>

\* The enumerator throws when a key was added to the dictionary meanwhile.
StopInterrupted ==
    /\ stop.step = "agents"
    /\ stop.seen # Present
    /\ stop' = StopIdle
    /\ UNCHANGED <<client, isConnected, main, registry, tasks, requests, counters, overlapped>>

StopAgent(a) ==
    /\ stop.step = "agents"
    /\ stop.seen = Present
    /\ a \in stop.todo
    /\ LET i == agents[a] IN
       IF ~instances[i].connected
       THEN stop' = [stop EXCEPT !.todo = @ \ {a}] /\ UNCHANGED client
       ELSE /\ client' = WithoutHandlers(client, AgentFilter(a))
            /\ stop' = IF client.link
                       THEN [stop EXCEPT !.step = "agent", !.todo = @ \ {a}, !.inst = i]
                       ELSE StopIdle
    /\ UNCHANGED <<isConnected, main, registry, tasks, requests, counters, overlapped>>

StopAgentUnsubscribed ==
    /\ stop.step = "agent"
    /\ IF client.link
       THEN /\ client' = WithoutFilter(client, AgentFilter(instances[stop.inst].agent))
            /\ instances' = [instances EXCEPT ![stop.inst].connected = FALSE]
            /\ stop' = [stop EXCEPT !.step = "agents", !.inst = 0]
       ELSE stop' = StopIdle /\ UNCHANGED <<client, instances>>
    /\ UNCHANGED <<isConnected, main, agents, factory, tasks, requests, counters, overlapped>>

StopHost ==
    /\ stop.step = "agents"
    /\ stop.seen = Present
    /\ stop.todo = {}
    /\ client' = WithoutHandlers(client, HostFilter)
    /\ stop' = IF client.link THEN [stop EXCEPT !.step = "host"] ELSE StopIdle
    /\ UNCHANGED <<isConnected, main, registry, tasks, requests, counters, overlapped>>

StopHostUnsubscribed ==
    /\ stop.step = "host"
    /\ IF client.link
       THEN /\ client' = WithoutFilter(client, HostFilter)
            /\ stop' = [stop EXCEPT !.step = "unlink"]
       ELSE stop' = StopIdle /\ UNCHANGED client
    /\ UNCHANGED <<isConnected, main, registry, tasks, requests, counters, overlapped>>

StopUnlink ==
    /\ stop.step = "unlink"
    /\ client' = Unlinked(client)
    /\ stop' = [stop EXCEPT !.step = "clear"]
    /\ UNCHANGED <<isConnected, main, registry, tasks, requests, counters, overlapped>>

StopClear ==
    /\ stop.step = "clear"
    /\ isConnected' = FALSE
    /\ stop' = StopIdle
    /\ UNCHANGED <<client, main, registry, tasks, requests, counters, overlapped>>

StopStep ==
    \/ StopInterrupted \/ (\E a \in Agents : StopAgent(a)) \/ StopAgentUnsubscribed
    \/ StopHost \/ StopHostUnsubscribed \/ StopUnlink \/ StopClear

-----------------------------------------------------------------------------

\* Nothing in Host listens for the loss of the connection.
LinkLost ==
    /\ client.link
    /\ faults < MaxFaults
    /\ faults' = faults + 1
    /\ client' = Unlinked(client)
    /\ UNCHANGED <<isConnected, main, stop, registry, tasks, requests,
                   starts, stops, events, welcomes, overlapped>>

Next ==
    \/ StartAsync \/ MainStep \/ MainLinkFails
    \/ \E placed \in Placements : HostWelcome(placed)
    \/ HostConnectLost
    \/ \E a \in Agents : AgentConnect(a) \/ AgentDisconnect(a)
    \/ \E k \in 1 .. MaxTasks : TaskStep(k)
    \/ Stop \/ StopStep
    \/ LinkLost

\* The threads and tasks run, and the authority answers.
Fairness ==
    /\ WF_vars(StartAsync) /\ WF_vars(MainStep) /\ WF_vars(StopStep)
    /\ \A k \in 1 .. MaxTasks : WF_vars(TaskStep(k))
    /\ WF_vars(\E placed \in Placements : HostWelcome(placed))

Spec == Init /\ [][Next]_vars
FairSpec == Spec /\ Fairness

-----------------------------------------------------------------------------
(* Properties.                                                             *)

HostHandlers == Len(client.callbacks[CallbackTopic(HostFilter)])
HandlersFor(a) == ToSet(client.callbacks[CallbackTopic(AgentFilter(a))])
InstancesFor(a) == {i \in Instances : instances[i].agent = a}

\* While Host.IsConnected says so on a live link, the server has answered the
\* host's subscription and its handler is filed, until Stop has come to the
\* host's own subscription: unless it was refused, the host can be welcomed.
HostFlagMeansStanding ==
    /\ isConnected
    /\ client.link
    /\ stop.step \notin {"host", "unlink", "clear"}
    => Answered(client, HostFilter) /\ HostHandlers >= 1

\* A message to the host is handled once, plus once for every attempt to
\* connect that failed after Subscribe had filed its handler.
DuplicatesNeedFaults == HostHandlers <= 1 + faults

\* A welcome creates each agent once, as long as no attempt failed.
CreatedOncePerWelcome ==
    faults = 0 => \A a \in Agents : Cardinality(InstancesFor(a)) <= welcomes + events

\* When handlers have run one at a time and nothing is running, an agent of
\* the dictionary that claims to be connected does hear its messages, unless
\* the server refused it: its own handler is filed and, on a live link, the
\* server has answered its subscription.
ConnectedAreReachable ==
    /\ Alone
    /\ ~overlapped
    /\ faults = 0
    => \A a \in Agents :
         agents[a] # 0 /\ instances[agents[a]].connected
         => /\ agents[a] \in HandlersFor(a)
            /\ client.link => Answered(client, AgentFilter(a))

\* When handlers run one at a time, messages never reach an Agent object that
\* DisposeAgent has disposed: a disconnect silences every object it may pick,
\* although it picks the oldest with the id, not the one it disconnected.  A
\* handler that a fault ended half way leaves an object that hears and does not
\* claim to be connected; Stop passes over it, and a host that was started again
\* may dispose it so.
DisposedAreSilent ==
    ~overlapped /\ (faults = 0 \/ stops = 0) =>
        \A a \in Agents : \A i \in HandlersFor(a) : ~instances[i].disposed

\* Stop has forgotten the handler of the host before it gives up the link,
\* so that the next StartAsync does not file a second one.
StopForgetsHost == stop.step \in {"unlink", "clear"} => HostHandlers = 0

\* StartAsync retries until the host is connected.
StartConnects == (starts > 0) ~> (isConnected \/ stops > 0)

\* Without a fault or a Stop, and with the host's own subscription granted,
\* every agent that can be built ends up connected on the host.
AgentsArrive ==
    (starts > 0) ~> \/ faults > 0 \/ stops > 0
                    \/ HostFilter \in client.refused
                    \/ \A a \in Agents \ Broken :
                          agents[a] # 0 /\ instances[agents[a]].connected

\* Every message to the host, a welcome above all, is handled once: except for
\* attempts to connect that failed half way, nothing is filed or created twice.
HandledOnce == DuplicatesNeedFaults /\ CreatedOncePerWelcome /\ StopForgetsHost

\* The Agent objects that hear messages are those the dictionary says are
\* connected, whatever agent_connect and agent_disconnect arrive in whatever order.
RightAgentsHear == ConnectedAreReachable /\ DisposedAreSilent

=============================================================================
