-------------------------- MODULE AuthorityProofs ---------------------------
(***************************************************************************)
(* What the authority does for its broker and for the agents.              *)
(*                                                                         *)
(* First the safety of its own session, for every authority id and every   *)
(* number of faults.  Then its decision on what clients ask the broker,    *)
(* for every set of hosts, agents and requested topics: a request is       *)
(* answered by itself alone, so the invariant there is that the answer is  *)
(* the decision of CheckAccessControl; the rest is about the four masks of *)
(* a token and the topics of the SDK.                                      *)
(*                                                                         *)
(* At last the credentials it hands out, for every set of callers and      *)
(* services, every sequence of connections and every bound.  What is said  *)
(* of them is about executions in which edits do not overlap.  Then at     *)
(* most one edit is between its read and its write, and what it read is    *)
(* still so (EditInv).                                                     *)
(***************************************************************************)
EXTENDS AuthoritySession, TopicAcl, CredentialExchange, SequenceTheorems,
        FiniteSetTheorems, WellFoundedInduction, TLAPS

-----------------------------------------------------------------------------
(* The session.                                                            *)

\* The filter that Unsubscribe asks the server to drop is never the one that
\* was subscribed: it has three segments, not five.
LEMMA KeyIsNotFilter == Key # Filter
<1>1. Len(Filter) = 5
  BY DEF Filter, SubscribeAsAuthority, SubscribeAs
<1>2. Len(Key) = 3
  BY <1>1 DEF Key, CallbackTopic, Filter, SubscribeAsAuthority, SubscribeAs
<1>3. QED
  BY <1>1, <1>2

\* What each method of Broker does to a well-typed client.
LEMMA ClientOperations ==
  ASSUME NEW c \in ClientType, NEW t \in Threads
  PROVE  /\ /\ Linked(c) \in ClientType
            /\ Linked(c).link
            /\ Linked(c).callbacks[Key] = c.callbacks[Key]
         /\ /\ Unlinked(c) \in ClientType
            /\ ~Unlinked(c).link
            /\ Unlinked(c).filters = {}
            /\ Unlinked(c).refused = {}
            /\ Unlinked(c).callbacks[Key] = c.callbacks[Key]
         /\ /\ WithHandler(c, Filter, t) \in ClientType
            /\ WithHandler(c, Filter, t).link = c.link
            /\ WithHandler(c, Filter, t).filters = c.filters
            /\ WithHandler(c, Filter, t).refused = c.refused
            /\ Len(WithHandler(c, Filter, t).callbacks[Key])
                 = Len(c.callbacks[Key]) + 1
         /\ /\ WithFilter(c, Filter) \in ClientType
            /\ WithFilter(c, Filter).link = c.link
            /\ Answered(WithFilter(c, Filter), Filter)
            /\ WithFilter(c, Filter).callbacks[Key] = c.callbacks[Key]
         /\ /\ WithoutHandlers(c, Filter) \in ClientType
            /\ WithoutHandlers(c, Filter).link = c.link
            /\ WithoutHandlers(c, Filter).filters = c.filters
            /\ WithoutHandlers(c, Filter).refused = c.refused
            /\ Len(WithoutHandlers(c, Filter).callbacks[Key]) = 0
         /\ /\ WithRefusal(c, Filter) \in ClientType
            /\ WithRefusal(c, Filter).link = c.link
            /\ Answered(WithRefusal(c, Filter), Filter)
            /\ WithRefusal(c, Filter).callbacks[Key] = c.callbacks[Key]
         /\ WithoutFilter(c, Filter) = c
         /\ Len(c.callbacks[Key]) \in Nat
<1> USE DEF ClientType
<1>k. CallbackTopic(Filter) = Key
  BY DEF Key
<1>1. c.callbacks[Key] \in Seq(Threads)
  OBVIOUS
<1>2. /\ Linked(c) \in ClientType
      /\ Linked(c).link
      /\ Linked(c).callbacks[Key] = c.callbacks[Key]
  BY DEF Linked
<1>3. /\ Unlinked(c) \in ClientType
      /\ ~Unlinked(c).link
      /\ Unlinked(c).filters = {}
      /\ Unlinked(c).refused = {}
      /\ Unlinked(c).callbacks[Key] = c.callbacks[Key]
  BY DEF Unlinked
<1>a. WithHandler(c, Filter, t) =
        [c EXCEPT !.callbacks = [@ EXCEPT ![Key] = Append(c.callbacks[Key], t)]]
  BY <1>k DEF WithHandler
<1>b. /\ Append(c.callbacks[Key], t) \in Seq(Threads)
      /\ Len(Append(c.callbacks[Key], t)) = Len(c.callbacks[Key]) + 1
  BY <1>1
<1>4. /\ WithHandler(c, Filter, t) \in ClientType
      /\ WithHandler(c, Filter, t).link = c.link
      /\ WithHandler(c, Filter, t).filters = c.filters
      /\ WithHandler(c, Filter, t).refused = c.refused
      /\ Len(WithHandler(c, Filter, t).callbacks[Key])
           = Len(c.callbacks[Key]) + 1
  BY <1>a, <1>b
<1>5. /\ WithFilter(c, Filter) \in ClientType
      /\ WithFilter(c, Filter).link = c.link
      /\ Answered(WithFilter(c, Filter), Filter)
      /\ WithFilter(c, Filter).callbacks[Key] = c.callbacks[Key]
  BY DEF WithFilter, Answered
<1>9. /\ WithRefusal(c, Filter) \in ClientType
      /\ WithRefusal(c, Filter).link = c.link
      /\ Answered(WithRefusal(c, Filter), Filter)
      /\ WithRefusal(c, Filter).callbacks[Key] = c.callbacks[Key]
  BY DEF WithRefusal, Answered
<1>c. WithoutHandlers(c, Filter) =
        [c EXCEPT !.callbacks = [@ EXCEPT ![Key] = <<>>]]
  BY <1>k DEF WithoutHandlers
<1>d. <<>> \in Seq(Threads) /\ Len(<<>>) = 0
  OBVIOUS
<1>6. /\ WithoutHandlers(c, Filter) \in ClientType
      /\ WithoutHandlers(c, Filter).link = c.link
      /\ WithoutHandlers(c, Filter).filters = c.filters
      /\ WithoutHandlers(c, Filter).refused = c.refused
      /\ Len(WithoutHandlers(c, Filter).callbacks[Key]) = 0
  BY <1>c, <1>d
<1>7. WithoutFilter(c, Filter) = c
  BY <1>k, KeyIsNotFilter DEF WithoutFilter
<1>8. QED
  BY <1>1, <1>2, <1>3, <1>4, <1>5, <1>6, <1>7, <1>9


\* A process that has ended, or has just begun, satisfies everything.
LEMMA FreshMemory ==
  ASSUME Reset, proc' \in {"up", "crashed", "exited"},
         bypass' \in BOOLEAN, faults' \in 0 .. MaxFaults
  PROVE  SessionInv'
<1>1. /\ client' \in ClientType
      /\ ~client'.link
      /\ client'.filters = {}
      /\ client'.refused = {}
      /\ Len(client'.callbacks[Key]) = 0
  <2>1. <<>> \in Seq(Threads) /\ Len(<<>>) = 0
    OBVIOUS
  <2>2. client' = [link |-> FALSE, filters |-> {}, refused |-> {},
                   callbacks |-> [k \in {Key} |-> <<>>]]
    BY DEF Reset, Fresh, NoClient
  <2>3. QED
    BY <2>1, <2>2 DEF ClientType
<1>2. /\ pc' = [t \in Threads |-> "idle"]
      /\ brokerUri' = BrokerUriInternal /\ isConnected' = FALSE /\ timer' = FALSE
  BY DEF Reset, Fresh
<1>3. TypeOK'
  BY <1>1, <1>2, BrokerUriAssumption DEF TypeOK, Steps
<1>4. OneConnector'
  BY <1>1, <1>2 DEF OneConnector, Fresh, Threads, DisconnectSteps,
                    Disconnecting
<1>5. HandlerInv'
  BY <1>1, <1>2 DEF HandlerInv, Handlers, Connectors, Threads,
                    BeforeHandler, WithHandlerSteps, DisconnectSteps,
                    Disconnecting
<1>6. LinkInv'
  BY <1>1, <1>2 DEF LinkInv, Connectors, Threads
<1>7. FlagMeansStanding'
  BY <1>2 DEF FlagMeansStanding
<1>8. QED
  BY <1>3, <1>4, <1>5, <1>6, <1>7 DEF SessionInv

\* The invariant holds when the process starts.
LEMMA InitSession == Init => SessionInv
<1> SUFFICES ASSUME Init PROVE SessionInv
  OBVIOUS
<1>1. /\ client \in ClientType
      /\ ~client.link
      /\ client.filters = {}
      /\ client.refused = {}
      /\ Len(client.callbacks[Key]) = 0
  <2>1. <<>> \in Seq(Threads) /\ Len(<<>>) = 0
    OBVIOUS
  <2>2. client = [link |-> FALSE, filters |-> {}, refused |-> {},
                  callbacks |-> [k \in {Key} |-> <<>>]]
    BY DEF Init, Fresh, NoClient
  <2>3. QED
    BY <2>1, <2>2 DEF ClientType
<1>2. /\ pc = [t \in Threads |-> "idle"]
      /\ brokerUri = BrokerUriInternal /\ isConnected = FALSE /\ timer = FALSE
      /\ proc = "up" /\ bypass \in BOOLEAN /\ faults = 0
  BY DEF Init, Fresh
<1>3. TypeOK
  <2>1. pc \in [Threads -> Steps]
    BY <1>2 DEF Steps
  <2>2. faults \in 0 .. MaxFaults
    BY <1>2, MaxFaultsAssumption
  <2>3. QED
    BY <1>1, <1>2, <2>1, <2>2, BrokerUriAssumption DEF TypeOK
<1>4. OneConnector
  BY <1>1, <1>2 DEF OneConnector, Fresh, Threads, DisconnectSteps,
                    Disconnecting
<1>5. HandlerInv
  BY <1>1, <1>2 DEF HandlerInv, Handlers, Connectors, Threads,
                    BeforeHandler, WithHandlerSteps, DisconnectSteps,
                    Disconnecting
<1>6. LinkInv
  BY <1>1, <1>2 DEF LinkInv, Connectors, Threads
<1>7. FlagMeansStanding
  BY <1>2 DEF FlagMeansStanding
<1>8. QED
  BY <1>3, <1>4, <1>5, <1>6, <1>7 DEF SessionInv

\* Every step of Connect, on either thread that connects, keeps SessionInv.
LEMMA ConnectStep ==
  ASSUME SessionInv, NEW t \in Connectors, ThreadConnect(t)
  PROVE  SessionInv'
<1> USE DEF SessionInv, OneConnector, HandlerInv, LinkInv, FlagMeansStanding,
            TypeOK, At, Goto, Handlers, Threads, Connectors, Steps,
            ConnectSteps, DisconnectSteps, BeforeHandler, WithHandlerSteps,
            Disconnecting, Standing, Answered
<1>0. t \in Threads
  OBVIOUS
<1>1. CASE ConnectCheck(t)
  BY <1>1 DEF ConnectCheck
<1>2. CASE Initialize(t)
  BY <1>2 DEF Initialize
<1>3. CASE Link(t)
  <2>1. /\ client' \in ClientType
        /\ client'.link
        /\ client'.callbacks[Key] = client.callbacks[Key]
    BY <1>0, <1>3, ClientOperations DEF Link
  <2>2. QED
    BY <1>3, <2>1 DEF Link
<1>4. CASE LinkedCheck(t)
  BY <1>4 DEF LinkedCheck
<1>5. CASE Subscribe(t)
  <2>1. CASE client.link
    <3>1. /\ client' \in ClientType
          /\ client'.link = client.link
          /\ client'.filters = client.filters
          /\ client'.refused = client.refused
          /\ Len(client'.callbacks[Key]) = Len(client.callbacks[Key]) + 1
      <4>1. client' = WithHandler(client, Filter, t)
        BY <1>5, <2>1 DEF Subscribe
      <4>2. QED
        BY <1>0, <4>1, ClientOperations
    <3>2. QED
      BY <1>5, <2>1, <3>1 DEF Subscribe
  <2>2. CASE ~client.link
    BY <1>5, <2>2, FreshMemory DEF Subscribe, Throws, End
  <2>3. QED
    BY <2>1, <2>2
<1>6. CASE Subscribed(t)
  <2>1. CASE client.link
    <3>1. /\ client' \in ClientType
          /\ client'.link = client.link
          /\ Answered(client', Filter)
          /\ client'.callbacks[Key] = client.callbacks[Key]
      <4>1. client' = WithFilter(client, Filter)
        BY <1>6, <2>1 DEF Subscribed
      <4>2. QED
        BY <1>0, <4>1, ClientOperations
    <3>2. QED
      BY <1>6, <2>1, <3>1 DEF Subscribed
  <2>2. CASE ~client.link
    BY <1>6, <2>2, FreshMemory DEF Subscribed, Throws, End
  <2>3. QED
    BY <2>1, <2>2
<1>7. CASE SetConnected(t)
  BY <1>7 DEF SetConnected
<1>8. QED
  BY <1>1, <1>2, <1>3, <1>4, <1>5, <1>6, <1>7 DEF ThreadConnect


\* Every step of Disconnect, on either thread that disconnects, keeps it.
LEMMA DisconnectStep ==
  ASSUME SessionInv, NEW t \in {"refresh", "stop"}, ThreadDisconnect(t)
  PROVE  SessionInv'
<1> USE DEF SessionInv, OneConnector, HandlerInv, LinkInv, FlagMeansStanding,
            TypeOK, At, Goto, Handlers, Threads, Connectors, Steps,
            ConnectSteps, DisconnectSteps, BeforeHandler, WithHandlerSteps,
            Disconnecting, Standing, Answered
<1>0. t \in Threads
  OBVIOUS
<1>1. CASE NothingToDisconnect(t)
  BY <1>1 DEF NothingToDisconnect, AfterDisconnect
<1>2. CASE Unsubscribe(t)
  <2>1. CASE client.link \/ t = "stop"
    <3>1. /\ client' \in ClientType
          /\ client'.link = client.link
          /\ client'.filters = client.filters
          /\ client'.refused = client.refused
          /\ Len(client'.callbacks[Key]) = 0
      <4>1. client' = WithoutHandlers(client, Filter)
        BY <1>2, <2>1 DEF Unsubscribe, Throws
      <4>2. QED
        BY <1>0, <4>1, ClientOperations
    <3>2. /\ proc = "up" /\ isConnected /\ pc[t] = "disconnect"
          /\ pc' = [pc EXCEPT ![t] = IF client.link THEN "unsubscribing" ELSE "done"]
          /\ UNCHANGED <<proc, bypass, brokerUri, isConnected, timer, faults>>
      BY <1>2, <2>1 DEF Unsubscribe, Throws
    <3>3. CASE t = "refresh"
      BY <2>1, <3>1, <3>2, <3>3
    <3>4. CASE t = "stop"
      <4>1. pc["startup"] \in {"returned", "done"}
        BY <3>2
      <4>2. OneConnector' /\ TypeOK'
        BY <3>1, <3>2, <3>4, <4>1
      <4>3. HandlerInv'
        BY <3>1, <3>2, <3>4, <4>1
      <4>4. LinkInv' /\ FlagMeansStanding'
        BY <3>1, <3>2, <3>4, <4>1
      <4>5. QED
        BY <4>2, <4>3, <4>4
    <3>5. QED
      BY <3>3, <3>4
  <2>2. CASE ~client.link /\ t = "refresh"
    BY <1>2, <2>2, FreshMemory DEF Unsubscribe, Throws, End
  <2>3. QED
    BY <2>1, <2>2
<1>3. CASE Unsubscribed(t)
  <2>1. CASE client.link \/ t = "stop"
    <3>1. client' = client
      BY <1>0, <1>3, <2>1, ClientOperations DEF Unsubscribed, Throws
    <3>2. QED
      BY <1>3, <2>1, <3>1 DEF Unsubscribed, Throws
  <2>2. CASE ~client.link /\ t = "refresh"
    BY <1>3, <2>2, FreshMemory DEF Unsubscribed, Throws, End
  <2>3. QED
    BY <2>1, <2>2
<1>4. CASE Unlink(t)
  <2>1. /\ client' \in ClientType
        /\ ~client'.link
        /\ client'.filters = {}
        /\ client'.refused = {}
        /\ client'.callbacks[Key] = client.callbacks[Key]
    BY <1>0, <1>4, ClientOperations DEF Unlink
  <2>2. QED
    BY <1>4, <2>1 DEF Unlink
<1>5. CASE ClearConnected(t)
  BY <1>5 DEF ClearConnected, AfterDisconnect
<1>6. QED
  BY <1>1, <1>2, <1>3, <1>4, <1>5 DEF ThreadDisconnect

\* Every step of the service, the network and the process keeps SessionInv.
LEMMA NextSession == SessionInv /\ [Next]_vars => SessionInv'
<1> SUFFICES ASSUME SessionInv, [Next]_vars
             PROVE  SessionInv'
  OBVIOUS
<1> USE DEF SessionInv, OneConnector, HandlerInv, LinkInv, FlagMeansStanding,
            TypeOK, At, Goto, Handlers, Threads, Connectors, Steps,
            ConnectSteps, DisconnectSteps, BeforeHandler, WithHandlerSteps,
            Disconnecting, Standing, Answered
<1>1. CASE ServiceStep
  <2>1. CASE StartAsync
    BY <2>1 DEF StartAsync
  <2>2. CASE ArmTimer
    BY <2>2 DEF ArmTimer
  <2>3. CASE RefreshElapsed
    BY <2>3 DEF RefreshElapsed
  <2>4. CASE RefreshReturned
    BY <2>4 DEF RefreshReturned
  <2>5. QED
    BY <1>1, <2>1, <2>2, <2>3, <2>4 DEF ServiceStep
<1>2. CASE StopAsync \/ ProcessExits
  <2>1. CASE StopAsync
    <3>1. /\ proc = "up" /\ pc["stop"] = "idle"
          /\ pc' = [pc EXCEPT !["stop"] = "disconnect"]
          /\ UNCHANGED <<proc, bypass, brokerUri, client, isConnected, timer, faults>>
      BY <2>1 DEF StopAsync
    <3>2. TypeOK' /\ OneConnector'
      BY <3>1
    <3>3. HandlerInv' /\ LinkInv'
      BY <3>1
    <3>4. FlagMeansStanding'
      BY <3>1
    <3>5. QED
      BY <3>2, <3>3, <3>4
  <2>2. CASE ProcessExits
    BY <2>2, FreshMemory DEF ProcessExits, End
  <2>3. QED
    BY <1>2, <2>1, <2>2
<1>3. ASSUME NEW t \in Connectors, ThreadConnect(t)
      PROVE  SessionInv'
  BY <1>3, ConnectStep
<1>4. ASSUME NEW t \in Connectors, LinkRefused(t)
      PROVE  SessionInv'
  BY <1>4, MaxFaultsAssumption DEF LinkRefused
<1>5. ASSUME NEW t \in Connectors, LinkUnreachable(t)
      PROVE  SessionInv'
  BY <1>5, FreshMemory, MaxFaultsAssumption DEF LinkUnreachable
<1>13. ASSUME NEW t \in Connectors, SubscriptionRefused(t)
       PROVE  SessionInv'
  <2>1. /\ client' \in ClientType
        /\ client'.link = client.link
        /\ Answered(client', Filter)
        /\ client'.callbacks[Key] = client.callbacks[Key]
    BY <1>13, ClientOperations DEF SubscriptionRefused
  <2>2. QED
    BY <1>13, <2>1, MaxFaultsAssumption DEF SubscriptionRefused
<1>6. ASSUME NEW t \in {"refresh", "stop"}, ThreadDisconnect(t)
      PROVE  SessionInv'
  BY <1>6, DisconnectStep
<1>7. CASE LinkLost
  <2>1. /\ client' \in ClientType
        /\ ~client'.link
        /\ client'.filters = {}
        /\ client'.refused = {}
        /\ client'.callbacks[Key] = client.callbacks[Key]
    <3>1. "stop" \in Threads
      OBVIOUS
    <3>2. QED
      BY <1>7, <3>1, ClientOperations DEF LinkLost
  <2>2. QED
    BY <1>7, <2>1, MaxFaultsAssumption DEF LinkLost
<1>8. CASE Killed
  BY <1>8, FreshMemory, MaxFaultsAssumption DEF Killed
<1>9. CASE Restart
  BY <1>9, FreshMemory DEF Restart
<1>10. CASE Deploy
  BY <1>10, FreshMemory DEF Deploy
<1>11. CASE UNCHANGED vars
  BY <1>11 DEF vars, memory
<1>12. QED
  BY <1>1, <1>2, <1>3, <1>4, <1>5, <1>6, <1>7, <1>8, <1>9, <1>10, <1>11,
     <1>13 DEF Next

-----------------------------------------------------------------------------

\* The inductive invariant holds in every state of the session.
THEOREM SessionSafe == Spec => []SessionInv
<1>1. Init => SessionInv
  BY InitSession
<1>2. SessionInv /\ [Next]_vars => SessionInv'
  BY NextSession
<1>3. QED
  BY <1>1, <1>2, PTL DEF Spec

\* Every variable stays in its type, for every authority and fault bound.
THEOREM TypeCorrect == Spec => []TypeOK
<1>1. SessionInv => TypeOK
  BY DEF SessionInv
<1>2. QED
  BY <1>1, SessionSafe, PTL

\* Reconnecting never registers a second handler for the authority's topic,
\* whatever the startup, refresh and stop threads and the network do.
THEOREM HandlerOnce == Spec => []AtMostOneHandler
<1>1. SessionInv => AtMostOneHandler
  BY DEF SessionInv, HandlerInv, Handlers, AtMostOneHandler
<1>2. QED
  BY <1>1, SessionSafe, PTL

\* Authority.IsConnected on a live link, outside Disconnect, means that the
\* server has answered the authority's subscription, with one handler filed.
THEOREM FlagIsTrustworthy == Spec => []FlagMeansStanding
<1>1. SessionInv => FlagMeansStanding
  BY DEF SessionInv
<1>2. QED
  BY <1>1, SessionSafe, PTL

\* When no thread is in the middle of something, a live link is one with the
\* flag, the handler and an answered subscription.
THEOREM SessionComplete == Spec => []NoHalfSession
<1>1. SessionInv => NoHalfSession
  <2> SUFFICES ASSUME SessionInv, Quiescent, client.link
               PROVE  Standing
    BY DEF NoHalfSession
  <2>1. isConnected
    BY DEF SessionInv, LinkInv, Quiescent, Connectors
  <2>2. \A t \in Threads : ~Disconnecting(t)
    BY DEF Quiescent, Threads, Disconnecting, DisconnectSteps
  <2>3. QED
    BY <2>1, <2>2 DEF SessionInv, FlagMeansStanding
<1>2. QED
  BY <1>1, SessionSafe, PTL

-----------------------------------------------------------------------------
(* The session implements Subscription.                                    *)

\* A process that ends gives up everything at once.
LEMMA ResetAbandons == Reset => Promise!Abandon
<1> SUFFICES ASSUME Reset PROVE Promise!Abandon
  OBVIOUS
<1>1. client' = [link |-> FALSE, filters |-> {}, refused |-> {},
                 callbacks |-> [k \in {Key} |-> <<>>]]
  BY DEF Reset, Fresh, NoClient
<1>2. Len(client'.callbacks[Key]) = 0
  BY <1>1
<1>3. isConnected' = FALSE /\ pc'["stop"] = "idle"
  BY DEF Reset, Fresh, Threads
<1>4. QED
  BY <1>1, <1>2, <1>3 DEF Promise!Abandon, Handlers, Answered

\* A process that has just begun promises nothing.
LEMMA InitPromise == Init => Promise!Init
<1> SUFFICES ASSUME Init PROVE Promise!Init
  OBVIOUS
<1>1. client = [link |-> FALSE, filters |-> {}, refused |-> {},
                callbacks |-> [k \in {Key} |-> <<>>]]
  BY DEF Init, Fresh, NoClient
<1>2. Len(client.callbacks[Key]) = 0
  BY <1>1
<1>3. isConnected = FALSE /\ pc["stop"] = "idle"
  BY DEF Init, Fresh, Threads
<1>4. QED
  BY <1>1, <1>2, <1>3 DEF Promise!Init, Handlers, Answered

Closing == pc["stop"] # "idle"

\* Only StopAsync and the end of the process change whether it is closing.
LEMMA GotoKeepsClosing ==
  ASSUME TypeOK, NEW t \in Threads, NEW step, Goto(t, step),
         t = "stop" => pc["stop"] # "idle" /\ step # "idle"
  PROVE  Closing' = Closing
BY DEF TypeOK, Goto, Closing

\* A step that leaves the client and the flag alone changes nothing of it.
LEMMA Stutters ==
  ASSUME UNCHANGED <<client, isConnected>>, Closing' = Closing
  PROVE  UNCHANGED Promise!vars
BY DEF Promise!vars, Handlers, Answered, Closing

\* A granted or refused subscription answers it.
LEMMA AnswerPromise ==
  ASSUME SessionInv, NEW t \in Connectors, At(t, "subscribing"), client.link,
         client' = WithFilter(client, Filter) \/ client' = WithRefusal(client, Filter),
         Goto(t, "subscribed"), isConnected' = isConnected
  PROVE  Promise!Next
<1>0. /\ t \in Threads /\ t # "stop" /\ client \in ClientType
  BY DEF Connectors, Threads, SessionInv, TypeOK
<1>1. /\ client'.link = client.link /\ Answered(client', Filter)
      /\ Handlers' = Handlers
  <2>1. CASE client' = WithFilter(client, Filter)
    BY <1>0, <2>1, ClientOperations DEF Handlers
  <2>2. CASE client' = WithRefusal(client, Filter)
    BY <1>0, <2>2, ClientOperations DEF Handlers
  <2>3. QED
    BY <2>1, <2>2
<1>2. Handlers = 1
  BY DEF SessionInv, HandlerInv, WithHandlerSteps, At
<1>3. Closing' = Closing
  BY <1>0, GotoKeepsClosing DEF SessionInv
<1>4. Promise!Answer
  BY <1>1, <1>2, <1>3 DEF Promise!Answer, Closing
<1>5. QED
  BY <1>4 DEF Promise!Next

\* A step of Connect links, files the handler, has it answered or announces it.
LEMMA ConnectPromise ==
  ASSUME SessionInv, NEW t \in Connectors, ThreadConnect(t)
  PROVE  [Promise!Next]_(Promise!vars)
<1>0. /\ t \in Threads /\ client \in ClientType /\ Handlers \in Nat
      /\ t # "stop" /\ TypeOK
  BY ClientOperations DEF Connectors, Threads, SessionInv, TypeOK, Handlers
<1>g. ASSUME NEW step, Goto(t, step) PROVE Closing' = Closing
  BY <1>0, <1>g, GotoKeepsClosing
<1>1. CASE ConnectCheck(t) \/ Initialize(t) \/ LinkedCheck(t)
  <2>1. UNCHANGED <<client, isConnected>> /\ Closing' = Closing
    BY <1>1, <1>g DEF ConnectCheck, Initialize, LinkedCheck
  <2>2. QED
    BY <2>1, Stutters
<1>2. CASE Link(t)
  <2>0. Closing' = Closing
    BY <1>2, <1>g DEF Link
  <2>1. CASE client.link
    BY <1>2, <2>0, <2>1, Stutters DEF Link
  <2>2. CASE ~client.link
    <3>1. client' = Linked(client)
      BY <1>2, <2>2 DEF Link
    <3>2. /\ client'.link /\ client'.filters = {} /\ client'.refused = {}
          /\ client'.callbacks[Key] = client.callbacks[Key]
      BY <1>0, <3>1 DEF Linked, ClientType
    <3>3. client.filters = {} /\ client.refused = {}
      BY <2>2 DEF SessionInv, LinkInv
    <3>4. Promise!Link
      BY <1>2, <2>0, <2>2, <3>2, <3>3
         DEF Link, Promise!Link, Handlers, Answered, Closing
    <3>5. QED
      BY <3>4 DEF Promise!Next
  <2>3. QED
    BY <2>1, <2>2
<1>3. CASE Subscribe(t)
  <2>1. CASE client.link
    <3>1. /\ client' = WithHandler(client, Filter, t) /\ isConnected' = isConnected
          /\ Closing' = Closing
      BY <1>3, <1>g, <2>1 DEF Subscribe
    <3>2. /\ client'.link = client.link /\ client'.filters = client.filters
          /\ client'.refused = client.refused
          /\ Handlers' = Handlers + 1
      BY <1>0, <3>1, ClientOperations DEF Handlers
    <3>3. ~isConnected /\ Handlers = 0
      BY <1>3 DEF SessionInv, HandlerInv, BeforeHandler, Subscribe, At
    <3>4. Promise!File
      BY <2>1, <3>1, <3>2, <3>3 DEF Promise!File, Answered, Closing
    <3>5. QED
      BY <3>4 DEF Promise!Next
  <2>2. CASE ~client.link
    BY <1>0, <1>3, <2>2, ResetAbandons DEF Subscribe, Throws, End, Promise!Next
  <2>3. QED
    BY <2>1, <2>2
<1>4. CASE Subscribed(t)
  <2>1. CASE client.link
    BY <1>4, <2>1, AnswerPromise DEF Subscribed
  <2>2. CASE ~client.link
    BY <1>0, <1>4, <2>2, ResetAbandons DEF Subscribed, Throws, End, Promise!Next
  <2>3. QED
    BY <2>1, <2>2
<1>5. CASE SetConnected(t)
  <2>1. Handlers = 1 /\ (client.link => Answered(client, Filter))
    BY <1>5 DEF SessionInv, HandlerInv, LinkInv, WithHandlerSteps, SetConnected, At
  <2>2. /\ isConnected' = TRUE /\ client' = client /\ Handlers' = Handlers
        /\ Closing' = Closing
    BY <1>5, <1>g DEF SetConnected, Handlers
  <2>3. Promise!Announce
    BY <2>1, <2>2 DEF Promise!Announce, Answered, Closing
  <2>4. QED
    BY <2>3 DEF Promise!Next
<1>6. QED
  BY <1>1, <1>2, <1>3, <1>4, <1>5 DEF ThreadConnect

\* A step of Disconnect silences the handler, gives up the link or takes back the
\* flag: the timer's handler in this order, a stop also when a refresh has linked
\* and announced again in the meantime.
LEMMA DisconnectPromise ==
  ASSUME SessionInv, NEW t \in {"refresh", "stop"}, ThreadDisconnect(t)
  PROVE  [Promise!Next]_(Promise!vars)
<1>0. /\ t \in Threads /\ client \in ClientType /\ Handlers \in Nat /\ TypeOK
  BY ClientOperations DEF Threads, SessionInv, TypeOK, Handlers
<1>1. pc[t] # "idle"
  BY DEF ThreadDisconnect, NothingToDisconnect, Unsubscribe, Unsubscribed, Unlink,
         ClearConnected, At
<1>g. ASSUME NEW step \in Steps \ {"idle"}, Goto(t, step) PROVE Closing' = Closing
  BY <1>0, <1>1, <1>g, GotoKeepsClosing
<1>s. {"unsubscribing", "unlinking", "disconnected", "connect", "done"}
        \subseteq Steps \ {"idle"}
  BY DEF Steps, DisconnectSteps, ConnectSteps
<1>2. CASE NothingToDisconnect(t)
  <2>1. UNCHANGED <<client, isConnected>> /\ Closing' = Closing
    BY <1>2, <1>g, <1>s DEF NothingToDisconnect, AfterDisconnect
  <2>2. QED
    BY <2>1, Stutters
<1>3. CASE Unsubscribe(t)
  <2>1. CASE client.link \/ t = "stop"
    <3>1. /\ client' = WithoutHandlers(client, Filter) /\ isConnected' = isConnected
          /\ Closing' = Closing
      BY <1>3, <1>g, <1>s, <2>1 DEF Unsubscribe, Throws
    <3>2. /\ client'.link = client.link /\ client'.filters = client.filters
          /\ client'.refused = client.refused
          /\ Handlers' = 0
      BY <1>0, <3>1, ClientOperations DEF Handlers
    <3>3. Promise!Silence
      BY <1>1, <1>3, <2>1, <3>1, <3>2
         DEF Unsubscribe, Promise!Silence, Answered, Closing
    <3>4. QED
      BY <3>3 DEF Promise!Next
  <2>2. CASE ~client.link /\ t # "stop"
    BY <1>3, <2>2, ResetAbandons DEF Unsubscribe, Throws, End, Promise!Next
  <2>3. QED
    BY <2>1, <2>2
<1>4. CASE Unsubscribed(t)
  <2>1. CASE client.link \/ t = "stop"
    <3>1. client' = client /\ isConnected' = isConnected /\ Closing' = Closing
      BY <1>0, <1>4, <1>g, <1>s, <2>1, ClientOperations DEF Unsubscribed, Throws
    <3>2. QED
      BY <3>1, Stutters
  <2>2. CASE ~client.link /\ t # "stop"
    BY <1>4, <2>2, ResetAbandons DEF Unsubscribed, Throws, End, Promise!Next
  <2>3. QED
    BY <2>1, <2>2
<1>5. CASE Unlink(t)
  <2>1. /\ client' = Unlinked(client) /\ isConnected' = isConnected
        /\ Closing' = Closing
    BY <1>5, <1>g, <1>s DEF Unlink
  <2>2. /\ ~client'.link /\ client'.filters = {} /\ client'.refused = {}
        /\ Handlers' = Handlers
    BY <1>0, <2>1 DEF Unlinked, ClientType, Handlers
  <2>3. Promise!Unlink
    BY <2>1, <2>2 DEF Promise!Unlink, Answered, Closing
  <2>4. QED
    BY <2>3 DEF Promise!Next
<1>6. CASE ClearConnected(t)
  <2>1. /\ isConnected' = FALSE /\ client' = client /\ Handlers' = Handlers
        /\ Closing' = Closing
    BY <1>6, <1>g, <1>s DEF ClearConnected, AfterDisconnect, Handlers
  <2>2. Closing \/ (~client.link /\ Handlers = 0)
    <3>1. CASE t = "refresh"
      <4>1. pc["refresh"] = "disconnected"
        BY <1>6, <3>1 DEF ClearConnected, At
      <4>2. QED
        BY <4>1 DEF SessionInv, HandlerInv, LinkInv, Disconnecting, DisconnectSteps
    <3>2. CASE t = "stop"
      BY <1>1, <3>2 DEF Closing
    <3>3. QED
      BY <3>1, <3>2
  <2>3. Promise!Retract
    BY <2>1, <2>2 DEF Promise!Retract, Answered, Closing
  <2>4. QED
    BY <2>3 DEF Promise!Next
<1>7. QED
  BY <1>2, <1>3, <1>4, <1>5, <1>6 DEF ThreadDisconnect

\* Every step of the session is a step of the promise, or changes nothing it names.
LEMMA NextPromise == SessionInv /\ [Next]_vars => [Promise!Next]_(Promise!vars)
<1> SUFFICES ASSUME SessionInv, [Next]_vars
             PROVE  [Promise!Next]_(Promise!vars)
  OBVIOUS
<1>0. /\ TypeOK /\ \A t \in Connectors : t \in Threads /\ t # "stop"
      /\ "refresh" \in Threads /\ "startup" \in Threads /\ "stop" \in Threads
  BY DEF SessionInv, Connectors, Threads
<1>1. CASE ServiceStep \/ UNCHANGED vars
  <2>1. UNCHANGED <<client, isConnected>> /\ Closing' = Closing
    <3>1. CASE StartAsync
      BY <1>0, <3>1, GotoKeepsClosing DEF StartAsync
    <3>2. CASE ArmTimer
      BY <1>0, <3>2, GotoKeepsClosing DEF ArmTimer
    <3>3. CASE RefreshElapsed
      BY <1>0, <3>3, GotoKeepsClosing DEF RefreshElapsed
    <3>4. CASE RefreshReturned
      BY <1>0, <3>4, GotoKeepsClosing DEF RefreshReturned
    <3>5. CASE UNCHANGED vars
      BY <3>5 DEF vars, memory, Closing
    <3>6. QED
      BY <1>1, <3>1, <3>2, <3>3, <3>4, <3>5 DEF ServiceStep
  <2>2. QED
    BY <2>1, Stutters
<1>2. CASE StopAsync
  <2>1. /\ UNCHANGED <<client, isConnected>> /\ pc'["stop"] = "disconnect"
    BY <1>0, <1>2 DEF StopAsync, Goto, TypeOK
  <2>2. Promise!Close
    BY <2>1 DEF Promise!Close, Handlers, Answered
  <2>3. QED
    BY <2>2 DEF Promise!Next
<1>3. ASSUME NEW t \in Connectors, ThreadConnect(t)
      PROVE  [Promise!Next]_(Promise!vars)
  BY <1>3, ConnectPromise
<1>4. ASSUME NEW t \in Connectors, LinkRefused(t)
      PROVE  [Promise!Next]_(Promise!vars)
  <2>1. UNCHANGED <<client, isConnected>> /\ Closing' = Closing
    BY <1>0, <1>4, GotoKeepsClosing DEF LinkRefused
  <2>2. QED
    BY <2>1, Stutters
<1>5. ASSUME NEW t \in Connectors, LinkUnreachable(t)
      PROVE  [Promise!Next]_(Promise!vars)
  BY <1>5, ResetAbandons DEF LinkUnreachable, Promise!Next
<1>6. ASSUME NEW t \in Connectors, SubscriptionRefused(t)
      PROVE  [Promise!Next]_(Promise!vars)
  BY <1>6, AnswerPromise DEF SubscriptionRefused
<1>7. ASSUME NEW t \in {"refresh", "stop"}, ThreadDisconnect(t)
      PROVE  [Promise!Next]_(Promise!vars)
  BY <1>7, DisconnectPromise
<1>8. CASE LinkLost
  <2>1. /\ client' = Unlinked(client) /\ isConnected' = isConnected
        /\ client \in ClientType /\ Closing' = Closing
    BY <1>8 DEF LinkLost, SessionInv, TypeOK, Closing
  <2>2. /\ ~client'.link /\ client'.filters = {} /\ client'.refused = {}
        /\ Handlers' = Handlers
    BY <2>1 DEF Unlinked, ClientType, Handlers
  <2>3. Promise!Unlink
    BY <2>1, <2>2 DEF Promise!Unlink, Answered, Closing
  <2>4. QED
    BY <2>3 DEF Promise!Next
<1>9. CASE ProcessExits \/ Killed \/ Restart \/ Deploy
  BY <1>9, ResetAbandons DEF ProcessExits, End, Killed, Restart, Deploy, Promise!Next
<1>10. QED
  BY <1>1, <1>2, <1>3, <1>4, <1>5, <1>6, <1>7, <1>8, <1>9 DEF Next

\* The session implements Subscription, for every authority id, either
\* configuration and any number of faults.
THEOREM SessionKeepsPromise == Spec => KeepsPromise
<1>1. Init => Promise!Init
  BY InitPromise
<1>2. SessionInv /\ [Next]_vars => [Promise!Next]_(Promise!vars)
  BY NextPromise
<1>3. QED
  BY <1>1, <1>2, SessionSafe, PTL DEF Spec, KeepsPromise, Promise!Spec

-----------------------------------------------------------------------------
(* Access control.                                                         *)

\* The answer, once given, is the decision on the request.
AnswerInv ==
    /\ request \in [claims : AllClaims, acc : 0 .. 4, topic : Requested]
    /\ granted \in {"none", "yes", "no"}
    /\ granted = "yes" => CheckAccessControl(request.claims, request.acc, request.topic)
    /\ granted = "no" => ~CheckAccessControl(request.claims, request.acc, request.topic)

\* The controller answers what the checker decides: AnswerInv is inductive.
THEOREM AnswerIsDecision == AclSpec => []AnswerInv
<1>1. AclInit => AnswerInv
  BY DEF AclInit, AnswerInv
<1>2. AnswerInv /\ [AclNext]_aclVars => AnswerInv'
  BY DEF AnswerInv, AclNext, Check, aclVars
<1>3. QED
  BY <1>1, <1>2, PTL DEF AclSpec

-----------------------------------------------------------------------------
(* Masks.                                                                  *)

Mask(sender, authority, host, agent) == <<sender>> \o authority \o <<host, agent>>

\* The segments of a mask, which has four when the claim is a single segment.
LEMMA MaskSegments ==
    ASSUME NEW s \in Segments, NEW u \in Seq(Segments), NEW h \in Segments, NEW a \in Segments
    PROVE  LET m == Mask(s, u, h, a) IN
           /\ m \in Seq(Segments)
           /\ Len(m) = 4 <=> Len(u) = 1
           /\ Len(u) = 1 => m[1] = s /\ m[2] = u[1] /\ m[3] = h /\ m[4] = a
<1> DEFINE p == <<s>> \o u
           e == <<h, a>>
           m == p \o e
<1>1. /\ p \in Seq(Segments) /\ Len(p) = 1 + Len(u)
      /\ Len(u) = 1 => p[1] = s /\ p[2] = u[1]
  OBVIOUS
<1>2. e \in Seq(Segments) /\ Len(e) = 2 /\ e[1] = h /\ e[2] = a
  OBVIOUS
<1>3. Mask(s, u, h, a) = m
  BY DEF Mask
<1> HIDE DEF p, e
<1>4. /\ m \in Seq(Segments)
      /\ Len(m) = Len(p) + Len(e)
      /\ \A i \in 1 .. Len(p) + Len(e) : m[i] = IF i <= Len(p) THEN p[i] ELSE e[i - Len(p)]
  <2>1. \A v, w \in Seq(Segments) :
          /\ v \o w \in Seq(Segments)
          /\ Len(v \o w) = Len(v) + Len(w)
          /\ \A i \in 1 .. Len(v) + Len(w) : (v \o w)[i] = IF i <= Len(v) THEN v[i] ELSE w[i - Len(v)]
    BY ConcatProperties
  <2>2. QED
    BY <1>1, <1>2, <2>1
<1> HIDE DEF m
<1>5. ASSUME Len(u) = 1 PROVE m[1] = p[1] /\ m[2] = p[2] /\ m[3] = e[1] /\ m[4] = e[2]
  BY <1>1, <1>2, <1>4, <1>5
<1>6. Len(m) = 4 <=> Len(u) = 1
  <2>1. Len(m) = (1 + Len(u)) + 2
    BY <1>1, <1>2, <1>4
  <2>2. Len(u) \in Nat
    OBVIOUS
  <2>3. \A n \in Nat : \A k : k = (1 + n) + 2 => (k = 4 <=> n = 1)
    OBVIOUS
  <2>4. QED
    BY <2>1, <2>2, <2>3, Zenon
<1>7. QED
  BY <1>1, <1>2, <1>3, <1>4, <1>5, <1>6

\* A mask made of the claim compares like its four segments, and fails for a
\* claim of more than one.
LEMMA CheckMaskSegments ==
    ASSUME NEW s \in Segments, NEW u \in Seq(Segments), NEW h \in Segments, NEW a \in Segments,
           NEW t \in Seq(Segments), NEW acc
    PROVE  CheckMask(t, Mask(s, u, h, a), acc) <=>
             /\ Len(t) = 4 /\ Len(u) = 1
             /\ acc = SUBSCRIBE => t[1] = "+"
             /\ acc = WRITE => t[1] = s
             /\ SegmentMatches(u[1], t[2]) /\ SegmentMatches(h, t[3]) /\ SegmentMatches(a, t[4])
<1> DEFINE m == Mask(s, u, h, a)
<1>1. /\ m \in Seq(Segments)
      /\ Len(m) = 4 <=> Len(u) = 1
      /\ Len(u) = 1 => m[1] = s /\ m[2] = u[1] /\ m[3] = h /\ m[4] = a
  BY MaskSegments
<1> HIDE DEF m
<1>2. CheckMask(t, m, acc) <=>
        /\ Len(t) = 4 /\ Len(m) = 4
        /\ acc = SUBSCRIBE => t[1] = "+"
        /\ acc = WRITE => t[1] = m[1]
        /\ SegmentMatches(m[2], t[2]) /\ SegmentMatches(m[3], t[3]) /\ SegmentMatches(m[4], t[4])
  <2>1. 2 .. 4 = {2, 3, 4}
    OBVIOUS
  <2>2. (\A i \in 2 .. 4 : SegmentMatches(m[i], t[i])) <=>
          SegmentMatches(m[2], t[2]) /\ SegmentMatches(m[3], t[3]) /\ SegmentMatches(m[4], t[4])
    BY <2>1
  <2>3. QED
    BY <2>2 DEF CheckMask, IsValidTopicAndMask, SenderMatches
<1>3. QED
  BY <1>1, <1>2 DEF m

\* A query mask asks only for the segments it has "?" for.
LEMMA CheckQueryMaskSegments ==
    ASSUME NEW s \in Segments, NEW u \in Seq(Segments), NEW h \in Segments, NEW a \in Segments,
           NEW t \in Seq(Segments), NEW host, NEW acc
    PROVE  CheckQueryMask(t, Mask(s, u, h, a), host, acc) <=>
             /\ Len(t) = 4 /\ Len(u) = 1
             /\ "?" \in {s, u[1], h, a}
             /\ Asked(s, t[1]) # "-"
             /\ Asked(a, t[4]) # "-"
             /\ acc = WRITE => Asked(s, t[1]) # Asked(a, t[4])
<1> DEFINE m == Mask(s, u, h, a)
<1>1. /\ m \in Seq(Segments)
      /\ Len(m) = 4 <=> Len(u) = 1
      /\ Len(u) = 1 => m[1] = s /\ m[2] = u[1] /\ m[3] = h /\ m[4] = a
  BY MaskSegments
<1> HIDE DEF m
<1>2. ASSUME Len(m) = 4 PROVE {m[i] : i \in DOMAIN m} = {m[1], m[2], m[3], m[4]}
  <2>1. DOMAIN m = 1 .. 4
    BY <1>1, <1>2
  <2>2. 1 .. 4 = {1, 2, 3, 4}
    OBVIOUS
  <2>3. QED
    BY <2>1, <2>2
<1>3. CheckQueryMask(t, m, host, acc) <=>
        /\ "?" \in {m[i] : i \in DOMAIN m}
        /\ Len(t) = 4 /\ Len(m) = 4
        /\ Asked(m[1], t[1]) # "-"
        /\ Asked(m[4], t[4]) # "-"
        /\ acc = WRITE => Asked(m[1], t[1]) # Asked(m[4], t[4])
  BY DEF CheckQueryMask, IsValidTopicAndMask, Verified
<1>4. QED
  BY <1>1, <1>2, <1>3 DEF m

\* The masks of a host, by kind of access.
LEMMA HostMasks ==
    ASSUME NEW h, NEW u, NEW acc
    PROVE  GetUserMasks(acc, HostClaims(h, u)) =
             (IF acc \in {READ, SUBSCRIBE}
              THEN {Mask("-", u, "0", "-"), Mask("-", u, h, "-"), Mask("-", u, h, "?"), Mask("*", u, "-", "?")}
              ELSE {})
             \cup (IF acc = WRITE
                   THEN {Mask(h, u, "-", "-"), Mask("?", u, "-", "-"), Mask("?", u, "-", "?")}
                   ELSE {})
BY DEF GetUserMasks, HostClaims, Mask

\* The masks of the authority.
LEMMA AuthorityMasks ==
    ASSUME NEW acc
    PROVE  GetUserMasks(acc, AuthorityClaims) =
             (IF acc \in {READ, SUBSCRIBE} THEN {Mask("*", <<AuthorityId>>, "-", "-")} ELSE {})
             \cup (IF acc = WRITE THEN {Mask("-", <<AuthorityId>>, "+", "+")} ELSE {})
BY DEF GetUserMasks, AuthorityClaims, Mask

\* An event of four levels is decided by the masks.
LEMMA EventDecision ==
    ASSUME NEW claims, NEW acc \in 0 .. 4, NEW s, NEW u, NEW h, NEW a
    PROVE  CheckAccessControl(claims, acc, <<"event", s, u, h, a>>)
             <=> /\ acc \notin {0, READ_WRITE}
                 /\ IsTopicAllowed(<<s, u, h, a>>, GetUserMasks(acc, claims), claims.host, acc)
<1>1. Tail(<<"event", s, u, h, a>>) = <<s, u, h, a>>
  OBVIOUS
<1>2. QED
  BY <1>1 DEF CheckAccessControl

-----------------------------------------------------------------------------
(* Nobody poses.                                                           *)

\* Ids differ from the segments masks are made with.
LEMMA Ids ==
    /\ {"", "-", "0", "*", "+", "?"} \subseteq Segments
    /\ \A x \in {AuthorityId} \cup Hosts \cup Agents :
          x \in Segments /\ x \notin {"", "-", "0", "*", "+", "?"}
BY AclIdsAssumption DEF Reserved

\* A claim of one segment has none that masks ask for: it is the id.
LEMMA Claims ==
    ASSUME NEW u \in HostAuthorityIds
    PROVE  u \in Seq(Segments) /\ (Len(u) = 1 => u[1] # "?") /\ (u # <<AuthorityId>> => Len(u) # 1)
<1>1. u \in Seq(Segments) /\ \A i \in DOMAIN u : u[i] # "?"
  BY HostAuthorityIdsAssumption
<1>2. Len(u) = 1 => 1 \in DOMAIN u
  BY <1>1
<1>3. u # <<AuthorityId>> => Len(u) # 1
  BY HostAuthorityIdsAssumption
<1>4. QED
  BY <1>1, <1>2, <1>3

\* A mask whose sender is an id, or any, does not let anyone write in the name "-".
LEMMA NamedMasksFail ==
    ASSUME NEW t \in Seq(Segments), t[1] = "-", NEW acc, acc = WRITE,
           NEW s \in Segments \ {"-"}, NEW u \in Seq(Segments), NEW x \in Segments,
           NEW a \in Segments, s = "?" \/ a # "?"
    PROVE  /\ ~CheckMask(t, Mask(s, u, x, a), acc)
           /\ \A host : ~CheckQueryMask(t, Mask(s, u, x, a), host, acc)
<1>1. ~CheckMask(t, Mask(s, u, x, a), acc)
  BY CheckMaskSegments
<1>2. ASSUME NEW host, CheckQueryMask(t, Mask(s, u, x, a), host, acc) PROVE FALSE
  <2>1. Asked(s, t[1]) # "-" /\ Asked(s, t[1]) # Asked(a, t[4])
    BY <1>2, CheckQueryMaskSegments
  <2>2. QED
    BY <2>1 DEF Asked
<1>3. QED
  BY <1>1, <1>2

\* No mask of a host lets it write in the name "-": its own name is another, and
\* where any name may stand, "-" may not.
LEMMA HostDoesNotPose ==
    ASSUME NEW h \in Hosts, NEW u \in HostAuthorityIds, NEW t \in Seq(Segments), t[1] = "-"
    PROVE  ~IsTopicAllowed(t, GetUserMasks(WRITE, HostClaims(h, u)), h, WRITE)
<1>1. /\ \A x \in {h, "?"} : x \in Segments \ {"-"}
      /\ \A x \in {"-", "?"} : x \in Segments
      /\ u \in Seq(Segments)
  BY Ids, Claims
<1>2. ASSUME NEW m \in GetUserMasks(WRITE, HostClaims(h, u))
      PROVE  m = Mask(h, u, "-", "-") \/ m = Mask("?", u, "-", "-") \/ m = Mask("?", u, "-", "?")
  BY <1>2, HostMasks DEF READ, WRITE, SUBSCRIBE
<1>3. ASSUME NEW m \in GetUserMasks(WRITE, HostClaims(h, u))
      PROVE  ~CheckMask(t, m, WRITE) /\ ~CheckQueryMask(t, m, h, WRITE)
  <2>1. CASE m = Mask(h, u, "-", "-")
    BY <1>1, <2>1, NamedMasksFail
  <2>2. CASE m = Mask("?", u, "-", "-")
    BY <1>1, <2>2, NamedMasksFail
  <2>3. CASE m = Mask("?", u, "-", "?")
    BY <1>1, <2>3, NamedMasksFail
  <2>4. QED
    BY <1>2, <1>3, <2>1, <2>2, <2>3
<1>4. QED
  BY <1>3 DEF IsTopicAllowed

\* A mask that names another host, or no host, does not match the topic of a host;
\* and nobody's query mask asks for a message that is for no agent.
LEMMA OtherMasksFail ==
    ASSUME NEW h \in Hosts, NEW t \in Seq(Segments), t[3] = h, t[4] = "-", NEW acc,
           NEW s \in Segments \ {"?"}, NEW u \in Seq(Segments), Len(u) = 1 => u[1] # "?",
           NEW x \in Segments \ {"?", "+", "*"}, NEW a \in Segments
    PROVE  /\ CheckMask(t, Mask(s, u, x, a), acc) => x = h
           /\ \A host : ~CheckQueryMask(t, Mask(s, u, x, a), host, acc)
<1>1. ASSUME CheckMask(t, Mask(s, u, x, a), acc) PROVE x = h
  <2>1. SegmentMatches(x, t[3])
    BY <1>1, CheckMaskSegments
  <2>2. QED
    BY <2>1 DEF SegmentMatches
<1>2. ASSUME NEW host, CheckQueryMask(t, Mask(s, u, x, a), host, acc) PROVE FALSE
  <2>1. Len(u) = 1 /\ "?" \in {s, u[1], x, a} /\ Asked(a, t[4]) # "-"
    BY <1>2, CheckQueryMaskSegments
  <2>2. a = "?"
    BY <2>1
  <2>3. QED
    BY <2>1, <2>2 DEF Asked
<1>3. QED
  BY <1>1, <1>2

\* Who may hear the topic of a host, with any token, is that host.
LEMMA OnlyItsHostHears ==
    ASSUME NEW h \in Hosts, NEW t \in Seq(Segments), t[3] = h, t[4] = "-",
           NEW claims \in AllClaims, NEW acc \in {READ, SUBSCRIBE},
           IsTopicAllowed(t, GetUserMasks(acc, claims), claims.host, acc)
    PROVE  claims.host = h
<1>1. /\ \A x \in {"-", "0", "*", "?"} : x \in Segments
      /\ \A x \in {"-", "0"} : x \in Segments \ {"?", "+", "*"} /\ x # h
      /\ \A x \in {"-", "*"} : x \in Segments \ {"?"}
  BY Ids
<1>2. acc # WRITE
  BY DEF READ, WRITE, SUBSCRIBE
<1>3. PICK m \in GetUserMasks(acc, claims) :
        CheckMask(t, m, acc) \/ CheckQueryMask(t, m, claims.host, acc)
  BY DEF IsTopicAllowed
<1>4. ASSUME claims = AuthorityClaims PROVE FALSE
  <2>1. m = Mask("*", <<AuthorityId>>, "-", "-")
    BY <1>2, <1>3, <1>4, AuthorityMasks
  <2>2. <<AuthorityId>> \in Seq(Segments) /\ <<AuthorityId>>[1] # "?"
    <3>1. AuthorityId \in Segments /\ AuthorityId # "?"
      BY Ids
    <3>2. QED
      BY <3>1
  <2>3. QED
    BY <1>1, <1>3, <2>1, <2>2, OtherMasksFail
<1>5. ASSUME NEW g \in Hosts, NEW u \in HostAuthorityIds, claims = HostClaims(g, u)
      PROVE  g = h
  <2>1. \/ m = Mask("-", u, "0", "-") \/ m = Mask("-", u, g, "-")
        \/ m = Mask("-", u, g, "?") \/ m = Mask("*", u, "-", "?")
    BY <1>2, <1>3, <1>5, HostMasks
  <2>2. u \in Seq(Segments) /\ (Len(u) = 1 => u[1] # "?")
    BY Claims
  <2>3. g \in Segments \ {"?", "+", "*"}
    BY Ids
  <2>4. CASE m = Mask("-", u, "0", "-")
    BY <1>1, <1>3, <2>2, <2>4, OtherMasksFail
  <2>5. CASE m = Mask("-", u, g, "-")
    BY <1>1, <1>3, <2>2, <2>3, <2>5, OtherMasksFail
  <2>6. CASE m = Mask("-", u, g, "?")
    BY <1>1, <1>3, <2>2, <2>3, <2>6, OtherMasksFail
  <2>7. CASE m = Mask("*", u, "-", "?")
    BY <1>1, <1>3, <2>2, <2>7, OtherMasksFail
  <2>8. QED
    BY <2>1, <2>4, <2>5, <2>6, <2>7
<1>6. QED
  BY <1>4, <1>5 DEF AllClaims, HostClaims

\* Nobody but the authority writes as "-", and nobody but a host hears what is sent
\* to it: the answer to a request is a decision, and the decisions are so.
THEOREM NobodyIsGrantedToPose == AclSpec => []NobodyPoses
<1>1. AnswerInv => SenderIsHonest
  <2> SUFFICES ASSUME AnswerInv, granted = "yes", request.acc = WRITE,
                      request.topic[1] = "event", request.topic[2] = "-",
                      "authority" \notin request.claims.roles
               PROVE  FALSE
    BY DEF SenderIsHonest
  <2>1. PICK h \in Hosts, u \in HostAuthorityIds : request.claims = HostClaims(h, u)
    <3>1. request.claims \in AllClaims
      BY DEF AnswerInv
    <3>2. "authority" \in AuthorityClaims.roles
      BY DEF AuthorityClaims
    <3>3. QED
      BY <3>1, <3>2 DEF AllClaims
  <2>2. request.topic \in Seq(Segments) \ {<<>>}
    BY RequestedAssumption DEF AnswerInv
  <2> DEFINE t == Tail(request.topic)
  <2>3. t \in Seq(Segments)
    BY <2>2
  <2>4. IsTopicAllowed(t, GetUserMasks(WRITE, HostClaims(h, u)), h, WRITE)
    BY <2>1 DEF AnswerInv, CheckAccessControl, HostClaims
  <2>5. Len(t) = 4 => t[1] = "-"
    BY <2>2
  <2>6. Len(t) = 4
    BY <2>4 DEF IsTopicAllowed, CheckMask, CheckQueryMask, IsValidTopicAndMask
  <2> HIDE DEF t
  <2>7. QED
    BY <2>3, <2>4, <2>5, <2>6, HostDoesNotPose
<1>2. AnswerInv => HostsApart
  <2> SUFFICES ASSUME AnswerInv, NEW h \in Hosts, granted = "yes",
                      request.acc \in {READ, SUBSCRIBE},
                      request.topic \in {PublishToHost(AuthorityId, AuthorityId, h), SubscribeAsHost(AuthorityId, h)}
               PROVE  request.claims.host = h
    BY DEF HostsApart
  <2>1. PICK s \in {"-", "+"} : request.topic = <<"event", s, AuthorityId, h, "-">>
    <3>1. h # AuthorityId
      BY AclIdsAssumption
    <3>2. QED
      BY <3>1 DEF PublishToHost, SubscribeAsHost, SenderSegment, PublishTo, SubscribeAs
  <2> DEFINE t == <<s, AuthorityId, h, "-">>
  <2>2. IsTopicAllowed(t, GetUserMasks(request.acc, request.claims), request.claims.host, request.acc)
    BY <2>1, EventDecision DEF AnswerInv
  <2>3. t \in Seq(Segments) /\ t[3] = h /\ t[4] = "-"
    <3>1. s \in Segments /\ AuthorityId \in Segments /\ h \in Segments /\ "-" \in Segments
      BY Ids
    <3>2. QED
      BY <3>1
  <2>4. request.claims \in AllClaims
    BY DEF AnswerInv
  <2> HIDE DEF t
  <2>5. QED
    BY <2>2, <2>3, <2>4, OnlyItsHostHears
<1>3. QED
  BY <1>1, <1>2, AnswerIsDecision, PTL DEF NobodyPoses

-----------------------------------------------------------------------------
(* The SDK is granted what it does.                                        *)

\* An event is granted when one mask of the token allows its levels.
LEMMA MaskGrants ==
    ASSUME NEW claims, NEW acc \in {READ, WRITE, SUBSCRIBE},
           NEW s \in Segments, NEW u \in Segments, NEW h \in Segments, NEW a \in Segments,
           NEW m \in GetUserMasks(acc, claims),
           \/ CheckMask(<<s, u, h, a>>, m, acc)
           \/ CheckQueryMask(<<s, u, h, a>>, m, claims.host, acc)
    PROVE  CheckAccessControl(claims, acc, <<"event", s, u, h, a>>)
<1>1. acc \in 0 .. 4 /\ acc \notin {0, READ_WRITE}
  BY DEF READ, WRITE, SUBSCRIBE, READ_WRITE
<1>2. QED
  BY <1>1, EventDecision DEF IsTopicAllowed

\* When a mask of the authority's id allows a topic of that id.
LEMMA OwnMasks ==
    ASSUME NEW u \in Segments, NEW acc,
           NEW s \in Segments, NEW h \in Segments, NEW a \in Segments,
           NEW ms \in Segments, NEW mh \in Segments, NEW ma \in Segments
    PROVE  /\ (/\ acc = SUBSCRIBE => s = "+"
               /\ acc = WRITE => s = ms
               /\ SegmentMatches(mh, h) /\ SegmentMatches(ma, a))
              => CheckMask(<<s, u, h, a>>, Mask(ms, <<u>>, mh, ma), acc)
           /\ (/\ "?" \in {ms, ma}
               /\ Asked(ms, s) # "-" /\ Asked(ma, a) # "-"
               /\ acc = WRITE => Asked(ms, s) # Asked(ma, a))
              => \A host : CheckQueryMask(<<s, u, h, a>>, Mask(ms, <<u>>, mh, ma), host, acc)
<1> DEFINE t == <<s, u, h, a>>
           v == <<u>>
<1>1. /\ t \in Seq(Segments) /\ Len(t) = 4
      /\ t[1] = s /\ t[2] = u /\ t[3] = h /\ t[4] = a
  OBVIOUS
<1>2. v \in Seq(Segments) /\ Len(v) = 1 /\ v[1] = u
  OBVIOUS
<1>3. SegmentMatches(u, u)
  <2>1. u \in {"+", u}
    OBVIOUS
  <2>2. QED
    BY <2>1 DEF SegmentMatches
<1> HIDE DEF t, v
<1>4. (/\ acc = SUBSCRIBE => s = "+"
       /\ acc = WRITE => s = ms
       /\ SegmentMatches(mh, h) /\ SegmentMatches(ma, a))
      => CheckMask(t, Mask(ms, v, mh, ma), acc)
  <2>1. CheckMask(t, Mask(ms, v, mh, ma), acc) <=>
          /\ Len(t) = 4 /\ Len(v) = 1
          /\ acc = SUBSCRIBE => t[1] = "+"
          /\ acc = WRITE => t[1] = ms
          /\ SegmentMatches(v[1], t[2]) /\ SegmentMatches(mh, t[3]) /\ SegmentMatches(ma, t[4])
    <3>1. t \in Seq(Segments) /\ v \in Seq(Segments)
      BY <1>1, <1>2
    <3>2. QED
      BY <3>1, CheckMaskSegments
  <2>2. QED
    BY <1>1, <1>2, <1>3, <2>1
<1>5. (/\ "?" \in {ms, ma}
       /\ Asked(ms, s) # "-" /\ Asked(ma, a) # "-"
       /\ acc = WRITE => Asked(ms, s) # Asked(ma, a))
      => \A host : CheckQueryMask(t, Mask(ms, v, mh, ma), host, acc)
  <2>1. ASSUME NEW host
        PROVE  CheckQueryMask(t, Mask(ms, v, mh, ma), host, acc) <=>
                 /\ "?" \in {ms, v[1], mh, ma}
                 /\ Asked(ms, t[1]) # "-"
                 /\ Asked(ma, t[4]) # "-"
                 /\ acc = WRITE => Asked(ms, t[1]) # Asked(ma, t[4])
    BY <1>1, <1>2, CheckQueryMaskSegments
  <2>2. QED
    BY <1>1, <2>1
<1>6. QED
  BY <1>4, <1>5 DEF t, v

\* What segments of masks match, and what they ask for.
LEMMA Matching ==
    /\ \A v : SegmentMatches("-", "-") /\ SegmentMatches("+", v) /\ SegmentMatches(v, v)
    /\ \A v, own : own # "?" => Asked(own, v) = ""
    /\ \A v : Asked("?", v) = v
BY DEF SegmentMatches, Asked

\* The requests of the authority fall under its two masks.
LEMMA AuthorityIsGranted ==
    ASSUME NEW acc, NEW topic, <<acc, topic>> \in SdkRequests(AuthorityClaims)
    PROVE  CheckAccessControl(AuthorityClaims, acc, topic)
<1> DEFINE u == AuthorityId
           Granted(c, t) == CheckAccessControl(AuthorityClaims, c, t)
<1>1. /\ \A x \in {"-", "+", "*"} \cup {AuthorityId} \cup Hosts \cup Agents : x \in Segments
      /\ \A x \in Hosts \cup Agents : x # AuthorityId
  BY Ids, AclIdsAssumption
<1>2. /\ Mask("*", <<u>>, "-", "-") \in GetUserMasks(READ, AuthorityClaims)
      /\ Mask("*", <<u>>, "-", "-") \in GetUserMasks(SUBSCRIBE, AuthorityClaims)
      /\ Mask("-", <<u>>, "+", "+") \in GetUserMasks(WRITE, AuthorityClaims)
  BY AuthorityMasks DEF READ, WRITE, SUBSCRIBE
<1>3. READ # WRITE /\ READ # SUBSCRIBE /\ WRITE # SUBSCRIBE
  BY DEF READ, WRITE, SUBSCRIBE
<1>4. ASSUME NEW s \in Segments, NEW c \in {READ, SUBSCRIBE}, c = SUBSCRIBE => s = "+"
      PROVE  Granted(c, <<"event", s, u, "-", "-">>)
  <2>1. CheckMask(<<s, u, "-", "-">>, Mask("*", <<u>>, "-", "-"), c)
    BY <1>1, <1>3, <1>4, OwnMasks, Matching
  <2>2. QED
    BY <1>1, <1>2, <2>1, MaskGrants
<1>5. ASSUME NEW h \in Segments, NEW a \in Segments
      PROVE  Granted(WRITE, <<"event", "-", u, h, a>>)
  <2>1. CheckMask(<<"-", u, h, a>>, Mask("-", <<u>>, "+", "+"), WRITE)
    BY <1>1, <1>3, OwnMasks, Matching
  <2>2. QED
    BY <1>1, <1>2, <2>1, MaskGrants
<1>6. CASE <<acc, topic>> = <<SUBSCRIBE, SubscribeAsAuthority(AuthorityId)>>
  BY <1>1, <1>4, <1>6 DEF SubscribeAsAuthority, SubscribeAs
<1>7. ASSUME NEW x \in Hosts \cup Agents, <<acc, topic>> = <<READ, PublishToAuthority(AuthorityId, x)>>
      PROVE  Granted(acc, topic)
  BY <1>1, <1>3, <1>4, <1>7 DEF PublishToAuthority, PublishTo, SenderSegment
<1>8. ASSUME NEW h \in Hosts, <<acc, topic>> = <<WRITE, PublishToHost(AuthorityId, AuthorityId, h)>>
      PROVE  Granted(acc, topic)
  BY <1>1, <1>5, <1>8 DEF PublishToHost, PublishTo, SenderSegment
<1>9. ASSUME NEW a \in Agents, <<acc, topic>> = <<WRITE, PublishToAgent(AuthorityId, AuthorityId, a)>>
      PROVE  Granted(acc, topic)
  BY <1>1, <1>5, <1>9 DEF PublishToAgent, PublishTo, SenderSegment
<1>10. QED
  BY <1>6, <1>7, <1>8, <1>9 DEF SdkRequests

\* The requests of a host and its agents fall under the host's masks.
LEMMA HostIsGranted ==
    ASSUME NEW h \in Hosts, NEW acc, NEW topic,
           <<acc, topic>> \in SdkRequests(HostClaims(h, <<AuthorityId>>))
    PROVE  CheckAccessControl(HostClaims(h, <<AuthorityId>>), acc, topic)
<1> DEFINE u == AuthorityId
           claims == HostClaims(h, <<u>>)
           Granted(c, t) == CheckAccessControl(claims, c, t)
<1>1. /\ \A x \in {"-", "+", "*", "?"} \cup {AuthorityId} \cup Hosts \cup Agents : x \in Segments
      /\ \A x \in Hosts \cup Agents : x # AuthorityId
      /\ \A x \in Hosts \cup Agents : x \notin {"", "-"}
  BY Ids, AclIdsAssumption
<1>2. /\ \A c \in {READ, SUBSCRIBE} : /\ Mask("-", <<u>>, h, "-") \in GetUserMasks(c, claims)
                                      /\ Mask("*", <<u>>, "-", "?") \in GetUserMasks(c, claims)
      /\ Mask(h, <<u>>, "-", "-") \in GetUserMasks(WRITE, claims)
      /\ Mask("?", <<u>>, "-", "-") \in GetUserMasks(WRITE, claims)
      /\ Mask("?", <<u>>, "-", "?") \in GetUserMasks(WRITE, claims)
  BY HostMasks DEF READ, WRITE, SUBSCRIBE
<1>3. READ # WRITE /\ READ # SUBSCRIBE /\ WRITE # SUBSCRIBE
  BY DEF READ, WRITE, SUBSCRIBE
<1>4. claims # AuthorityClaims /\ claims.host = h
  <2>1. "authority" \in AuthorityClaims.roles /\ "authority" \notin claims.roles
    BY DEF AuthorityClaims, HostClaims
  <2>2. QED
    BY <2>1 DEF HostClaims
<1> HIDE DEF claims
<1>5. ASSUME NEW s \in Segments, NEW c \in {READ, SUBSCRIBE}, c = SUBSCRIBE => s = "+"
      PROVE  Granted(c, <<"event", s, u, h, "-">>)
  <2>1. CheckMask(<<s, u, h, "-">>, Mask("-", <<u>>, h, "-"), c)
    BY <1>1, <1>3, <1>5, OwnMasks, Matching
  <2>2. Mask("-", <<u>>, h, "-") \in GetUserMasks(c, claims) /\ c \in {READ, WRITE, SUBSCRIBE}
    BY <1>2
  <2>3. QED
    BY <1>1, <2>1, <2>2, MaskGrants
<1>6. ASSUME NEW s \in Segments, NEW a \in Agents, NEW c \in {READ, SUBSCRIBE}
      PROVE  Granted(c, <<"event", s, u, "-", a>>)
  <2>1. Asked("*", s) = "" /\ Asked("?", a) = a
    BY Matching
  <2>2. CheckQueryMask(<<s, u, "-", a>>, Mask("*", <<u>>, "-", "?"), claims.host, c)
    BY <1>1, <1>3, <2>1, OwnMasks
  <2>3. Mask("*", <<u>>, "-", "?") \in GetUserMasks(c, claims) /\ c \in {READ, WRITE, SUBSCRIBE}
    BY <1>2
  <2>4. QED
    BY <1>1, <2>2, <2>3, MaskGrants
<1>7. Granted(WRITE, <<"event", h, u, "-", "-">>)
  <2>1. CheckMask(<<h, u, "-", "-">>, Mask(h, <<u>>, "-", "-"), WRITE)
    BY <1>1, <1>3, OwnMasks, Matching
  <2>2. QED
    BY <1>1, <1>2, <2>1, MaskGrants
<1>8. ASSUME NEW a \in Agents PROVE Granted(WRITE, <<"event", a, u, "-", "-">>)
  <2>1. Asked("?", a) = a /\ Asked("-", "-") = ""
    BY Matching
  <2>2. CheckQueryMask(<<a, u, "-", "-">>, Mask("?", <<u>>, "-", "-"), claims.host, WRITE)
    BY <1>1, <2>1, OwnMasks
  <2>3. QED
    BY <1>1, <1>2, <2>2, MaskGrants
<1>9. ASSUME NEW a \in Agents, NEW b \in Agents, a # b
      PROVE  Granted(WRITE, <<"event", a, u, "-", b>>)
  <2>1. Asked("?", a) = a /\ Asked("?", b) = b
    BY Matching
  <2>2. CheckQueryMask(<<a, u, "-", b>>, Mask("?", <<u>>, "-", "?"), claims.host, WRITE)
    BY <1>1, <1>9, <2>1, OwnMasks
  <2>3. QED
    BY <1>1, <1>2, <2>2, MaskGrants
<1>10. CASE \/ <<acc, topic>> = <<SUBSCRIBE, SubscribeAsHost(AuthorityId, h)>>
            \/ <<acc, topic>> = <<READ, PublishToHost(AuthorityId, AuthorityId, h)>>
  BY <1>1, <1>3, <1>5, <1>10
     DEF claims, SubscribeAsHost, SubscribeAs, PublishToHost, PublishTo, SenderSegment
<1>11. CASE <<acc, topic>> = <<WRITE, PublishToAuthority(AuthorityId, h)>>
  BY <1>1, <1>7, <1>11 DEF claims, PublishToAuthority, PublishTo, SenderSegment
<1>12. ASSUME NEW a \in Agents,
              \/ <<acc, topic>> = <<SUBSCRIBE, SubscribeAsAgent(AuthorityId, a)>>
              \/ <<acc, topic>> = <<READ, PublishToAgent(AuthorityId, AuthorityId, a)>>
       PROVE  Granted(acc, topic)
  BY <1>1, <1>6, <1>12
     DEF SubscribeAsAgent, SubscribeAs, PublishToAgent, PublishTo, SenderSegment
<1>13. ASSUME NEW a \in Agents, <<acc, topic>> = <<WRITE, PublishToAuthority(AuthorityId, a)>>
       PROVE  Granted(acc, topic)
  BY <1>1, <1>8, <1>13 DEF PublishToAuthority, PublishTo, SenderSegment
<1>14. ASSUME NEW a \in Agents, NEW b \in Agents, a # b,
              <<acc, topic>> = <<WRITE, PublishToAgent(AuthorityId, a, b)>>
       PROVE  Granted(acc, topic)
  BY <1>1, <1>9, <1>14 DEF PublishToAgent, PublishTo, SenderSegment
<1>15. QED
  <2>1. SdkRequests(claims) =
          {<<SUBSCRIBE, SubscribeAsHost(AuthorityId, h)>>,
           <<READ, PublishToHost(AuthorityId, AuthorityId, h)>>,
           <<WRITE, PublishToAuthority(AuthorityId, h)>>}
            \cup {<<SUBSCRIBE, SubscribeAsAgent(AuthorityId, a)>> : a \in Agents}
            \cup {<<READ, PublishToAgent(AuthorityId, AuthorityId, a)>> : a \in Agents}
            \cup {<<WRITE, PublishToAuthority(AuthorityId, a)>> : a \in Agents}
            \cup {<<WRITE, PublishToAgent(AuthorityId, p[1], p[2])>> :
                    p \in {q \in Agents \X Agents : q[1] # q[2]}}
    BY <1>4 DEF SdkRequests
  <2>2. <<acc, topic>> \in SdkRequests(claims)
    BY DEF claims
  <2>3. CASE <<acc, topic>> \in {<<SUBSCRIBE, SubscribeAsHost(AuthorityId, h)>>,
                                 <<READ, PublishToHost(AuthorityId, AuthorityId, h)>>,
                                 <<WRITE, PublishToAuthority(AuthorityId, h)>>}
    BY <1>10, <1>11, <2>3 DEF claims
  <2>4. CASE <<acc, topic>> \in {<<SUBSCRIBE, SubscribeAsAgent(AuthorityId, a)>> : a \in Agents}
                         \cup {<<READ, PublishToAgent(AuthorityId, AuthorityId, a)>> : a \in Agents}
    BY <1>12, <2>4 DEF claims
  <2>5. CASE <<acc, topic>> \in {<<WRITE, PublishToAuthority(AuthorityId, a)>> : a \in Agents}
    BY <1>13, <2>5 DEF claims
  <2>6. CASE <<acc, topic>> \in {<<WRITE, PublishToAgent(AuthorityId, p[1], p[2])>> :
                                   p \in {q \in Agents \X Agents : q[1] # q[2]}}
    BY <1>14, <2>6 DEF claims
  <2>7. QED
    BY <2>1, <2>2, <2>3, <2>4, <2>5, <2>6

\* A claim that is not one segment makes masks of another length than any event has:
\* a host with such a token is refused every event.
LEMMA HostIsRefused ==
    ASSUME NEW h \in Hosts, NEW u \in HostAuthorityIds, u # <<AuthorityId>>,
           NEW acc, NEW t \in Seq(Segments)
    PROVE  ~IsTopicAllowed(t, GetUserMasks(acc, HostClaims(h, u)), h, acc)
<1>1. u \in Seq(Segments) /\ Len(u) # 1
  BY Claims
<1>2. \A x \in {"-", "0", "*", "?", h} : x \in Segments
  BY Ids
<1>3. ASSUME NEW s \in Segments, NEW x \in Segments, NEW a \in Segments
      PROVE  /\ ~CheckMask(t, Mask(s, u, x, a), acc)
             /\ ~CheckQueryMask(t, Mask(s, u, x, a), h, acc)
  BY <1>1, CheckMaskSegments, CheckQueryMaskSegments
<1>4. ASSUME NEW m \in GetUserMasks(acc, HostClaims(h, u))
      PROVE  \E s \in Segments, x \in Segments, a \in Segments : m = Mask(s, u, x, a)
  BY <1>2, <1>4, HostMasks
<1>5. QED
  BY <1>3, <1>4 DEF IsTopicAllowed

\* Everything the SDK does with the token of a host is about events.
LEMMA HostRequestsAreEvents ==
    ASSUME NEW h \in Hosts, NEW u, NEW acc, NEW topic,
           <<acc, topic>> \in SdkRequests(HostClaims(h, u))
    PROVE  topic[1] = "event"
<1>1. HostClaims(h, u) # AuthorityClaims
  <2>1. "authority" \in AuthorityClaims.roles /\ "authority" \notin HostClaims(h, u).roles
    BY DEF AuthorityClaims, HostClaims
  <2>2. QED
    BY <2>1
<1>2. QED
  BY <1>1 DEF SdkRequests, SubscribeAsHost, SubscribeAsAgent, SubscribeAs, PublishToHost,
              PublishToAgent, PublishToAuthority, PublishTo

\* TopicGenerator and MessageAclChecker agree for every id, and for the id only: a token
\* is granted what the SDK does with it when its authority_id is the one of the topics,
\* and refused all of it when it is a URI.
THEOREM WhatTheSdkDoesNeedsTheId == AclSpec => []SdkNeedsTheId
<1>1. AnswerInv => SdkNeedsTheId
  <2> SUFFICES ASSUME AnswerInv, granted # "none",
                      <<request.acc, request.topic>> \in SdkRequests(request.claims)
               PROVE  granted = "yes" <=> request.claims.authority = <<AuthorityId>>
    BY DEF SdkNeedsTheId
  <2>1. granted = "yes" <=> CheckAccessControl(request.claims, request.acc, request.topic)
    BY DEF AnswerInv
  <2>2. request.claims \in AllClaims /\ request.topic \in Seq(Segments) \ {<<>>}
    BY RequestedAssumption DEF AnswerInv
  <2>3. CASE request.claims = AuthorityClaims
    <3>1. AuthorityClaims.authority = <<AuthorityId>>
      BY DEF AuthorityClaims
    <3>2. QED
      BY <2>1, <2>3, <3>1, AuthorityIsGranted
  <2>4. ASSUME NEW h \in Hosts, NEW u \in HostAuthorityIds, request.claims = HostClaims(h, u)
        PROVE  granted = "yes" <=> request.claims.authority = <<AuthorityId>>
    <3>1. request.claims.authority = u /\ request.claims.host = h
      BY <2>4 DEF HostClaims
    <3>2. CASE u = <<AuthorityId>>
      BY <2>1, <2>4, <3>1, <3>2, HostIsGranted
    <3>3. CASE u # <<AuthorityId>>
      <4>1. request.topic[1] = "event"
        BY <2>4, HostRequestsAreEvents
      <4>2. Tail(request.topic) \in Seq(Segments)
        BY <2>2
      <4>3. ~CheckAccessControl(request.claims, request.acc, request.topic)
        BY <2>4, <3>1, <3>3, <4>1, <4>2, HostIsRefused DEF CheckAccessControl
      <4>4. QED
        BY <2>1, <3>1, <3>3, <4>3
    <3>4. QED
      BY <3>2, <3>3
  <2>5. QED
    BY <2>2, <2>3, <2>4 DEF AllClaims
<1>2. QED
  BY <1>1, AnswerIsDecision, PTL

-----------------------------------------------------------------------------
(* The credentials: numbers and sequences.                                 *)

\* Min picks the least member of a set of naturals.
LEMMA MinIsMember ==
    ASSUME NEW I \in SUBSET Nat, I # {}
    PROVE  Min(I) \in I /\ \A y \in I : Min(I) <= y
<1>1. PICK x \in I : \A y \in I : ~(<<y, x>> \in OpToRel(<, Nat))
  BY NatLessThanWellFounded, WFMin
<1>2. \A y \in I : x <= y
  <2>1. \A n, k \in Nat : n < k => <<n, k>> \in OpToRel(<, Nat)
    BY DEF OpToRel
  <2>2. \A y \in I : ~(y < x)
    BY <1>1, <2>1
  <2>3. QED
    BY <2>2
<1>3. QED
  BY <1>2 DEF Min

\* What is left when a place is removed: each place that is left was another
\* place than the removed one, and every other place is left.
LEMMA Removed ==
    ASSUME NEW S, NEW rs \in Seq(S), NEW i \in DOMAIN rs
    PROVE  LET left == RemoveAt(rs, i)
               was(k) == IF k < i THEN k ELSE k + 1
           IN  /\ left \in Seq(S)
               /\ \A k \in DOMAIN left : was(k) \in DOMAIN rs \ {i} /\ left[k] = rs[was(k)]
               /\ \A j \in DOMAIN rs \ {i} : \E k \in DOMAIN left : was(k) = j
<1> DEFINE a == SubSeq(rs, 1, i - 1)
           b == SubSeq(rs, i + 1, Len(rs))
           was(k) == IF k < i THEN k ELSE k + 1
<1>1. Len(rs) \in Nat /\ i \in 1 .. Len(rs) /\ \A j \in 1 .. Len(rs) : rs[j] \in S
  OBVIOUS
<1>2. /\ a \in Seq(S) /\ Len(a) = i - 1
      /\ \A k \in 1 .. i - 1 : a[k] = rs[k]
  BY <1>1
<1>3. /\ b \in Seq(S) /\ Len(b) = Len(rs) - i
      /\ \A k \in 1 .. Len(rs) - i : b[k] = rs[i + k]
  BY <1>1
<1> HIDE DEF a, b
<1>4. /\ a \o b \in Seq(S) /\ Len(a \o b) = Len(rs) - 1
      /\ \A k \in 1 .. Len(rs) - 1 : (a \o b)[k] = IF k < i THEN a[k] ELSE b[k - (i - 1)]
  <2>1. \A v, w \in Seq(S) :
          /\ v \o w \in Seq(S)
          /\ Len(v \o w) = Len(v) + Len(w)
          /\ \A k \in 1 .. Len(v) + Len(w) : (v \o w)[k] = IF k <= Len(v) THEN v[k] ELSE w[k - Len(v)]
    BY ConcatProperties
  <2>2. Len(a) + Len(b) = Len(rs) - 1
    BY <1>1, <1>2, <1>3
  <2>3. /\ a \o b \in Seq(S) /\ Len(a \o b) = Len(rs) - 1
        /\ \A k \in 1 .. Len(rs) - 1 : (a \o b)[k] = IF k <= i - 1 THEN a[k] ELSE b[k - (i - 1)]
    <3>1. /\ a \o b \in Seq(S) /\ Len(a \o b) = Len(a) + Len(b)
          /\ \A k \in 1 .. Len(a) + Len(b) :
                (a \o b)[k] = IF k <= Len(a) THEN a[k] ELSE b[k - Len(a)]
      BY <1>2, <1>3, <2>1, Zenon
    <3>2. QED
      BY <1>2, <2>2, <3>1
  <2>4. \A k \in 1 .. Len(rs) - 1 : k <= i - 1 <=> k < i
    BY <1>1
  <2>5. QED
    BY <2>3, <2>4
<1> DEFINE left == a \o b
<1> HIDE DEF left
<1>5. ASSUME NEW k \in DOMAIN left PROVE was(k) \in DOMAIN rs \ {i} /\ left[k] = rs[was(k)]
  <2>1. k \in 1 .. Len(rs) - 1
    BY <1>1, <1>4 DEF left
  <2>2. CASE k < i
    BY <1>1, <1>2, <1>4, <2>1, <2>2 DEF left
  <2>3. CASE k >= i
    <3>1. k - (i - 1) \in 1 .. Len(rs) - i /\ i + (k - (i - 1)) = k + 1
      BY <1>1, <2>1, <2>3
    <3>2. QED
      BY <1>1, <1>3, <1>4, <2>1, <2>3, <3>1 DEF left
  <2>4. QED
    BY <1>1, <2>1, <2>2, <2>3
<1>6. ASSUME NEW j \in DOMAIN rs \ {i} PROVE \E k \in DOMAIN left : was(k) = j
  <2>1. DOMAIN left = 1 .. Len(rs) - 1
    BY <1>1, <1>4 DEF left
  <2>2. j \in 1 .. Len(rs) /\ j # i
    BY <1>1, <1>6
  <2>3. CASE j < i
    <3>1. j \in DOMAIN left /\ was(j) = j
      BY <1>1, <2>1, <2>2, <2>3
    <3>2. QED
      BY <3>1
  <2>4. CASE j > i
    <3>1. j - 1 \in DOMAIN left /\ was(j - 1) = j
      BY <1>1, <2>1, <2>2, <2>4
    <3>2. QED
      BY <3>1
  <2>5. QED
    BY <1>1, <2>2, <2>3, <2>4
<1>7. left \in Seq(S) /\ left = RemoveAt(rs, i)
  BY <1>4 DEF RemoveAt, left, a, b
<1>8. QED
  BY <1>5, <1>6, <1>7

-----------------------------------------------------------------------------

Names == ToSet(Connections)
Row == [id : Nat \ {0}, connection : Names, token : Nat]

-----------------------------------------------------------------------------
(* Rows of a table.                                                        *)

\* What a row holds.
LEMMA RowFields ==
    ASSUME NEW rs \in Seq(Row), NEW i \in DOMAIN rs
    PROVE  /\ rs[i] \in Row
           /\ rs[i].id \in Nat \ {0} /\ rs[i].connection \in Names /\ rs[i].token \in Nat
<1>1. rs[i] \in Row
  OBVIOUS
<1>2. QED
  BY <1>1 DEF Row

\* The row that is found for a connection is one of its rows.
LEMMA FoundByConnection ==
    ASSUME NEW rs \in Seq(Row), NEW n,
           NEW i, i = SelectInSeq(rs, LAMBDA r : r.connection = n)
    PROVE  \/ i = 0 /\ \A j \in DOMAIN rs : rs[j].connection # n
           \/ i \in DOMAIN rs /\ i # 0 /\ rs[i].connection = n
<1> DEFINE I == {j \in 1 .. Len(rs) : rs[j].connection = n}
<1>1. i = IF I # {} THEN Min(I) ELSE 0
  BY DEF SelectInSeq
<1>2. DOMAIN rs = 1 .. Len(rs) /\ Len(rs) \in Nat
  OBVIOUS
<1>3. I # {} => Min(I) \in I
  <2>1. I \in SUBSET Nat
    BY <1>2
  <2>2. QED
    BY <2>1, MinIsMember, Zenon
<1>4. QED
  BY <1>1, <1>2, <1>3

\* ... and so is the row that an edit finds by its id.
LEMMA FoundById ==
    ASSUME rows \in Seq(Row), NEW e
    PROVE  LET i == SelectInSeq(rows, LAMBDA r : r.id = editors[e].id)
           IN  i = 0 \/ (i \in DOMAIN rows /\ i # 0 /\ rows[i].id = editors[e].id)
<1> DEFINE i == SelectInSeq(rows, LAMBDA r : r.id = editors[e].id)
           I == {j \in 1 .. Len(rows) : rows[j].id = editors[e].id}
<1>1. i = IF I # {} THEN Min(I) ELSE 0
  BY DEF SelectInSeq
<1>2. DOMAIN rows = 1 .. Len(rows) /\ Len(rows) \in Nat
  OBVIOUS
<1>3. I # {} => Min(I) \in I
  <2>1. I \in SUBSET Nat
    BY <1>2
  <2>2. QED
    BY <2>1, MinIsMember, Zenon
<1> HIDE DEF i
<1>4. i = 0 \/ (i \in DOMAIN rows /\ i # 0 /\ rows[i].id = editors[e].id)
  BY <1>1, <1>2, <1>3
<1>5. QED
  BY <1>4 DEF i

-----------------------------------------------------------------------------
(* The edits.                                                              *)

Edited == [step : {"idle", "create", "update", "byid"}, id : Nat, connection : Names, token : Nat]

DatabaseTypes ==
    /\ rows \in Seq(Row) /\ created \in Nat /\ edits \in Nat
    /\ editors \in [Editors -> Edited]
    /\ overlapped \in BOOLEAN
    /\ latest \in [Names -> Nat]

Busy(e) == editors[e].step # "idle"

\* RowIds are given once.
IdInv ==
    /\ \A i \in DOMAIN rows : rows[i].id <= created
    /\ \A i, j \in DOMAIN rows : rows[i].id = rows[j].id => i = j

\* One edit at a time, with the newest token or the last of its connection, and what
\* it has read is so.
EditInv ==
    /\ \A e, f \in Editors : Busy(e) /\ Busy(f) => e = f
    /\ \A e \in Editors : Busy(e) =>
          editors[e].token = edits \/ editors[e].token = latest[editors[e].connection]
    /\ \A e \in Editors : editors[e].step = "create" =>
          \A i \in DOMAIN rows : rows[i].connection # editors[e].connection
    /\ \A e \in Editors : editors[e].step = "update" =>
          \A i \in DOMAIN rows : rows[i].id = editors[e].id => rows[i].connection = editors[e].connection

\* The rows are the last edits, one for each connection.
RowInv ==
    /\ \A i, j \in DOMAIN rows : rows[i].connection = rows[j].connection => i = j
    /\ \A i \in DOMAIN rows : latest[rows[i].connection] = rows[i].token
    /\ \A n \in Names : (\A i \in DOMAIN rows : rows[i].connection # n) => latest[n] = NoToken

DatabaseInv ==
    /\ DatabaseTypes
    /\ IdInv
    /\ ~overlapped => EditInv /\ RowInv /\ \A n \in Names : latest[n] <= edits

\* What an edit, or none, does to the token of the first connection.
First == Connections[1]
FirstMoves ==
    ~overlapped' => /\ ~overlapped
                    /\ edits' >= edits
                    /\ latest'[First] \in {latest[First], NoToken, edits'}

LEMMA FirstIsName == First \in Names
BY ConnectionsAssumption DEF First, Names, ToSet

LEMMA DatabaseInit == CredentialInit => DatabaseInv
<1> SUFFICES ASSUME CredentialInit PROVE DatabaseInv
  OBVIOUS
<1>1. /\ rows = <<>> /\ created = 0 /\ edits = 0 /\ overlapped = FALSE
      /\ editors = [e \in Editors |-> NoEdit]
      /\ latest = [n \in Names |-> NoToken]
  BY DEF CredentialInit, Names
<1>2. rows \in Seq(Row) /\ DOMAIN rows = {}
  BY <1>1
<1>3. NoEdit \in Edited /\ NoEdit.step = "idle"
  BY FirstIsName DEF NoEdit, Edited, First, NoToken
<1>4. \A e \in Editors : editors[e].step = "idle"
  BY <1>1, <1>3
<1>5. DatabaseTypes
  BY <1>1, <1>2, <1>3 DEF DatabaseTypes, NoToken
<1>6. IdInv /\ EditInv /\ RowInv
  BY <1>1, <1>2, <1>4 DEF IdInv, EditInv, RowInv, Busy
<1>7. QED
  BY <1>1, <1>5, <1>6 DEF DatabaseInv, NoToken

\* An edit begins with the read of a row.
LEMMA BeginKeeps ==
    ASSUME DatabaseInv, NEW e \in Editors, NEW edit \in Edited, Begin(e, edit),
           ~overlapped => edit.token = edits + 1 \/ edit.token = latest[edit.connection],
           edit.step = "create" => \A i \in DOMAIN rows : rows[i].connection # edit.connection,
           edit.step = "update" =>
             \A i \in DOMAIN rows : rows[i].id = edit.id => rows[i].connection = edit.connection
    PROVE  DatabaseInv' /\ FirstMoves
<1>1. /\ edits' = edits + 1 /\ edits' \in Nat
      /\ editors' = [editors EXCEPT ![e] = edit]
      /\ overlapped' = (overlapped \/ \E f \in Editors : Busy(f))
      /\ UNCHANGED <<rows, created, latest>>
  BY DEF Begin, Busy, DatabaseInv, DatabaseTypes
<1>2. DatabaseTypes' /\ IdInv'
  BY <1>1 DEF DatabaseInv, DatabaseTypes, IdInv, Edited
<1>3. ASSUME ~overlapped' PROVE EditInv' /\ RowInv' /\ FirstMoves /\ \A n \in Names : latest'[n] <= edits'
  <2>1. ~overlapped /\ \A f \in Editors : ~Busy(f)
    BY <1>1, <1>3
  <2>2. \A f \in Editors : editors'[f] = IF f = e THEN edit ELSE editors[f]
    BY <1>1 DEF DatabaseInv, DatabaseTypes
  <2>3. /\ editors'[e].step = edit.step
        /\ editors'[e].token = edits' \/ editors'[e].token = latest'[edit.connection]
        /\ editors'[e].id = edit.id /\ editors'[e].connection = edit.connection
    BY <1>1, <2>1, <2>2
  <2>4. \A f \in Editors : f # e => ~Busy(f)'
    BY <2>1, <2>2 DEF Busy
  <2>5. \A f \in Editors : f # e => editors'[f].step = "idle"
    BY <2>4 DEF Busy
  <2>6. EditInv'
    BY <1>1, <2>3, <2>4, <2>5 DEF EditInv, Busy
  <2>7. RowInv' /\ \A n \in Names : latest'[n] <= edits'
    BY <1>1, <2>1 DEF DatabaseInv, DatabaseTypes, RowInv
  <2>8. FirstMoves
    BY <1>1, <2>1 DEF FirstMoves, DatabaseInv, DatabaseTypes
  <2>9. QED
    BY <2>6, <2>7, <2>8
<1>4. QED
  BY <1>2, <1>3 DEF DatabaseInv, FirstMoves

\* What is read of a connection, while edits do not overlap, is what the last one left.
LEMMA TokenOfIsLatest ==
    ASSUME DatabaseInv, NEW n \in Names
    PROVE  TokenOf(n) \in Nat /\ (~overlapped => TokenOf(n) = latest[n])
<1> DEFINE i == FirstOf(n)
<1>1. rows \in Seq(Row)
  BY DEF DatabaseInv, DatabaseTypes
<1>2. \/ i = 0 /\ \A j \in DOMAIN rows : rows[j].connection # n
      \/ i \in DOMAIN rows /\ i # 0 /\ rows[i].connection = n
  BY <1>1, FoundByConnection DEF FirstOf
<1>3. TokenOf(n) = IF i = 0 THEN NoToken ELSE rows[i].token
  BY DEF TokenOf
<1> HIDE DEF i
<1>4. TokenOf(n) \in Nat
  BY <1>1, <1>2, <1>3, RowFields DEF NoToken
<1>5. ~overlapped => TokenOf(n) = latest[n]
  BY <1>2, <1>3 DEF DatabaseInv, RowInv
<1>6. QED
  BY <1>4, <1>5

LEMMA UpsertKeeps ==
    ASSUME DatabaseInv, NEW e \in Editors, NEW n \in Names, Upsert(e, n)
    PROVE  DatabaseInv' /\ FirstMoves
<1>0. PICK token \in {NewToken, TokenOf(n)} :
        Begin(e, [NoEdit EXCEPT !.step = IF FirstOf(n) = 0 THEN "create" ELSE "update",
                                !.id = IF FirstOf(n) = 0 THEN 0 ELSE rows[FirstOf(n)].id,
                                !.connection = n,
                                !.token = token])
  BY DEF Upsert
<1> DEFINE i == FirstOf(n)
           edit == [NoEdit EXCEPT !.step = IF i = 0 THEN "create" ELSE "update",
                                  !.id = IF i = 0 THEN 0 ELSE rows[i].id,
                                  !.connection = n,
                                  !.token = token]
<1>1. rows \in Seq(Row) /\ IdInv
  BY DEF DatabaseInv, DatabaseTypes
<1>2. \/ i = 0 /\ \A j \in DOMAIN rows : rows[j].connection # n
      \/ i \in DOMAIN rows /\ i # 0 /\ rows[i].connection = n
  BY <1>1, FoundByConnection DEF FirstOf
<1>3. Begin(e, edit)
  BY <1>0
<1> HIDE DEF i
<1>4. i # 0 => rows[i].id \in Nat
  BY <1>1, <1>2, RowFields
<1>5. token \in Nat /\ (~overlapped => token = edits + 1 \/ token = latest[n])
  BY TokenOfIsLatest DEF NewToken, DatabaseInv, DatabaseTypes
<1>6. edit \in Edited
  BY <1>4, <1>5, FirstIsName DEF NoEdit, Edited, First, NoToken
<1>7. /\ edit.step = IF i = 0 THEN "create" ELSE "update"
      /\ edit.id = IF i = 0 THEN 0 ELSE rows[i].id
      /\ edit.connection = n /\ edit.token = token
  BY DEF NoEdit
<1> HIDE DEF edit
<1>8. QED
  BY <1>1, <1>2, <1>3, <1>5, <1>6, <1>7, BeginKeeps DEF IdInv

LEMMA UpsertByIdKeeps ==
    ASSUME DatabaseInv, NEW e \in Editors, NEW i \in DOMAIN rows, NEW n \in Names,
           UpsertById(e, i, n)
    PROVE  DatabaseInv' /\ FirstMoves
<1> DEFINE edit == [NoEdit EXCEPT !.step = "byid", !.id = rows[i].id, !.connection = n,
                                  !.token = NewToken]
<1>1. rows[i].id \in Nat /\ NewToken \in Nat
  BY RowFields DEF DatabaseInv, DatabaseTypes, NewToken
<1>2. edit \in Edited /\ edit.step = "byid" /\ edit.token = edits + 1
  BY <1>1, FirstIsName DEF NoEdit, Edited, First, NoToken, NewToken
<1>3. Begin(e, edit)
  BY DEF UpsertById
<1> HIDE DEF edit
<1>4. QED
  BY <1>2, <1>3, BeginKeeps

LEMMA OAuthCallbackKeeps ==
    ASSUME DatabaseInv, NEW e \in Editors, NEW i \in DOMAIN rows, OAuthCallback(e, i)
    PROVE  DatabaseInv' /\ FirstMoves
<1> DEFINE edit == [NoEdit EXCEPT !.step = "update", !.id = rows[i].id,
                                  !.connection = rows[i].connection, !.token = NewToken]
<1>1. rows[i].id \in Nat /\ rows[i].connection \in Names /\ NewToken \in Nat
  BY RowFields DEF DatabaseInv, DatabaseTypes, NewToken
<1>2. /\ edit \in Edited /\ edit.step = "update" /\ edit.token = edits + 1
      /\ edit.id = rows[i].id /\ edit.connection = rows[i].connection
  BY <1>1, FirstIsName DEF NoEdit, Edited, First, NoToken, NewToken
<1>3. Begin(e, edit)
  BY DEF OAuthCallback
<1>4. \A j \in DOMAIN rows : rows[j].id = rows[i].id => rows[j].connection = rows[i].connection
  BY DEF DatabaseInv, IdInv
<1> HIDE DEF edit
<1>5. QED
  BY <1>2, <1>3, <1>4, BeginKeeps

-----------------------------------------------------------------------------

\* An edit that ends leaves nobody busy, unless edits overlapped.
LEMMA EndedKeeps ==
    ASSUME DatabaseTypes, NEW e \in Editors, Busy(e), Ended(e), overlapped' = overlapped
    PROVE  /\ editors' \in [Editors -> Edited]
           /\ ~overlapped /\ EditInv => \A f \in Editors : editors'[f].step = "idle"
<1>1. NoEdit \in Edited /\ NoEdit.step = "idle"
  BY FirstIsName DEF NoEdit, Edited, First, NoToken
<1>2. /\ editors' \in [Editors -> Edited]
      /\ \A f \in Editors : editors'[f] = IF f = e THEN NoEdit ELSE editors[f]
  BY <1>1 DEF Ended, DatabaseTypes
<1>3. QED
  BY <1>1, <1>2 DEF EditInv, Busy

\* When nobody is busy, EditInv says nothing.
LEMMA NobodyBusy ==
    ASSUME \A f \in Editors : editors'[f].step = "idle"
    PROVE  EditInv'
BY DEF EditInv, Busy

\* The edits that end without a change of the rows.
LEMMA EndWithoutChange ==
    ASSUME DatabaseInv, NEW e \in Editors, Busy(e), Ended(e),
           UNCHANGED <<rows, created, edits, overlapped, latest>>
    PROVE  DatabaseInv' /\ FirstMoves
<1>1. /\ editors' \in [Editors -> Edited]
      /\ ~overlapped /\ EditInv => EditInv'
  BY EndedKeeps, NobodyBusy DEF DatabaseInv
<1>2. DatabaseTypes' /\ IdInv' /\ (RowInv => RowInv')
  BY <1>1 DEF DatabaseInv, DatabaseTypes, IdInv, RowInv
<1>3. QED
  BY <1>1, <1>2 DEF DatabaseInv, DatabaseTypes, FirstMoves

\* The row that was read gets the token; its connection stays what it was.
LEMMA UpdateKeeps ==
    ASSUME DatabaseInv, NEW e \in Editors, Update(e)
    PROVE  DatabaseInv' /\ FirstMoves
<1> DEFINE i == SelectInSeq(rows, LAMBDA r : r.id = editors[e].id)
           n == editors[e].connection
           t == editors[e].token
<1>1. rows \in Seq(Row) /\ IdInv /\ DatabaseTypes /\ n \in Names /\ t \in Nat
  BY DEF DatabaseInv, DatabaseTypes, Edited
<1>2. i = 0 \/ (i \in DOMAIN rows /\ i # 0 /\ rows[i].id = editors[e].id)
  BY <1>1, FoundById, Zenon
<1>3. /\ Busy(e) /\ Ended(e) /\ UNCHANGED <<created, edits, overlapped>>
      /\ editors[e].step = "update"
      /\ IF i = 0 THEN UNCHANGED <<rows, latest>>
         ELSE /\ rows' = [rows EXCEPT ![i].token = t, ![i].connection = n]
              /\ latest' = [latest EXCEPT ![n] = t]
  BY DEF Update, Busy
<1> HIDE DEF i
<1>4. CASE i = 0
  BY <1>3, <1>4, EndWithoutChange
<1>5. CASE i # 0
  <2>1. /\ rows' \in Seq(Row) /\ DOMAIN rows' = DOMAIN rows
        /\ \A j \in DOMAIN rows : j # i => rows'[j] = rows[j]
        /\ rows'[i].id = rows[i].id /\ rows'[i].token = t /\ rows'[i].connection = n
    <3>1. rows[i] \in Row
      BY <1>1, <1>2, <1>5
    <3>2. rows' = [rows EXCEPT ![i] = [rows[i] EXCEPT !.token = t, !.connection = n]]
      BY <1>1, <1>2, <1>3, <1>5
    <3>3. [rows[i] EXCEPT !.token = t, !.connection = n] \in Row
      BY <1>1, <3>1 DEF Row
    <3>4. QED
      BY <1>1, <1>2, <1>5, <3>1, <3>2, <3>3 DEF Row
  <2>2. /\ editors' \in [Editors -> Edited]
        /\ ~overlapped /\ EditInv => EditInv'
    BY <1>1, <1>3, EndedKeeps, NobodyBusy
  <2>3. latest' = [latest EXCEPT ![n] = t] /\ latest' \in [Names -> Nat]
    BY <1>1, <1>3, <1>5 DEF DatabaseTypes
  <2>4. DatabaseTypes' /\ IdInv'
    <3>1. \A j \in DOMAIN rows : rows'[j].id = rows[j].id
      BY <2>1
    <3>2. IdInv'
      BY <1>1, <1>3, <2>1, <3>1 DEF IdInv
    <3>3. DatabaseTypes'
      BY <1>1, <1>3, <2>1, <2>2, <2>3 DEF DatabaseTypes
    <3>4. QED
      BY <3>2, <3>3
  <2>5. ASSUME ~overlapped PROVE RowInv' /\ FirstMoves /\ \A m \in Names : latest'[m] <= edits'
    <3>1. EditInv /\ RowInv /\ \A m \in Names : latest[m] <= edits
      BY <2>5 DEF DatabaseInv
    <3>2. (t = edits \/ t = latest[n]) /\ rows[i].connection = n
      BY <1>2, <1>3, <1>5, <3>1 DEF EditInv, Busy
    <3>3. \A m \in Names : latest'[m] = IF m = n THEN t ELSE latest[m]
      BY <1>1, <2>3 DEF DatabaseTypes
    <3>4. \A j \in DOMAIN rows : rows'[j].connection = rows[j].connection /\ (j # i => rows'[j].token = rows[j].token)
      BY <2>1, <3>2
    <3>5. \A j \in DOMAIN rows : rows[j].connection \in Names
      BY <1>1, RowFields
    <3>6. RowInv'
      BY <1>2, <1>5, <2>1, <3>1, <3>2, <3>3, <3>4, <3>5 DEF RowInv
    <3>7. FirstMoves /\ \A m \in Names : latest'[m] <= edits'
      BY <1>1, <1>3, <2>5, <3>1, <3>2, <3>3, FirstIsName DEF FirstMoves, DatabaseTypes
    <3>8. QED
      BY <3>6, <3>7
  <2>6. QED
    BY <1>3, <2>2, <2>4, <2>5 DEF DatabaseInv, FirstMoves
<1>6. QED
  BY <1>4, <1>5

\* The new row is the first of its connection, and its id is new.
LEMMA CreateKeeps ==
    ASSUME DatabaseInv, NEW e \in Editors, Create(e)
    PROVE  DatabaseInv' /\ FirstMoves
<1> DEFINE n == editors[e].connection
           t == editors[e].token
           row == [id |-> created + 1, connection |-> n, token |-> t]
           k == Len(rows) + 1
<1>1. rows \in Seq(Row) /\ IdInv /\ DatabaseTypes /\ n \in Names /\ t \in Nat /\ created \in Nat
  BY DEF DatabaseInv, DatabaseTypes, Edited
<1>2. /\ Busy(e) /\ Ended(e) /\ UNCHANGED <<edits, overlapped>>
      /\ editors[e].step = "create"
      /\ created' = created + 1
      /\ rows' = Append(rows, row)
      /\ latest' = [latest EXCEPT ![n] = t]
  BY DEF Create, Busy
<1>3. row \in Row /\ row.id = created + 1 /\ row.connection = n /\ row.token = t
  BY <1>1 DEF Row
<1> HIDE DEF row
<1>4. /\ rows' \in Seq(Row) /\ DOMAIN rows' = DOMAIN rows \cup {k}
      /\ k \notin DOMAIN rows
      /\ \A j \in DOMAIN rows : rows'[j] = rows[j]
      /\ rows'[k] = row
  BY <1>1, <1>2, <1>3
<1>5. \A j \in DOMAIN rows : rows[j].id <= created /\ rows[j].id \in Nat /\ rows[j].connection \in Names
  BY <1>1, RowFields DEF IdInv
<1> HIDE DEF k
<1>6. /\ editors' \in [Editors -> Edited]
      /\ ~overlapped /\ EditInv => EditInv'
  BY <1>1, <1>2, EndedKeeps, NobodyBusy
<1>7. DatabaseTypes'
  BY <1>1, <1>2, <1>4, <1>6 DEF DatabaseTypes
<1>8. IdInv'
  <2>1. \A j \in DOMAIN rows' : rows'[j].id <= created'
    BY <1>1, <1>2, <1>3, <1>4, <1>5
  <2>2. \A j \in DOMAIN rows : rows'[j].id # rows'[k].id
    BY <1>1, <1>3, <1>4, <1>5
  <2>3. QED
    BY <1>1, <1>4, <2>1, <2>2 DEF IdInv
<1>9. ASSUME ~overlapped PROVE RowInv' /\ FirstMoves /\ \A m \in Names : latest'[m] <= edits'
  <2>1. EditInv /\ RowInv /\ \A m \in Names : latest[m] <= edits
    BY <1>9 DEF DatabaseInv
  <2>2. (t = edits \/ t = latest[n]) /\ \A j \in DOMAIN rows : rows[j].connection # n
    BY <1>2, <2>1 DEF EditInv, Busy
  <2>3. \A m \in Names : latest'[m] = IF m = n THEN t ELSE latest[m]
    BY <1>1, <1>2 DEF DatabaseTypes
  <2>4. RowInv'
    <3>1. \A j \in DOMAIN rows : /\ rows'[j].connection = rows[j].connection
                               /\ rows'[j].token = rows[j].token /\ rows[j].connection # n
      BY <1>4, <2>2
    <3>2. rows'[k].connection = n /\ rows'[k].token = t
      BY <1>3, <1>4
    <3>3. \A j, l \in DOMAIN rows' : rows'[j].connection = rows'[l].connection => j = l
      BY <1>4, <2>1, <3>1, <3>2 DEF RowInv
    <3>4. \A j \in DOMAIN rows' : latest'[rows'[j].connection] = rows'[j].token
      <4>1. latest'[n] = t
        BY <1>1, <2>2, <2>3
      <4>2. \A j \in DOMAIN rows : latest'[rows[j].connection] = rows[j].token
        BY <1>5, <2>1, <2>2, <2>3 DEF RowInv
      <4>3. QED
        BY <1>4, <3>1, <3>2, <4>1, <4>2
    <3>5. ASSUME NEW m \in Names, \A j \in DOMAIN rows' : rows'[j].connection # m
          PROVE  latest'[m] = NoToken
      <4>1. m # n /\ \A j \in DOMAIN rows : rows[j].connection # m
        BY <1>4, <3>1, <3>2, <3>5
      <4>2. QED
        BY <2>1, <2>3, <4>1 DEF RowInv
    <3>6. QED
      BY <3>3, <3>4, <3>5 DEF RowInv
  <2>5. FirstMoves /\ \A m \in Names : latest'[m] <= edits'
    BY <1>1, <1>2, <1>9, <2>1, <2>2, <2>3, FirstIsName DEF FirstMoves, DatabaseTypes
  <2>6. QED
    BY <2>4, <2>5
<1>10. QED
  BY <1>2, <1>6, <1>7, <1>8, <1>9 DEF DatabaseInv, FirstMoves

\* The row that is removed was the only one of its connection.
LEMMA ClearKeeps ==
    ASSUME DatabaseInv, NEW i \in DOMAIN rows, Clear(i)
    PROVE  DatabaseInv' /\ FirstMoves
<1> DEFINE n == rows[i].connection
           was(k) == IF k < i THEN k ELSE k + 1
<1>1. rows \in Seq(Row) /\ IdInv /\ DatabaseTypes
  BY DEF DatabaseInv, DatabaseTypes
<1>2. n \in Names
  BY <1>1, RowFields
<1>3. /\ edits' = edits + 1 /\ rows' = RemoveAt(rows, i)
      /\ overlapped' = (overlapped \/ \E f \in Editors : Busy(f))
      /\ latest' = [latest EXCEPT ![n] = NoToken]
      /\ UNCHANGED <<created, editors>>
  BY DEF Clear, Busy
<1>4. /\ rows' \in Seq(Row)
      /\ \A k \in DOMAIN rows' : was(k) \in DOMAIN rows \ {i} /\ rows'[k] = rows[was(k)]
      /\ \A j \in DOMAIN rows \ {i} : \E k \in DOMAIN rows' : was(k) = j
  BY <1>1, <1>3, Removed
<1>5. \A j, k \in DOMAIN rows' : was(j) = was(k) => j = k
  <2>1. \A j \in DOMAIN rows' : j \in Nat
    BY <1>4
  <2>2. i \in Nat
    BY <1>1
  <2>3. QED
    BY <2>1, <2>2
<1> HIDE DEF was
<1>6. \A j \in DOMAIN rows : rows[j].connection \in Names /\ rows[j].id \in Nat
  BY <1>1, RowFields
<1>7. DatabaseTypes'
  BY <1>1, <1>2, <1>3, <1>4 DEF DatabaseTypes, NoToken
<1>8. IdInv'
  <2>1. \A k \in DOMAIN rows' : rows'[k].id <= created'
    BY <1>1, <1>3, <1>4 DEF IdInv
  <2>2. ASSUME NEW j \in DOMAIN rows', NEW k \in DOMAIN rows', rows'[j].id = rows'[k].id
        PROVE  j = k
    BY <1>1, <1>4, <1>5, <2>2 DEF IdInv
  <2>3. QED
    BY <2>1, <2>2 DEF IdInv
<1>9. ASSUME ~overlapped' PROVE EditInv' /\ RowInv' /\ FirstMoves /\ \A m \in Names : latest'[m] <= edits'
  <2>1. ~overlapped /\ \A f \in Editors : editors'[f].step = "idle"
    BY <1>3, <1>9 DEF Busy
  <2>2. RowInv /\ \A m \in Names : latest[m] <= edits
    BY <2>1 DEF DatabaseInv
  <2>3. \A m \in Names : latest'[m] = IF m = n THEN NoToken ELSE latest[m]
    BY <1>1, <1>3 DEF DatabaseTypes
  <2>4. \A k \in DOMAIN rows' : rows'[k].connection # n
    BY <1>4, <2>2 DEF RowInv
  <2>5. ASSUME NEW j \in DOMAIN rows', NEW k \in DOMAIN rows',
               rows'[j].connection = rows'[k].connection
        PROVE  j = k
    BY <1>4, <1>5, <2>2, <2>5 DEF RowInv
  <2>6. ASSUME NEW k \in DOMAIN rows' PROVE latest'[rows'[k].connection] = rows'[k].token
    <3>1. was(k) \in DOMAIN rows /\ rows'[k] = rows[was(k)] /\ rows'[k].connection # n
      BY <1>4, <2>4
    <3>2. latest[rows[was(k)].connection] = rows[was(k)].token
      BY <2>2, <3>1 DEF RowInv
    <3>3. QED
      BY <1>6, <2>3, <3>1, <3>2
  <2>7. ASSUME NEW m \in Names, \A k \in DOMAIN rows' : rows'[k].connection # m
        PROVE  latest'[m] = NoToken
    <3>1. m # n => \A j \in DOMAIN rows : rows[j].connection # m
      BY <1>4, <2>7
    <3>2. QED
      BY <2>2, <2>3, <3>1 DEF RowInv
  <2>8. RowInv'
    BY <2>5, <2>6, <2>7 DEF RowInv
  <2>9. FirstMoves /\ \A m \in Names : latest'[m] <= edits'
    BY <1>1, <1>3, <2>1, <2>2, <2>3, FirstIsName DEF FirstMoves, DatabaseTypes, NoToken
  <2>10. QED
    BY <2>1, <2>8, <2>9, NobodyBusy
<1>10. QED
  BY <1>7, <1>8, <1>9 DEF DatabaseInv, FirstMoves

-----------------------------------------------------------------------------
(* The messages.                                                           *)

ExchangeTypes ==
    /\ callers \in [Callers -> {"idle", "check", "polling", "returned"}]
    /\ got \in [Callers -> Nat]
    /\ wire \in [Callers -> [at : {"none", "request", "response"}, token : Nat]]
    /\ cache \in [Services -> Nat] /\ floor \in [Services -> Nat]

\* Who has a message on its way, or a token, has asked or found the cache filled.
AskedOnce(c) == callers[c] \in {"polling", "returned"}
AskedInv == \A c \in Callers : wire[c].at # "none" \/ got[c] # NoToken => AskedOnce(c)

\* Nothing that is under way to a service, or has arrived there, is older than
\* what the authority had when the service first asked.
FreshInv ==
    /\ \A s \in Services :
          /\ floor[s] <= edits
          /\ latest[First] # NoToken => latest[First] >= floor[s]
          /\ cache[s] # NoToken => cache[s] >= floor[s]
    /\ \A c \in Callers :
          /\ wire[c].at = "response" => wire[c].token >= floor[ServiceOf[c]]
          /\ got[c] # NoToken => got[c] >= floor[ServiceOf[c]]

IInv ==
    /\ DatabaseInv
    /\ ExchangeTypes
    /\ AskedInv
    /\ ~overlapped => FreshInv

\* What the authority looks up is the token of the last edit.
LEMMA LookUpIsLatest ==
    ASSUME DatabaseInv
    PROVE  LookUp \in Nat /\ (~overlapped => LookUp = latest[First])
BY FirstIsName, TokenOfIsLatest DEF LookUp, First

LEMMA ServiceIsService == \A c \in Callers : ServiceOf[c] \in Services
BY CallersAssumption

LEMMA ExchangeInit == CredentialInit => IInv
<1> SUFFICES ASSUME CredentialInit PROVE IInv
  OBVIOUS
<1>1. ExchangeTypes /\ AskedInv
  BY DEF CredentialInit, ExchangeTypes, AskedInv, NoMessage, NoToken
<1>2. FreshInv
  BY FirstIsName, ServiceIsService DEF CredentialInit, FreshInv, NoMessage, NoToken, Names
<1>3. QED
  BY <1>1, <1>2, DatabaseInit DEF IInv

\* A step that leaves the messages alone.
LEMMA DatabaseStepKeeps ==
    ASSUME IInv, DatabaseInv', FirstMoves, UNCHANGED exchange
    PROVE  IInv'
<1>1. ExchangeTypes' /\ AskedInv'
  BY DEF IInv, ExchangeTypes, AskedInv, AskedOnce, exchange
<1>2. ASSUME ~overlapped' PROVE FreshInv'
  <2>1. /\ FreshInv /\ edits' >= edits /\ edits \in Nat /\ edits' \in Nat
        /\ latest'[First] \in {latest[First], NoToken, edits'}
    BY <1>2 DEF IInv, FirstMoves, DatabaseInv, DatabaseTypes
  <2>2. \A s \in Services : floor[s] \in Nat
    BY DEF IInv, ExchangeTypes
  <2>3. \A s \in Services : floor[s] <= edits'
    BY <2>1, <2>2 DEF FreshInv
  <2>4. \A s \in Services : latest'[First] # NoToken => latest'[First] >= floor[s]
    BY <2>1, <2>2, <2>3 DEF FreshInv
  <2>5. QED
    BY <2>1, <2>3, <2>4 DEF FreshInv, exchange
<1>3. QED
  BY <1>1, <1>2 DEF IInv

\* A step of the exchange does not touch the database.
LEMMA DatabaseStays ==
    ASSUME DatabaseInv, UNCHANGED database
    PROVE  DatabaseInv' /\ overlapped' = overlapped /\ latest' = latest /\ edits' = edits
BY DEF DatabaseInv, DatabaseTypes, IdInv, EditInv, RowInv, Busy, database

LEMMA CallKeeps ==
    ASSUME IInv, NEW c \in Callers, Call(c)
    PROVE  IInv'
<1>1. /\ callers[c] = "idle" /\ callers' = [callers EXCEPT ![c] = "check"]
      /\ UNCHANGED <<database, got, wire, cache, floor>>
  BY DEF Call
<1>2. DatabaseInv' /\ overlapped' = overlapped /\ latest' = latest /\ edits' = edits
  BY <1>1, DatabaseStays DEF IInv
<1>3. ExchangeTypes' /\ AskedInv' /\ (FreshInv => FreshInv')
  BY <1>1, <1>2 DEF IInv, ExchangeTypes, AskedInv, AskedOnce, FreshInv
<1>4. QED
  BY <1>2, <1>3 DEF IInv

\* A call that returns takes what the cache of its service holds.
LEMMA ReturnKeeps ==
    ASSUME IInv, NEW c \in Callers, UNCHANGED <<database, wire, cache, floor>>,
           callers' = [callers EXCEPT ![c] = "returned"],
           got' = [got EXCEPT ![c] = cache[ServiceOf[c]]],
           cache[ServiceOf[c]] # NoToken
    PROVE  IInv'
<1>1. DatabaseInv' /\ overlapped' = overlapped /\ latest' = latest /\ edits' = edits
  BY DatabaseStays DEF IInv
<1>2. ServiceOf[c] \in Services
  BY ServiceIsService
<1>3. ExchangeTypes' /\ AskedInv'
  BY <1>1, <1>2 DEF IInv, ExchangeTypes, AskedInv, AskedOnce
<1>4. FreshInv => FreshInv'
  <2>1. \A d \in Callers : got'[d] = IF d = c THEN cache[ServiceOf[c]] ELSE got[d]
    BY DEF IInv, ExchangeTypes
  <2>2. QED
    BY <1>1, <1>2, <2>1 DEF FreshInv
<1>5. QED
  BY <1>1, <1>3, <1>4 DEF IInv

LEMMA CheckKeeps ==
    ASSUME IInv, NEW c \in Callers, CheckCache(c)
    PROVE  IInv'
<1> DEFINE s == ServiceOf[c]
           asked == \E d \in Callers : /\ ServiceOf[d] = ServiceOf[c]
                                      /\ callers[d] \in {"polling", "returned"}
<1>1. CASE cache[s] # NoToken
  BY <1>1, ReturnKeeps DEF CheckCache
<1>2. CASE cache[s] = NoToken
  <2>1. /\ callers[c] = "check" /\ callers' = [callers EXCEPT ![c] = "polling"]
        /\ wire' = [wire EXCEPT ![c].at = "request"]
        /\ floor' = IF asked THEN floor ELSE [floor EXCEPT ![s] = LookUp]
        /\ UNCHANGED <<database, got, cache>>
    BY <1>2 DEF CheckCache
  <2>2. DatabaseInv' /\ overlapped' = overlapped /\ latest' = latest /\ edits' = edits
    BY <2>1, DatabaseStays DEF IInv
  <2>3. s \in Services /\ LookUp \in Nat /\ (~overlapped => LookUp = latest[First])
    BY ServiceIsService, LookUpIsLatest DEF IInv
  <2>4. \A d \in Callers : wire'[d].at = IF d = c THEN "request" ELSE wire[d].at
    BY <2>1 DEF IInv, ExchangeTypes
  <2>5. \A d \in Callers : wire'[d].token = wire[d].token
    BY <2>1 DEF IInv, ExchangeTypes
  <2>6. ExchangeTypes'
    BY <2>1, <2>3 DEF IInv, ExchangeTypes
  <2>7. \A d \in Callers : callers'[d] = IF d = c THEN "polling" ELSE callers[d]
    BY <2>1 DEF IInv, ExchangeTypes
  <2>8. AskedInv'
    BY <2>1, <2>4, <2>7 DEF IInv, AskedInv, AskedOnce
  <2>9. ASSUME ~overlapped PROVE FreshInv'
    <3>1. FreshInv /\ LookUp = latest[First] /\ edits \in Nat
      BY <2>3, <2>9 DEF IInv, DatabaseInv, DatabaseTypes
    <3>2. latest[First] <= edits /\ latest[First] \in Nat
      BY <2>9, FirstIsName DEF IInv, DatabaseInv, DatabaseTypes
    <3>3. CASE asked
      BY <2>1, <2>2, <2>4, <2>5, <3>1, <3>3 DEF FreshInv
    <3>4. CASE ~asked
      <4>1. \A t \in Services : floor'[t] = IF t = s THEN latest[First] ELSE floor[t]
        BY <2>1, <3>1, <3>4 DEF IInv, ExchangeTypes
      <4>2. \A t \in Services : /\ floor'[t] <= edits'
                                /\ latest'[First] # NoToken => latest'[First] >= floor'[t]
                                /\ cache'[t] # NoToken => cache'[t] >= floor'[t]
        BY <1>2, <2>1, <2>2, <3>1, <3>2, <4>1 DEF FreshInv
      <4>3. \A d \in Callers : ServiceOf[d] = s => wire[d].at = "none" /\ got[d] = NoToken
        BY <3>4 DEF IInv, AskedInv, AskedOnce
      <4>4. \A d \in Callers :
              /\ wire'[d].at = "response" => wire'[d].token >= floor'[ServiceOf[d]]
              /\ got'[d] # NoToken => got'[d] >= floor'[ServiceOf[d]]
        <5>1. ASSUME NEW d \in Callers
              PROVE  /\ wire'[d].at = "response" => wire'[d].token >= floor'[ServiceOf[d]]
                     /\ got'[d] # NoToken => got'[d] >= floor'[ServiceOf[d]]
          <6>1. ServiceOf[d] # s => floor'[ServiceOf[d]] = floor[ServiceOf[d]]
            BY <4>1, ServiceIsService
          <6>2. QED
            BY <2>1, <2>4, <2>5, <3>1, <4>3, <6>1 DEF FreshInv
        <5>2. QED
          BY <5>1
      <4>5. QED
        BY <4>2, <4>4 DEF FreshInv
    <3>5. QED
      BY <3>3, <3>4
  <2>10. QED
    BY <2>2, <2>6, <2>8, <2>9 DEF IInv
<1>3. QED
  BY <1>1, <1>2

\* A message that ends takes nothing with it.
LEMMA MessageEnds ==
    ASSUME IInv, NEW c \in Callers, UNCHANGED <<database, callers, got, floor, cache>>,
           wire' = [wire EXCEPT ![c] = NoMessage]
    PROVE  IInv'
<1>1. DatabaseInv' /\ overlapped' = overlapped /\ latest' = latest /\ edits' = edits
  BY DatabaseStays DEF IInv
<1>2. \A d \in Callers : wire'[d] = IF d = c THEN NoMessage ELSE wire[d]
  BY DEF IInv, ExchangeTypes
<1>3. ExchangeTypes' /\ AskedInv'
  BY <1>2 DEF IInv, ExchangeTypes, AskedInv, AskedOnce, NoMessage, NoToken
<1>4. FreshInv => FreshInv'
  BY <1>1, <1>2 DEF FreshInv, NoMessage
<1>5. QED
  BY <1>1, <1>3, <1>4 DEF IInv

LEMMA AnswerKeeps ==
    ASSUME IInv, NEW c \in Callers, Answer(c)
    PROVE  IInv'
<1>1. CASE LookUp = NoToken
  BY <1>1, MessageEnds DEF Answer
<1>2. CASE LookUp # NoToken
  <2> DEFINE m == [at |-> "response", token |-> LookUp]
  <2>1. /\ wire[c].at = "request" /\ wire' = [wire EXCEPT ![c] = m]
        /\ UNCHANGED <<database, callers, got, cache, floor>>
    BY <1>2 DEF Answer
  <2>2. DatabaseInv' /\ overlapped' = overlapped /\ latest' = latest /\ edits' = edits
    BY <2>1, DatabaseStays DEF IInv
  <2>3. LookUp \in Nat /\ (~overlapped => LookUp = latest[First])
    BY LookUpIsLatest DEF IInv
  <2>4. \A d \in Callers : wire'[d] = IF d = c THEN m ELSE wire[d]
    BY <2>1 DEF IInv, ExchangeTypes
  <2>5. ExchangeTypes'
    BY <2>1, <2>3 DEF IInv, ExchangeTypes
  <2>6. AskedInv'
    BY <2>1, <2>4 DEF IInv, AskedInv, AskedOnce
  <2>7. ASSUME ~overlapped PROVE FreshInv'
    <3>1. FreshInv /\ ServiceOf[c] \in Services /\ LookUp >= floor[ServiceOf[c]]
      BY <1>2, <2>3, <2>7, ServiceIsService DEF IInv, FreshInv
    <3>2. QED
      BY <2>1, <2>2, <2>4, <3>1 DEF FreshInv
  <2>8. QED
    BY <2>2, <2>5, <2>6, <2>7 DEF IInv
<1>3. QED
  BY <1>1, <1>2

LEMMA ReceiveKeeps ==
    ASSUME IInv, NEW c \in Callers, Receive(c)
    PROVE  IInv'
<1>1. /\ wire[c].at = "response" /\ wire' = [wire EXCEPT ![c] = NoMessage]
      /\ cache' = [cache EXCEPT ![ServiceOf[c]] = wire[c].token]
      /\ UNCHANGED <<database, callers, got, floor>>
  BY DEF Receive
<1>2. DatabaseInv' /\ overlapped' = overlapped /\ latest' = latest /\ edits' = edits
  BY <1>1, DatabaseStays DEF IInv
<1>3. ServiceOf[c] \in Services /\ wire[c].token \in Nat
  BY ServiceIsService DEF IInv, ExchangeTypes
<1>4. \A d \in Callers : wire'[d] = IF d = c THEN NoMessage ELSE wire[d]
  BY <1>1 DEF IInv, ExchangeTypes
<1>5. \A s \in Services : cache'[s] = IF s = ServiceOf[c] THEN wire[c].token ELSE cache[s]
  BY <1>1 DEF IInv, ExchangeTypes
<1>6. ExchangeTypes' /\ AskedInv'
  BY <1>1, <1>3, <1>4 DEF IInv, ExchangeTypes, AskedInv, AskedOnce, NoMessage, NoToken
<1>7. FreshInv => FreshInv'
  BY <1>1, <1>2, <1>4, <1>5 DEF FreshInv, NoMessage
<1>8. QED
  BY <1>2, <1>6, <1>7 DEF IInv

-----------------------------------------------------------------------------

LEMMA NextKeeps == IInv /\ [CredentialNext]_credentialVars => IInv'
<1> SUFFICES ASSUME IInv, [CredentialNext]_credentialVars PROVE IInv'
  OBVIOUS
<1>1. ASSUME NEW c \in Callers, Call(c) \/ CallerStep(c) \/ Message(c) \/ Lose(c)
      PROVE  IInv'
  <2>1. CASE Call(c)
    BY <2>1, CallKeeps
  <2>2. CASE CheckCache(c)
    BY <2>2, CheckKeeps
  <2>3. CASE Poll(c)
    BY <2>3, ReturnKeeps DEF Poll
  <2>4. CASE Answer(c)
    BY <2>4, AnswerKeeps
  <2>5. CASE Receive(c)
    BY <2>5, ReceiveKeeps
  <2>6. CASE Lose(c)
    BY <2>6, MessageEnds DEF Lose
  <2>7. QED
    BY <1>1, <2>1, <2>2, <2>3, <2>4, <2>5, <2>6 DEF CallerStep, Message
<1>2. ASSUME NEW e \in Editors, NEW n \in Names, Upsert(e, n)
      PROVE  IInv'
  <2>1. UNCHANGED exchange
    BY <1>2 DEF Upsert, Begin
  <2>2. QED
    BY <1>2, <2>1, UpsertKeeps, DatabaseStepKeeps DEF IInv
<1>3. ASSUME NEW e \in Editors, NEW i \in DOMAIN rows, NEW n \in Names, UpsertById(e, i, n)
      PROVE  IInv'
  <2>1. UNCHANGED exchange
    BY <1>3 DEF UpsertById, Begin
  <2>2. QED
    BY <1>3, <2>1, UpsertByIdKeeps, DatabaseStepKeeps DEF IInv
<1>4. ASSUME NEW e \in Editors, NEW i \in DOMAIN rows, OAuthCallback(e, i)
      PROVE  IInv'
  <2>1. UNCHANGED exchange
    BY <1>4 DEF OAuthCallback, Begin
  <2>2. QED
    BY <1>4, <2>1, OAuthCallbackKeeps, DatabaseStepKeeps DEF IInv
<1>5. ASSUME NEW e \in Editors, Edit(e) \/ EditFails(e)
      PROVE  IInv'
  <2>1. UNCHANGED exchange
    BY <1>5 DEF Edit, Update, UpdateById, Create, EditFails
  <2>2. CASE Update(e)
    BY <2>1, <2>2, UpdateKeeps, DatabaseStepKeeps DEF IInv
  <2>3. CASE Create(e)
    BY <2>1, <2>3, CreateKeeps, DatabaseStepKeeps DEF IInv
  <2>4. CASE UpdateById(e) \/ EditFails(e)
    <3>1. /\ Busy(e) /\ Ended(e)
          /\ UNCHANGED <<rows, created, edits, overlapped, latest>>
      BY <2>4 DEF UpdateById, EditFails, Busy
    <3>2. QED
      BY <2>1, <3>1, EndWithoutChange, DatabaseStepKeeps DEF IInv
  <2>5. QED
    BY <1>5, <2>2, <2>3, <2>4 DEF Edit
<1>6. ASSUME NEW i \in DOMAIN rows, Clear(i)
      PROVE  IInv'
  <2>1. UNCHANGED exchange
    BY <1>6 DEF Clear
  <2>2. QED
    BY <1>6, <2>1, ClearKeeps, DatabaseStepKeeps DEF IInv
<1>7. CASE UNCHANGED credentialVars
  <2>1. UNCHANGED database /\ UNCHANGED exchange
    BY <1>7 DEF credentialVars
  <2>2. DatabaseInv' /\ FirstMoves
    BY <2>1, DatabaseStays DEF IInv, FirstMoves, DatabaseInv, DatabaseTypes
  <2>3. QED
    BY <2>1, <2>2, DatabaseStepKeeps
<1>8. QED
  BY <1>1, <1>2, <1>3, <1>4, <1>5, <1>6, <1>7 DEF CredentialNext, Names

THEOREM IInvHolds == CredentialSpec => []IInv
<1>1. QED
  BY ExchangeInit, NextKeeps, PTL DEF CredentialSpec

\* While edits do not overlap, an agent has one credential for each connection, and
\* GetCredentialsForAgent finds at most one.
THEOREM OneRowEach == CredentialSpec => []OneRowPerConnection
<1>1. IInv => OneRowPerConnection
  BY DEF IInv, DatabaseInv, RowInv, OneRowPerConnection
<1>2. QED
  BY <1>1, IInvHolds, PTL

\* While edits do not overlap, a request is answered with what the last edit left,
\* and no call returns a token older than the one the authority had when the service
\* first asked, in whatever order requests, answers and edits cross.
THEOREM CallsGetFreshTokens == CredentialSpec => []TokensAreFresh
<1>1. IInv => AnswerIsLatest
  BY LookUpIsLatest DEF IInv, AnswerIsLatest, First
<1>2. IInv => NotOlderThanAsked
  BY DEF IInv, FreshInv, NotOlderThanAsked
<1>3. QED
  BY <1>1, <1>2, IInvHolds, PTL DEF TokensAreFresh

-----------------------------------------------------------------------------
(* The types, with the bounds that ids and tokens keep.                    *)

\* Each edit creates one row at most, so there are no more ids than edits.
Creating == {e \in Editors : editors[e].step = "create"}
CountInv ==
    /\ IsFiniteSet(Creating)
    /\ created + Cardinality(Creating) <= edits
    /\ edits <= MaxEdits

TypeInv == CredentialTypeOK /\ CountInv

BoundedRow == [id : RowIds \ {0}, connection : Names, token : Tokens]
BoundedEdit == [step : {"idle", "create", "update", "byid"}, id : RowIds, connection : Names, token : Tokens]

\* What CredentialTypeOK says of the database and of the exchange.
DatabaseBounded ==
    /\ rows \in Seq(BoundedRow) /\ created \in RowIds
    /\ editors \in [Editors -> BoundedEdit]
    /\ edits \in Nat /\ overlapped \in BOOLEAN
    /\ latest \in [Names -> Tokens]
ExchangeBounded ==
    /\ callers \in [Callers -> {"idle", "check", "polling", "returned"}]
    /\ got \in [Callers -> Tokens]
    /\ wire \in [Callers -> [at : {"none", "request", "response"}, token : Tokens]]
    /\ cache \in [Services -> Tokens] /\ floor \in [Services -> Tokens]
    /\ unanswered \in BOOLEAN

\* The two make up CredentialTypeOK.
LEMMA TypeParts == CredentialTypeOK <=> DatabaseBounded /\ ExchangeBounded /\ failures \in Nat
BY DEF CredentialTypeOK, DatabaseBounded, ExchangeBounded, BoundedRow, BoundedEdit, Names

\* The bounds as numbers.
LEMMA SmallNumbers == MaxEdits \in Nat /\ NoToken \in Tokens /\ 0 \in RowIds /\ RowIds \subseteq Nat /\ Tokens \subseteq Nat
BY ExchangeBoundsAssumption DEF NoToken, Tokens, RowIds

\* What a row holds, and what is looked up in the rows.
LEMMA BoundedFields ==
    ASSUME NEW rs \in Seq(BoundedRow), NEW i \in DOMAIN rs
    PROVE  rs[i] \in BoundedRow /\ rs[i].id \in RowIds \ {0} /\ rs[i].connection \in Names /\ rs[i].token \in Tokens
<1>1. rs[i] \in BoundedRow
  OBVIOUS
<1>2. QED
  BY <1>1 DEF BoundedRow

\* Bounded rows are rows.
LEMMA BoundedRows ==
    ASSUME NEW rs \in Seq(BoundedRow)
    PROVE  rs \in Seq(Row)
<1>1. BoundedRow \subseteq Row
  BY SmallNumbers DEF BoundedRow, Row
<1>2. QED
  BY <1>1

\* What is looked up is a token of the bound.
LEMMA TokenIsBounded ==
    ASSUME rows \in Seq(BoundedRow), NEW n
    PROVE  /\ TokenOf(n) \in Tokens
           /\ FirstOf(n) # 0 => FirstOf(n) \in DOMAIN rows
<1> DEFINE i == FirstOf(n)
<1>1. rows \in Seq(Row)
  BY BoundedRows
<1>2. \/ i = 0 /\ \A j \in DOMAIN rows : rows[j].connection # n
      \/ i \in DOMAIN rows /\ i # 0 /\ rows[i].connection = n
  BY <1>1, FoundByConnection DEF FirstOf
<1>3. TokenOf(n) = IF i = 0 THEN NoToken ELSE rows[i].token
  BY DEF TokenOf
<1> HIDE DEF i
<1>4. TokenOf(n) \in Tokens
  BY <1>2, <1>3, SmallNumbers, BoundedFields
<1> USE DEF i
<1>5. QED
  BY <1>2, <1>4

\* The edits that create, as they begin and end.
LEMMA CreatingChanges ==
    ASSUME editors \in [Editors -> BoundedEdit], IsFiniteSet(Creating),
           NEW e \in Editors, NEW x, editors' = [editors EXCEPT ![e] = x]
    PROVE  /\ IsFiniteSet(Creating') /\ Cardinality(Creating') \in Nat
           /\ x.step # "create" => Cardinality(Creating') <= Cardinality(Creating)
           /\ x.step # "create" /\ editors[e].step = "create" => Cardinality(Creating') = Cardinality(Creating) - 1
           /\ Cardinality(Creating') <= Cardinality(Creating) + 1
<1>1. \A f \in Editors : editors'[f] = IF f = e THEN x ELSE editors[f]
  OBVIOUS
<1>2. Creating' = IF x.step = "create" THEN Creating \cup {e} ELSE Creating \ {e}
  BY <1>1 DEF Creating
<1>3. e \in Creating <=> editors[e].step = "create"
  BY DEF Creating
<1> DEFINE C == Creating
           D == Creating'
<1>4. IsFiniteSet(C) /\ Cardinality(C) \in Nat
  BY FS_CardinalityType
<1> HIDE DEF C
<1>5. /\ IsFiniteSet(C \cup {e}) /\ Cardinality(C \cup {e}) = IF e \in C THEN Cardinality(C) ELSE Cardinality(C) + 1
      /\ IsFiniteSet(C \ {e}) /\ Cardinality(C \ {e}) = IF e \in C THEN Cardinality(C) - 1 ELSE Cardinality(C)
  BY <1>4, FS_AddElement, FS_RemoveElement
<1>6. IsFiniteSet(D) /\ D = IF x.step = "create" THEN C \cup {e} ELSE C \ {e}
  BY <1>2, <1>5 DEF C
<1>7. Cardinality(C \cup {e}) \in Nat /\ Cardinality(C \ {e}) \in Nat
  BY <1>5, FS_CardinalityType
<1>8. e \in C <=> editors[e].step = "create"
  BY <1>3 DEF C
<1> HIDE DEF D
<1>9. /\ Cardinality(D) \in Nat
      /\ x.step # "create" => Cardinality(D) <= Cardinality(C)
      /\ x.step # "create" /\ editors[e].step = "create" => Cardinality(D) = Cardinality(C) - 1
      /\ Cardinality(D) <= Cardinality(C) + 1
  BY <1>4, <1>5, <1>6, <1>7, <1>8
<1>10. QED
  BY <1>6, <1>9 DEF C, D

\* In the beginning there is neither a row nor an edit.
LEMMA TypeInit == CredentialInit => TypeInv
<1> SUFFICES ASSUME CredentialInit PROVE TypeInv
  OBVIOUS
<1>1. NoEdit \in BoundedEdit /\ NoEdit.step = "idle"
  BY FirstIsName, SmallNumbers DEF NoEdit, BoundedEdit, First
<1>2. DatabaseBounded
  <2>1. rows \in Seq(BoundedRow)
    BY DEF CredentialInit
  <2>2. editors \in [Editors -> BoundedEdit] /\ latest \in [Names -> Tokens]
    BY <1>1, SmallNumbers DEF CredentialInit, Names
  <2>3. QED
    BY <2>1, <2>2, SmallNumbers DEF CredentialInit, DatabaseBounded
<1>3. ExchangeBounded
  BY SmallNumbers DEF CredentialInit, ExchangeBounded, NoMessage
<1>4. Creating = {}
  BY <1>1 DEF CredentialInit, Creating
<1>5. CountInv
  BY <1>4, SmallNumbers, FS_EmptySet DEF CredentialInit, CountInv
<1>6. QED
  BY <1>2, <1>3, <1>5, TypeParts DEF TypeInv, CredentialInit

\* Steps that leave the database, or the exchange, alone.
LEMMA ExchangeTypeStep ==
    ASSUME TypeInv, UNCHANGED database, ExchangeBounded', failures' \in Nat
    PROVE  TypeInv'
<1>1. DatabaseBounded /\ CountInv
  BY TypeParts DEF TypeInv
<1>2. DatabaseBounded' /\ CountInv'
  BY <1>1 DEF DatabaseBounded, CountInv, Creating, database
<1>3. CredentialTypeOK'
  BY <1>2 DEF CredentialTypeOK, DatabaseBounded, ExchangeBounded, BoundedRow, BoundedEdit, Names
<1>4. QED
  BY <1>2, <1>3 DEF TypeInv

LEMMA DatabaseTypeStep ==
    ASSUME TypeInv, UNCHANGED exchange, DatabaseBounded', CountInv', failures' \in Nat
    PROVE  TypeInv'
<1>1. ExchangeBounded
  BY TypeParts DEF TypeInv
<1>2. ExchangeBounded'
  BY <1>1 DEF ExchangeBounded, exchange
<1>3. CredentialTypeOK'
  BY <1>2 DEF CredentialTypeOK, DatabaseBounded, ExchangeBounded, BoundedRow, BoundedEdit, Names
<1>4. QED
  BY <1>3 DEF TypeInv

\* Calls and messages carry tokens of the rows.
LEMMA CallTypes ==
    ASSUME TypeInv, NEW c \in Callers, Call(c) \/ CallerStep(c) \/ Message(c) \/ Lose(c)
    PROVE  TypeInv'
<1>1. DatabaseBounded /\ ExchangeBounded /\ failures \in Nat /\ MaxFailures \in Nat
  BY TypeParts, ExchangeBoundsAssumption DEF TypeInv
<1>2. ServiceOf[c] \in Services /\ NoToken \in Tokens
  BY ServiceIsService, SmallNumbers
<1>3. cache[ServiceOf[c]] \in Tokens /\ wire[c].token \in Tokens
  BY <1>1, <1>2 DEF ExchangeBounded
<1>4. LookUp \in Tokens
  BY <1>1, TokenIsBounded DEF DatabaseBounded, LookUp
<1>5. UNCHANGED database /\ failures' \in Nat
  BY <1>1 DEF Call, CallerStep, CheckCache, Poll, Message, Answer, Receive, Lose
<1>6. ExchangeBounded'
  <2>1. CASE Call(c)
    BY <1>1, <2>1 DEF Call, ExchangeBounded
  <2>2. CASE CheckCache(c)
    <3>1. CASE cache[ServiceOf[c]] # NoToken
      BY <1>1, <1>3, <2>2, <3>1 DEF CheckCache, ExchangeBounded
    <3>2. CASE cache[ServiceOf[c]] = NoToken
      <4>1. /\ callers' = [callers EXCEPT ![c] = "polling"] /\ wire' = [wire EXCEPT ![c].at = "request"]
            /\ UNCHANGED <<got, cache, unanswered>>
        BY <2>2, <3>2 DEF CheckCache
      <4>2. floor' = floor \/ floor' = [floor EXCEPT ![ServiceOf[c]] = LookUp]
        BY <2>2, <3>2 DEF CheckCache
      <4>3. floor' \in [Services -> Tokens]
        BY <1>1, <1>4, <4>2 DEF ExchangeBounded
      <4>4. wire' \in [Callers -> [at : {"none", "request", "response"}, token : Tokens]]
        BY <1>1, <4>1 DEF ExchangeBounded
      <4>5. QED
        BY <1>1, <4>1, <4>3, <4>4 DEF ExchangeBounded
    <3>3. QED
      BY <3>1, <3>2
  <2>3. CASE Poll(c)
    BY <1>1, <1>3, <2>3 DEF Poll, ExchangeBounded
  <2>4. CASE Answer(c)
    <3>1. /\ UNCHANGED <<callers, got, cache, floor>> /\ unanswered' \in BOOLEAN
          /\ \E m \in {NoMessage, [at |-> "response", token |-> LookUp]} : wire' = [wire EXCEPT ![c] = m]
      BY <1>1, <2>4 DEF Answer, ExchangeBounded
    <3>2. {NoMessage, [at |-> "response", token |-> LookUp]} \subseteq [at : {"none", "request", "response"}, token : Tokens]
      BY <1>2, <1>4 DEF NoMessage
    <3>3. QED
      BY <1>1, <3>1, <3>2 DEF ExchangeBounded
  <2>5. CASE Receive(c)
    BY <1>1, <1>2, <1>3, <2>5 DEF Receive, ExchangeBounded, NoMessage
  <2>6. CASE Lose(c)
    BY <1>1, <1>2, <2>6 DEF Lose, ExchangeBounded, NoMessage
  <2>7. QED
    BY <2>1, <2>2, <2>3, <2>4, <2>5, <2>6 DEF CallerStep, Message
<1>7. QED
  BY <1>5, <1>6, ExchangeTypeStep

\* An edit takes the next number, which is within the bound.
LEMMA BeginTypes ==
    ASSUME TypeInv, NEW e \in Editors, NEW edit \in BoundedEdit, Begin(e, edit)
    PROVE  TypeInv'
<1>1. DatabaseBounded /\ CountInv /\ failures \in Nat
  BY TypeParts DEF TypeInv
<1>2. /\ edits < MaxEdits /\ edits' = edits + 1
      /\ UNCHANGED <<rows, created, latest, exchange, failures>>
  BY DEF Begin
<1>3. editors' = [editors EXCEPT ![e] = edit] /\ overlapped' \in BOOLEAN
  BY <1>1 DEF Begin, DatabaseBounded
<1>4. edits' \in Tokens /\ edits' \in Nat
  BY <1>1, <1>2, SmallNumbers DEF DatabaseBounded, Tokens
<1>6. DatabaseBounded'
  BY <1>1, <1>2, <1>3, <1>4 DEF DatabaseBounded
<1>7. IsFiniteSet(Creating') /\ Cardinality(Creating') \in Nat /\ Cardinality(Creating') <= Cardinality(Creating) + 1
  BY <1>1, <1>3, CreatingChanges DEF DatabaseBounded, CountInv
<1>8. CountInv'
  <2>1. Cardinality(Creating) \in Nat /\ created \in Nat /\ edits \in Nat
    BY <1>1, FS_CardinalityType, SmallNumbers DEF CountInv, DatabaseBounded
  <2>2. QED
    BY <1>1, <1>2, <1>7, <2>1, SmallNumbers DEF CountInv
<1>9. QED
  BY <1>1, <1>2, <1>6, <1>8, DatabaseTypeStep

\* What an edit begins with.
LEMMA ReadTypes ==
    ASSUME TypeInv, NEW e \in Editors,
           \/ \E n \in Names : Upsert(e, n)
           \/ \E i \in DOMAIN rows, n \in Names : UpsertById(e, i, n)
           \/ \E i \in DOMAIN rows : OAuthCallback(e, i)
    PROVE  TypeInv'
<1>1. rows \in Seq(BoundedRow)
  BY TypeParts DEF TypeInv, DatabaseBounded
<1>2. \A i \in DOMAIN rows : rows[i].id \in RowIds /\ rows[i].connection \in Names
  BY <1>1, BoundedFields
<1>3. NoEdit.token \in Tokens /\ NoEdit = [step |-> "idle", id |-> 0, connection |-> First, token |-> NoToken]
  BY SmallNumbers DEF NoEdit, First
<1>4. \A n : FirstOf(n) # 0 => FirstOf(n) \in DOMAIN rows
  BY <1>1, TokenIsBounded
<1>4a. edits < MaxEdits => NewToken \in Tokens
  BY SmallNumbers DEF TypeInv, CredentialTypeOK, NewToken, Tokens
<1>5. ASSUME NEW n \in Names, Upsert(e, n) PROVE TypeInv'
  <2>1. PICK token \in {NewToken, TokenOf(n)} :
          Begin(e, [NoEdit EXCEPT !.step = IF FirstOf(n) = 0 THEN "create" ELSE "update",
                                  !.id = IF FirstOf(n) = 0 THEN 0 ELSE rows[FirstOf(n)].id,
                                  !.connection = n,
                                  !.token = token])
    BY <1>5 DEF Upsert
  <2> DEFINE edit == [NoEdit EXCEPT !.step = IF FirstOf(n) = 0 THEN "create" ELSE "update",
                                    !.id = IF FirstOf(n) = 0 THEN 0 ELSE rows[FirstOf(n)].id,
                                    !.connection = n,
                                    !.token = token]
  <2>2. NewToken \in Tokens
    BY <1>4a, <2>1 DEF Begin
  <2>3. edit \in BoundedEdit
    BY <1>1, <1>2, <1>3, <1>4, <2>2, TokenIsBounded, SmallNumbers DEF BoundedEdit
  <2>4. QED
    BY <2>1, <2>3, BeginTypes
<1>6. ASSUME NEW i \in DOMAIN rows, NEW n \in Names, UpsertById(e, i, n) PROVE TypeInv'
  <2> DEFINE edit == [NoEdit EXCEPT !.step = "byid", !.id = rows[i].id, !.connection = n,
                                    !.token = NewToken]
  <2>1. Begin(e, edit)
    BY <1>6 DEF UpsertById
  <2>2. NewToken \in Tokens
    BY <1>4a, <2>1 DEF Begin
  <2>3. edit \in BoundedEdit
    BY <1>2, <1>3, <2>2 DEF BoundedEdit
  <2>4. QED
    BY <2>1, <2>3, BeginTypes
<1>7. ASSUME NEW i \in DOMAIN rows, OAuthCallback(e, i) PROVE TypeInv'
  <2> DEFINE edit == [NoEdit EXCEPT !.step = "update", !.id = rows[i].id,
                                    !.connection = rows[i].connection, !.token = NewToken]
  <2>1. Begin(e, edit)
    BY <1>7 DEF OAuthCallback
  <2>2. NewToken \in Tokens
    BY <1>4a, <2>1 DEF Begin
  <2>3. edit \in BoundedEdit
    BY <1>2, <1>3, <2>2 DEF BoundedEdit
  <2>4. QED
    BY <2>1, <2>3, BeginTypes
<1>8. QED
  BY <1>5, <1>6, <1>7

\* What an edit writes; only a created row takes a new id.
LEMMA WriteTypes ==
    ASSUME TypeInv, NEW e \in Editors, Edit(e) \/ EditFails(e)
    PROVE  TypeInv'
<1>1. DatabaseBounded /\ CountInv /\ failures \in Nat /\ MaxFailures \in Nat
  BY TypeParts, ExchangeBoundsAssumption DEF TypeInv
<1>2. /\ Ended(e) /\ failures' \in Nat /\ UNCHANGED <<edits, overlapped, exchange>>
  <2>1. CASE Update(e)
    BY <1>1, <2>1 DEF Update
  <2>2. CASE UpdateById(e) \/ Create(e) \/ EditFails(e)
    BY <1>1, <2>2 DEF UpdateById, Create, EditFails
  <2>3. QED
    BY <2>1, <2>2 DEF Edit
<1>3. NoEdit \in BoundedEdit /\ NoEdit.step = "idle"
  BY FirstIsName, SmallNumbers DEF NoEdit, BoundedEdit, First
<1>4. editors' = [editors EXCEPT ![e] = NoEdit] /\ editors' \in [Editors -> BoundedEdit]
  BY <1>1, <1>2, <1>3 DEF Ended, DatabaseBounded
<1>5. editors[e].id \in RowIds /\ editors[e].connection \in Names /\ editors[e].token \in Tokens
  BY <1>1 DEF DatabaseBounded, BoundedEdit
<1>6. /\ IsFiniteSet(Creating') /\ Cardinality(Creating') \in Nat /\ Cardinality(Creating') <= Cardinality(Creating)
      /\ editors[e].step = "create" => Cardinality(Creating') = Cardinality(Creating) - 1
  BY <1>1, <1>3, <1>4, CreatingChanges DEF DatabaseBounded, CountInv
<1>7. Cardinality(Creating) \in Nat /\ created \in Nat /\ edits \in Nat
  BY <1>1, FS_CardinalityType, SmallNumbers DEF CountInv, DatabaseBounded
<1>8. CASE Update(e)
  <2> DEFINE i == SelectInSeq(rows, LAMBDA r : r.id = editors[e].id)
  <2>1. created' = created
    BY <1>8 DEF Update
  <2>2. rows' \in Seq(BoundedRow) /\ latest' \in [Names -> Tokens]
    <3>1. i = 0 => UNCHANGED <<rows, latest>>
      BY <1>8 DEF Update
    <3>2. i # 0 => /\ rows' = [rows EXCEPT ![i].token = editors[e].token,
                                           ![i].connection = editors[e].connection]
                   /\ latest' = [latest EXCEPT ![editors[e].connection] = editors[e].token]
      BY <1>8 DEF Update
    <3>3. rows \in Seq(Row)
      BY <1>1, BoundedRows DEF DatabaseBounded
    <3>4. i = 0 \/ (i \in DOMAIN rows /\ i # 0 /\ rows[i].id = editors[e].id)
      BY <3>3, FoundById, Zenon
    <3> HIDE DEF i
    <3>5. rows \in Seq(BoundedRow) /\ latest \in [Names -> Tokens]
      BY <1>1 DEF DatabaseBounded
    <3>6. ASSUME i \in DOMAIN rows
          PROVE  [rows EXCEPT ![i].token = editors[e].token, ![i].connection = editors[e].connection] \in Seq(BoundedRow)
      <4> DEFINE x == [rows[i] EXCEPT !.token = editors[e].token, !.connection = editors[e].connection]
      <4>1. x \in BoundedRow
        <5>1. rows[i] \in BoundedRow
          BY <3>5, <3>6, BoundedFields
        <5>2. QED
          BY <1>5, <5>1 DEF BoundedRow
      <4>2. [rows EXCEPT ![i].token = editors[e].token, ![i].connection = editors[e].connection]
              = [rows EXCEPT ![i] = x]
        BY <3>5, <3>6
      <4> HIDE DEF x
      <4>3. [rows EXCEPT ![i] = x] \in Seq(BoundedRow)
        BY <3>5, <3>6, <4>1
      <4>4. QED
        BY <4>2, <4>3
    <3>7. QED
      BY <1>5, <3>1, <3>2, <3>5, <3>6, <3>4
  <2>3. DatabaseBounded'
    BY <1>1, <1>2, <1>4, <2>1, <2>2 DEF DatabaseBounded
  <2>4. CountInv'
    BY <1>1, <1>2, <1>6, <1>7, <2>1 DEF CountInv
  <2>5. QED
    BY <1>2, <2>3, <2>4, DatabaseTypeStep
<1>9. CASE Create(e)
  <2>1. /\ editors[e].step = "create" /\ created' = created + 1
        /\ rows' = Append(rows, [id |-> created', connection |-> editors[e].connection, token |-> editors[e].token])
        /\ latest' = [latest EXCEPT ![editors[e].connection] = editors[e].token]
    BY <1>9 DEF Create
  <2>2. CountInv'
    BY <1>1, <1>2, <1>6, <1>7, <2>1 DEF CountInv
  <2>3. created' \in RowIds \ {0}
    BY <1>1, <1>2, <1>6, <1>7, <2>1, <2>2, SmallNumbers DEF CountInv, RowIds
  <2>4. [id |-> created', connection |-> editors[e].connection, token |-> editors[e].token] \in BoundedRow
    BY <1>5, <2>3 DEF BoundedRow
  <2>5. rows' \in Seq(BoundedRow) /\ latest' \in [Names -> Tokens]
    BY <1>1, <1>5, <2>1, <2>4 DEF DatabaseBounded
  <2>6. DatabaseBounded'
    BY <1>1, <1>2, <1>4, <2>3, <2>5 DEF DatabaseBounded
  <2>7. QED
    BY <1>2, <2>2, <2>6, DatabaseTypeStep
<1>10. CASE UpdateById(e) \/ EditFails(e)
  <2>1. UNCHANGED <<rows, created, latest>>
    BY <1>10 DEF UpdateById, EditFails
  <2>2. DatabaseBounded'
    BY <1>1, <1>2, <1>4, <2>1 DEF DatabaseBounded
  <2>3. CountInv'
    BY <1>1, <1>2, <1>6, <1>7, <2>1 DEF CountInv
  <2>4. QED
    BY <1>2, <2>2, <2>3, DatabaseTypeStep
<1>11. QED
  BY <1>8, <1>9, <1>10 DEF Edit

\* A deletion counts as an edit, and leaves rows of the table.
LEMMA ClearTypes ==
    ASSUME TypeInv, NEW i \in DOMAIN rows, Clear(i)
    PROVE  TypeInv'
<1>1. DatabaseBounded /\ CountInv /\ failures \in Nat
  BY TypeParts DEF TypeInv
<1>2. /\ edits < MaxEdits /\ edits' = edits + 1 /\ rows' = RemoveAt(rows, i)
      /\ latest' = [latest EXCEPT ![rows[i].connection] = NoToken]
      /\ overlapped' \in BOOLEAN
      /\ UNCHANGED <<created, editors, exchange, failures>>
  BY <1>1 DEF Clear, DatabaseBounded
<1>3. rows \in Seq(BoundedRow) /\ edits \in Nat /\ created \in Nat
  BY <1>1, SmallNumbers DEF DatabaseBounded
<1>4. rows' \in Seq(BoundedRow)
  BY <1>2, <1>3, Removed
<1>5. latest' \in [Names -> Tokens]
  BY <1>1, <1>2, SmallNumbers DEF DatabaseBounded
<1>6. DatabaseBounded'
  BY <1>1, <1>2, <1>3, <1>4, <1>5 DEF DatabaseBounded
<1>7. CountInv'
  <2>1. Cardinality(Creating) \in Nat /\ Creating' = Creating
    BY <1>1, <1>2, FS_CardinalityType DEF CountInv, Creating
  <2>2. QED
    BY <1>1, <1>2, <1>3, <2>1, SmallNumbers DEF CountInv
<1>8. QED
  BY <1>1, <1>2, <1>6, <1>7, DatabaseTypeStep

\* Every step keeps types and bounds.
LEMMA TypeNext == TypeInv /\ [CredentialNext]_credentialVars => TypeInv'
<1> SUFFICES ASSUME TypeInv, [CredentialNext]_credentialVars PROVE TypeInv'
  OBVIOUS
<1>1. CASE UNCHANGED credentialVars
  BY <1>1 DEF credentialVars, database, exchange, TypeInv, CredentialTypeOK, CountInv, Creating
<1>2. QED
  BY <1>1, CallTypes, ReadTypes, WriteTypes, ClearTypes DEF CredentialNext, Names

\* RowIds and tokens stay within the number of edits, and every variable keeps its type,
\* whatever edits, messages and failures come.
THEOREM CredentialTypeCorrect == CredentialSpec => []CredentialTypeOK
<1>1. CredentialSpec => []TypeInv
  BY TypeInit, TypeNext, PTL DEF CredentialSpec
<1>2. TypeInv => CredentialTypeOK
  BY DEF TypeInv
<1>3. QED
  BY <1>1, <1>2, PTL

=============================================================================
