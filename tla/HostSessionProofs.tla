------------------------- MODULE HostSessionProofs -------------------------
(***************************************************************************)
(* Safety of a host for every set of agents and every bound: when its flag *)
(* can be trusted, how often a message is handled, which Agent objects     *)
(* hear messages.                                                          *)
(***************************************************************************)
EXTENDS HostSession, SequenceTheorems, FiniteSetTheorems,
        WellFoundedInduction, TLAPS

-----------------------------------------------------------------------------
(* Numbers and sequences.                                                  *)

\* Min picks the least member of a set of naturals.
LEMMA MinIsMember ==
    ASSUME NEW I \in SUBSET Nat, I # {}
    PROVE  Min(I) \in I /\ \A y \in I : Min(I) <= y
<1>1. PICK x \in I : \A y \in I : ~(<<y, x>> \in OpToRel(<, Nat))
  BY NatLessThanWellFounded, WFMin
<1>2. \A y \in I : x <= y
  <2>1. \A n, k \in Nat : n < k => <<n, k>> \in OpToRel(<, Nat)
    BY DEF OpToRel
  <2>2. \A y \in I : ~(y < x)
    BY <1>1, <2>1
  <2>3. QED
    BY <2>2
<1>3. QED
  BY <1>2 DEF Min

\* What is left when a place is removed: each place that is left was another
\* place than the removed one, and every other place is left.
LEMMA Removed ==
    ASSUME NEW S, NEW rs \in Seq(S), NEW i \in DOMAIN rs
    PROVE  LET left == RemoveAt(rs, i)
               was(k) == IF k < i THEN k ELSE k + 1
           IN  /\ left \in Seq(S)
               /\ \A k \in DOMAIN left : was(k) \in DOMAIN rs \ {i} /\ left[k] = rs[was(k)]
               /\ \A j \in DOMAIN rs \ {i} : \E k \in DOMAIN left : was(k) = j
<1> DEFINE a == SubSeq(rs, 1, i - 1)
           b == SubSeq(rs, i + 1, Len(rs))
           was(k) == IF k < i THEN k ELSE k + 1
<1>1. Len(rs) \in Nat /\ i \in 1 .. Len(rs) /\ \A j \in 1 .. Len(rs) : rs[j] \in S
  OBVIOUS
<1>2. /\ a \in Seq(S) /\ Len(a) = i - 1
      /\ \A k \in 1 .. i - 1 : a[k] = rs[k]
  BY <1>1
<1>3. /\ b \in Seq(S) /\ Len(b) = Len(rs) - i
      /\ \A k \in 1 .. Len(rs) - i : b[k] = rs[i + k]
  BY <1>1
<1> HIDE DEF a, b
<1>4. /\ a \o b \in Seq(S) /\ Len(a \o b) = Len(rs) - 1
      /\ \A k \in 1 .. Len(rs) - 1 : (a \o b)[k] = IF k < i THEN a[k] ELSE b[k - (i - 1)]
  <2>1. \A v, w \in Seq(S) :
          /\ v \o w \in Seq(S)
          /\ Len(v \o w) = Len(v) + Len(w)
          /\ \A k \in 1 .. Len(v) + Len(w) : (v \o w)[k] = IF k <= Len(v) THEN v[k] ELSE w[k - Len(v)]
    BY ConcatProperties
  <2>2. Len(a) + Len(b) = Len(rs) - 1
    BY <1>1, <1>2, <1>3
  <2>3. /\ a \o b \in Seq(S) /\ Len(a \o b) = Len(rs) - 1
        /\ \A k \in 1 .. Len(rs) - 1 : (a \o b)[k] = IF k <= i - 1 THEN a[k] ELSE b[k - (i - 1)]
    <3>1. /\ a \o b \in Seq(S) /\ Len(a \o b) = Len(a) + Len(b)
          /\ \A k \in 1 .. Len(a) + Len(b) :
                (a \o b)[k] = IF k <= Len(a) THEN a[k] ELSE b[k - Len(a)]
      BY <1>2, <1>3, <2>1, Zenon
    <3>2. QED
      BY <1>2, <2>2, <3>1
  <2>4. \A k \in 1 .. Len(rs) - 1 : k <= i - 1 <=> k < i
    BY <1>1
  <2>5. QED
    BY <2>3, <2>4
<1> DEFINE left == a \o b
<1> HIDE DEF left
<1>5. ASSUME NEW k \in DOMAIN left PROVE was(k) \in DOMAIN rs \ {i} /\ left[k] = rs[was(k)]
  <2>1. k \in 1 .. Len(rs) - 1
    BY <1>1, <1>4 DEF left
  <2>2. CASE k < i
    BY <1>1, <1>2, <1>4, <2>1, <2>2 DEF left
  <2>3. CASE k >= i
    <3>1. k - (i - 1) \in 1 .. Len(rs) - i /\ i + (k - (i - 1)) = k + 1
      BY <1>1, <2>1, <2>3
    <3>2. QED
      BY <1>1, <1>3, <1>4, <2>1, <2>3, <3>1 DEF left
  <2>4. QED
    BY <1>1, <2>1, <2>2, <2>3
<1>6. ASSUME NEW j \in DOMAIN rs \ {i} PROVE \E k \in DOMAIN left : was(k) = j
  <2>1. DOMAIN left = 1 .. Len(rs) - 1
    BY <1>1, <1>4 DEF left
  <2>2. j \in 1 .. Len(rs) /\ j # i
    BY <1>1, <1>6
  <2>3. CASE j < i
    <3>1. j \in DOMAIN left /\ was(j) = j
      BY <1>1, <2>1, <2>2, <2>3
    <3>2. QED
      BY <3>1
  <2>4. CASE j > i
    <3>1. j - 1 \in DOMAIN left /\ was(j - 1) = j
      BY <1>1, <2>1, <2>2, <2>4
    <3>2. QED
      BY <3>1
  <2>5. QED
    BY <1>1, <2>2, <2>3, <2>4
<1>7. left \in Seq(S) /\ left = RemoveAt(rs, i)
  BY <1>4 DEF RemoveAt, left, a, b
<1>8. QED
  BY <1>5, <1>6, <1>7

\* The last three of five.
LEMMA LastThree ==
    ASSUME NEW s1, NEW s2, NEW s3, NEW s4, NEW s5
    PROVE  SubSeq(<<s1, s2, s3, s4, s5>>, 3, 5) = <<s3, s4, s5>>
<1> DEFINE s == <<s1, s2, s3, s4, s5>>
<1>1. Len(s) = 5 /\ s[3] = s3 /\ s[4] = s4 /\ s[5] = s5
  OBVIOUS
<1>2. SubSeq(s, 3, 5) = [i \in 1 .. 3 |-> s[i + 2]]
  OBVIOUS
<1>3. [i \in 1 .. 3 |-> s[i + 2]] = <<s3, s4, s5>>
  BY <1>1
<1>4. QED
  BY <1>2, <1>3

\* The elements of a sequence.
LEMMA ElementsAreMembers ==
    ASSUME NEW S, NEW s \in Seq(S)
    PROVE  ToSet(s) \subseteq S
  BY DEF ToSet

\* Append adds one element.
LEMMA AppendAdds ==
    ASSUME NEW S, NEW s \in Seq(S), NEW x \in S
    PROVE  ToSet(Append(s, x)) = ToSet(s) \cup {x}
<1>1. /\ Len(Append(s, x)) = Len(s) + 1 /\ Append(s, x) \in Seq(S)
      /\ Append(s, x)[Len(s) + 1] = x
      /\ \A j \in 1 .. Len(s) : Append(s, x)[j] = s[j]
  BY AppendProperties
<1>2. DOMAIN Append(s, x) = 1 .. Len(s) + 1 /\ DOMAIN s = 1 .. Len(s) /\ Len(s) \in Nat
  BY <1>1
<1>3. \A y : y \in ToSet(Append(s, x)) <=> y \in ToSet(s) \cup {x}
  <2>1. \A j \in 1 .. Len(s) + 1 : j \in 1 .. Len(s) \/ j = Len(s) + 1
    BY <1>2
  <2>2. 1 .. Len(s) \subseteq 1 .. Len(s) + 1 /\ Len(s) + 1 \in 1 .. Len(s) + 1
    BY <1>2
  <2>3. QED
    BY <1>1, <1>2, <2>1, <2>2 DEF ToSet
<1>4. QED
  BY <1>3

-----------------------------------------------------------------------------

Tasks == 1 .. MaxTasks
Names == UNION {TopicOf[a] : a \in Agents}
ClientType == [link : BOOLEAN, filters : SUBSET Filters, refused : SUBSET Filters,
               callbacks : [Keys -> Seq(0 .. MaxInstances)]]
Agent == [agent : Agents, topics : SUBSET Names, enabled : BOOLEAN, connected : BOOLEAN,
          disposed : BOOLEAN]
Task == [step : TaskSteps, todo : SUBSET Agents, inst : 0 .. MaxInstances]

HostKey == CallbackTopic(HostFilter)
AgentKey(a) == CallbackTopic(AgentFilter(a))

\* The topics the server answered a subscription to, with a grant or a refusal.
Replied(c) == c.filters \cup c.refused

\* What a Broker object holds for the host and for an agent.
Hosted(c) == Len(c.callbacks[HostKey])
Hearing(c, a) == ToSet(c.callbacks[AgentKey(a)])

StopType == [step : StopSteps, seen : SUBSET Agents, todo : SUBSET Agents, inst : 0 .. MaxInstances]

\* Who is who: instances are those of the agents they are filed under.
Building == {"assign", "subscribe", "subscribing"}
RecordInv ==
    /\ Len(instances) <= MaxInstances
    /\ \A i \in Instances : instances[i].enabled
    /\ \A a \in Agents : agents[a] # 0 => agents[a] \in Instances /\ instances[agents[a]].agent = a
    /\ \A n \in DOMAIN factory : factory[n] \in Instances
    /\ \A a \in Agents : \A i \in Hearing(client, a) : i \in Instances /\ instances[i].agent = a
TaskInv ==
    \A k \in Tasks :
        /\ tasks[k].step \in Building \cup {"unsubscribing", "dispose"} => tasks[k].inst \in Instances
        /\ tasks[k].step \in Building => instances[tasks[k].inst].agent \in tasks[k].todo
StopInv ==
    /\ stop.step = "agent" => stop.inst \in Instances
    /\ stop.todo \subseteq stop.seen
InstanceInv == TypeOK /\ RecordInv /\ TaskInv /\ StopInv

-----------------------------------------------------------------------------
(* Topics and the Broker object.                                           *)

\* The key of a topic with five segments.
LEMMA KeyOfFive ==
    ASSUME NEW s1, NEW s2, NEW s3, NEW s4, NEW s5
    PROVE  CallbackTopic(<<s1, s2, s3, s4, s5>>) = <<s3, s4, s5>>
<1>1. SubSeq(<<s1, s2, s3, s4, s5>>, 3, 5) = <<s3, s4, s5>>
  BY LastThree
<1>2. Len(<<s1, s2, s3, s4, s5>>) = 5
  OBVIOUS
<1>3. QED
  BY <1>1, <1>2 DEF CallbackTopic

\* Handlers of the host and of each agent are filed under keys of their own, and no
\* key is a filter.
LEMMA KeysApart ==
    /\ HostFilter \in Filters /\ HostKey \in Keys
    /\ \A a \in Agents : /\ AgentFilter(a) \in Filters
                         /\ AgentKey(a) \in Keys
                         /\ AgentKey(a) # HostKey
                         /\ AgentFilter(a) # HostFilter
    /\ \A n \in Names : ConnectTo(n) \in Filters /\ ConnectTo(n) # HostFilter
    /\ \A a, b \in Agents : AgentKey(a) = AgentKey(b) => a = b
    /\ \A f \in Filters : CallbackTopic(f) \notin Filters
<1>1. HostFilter = <<"event", "+", Authority, HostId, "-">>
  BY IdsAssumption DEF HostFilter, SubscribeAsHost, SubscribeAs, SenderSegment
<1>2. ASSUME NEW a \in Agents PROVE AgentFilter(a) = <<"event", "+", Authority, "-", a>>
  BY IdsAssumption DEF AgentFilter, SubscribeAsAgent, SubscribeAs, SenderSegment
<1>3. HostKey = <<Authority, HostId, "-">>
  BY <1>1, KeyOfFive DEF HostKey
<1>4. ASSUME NEW a \in Agents PROVE AgentKey(a) = <<Authority, "-", a>>
  BY <1>2, KeyOfFive DEF AgentKey
<1>5. ASSUME NEW n \in Names PROVE ConnectTo(n) = <<"connect", n>> /\ CallbackTopic(ConnectTo(n)) = <<>>
  BY DEF ConnectTo, CallbackTopic
<1>6. Filters = {HostFilter} \cup {AgentFilter(a) : a \in Agents} \cup {ConnectTo(n) : n \in Names}
  BY DEF Filters, Names
<1>7. Keys = {CallbackTopic(f) : f \in Filters}
  BY DEF Keys
<1>8. ASSUME NEW f \in Filters PROVE Len(f) \in {5, 2} /\ Len(CallbackTopic(f)) \in {3, 0}
  <2>1. CASE f = HostFilter
    BY <1>1, <1>3, <2>1 DEF HostKey
  <2>2. CASE \E a \in Agents : f = AgentFilter(a)
    BY <1>2, <1>4, <2>2 DEF AgentKey
  <2>3. CASE \E n \in Names : f = ConnectTo(n)
    BY <1>5, <2>3
  <2>4. QED
    BY <1>6, <2>1, <2>2, <2>3
<1>9. \A f \in Filters : CallbackTopic(f) \notin Filters
  BY <1>8
<1>10. \A a \in Agents : AgentKey(a) # HostKey /\ AgentFilter(a) # HostFilter
  BY <1>1, <1>2, <1>3, <1>4, IdsAssumption
<1>11. \A n \in Names : ConnectTo(n) # HostFilter
  BY <1>1, <1>5
<1>12. \A a, b \in Agents : AgentKey(a) = AgentKey(b) => a = b
  BY <1>4
<1>13. QED
  BY <1>6, <1>7, <1>9, <1>10, <1>11, <1>12 DEF HostKey, AgentKey

\* Only the host's own filter lets a message to the host through, and it is filed
\* under the host's key.
LEMMA HostTopicIsTheHosts ==
    /\ CallbackTopic(HostTopic) = HostKey
    /\ \A f \in Filters : Matches(f, HostTopic) <=> f = HostFilter
<1>1. HostFilter = <<"event", "+", Authority, HostId, "-">>
  BY IdsAssumption DEF HostFilter, SubscribeAsHost, SubscribeAs, SenderSegment
<1>2. HostTopic = <<"event", "-", Authority, HostId, "-">>
  BY DEF HostTopic, PublishToHost, PublishTo, SenderSegment
<1>3. Len(HostTopic) = 5
  BY <1>2
<1>4. CallbackTopic(HostTopic) = HostKey
  BY <1>1, <1>2, KeyOfFive DEF HostKey
<1>5. Matches(HostFilter, HostTopic)
  BY <1>1, <1>2 DEF Matches
<1>6. ASSUME NEW a \in Agents PROVE ~Matches(AgentFilter(a), HostTopic)
  <2>1. AgentFilter(a) = <<"event", "+", Authority, "-", a>>
    BY IdsAssumption DEF AgentFilter, SubscribeAsAgent, SubscribeAs, SenderSegment
  <2>2. 4 \in DOMAIN AgentFilter(a) /\ AgentFilter(a)[4] \notin {"+", HostTopic[4]}
    BY <1>2, <2>1, IdsAssumption
  <2>3. QED
    BY <2>2 DEF Matches
<1>7. ASSUME NEW n \in Names PROVE ~Matches(ConnectTo(n), HostTopic)
  BY <1>3 DEF Matches, ConnectTo
<1>8. QED
  BY <1>4, <1>5, <1>6, <1>7, KeysApart DEF Filters, Names

\* What each method of Broker does to the host's handlers and to an agent's.
LEMMA ClientOperations ==
    ASSUME NEW c \in ClientType
    PROVE  /\ Hosted(c) \in Nat
           /\ \A a \in Agents : Hearing(c, a) \subseteq 0 .. MaxInstances
           /\ /\ Linked(c) \in ClientType /\ Linked(c).link /\ Replied(Linked(c)) = {}
              /\ Hosted(Linked(c)) = Hosted(c)
              /\ \A b \in Agents : Hearing(Linked(c), b) = Hearing(c, b)
           /\ /\ Unlinked(c) \in ClientType /\ ~Unlinked(c).link /\ Replied(Unlinked(c)) = {}
              /\ Hosted(Unlinked(c)) = Hosted(c)
              /\ \A b \in Agents : Hearing(Unlinked(c), b) = Hearing(c, b)
           /\ \A f \in Filters : /\ WithFilter(c, f) \in ClientType
                                 /\ WithFilter(c, f).link = c.link
                                 /\ Replied(WithFilter(c, f)) = Replied(c) \cup {f}
                                 /\ Hosted(WithFilter(c, f)) = Hosted(c)
                                 /\ \A b \in Agents : Hearing(WithFilter(c, f), b) = Hearing(c, b)
           /\ \A f \in Filters : /\ WithRefusal(c, f) \in ClientType
                                 /\ WithRefusal(c, f).link = c.link
                                 /\ Replied(WithRefusal(c, f)) = Replied(c) \cup {f}
                                 /\ Hosted(WithRefusal(c, f)) = Hosted(c)
                                 /\ \A b \in Agents : Hearing(WithRefusal(c, f), b) = Hearing(c, b)
           /\ \A f \in Filters : WithoutFilter(c, f) = c
<1> USE DEF ClientType
<1>1. Hosted(c) \in Nat
  BY KeysApart DEF Hosted
<1>2. \A a \in Agents : Hearing(c, a) \subseteq 0 .. MaxInstances
  <2>1. \A s \in Seq(0 .. MaxInstances) : ToSet(s) \subseteq 0 .. MaxInstances
    BY ElementsAreMembers, Zenon
  <2>2. QED
    BY <2>1, KeysApart DEF Hearing
<1>3. /\ Linked(c) \in ClientType /\ Linked(c).link /\ Replied(Linked(c)) = {}
      /\ Linked(c).callbacks = c.callbacks
  BY DEF Linked, Replied
<1>4. /\ Unlinked(c) \in ClientType /\ ~Unlinked(c).link /\ Replied(Unlinked(c)) = {}
      /\ Unlinked(c).callbacks = c.callbacks
  BY DEF Unlinked, Replied
<1>5. \A f \in Filters : /\ WithFilter(c, f) \in ClientType
                         /\ WithFilter(c, f).link = c.link
                         /\ Replied(WithFilter(c, f)) = Replied(c) \cup {f}
                         /\ WithFilter(c, f).callbacks = c.callbacks
  BY DEF WithFilter, Replied
<1>8. \A f \in Filters : /\ WithRefusal(c, f) \in ClientType
                         /\ WithRefusal(c, f).link = c.link
                         /\ Replied(WithRefusal(c, f)) = Replied(c) \cup {f}
                         /\ WithRefusal(c, f).callbacks = c.callbacks
  BY DEF WithRefusal, Replied
<1>6. \A f \in Filters : WithoutFilter(c, f) = c
  <2>1. TAKE f \in Filters
  <2>2. c.filters \ {CallbackTopic(f)} = c.filters
    BY KeysApart
  <2>3. QED
    BY <2>2 DEF WithoutFilter
<1>7. QED
  BY <1>1, <1>2, <1>3, <1>4, <1>5, <1>6, <1>8 DEF Hosted, Hearing

\* Filing a handler and dropping all handlers of a topic.
LEMMA FilingAndDropping ==
    ASSUME NEW c \in ClientType, NEW i \in 0 .. MaxInstances, NEW f \in Filters
    PROVE  LET d == WithHandler(c, f, i)
               e == WithoutHandlers(c, f)
               key == CallbackTopic(f)
           IN  /\ d \in ClientType /\ d.link = c.link /\ Replied(d) = Replied(c)
               /\ \A k \in Keys \ {key} : d.callbacks[k] = c.callbacks[k]
               /\ Len(d.callbacks[key]) = Len(c.callbacks[key]) + 1
               /\ ToSet(d.callbacks[key]) = ToSet(c.callbacks[key]) \cup {i}
               /\ e \in ClientType /\ e.link = c.link /\ Replied(e) = Replied(c)
               /\ \A k \in Keys \ {key} : e.callbacks[k] = c.callbacks[k]
               /\ Len(e.callbacks[key]) = 0
               /\ ToSet(e.callbacks[key]) = {}
<1> USE DEF ClientType
<1>1. ASSUME NEW g \in Filters, NEW s \in Seq(0 .. MaxInstances),
             NEW d, d = [c EXCEPT !.callbacks = [@ EXCEPT ![CallbackTopic(g)] = s]]
      PROVE  /\ d \in ClientType /\ d.link = c.link /\ d.filters = c.filters /\ d.refused = c.refused
             /\ \A k \in Keys : d.callbacks[k] = IF k = CallbackTopic(g) THEN s ELSE c.callbacks[k]
  BY <1>1
<1>2. ASSUME NEW k \in Keys
      PROVE  /\ Append(c.callbacks[k], i) \in Seq(0 .. MaxInstances)
             /\ Len(Append(c.callbacks[k], i)) = Len(c.callbacks[k]) + 1
             /\ ToSet(Append(c.callbacks[k], i)) = ToSet(c.callbacks[k]) \cup {i}
  <2>1. c.callbacks[k] \in Seq(0 .. MaxInstances)
    BY <1>2
  <2>2. ToSet(Append(c.callbacks[k], i)) = ToSet(c.callbacks[k]) \cup {i}
    <3>1. \A s \in Seq(0 .. MaxInstances), x \in 0 .. MaxInstances : ToSet(Append(s, x)) = ToSet(s) \cup {x}
      BY AppendAdds
    <3>2. QED
      BY <2>1, <3>1, Zenon
  <2>3. QED
    BY <2>1, <2>2
<1>3. <<>> \in Seq(0 .. MaxInstances) /\ Len(<<>>) = 0 /\ ToSet(<<>>) = {}
  BY DEF ToSet
<1>4. \A g \in Filters : CallbackTopic(g) \in Keys
  BY DEF Keys
<1>5. \A g \in Filters :
        /\ WithHandler(c, g, i) = [c EXCEPT !.callbacks = [@ EXCEPT ![CallbackTopic(g)] = Append(c.callbacks[CallbackTopic(g)], i)]]
        /\ WithoutHandlers(c, g) = [c EXCEPT !.callbacks = [@ EXCEPT ![CallbackTopic(g)] = <<>>]]
  BY <1>4 DEF WithHandler, WithoutHandlers
<1> DEFINE key == CallbackTopic(f)
           longer == Append(c.callbacks[key], i)
           d == [c EXCEPT !.callbacks = [@ EXCEPT ![key] = longer]]
           e == [c EXCEPT !.callbacks = [@ EXCEPT ![key] = <<>>]]
<1>6. longer \in Seq(0 .. MaxInstances)
  BY <1>2, <1>4
<1>7. /\ d \in ClientType /\ d.link = c.link /\ d.filters = c.filters /\ d.refused = c.refused
      /\ \A k \in Keys : d.callbacks[k] = IF k = key THEN longer ELSE c.callbacks[k]
  BY <1>1, <1>6
<1>8. /\ e \in ClientType /\ e.link = c.link /\ e.filters = c.filters /\ e.refused = c.refused
      /\ \A k \in Keys : e.callbacks[k] = IF k = key THEN <<>> ELSE c.callbacks[k]
  BY <1>1, <1>3
<1>9. d = WithHandler(c, f, i) /\ e = WithoutHandlers(c, f)
  BY <1>5
<1>10. key \in Keys
  BY <1>4
<1>11. Replied(d) = Replied(c) /\ Replied(e) = Replied(c)
  BY <1>7, <1>8 DEF Replied
<1>12. QED
  BY <1>2, <1>3, <1>7, <1>8, <1>9, <1>10, <1>11

\* Filing the handler of the host adds one to it and to nothing else; dropping it drops
\* every copy at once.
LEMMA HostOperations ==
    ASSUME NEW c \in ClientType
    PROVE  /\ LET d == WithHandler(c, HostFilter, HostHandler) IN
              /\ d \in ClientType /\ d.link = c.link /\ Replied(d) = Replied(c)
              /\ Hosted(d) = Hosted(c) + 1
              /\ \A b \in Agents : Hearing(d, b) = Hearing(c, b)
           /\ LET d == WithoutHandlers(c, HostFilter) IN
              /\ d \in ClientType /\ d.link = c.link /\ Replied(d) = Replied(c)
              /\ Hosted(d) = 0
              /\ \A b \in Agents : Hearing(d, b) = Hearing(c, b)
<1>1. HostHandler \in 0 .. MaxInstances /\ HostFilter \in Filters
  BY BoundsAssumption, KeysApart DEF HostHandler
<1>2. \A b \in Agents : AgentKey(b) \in Keys \ {CallbackTopic(HostFilter)}
  BY KeysApart DEF HostKey
<1>3. QED
  BY <1>1, <1>2, FilingAndDropping DEF Hosted, Hearing, HostKey

\* Filing and dropping the handler of an agent concern that agent only: not the others,
\* not the host.
LEMMA AgentOperations ==
    ASSUME NEW c \in ClientType, NEW a \in Agents, NEW i \in 0 .. MaxInstances
    PROVE  /\ LET d == WithHandler(c, AgentFilter(a), i) IN
              /\ d \in ClientType /\ d.link = c.link /\ Replied(d) = Replied(c)
              /\ Hosted(d) = Hosted(c)
              /\ Hearing(d, a) = Hearing(c, a) \cup {i}
              /\ \A b \in Agents \ {a} : Hearing(d, b) = Hearing(c, b)
           /\ LET d == WithoutHandlers(c, AgentFilter(a)) IN
              /\ d \in ClientType /\ d.link = c.link /\ Replied(d) = Replied(c)
              /\ Hosted(d) = Hosted(c)
              /\ Hearing(d, a) = {}
              /\ \A b \in Agents \ {a} : Hearing(d, b) = Hearing(c, b)
<1> DEFINE f == AgentFilter(a)
<1>1. f \in Filters
  BY KeysApart
<1>2. /\ \A b \in Agents \ {a} : AgentKey(b) \in Keys \ {CallbackTopic(f)}
      /\ HostKey \in Keys \ {CallbackTopic(f)}
      /\ AgentKey(a) = CallbackTopic(f)
  BY KeysApart DEF AgentKey
<1>3. f = AgentFilter(a)
  OBVIOUS
<1> HIDE DEF f
<1>4. LET d == WithHandler(c, f, i)
          e == WithoutHandlers(c, f)
          key == CallbackTopic(f)
      IN  /\ d \in ClientType /\ d.link = c.link /\ Replied(d) = Replied(c)
          /\ \A k \in Keys \ {key} : d.callbacks[k] = c.callbacks[k]
          /\ Len(d.callbacks[key]) = Len(c.callbacks[key]) + 1
          /\ ToSet(d.callbacks[key]) = ToSet(c.callbacks[key]) \cup {i}
          /\ e \in ClientType /\ e.link = c.link /\ Replied(e) = Replied(c)
          /\ \A k \in Keys \ {key} : e.callbacks[k] = c.callbacks[k]
          /\ Len(e.callbacks[key]) = 0
          /\ ToSet(e.callbacks[key]) = {}
  BY <1>1, FilingAndDropping, ZenonT(60)
<1>5. QED
  BY <1>2, <1>3, <1>4 DEF Hosted, Hearing, AgentKey

\* A subscription the server answered, with a grant or a refusal, files nothing.
LEMMA FilterAdded ==
    ASSUME NEW c \in ClientType, NEW f \in Filters,
           NEW d \in {WithFilter(c, f), WithRefusal(c, f)}
    PROVE  /\ d \in ClientType /\ d.link = c.link /\ Replied(d) = Replied(c) \cup {f}
           /\ Hosted(d) = Hosted(c)
           /\ \A b \in Agents : Hearing(d, b) = Hearing(c, b)
<1>1. CASE d = WithFilter(c, f)
  <2>1. d \in ClientType /\ d.callbacks = c.callbacks
    BY <1>1 DEF WithFilter, ClientType
  <2>2. d.link = c.link /\ d.filters = c.filters \cup {f} /\ d.refused = c.refused
    BY <1>1 DEF WithFilter, ClientType
  <2>3. QED
    BY <2>1, <2>2 DEF Hosted, Hearing, Replied
<1>2. CASE d = WithRefusal(c, f)
  <2>1. d \in ClientType /\ d.callbacks = c.callbacks
    BY <1>2 DEF WithRefusal, ClientType
  <2>2. d.link = c.link /\ d.filters = c.filters /\ d.refused = c.refused \cup {f}
    BY <1>2 DEF WithRefusal, ClientType
  <2>3. QED
    BY <2>1, <2>2 DEF Hosted, Hearing, Replied
<1>3. QED
  BY <1>1, <1>2

\* AgentOperations, for the agents as one function: who still hears after an Unsubscribe.
LEMMA FewerHear ==
    ASSUME NEW c \in ClientType, NEW a \in Agents
    PROVE  LET d == WithoutHandlers(c, AgentFilter(a)) IN
           /\ d \in ClientType /\ d.link = c.link /\ Replied(d) = Replied(c)
           /\ Hosted(d) = Hosted(c)
           /\ Hearing(d, a) = {}
           /\ \A b \in Agents : Hearing(d, b) = IF b = a THEN {} ELSE Hearing(c, b)
<1>1. 0 \in 0 .. MaxInstances
  BY BoundsAssumption
<1>2. LET d == WithoutHandlers(c, AgentFilter(a)) IN
      /\ d \in ClientType /\ d.link = c.link /\ Replied(d) = Replied(c)
      /\ Hosted(d) = Hosted(c)
      /\ Hearing(d, a) = {}
      /\ \A b \in Agents \ {a} : Hearing(d, b) = Hearing(c, b)
  BY <1>1, AgentOperations
<1>3. QED
  BY <1>2

-----------------------------------------------------------------------------
(* Types, and who is who.                                                  *)

\* TypeOK by the names the proofs use.
LEMMA TypeOKIs ==
    TypeOK <=> /\ client \in ClientType
               /\ isConnected \in BOOLEAN
               /\ main \in MainSteps
               /\ stop \in StopType
               /\ agents \in [Agents -> 0 .. MaxInstances]
               /\ factory \in Seq(1 .. MaxInstances)
               /\ instances \in Seq(Agent)
               /\ tasks \in [Tasks -> Task]
               /\ requests \in Nat /\ faults \in Nat /\ starts \in Nat
               /\ stops \in Nat /\ events \in Nat /\ welcomes \in Nat
               /\ overlapped \in BOOLEAN
  BY DEF TypeOK, ClientType, StopType, Agent, Task, Names, Tasks

\* TypeOKIs, of the next state.
LEMMA TypeOKIsNext ==
    TypeOK' <=> /\ client' \in ClientType
                /\ isConnected' \in BOOLEAN
                /\ main' \in MainSteps
                /\ stop' \in StopType
                /\ agents' \in [Agents -> 0 .. MaxInstances]
                /\ factory' \in Seq(1 .. MaxInstances)
                /\ instances' \in Seq(Agent)
                /\ tasks' \in [Tasks -> Task]
                /\ requests' \in Nat /\ faults' \in Nat /\ starts' \in Nat
                /\ stops' \in Nat /\ events' \in Nat /\ welcomes' \in Nat
                /\ overlapped' \in BOOLEAN
  BY DEF TypeOK, ClientType, StopType, Agent, Task, Names, Tasks

\* A host that has not started has no agents and no handlers.
LEMMA InstanceInit == Init => InstanceInv
<1> SUFFICES ASSUME Init PROVE InstanceInv
  OBVIOUS
<1> USE DEF Init
<1>1. NoTask \in Task /\ NoTask.step = "none"
  BY BoundsAssumption DEF NoTask, Task, TaskSteps, Unused
<1>2. /\ client \in ClientType
      /\ \A k \in Keys : client.callbacks[k] = <<>>
  BY DEF ClientType, NoClient
<1>3. \A a \in Agents : Hearing(client, a) = {}
  <2>1. ToSet(<<>>) = {}
    BY DEF ToSet
  <2>2. QED
    BY <1>2, <2>1, KeysApart DEF Hearing
<1>4. stop \in StopType /\ stop.step = "idle" /\ stop.todo \subseteq stop.seen
  BY BoundsAssumption DEF StopType, StopSteps, Unused
<1>5. TypeOK
  <2>1. tasks \in [Tasks -> Task]
    BY <1>1 DEF Tasks
  <2>2. factory \in Seq(1 .. MaxInstances) /\ instances \in Seq(Agent)
    OBVIOUS
  <2>3. agents \in [Agents -> 0 .. MaxInstances]
    BY BoundsAssumption
  <2>4. main \in MainSteps
    BY DEF MainSteps
  <2>5. QED
    BY <1>2, <1>4, <2>1, <2>2, <2>3, <2>4, TypeOKIs
<1>6. RecordInv
  BY <1>3, BoundsAssumption DEF RecordInv, Instances
<1>7. TaskInv
  BY <1>1 DEF TaskInv, Building, Tasks
<1>8. QED
  BY <1>4, <1>5, <1>6, <1>7 DEF InstanceInv, StopInv

\* A step of StartAsync, of Stop or of the network that files nobody new.
LEMMA RegistryKept ==
    ASSUME InstanceInv, UNCHANGED <<registry, tasks>>,
           client' \in ClientType, isConnected' \in BOOLEAN, main' \in MainSteps,
           \A a \in Agents : Hearing(client', a) \subseteq Hearing(client, a),
           stop' \in StopType, StopInv', requests' \in Nat, faults' \in Nat, starts' \in Nat,
           stops' \in Nat, events' \in Nat, welcomes' \in Nat, overlapped' \in BOOLEAN
    PROVE  InstanceInv'
<1>1. TypeOK'
  BY TypeOKIs, TypeOKIsNext DEF InstanceInv, registry
<1>2. RecordInv'
  BY DEF InstanceInv, RecordInv, registry, Instances
<1>3. TaskInv'
  BY DEF InstanceInv, TaskInv, registry, Instances
<1>4. QED
  BY <1>1, <1>2, <1>3 DEF InstanceInv

\* StartAsync and RunAsync leave the agents alone.
LEMMA MainKeepsInstances ==
    ASSUME InstanceInv, StartAsync \/ MainStep \/ MainLinkFails
    PROVE  InstanceInv'
<1>1. TypeOK /\ client \in ClientType /\ StopInv
  BY TypeOKIs DEF InstanceInv
<1>2. UNCHANGED <<registry, tasks, stop, events, stops, welcomes, overlapped>>
  BY DEF StartAsync, MainStep, MainLoop, MainLink, MainSubscribe, MainSubscribed, MainPublish,
         MainConnected, MainRetry, MainLinkFails, counters
<1>3. client' \in {client, Linked(client), WithHandler(client, HostFilter, HostHandler),
                   WithFilter(client, HostFilter), WithRefusal(client, HostFilter)}
  BY DEF StartAsync, MainStep, MainLoop, MainLink, MainSubscribe, MainSubscribed, MainPublish,
         MainConnected, MainRetry, MainLinkFails
<1>5. client' \in ClientType /\ \A a \in Agents : Hearing(client', a) \subseteq Hearing(client, a)
  <2>1. CASE client' = client
    BY <1>1, <2>1
  <2>2. CASE client' = Linked(client)
    BY <1>1, <2>2, ClientOperations
  <2>3. CASE client' = WithHandler(client, HostFilter, HostHandler)
    BY <1>1, <2>3, HostOperations
  <2>4. CASE client' \in {WithFilter(client, HostFilter), WithRefusal(client, HostFilter)}
    BY <1>1, <2>4, FilterAdded, KeysApart
  <2>5. QED
    BY <1>3, <2>1, <2>2, <2>3, <2>4
<1>6. /\ isConnected' \in BOOLEAN /\ main' \in MainSteps /\ requests' \in Nat
      /\ faults' \in Nat /\ starts' \in Nat
  <2> USE <1>1, TypeOKIs DEF counters
  <2>1. main' \in MainSteps
    BY DEF StartAsync, MainStep, MainLoop, MainLink, MainSubscribe, MainSubscribed,
           MainPublish, MainConnected, MainRetry, MainLinkFails, MainSteps
  <2>2. requests' \in Nat
    BY DEF StartAsync, MainStep, MainLoop, MainLink, MainSubscribe, MainSubscribed,
           MainPublish, MainConnected, MainRetry, MainLinkFails
  <2>5. isConnected' \in {isConnected, TRUE}
    BY Zenon DEF StartAsync, MainStep, MainLoop, MainLink, MainSubscribe, MainSubscribed,
           MainPublish, MainConnected, MainRetry, MainLinkFails
  <2>6. isConnected' \in BOOLEAN
    BY <2>5, Zenon
  <2>3. faults' \in Nat /\ starts' \in Nat
    BY DEF StartAsync, MainStep, MainLoop, MainLink, MainSubscribe, MainSubscribed,
           MainPublish, MainConnected, MainRetry, MainLinkFails
  <2>4. QED
    BY <2>1, <2>2, <2>3, <2>6
<1>7. stop' \in StopType /\ StopInv' /\ stops' \in Nat /\ events' \in Nat /\ welcomes' \in Nat /\ overlapped' \in BOOLEAN
  BY <1>1, <1>2, TypeOKIs DEF StopInv, registry, Instances
<1>8. QED
  BY <1>2, <1>5, <1>6, <1>7, RegistryKept

\* A step of the network or of Stop.
LEMMA NetworkKeepsInstances ==
    ASSUME InstanceInv, HostConnectLost \/ LinkLost
    PROVE  InstanceInv'
<1>1. TypeOK /\ client \in ClientType /\ StopInv
  BY TypeOKIs DEF InstanceInv
<1>2. UNCHANGED <<registry, tasks, stop, isConnected, main, starts, events, stops, welcomes, overlapped>>
  BY DEF HostConnectLost, LinkLost
<1>3. client' \in ClientType /\ \A a \in Agents : Hearing(client', a) \subseteq Hearing(client, a)
  BY <1>1, ClientOperations DEF HostConnectLost, LinkLost
<1>4. requests' \in Nat /\ faults' \in Nat
  BY <1>1, TypeOKIs DEF HostConnectLost, LinkLost
<1>5. /\ stop' \in StopType /\ StopInv' /\ isConnected' \in BOOLEAN /\ main' \in MainSteps
      /\ starts' \in Nat /\ stops' \in Nat /\ events' \in Nat /\ welcomes' \in Nat
  BY <1>1, <1>2, TypeOKIs DEF StopInv, registry, Instances
<1>6. overlapped' \in BOOLEAN
  BY <1>1, <1>2, TypeOKIs, Zenon
<1>7. QED
  BY <1>2, <1>3, <1>4, <1>5, <1>6, RegistryKept

\* What a step of the task k leaves: the record t for k, the others as they were.
Becomes(k, t) ==
    /\ tasks' \in [Tasks -> Task]
    /\ tasks'[k] = t
    /\ \A j \in Tasks \ {k} : tasks'[j] = tasks[j]

\* The record of a handler that is done with its agent.
Following(k) ==
    LET a == instances[tasks[k].inst].agent IN
    IF tasks[k].todo = {a} THEN NoTask
    ELSE [step |-> "create", todo |-> tasks[k].todo \ {a}, inst |-> 0]

\* The record of a handler k after each way a step of it can end.
LEMMA TaskRecords ==
    ASSUME TypeOK, NEW k \in Tasks
    PROVE  /\ tasks[k] \in Task
           /\ NoTask \in Task
           /\ Dies(k) => Becomes(k, NoTask)
           /\ \A s \in TaskSteps : Goto(k, s) => Becomes(k, [tasks[k] EXCEPT !.step = s])
           /\ Proceed(k) => Becomes(k, Following(k)) /\ Following(k) \in Task
<1>1. tasks \in [Tasks -> Task]
  BY TypeOKIs
<1>2. NoTask \in Task
  BY BoundsAssumption DEF NoTask, Task, TaskSteps, Unused
<1>3. ASSUME NEW t \in Task, tasks' = [tasks EXCEPT ![k] = t] PROVE Becomes(k, t)
  BY <1>1, <1>3 DEF Becomes
<1>4. Dies(k) => Becomes(k, NoTask)
  BY <1>2, <1>3 DEF Dies
<1>5. ASSUME NEW s \in TaskSteps, Goto(k, s) PROVE Becomes(k, [tasks[k] EXCEPT !.step = s])
  <2> DEFINE t == [tasks[k] EXCEPT !.step = s]
  <2>1. t \in Task
    BY <1>1 DEF Task
  <2>2. tasks' = [tasks EXCEPT ![k] = t]
    BY <1>1, <1>5 DEF Goto, Task
  <2>3. QED
    BY <1>3, <2>1, <2>2
<1>6. ASSUME Proceed(k) PROVE Becomes(k, Following(k)) /\ Following(k) \in Task
  <2> DEFINE a == instances[tasks[k].inst].agent
             t == [step |-> "create", todo |-> tasks[k].todo \ {a}, inst |-> 0]
  <2>1. CASE tasks[k].todo = {a}
    BY <1>2, <1>4, <1>6, <2>1 DEF Proceed, Following
  <2>2. CASE tasks[k].todo # {a}
    <3>1. t \in Task
      BY <1>1, BoundsAssumption DEF Task, TaskSteps
    <3>2. tasks' = [tasks EXCEPT ![k] = [[[tasks[k] EXCEPT !.step = "create"]
                       EXCEPT !.todo = tasks[k].todo \ {a}] EXCEPT !.inst = 0]]
      BY <1>1, <1>6, <2>2 DEF Proceed, Task
    <3>3. [[[tasks[k] EXCEPT !.step = "create"] EXCEPT !.todo = tasks[k].todo \ {a}] EXCEPT !.inst = 0] = t
      <4>1. ASSUME NEW r \in Task, NEW todo
            PROVE  [[[r EXCEPT !.step = "create"] EXCEPT !.todo = todo] EXCEPT !.inst = 0]
                      = [step |-> "create", todo |-> todo, inst |-> 0]
        <5> DEFINE f == [n \in {"step", "todo", "inst"} |->
                           IF n = "step" THEN "create" ELSE IF n = "todo" THEN todo ELSE 0]
        <5>1. [[[r EXCEPT !.step = "create"] EXCEPT !.todo = todo] EXCEPT !.inst = 0] = f
          BY DEF Task
        <5>2. [step |-> "create", todo |-> todo, inst |-> 0] = f
          OBVIOUS
        <5>3. QED
          BY <5>1, <5>2
      <4>2. QED
        BY <1>1, <4>1
    <3>4. Becomes(k, t)
      BY <1>3, <3>1, <3>2, <3>3
    <3>5. Following(k) = t
      BY <2>2 DEF Following
    <3>6. QED
      BY <3>1, <3>4, <3>5
  <2>3. QED
    BY <2>1, <2>2
<1>7. QED
  BY <1>1, <1>2, <1>4, <1>5, <1>6

\* Setting a flag of an Agent object leaves the rest of it, and the others.
SameButFor(i) ==
    /\ instances' \in Seq(Agent) /\ Len(instances') = Len(instances)
    /\ \A j \in Instances : /\ instances'[j].agent = instances[j].agent
                            /\ instances'[j].enabled = instances[j].enabled
                            /\ j # i => instances'[j] = instances[j]

\* Setting a flag of the Agent object i changes that flag of that object only.
LEMMA FlagSet ==
    ASSUME instances \in Seq(Agent), NEW i \in Instances, NEW b \in BOOLEAN
    PROVE  /\ instances' = [instances EXCEPT ![i].connected = b] =>
                 /\ SameButFor(i)
                 /\ instances'[i].connected = b /\ instances'[i].disposed = instances[i].disposed
           /\ instances' = [instances EXCEPT ![i].disposed = b] =>
                 /\ SameButFor(i)
                 /\ instances'[i].disposed = b /\ instances'[i].connected = instances[i].connected
<1>1. instances \in [1 .. Len(instances) -> Agent] /\ Instances = 1 .. Len(instances)
  BY DEF Instances
<1>2. [instances[i] EXCEPT !.connected = b] \in Agent /\ [instances[i] EXCEPT !.disposed = b] \in Agent
  BY <1>1 DEF Agent
<1>3. ASSUME NEW x \in Agent, instances' = [instances EXCEPT ![i] = x],
             x.agent = instances[i].agent, x.enabled = instances[i].enabled
      PROVE  SameButFor(i) /\ instances'[i] = x
  BY <1>1, <1>3 DEF SameButFor
<1>4. /\ [instances EXCEPT ![i].connected = b] = [instances EXCEPT ![i] = [instances[i] EXCEPT !.connected = b]]
      /\ [instances EXCEPT ![i].disposed = b] = [instances EXCEPT ![i] = [instances[i] EXCEPT !.disposed = b]]
  BY <1>1
<1>5. ASSUME NEW r \in Agent
      PROVE  /\ [r EXCEPT !.connected = b].agent = r.agent
             /\ [r EXCEPT !.connected = b].enabled = r.enabled
             /\ [r EXCEPT !.connected = b].disposed = r.disposed
             /\ [r EXCEPT !.connected = b].connected = b
             /\ [r EXCEPT !.disposed = b].agent = r.agent
             /\ [r EXCEPT !.disposed = b].enabled = r.enabled
             /\ [r EXCEPT !.disposed = b].connected = r.connected
             /\ [r EXCEPT !.disposed = b].disposed = b
  BY DEF Agent
<1>6. instances[i] \in Agent
  BY <1>1
<1>7. ASSUME instances' = [instances EXCEPT ![i].connected = b]
      PROVE  /\ SameButFor(i)
             /\ instances'[i].connected = b /\ instances'[i].disposed = instances[i].disposed
  <2> DEFINE x == [instances[i] EXCEPT !.connected = b]
  <2>1. /\ x \in Agent /\ x.agent = instances[i].agent /\ x.enabled = instances[i].enabled
        /\ x.connected = b /\ x.disposed = instances[i].disposed
    BY <1>2, <1>5, <1>6
  <2>2. instances' = [instances EXCEPT ![i] = x]
    BY <1>4, <1>7
  <2> HIDE DEF x
  <2>3. QED
    BY <1>3, <2>1, <2>2
<1>8. ASSUME instances' = [instances EXCEPT ![i].disposed = b]
      PROVE  /\ SameButFor(i)
             /\ instances'[i].disposed = b /\ instances'[i].connected = instances[i].connected
  <2> DEFINE x == [instances[i] EXCEPT !.disposed = b]
  <2>1. /\ x \in Agent /\ x.agent = instances[i].agent /\ x.enabled = instances[i].enabled
        /\ x.disposed = b /\ x.connected = instances[i].connected
    BY <1>2, <1>5, <1>6
  <2>2. instances' = [instances EXCEPT ![i] = x]
    BY <1>4, <1>8
  <2> HIDE DEF x
  <2>3. QED
    BY <1>3, <2>1, <2>2
<1>9. QED
  BY <1>7, <1>8

\* The record of an Agent object.
LEMMA InstanceRecords ==
    ASSUME instances \in Seq(Agent), NEW i \in Instances
    PROVE  instances[i] \in Agent /\ instances[i].agent \in Agents /\ instances[i].topics \subseteq Names
<1>1. instances[i] \in Agent
  BY DEF Instances
<1>2. QED
  BY <1>1 DEF Agent

-----------------------------------------------------------------------------
(* What each step of a handler does.                                       *)

\* CreateAgent: a new, unconnected object at the end, remembered by the factory; its
\* handler goes on to assign it.
LEMMA CreateEffect ==
    ASSUME InstanceInv, NEW k \in Tasks, CreateAgent(k)
    PROVE  \E a \in tasks[k].todo \ Broken :
             /\ instances' \in Seq(Agent) /\ Len(instances') = Len(instances) + 1
             /\ Len(instances') <= MaxInstances
             /\ instances'[Len(instances')] = NewInstance(a)
             /\ \A i \in Instances : instances'[i] = instances[i]
             /\ factory' = Append(factory, Len(instances'))
             /\ Becomes(k, [step |-> "assign", todo |-> tasks[k].todo, inst |-> Len(instances')])
<1>1. TypeOK /\ instances \in Seq(Agent) /\ tasks[k] \in Task /\ tasks \in [Tasks -> Task]
  BY TypeOKIs DEF InstanceInv
<1>2. PICK a \in tasks[k].todo \ Broken :
        /\ instances' = Append(instances, NewInstance(a))
        /\ factory' = Append(factory, Len(instances'))
        /\ tasks' = [tasks EXCEPT ![k].step = "assign", ![k].inst = Len(instances')]
  BY DEF CreateAgent
<1>3. a \in Agents
  BY <1>1 DEF Task
<1>4. NewInstance(a) \in Agent
  BY <1>3 DEF NewInstance, Agent
<1>5. /\ instances' \in Seq(Agent) /\ Len(instances') = Len(instances) + 1
      /\ instances'[Len(instances')] = NewInstance(a)
      /\ \A i \in Instances : instances'[i] = instances[i]
  BY <1>1, <1>2, <1>4 DEF Instances
<1>6. Len(instances') <= MaxInstances /\ Len(instances') \in 0 .. MaxInstances
  BY <1>1, <1>5, BoundsAssumption DEF CreateAgent
<1> DEFINE n == Len(instances')
           t == [step |-> "assign", todo |-> tasks[k].todo, inst |-> n]
<1> HIDE DEF n
<1>7. Becomes(k, t)
  <2>1. t \in Task
    BY <1>1, <1>6 DEF Task, TaskSteps, n
  <2>2. [[tasks[k] EXCEPT !.step = "assign"] EXCEPT !.inst = n] = t
    <3> DEFINE f == [x \in {"step", "todo", "inst"} |->
                       IF x = "step" THEN "assign" ELSE IF x = "todo" THEN tasks[k].todo ELSE n]
    <3>1. [[tasks[k] EXCEPT !.step = "assign"] EXCEPT !.inst = n] = f
      BY <1>1 DEF Task
    <3>2. t = f
      OBVIOUS
    <3>3. QED
      BY <3>1, <3>2
  <2>3. tasks' = [tasks EXCEPT ![k] = [[tasks[k] EXCEPT !.step = "assign"] EXCEPT !.inst = n]]
    BY <1>1, <1>2 DEF n
  <2>4. QED
    BY <1>1, <2>1, <2>2, <2>3 DEF Becomes
<1>8. QED
  BY <1>2, <1>5, <1>6, <1>7 DEF n

\* A handler that only moves to another step keeps its agents and its object.
LEMMA MovedRecord ==
    ASSUME TypeOK, NEW k \in Tasks, NEW s \in TaskSteps
    PROVE  LET t == [tasks[k] EXCEPT !.step = s] IN
           t \in Task /\ t.step = s /\ t.todo = tasks[k].todo /\ t.inst = tasks[k].inst
<1>1. tasks[k] \in Task
  BY TypeOKIs
<1>2. QED
  BY <1>1 DEF Task

\* SubscribeAgent: the handler of the object is filed while linked; without a link the
\* handler dies and files nothing.
LEMMA SubscribeEffect ==
    ASSUME InstanceInv, NEW k \in Tasks, SubscribeAgent(k)
    PROVE  LET i == tasks[k].inst IN
           /\ i \in Instances
           /\ \/ /\ client.link
                 /\ client' = WithHandler(client, AgentFilter(instances[i].agent), i)
                 /\ Becomes(k, [tasks[k] EXCEPT !.step = "subscribing"])
              \/ ~client.link /\ client' = client /\ Becomes(k, NoTask)
<1>1. TypeOK /\ tasks[k].inst \in Instances /\ instances[tasks[k].inst].enabled
  BY DEF InstanceInv, TaskInv, RecordInv, Building, SubscribeAgent
<1>2. "subscribing" \in TaskSteps
  BY DEF TaskSteps
<1>3. CASE client.link
  BY <1>1, <1>2, <1>3, TaskRecords DEF SubscribeAgent
<1>4. CASE ~client.link
  BY <1>1, <1>4, TaskRecords DEF SubscribeAgent
<1>5. QED
  BY <1>1, <1>3, <1>4

\* AgentSubscribed: the object is connected and its topic subscribed while linked; without
\* a link the handler dies and leaves the object unconnected.
LEMMA SubscribedEffect ==
    ASSUME InstanceInv, NEW k \in Tasks, AgentSubscribed(k)
    PROVE  LET i == tasks[k].inst IN
           /\ i \in Instances
           /\ \/ /\ client.link
                 /\ client' \in ClientType /\ client'.link = client.link
                 /\ Replied(client) \subseteq Replied(client')
                 /\ AgentFilter(instances[i].agent) \in Replied(client')
                 /\ HostFilter \in Replied(client') => HostFilter \in Replied(client)
                 /\ Hosted(client') = Hosted(client)
                 /\ \A a \in Agents : Hearing(client', a) = Hearing(client, a)
                 /\ instances' = [instances EXCEPT ![i].connected = TRUE]
                 /\ Becomes(k, Following(k))
              \/ ~client.link /\ client' = client /\ instances' = instances /\ Becomes(k, NoTask)
<1> DEFINE i == tasks[k].inst
           f == AgentFilter(instances[i].agent)
           Answers == {WithFilter(client, f), WithRefusal(client, f)}
           more == {ConnectTo(n) : n \in instances[i].topics}
<1>1. TypeOK /\ client \in ClientType /\ instances \in Seq(Agent)
  BY TypeOKIs DEF InstanceInv
<1>2. i \in Instances
  BY DEF InstanceInv, TaskInv, Building, AgentSubscribed
<1>3. instances[i].agent \in Agents /\ instances[i].topics \subseteq Names
  BY <1>1, <1>2, InstanceRecords
<1>4. f \in Filters /\ f # HostFilter /\ more \subseteq Filters /\ HostFilter \notin more
  BY <1>3, KeysApart
<1>5. CASE client.link
  <2>1. PICK c \in Answers : client' = [c EXCEPT !.filters = @ \cup more]
    BY <1>5 DEF AgentSubscribed
  <2>2. c \in ClientType /\ c.link = client.link /\ Replied(c) = Replied(client) \cup {f}
    BY <1>1, <1>4, FilterAdded
  <2>3. /\ Hosted(c) = Hosted(client) /\ \A a \in Agents : Hearing(c, a) = Hearing(client, a)
    BY <1>1, <1>4, FilterAdded
  <2> HIDE DEF f, more
  <2>4. /\ client' \in ClientType /\ client'.link = client.link /\ client'.callbacks = c.callbacks
        /\ Replied(client') = Replied(client) \cup {f} \cup more
    BY <1>4, <2>1, <2>2 DEF ClientType, Replied
  <2>5. Hosted(client') = Hosted(client) /\ \A a \in Agents : Hearing(client', a) = Hearing(client, a)
    BY <2>3, <2>4 DEF Hosted, Hearing
  <2>6. instances' = [instances EXCEPT ![i].connected = TRUE] /\ Becomes(k, Following(k))
    BY <1>1, <1>5, TaskRecords DEF AgentSubscribed
  <2>7. HostFilter \in Replied(client') => HostFilter \in Replied(client)
    BY <1>4, <2>4
  <2>8. QED
    BY <1>2, <1>5, <2>4, <2>5, <2>6, <2>7 DEF f
<1>6. CASE ~client.link
  BY <1>1, <1>2, <1>6, TaskRecords DEF AgentSubscribed
<1>7. QED
  BY <1>5, <1>6

\* FindAgent: an unknown agent ends the handler, an unconnected one is disposed at once, a
\* connected one loses its handler first, with or without a link.
LEMMA FindEffect ==
    ASSUME InstanceInv, NEW k \in Tasks, FindAgent(k)
    PROVE  \E a \in tasks[k].todo :
             \/ agents[a] = 0 /\ client' = client /\ Becomes(k, NoTask)
             \/ /\ agents[a] \in Instances /\ ~instances[agents[a]].connected
                /\ client' = client
                /\ Becomes(k, [step |-> "dispose", todo |-> tasks[k].todo, inst |-> agents[a]])
             \/ /\ agents[a] \in Instances /\ instances[agents[a]].connected
                /\ client' = WithoutHandlers(client, AgentFilter(a))
                /\ \/ client.link /\ Becomes(k, [step |-> "unsubscribing", todo |-> tasks[k].todo, inst |-> agents[a]])
                   \/ ~client.link /\ Becomes(k, NoTask)
<1>1. TypeOK /\ tasks[k] \in Task /\ tasks \in [Tasks -> Task]
  BY TypeOKIs DEF InstanceInv
<1>2. PICK a \in tasks[k].todo :
        LET i == agents[a] IN
         IF i = 0 THEN Dies(k) /\ UNCHANGED client
         ELSE IF ~instances[i].connected
         THEN /\ tasks' = [tasks EXCEPT ![k].step = "dispose", ![k].inst = i]
              /\ UNCHANGED client
         ELSE /\ client' = WithoutHandlers(client, AgentFilter(a))
              /\ IF client.link
                 THEN tasks' = [tasks EXCEPT ![k].step = "unsubscribing", ![k].inst = i]
                 ELSE Dies(k)
  BY DEF FindAgent
<1>3. a \in Agents
  BY <1>1 DEF Task
<1>4. agents[a] # 0 => agents[a] \in Instances
  BY <1>3 DEF InstanceInv, RecordInv
<1>5. agents[a] \in 0 .. MaxInstances
  BY <1>1, <1>3, TypeOKIs
<1>6. ASSUME NEW s \in TaskSteps, NEW i \in 0 .. MaxInstances,
             tasks' = [tasks EXCEPT ![k].step = s, ![k].inst = i]
      PROVE  Becomes(k, [step |-> s, todo |-> tasks[k].todo, inst |-> i])
  <2> DEFINE t == [step |-> s, todo |-> tasks[k].todo, inst |-> i]
             f == [x \in {"step", "todo", "inst"} |->
                       IF x = "step" THEN s ELSE IF x = "todo" THEN tasks[k].todo ELSE i]
  <2>1. t \in Task
    BY <1>1 DEF Task
  <2>2. [[tasks[k] EXCEPT !.step = s] EXCEPT !.inst = i] = f
    BY <1>1 DEF Task
  <2>3. t = f
    OBVIOUS
  <2>4. tasks' = [tasks EXCEPT ![k] = [[tasks[k] EXCEPT !.step = s] EXCEPT !.inst = i]]
    BY <1>1, <1>6
  <2>5. tasks' = [tasks EXCEPT ![k] = t]
    BY <2>2, <2>3, <2>4
  <2>6. QED
    BY <1>1, <2>1, <2>5 DEF Becomes
<1>7. "dispose" \in TaskSteps /\ "unsubscribing" \in TaskSteps
  BY DEF TaskSteps
<1>8. Dies(k) => Becomes(k, NoTask)
  BY <1>1, TaskRecords
<1>9. CASE agents[a] = 0
  BY <1>2, <1>8, <1>9
<1>10. CASE agents[a] # 0 /\ ~instances[agents[a]].connected
  <2>1. Becomes(k, [step |-> "dispose", todo |-> tasks[k].todo, inst |-> agents[a]]) /\ client' = client
    BY <1>2, <1>5, <1>6, <1>7, <1>10
  <2>2. QED
    BY <1>4, <1>10, <2>1
<1>11. CASE agents[a] # 0 /\ instances[agents[a]].connected
  <2>1. client' = WithoutHandlers(client, AgentFilter(a))
    BY <1>2, <1>11
  <2>2. CASE client.link
    <3>1. Becomes(k, [step |-> "unsubscribing", todo |-> tasks[k].todo, inst |-> agents[a]])
      BY <1>2, <1>5, <1>6, <1>7, <1>11, <2>2
    <3>2. QED
      BY <1>4, <1>11, <2>1, <2>2, <3>1
  <2>3. CASE ~client.link
    BY <1>2, <1>4, <1>8, <1>11, <2>1, <2>3
  <2>4. QED
    BY <2>2, <2>3
<1>12. QED
  BY <1>9, <1>10, <1>11

\* AgentUnsubscribed: the object is no longer connected when the broker answered; without a
\* link the handler dies and the object stays connected.
LEMMA UnsubscribedEffect ==
    ASSUME InstanceInv, NEW k \in Tasks, AgentUnsubscribed(k)
    PROVE  LET i == tasks[k].inst IN
           /\ i \in Instances
           /\ client' = client
           /\ \/ /\ client.link
                 /\ instances' = [instances EXCEPT ![i].connected = FALSE]
                 /\ Becomes(k, [tasks[k] EXCEPT !.step = "dispose"])
              \/ ~client.link /\ instances' = instances /\ Becomes(k, NoTask)
<1>1. TypeOK /\ client \in ClientType /\ instances \in Seq(Agent) /\ tasks[k].inst \in Instances
  BY TypeOKIs DEF InstanceInv, TaskInv, AgentUnsubscribed
<1>2. instances[tasks[k].inst].agent \in Agents
  BY <1>1, InstanceRecords
<1>3. WithoutFilter(client, AgentFilter(instances[tasks[k].inst].agent)) = client
  BY <1>1, <1>2, ClientOperations, KeysApart
<1>4. "dispose" \in TaskSteps
  BY DEF TaskSteps
<1>5. CASE client.link
  BY <1>1, <1>3, <1>4, <1>5, TaskRecords DEF AgentUnsubscribed
<1>6. CASE ~client.link
  BY <1>1, <1>6, TaskRecords DEF AgentUnsubscribed
<1>7. QED
  BY <1>1, <1>5, <1>6

\* DisposeAgent: at most one object is disposed, one of the agent's own.
LEMMA DisposeEffect ==
    ASSUME InstanceInv, NEW k \in Tasks, DisposeAgent(k)
    PROVE  LET a == instances[tasks[k].inst].agent IN
           /\ tasks[k].inst \in Instances
           /\ \/ factory' = factory /\ instances' = instances
              \/ \E i \in Instances :
                    /\ instances[i].agent = a
                    /\ instances' = [instances EXCEPT ![i].disposed = TRUE]
                    /\ factory' \in Seq(1 .. MaxInstances)
                    /\ \A n \in DOMAIN factory' : factory'[n] \in Instances
           /\ Becomes(k, NoTask)
<1> DEFINE a == instances[tasks[k].inst].agent
           P(i) == instances[i].agent = a
           found == SelectInSeq(factory, P)
<1>1. TypeOK /\ factory \in Seq(1 .. MaxInstances) /\ tasks[k].inst \in Instances
  BY TypeOKIs DEF InstanceInv, TaskInv, DisposeAgent
<1>2. Becomes(k, NoTask)
  BY <1>1, TaskRecords DEF DisposeAgent
<1>3. IF found = 0 THEN UNCHANGED <<factory, instances>>
      ELSE /\ factory' = RemoveAt(factory, found)
           /\ instances' = [instances EXCEPT ![factory[found]].disposed = TRUE]
  BY DEF DisposeAgent
<1>4. found # 0 => found \in DOMAIN factory /\ P(factory[found])
  <2> DEFINE I == {n \in 1 .. Len(factory) : P(factory[n])}
  <2>1. found = IF I # {} THEN Min(I) ELSE 0
    BY DEF SelectInSeq
  <2>2. I \in SUBSET Nat
    OBVIOUS
  <2>3. I # {} => Min(I) \in I
    <3> HIDE DEF I
    <3>1. QED
      BY <2>2, MinIsMember
  <2>4. found # 0 => found \in I
    <3> HIDE DEF I, found
    <3>1. QED
      BY <2>1, <2>3
  <2>5. \A n \in I : n \in DOMAIN factory /\ P(factory[n])
    BY <1>1
  <2>6. QED
    <3> HIDE DEF I, found, P
    <3>1. QED
      BY <2>4, <2>5
<1>5. CASE found # 0
  <2> DEFINE i == factory[found]
             left == RemoveAt(factory, found)
  <2>1. found \in DOMAIN factory /\ instances[i].agent = a /\ i \in Instances
    BY <1>4, <1>5 DEF InstanceInv, RecordInv
  <2>2. left \in Seq(1 .. MaxInstances) /\ \A n \in DOMAIN left : \E m \in DOMAIN factory : left[n] = factory[m]
    <3>1. ASSUME NEW S, NEW s \in Seq(S), NEW j \in DOMAIN s
          PROVE  RemoveAt(s, j) \in Seq(S)
                 /\ \A n \in DOMAIN RemoveAt(s, j) : \E m \in DOMAIN s : RemoveAt(s, j)[n] = s[m]
      <4>1. /\ RemoveAt(s, j) \in Seq(S)
            /\ \A n \in DOMAIN RemoveAt(s, j) :
                  /\ (IF n < j THEN n ELSE n + 1) \in DOMAIN s \ {j}
                  /\ RemoveAt(s, j)[n] = s[IF n < j THEN n ELSE n + 1]
        BY <3>1, Removed
      <4>2. QED
        BY <4>1, Zenon
    <3> HIDE DEF found
    <3>2. QED
      BY <1>1, <2>1, <3>1
  <2>3. \A n \in DOMAIN left : left[n] \in Instances
    BY <2>2 DEF InstanceInv, RecordInv
  <2>4. factory' = left /\ instances' = [instances EXCEPT ![i].disposed = TRUE]
    BY <1>3, <1>5
  <2>5. QED
    <3> HIDE DEF left, found, i
    <3>1. QED
      BY <1>1, <1>2, <2>1, <2>2, <2>3, <2>4
<1>6. CASE found = 0
  BY <1>1, <1>2, <1>3, <1>6
<1>7. QED
  BY <1>5, <1>6

-----------------------------------------------------------------------------
(* Every step keeps who is who.                                            *)

\* What a step of a handler has to establish about the records, once its effect is known.
LEMMA TaskStepKeeps ==
    ASSUME InstanceInv, NEW k \in Tasks, NEW t, Becomes(k, t),
           UNCHANGED <<isConnected, main, stop, requests, counters, overlapped>>,
           client' \in ClientType, agents' \in [Agents -> 0 .. MaxInstances],
           factory' \in Seq(1 .. MaxInstances), instances' \in Seq(Agent),
           RecordInv',
           Len(instances) <= Len(instances'),
           \A i \in Instances : instances'[i].agent = instances[i].agent,
           t.step \in Building \cup {"unsubscribing", "dispose"} => t.inst \in 1 .. Len(instances'),
           t.step \in Building => instances'[t.inst].agent \in t.todo
    PROVE  InstanceInv'
<1>1. instances \in Seq(Agent) /\ Len(instances) \in Nat /\ Len(instances') \in Nat
  BY TypeOKIs DEF InstanceInv
<1>2. Instances' = 1 .. Len(instances') /\ Instances \subseteq Instances'
  BY <1>1 DEF Instances
<1>3. TypeOK'
  <2>1. tasks' \in [Tasks -> Task]
    BY DEF Becomes
  <2>2. overlapped' \in BOOLEAN /\ isConnected' \in BOOLEAN
    BY TypeOKIs, Zenon DEF InstanceInv
  <2>3. /\ main' \in MainSteps /\ stop' \in StopType /\ requests' \in Nat /\ faults' \in Nat
        /\ starts' \in Nat /\ stops' \in Nat /\ events' \in Nat /\ welcomes' \in Nat
    BY TypeOKIs DEF InstanceInv, counters
  <2>4. QED
    BY <2>1, <2>2, <2>3, TypeOKIsNext
<1>4. TaskInv'
  <2> SUFFICES ASSUME NEW j \in Tasks
               PROVE  /\ tasks'[j].step \in Building \cup {"unsubscribing", "dispose"} => tasks'[j].inst \in Instances'
                      /\ tasks'[j].step \in Building => instances'[tasks'[j].inst].agent \in tasks'[j].todo
    BY DEF TaskInv, Tasks
  <2>1. CASE j = k
    BY <1>2, <2>1 DEF Becomes
  <2>2. CASE j # k
    BY <1>2, <2>2 DEF Becomes, InstanceInv, TaskInv
  <2>3. QED
    BY <2>1, <2>2
<1>5. StopInv'
  BY <1>2 DEF InstanceInv, StopInv
<1>6. QED
  BY <1>3, <1>4, <1>5 DEF InstanceInv

\* A step that flags an object, files one under its agent, or drops some.
LEMMA RecordsKept ==
    ASSUME InstanceInv, UNCHANGED agents, instances' \in Seq(Agent),
           Len(instances') = Len(instances),
           \A i \in Instances : /\ instances'[i].agent = instances[i].agent
                                /\ instances'[i].enabled = instances[i].enabled,
           \A n \in DOMAIN factory' : factory'[n] \in Instances,
           \A a \in Agents : \A i \in Hearing(client', a) :
               i \in Hearing(client, a) \/ (i \in Instances /\ instances[i].agent = a)
    PROVE  RecordInv'
<1>1. Instances' = Instances
  BY DEF Instances
<1>2. \A i \in Instances : instances'[i].enabled
  BY DEF InstanceInv, RecordInv
<1>3. QED
  BY <1>1, <1>2 DEF InstanceInv, RecordInv

\* No step of a handler mixes up the agents.
LEMMA TasksKeepInstances ==
    ASSUME InstanceInv, NEW k \in Tasks, TaskStep(k)
    PROVE  InstanceInv'
<1>1. /\ TypeOK /\ client \in ClientType /\ instances \in Seq(Agent) /\ factory \in Seq(1 .. MaxInstances)
      /\ agents \in [Agents -> 0 .. MaxInstances] /\ tasks[k] \in Task
  BY TypeOKIs DEF InstanceInv
<1>2. \A n \in DOMAIN factory : factory[n] \in Instances
  BY DEF InstanceInv, RecordInv
<1>3. Instances = 1 .. Len(instances) /\ Instances \subseteq 1 .. MaxInstances
  BY BoundsAssumption, <1>1 DEF Instances, InstanceInv, RecordInv
<1>4. NoTask.step = "none"
  BY DEF NoTask
<1>5. CASE CreateAgent(k)
  <2>1. PICK a \in tasks[k].todo \ Broken :
             /\ instances' \in Seq(Agent) /\ Len(instances') = Len(instances) + 1
             /\ Len(instances') <= MaxInstances
             /\ instances'[Len(instances')] = NewInstance(a)
             /\ \A i \in Instances : instances'[i] = instances[i]
             /\ factory' = Append(factory, Len(instances'))
             /\ Becomes(k, [step |-> "assign", todo |-> tasks[k].todo, inst |-> Len(instances')])
    BY <1>5, CreateEffect
  <2>2. UNCHANGED <<client, isConnected, main, stop, agents, requests, counters, overlapped>>
    BY <1>5 DEF CreateAgent
  <2> DEFINE n == Len(instances')
  <2>3. n \in 1 .. MaxInstances /\ 1 .. n = Instances \cup {n} /\ n \notin Instances
    BY <1>1, <1>3, <2>1
  <2>4. instances'[n].agent = a /\ instances'[n].enabled
    BY <2>1 DEF NewInstance
  <2>5. factory' \in Seq(1 .. MaxInstances) /\ \A m \in DOMAIN factory' : factory'[m] \in 1 .. n
    <3>1. /\ factory' \in Seq(1 .. MaxInstances) /\ Len(factory') = Len(factory) + 1
          /\ factory'[Len(factory) + 1] = n
          /\ \A j \in 1 .. Len(factory) : factory'[j] = factory[j]
      BY <1>1, <2>1, <2>3, AppendProperties
    <3>2. DOMAIN factory' = 1 .. Len(factory) + 1 /\ DOMAIN factory = 1 .. Len(factory) /\ Len(factory) \in Nat
      BY <1>1, <3>1
    <3>3. QED
      BY <1>2, <2>3, <3>1, <3>2
  <2>6. RecordInv'
    <3>1. Instances' = 1 .. n
      BY DEF Instances
    <3>2. \A i \in Instances' : instances'[i].enabled
      BY <2>1, <2>3, <2>4, <3>1 DEF InstanceInv, RecordInv
    <3>3. \A b \in Agents : agents'[b] # 0 => agents'[b] \in Instances' /\ instances'[agents'[b]].agent = b
      BY <2>1, <2>2, <2>3, <3>1 DEF InstanceInv, RecordInv
    <3>4. \A b \in Agents : \A i \in Hearing(client', b) : i \in Instances' /\ instances'[i].agent = b
      BY <2>1, <2>2, <2>3, <3>1 DEF InstanceInv, RecordInv
    <3>5. QED
      BY <2>1, <2>5, <3>1, <3>2, <3>3, <3>4 DEF RecordInv
  <2>7. Len(instances) <= n /\ n \in 1 .. n
    BY <1>1, <2>1, <2>3
  <2>8. client' \in ClientType /\ agents' \in [Agents -> 0 .. MaxInstances]
    BY <1>1, <2>2
  <2> DEFINE t == [step |-> "assign", todo |-> tasks[k].todo, inst |-> n]
  <2>9. t.inst \in 1 .. n /\ instances'[t.inst].agent \in t.todo /\ Becomes(k, t)
    BY <2>1, <2>4, <2>7
  <2>10. \A i \in Instances : instances'[i].agent = instances[i].agent
    BY <2>1
  <2>11. instances' \in Seq(Agent)
    BY <2>1
  <2> HIDE DEF t
  <2>12. QED
    BY <2>2, <2>5, <2>6, <2>7, <2>8, <2>9, <2>10, <2>11, TaskStepKeeps
<1>6. CASE CreateAgentFails(k) \/ AssignAgent(k)
  <2>1. /\ UNCHANGED <<client, isConnected, main, stop, factory, instances, requests, counters, overlapped>>
    BY <1>6 DEF CreateAgentFails, AssignAgent, registry
  <2>2. CASE CreateAgentFails(k)
    <3>1. Becomes(k, NoTask) /\ agents' = agents
      BY <1>1, <2>2, TaskRecords DEF CreateAgentFails, registry
    <3>2. RecordInv'
      BY <1>1, <1>2, <2>1, <3>1, RecordsKept
    <3>3. QED
      BY <1>1, <1>4, <2>1, <3>1, <3>2, TaskStepKeeps DEF Building
  <2>3. CASE AssignAgent(k)
    <3> DEFINE i == tasks[k].inst
               b == instances[i].agent
               t == [tasks[k] EXCEPT !.step = "subscribe"]
    <3>1. i \in Instances /\ b \in tasks[k].todo /\ b \in Agents
      BY <1>1, <2>3, InstanceRecords DEF InstanceInv, TaskInv, Building, AssignAgent
    <3>2. agents' = [agents EXCEPT ![b] = i]
      BY <2>3 DEF AssignAgent
    <3>3. "subscribe" \in TaskSteps
      BY DEF TaskSteps
    <3>4. Becomes(k, t) /\ t.step = "subscribe" /\ t.todo = tasks[k].todo /\ t.inst = i
      BY <1>1, <2>3, <3>3, TaskRecords, MovedRecord DEF AssignAgent
    <3>5. agents' \in [Agents -> 0 .. MaxInstances]
      BY <1>1, <1>3, <3>1, <3>2
    <3>6. RecordInv'
      <4>1. \A a \in Agents : agents'[a] # 0 => agents'[a] \in Instances /\ instances[agents'[a]].agent = a
        BY <1>1, <3>1, <3>2 DEF InstanceInv, RecordInv
      <4>2. QED
        BY <2>1, <4>1 DEF InstanceInv, RecordInv, Instances
    <3> HIDE DEF t
    <3>7. QED
      BY <1>1, <1>3, <2>1, <3>1, <3>4, <3>5, <3>6, TaskStepKeeps
  <2>4. QED
    BY <1>6, <2>2, <2>3
<1>7. CASE SubscribeAgent(k)
  <2>1. UNCHANGED <<isConnected, main, stop, agents, factory, instances, requests, counters, overlapped>>
    BY <1>7 DEF SubscribeAgent, registry
  <2> DEFINE i == tasks[k].inst
             b == instances[i].agent
             t == [tasks[k] EXCEPT !.step = "subscribing"]
  <2>2. i \in Instances /\ b \in tasks[k].todo /\ b \in Agents
    BY <1>1, <1>7, InstanceRecords DEF InstanceInv, TaskInv, Building, SubscribeAgent
  <2>3. \/ client' = WithHandler(client, AgentFilter(b), i) /\ Becomes(k, t)
        \/ client' = client /\ Becomes(k, NoTask)
    BY <1>7, SubscribeEffect
  <2>4. CASE client' = WithHandler(client, AgentFilter(b), i) /\ Becomes(k, t)
    <3>1. "subscribing" \in TaskSteps /\ i \in 0 .. MaxInstances
      BY <1>1 DEF TaskSteps, Task
    <3>2. t.step = "subscribing" /\ t.todo = tasks[k].todo /\ t.inst = i
      BY <1>1, <3>1, MovedRecord
    <3>3. client' \in ClientType /\ \A a \in Agents : \A j \in Hearing(client', a) : j \in Hearing(client, a) \/ (a = b /\ j = i)
      <4>1. /\ client' \in ClientType /\ Hearing(client', b) = Hearing(client, b) \cup {i}
            /\ \A a \in Agents \ {b} : Hearing(client', a) = Hearing(client, a)
        <5> HIDE DEF i, b
        <5>1. QED
          BY <1>1, <2>2, <2>4, <3>1, AgentOperations
      <4>2. QED
        BY <4>1
    <3>4. RecordInv'
      BY <1>1, <1>2, <2>1, <2>2, <3>3, RecordsKept
    <3> HIDE DEF t
    <3>5. QED
      BY <1>1, <1>3, <2>1, <2>2, <2>4, <3>2, <3>3, <3>4, TaskStepKeeps
  <2>5. CASE client' = client /\ Becomes(k, NoTask)
    <3>1. RecordInv'
      BY <1>1, <1>2, <2>1, <2>5, RecordsKept
    <3>2. QED
      BY <1>1, <1>4, <2>1, <2>5, <3>1, TaskStepKeeps DEF Building
  <2>6. QED
    BY <2>3, <2>4, <2>5
<1>8. CASE AgentSubscribed(k)
  <2>1. UNCHANGED <<isConnected, main, stop, agents, factory, requests, counters, overlapped>>
    BY <1>8 DEF AgentSubscribed
  <2> DEFINE i == tasks[k].inst
  <2>2. /\ i \in Instances /\ client' \in ClientType
        /\ \A a \in Agents : Hearing(client', a) = Hearing(client, a)
        /\ instances' \in {instances, [instances EXCEPT ![i].connected = TRUE]}
        /\ Becomes(k, NoTask) \/ Becomes(k, Following(k))
    BY <1>1, <1>8, SubscribedEffect
  <2>3. /\ instances' \in Seq(Agent) /\ Len(instances') = Len(instances)
        /\ \A j \in Instances : /\ instances'[j].agent = instances[j].agent
                                /\ instances'[j].enabled = instances[j].enabled
    <3>1. CASE instances' = instances
      BY <1>1, <3>1
    <3>2. CASE instances' = [instances EXCEPT ![i].connected = TRUE]
      <4> HIDE DEF i
      <4>1. QED
        BY <1>1, <2>2, <3>2, FlagSet DEF SameButFor
    <3>3. QED
      BY <2>2, <3>1, <3>2
  <2>4. RecordInv'
    BY <1>1, <1>2, <2>1, <2>2, <2>3, RecordsKept
  <2>5. Following(k).step \in {"none", "create"}
    BY <1>4 DEF Following
  <2>6. CASE Becomes(k, NoTask)
    BY <1>1, <1>4, <2>1, <2>2, <2>3, <2>4, <2>6, TaskStepKeeps DEF Building
  <2>7. CASE Becomes(k, Following(k))
    <3> DEFINE t == Following(k)
    <3> HIDE DEF t
    <3>1. t.step \notin Building \cup {"unsubscribing", "dispose"} /\ Becomes(k, t)
      BY <2>5, <2>7 DEF Building, t
    <3>2. QED
      BY <1>1, <2>1, <2>2, <2>3, <2>4, <3>1, TaskStepKeeps
  <2>8. QED
    BY <2>2, <2>6, <2>7
<1>9. CASE FindAgent(k)
  <2>1. UNCHANGED <<isConnected, main, stop, agents, factory, instances, requests, counters, overlapped>>
    BY <1>9 DEF FindAgent, registry
  <2>2. PICK a \in tasks[k].todo :
             \/ agents[a] = 0 /\ client' = client /\ Becomes(k, NoTask)
             \/ /\ agents[a] \in Instances /\ ~instances[agents[a]].connected
                /\ client' = client
                /\ Becomes(k, [step |-> "dispose", todo |-> tasks[k].todo, inst |-> agents[a]])
             \/ /\ agents[a] \in Instances /\ instances[agents[a]].connected
                /\ client' = WithoutHandlers(client, AgentFilter(a))
                /\ \/ client.link /\ Becomes(k, [step |-> "unsubscribing", todo |-> tasks[k].todo, inst |-> agents[a]])
                   \/ ~client.link /\ Becomes(k, NoTask)
    BY <1>9, FindEffect
  <2>3. a \in Agents
    BY <1>1 DEF Task
  <2>4. client' \in ClientType /\ \A b \in Agents : Hearing(client', b) \subseteq Hearing(client, b)
    <3>1. CASE client' = client
      BY <1>1, <3>1
    <3>2. CASE client' = WithoutHandlers(client, AgentFilter(a))
      BY <1>1, <2>3, <3>2, FewerHear
    <3>3. QED
      BY <2>2, <3>1, <3>2
  <2>5. RecordInv'
    BY <1>1, <1>2, <2>1, <2>4, RecordsKept
  <2>6. \E t : /\ Becomes(k, t) /\ t.step \notin Building
               /\ t.step \in {"unsubscribing", "dispose"} => t.inst \in Instances
    BY <1>4, <2>2 DEF Building
  <2>7. QED
    BY <1>1, <1>3, <2>1, <2>4, <2>5, <2>6, TaskStepKeeps
<1>10. CASE AgentUnsubscribed(k)
  <2>1. UNCHANGED <<isConnected, main, stop, agents, factory, requests, counters, overlapped>>
    BY <1>10 DEF AgentUnsubscribed
  <2> DEFINE i == tasks[k].inst
             t == [tasks[k] EXCEPT !.step = "dispose"]
  <2>2. /\ i \in Instances /\ client' = client
        /\ instances' \in {instances, [instances EXCEPT ![i].connected = FALSE]}
        /\ Becomes(k, NoTask) \/ Becomes(k, t)
    BY <1>10, UnsubscribedEffect
  <2>3. /\ instances' \in Seq(Agent) /\ Len(instances') = Len(instances)
        /\ \A j \in Instances : /\ instances'[j].agent = instances[j].agent
                                /\ instances'[j].enabled = instances[j].enabled
    <3>1. CASE instances' = instances
      BY <1>1, <3>1
    <3>2. CASE instances' = [instances EXCEPT ![i].connected = FALSE]
      <4> HIDE DEF i
      <4>1. QED
        BY <1>1, <2>2, <3>2, FlagSet DEF SameButFor
    <3>3. QED
      BY <2>2, <3>1, <3>2
  <2>4. RecordInv'
    BY <1>1, <1>2, <2>1, <2>2, <2>3, RecordsKept
  <2>5. "dispose" \in TaskSteps
    BY DEF TaskSteps
  <2>6. t.step = "dispose" /\ t.inst = i
    BY <1>1, <2>5, MovedRecord
  <2> HIDE DEF t
  <2>7. CASE Becomes(k, NoTask)
    BY <1>1, <1>4, <2>1, <2>2, <2>3, <2>4, <2>7, TaskStepKeeps DEF Building
  <2>8. CASE Becomes(k, t)
    BY <1>1, <1>3, <2>1, <2>2, <2>3, <2>4, <2>6, <2>8, TaskStepKeeps DEF Building
  <2>9. QED
    BY <2>2, <2>7, <2>8
<1>11. CASE DisposeAgent(k)
  <2>1. UNCHANGED <<client, isConnected, main, stop, agents, requests, counters, overlapped>>
    BY <1>11 DEF DisposeAgent
  <2>2. /\ Becomes(k, NoTask)
        /\ \/ factory' = factory /\ instances' = instances
           \/ \E i \in Instances :
                 /\ instances' = [instances EXCEPT ![i].disposed = TRUE]
                 /\ factory' \in Seq(1 .. MaxInstances)
                 /\ \A n \in DOMAIN factory' : factory'[n] \in Instances
    BY <1>11, DisposeEffect
  <2>3. /\ instances' \in Seq(Agent) /\ Len(instances') = Len(instances)
        /\ \A j \in Instances : /\ instances'[j].agent = instances[j].agent
                                /\ instances'[j].enabled = instances[j].enabled
    <3>1. CASE instances' = instances
      BY <1>1, <3>1
    <3>2. CASE \E i \in Instances : instances' = [instances EXCEPT ![i].disposed = TRUE]
      BY <1>1, <3>2, FlagSet DEF SameButFor
    <3>3. QED
      BY <2>2, <3>1, <3>2
  <2>4. factory' \in Seq(1 .. MaxInstances) /\ \A n \in DOMAIN factory' : factory'[n] \in Instances
    BY <1>1, <1>2, <2>2
  <2>5. RecordInv'
    BY <1>1, <2>1, <2>3, <2>4, RecordsKept
  <2>6. QED
    BY <1>1, <1>4, <2>1, <2>2, <2>3, <2>4, <2>5, TaskStepKeeps DEF Building
<1>12. QED
  BY <1>5, <1>6, <1>7, <1>8, <1>9, <1>10, <1>11 DEF TaskStep

\* The tasks a message to the host starts: at most one per filed handler, none
\* unless the server forwards it, and just one, alone, if none overlap.
LEMMA HandleEffect ==
    ASSUME InstanceInv, NEW task \in Task, Handle(task)
    PROVE  /\ \E ks \in SUBSET Tasks :
                /\ \A k \in ks : ~Live(k)
                /\ tasks' \in [Tasks -> Task]
                /\ \A k \in Tasks : tasks'[k] = IF k \in ks THEN task ELSE tasks[k]
                /\ ks # {} => client.link /\ HostFilter \in Replied(client) /\ Hosted(client) >= 1
                /\ IsFiniteSet(ks) /\ Cardinality(ks) <= Hosted(client)
                /\ ks # {} /\ ~overlapped' => Alone /\ Hosted(client) = 1 /\ \E k \in Tasks : ks = {k}
           /\ overlapped' \in BOOLEAN /\ (overlapped => overlapped')
<1> DEFINE n == IF Receives(client, HostTopic) THEN Len(HandlersOf(client, HostTopic)) ELSE 0
<1>1. /\ TypeOK /\ client \in ClientType /\ tasks \in [Tasks -> Task] /\ client.filters \subseteq Filters
      /\ Hosted(client) \in Nat
  BY TypeOKIs, ClientOperations DEF InstanceInv, ClientType
<1>2. Len(HandlersOf(client, HostTopic)) = Hosted(client)
  BY HostTopicIsTheHosts DEF HandlersOf, Hosted
<1>3. Receives(client, HostTopic) => client.link /\ HostFilter \in Replied(client)
  BY <1>1, HostTopicIsTheHosts DEF Receives, Replied
<1>4. n \in Nat /\ n <= Hosted(client) /\ (n # 0 => client.link /\ HostFilter \in Replied(client) /\ Hosted(client) >= 1)
  BY <1>1, <1>2, <1>3
<1>5. overlapped' = (overlapped \/ n > 1 \/ (n = 1 /\ ~Alone))
  BY DEF Handle
<1>6. PICK ks \in SUBSET FreeTasks :
          /\ Cardinality(ks) = n
          /\ tasks' = [k \in 1 .. MaxTasks |-> IF k \in ks THEN task ELSE tasks[k]]
  BY DEF Handle
<1> HIDE DEF n
<1>7. ks \in SUBSET Tasks /\ \A k \in ks : ~Live(k)
  BY <1>6 DEF FreeTasks, Tasks
<1>8. IsFiniteSet(ks)
  <2>1. IsFiniteSet(Tasks)
    BY FS_Interval, BoundsAssumption DEF Tasks
  <2>2. QED
    BY <1>7, <2>1, FS_Subset
<1>9. ks # {} => n # 0
  BY <1>6, <1>8, FS_EmptySet
<1>10. tasks' \in [Tasks -> Task] /\ \A k \in Tasks : tasks'[k] = IF k \in ks THEN task ELSE tasks[k]
  BY <1>1, <1>6 DEF Tasks
<1>11. overlapped' \in BOOLEAN /\ (overlapped => overlapped')
  BY <1>5
<1>12. ASSUME ks # {}, ~overlapped' PROVE Alone /\ Hosted(client) = 1 /\ \E k \in Tasks : ks = {k}
  <2>1. n = 1 /\ Alone
    <3>1. ~(n > 1) /\ ~(n = 1 /\ ~Alone)
      BY <1>5, <1>12, Zenon
    <3>2. n = 1
      BY <1>4, <1>9, <1>12, <3>1
    <3>3. QED
      BY <3>1, <3>2, Zenon
  <2>2. PICK k : ks = {k}
    BY <1>6, <1>8, <2>1, FS_Singleton
  <2>3. Hosted(client) = 1
    BY <1>2, <2>1 DEF n
  <2>4. QED
    BY <1>7, <2>1, <2>2, <2>3
<1>13. QED
  BY <1>4, <1>6, <1>7, <1>8, <1>9, <1>10, <1>11, <1>12

\* The three messages the authority sends, by the task each starts.
LEMMA MessageTasks ==
    ASSUME InstanceInv,
           \/ \E placed \in Placements : HostWelcome(placed)
           \/ \E a \in Agents : AgentConnect(a) \/ AgentDisconnect(a)
    PROVE  /\ \E task \in Task :
                /\ Handle(task)
                /\ task.step \in {"none", "create", "find"}
                /\ welcomes' + events' = welcomes + events + 1
           /\ UNCHANGED <<client, isConnected, main, stop, registry, faults, starts, stops>>
           /\ requests' \in Nat /\ welcomes' \in Nat /\ events' \in Nat
<1>1. requests \in Nat /\ welcomes \in Nat /\ events \in Nat
  BY DEF InstanceInv, TypeOK
<1>2. ASSUME NEW s \in {"none", "create", "find"}, NEW todo \in SUBSET Agents
      PROVE  [step |-> s, todo |-> todo, inst |-> 0] \in Task
  BY BoundsAssumption DEF Task, TaskSteps
<1>3. ASSUME NEW placed \in Placements, HostWelcome(placed)
      PROVE  /\ \E task \in Task : Handle(task) /\ task.step \in {"none", "create", "find"}
             /\ welcomes' + events' = welcomes + events + 1 /\ requests' \in Nat
             /\ welcomes' \in Nat /\ events' \in Nat
             /\ UNCHANGED <<client, isConnected, main, stop, registry, faults, starts, stops>>
  <2> DEFINE t == [step |-> IF placed = {} THEN "none" ELSE "create", todo |-> placed, inst |-> 0]
  <2>1. placed \in SUBSET Agents
    BY RecordsAssumption
  <2>2. t \in Task /\ t.step \in {"none", "create", "find"} /\ Handle(t)
    BY <1>2, <1>3, <2>1 DEF HostWelcome
  <2> HIDE DEF t
  <2>3. QED
    BY <1>1, <1>3, <2>2 DEF HostWelcome
<1>4. ASSUME NEW a \in Agents, AgentConnect(a) \/ AgentDisconnect(a)
      PROVE  /\ \E task \in Task : Handle(task) /\ task.step \in {"none", "create", "find"}
             /\ welcomes' + events' = welcomes + events + 1 /\ requests' \in Nat
             /\ welcomes' \in Nat /\ events' \in Nat
             /\ UNCHANGED <<client, isConnected, main, stop, registry, faults, starts, stops>>
  <2>1. /\ [step |-> "create", todo |-> {a}, inst |-> 0] \in Task
        /\ [step |-> "find", todo |-> {a}, inst |-> 0] \in Task
    BY <1>2
  <2>2. QED
    BY <1>1, <1>4, <2>1 DEF AgentConnect, AgentDisconnect
<1>5. QED
  BY <1>3, <1>4

\* Nor does a message that arrives: it only starts handlers.
LEMMA MessagesKeepInstances ==
    ASSUME InstanceInv,
           \/ \E placed \in Placements : HostWelcome(placed)
           \/ \E a \in Agents : AgentConnect(a) \/ AgentDisconnect(a)
    PROVE  InstanceInv'
<1>1. PICK task \in Task : Handle(task) /\ task.step \in {"none", "create", "find"}
  BY MessageTasks
<1>2. /\ UNCHANGED <<client, isConnected, main, stop, registry, faults, starts, stops>>
      /\ requests' \in Nat /\ welcomes' \in Nat /\ events' \in Nat
  BY MessageTasks
<1>3. PICK ks \in SUBSET Tasks :
        /\ tasks' \in [Tasks -> Task]
        /\ \A k \in Tasks : tasks'[k] = IF k \in ks THEN task ELSE tasks[k]
  BY <1>1, HandleEffect
<1>4. overlapped' \in BOOLEAN
  BY <1>1, HandleEffect
<1>5. TypeOK'
  <2>1. isConnected' \in BOOLEAN
    BY <1>2, TypeOKIs, Zenon DEF InstanceInv
  <2>2. /\ client' \in ClientType /\ main' \in MainSteps /\ stop' \in StopType
        /\ agents' \in [Agents -> 0 .. MaxInstances] /\ factory' \in Seq(1 .. MaxInstances)
        /\ instances' \in Seq(Agent) /\ faults' \in Nat /\ starts' \in Nat /\ stops' \in Nat
    BY <1>2, TypeOKIs DEF InstanceInv, registry
  <2>3. QED
    BY <1>2, <1>3, <1>4, <2>1, <2>2, TypeOKIsNext
<1>6. RecordInv' /\ StopInv'
  BY <1>2 DEF InstanceInv, RecordInv, StopInv, registry, Instances
<1>7. TaskInv'
  BY <1>1, <1>2, <1>3 DEF InstanceInv, TaskInv, registry, Instances, Tasks, Building
<1>8. QED
  BY <1>5, <1>6, <1>7 DEF InstanceInv

\* What the steps of Stop make of its record.
LEMMA StopRecords ==
    ASSUME InstanceInv
    PROVE  /\ stop' = StopIdle =>
                stop' \in StopType /\ stop'.step = "idle" /\ stop'.todo = {} /\ stop'.seen = {}
           /\ \A s \in {"host", "unlink", "clear"} : stop' = [stop EXCEPT !.step = s] =>
                /\ stop' \in StopType /\ stop'.step = s
                /\ stop'.seen = stop.seen /\ stop'.todo = stop.todo
           /\ stop' = [stop EXCEPT !.step = "agents", !.inst = 0] =>
                /\ stop' \in StopType /\ stop'.step = "agents"
                /\ stop'.seen = stop.seen /\ stop'.todo = stop.todo
           /\ \A a : stop' = [stop EXCEPT !.todo = @ \ {a}] =>
                /\ stop' \in StopType /\ stop'.step = stop.step
                /\ stop'.seen = stop.seen /\ stop'.todo = stop.todo \ {a}
           /\ \A a, i : i \in 0 .. MaxInstances
                        /\ stop' = [stop EXCEPT !.step = "agent", !.todo = @ \ {a}, !.inst = i] =>
                /\ stop' \in StopType /\ stop'.step = "agent" /\ stop'.inst = i
                /\ stop'.seen = stop.seen /\ stop'.todo = stop.todo \ {a}
<1>1. stop \in StopType
  BY TypeOKIs DEF InstanceInv
<1>2. stop' = StopIdle =>
        stop' \in StopType /\ stop'.step = "idle" /\ stop'.todo = {} /\ stop'.seen = {}
  BY BoundsAssumption DEF StopIdle, StopType, StopSteps, Unused
<1>3. \A s \in {"host", "unlink", "clear"} : stop' = [stop EXCEPT !.step = s] =>
                /\ stop' \in StopType /\ stop'.step = s
                /\ stop'.seen = stop.seen /\ stop'.todo = stop.todo
  BY <1>1 DEF StopType, StopSteps
<1>4. ASSUME stop' = [stop EXCEPT !.step = "agents", !.inst = 0]
      PROVE  /\ stop' \in StopType /\ stop'.step = "agents"
             /\ stop'.seen = stop.seen /\ stop'.todo = stop.todo
  <2>1. 0 \in 0 .. MaxInstances
    BY BoundsAssumption
  <2>2. QED
    BY <1>1, <1>4, <2>1 DEF StopType, StopSteps
<1>5. ASSUME NEW a, stop' = [stop EXCEPT !.todo = @ \ {a}]
      PROVE  /\ stop' \in StopType /\ stop'.step = stop.step
             /\ stop'.seen = stop.seen /\ stop'.todo = stop.todo \ {a}
  BY <1>1, <1>5 DEF StopType
<1>6. ASSUME NEW a, NEW i \in 0 .. MaxInstances,
             stop' = [stop EXCEPT !.step = "agent", !.todo = @ \ {a}, !.inst = i]
      PROVE  /\ stop' \in StopType /\ stop'.step = "agent" /\ stop'.inst = i
             /\ stop'.seen = stop.seen /\ stop'.todo = stop.todo \ {a}
  BY <1>1, <1>6 DEF StopType, StopSteps
<1>7. QED
  BY <1>2, <1>3, <1>4, <1>5, <1>6

\* Nor does Stop, which only disconnects them.
LEMMA StopKeepsInstances ==
    ASSUME InstanceInv, Stop \/ StopStep
    PROVE  InstanceInv'
<1>1. /\ TypeOK /\ client \in ClientType /\ instances \in Seq(Agent) /\ stop \in StopType
      /\ agents \in [Agents -> 0 .. MaxInstances] /\ stop.todo \subseteq stop.seen
  BY TypeOKIs DEF InstanceInv, StopInv
<1>2. UNCHANGED <<main, agents, factory, tasks, requests, faults, starts, events, welcomes>>
  BY DEF Stop, StopStep, StopInterrupted, StopAgent, StopAgentUnsubscribed, StopHost,
         StopHostUnsubscribed, StopUnlink, StopClear, registry, counters
<1>3. /\ main' \in MainSteps /\ requests' \in Nat /\ faults' \in Nat /\ starts' \in Nat
      /\ events' \in Nat /\ welcomes' \in Nat
  BY <1>1, <1>2, TypeOKIs
<1>4. isConnected \in BOOLEAN /\ overlapped \in BOOLEAN /\ stops \in Nat
  BY <1>1, TypeOKIs, Zenon
<1>5. stop.todo \subseteq Agents
  BY <1>1 DEF StopType
<1>6. CASE Stop
  <2>1. client' = client /\ UNCHANGED <<registry, tasks, isConnected>> /\ stops' = stops + 1
    BY <1>6 DEF Stop
  <2>2. stop' \in StopType /\ stop'.step = "agents" /\ stop'.todo \subseteq stop'.seen
    BY <1>6, BoundsAssumption DEF Stop, StopType, StopSteps, Present
  <2>3. overlapped' \in BOOLEAN
    BY <1>6, Zenon DEF Stop
  <2>4. isConnected' \in BOOLEAN
    BY <1>4, <2>1, Zenon
  <2>5. client' \in ClientType /\ \A a \in Agents : Hearing(client', a) \subseteq Hearing(client, a)
    BY <1>1, <2>1
  <2>6. StopInv'
    BY <2>2 DEF StopInv
  <2>7. QED
    BY <1>3, <1>4, <2>1, <2>2, <2>3, <2>4, <2>5, <2>6, RegistryKept
<1>7. ASSUME UNCHANGED <<registry, stops, overlapped>>, isConnected' \in BOOLEAN,
             client' \in ClientType, \A a \in Agents : Hearing(client', a) \subseteq Hearing(client, a),
             stop' \in StopType, stop'.todo \subseteq stop'.seen,
             stop'.step = "agent" => stop'.inst \in Instances
      PROVE  InstanceInv'
  <2>1. overlapped' \in BOOLEAN
    BY <1>4, <1>7, Zenon
  <2>2. StopInv'
    BY <1>7 DEF StopInv, registry, Instances
  <2>3. QED
    BY <1>2, <1>3, <1>4, <1>7, <2>1, <2>2, RegistryKept
<1>8. CASE StopInterrupted
  <2>1. client' = client /\ stop' = StopIdle /\ UNCHANGED <<registry, stops, overlapped, isConnected>>
    BY <1>8 DEF StopInterrupted, counters
  <2>2. isConnected' \in BOOLEAN
    BY <1>4, <2>1, Zenon
  <2>3. QED
    BY <1>1, <1>7, <2>1, <2>2, StopRecords
<1>9. CASE \E a \in Agents : StopAgent(a)
  <2>1. PICK a \in Agents : StopAgent(a)
    BY <1>9
  <2>2. UNCHANGED <<registry, stops, overlapped, isConnected>> /\ a \in stop.todo /\ stop.seen = Present
    BY <2>1 DEF StopAgent, counters
  <2>3. isConnected' \in BOOLEAN
    BY <1>4, <2>2, Zenon
  <2>4. agents[a] \in Instances /\ agents[a] \in 0 .. MaxInstances
    BY <1>1, <2>2 DEF Present, InstanceInv, StopInv, RecordInv
  <2>5. client' \in {client, WithoutHandlers(client, AgentFilter(a))}
    BY <2>1 DEF StopAgent
  <2>6. client' \in ClientType /\ \A b \in Agents : Hearing(client', b) \subseteq Hearing(client, b)
    <3>1. CASE client' = client
      BY <1>1, <3>1
    <3>2. CASE client' = WithoutHandlers(client, AgentFilter(a))
      BY <1>1, <3>2, FewerHear
    <3>3. QED
      BY <2>5, <3>1, <3>2
  <2>7. stop' \in {[stop EXCEPT !.todo = @ \ {a}],
                   [stop EXCEPT !.step = "agent", !.todo = @ \ {a}, !.inst = agents[a]], StopIdle}
    BY <2>1 DEF StopAgent
  <2>8. /\ stop' \in StopType /\ stop'.todo \subseteq stop'.seen
        /\ stop'.step = "agent" => stop'.inst \in Instances
    <3>0. stop.step = "agents"
      BY <2>1 DEF StopAgent
    <3>1. CASE stop' = [stop EXCEPT !.todo = @ \ {a}]
      BY <1>1, <3>0, <3>1, StopRecords
    <3>2. CASE stop' = [stop EXCEPT !.step = "agent", !.todo = @ \ {a}, !.inst = agents[a]]
      BY <1>1, <2>4, <3>0, <3>2, StopRecords
    <3>3. CASE stop' = StopIdle
      BY <3>0, <3>3, StopRecords
    <3>4. QED
      BY <2>7, <3>1, <3>2, <3>3
  <2>9. QED
    BY <1>7, <2>2, <2>3, <2>6, <2>8
<1>10. CASE StopAgentUnsubscribed
  <2>1. /\ UNCHANGED <<isConnected, main, agents, factory, tasks, requests, counters, overlapped>>
        /\ stop.step = "agent" /\ stop.inst \in Instances
    BY <1>10 DEF StopAgentUnsubscribed, InstanceInv, StopInv
  <2> DEFINE i == stop.inst
  <2>2. client' = client
    <3>1. instances[i].agent \in Agents
      BY <1>1, <2>1, InstanceRecords
    <3>2. WithoutFilter(client, AgentFilter(instances[i].agent)) = client
      BY <1>1, <3>1, ClientOperations, KeysApart
    <3>3. QED
      BY <1>10, <3>2 DEF StopAgentUnsubscribed
  <2>3. /\ instances' \in Seq(Agent) /\ Len(instances') = Len(instances)
        /\ \A j \in Instances : /\ instances'[j].agent = instances[j].agent
                                /\ instances'[j].enabled = instances[j].enabled
    <3>1. CASE instances' = instances
      BY <1>1, <3>1
    <3>2. CASE instances' = [instances EXCEPT ![i].connected = FALSE]
      <4> HIDE DEF i
      <4>1. i \in Instances
        BY <2>1 DEF i
      <4>2. QED
        BY <1>1, <3>2, <4>1, FlagSet DEF SameButFor
    <3>3. QED
      BY <1>10, <3>1, <3>2 DEF StopAgentUnsubscribed
  <2>4. stop' \in {StopIdle, [stop EXCEPT !.step = "agents", !.inst = 0]}
    BY <1>10 DEF StopAgentUnsubscribed
  <2>5. stop' \in StopType /\ stop'.todo \subseteq stop'.seen /\ stop'.step # "agent"
    <3>2. CASE stop' = StopIdle
      BY <3>2, StopRecords
    <3>3. CASE stop' = [stop EXCEPT !.step = "agents", !.inst = 0]
      BY <1>1, <3>3, StopRecords
    <3>4. QED
      BY <2>4, <3>2, <3>3
  <2>6. RecordInv'
    BY <1>1, <2>1, <2>2, <2>3, RecordsKept DEF InstanceInv, RecordInv
  <2>7. TaskInv'
    BY <1>1, <2>1, <2>3 DEF InstanceInv, TaskInv, Instances, Tasks
  <2>8. TypeOK'
    <3>1. isConnected' \in BOOLEAN /\ overlapped' \in BOOLEAN
      BY <1>4, <2>1, Zenon
    <3>2. stops' \in Nat /\ agents' \in [Agents -> 0 .. MaxInstances] /\ factory' \in Seq(1 .. MaxInstances)
          /\ tasks' \in [Tasks -> Task] /\ client' \in ClientType
      BY <1>1, <2>1, <2>2, TypeOKIs DEF counters
    <3>3. QED
      BY <1>3, <2>3, <2>5, <3>1, <3>2, TypeOKIsNext
  <2>9. QED
    BY <2>5, <2>6, <2>7, <2>8 DEF InstanceInv, StopInv
<1>11. CASE StopHost
  <2>1. UNCHANGED <<registry, stops, overlapped, isConnected>>
    BY <1>11 DEF StopHost, counters
  <2>2. isConnected' \in BOOLEAN
    BY <1>4, <2>1, Zenon
  <2>3. client' \in ClientType /\ \A b \in Agents : Hearing(client', b) \subseteq Hearing(client, b)
    BY <1>1, <1>11, HostOperations DEF StopHost
  <2>4. stop' \in {StopIdle, [stop EXCEPT !.step = "host"]}
    BY <1>11 DEF StopHost
  <2>5. stop' \in StopType /\ stop'.todo \subseteq stop'.seen /\ stop'.step # "agent"
    BY <1>1, <2>4, StopRecords
  <2>6. QED
    BY <1>7, <2>1, <2>2, <2>3, <2>5
<1>12. CASE StopHostUnsubscribed
  <2>1. UNCHANGED <<registry, stops, overlapped, isConnected>>
    BY <1>12 DEF StopHostUnsubscribed, counters
  <2>2. isConnected' \in BOOLEAN
    BY <1>4, <2>1, Zenon
  <2>3. client' = client
    <3>1. WithoutFilter(client, HostFilter) = client
      BY <1>1, ClientOperations, KeysApart
    <3>2. QED
      BY <1>12, <3>1 DEF StopHostUnsubscribed
  <2>4. stop' \in {StopIdle, [stop EXCEPT !.step = "unlink"]}
    BY <1>12 DEF StopHostUnsubscribed
  <2>5. stop' \in StopType /\ stop'.todo \subseteq stop'.seen /\ stop'.step # "agent"
    BY <1>1, <2>4, StopRecords
  <2>6. QED
    BY <1>1, <1>7, <2>1, <2>2, <2>3, <2>5
<1>13. CASE StopUnlink
  <2>1. UNCHANGED <<registry, stops, overlapped, isConnected>>
    BY <1>13 DEF StopUnlink, counters
  <2>2. isConnected' \in BOOLEAN
    BY <1>4, <2>1, Zenon
  <2>3. client' \in ClientType /\ \A b \in Agents : Hearing(client', b) \subseteq Hearing(client, b)
    BY <1>1, <1>13, ClientOperations DEF StopUnlink
  <2>4. stop' = [stop EXCEPT !.step = "clear"]
    BY <1>13 DEF StopUnlink
  <2>5. stop' \in StopType /\ stop'.todo \subseteq stop'.seen /\ stop'.step # "agent"
    BY <1>1, <2>4, StopRecords
  <2>6. QED
    BY <1>7, <2>1, <2>2, <2>3, <2>5
<1>14. CASE StopClear
  <2>1. UNCHANGED <<registry, stops, overlapped, client>> /\ isConnected' = FALSE /\ stop' = StopIdle
    BY <1>14 DEF StopClear, counters
  <2>2. QED
    BY <1>1, <1>7, <2>1, StopRecords
<1>15. QED
  BY <1>6, <1>8, <1>9, <1>10, <1>11, <1>12, <1>13, <1>14 DEF StopStep

\* Every step of the host keeps instances filed under their agents.
LEMMA InstanceStep == InstanceInv /\ [Next]_vars => InstanceInv'
<1>1. ASSUME InstanceInv, Next PROVE InstanceInv'
  BY <1>1, MainKeepsInstances, NetworkKeepsInstances, TasksKeepInstances, MessagesKeepInstances,
     StopKeepsInstances DEF Next, Tasks
<1>2. ASSUME InstanceInv, UNCHANGED vars PROVE InstanceInv'
  BY <1>2 DEF vars, registry, counters, InstanceInv, TypeOK, RecordInv, TaskInv, StopInv, Instances
<1>3. QED
  BY <1>1, <1>2

\* Every variable keeps its type, and every reference to an Agent object leads to
\* an object of that agent.
THEOREM InstancesInvariant == Spec => []InstanceInv
  BY InstanceInit, InstanceStep, PTL DEF Spec

\* Every variable of a host stays in its type.
THEOREM TypeCorrect == Spec => []TypeOK
<1>1. InstanceInv => TypeOK
  BY DEF InstanceInv
<1>2. QED
  BY <1>1, InstancesInvariant, PTL

-----------------------------------------------------------------------------
(* The session of the host: what the flag, the link and the filed handlers *)
(* have to do with each other.                                             *)

Idling == ~isConnected /\ main \in {"idle", "connect", "linking", "waiting"}
Hears == HostFilter \in Replied(client) /\ Hosted(client) >= 1
Stopping == stop.step \in {"host", "unlink", "clear"}

LinkInv ==
    /\ ~client.link => Replied(client) = {}
    /\ Idling => ~client.link
    /\ main \in {"linked", "subscribing"} => HostFilter \notin Replied(client)
ConnectInv ==
    /\ isConnected => main \in {"idle", "connect"}
    /\ stop.step # "idle" => isConnected
    /\ stops = 0 => stop.step = "idle"
    /\ main = "subscribing" => Hosted(client) >= 1
    /\ client.link /\ (main \in {"publish", "published"} \/ (isConnected /\ ~Stopping)) => Hears
CopiesInv ==
    /\ Hosted(client) <= faults + 1
    /\ Hosted(client) > faults =>
          \/ isConnected \/ main = "published"
          \/ main \in {"subscribing", "publish"} /\ client.link
    /\ Stopping => Hosted(client) = 0
    /\ stop.step = "clear" => ~client.link
    /\ faults = 0 /\ (isConnected \/ main \in {"linked", "subscribing", "publish", "published"})
       /\ stop.step # "clear" => client.link
SessionInv == LinkInv /\ ConnectInv /\ CopiesInv

\* A host that has not started has no link and no handler of its own.
LEMMA SessionInit == Init => SessionInv
<1> SUFFICES ASSUME Init PROVE SessionInv
  OBVIOUS
<1>1. ~client.link /\ Replied(client) = {} /\ Hosted(client) = 0
  BY KeysApart DEF Init, NoClient, Hosted, Replied
<1>2. ~isConnected /\ main = "idle" /\ stop.step = "idle" /\ faults = 0
  BY DEF Init
<1>3. QED
  BY <1>1, <1>2 DEF SessionInv, LinkInv, ConnectInv, CopiesInv, Idling, Stopping

\* Handlers of messages and the agents' half of Stop leave the host's session alone.
LEMMA SessionKept ==
    ASSUME InstanceInv, SessionInv, UNCHANGED <<isConnected, main, faults, stops>>,
           client'.link = client.link, Hosted(client') = Hosted(client),
           HostFilter \in Replied(client') <=> HostFilter \in Replied(client),
           ~client.link => Replied(client') = Replied(client),
           \/ stop'.step = stop.step
           \/ stop.step \in {"agents", "agent"} /\ stop'.step \in {"agents", "agent", "idle"}
    PROVE  SessionInv'
<1>1. LinkInv'
  BY DEF SessionInv, LinkInv, Idling
<1>2. ConnectInv'
  BY DEF SessionInv, ConnectInv, Hears, Stopping
<1>3. CopiesInv'
  BY DEF SessionInv, CopiesInv, Stopping
<1>4. QED
  BY <1>1, <1>2, <1>3 DEF SessionInv

\* Handlers of messages leave the host's own handler, link and flag alone, and only ever
\* add subscriptions.
LEMMA TasksKeepSession ==
    ASSUME InstanceInv, SessionInv, NEW k \in Tasks, TaskStep(k)
    PROVE  /\ SessionInv'
           /\ UNCHANGED <<isConnected, main, stop, requests, counters, overlapped>>
           /\ client'.link = client.link /\ Hosted(client') = Hosted(client)
           /\ Replied(client) \subseteq Replied(client')
<1>1. client \in ClientType /\ tasks[k] \in Task /\ instances \in Seq(Agent)
  BY TypeOKIs DEF InstanceInv
<1>2. UNCHANGED <<isConnected, main, stop, requests, counters, overlapped>>
  BY DEF TaskStep, CreateAgent, CreateAgentFails, AssignAgent, SubscribeAgent, AgentSubscribed,
         FindAgent, AgentUnsubscribed, DisposeAgent
<1>3. /\ client'.link = client.link /\ Hosted(client') = Hosted(client)
      /\ Replied(client) \subseteq Replied(client')
      /\ HostFilter \in Replied(client') <=> HostFilter \in Replied(client)
      /\ ~client.link => Replied(client') = Replied(client)
  <2>1. CASE client' = client
    BY <2>1
  <2>2. CASE \E a \in Agents : client' = WithoutHandlers(client, AgentFilter(a))
    BY <1>1, <2>2, FewerHear
  <2>3. CASE SubscribeAgent(k)
    <3> DEFINE i == tasks[k].inst
               a == instances[i].agent
    <3>1. i \in Instances /\ i \in 0 .. MaxInstances
      BY <1>1, <2>3, SubscribeEffect DEF Task
    <3>2. a \in Agents
      BY <1>1, <3>1, InstanceRecords
    <3>3. client' = WithHandler(client, AgentFilter(a), i) \/ client' = client
      BY <2>3, SubscribeEffect
    <3> HIDE DEF i, a
    <3>4. QED
      BY <1>1, <2>1, <3>1, <3>2, <3>3, AgentOperations
  <2>4. CASE AgentSubscribed(k)
    BY <2>4, SubscribedEffect
  <2>5. CASE FindAgent(k)
    <3>1. tasks[k].todo \subseteq Agents
      BY <1>1 DEF Task
    <3>2. QED
      BY <2>1, <2>2, <2>5, <3>1, FindEffect
  <2>6. CASE AgentUnsubscribed(k)
    BY <2>1, <2>6, UnsubscribedEffect
  <2>7. CASE CreateAgent(k) \/ CreateAgentFails(k) \/ AssignAgent(k) \/ DisposeAgent(k)
    BY <2>1, <2>7 DEF CreateAgent, CreateAgentFails, AssignAgent, DisposeAgent
  <2>8. QED
    BY <2>3, <2>4, <2>5, <2>6, <2>7 DEF TaskStep
<1>4. QED
  BY <1>2, <1>3, SessionKept DEF counters

\* StartAsync and RunAsync file the handler of the host once for each connection they
\* set up, so that a further copy costs a fault.
LEMMA MainKeepsSession ==
    ASSUME InstanceInv, SessionInv, StartAsync \/ MainStep \/ MainLinkFails
    PROVE  SessionInv'
<1>1. /\ client \in ClientType /\ Hosted(client) \in Nat /\ faults \in Nat /\ HostFilter \in Filters
  BY TypeOKIs, ClientOperations, KeysApart DEF InstanceInv, ClientType
<1>2. stop' = stop /\ stops' = stops
  BY DEF StartAsync, MainStep, MainLoop, MainLink, MainSubscribe, MainSubscribed, MainPublish,
         MainConnected, MainRetry, MainLinkFails, counters
<1> USE <1>1, <1>2 DEF Stopping, Idling, Hears
<1>3. CASE StartAsync \/ MainLoop \/ MainRetry
  <2>1. /\ UNCHANGED <<client, isConnected, faults>>
        /\ main \in {"idle", "connect", "waiting"} /\ main' \in {"idle", "connect", "linking"}
        /\ isConnected => main' \in {"idle", "connect"}
    BY <1>3 DEF StartAsync, MainLoop, MainRetry, counters, SessionInv, ConnectInv
  <2>2. QED
    BY <2>1 DEF SessionInv, LinkInv, ConnectInv, CopiesInv
<1>4. CASE MainLinkFails
  <2>1. /\ UNCHANGED <<client, isConnected>> /\ faults' = faults + 1
        /\ main = "linking" /\ main' = "waiting"
    BY <1>4 DEF MainLinkFails
  <2>2. QED
    BY <2>1 DEF SessionInv, LinkInv, ConnectInv, CopiesInv
<1>5. CASE MainLink
  <2>1. /\ UNCHANGED <<isConnected, faults>> /\ main = "linking" /\ main' = "linked"
        /\ client' = IF client.link THEN client ELSE Linked(client)
    BY <1>5 DEF MainLink, counters
  <2>2. ~isConnected /\ ~client.link
    BY <2>1 DEF SessionInv, LinkInv, ConnectInv
  <2>3. client'.link /\ Replied(client') = {} /\ Hosted(client') = Hosted(client)
    BY <2>1, <2>2, ClientOperations
  <2>4. QED
    BY <2>1, <2>2, <2>3 DEF SessionInv, LinkInv, ConnectInv, CopiesInv
<1>6. CASE MainSubscribe
  <2>1. UNCHANGED <<isConnected, faults>> /\ main = "linked"
    BY <1>6 DEF MainSubscribe, counters
  <2>2. ~isConnected /\ stop.step = "idle" /\ Hosted(client) <= faults
    BY <2>1 DEF SessionInv, ConnectInv, CopiesInv
  <2>3. CASE client.link
    <3>1. main' = "subscribing" /\ client' = WithHandler(client, HostFilter, HostHandler)
      BY <1>6, <2>3 DEF MainSubscribe
    <3>2. client'.link /\ Replied(client') = Replied(client) /\ Hosted(client') = Hosted(client) + 1
      BY <2>3, <3>1, HostOperations
    <3>3. QED
      BY <2>1, <2>2, <3>1, <3>2 DEF SessionInv, LinkInv, ConnectInv, CopiesInv
  <2>4. CASE ~client.link
    <3>1. main' = "waiting" /\ client' = client
      BY <1>6, <2>4 DEF MainSubscribe
    <3>2. QED
      BY <2>1, <2>2, <2>4, <3>1 DEF SessionInv, LinkInv, ConnectInv, CopiesInv
  <2>5. QED
    BY <2>3, <2>4
<1>7. CASE MainSubscribed
  <2>1. UNCHANGED <<isConnected, faults>> /\ main = "subscribing"
    BY <1>7 DEF MainSubscribed, counters
  <2>2. ~isConnected /\ stop.step = "idle" /\ Hosted(client) >= 1
    BY <2>1 DEF SessionInv, ConnectInv
  <2>3. CASE client.link
    <3>1. main' = "publish" /\ client' \in {WithFilter(client, HostFilter), WithRefusal(client, HostFilter)}
      BY <1>7, <2>3 DEF MainSubscribed
    <3>2. client'.link = client.link /\ HostFilter \in Replied(client') /\ Hosted(client') = Hosted(client)
      BY <3>1, FilterAdded
    <3>3. QED
      BY <2>1, <2>2, <2>3, <3>1, <3>2 DEF SessionInv, LinkInv, ConnectInv, CopiesInv
  <2>4. CASE ~client.link
    <3>1. main' = "waiting" /\ client' = client
      BY <1>7, <2>4 DEF MainSubscribed
    <3>2. QED
      BY <2>1, <2>2, <2>4, <3>1 DEF SessionInv, LinkInv, ConnectInv, CopiesInv
  <2>5. QED
    BY <2>3, <2>4
<1>8. CASE MainPublish
  <2>1. /\ UNCHANGED <<client, isConnected, faults>> /\ main = "publish"
        /\ main' = "published" \/ (main' = "waiting" /\ ~client.link)
    BY <1>8 DEF MainPublish, counters
  <2>2. QED
    BY <2>1 DEF SessionInv, LinkInv, ConnectInv, CopiesInv
<1>9. CASE MainConnected
  <2>1. UNCHANGED <<client, faults>> /\ main = "published" /\ main' = "idle" /\ isConnected'
    BY <1>9 DEF MainConnected, counters
  <2>2. QED
    BY <2>1 DEF SessionInv, LinkInv, ConnectInv, CopiesInv
<1>10. QED
  BY <1>3, <1>4, <1>5, <1>6, <1>7, <1>8, <1>9 DEF MainStep

\* Stop drops every copy of it before it lets go of the link.
LEMMA StopKeepsSession ==
    ASSUME InstanceInv, SessionInv, Stop \/ StopStep
    PROVE  SessionInv'
<1>1. /\ client \in ClientType /\ Hosted(client) \in Nat /\ faults \in Nat /\ stops \in Nat
      /\ instances \in Seq(Agent) /\ stop \in StopType /\ agents \in [Agents -> 0 .. MaxInstances]
  BY TypeOKIs, ClientOperations DEF InstanceInv
<1>2. main' = main /\ faults' = faults
  BY DEF Stop, StopStep, StopInterrupted, StopAgent, StopAgentUnsubscribed, StopHost,
         StopHostUnsubscribed, StopUnlink, StopClear, counters
<1>3. CASE Stop
  <2>1. /\ UNCHANGED <<client, isConnected>> /\ isConnected /\ stops' = stops + 1
        /\ stop.step = "idle" /\ stop'.step = "agents"
    BY <1>3 DEF Stop
  <2>2. QED
    BY <1>1, <1>2, <2>1 DEF SessionInv, LinkInv, ConnectInv, CopiesInv, Stopping, Idling, Hears
<1>4. CASE StopInterrupted
  <2>1. /\ UNCHANGED <<client, isConnected, stops>> /\ stop.step = "agents" /\ stop'.step = "idle"
    BY <1>4, StopRecords DEF StopInterrupted, counters
  <2>2. QED
    BY <1>2, <2>1, SessionKept
<1>5. CASE \E a \in Agents : StopAgent(a)
  <2>1. PICK a \in Agents : StopAgent(a)
    BY <1>5
  <2>2. /\ UNCHANGED <<isConnected, stops>> /\ stop.step = "agents"
        /\ client' = client \/ client' = WithoutHandlers(client, AgentFilter(a))
        /\ stop' \in {[stop EXCEPT !.todo = @ \ {a}],
                   [stop EXCEPT !.step = "agent", !.todo = @ \ {a}, !.inst = agents[a]], StopIdle}
    BY <2>1 DEF StopAgent, counters
  <2>3. stop'.step \in {"agents", "agent", "idle"}
    BY <1>1, <2>2, StopRecords
  <2>4. /\ client'.link = client.link /\ Replied(client') = Replied(client)
        /\ Hosted(client') = Hosted(client)
    BY <1>1, <2>2, FewerHear
  <2>5. QED
    BY <1>2, <2>2, <2>3, <2>4, SessionKept
<1>6. CASE StopAgentUnsubscribed
  <2>1. /\ UNCHANGED <<isConnected, stops>> /\ stop.step = "agent"
        /\ stop'.step \in {"agents", "idle"}
    BY <1>6, StopRecords DEF StopAgentUnsubscribed, counters
  <2>2. client' = client
    <3>1. stop.inst \in Instances
      BY <2>1 DEF InstanceInv, StopInv
    <3>2. instances[stop.inst].agent \in Agents
      BY <1>1, <3>1, InstanceRecords
    <3>3. WithoutFilter(client, AgentFilter(instances[stop.inst].agent)) = client
      BY <1>1, <3>2, ClientOperations, KeysApart
    <3>4. QED
      BY <1>6, <3>3 DEF StopAgentUnsubscribed
  <2>3. QED
    BY <1>2, <2>1, <2>2, SessionKept
<1>7. CASE StopHost
  <2>1. /\ UNCHANGED <<isConnected, stops>> /\ stop.step = "agents"
        /\ client' = WithoutHandlers(client, HostFilter)
        /\ stop' = IF client.link THEN [stop EXCEPT !.step = "host"] ELSE StopIdle
    BY <1>7 DEF StopHost, counters
  <2>2. client'.link = client.link /\ Replied(client') = Replied(client) /\ Hosted(client') = 0
    BY <1>1, <2>1, HostOperations
  <2>3. IF client.link THEN stop'.step = "host" ELSE stop'.step = "idle"
    BY <2>1, StopRecords
  <2>4. isConnected /\ main \in {"idle", "connect"} /\ stops # 0
    BY <1>1, <2>1 DEF SessionInv, ConnectInv
  <2>5. QED
    BY <1>1, <1>2, <2>1, <2>2, <2>3, <2>4 DEF SessionInv, LinkInv, ConnectInv, CopiesInv, Stopping, Idling, Hears
<1>8. CASE StopHostUnsubscribed
  <2>1. /\ UNCHANGED <<isConnected, stops>> /\ stop.step = "host"
        /\ stop' = IF client.link THEN [stop EXCEPT !.step = "unlink"] ELSE StopIdle
    BY <1>8 DEF StopHostUnsubscribed, counters
  <2>2. client' = client
    <3>1. WithoutFilter(client, HostFilter) = client
      BY <1>1, ClientOperations, KeysApart
    <3>2. QED
      BY <1>8, <3>1 DEF StopHostUnsubscribed
  <2>3. IF client.link THEN stop'.step = "unlink" ELSE stop'.step = "idle"
    BY <2>1, StopRecords
  <2>4. QED
    BY <1>1, <1>2, <2>1, <2>2, <2>3 DEF SessionInv, LinkInv, ConnectInv, CopiesInv, Stopping, Idling, Hears
<1>9. CASE StopUnlink
  <2>1. /\ UNCHANGED <<isConnected, stops>> /\ stop.step = "unlink" /\ stop'.step = "clear"
        /\ client' = Unlinked(client)
    BY <1>9, StopRecords DEF StopUnlink, counters
  <2>2. ~client'.link /\ Replied(client') = {} /\ Hosted(client') = Hosted(client)
    BY <1>1, <2>1, ClientOperations
  <2>3. isConnected /\ main \in {"idle", "connect"} /\ stops # 0 /\ Hosted(client) = 0
    BY <1>1, <2>1 DEF SessionInv, ConnectInv, CopiesInv, Stopping
  <2>4. QED
    BY <1>1, <1>2, <2>1, <2>2, <2>3 DEF SessionInv, LinkInv, ConnectInv, CopiesInv, Stopping, Idling, Hears
<1>10. CASE StopClear
  <2>1. UNCHANGED <<client, stops>> /\ stop.step = "clear" /\ stop'.step = "idle" /\ ~isConnected'
    BY <1>10, StopRecords DEF StopClear, counters
  <2>2. isConnected /\ main \in {"idle", "connect"} /\ ~client.link /\ Hosted(client) = 0
    BY <2>1 DEF SessionInv, ConnectInv, CopiesInv, Stopping
  <2>3. QED
    BY <1>1, <1>2, <2>1, <2>2 DEF SessionInv, LinkInv, ConnectInv, CopiesInv, Stopping, Idling, Hears
<1>11. QED
  BY <1>3, <1>4, <1>5, <1>6, <1>7, <1>8, <1>9, <1>10 DEF StopStep

\* Every step of the host keeps its session.
LEMMA SessionStep == InstanceInv /\ SessionInv /\ [Next]_vars => SessionInv'
<1> SUFFICES ASSUME InstanceInv, SessionInv, [Next]_vars PROVE SessionInv'
  OBVIOUS
<1>1. CASE \/ \E placed \in Placements : HostWelcome(placed)
           \/ \E a \in Agents : AgentConnect(a) \/ AgentDisconnect(a)
  BY <1>1, MessageTasks, SessionKept
<1>2. CASE HostConnectLost \/ LinkLost
  <2>1. /\ UNCHANGED <<isConnected, main, stop, stops>> /\ faults' = faults + 1
        /\ client' = client \/ client' = Unlinked(client)
    BY <1>2 DEF HostConnectLost, LinkLost
  <2>2. client \in ClientType /\ faults \in Nat /\ Hosted(client) \in Nat
    BY TypeOKIs, ClientOperations DEF InstanceInv
  <2>3. /\ client'.link => client.link
        /\ client' = client \/ (Replied(client') = {} /\ ~client'.link)
        /\ Hosted(client') = Hosted(client)
    <3>1. CASE client' = client
      BY <3>1
    <3>2. CASE client' = Unlinked(client)
      BY <2>2, <3>2, ClientOperations
    <3>3. QED
      BY <2>1, <3>1, <3>2
  <2>4. QED
    BY <2>1, <2>2, <2>3 DEF SessionInv, LinkInv, ConnectInv, CopiesInv, Stopping, Idling, Hears
<1>3. CASE UNCHANGED vars
  BY <1>3 DEF vars, counters, SessionInv, LinkInv, ConnectInv, CopiesInv, Stopping, Idling, Hears
<1>4. QED
  BY <1>1, <1>2, <1>3, TasksKeepSession, MainKeepsSession, StopKeepsSession DEF Next, Tasks

\* The flag, the link and the copies of the handler of the host agree in every reachable
\* state.
THEOREM SessionInvariant == Spec => []SessionInv
  BY SessionInit, SessionStep, InstancesInvariant, PTL DEF Spec

-----------------------------------------------------------------------------
(* How often a welcome is handled: every object of an agent, and every     *)
(* handler that has yet to create one, was asked for by a message of its   *)
(* own, as long as the host's handler is filed once.                       *)

\* The agents a handler has still to create.
RestOf(t) ==
    IF t.step = "create" THEN t.todo
    ELSE IF t.step \in Building THEN t.todo \ {instances[t.inst].agent}
    ELSE {}
Awaiting(a) == {k \in Tasks : a \in RestOf(tasks[k])}

CountInv ==
    faults = 0 => \A a \in Agents :
        Cardinality(InstancesFor(a)) + Cardinality(Awaiting(a)) <= welcomes + events

\* An agent's objects and the handlers that await one can be counted.
LEMMA FiniteCounts ==
    ASSUME TypeOK
    PROVE  \A a : /\ IsFiniteSet(InstancesFor(a)) /\ Cardinality(InstancesFor(a)) \in Nat
                  /\ IsFiniteSet(Awaiting(a)) /\ Cardinality(Awaiting(a)) \in Nat
<1>1. IsFiniteSet(Tasks)
  <2>1. MaxTasks \in Int
    BY BoundsAssumption
  <2>2. QED
    BY <2>1, FS_Interval DEF Tasks
<1>2. IsFiniteSet(Instances)
  BY FS_Interval, TypeOKIs DEF Instances
<1>3. TAKE a
<1>4. InstancesFor(a) \in SUBSET Instances /\ Awaiting(a) \in SUBSET Tasks
  BY DEF InstancesFor, Awaiting
<1>5. IsFiniteSet(InstancesFor(a)) /\ IsFiniteSet(Awaiting(a))
  BY <1>1, <1>2, <1>4, FS_Subset
<1>6. QED
  BY <1>5, FS_CardinalityType

\* Before the first message there is no object.
LEMMA CountInit == Init => CountInv
<1> SUFFICES ASSUME Init, NEW a \in Agents
             PROVE  Cardinality(InstancesFor(a)) + Cardinality(Awaiting(a)) <= welcomes + events
  BY DEF CountInv
<1>1. InstancesFor(a) = {}
  BY DEF Init, InstancesFor, Instances
<1>2. Awaiting(a) = {}
  BY DEF Init, Awaiting, RestOf, NoTask, Tasks, Building
<1>3. Cardinality({}) = 0
  BY FS_EmptySet
<1>4. QED
  BY <1>1, <1>2, <1>3 DEF Init

\* A step that creates no object and starts no handler.
LEMMA CountKept ==
    ASSUME InstanceInv, CountInv, faults' \in {faults, faults + 1},
           welcomes' + events' = welcomes + events,
           \A a \in Agents : InstancesFor(a)' = InstancesFor(a) /\ Awaiting(a)' \subseteq Awaiting(a)
    PROVE  CountInv'
<1> SUFFICES ASSUME faults' = 0, NEW a \in Agents
             PROVE  Cardinality(InstancesFor(a)') + Cardinality(Awaiting(a)') <= welcomes' + events'
  BY DEF CountInv
<1>1. faults = 0 /\ welcomes \in Nat /\ events \in Nat /\ TypeOK
  BY TypeOKIs DEF InstanceInv
<1>2. /\ IsFiniteSet(InstancesFor(a)) /\ Cardinality(InstancesFor(a)) \in Nat
      /\ IsFiniteSet(Awaiting(a)) /\ Cardinality(Awaiting(a)) \in Nat
  BY <1>1, FiniteCounts
<1>3. Cardinality(InstancesFor(a)) + Cardinality(Awaiting(a)) <= welcomes + events
  BY <1>1 DEF CountInv
<1>4. InstancesFor(a)' = InstancesFor(a) /\ Awaiting(a)' \in SUBSET Awaiting(a)
  OBVIOUS
<1> DEFINE left == Awaiting(a)'
           right == InstancesFor(a)'
<1> HIDE DEF left, right
<1>5. Cardinality(left) <= Cardinality(Awaiting(a)) /\ Cardinality(left) \in Nat
  BY <1>2, <1>4, FS_Subset, FS_CardinalityType DEF left
<1>6. Cardinality(right) + Cardinality(left) <= welcomes' + events'
  BY <1>1, <1>2, <1>3, <1>4, <1>5 DEF right
<1>7. QED
  BY <1>6 DEF left, right

\* Steps other than CreateAgent leave the agent of every object.
LEMMA AgentsStay ==
    ASSUME InstanceInv, NEW k \in Tasks, TaskStep(k), ~CreateAgent(k)
    PROVE  Instances' = Instances /\ \A i \in Instances : instances'[i].agent = instances[i].agent
<1>1. instances \in Seq(Agent)
  BY TypeOKIs DEF InstanceInv
<1>2. CASE instances' = instances
  BY <1>2 DEF Instances
<1>3. CASE \E i \in Instances : \/ \E b \in BOOLEAN : instances' = [instances EXCEPT ![i].connected = b]
                                \/ instances' = [instances EXCEPT ![i].disposed = TRUE]
  <2>1. \E i \in Instances : SameButFor(i)
    BY <1>1, <1>3, FlagSet
  <2>2. QED
    BY <2>1 DEF SameButFor, Instances
<1>4. CASE AgentSubscribed(k)
  BY <1>2, <1>3, <1>4, SubscribedEffect
<1>5. CASE AgentUnsubscribed(k)
  BY <1>2, <1>3, <1>5, UnsubscribedEffect
<1>6. CASE DisposeAgent(k)
  BY <1>2, <1>3, <1>6, DisposeEffect
<1>7. CASE CreateAgentFails(k) \/ AssignAgent(k) \/ SubscribeAgent(k) \/ FindAgent(k)
  BY <1>2, <1>7 DEF CreateAgentFails, AssignAgent, SubscribeAgent, FindAgent, registry
<1>8. QED
  BY <1>4, <1>5, <1>6, <1>7 DEF TaskStep

\* No handler takes on an agent it did not have to create before.
LEMMA RestShrinks ==
    ASSUME InstanceInv, NEW k \in Tasks, TaskStep(k), ~CreateAgent(k)
    PROVE  \A a \in Agents : InstancesFor(a)' = InstancesFor(a) /\ Awaiting(a)' \subseteq Awaiting(a)
<1>1. Instances' = Instances /\ \A i \in Instances : instances'[i].agent = instances[i].agent
  BY AgentsStay
<1>2. TypeOK /\ tasks[k] \in Task
  BY TypeOKIs DEF InstanceInv
<1>3. NoTask.step = "none"
  BY DEF NoTask
<1>4. \E t : /\ Becomes(k, t)
             /\ \/ t.step \notin Building \cup {"create"}
                \/ t.step \in Building /\ t.inst = tasks[k].inst /\ t.todo = tasks[k].todo /\ tasks[k].step \in Building
                \/ t.step = "create" /\ t.todo \subseteq tasks[k].todo \ {instances[tasks[k].inst].agent} /\ tasks[k].step \in Building
  <2>1. CASE CreateAgentFails(k)
    <3>1. Becomes(k, NoTask)
      BY <1>2, <2>1, TaskRecords DEF CreateAgentFails
    <3>2. QED
      BY <1>3, <3>1 DEF Building
  <2>2. CASE AssignAgent(k)
    <3>1. "subscribe" \in TaskSteps /\ tasks[k].step = "assign"
      BY <2>2 DEF TaskSteps, AssignAgent
    <3>2. Becomes(k, [tasks[k] EXCEPT !.step = "subscribe"])
      BY <1>2, <2>2, <3>1, TaskRecords DEF AssignAgent
    <3>3. QED
      BY <1>2, <3>1, <3>2, MovedRecord DEF Building
  <2>3. CASE SubscribeAgent(k)
    <3>1. "subscribing" \in TaskSteps /\ tasks[k].step = "subscribe"
      BY <2>3 DEF TaskSteps, SubscribeAgent
    <3>2. Becomes(k, [tasks[k] EXCEPT !.step = "subscribing"]) \/ Becomes(k, NoTask)
      BY <2>3, SubscribeEffect
    <3>3. QED
      BY <1>2, <1>3, <3>1, <3>2, MovedRecord DEF Building
  <2>4. CASE AgentSubscribed(k)
    <3>1. tasks[k].step = "subscribing"
      BY <2>4 DEF AgentSubscribed
    <3>2. Becomes(k, Following(k)) \/ Becomes(k, NoTask)
      BY <2>4, SubscribedEffect
    <3>3. \/ Following(k) = NoTask
          \/ Following(k).step = "create" /\ Following(k).todo = tasks[k].todo \ {instances[tasks[k].inst].agent}
      BY DEF Following
    <3>4. QED
      BY <1>3, <3>1, <3>2, <3>3 DEF Building
  <2>5. CASE FindAgent(k)
    <3>1. \E t : Becomes(k, t) /\ t.step \in {"none", "dispose", "unsubscribing"}
      <4>1. PICK a : \/ Becomes(k, NoTask)
                     \/ Becomes(k, [step |-> "dispose", todo |-> tasks[k].todo, inst |-> agents[a]])
                     \/ Becomes(k, [step |-> "unsubscribing", todo |-> tasks[k].todo, inst |-> agents[a]])
        BY <2>5, FindEffect
      <4>2. QED
        BY <1>3, <4>1
    <3>2. QED
      BY <3>1 DEF Building
  <2>6. CASE AgentUnsubscribed(k)
    <3>1. "dispose" \in TaskSteps
      BY DEF TaskSteps
    <3>2. Becomes(k, [tasks[k] EXCEPT !.step = "dispose"]) \/ Becomes(k, NoTask)
      BY <2>6, UnsubscribedEffect
    <3>3. QED
      BY <1>2, <1>3, <3>1, <3>2, MovedRecord DEF Building
  <2>7. CASE DisposeAgent(k)
    BY <1>3, <2>7, DisposeEffect DEF Building
  <2>8. QED
    BY <2>1, <2>2, <2>3, <2>4, <2>5, <2>6, <2>7 DEF TaskStep
<1>5. ASSUME NEW j \in Tasks PROVE RestOf(tasks[j])' \subseteq RestOf(tasks[j])
  <2>1. tasks[j].step \in Building => tasks[j].inst \in Instances
    BY DEF InstanceInv, TaskInv
  <2>2. CASE j # k
    <3>1. tasks'[j] = tasks[j]
      BY <1>4, <2>2 DEF Becomes
    <3>2. QED
      BY <1>1, <2>1, <3>1 DEF RestOf, Building
  <2>3. CASE j = k
    BY <1>1, <1>4, <2>1, <2>3 DEF Becomes, RestOf, Building
  <2>4. QED
    BY <2>2, <2>3
<1>6. QED
  BY <1>1, <1>5 DEF InstancesFor, Awaiting, Tasks

\* An object that is created was awaited by the handler that creates it.
LEMMA CreateKeepsCount ==
    ASSUME InstanceInv, CountInv, NEW k \in Tasks, CreateAgent(k)
    PROVE  CountInv'
<1> SUFFICES ASSUME faults' = 0, NEW b \in Agents
             PROVE  Cardinality(InstancesFor(b)') + Cardinality(Awaiting(b)') <= welcomes' + events'
  BY DEF CountInv
<1>1. UNCHANGED <<welcomes, events, faults>> /\ tasks[k].step = "create"
  BY DEF CreateAgent, counters
<1>2. TypeOK /\ welcomes \in Nat /\ events \in Nat /\ instances \in Seq(Agent) /\ Len(instances) \in Nat
  BY TypeOKIs DEF InstanceInv
<1>3. PICK a \in tasks[k].todo \ Broken :
             /\ instances' \in Seq(Agent) /\ Len(instances') = Len(instances) + 1
             /\ Len(instances') <= MaxInstances
             /\ instances'[Len(instances')] = NewInstance(a)
             /\ \A i \in Instances : instances'[i] = instances[i]
             /\ factory' = Append(factory, Len(instances'))
             /\ Becomes(k, [step |-> "assign", todo |-> tasks[k].todo, inst |-> Len(instances')])
  BY CreateEffect
<1>4. /\ IsFiniteSet(InstancesFor(b)) /\ Cardinality(InstancesFor(b)) \in Nat
      /\ IsFiniteSet(Awaiting(b)) /\ Cardinality(Awaiting(b)) \in Nat
  BY <1>2, FiniteCounts
<1>5. Cardinality(InstancesFor(b)) + Cardinality(Awaiting(b)) <= welcomes + events
  BY <1>1 DEF CountInv
<1> DEFINE n == Len(instances')
           objects == InstancesFor(b)'
           waiting == Awaiting(b)'
<1>6. Instances' = Instances \cup {n} /\ n \notin Instances
  BY <1>2, <1>3 DEF Instances
<1>7. instances'[n].agent = a
  BY <1>3 DEF NewInstance
<1>8. objects = IF b = a THEN InstancesFor(b) \cup {n} ELSE InstancesFor(b)
  BY <1>3, <1>6, <1>7 DEF InstancesFor
<1>9. n \notin InstancesFor(b)
  BY <1>6 DEF InstancesFor
<1>10. ASSUME NEW j \in Tasks \ {k} PROVE RestOf(tasks[j])' = RestOf(tasks[j])
  <2>1. tasks'[j] = tasks[j]
    BY <1>3 DEF Becomes
  <2>2. tasks[j].step \in Building => tasks[j].inst \in Instances
    BY DEF InstanceInv, TaskInv
  <2>3. QED
    BY <1>3, <2>1, <2>2 DEF RestOf
<1>11. RestOf(tasks[k]) = tasks[k].todo /\ RestOf(tasks[k])' = tasks[k].todo \ {a}
  BY <1>1, <1>3, <1>7 DEF Becomes, RestOf, Building
<1>12. waiting = IF b = a THEN Awaiting(b) \ {k} ELSE Awaiting(b)
  BY <1>10, <1>11 DEF Awaiting, Tasks
<1>13. a = b => k \in Awaiting(b)
  BY <1>3, <1>11 DEF Awaiting
<1> HIDE DEF n, objects, waiting
<1>14. CASE a = b
  <2>1. Cardinality(objects) = Cardinality(InstancesFor(b)) + 1
    BY <1>4, <1>8, <1>9, <1>14, FS_AddElement
  <2>2. Cardinality(waiting) = Cardinality(Awaiting(b)) - 1
    BY <1>4, <1>12, <1>13, <1>14, FS_RemoveElement
  <2>3. Cardinality(objects) + Cardinality(waiting) <= welcomes' + events'
    BY <1>1, <1>2, <1>4, <1>5, <2>1, <2>2
  <2>4. QED
    BY <2>3 DEF objects, waiting
<1>15. CASE a # b
  <2>1. objects = InstancesFor(b) /\ waiting = Awaiting(b)
    BY <1>8, <1>12, <1>15
  <2>2. Cardinality(objects) + Cardinality(waiting) <= welcomes' + events'
    BY <1>1, <1>5, <2>1
  <2>3. QED
    BY <2>2 DEF objects, waiting
<1>16. QED
  BY <1>14, <1>15

\* Without a fault the handler is filed once, so that a message makes one handler.
LEMMA MessagesKeepCount ==
    ASSUME InstanceInv, SessionInv, CountInv,
           \/ \E placed \in Placements : HostWelcome(placed)
           \/ \E a \in Agents : AgentConnect(a) \/ AgentDisconnect(a)
    PROVE  CountInv'
<1> SUFFICES ASSUME faults' = 0, NEW b \in Agents
             PROVE  Cardinality(InstancesFor(b)') + Cardinality(Awaiting(b)') <= welcomes' + events'
  BY DEF CountInv
<1>1. /\ UNCHANGED <<client, registry, faults>> /\ welcomes' + events' = welcomes + events + 1
      /\ welcomes' \in Nat /\ events' \in Nat
  BY MessageTasks
<1>2. PICK task \in Task : Handle(task) /\ task.step \in {"none", "create", "find"}
  BY MessageTasks
<1>3. PICK ks \in SUBSET Tasks :
        /\ tasks' \in [Tasks -> Task]
        /\ \A k \in Tasks : tasks'[k] = IF k \in ks THEN task ELSE tasks[k]
        /\ IsFiniteSet(ks) /\ Cardinality(ks) <= Hosted(client)
  BY <1>2, HandleEffect
<1>4. TypeOK /\ welcomes \in Nat /\ events \in Nat /\ Hosted(client) \in Nat
  BY TypeOKIs, ClientOperations DEF InstanceInv
<1>5. Hosted(client) <= 1
  BY <1>1, <1>4 DEF SessionInv, CopiesInv
<1>6. InstancesFor(b)' = InstancesFor(b)
  BY <1>1 DEF InstancesFor, registry, Instances
<1>7. /\ Cardinality(InstancesFor(b)) \in Nat
      /\ IsFiniteSet(Awaiting(b)) /\ Cardinality(Awaiting(b)) \in Nat
  BY <1>4, FiniteCounts
<1>8. Cardinality(InstancesFor(b)) + Cardinality(Awaiting(b)) <= welcomes + events
  BY <1>1 DEF CountInv
<1> DEFINE waiting == Awaiting(b)'
<1>9. waiting \subseteq Awaiting(b) \cup ks
  <2>1. ASSUME NEW k \in Tasks, k \notin ks PROVE RestOf(tasks[k])' = RestOf(tasks[k])
    BY <1>1, <1>3, <2>1 DEF RestOf, registry
  <2>2. QED
    BY <2>1 DEF Awaiting, Tasks
<1>10. \E x : ks \subseteq {x}
  <2>1. Cardinality(ks) \in Nat
    BY <1>3, FS_CardinalityType
  <2>2. CASE Cardinality(ks) = 0
    <3>1. ks = {}
      BY <1>3, <2>2, FS_EmptySet
    <3>2. QED
      BY <3>1
  <2>3. CASE Cardinality(ks) = 1
    <3>1. \E x : ks = {x}
      BY <1>3, <2>3, FS_Singleton
    <3>2. QED
      BY <3>1
  <2>4. QED
    BY <1>3, <1>4, <1>5, <2>1, <2>2, <2>3
<1> HIDE DEF waiting
<1>11. Cardinality(waiting) <= Cardinality(Awaiting(b)) + 1 /\ Cardinality(waiting) \in Nat
  <2>1. PICK x : waiting \subseteq Awaiting(b) \cup {x}
    BY <1>9, <1>10
  <2>2. /\ IsFiniteSet(Awaiting(b) \cup {x})
        /\ Cardinality(Awaiting(b) \cup {x}) <= Cardinality(Awaiting(b)) + 1
        /\ Cardinality(Awaiting(b) \cup {x}) \in Nat
    <3> DEFINE old == Awaiting(b)
    <3> HIDE DEF old
    <3>1. IsFiniteSet(old) /\ Cardinality(old) \in Nat
      BY <1>7 DEF old
    <3>2. /\ IsFiniteSet(old \cup {x})
          /\ Cardinality(old \cup {x}) = IF x \in old THEN Cardinality(old) ELSE Cardinality(old) + 1
      BY <3>1, FS_AddElement
    <3>3. /\ IsFiniteSet(old \cup {x})
          /\ Cardinality(old \cup {x}) <= Cardinality(old) + 1
          /\ Cardinality(old \cup {x}) \in Nat
      BY <3>1, <3>2
    <3>4. QED
      BY <3>3 DEF old
  <2>3. waiting \in SUBSET (Awaiting(b) \cup {x})
    BY <2>1
  <2>4. Cardinality(waiting) <= Cardinality(Awaiting(b) \cup {x}) /\ Cardinality(waiting) \in Nat
    BY <2>2, <2>3, FS_Subset, FS_CardinalityType
  <2>5. QED
    BY <1>7, <2>2, <2>4
<1>12. Cardinality(InstancesFor(b)) + Cardinality(waiting) <= welcomes' + events'
  <2> DEFINE c1 == Cardinality(InstancesFor(b))
             c2 == Cardinality(Awaiting(b))
             c3 == Cardinality(waiting)
  <2>1. c1 \in Nat /\ c2 \in Nat /\ c3 \in Nat /\ c1 + c2 <= welcomes + events /\ c3 <= c2 + 1
    BY <1>7, <1>8, <1>11
  <2>2. welcomes' + events' = (welcomes + events) + 1 /\ welcomes + events \in Nat
    <3>1. welcomes + events \in Nat
      BY <1>4
    <3>2. welcomes' + events' = (welcomes + events) + 1
      BY <1>1, Zenon
    <3>3. QED
      BY <3>1, <3>2
  <2> HIDE DEF c1, c2, c3
  <2>3. c1 + c3 <= welcomes' + events'
    BY <2>1, <2>2
  <2>4. QED
    BY <2>3 DEF c1, c3
<1>13. QED
  BY <1>6, <1>12 DEF waiting

\* Every step keeps the objects within the messages.
LEMMA CountStep == InstanceInv /\ SessionInv /\ CountInv /\ [Next]_vars => CountInv'
<1> SUFFICES ASSUME InstanceInv, SessionInv, CountInv, [Next]_vars PROVE CountInv'
  OBVIOUS
<1>1. TypeOK /\ instances \in Seq(Agent) /\ faults \in Nat
  BY TypeOKIs DEF InstanceInv
<1>2. ASSUME NEW k \in Tasks, TaskStep(k) PROVE CountInv'
  <2>1. CASE CreateAgent(k)
    BY <2>1, CreateKeepsCount
  <2>2. CASE ~CreateAgent(k)
    BY <1>2, <2>2, RestShrinks, CountKept, TasksKeepSession DEF counters
  <2>3. QED
    BY <2>1, <2>2
<1>3. ASSUME UNCHANGED tasks, faults' \in {faults, faults + 1}, welcomes' = welcomes, events' = events,
             Instances' = Instances, \A i \in Instances : instances'[i].agent = instances[i].agent
      PROVE  CountInv'
  <2>1. ASSUME NEW j \in Tasks PROVE RestOf(tasks[j])' = RestOf(tasks[j])
    BY <1>3 DEF RestOf, InstanceInv, TaskInv
  <2>2. \A a \in Agents : InstancesFor(a)' = InstancesFor(a) /\ Awaiting(a)' \subseteq Awaiting(a)
    BY <1>3, <2>1 DEF InstancesFor, Awaiting, Tasks
  <2>3. QED
    BY <1>3, <2>2, CountKept
<1>4. CASE StartAsync \/ MainStep \/ MainLinkFails \/ HostConnectLost \/ LinkLost \/ UNCHANGED vars
  <2>1. /\ UNCHANGED <<registry, tasks, welcomes, events>> /\ faults' \in {faults, faults + 1}
    BY <1>4 DEF StartAsync, MainStep, MainLoop, MainLink, MainSubscribe, MainSubscribed, MainPublish,
         MainConnected, MainRetry, MainLinkFails, HostConnectLost, LinkLost, vars, counters
  <2>2. QED
    BY <1>3, <2>1 DEF registry, Instances
<1>5. CASE Stop \/ StopStep
  <2>1. UNCHANGED <<tasks, welcomes, events, faults>>
    BY <1>5 DEF Stop, StopStep, StopInterrupted, StopAgent, StopAgentUnsubscribed, StopHost,
         StopHostUnsubscribed, StopUnlink, StopClear, counters
  <2>2. instances' = instances \/ (stop.step = "agent" /\ instances' = [instances EXCEPT ![stop.inst].connected = FALSE])
    BY <1>5 DEF Stop, StopStep, StopInterrupted, StopAgent, StopAgentUnsubscribed, StopHost,
         StopHostUnsubscribed, StopUnlink, StopClear, registry
  <2>3. Instances' = Instances /\ \A i \in Instances : instances'[i].agent = instances[i].agent
    <3>1. CASE instances' = instances
      BY <3>1 DEF Instances
    <3>2. CASE stop.step = "agent" /\ instances' = [instances EXCEPT ![stop.inst].connected = FALSE]
      <4> DEFINE i == stop.inst
      <4>1. i \in Instances /\ instances' = [instances EXCEPT ![i].connected = FALSE]
        BY <3>2 DEF InstanceInv, StopInv
      <4> HIDE DEF i
      <4>2. SameButFor(i)
        BY <1>1, <4>1, FlagSet
      <4>3. QED
        BY <4>2 DEF SameButFor, Instances
    <3>3. QED
      BY <2>2, <3>1, <3>2
  <2>4. QED
    BY <1>3, <2>1, <2>3
<1>6. QED
  BY <1>2, <1>4, <1>5, MessagesKeepCount DEF Next, Tasks

\* Without a fault an agent never has more objects than the host was sent messages.
THEOREM CountInvariant == Spec => []CountInv
  BY CountInit, CountStep, InstancesInvariant, SessionInvariant, PTL DEF Spec

\* While IsConnected says so on a live link, and Stop has not come to the host's
\* own subscription, the server has answered that subscription and a handler is
\* filed: unless it was refused, the host can be welcomed.
THEOREM FlagCorrect == Spec => []HostFlagMeansStanding
<1>1. SessionInv => HostFlagMeansStanding
  BY DEF SessionInv, ConnectInv, HostFlagMeansStanding, Answered, Replied, Hears, Stopping, HostHandlers, Hosted, HostKey
<1>2. QED
  BY <1>1, SessionInvariant, PTL

\* A message to the host is handled once, and an agent created once for each
\* message that asks for it, but for attempts to connect that failed half way; and
\* Stop leaves no handler behind that the next StartAsync would double.
THEOREM HandledOnceCorrect == Spec => []HandledOnce
<1>1. InstanceInv /\ SessionInv /\ CountInv => HandledOnce
  <2> SUFFICES ASSUME InstanceInv, SessionInv, CountInv PROVE HandledOnce
    OBVIOUS
  <2>1. /\ TypeOK /\ client \in ClientType /\ faults \in Nat /\ welcomes \in Nat /\ events \in Nat
        /\ HostHandlers = Hosted(client) /\ Hosted(client) \in Nat
    BY TypeOKIs, ClientOperations DEF InstanceInv, HostHandlers, Hosted, HostKey
  <2>2. DuplicatesNeedFaults
    BY <2>1 DEF SessionInv, CopiesInv, DuplicatesNeedFaults
  <2>3. StopForgetsHost
    BY <2>1 DEF SessionInv, CopiesInv, StopForgetsHost, Stopping
  <2>4. CreatedOncePerWelcome
    <3> SUFFICES ASSUME faults = 0, NEW a \in Agents
                 PROVE  Cardinality(InstancesFor(a)) <= welcomes + events
      BY DEF CreatedOncePerWelcome
    <3>1. Cardinality(InstancesFor(a)) + Cardinality(Awaiting(a)) <= welcomes + events
      BY DEF CountInv
    <3>2. Cardinality(InstancesFor(a)) \in Nat /\ Cardinality(Awaiting(a)) \in Nat
      BY <2>1, FiniteCounts
    <3>3. QED
      BY <2>1, <3>1, <3>2
  <2>5. QED
    BY <2>2, <2>3, <2>4 DEF HandledOnce
<1>2. QED
  BY <1>1, InstancesInvariant, SessionInvariant, CountInvariant, PTL

-----------------------------------------------------------------------------
(* One handler at a time.                                                  *)

SerialInv ==
    ~overlapped => /\ \A j, k \in Tasks : Live(j) /\ Live(k) => j = k
                   /\ \A k \in Tasks : Live(k) => stop.step = "idle"

\* Nothing is handled before the start.
LEMMA SerialInit == Init => SerialInv
  BY DEF Init, SerialInv, Live, NoTask, Tasks

\* As long as handlers did not overlap, the one that takes a step is the only one,
\* and Stop is not running.
LEMMA Sole ==
    ASSUME SerialInv, ~overlapped, NEW k \in Tasks, TaskStep(k)
    PROVE  /\ Live(k) /\ stop.step = "idle"
           /\ \A j \in Tasks \ {k} : tasks[j].step = "none"
<1>1. Live(k)
  BY DEF TaskStep, CreateAgent, CreateAgentFails, AssignAgent, SubscribeAgent, AgentSubscribed,
         FindAgent, AgentUnsubscribed, DisposeAgent, Live
<1>2. QED
  BY <1>1 DEF SerialInv, Live

\* What a step of the handler k leaves, and whether it moved at all.
LEMMA OthersStay ==
    ASSUME InstanceInv, NEW k \in Tasks, TaskStep(k)
    PROVE  tasks' \in [Tasks -> Task] /\ \A j \in Tasks \ {k} : tasks'[j] = tasks[j]
<1>1. TypeOK
  BY DEF InstanceInv
<1>2. "subscribe" \in TaskSteps
  BY DEF TaskSteps
<1>3. \E t : Becomes(k, t)
  <2>1. CASE CreateAgent(k)
    BY <2>1, CreateEffect
  <2>2. CASE CreateAgentFails(k)
    BY <1>1, <2>2, TaskRecords DEF CreateAgentFails
  <2>3. CASE AssignAgent(k)
    BY <1>1, <1>2, <2>3, TaskRecords DEF AssignAgent
  <2>4. CASE SubscribeAgent(k)
    BY <2>4, SubscribeEffect
  <2>5. CASE AgentSubscribed(k)
    BY <2>5, SubscribedEffect
  <2>6. CASE FindAgent(k)
    BY <2>6, FindEffect
  <2>7. CASE AgentUnsubscribed(k)
    BY <2>7, UnsubscribedEffect
  <2>8. CASE DisposeAgent(k)
    BY <2>8, DisposeEffect
  <2>9. QED
    BY <2>1, <2>2, <2>3, <2>4, <2>5, <2>6, <2>7, <2>8 DEF TaskStep
<1>4. QED
  BY <1>3 DEF Becomes

\* Alone, said of the handlers instead of the free ones.
LEMMA AloneIsQuiet == Alone <=> (\A k \in Tasks : ~Live(k)) /\ stop.step = "idle"
  BY DEF Alone, FreeTasks, Tasks

\* A handler that starts beside another one, or beside Stop, sets overlapped.
LEMMA SerialStep == InstanceInv /\ SessionInv /\ SerialInv /\ [Next]_vars => SerialInv'
<1> SUFFICES ASSUME InstanceInv, SessionInv, SerialInv, [Next]_vars, ~overlapped'
             PROVE  /\ \A j, k \in Tasks : Live(j)' /\ Live(k)' => j = k
                    /\ \A k \in Tasks : Live(k)' => stop'.step = "idle"
  BY DEF SerialInv, Tasks
<1>1. CASE \/ \E placed \in Placements : HostWelcome(placed)
           \/ \E a \in Agents : AgentConnect(a) \/ AgentDisconnect(a)
  <2>1. UNCHANGED stop
    BY <1>1, MessageTasks
  <2>2. PICK task \in Task : Handle(task)
    BY <1>1, MessageTasks
  <2>3. PICK ks \in SUBSET Tasks :
          /\ \A k \in Tasks : tasks'[k] = IF k \in ks THEN task ELSE tasks[k]
          /\ ks # {} => Alone /\ \E k \in Tasks : ks = {k}
    BY <2>2, HandleEffect
  <2>4. ~overlapped
    BY <2>2, HandleEffect
  <2>5. CASE ks = {}
    BY <2>1, <2>3, <2>4, <2>5 DEF SerialInv, Live
  <2>6. CASE ks # {}
    <3>1. (\A k \in Tasks : ~Live(k)) /\ stop.step = "idle"
      BY <2>3, <2>6, AloneIsQuiet
    <3>2. QED
      BY <2>1, <2>3, <2>6, <3>1 DEF Live
  <2>7. QED
    BY <2>5, <2>6
<1>2. CASE \E k \in Tasks : TaskStep(k)
  <2>1. PICK k \in Tasks : TaskStep(k)
    BY <1>2
  <2>2. UNCHANGED <<stop, overlapped>>
    BY <2>1, TasksKeepSession
  <2>3. stop.step = "idle" /\ \A j \in Tasks \ {k} : tasks[j].step = "none"
    BY <2>1, <2>2, Sole
  <2>4. \A j \in Tasks \ {k} : tasks'[j].step = "none"
    BY <2>1, <2>3, OthersStay
  <2>5. QED
    BY <2>2, <2>3, <2>4 DEF Live
<1>3. CASE Stop
  <2>1. ~overlapped /\ Alone /\ UNCHANGED tasks
    BY <1>3, Zenon DEF Stop
  <2>2. QED
    BY <2>1, AloneIsQuiet DEF Live
<1>4. CASE StopStep
  <2>1. /\ UNCHANGED <<tasks, overlapped>> /\ stop.step # "idle"
    BY <1>4 DEF StopStep, StopInterrupted, StopAgent, StopAgentUnsubscribed, StopHost,
                StopHostUnsubscribed, StopUnlink, StopClear
  <2>2. QED
    BY <2>1 DEF SerialInv, Live
<1>5. CASE StartAsync \/ MainStep \/ MainLinkFails \/ HostConnectLost \/ LinkLost \/ UNCHANGED vars
  <2>1. UNCHANGED <<tasks, stop, overlapped>>
    BY <1>5 DEF StartAsync, MainStep, MainLoop, MainLink, MainSubscribe, MainSubscribed, MainPublish,
         MainConnected, MainRetry, MainLinkFails, HostConnectLost, LinkLost, vars
  <2>2. QED
    BY <2>1 DEF SerialInv, Live
<1>6. QED
  BY <1>1, <1>2, <1>3, <1>4, <1>5 DEF Next, Tasks

\* As long as no messages overlapped there is at most one handler, and none beside Stop.
THEOREM SerialInvariant == Spec => []SerialInv
  BY SerialInit, SerialStep, InstancesInvariant, SessionInvariant, PTL DEF Spec

-----------------------------------------------------------------------------
(* Which objects hear messages.  As long as handlers ran one at a time, an *)
(* agent somebody listens for is connected, or being connected, or its     *)
(* handler died without a link.  What keeps a later handler from meeting   *)
(* such a leftover is that the host is deaf to messages then: its own      *)
(* handler is still filed, so that it will be filed twice.                 *)

Calm == ~overlapped /\ (faults = 0 \/ stops = 0)
Connected(a) == agents[a] # 0 /\ instances[agents[a]].connected
Settled(a) == Hearing(client, a) # {} => Connected(a)
Working(a) == \E k \in Tasks : tasks[k].step \in {"subscribe", "subscribing"} /\ agents[a] = tasks[k].inst
Deaf == \/ Hosted(client) >= 2
        \/ /\ Hosted(client) >= 1
           /\ ~client.link \/ (~isConnected /\ main \in {"connect", "linking", "linked", "waiting"})

Accounted == \A a \in Agents : Settled(a) \/ Working(a) \/ (stops = 0 /\ Deaf)
NoneDisposed == \A a \in Agents : \A i \in Hearing(client, a) : ~instances[i].disposed
TaskQuiet(k) ==
    LET t == tasks[k]
        a == instances[t.inst].agent
    IN  /\ t.step = "find" => \A b \in Agents : Settled(b)
        /\ t.step \in {"unsubscribing", "dispose"} => Hearing(client, a) = {}
        /\ t.step \in Building => ~instances[t.inst].disposed
        /\ t.step \in {"subscribe", "subscribing"} => agents[a] = t.inst
        /\ t.step = "subscribing" => t.inst \in Hearing(client, a)
        /\ stops = 0 /\ t.step # "none" => Hosted(client) >= 1
StopQuiet == stop.step = "agent" => Hearing(client, instances[stop.inst].agent) = {}
QuietInv == Calm => Accounted /\ NoneDisposed /\ StopQuiet /\ \A k \in Tasks : TaskQuiet(k)

\* Without a fault, what is connected hears.
Reached(a) ==
    /\ client.link
    /\ AgentFilter(a) \in Replied(client)
    /\ \/ agents[a] \in Hearing(client, a)
       \/ \E k \in Tasks : tasks[k].step = "unsubscribing" /\ tasks[k].inst = agents[a]
       \/ stop.step = "agent" /\ stop.inst = agents[a]
    /\ stop.step # "idle" => a \in stop.todo \/ (stop.step = "agent" /\ stop.inst = agents[a])
TaskReach(k) ==
    /\ Live(k) => client.link
    /\ tasks[k].step \in Building => ~instances[tasks[k].inst].connected
ReachInv ==
    ~overlapped /\ faults = 0 =>
        /\ \A k \in Tasks : TaskReach(k)
        /\ \A a \in Agents : Connected(a) => Reached(a)
        /\ Stopping => stop.todo = {}

HearInv == InstanceInv /\ SessionInv /\ SerialInv /\ QuietInv /\ ReachInv

\* Nobody hears anything before the start.
LEMMA HearInit == Init => QuietInv /\ ReachInv
<1> SUFFICES ASSUME Init PROVE QuietInv /\ ReachInv
  OBVIOUS
<1>1. \A a \in Agents : Hearing(client, a) = {}
  <2>1. ToSet(<<>>) = {}
    BY DEF ToSet
  <2>2. \A k \in Keys : client.callbacks[k] = <<>>
    BY DEF Init, NoClient
  <2>3. QED
    BY <2>1, <2>2, KeysApart DEF Hearing
<1>2. /\ \A k \in Tasks : tasks[k].step = "none"
      /\ \A a \in Agents : agents[a] = 0
      /\ stop.step = "idle"
  BY DEF Init, NoTask, Tasks
<1>3. QED
  BY <1>1, <1>2 DEF QuietInv, ReachInv, Accounted, NoneDisposed, StopQuiet, TaskQuiet, TaskReach,
       Settled, Connected, Live, Building, Stopping

\* What a step of the only handler k has to establish.
LEMMA AfterTask ==
    ASSUME HearInv, ~overlapped, NEW k \in Tasks, TaskStep(k),
           Calm => /\ \A a \in Agents : \/ Settled(a)'
                                        \/ tasks'[k].step \in {"subscribe", "subscribing"} /\ agents'[a] = tasks'[k].inst
                                        \/ stops = 0 /\ Deaf
                   /\ NoneDisposed' /\ TaskQuiet(k)',
           faults = 0 => /\ tasks'[k].step \in Building => ~instances'[tasks'[k].inst].connected
                         /\ \A a \in Agents : Connected(a)' =>
                              /\ client.link
                              /\ AgentFilter(a) \in Replied(client')
                              /\ \/ agents'[a] \in Hearing(client', a)
                                 \/ tasks'[k].step = "unsubscribing" /\ tasks'[k].inst = agents'[a]
    PROVE  QuietInv' /\ ReachInv'
<1>1. /\ UNCHANGED <<isConnected, main, stop, requests, counters, overlapped>>
      /\ client'.link = client.link /\ Hosted(client') = Hosted(client)
  BY TasksKeepSession DEF HearInv
<1>2. Live(k) /\ stop.step = "idle" /\ \A j \in Tasks \ {k} : tasks[j].step = "none"
  BY Sole DEF HearInv
<1>3. \A j \in Tasks \ {k} : tasks'[j].step = "none"
  BY <1>2, OthersStay DEF HearInv
<1>4. QuietInv'
  <2> SUFFICES ASSUME Calm' PROVE (Accounted /\ NoneDisposed /\ StopQuiet /\ \A j \in Tasks : TaskQuiet(j))'
    BY DEF QuietInv
  <2>1. Calm /\ (stops = 0 <=> stops' = 0)
    BY <1>1 DEF Calm, counters
  <2>2. Deaf' <=> Deaf
    BY <1>1 DEF Deaf
  <2>3. Accounted'
    BY <2>1, <2>2 DEF Accounted, Working, Tasks
  <2>4. StopQuiet'
    BY <1>1, <1>2 DEF StopQuiet
  <2>5. \A j \in Tasks \ {k} : TaskQuiet(j)'
    BY <1>3 DEF TaskQuiet, Building
  <2>6. QED
    BY <2>1, <2>3, <2>4, <2>5 DEF Tasks
<1>5. ReachInv'
  <2> SUFFICES ASSUME ~overlapped', faults' = 0
               PROVE  (/\ \A j \in Tasks : TaskReach(j)
                       /\ \A a \in Agents : Connected(a) => Reached(a)
                       /\ Stopping => stop.todo = {})'
    BY DEF ReachInv
  <2>1. faults = 0
    BY <1>1 DEF counters
  <2>2. client.link
    BY <1>2, <2>1 DEF HearInv, ReachInv, TaskReach
  <2>3. \A j \in Tasks : TaskReach(j)'
    BY <1>1, <1>3, <2>1, <2>2 DEF TaskReach, Building, Live
  <2>4. \A a \in Agents : Connected(a)' => Reached(a)'
    BY <1>1, <1>2, <2>1, <2>2 DEF Reached, Tasks
  <2>5. ~Stopping'
    BY <1>1, <1>2 DEF Stopping
  <2>6. QED
    BY <2>3, <2>4, <2>5 DEF Tasks
<1>6. QED
  BY <1>4, <1>5

\* What is known when the only handler k takes a step.
LEMMA BeforeTask ==
    ASSUME HearInv, ~overlapped, NEW k \in Tasks, TaskStep(k)
    PROVE  /\ Calm => /\ \A a \in Agents : \/ Settled(a)
                                           \/ tasks[k].step \in {"subscribe", "subscribing"} /\ agents[a] = tasks[k].inst
                                           \/ stops = 0 /\ Deaf
                      /\ NoneDisposed /\ TaskQuiet(k)
           /\ faults = 0 => /\ client.link
                            /\ tasks[k].step \in Building => ~instances[tasks[k].inst].connected
                            /\ \A a \in Agents : Connected(a) =>
                              /\ AgentFilter(a) \in Replied(client)
                              /\ \/ agents[a] \in Hearing(client, a)
                                 \/ tasks[k].step = "unsubscribing" /\ tasks[k].inst = agents[a]
           /\ Calm /\ ~client.link => stops = 0 /\ Deaf
<1>1. Live(k) /\ stop.step = "idle" /\ \A j \in Tasks \ {k} : tasks[j].step = "none"
  BY Sole DEF HearInv
<1>2. ASSUME Calm
      PROVE  /\ \A a \in Agents : \/ Settled(a)
                                  \/ tasks[k].step \in {"subscribe", "subscribing"} /\ agents[a] = tasks[k].inst
                                  \/ stops = 0 /\ Deaf
             /\ NoneDisposed /\ TaskQuiet(k)
  BY <1>1, <1>2 DEF HearInv, QuietInv, Accounted, Working
<1>3. ASSUME faults = 0
      PROVE  /\ client.link
             /\ tasks[k].step \in Building => ~instances[tasks[k].inst].connected
             /\ \A a \in Agents : Connected(a) =>
                    /\ AgentFilter(a) \in Replied(client)
                    /\ \/ agents[a] \in Hearing(client, a)
                       \/ tasks[k].step = "unsubscribing" /\ tasks[k].inst = agents[a]
  BY <1>1, <1>3 DEF HearInv, ReachInv, TaskReach, Reached
<1>4. Calm /\ ~client.link => stops = 0 /\ Deaf
  BY <1>1, <1>2, <1>3 DEF Calm, TaskQuiet, Live, Deaf
<1>5. QED
  BY <1>2, <1>3, <1>4

\* A new object hears nothing: nothing is filed for it yet.
LEMMA CreateKeepsHearing ==
    ASSUME HearInv, ~overlapped, NEW k \in Tasks, CreateAgent(k)
    PROVE  QuietInv' /\ ReachInv'
<1>1. TaskStep(k) /\ tasks[k].step = "create" /\ UNCHANGED <<client, agents>>
  BY DEF TaskStep, CreateAgent
<1>2. InstanceInv /\ RecordInv /\ instances \in Seq(Agent)
  BY TypeOKIs DEF HearInv, InstanceInv
<1>3. PICK a \in tasks[k].todo \ Broken :
             /\ Len(instances') = Len(instances) + 1
             /\ instances'[Len(instances')] = NewInstance(a)
             /\ \A i \in Instances : instances'[i] = instances[i]
             /\ Becomes(k, [step |-> "assign", todo |-> tasks[k].todo, inst |-> Len(instances')])
  BY <1>2, CreateEffect
<1>4. /\ tasks'[k].step = "assign" /\ tasks'[k].inst = Len(instances')
      /\ ~instances'[Len(instances')].disposed /\ ~instances'[Len(instances')].connected
  BY <1>3 DEF Becomes, NewInstance
<1>5. \A b \in Agents : agents[b] # 0 => instances'[agents[b]] = instances[agents[b]]
  BY <1>2, <1>3 DEF RecordInv
<1>6. \A b \in Agents : (Connected(b)' <=> Connected(b)) /\ (Settled(b)' <=> Settled(b))
  BY <1>1, <1>5 DEF Connected, Settled
<1>7. ASSUME Calm
      PROVE  /\ \A b \in Agents : Settled(b)' \/ (stops = 0 /\ Deaf)
             /\ NoneDisposed' /\ TaskQuiet(k)'
  <2>1. /\ \A b \in Agents : Settled(b) \/ (stops = 0 /\ Deaf)
        /\ NoneDisposed /\ TaskQuiet(k)
    BY <1>1, <1>7, BeforeTask
  <2>2. NoneDisposed'
    BY <1>1, <1>2, <1>3, <2>1 DEF NoneDisposed, RecordInv
  <2>3. TaskQuiet(k)'
    <3>1. stops' = stops
      BY DEF CreateAgent, counters
    <3>2. QED
      BY <1>1, <1>4, <2>1, <3>1 DEF TaskQuiet
  <2>4. QED
    BY <1>6, <2>1, <2>2, <2>3
<1>8. ASSUME faults = 0
      PROVE  /\ ~instances'[tasks'[k].inst].connected
             /\ \A b \in Agents : Connected(b)' =>
                    /\ client.link
                    /\ AgentFilter(b) \in Replied(client')
                    /\ agents'[b] \in Hearing(client', b)
  BY <1>1, <1>4, <1>6, <1>8, BeforeTask
<1>9. QED
  BY <1>1, <1>7, <1>8, AfterTask

\* A handler that fails to create an object leaves who hears as it was.
LEMMA FailureKeepsHearing ==
    ASSUME HearInv, ~overlapped, NEW k \in Tasks, CreateAgentFails(k)
    PROVE  QuietInv' /\ ReachInv'
<1>1. TaskStep(k) /\ tasks[k].step = "create" /\ UNCHANGED <<client, agents, instances>>
  BY DEF TaskStep, CreateAgentFails, registry
<1>2. tasks'[k].step = "none"
  BY TaskRecords DEF CreateAgentFails, HearInv, InstanceInv, Becomes, NoTask
<1>3. \A b \in Agents : (Connected(b)' <=> Connected(b)) /\ (Settled(b)' <=> Settled(b))
  BY <1>1 DEF Connected, Settled
<1>4. ASSUME Calm
      PROVE  /\ \A b \in Agents : Settled(b)' \/ (stops = 0 /\ Deaf)
             /\ NoneDisposed' /\ TaskQuiet(k)'
  <2>1. (\A b \in Agents : Settled(b) \/ (stops = 0 /\ Deaf)) /\ NoneDisposed
    BY <1>1, <1>4, BeforeTask
  <2>2. QED
    BY <1>1, <1>2, <1>3, <2>1 DEF NoneDisposed, TaskQuiet, Building
<1>5. ASSUME faults = 0
      PROVE  \A b \in Agents : Connected(b)' =>
                    /\ client.link
                    /\ AgentFilter(b) \in Replied(client')
                    /\ agents'[b] \in Hearing(client', b)
  BY <1>1, <1>3, <1>5, BeforeTask
<1>6. QED
  BY <1>1, <1>2, <1>4, <1>5, AfterTask DEF Building

\* Storing a new object in Agents: whoever still hears for its agent, after a second welcome
\* for it, is accounted for by the handler that goes on to connect the new one.
LEMMA AssignKeepsHearing ==
    ASSUME HearInv, ~overlapped, NEW k \in Tasks, AssignAgent(k)
    PROVE  QuietInv' /\ ReachInv'
<1> DEFINE i == tasks[k].inst
           a == instances[i].agent
<1>1. TaskStep(k) /\ tasks[k].step = "assign" /\ UNCHANGED <<client, instances, stops>>
  BY DEF TaskStep, AssignAgent, counters
<1>2. /\ InstanceInv /\ TypeOK /\ RecordInv /\ agents \in [Agents -> 0 .. MaxInstances]
      /\ instances \in Seq(Agent) /\ i \in Instances
  BY <1>1, TypeOKIs DEF HearInv, InstanceInv, TaskInv, Building
<1>3. a \in Agents
  BY <1>2, InstanceRecords
<1>4. \A b \in Agents : agents'[b] = IF b = a THEN i ELSE agents[b]
  BY <1>2, <1>3 DEF AssignAgent
<1>5. tasks'[k].step = "subscribe" /\ tasks'[k].inst = i
  <2>1. "subscribe" \in TaskSteps
    BY DEF TaskSteps
  <2>2. Becomes(k, [tasks[k] EXCEPT !.step = "subscribe"])
    BY <1>2, <2>1, TaskRecords DEF AssignAgent
  <2>3. QED
    BY <1>2, <2>1, <2>2, MovedRecord DEF Becomes
<1> HIDE DEF i, a
<1>6. \A b \in Agents \ {a} : (Connected(b)' <=> Connected(b)) /\ (Settled(b)' <=> Settled(b))
  BY <1>1, <1>4 DEF Connected, Settled
<1>7. ASSUME Calm
      PROVE  /\ \A b \in Agents : Settled(b)' \/ agents'[b] = i \/ (stops = 0 /\ Deaf)
             /\ NoneDisposed' /\ TaskQuiet(k)'
  <2>1. /\ \A b \in Agents : Settled(b) \/ (stops = 0 /\ Deaf)
        /\ NoneDisposed /\ TaskQuiet(k)
    BY <1>1, <1>7, BeforeTask
  <2>2. TaskQuiet(k)'
    <3>1. ~instances[i].disposed /\ (stops = 0 => Hosted(client) >= 1)
      BY <1>1, <2>1 DEF TaskQuiet, Building, i
    <3>2. agents'[a] = i
      BY <1>3, <1>4
    <3>3. QED
      BY <1>1, <1>5, <3>1, <3>2 DEF TaskQuiet, a
  <2>3. QED
    BY <1>1, <1>4, <1>6, <2>1, <2>2 DEF NoneDisposed
<1>8. ASSUME faults = 0
      PROVE  /\ ~instances'[tasks'[k].inst].connected
             /\ \A b \in Agents : Connected(b)' =>
                    /\ client.link
                    /\ AgentFilter(b) \in Replied(client')
                    /\ agents'[b] \in Hearing(client', b)
  <2>1. ~instances[i].connected
    BY <1>1, <1>8, BeforeTask DEF Building, i
  <2>2. ASSUME NEW b \in Agents, b = a PROVE ~Connected(b)'
    <3>1. agents'[b] = i
      BY <1>4, <2>2
    <3>2. instances'[agents'[b]] = instances[i]
      BY <1>1, <3>1
    <3>3. QED
      BY <2>1, <3>2 DEF Connected
  <2>3. ASSUME NEW b \in Agents, Connected(b)'
        PROVE  client.link /\ AgentFilter(b) \in Replied(client') /\ agents'[b] \in Hearing(client', b)
    <3>0. b # a
      BY <2>2, <2>3
    <3>1. Connected(b) /\ agents'[b] = agents[b]
      BY <1>4, <1>6, <2>3, <3>0
    <3>2. QED
      BY <1>1, <1>8, <3>1, BeforeTask
  <2>4. QED
    BY <1>1, <1>5, <2>1, <2>3
<1>9. QED
  BY <1>1, <1>5, <1>7, <1>8, AfterTask

\* A handler that dies because there is no link: the host is deaf then.
LEMMA DeathKeepsHearing ==
    ASSUME HearInv, ~overlapped, NEW k \in Tasks, TaskStep(k), ~client.link,
           UNCHANGED <<client, agents, instances>>, Becomes(k, NoTask)
    PROVE  QuietInv' /\ ReachInv'
<1>1. tasks'[k].step = "none"
  BY DEF Becomes, NoTask
<1>2. ASSUME Calm
      PROVE  stops = 0 /\ Deaf /\ NoneDisposed' /\ TaskQuiet(k)'
  <2>1. stops = 0 /\ Deaf /\ NoneDisposed
    BY <1>2, BeforeTask
  <2>2. QED
    BY <1>1, <2>1 DEF NoneDisposed, TaskQuiet, Building
<1>3. faults # 0
  BY BeforeTask
<1>4. QED
  BY <1>2, <1>3, AfterTask

\* Filing the handler of an object that is not disposed and is the one stored in Agents.
LEMMA SubscribeKeepsHearing ==
    ASSUME HearInv, ~overlapped, NEW k \in Tasks, SubscribeAgent(k)
    PROVE  QuietInv' /\ ReachInv'
<1> DEFINE i == tasks[k].inst
           a == instances[i].agent
<1>1. TaskStep(k) /\ tasks[k].step = "subscribe" /\ UNCHANGED <<agents, instances, stops>>
  BY DEF TaskStep, SubscribeAgent, registry, counters
<1>2. /\ InstanceInv /\ TypeOK /\ RecordInv /\ client \in ClientType
      /\ instances \in Seq(Agent) /\ i \in Instances
  BY <1>1, TypeOKIs DEF HearInv, InstanceInv, TaskInv, Building
<1>3. a \in Agents /\ i \in 0 .. MaxInstances
  <2>1. tasks[k] \in Task
    BY <1>2, TypeOKIs
  <2>2. QED
    BY <1>2, <2>1, InstanceRecords DEF Task
<1>4. CASE ~client.link
  BY <1>1, <1>2, <1>4, SubscribeEffect, DeathKeepsHearing
<1>5. CASE client.link
  <2>1. /\ client' = WithHandler(client, AgentFilter(a), i)
        /\ Becomes(k, [tasks[k] EXCEPT !.step = "subscribing"])
    BY <1>2, <1>5, SubscribeEffect
  <2>2. tasks'[k].step = "subscribing" /\ tasks'[k].inst = i
    <3>1. "subscribing" \in TaskSteps
      BY DEF TaskSteps
    <3>2. QED
      BY <1>2, <2>1, <3>1, MovedRecord DEF Becomes
  <2> HIDE DEF i, a
  <2>3. /\ Replied(client') = Replied(client) /\ Hosted(client') = Hosted(client)
        /\ Hearing(client', a) = Hearing(client, a) \cup {i}
        /\ \A b \in Agents \ {a} : Hearing(client', b) = Hearing(client, b)
    BY <1>2, <1>3, <2>1, AgentOperations
  <2>4. /\ \A b \in Agents : Connected(b)' <=> Connected(b)
        /\ \A b \in Agents \ {a} : Settled(b)' <=> Settled(b)
    BY <1>1, <2>3 DEF Connected, Settled
  <2>5. ASSUME Calm
        PROVE  /\ \A b \in Agents : Settled(b)' \/ agents'[b] = i \/ (stops = 0 /\ Deaf)
               /\ NoneDisposed' /\ TaskQuiet(k)'
    <3>1. /\ \A b \in Agents : Settled(b) \/ agents[b] = i \/ (stops = 0 /\ Deaf)
          /\ NoneDisposed /\ TaskQuiet(k)
      BY <1>1, <2>5, BeforeTask DEF i
    <3>2. ~instances[i].disposed /\ agents[a] = i /\ (stops = 0 => Hosted(client) >= 1)
      BY <1>1, <3>1 DEF TaskQuiet, Building, i, a
    <3>3. TaskQuiet(k)'
      BY <1>1, <2>2, <2>3, <3>2 DEF TaskQuiet, a
    <3>4. NoneDisposed'
      BY <1>1, <2>3, <3>1, <3>2 DEF NoneDisposed
    <3>5. QED
      BY <1>1, <2>4, <3>1, <3>2, <3>3, <3>4
  <2>6. ASSUME faults = 0
        PROVE  /\ ~instances'[tasks'[k].inst].connected
               /\ \A b \in Agents : Connected(b)' =>
                      /\ client.link
                      /\ AgentFilter(b) \in Replied(client')
                      /\ agents'[b] \in Hearing(client', b)
    <3>1. /\ ~instances[i].connected
          /\ \A b \in Agents : Connected(b) =>
                AgentFilter(b) \in Replied(client) /\ agents[b] \in Hearing(client, b)
      BY <1>1, <2>6, BeforeTask DEF Building, i
    <3>2. QED
      BY <1>1, <1>5, <2>2, <2>3, <2>4, <3>1
  <2>7. QED
    BY <1>1, <2>2, <2>5, <2>6, AfterTask
<1>6. QED
  BY <1>4, <1>5

\* The object is connected and hears; or the link was lost, and the host is deaf or has been
\* stopped before.
LEMMA SubscribedKeepsHearing ==
    ASSUME HearInv, ~overlapped, NEW k \in Tasks, AgentSubscribed(k)
    PROVE  QuietInv' /\ ReachInv'
<1> DEFINE i == tasks[k].inst
           a == instances[i].agent
<1>1. TaskStep(k) /\ tasks[k].step = "subscribing" /\ UNCHANGED <<agents, stops>>
  BY DEF TaskStep, AgentSubscribed, counters
<1>2. /\ InstanceInv /\ TypeOK /\ RecordInv /\ client \in ClientType
      /\ instances \in Seq(Agent) /\ i \in Instances
  BY <1>1, TypeOKIs DEF HearInv, InstanceInv, TaskInv, Building
<1>3. a \in Agents
  BY <1>2, InstanceRecords
<1>4. CASE ~client.link
  BY <1>1, <1>2, <1>4, SubscribedEffect, DeathKeepsHearing
<1>5. CASE client.link
  <2>1. /\ Replied(client) \subseteq Replied(client')
        /\ AgentFilter(a) \in Replied(client')
        /\ Hosted(client') = Hosted(client)
        /\ \A b \in Agents : Hearing(client', b) = Hearing(client, b)
        /\ instances' = [instances EXCEPT ![i].connected = TRUE]
        /\ Becomes(k, Following(k))
    BY <1>2, <1>5, SubscribedEffect
  <2>2. tasks'[k].step \in {"none", "create"}
    BY <2>1 DEF Becomes, Following, NoTask
  <2> HIDE DEF i, a
  <2>3. SameButFor(i) /\ instances'[i].connected /\ instances'[i].disposed = instances[i].disposed
    BY <1>2, <2>1, FlagSet
  <2>4. \A b \in Agents : agents[b] # 0 /\ agents[b] # i => instances'[agents[b]] = instances[agents[b]]
    BY <1>2, <2>3 DEF SameButFor, RecordInv
  <2>5. \A b \in Agents : Connected(b) => Connected(b)'
    BY <1>1, <2>3, <2>4 DEF Connected
  <2>6. ASSUME Calm
        PROVE  /\ \A b \in Agents : Settled(b)' \/ (stops = 0 /\ Deaf)
               /\ NoneDisposed' /\ TaskQuiet(k)'
    <3>1. /\ \A b \in Agents : Settled(b) \/ agents[b] = i \/ (stops = 0 /\ Deaf)
          /\ NoneDisposed /\ TaskQuiet(k)
      BY <1>1, <2>6, BeforeTask DEF i
    <3>2. \A b \in Agents : agents[b] = i => Connected(b)'
      <4>1. i # 0
        BY <1>2 DEF Instances
      <4>2. QED
        BY <1>1, <2>3, <4>1 DEF Connected
    <3>3. TaskQuiet(k)'
      BY <1>1, <2>1, <2>2, <3>1 DEF TaskQuiet, Building
    <3>4. NoneDisposed'
      BY <1>2, <2>1, <2>3, <3>1 DEF NoneDisposed, SameButFor, RecordInv
    <3>5. QED
      BY <2>1, <2>5, <3>1, <3>2, <3>3, <3>4 DEF Settled
  <2>7. ASSUME faults = 0, NEW b \in Agents, Connected(b)'
        PROVE  AgentFilter(b) \in Replied(client') /\ agents'[b] \in Hearing(client', b)
    <3>1. Connected(b) => AgentFilter(b) \in Replied(client) /\ agents[b] \in Hearing(client, b)
      BY <1>1, <2>7, BeforeTask
    <3>2. CASE agents[b] # i
      <4>1. Connected(b)
        BY <1>1, <2>4, <2>7, <3>2 DEF Connected
      <4>2. QED
        BY <1>1, <2>1, <3>1, <4>1
    <3>3. CASE agents[b] = i
      <4>1. i # 0 /\ a = b
        BY <1>2, <3>3 DEF Instances, RecordInv, a
      <4>2. i \in Hearing(client, a)
        BY <1>1, <2>7, BeforeTask DEF TaskQuiet, Calm, HearInv, i, a
      <4>3. QED
        BY <1>1, <2>1, <3>3, <4>1, <4>2
    <3>4. QED
      BY <3>2, <3>3
  <2>8. QED
    BY <1>1, <1>5, <2>2, <2>6, <2>7, AfterTask DEF Building
<1>6. QED
  BY <1>4, <1>5

\* agent_disconnect drops the handlers of the agent before anything else, linked or not.
LEMMA FindKeepsHearing ==
    ASSUME HearInv, ~overlapped, NEW k \in Tasks, FindAgent(k)
    PROVE  QuietInv' /\ ReachInv'
<1>1. TaskStep(k) /\ tasks[k].step = "find" /\ UNCHANGED <<agents, instances, stops>>
  BY DEF TaskStep, FindAgent, registry, counters
<1>2. InstanceInv /\ TypeOK /\ RecordInv /\ client \in ClientType /\ tasks[k].todo \subseteq Agents
  <2>1. TypeOK
    BY DEF HearInv, InstanceInv
  <2>2. tasks[k] \in Task
    BY <2>1, TypeOKIs
  <2>3. QED
    BY <2>1, <2>2, TypeOKIs DEF HearInv, InstanceInv, Task
<1>3. PICK a \in tasks[k].todo :
             \/ agents[a] = 0 /\ client' = client /\ Becomes(k, NoTask)
             \/ /\ agents[a] \in Instances /\ ~instances[agents[a]].connected
                /\ client' = client
                /\ Becomes(k, [step |-> "dispose", todo |-> tasks[k].todo, inst |-> agents[a]])
             \/ /\ agents[a] \in Instances /\ instances[agents[a]].connected
                /\ client' = WithoutHandlers(client, AgentFilter(a))
                /\ \/ client.link /\ Becomes(k, [step |-> "unsubscribing", todo |-> tasks[k].todo, inst |-> agents[a]])
                   \/ ~client.link /\ Becomes(k, NoTask)
  BY <1>2, FindEffect
<1>4. a \in Agents
  BY <1>2
<1>5. \A b \in Agents : Connected(b)' <=> Connected(b)
  BY <1>1 DEF Connected
<1>6. ASSUME Calm
      PROVE  /\ \A b \in Agents : Settled(b)
             /\ NoneDisposed /\ (stops = 0 => Hosted(client) >= 1)
  BY <1>1, <1>6, BeforeTask DEF TaskQuiet
<1>7. ASSUME faults = 0
      PROVE  /\ client.link
             /\ \A b \in Agents : Connected(b) =>
                  AgentFilter(b) \in Replied(client) /\ agents[b] \in Hearing(client, b)
  BY <1>1, <1>7, BeforeTask
<1>8. CASE client' = client /\ Becomes(k, NoTask)
  <2>1. tasks'[k].step = "none"
    BY <1>8 DEF Becomes, NoTask
  <2>2. Calm => /\ \A b \in Agents : Settled(b)'
                /\ NoneDisposed' /\ TaskQuiet(k)'
    BY <1>1, <1>5, <1>6, <1>8, <2>1 DEF Settled, NoneDisposed, TaskQuiet, Building
  <2>3. QED
    BY <1>1, <1>5, <1>7, <1>8, <2>1, <2>2, AfterTask DEF Building
<1>9. CASE /\ agents[a] \in Instances /\ ~instances[agents[a]].connected /\ client' = client
           /\ Becomes(k, [step |-> "dispose", todo |-> tasks[k].todo, inst |-> agents[a]])
  <2>1. tasks'[k].step = "dispose" /\ tasks'[k].inst = agents[a] /\ instances[agents[a]].agent = a
    BY <1>2, <1>4, <1>9 DEF Becomes, RecordInv, Instances
  <2>2. Calm => Hearing(client, a) = {}
    BY <1>4, <1>6, <1>9 DEF Settled, Connected
  <2>3. Calm => TaskQuiet(k)'
    BY <1>1, <1>6, <1>9, <2>1, <2>2 DEF TaskQuiet, Building
  <2>4. Calm => (\A b \in Agents : Settled(b)') /\ NoneDisposed'
    BY <1>1, <1>5, <1>6, <1>9 DEF Settled, NoneDisposed
  <2>5. QED
    BY <1>1, <1>5, <1>7, <1>9, <2>1, <2>3, <2>4, AfterTask DEF Building
<1>10. CASE client' = WithoutHandlers(client, AgentFilter(a)) /\ agents[a] \in Instances
  <2>1. /\ Replied(client') = Replied(client) /\ Hosted(client') = Hosted(client)
        /\ \A b \in Agents : Hearing(client', b) = IF b = a THEN {} ELSE Hearing(client, b)
    BY <1>2, <1>4, <1>10, FewerHear
  <2>2. instances[agents[a]].agent = a
    BY <1>2, <1>4, <1>10 DEF RecordInv, Instances
  <2>3. Calm => (\A b \in Agents : Settled(b)') /\ NoneDisposed'
    BY <1>1, <1>5, <1>6, <2>1 DEF Settled, NoneDisposed
  <2>4. CASE Becomes(k, NoTask) /\ ~client.link
    <3>1. tasks'[k].step = "none"
      BY <2>4 DEF Becomes, NoTask
    <3>2. Calm => TaskQuiet(k)'
      BY <3>1 DEF TaskQuiet, Building
    <3>3. faults # 0
      BY <1>7, <2>4
    <3>4. QED
      BY <1>1, <2>3, <3>2, <3>3, AfterTask
  <2>5. CASE Becomes(k, [step |-> "unsubscribing", todo |-> tasks[k].todo, inst |-> agents[a]])
    <3>1. tasks'[k].step = "unsubscribing" /\ tasks'[k].inst = agents[a]
      BY <2>5 DEF Becomes
    <3>2. Calm => TaskQuiet(k)'
      BY <1>1, <1>4, <1>6, <2>1, <2>2, <3>1 DEF TaskQuiet, Building
    <3>3. QED
      BY <1>1, <1>5, <1>7, <2>1, <2>3, <3>1, <3>2, AfterTask DEF Building
  <2>6. QED
    BY <1>3, <1>8, <1>9, <1>10, <2>4, <2>5
<1>11. QED
  BY <1>3, <1>8, <1>9, <1>10

\* The object is no longer connected and no longer hears.
LEMMA UnsubscribedKeepsHearing ==
    ASSUME HearInv, ~overlapped, NEW k \in Tasks, AgentUnsubscribed(k)
    PROVE  QuietInv' /\ ReachInv'
<1> DEFINE i == tasks[k].inst
           a == instances[i].agent
<1>1. TaskStep(k) /\ tasks[k].step = "unsubscribing" /\ UNCHANGED <<agents, stops>>
  BY DEF TaskStep, AgentUnsubscribed, counters
<1>2. /\ InstanceInv /\ TypeOK /\ RecordInv /\ client \in ClientType
      /\ instances \in Seq(Agent) /\ i \in Instances
  BY <1>1, TypeOKIs DEF HearInv, InstanceInv, TaskInv
<1>3. a \in Agents
  BY <1>2, InstanceRecords
<1>4. CASE ~client.link
  BY <1>1, <1>2, <1>4, UnsubscribedEffect, DeathKeepsHearing
<1>5. CASE client.link
  <2>1. /\ client' = client
        /\ instances' = [instances EXCEPT ![i].connected = FALSE]
        /\ Becomes(k, [tasks[k] EXCEPT !.step = "dispose"])
    BY <1>2, <1>5, UnsubscribedEffect
  <2>2. tasks'[k].step = "dispose" /\ tasks'[k].inst = i
    <3>1. "dispose" \in TaskSteps
      BY DEF TaskSteps
    <3>2. QED
      BY <1>2, <2>1, <3>1, MovedRecord DEF Becomes
  <2> HIDE DEF i, a
  <2>3. SameButFor(i) /\ ~instances'[i].connected /\ instances'[i].disposed = instances[i].disposed
    BY <1>2, <2>1, FlagSet
  <2>4. \A b \in Agents : agents[b] # 0 /\ agents[b] # i => instances'[agents[b]] = instances[agents[b]]
    BY <1>2, <2>3 DEF SameButFor, RecordInv
  <2>5. \A b \in Agents : agents[b] = i => a = b
    BY <1>2 DEF Instances, RecordInv, a
  <2>6. \A b \in Agents : agents[b] # i => (Connected(b)' <=> Connected(b))
    BY <1>1, <2>4 DEF Connected
  <2>7. ASSUME Calm
        PROVE  /\ \A b \in Agents : Settled(b)' \/ (stops = 0 /\ Deaf)
               /\ NoneDisposed' /\ TaskQuiet(k)'
    <3>1. /\ \A b \in Agents : Settled(b) \/ (stops = 0 /\ Deaf)
          /\ NoneDisposed /\ TaskQuiet(k)
      BY <1>1, <2>7, BeforeTask
    <3>2. Hearing(client, a) = {}
      BY <1>1, <3>1 DEF TaskQuiet, i, a
    <3>3. instances'[i].agent = a
      BY <1>2, <2>3 DEF SameButFor, a
    <3>4. TaskQuiet(k)'
      BY <1>1, <2>1, <2>2, <3>1, <3>2, <3>3 DEF TaskQuiet, Building
    <3>5. NoneDisposed'
      BY <1>2, <2>1, <2>3, <3>1 DEF NoneDisposed, SameButFor, RecordInv
    <3>6. \A b \in Agents : Settled(b)' \/ (stops = 0 /\ Deaf)
      BY <2>1, <2>5, <2>6, <3>1, <3>2 DEF Settled
    <3>7. QED
      BY <3>4, <3>5, <3>6
  <2>8. ASSUME faults = 0, NEW b \in Agents, Connected(b)'
        PROVE  AgentFilter(b) \in Replied(client') /\ agents'[b] \in Hearing(client', b)
    <3>1. agents[b] # i
      <4>1. agents'[b] # i
        BY <2>3, <2>8 DEF Connected
      <4>2. QED
        BY <1>1, <4>1
    <3>2. Connected(b)
      BY <2>6, <2>8, <3>1
    <3>3. AgentFilter(b) \in Replied(client) /\ agents[b] \in Hearing(client, b)
      BY <1>1, <2>8, <3>1, <3>2, BeforeTask DEF i
    <3>4. QED
      BY <1>1, <2>1, <3>3
  <2>9. QED
    BY <1>1, <1>5, <2>2, <2>7, <2>8, AfterTask DEF Building
<1>6. QED
  BY <1>4, <1>5

\* What is disposed hears nothing any more.
LEMMA DisposeKeepsHearing ==
    ASSUME HearInv, ~overlapped, NEW k \in Tasks, DisposeAgent(k)
    PROVE  QuietInv' /\ ReachInv'
<1> DEFINE a == instances[tasks[k].inst].agent
<1>1. TaskStep(k) /\ tasks[k].step = "dispose" /\ UNCHANGED <<client, agents, stops>>
  BY DEF TaskStep, DisposeAgent, counters
<1>2. InstanceInv /\ TypeOK /\ RecordInv /\ instances \in Seq(Agent)
  BY TypeOKIs DEF HearInv, InstanceInv
<1>3. /\ Becomes(k, NoTask)
      /\ \/ instances' = instances
         \/ \E i \in Instances :
                    /\ instances[i].agent = a
                    /\ instances' = [instances EXCEPT ![i].disposed = TRUE]
  BY <1>2, DisposeEffect
<1>4. tasks'[k].step = "none"
  BY <1>3 DEF Becomes, NoTask
<1>5. \A j \in Instances : /\ instances'[j].connected <=> instances[j].connected
                           /\ instances[j].agent # a => instances'[j] = instances[j]
  <2>1. CASE instances' = instances
    BY <2>1
  <2>2. CASE instances' # instances
    <3>1. PICK i \in Instances : instances[i].agent = a /\ instances' = [instances EXCEPT ![i].disposed = TRUE]
      BY <1>3, <2>2
    <3>2. SameButFor(i) /\ instances'[i].connected = instances[i].connected
      BY <1>2, <3>1, FlagSet
    <3>3. QED
      BY <3>1, <3>2 DEF SameButFor
  <2>3. QED
    BY <2>1, <2>2
<1> HIDE DEF a
<1>6. \A b \in Agents : (Connected(b)' <=> Connected(b)) /\ (Settled(b)' <=> Settled(b))
  BY <1>1, <1>2, <1>5 DEF Connected, Settled, RecordInv
<1>7. ASSUME Calm
      PROVE  /\ \A b \in Agents : Settled(b)' \/ (stops = 0 /\ Deaf)
             /\ NoneDisposed' /\ TaskQuiet(k)'
  <2>1. /\ \A b \in Agents : Settled(b) \/ (stops = 0 /\ Deaf)
        /\ NoneDisposed /\ TaskQuiet(k)
    BY <1>1, <1>7, BeforeTask
  <2>2. Hearing(client, a) = {}
    BY <1>1, <2>1 DEF TaskQuiet, a
  <2>3. NoneDisposed'
    BY <1>1, <1>2, <1>5, <2>1, <2>2 DEF NoneDisposed, RecordInv
  <2>4. TaskQuiet(k)'
    BY <1>4 DEF TaskQuiet, Building
  <2>5. QED
    BY <1>6, <2>1, <2>3, <2>4
<1>8. ASSUME faults = 0
      PROVE  \A b \in Agents : Connected(b)' =>
                    /\ client.link
                    /\ AgentFilter(b) \in Replied(client')
                    /\ agents'[b] \in Hearing(client', b)
  BY <1>1, <1>6, <1>8, BeforeTask
<1>9. QED
  BY <1>1, <1>4, <1>7, <1>8, AfterTask DEF Building

\* Every step of a handler keeps the right agents hearing.
LEMMA TasksKeepHearing ==
    ASSUME HearInv, ~overlapped, NEW k \in Tasks, TaskStep(k)
    PROVE  QuietInv' /\ ReachInv'
  BY CreateKeepsHearing, FailureKeepsHearing, AssignKeepsHearing, SubscribeKeepsHearing,
     SubscribedKeepsHearing, FindKeepsHearing, UnsubscribedKeepsHearing, DisposeKeepsHearing
  DEF TaskStep

\* A step that leaves what is running and who hears: it may make the host deaf.
LEMMA HearingKept ==
    ASSUME HearInv, UNCHANGED <<registry, tasks, stop, stops, overlapped>>,
           faults' = 0 => faults = 0,
           \A a \in Agents : Hearing(client', a) = Hearing(client, a),
           stops = 0 => Hosted(client') >= Hosted(client) /\ (Deaf => Deaf'),
           faults' = 0 => /\ client.link => client'.link
                          /\ client.link => Replied(client) \subseteq Replied(client'),
           Hosted(client') \in Nat, Hosted(client) \in Nat
    PROVE  QuietInv' /\ ReachInv'
<1>1. \A a \in Agents : (Connected(a)' <=> Connected(a)) /\ (Settled(a)' <=> Settled(a)) /\ (Working(a)' <=> Working(a))
  BY DEF Connected, Settled, Working, registry, Tasks
<1>2. ASSUME Calm' PROVE (Accounted /\ NoneDisposed /\ StopQuiet /\ \A k \in Tasks : TaskQuiet(k))'
  <2>1. Calm
    BY <1>2 DEF Calm
  <2>2. Accounted /\ NoneDisposed /\ StopQuiet /\ \A k \in Tasks : TaskQuiet(k)
    BY <2>1 DEF HearInv, QuietInv
  <2>3. Accounted'
    BY <1>1, <2>2 DEF Accounted
  <2>4. NoneDisposed'
    BY <2>2 DEF NoneDisposed, registry
  <2>5. StopQuiet'
    <3>1. stop.step = "agent" => instances[stop.inst].agent \in Agents
      BY TypeOKIs, InstanceRecords DEF HearInv, InstanceInv, StopInv
    <3>2. QED
      BY <2>2, <3>1 DEF StopQuiet, registry
  <2>6. ASSUME NEW k \in Tasks PROVE TaskQuiet(k)'
    <3>1. tasks[k].step \in Building \cup {"unsubscribing", "dispose"} => instances[tasks[k].inst].agent \in Agents
      BY TypeOKIs, InstanceRecords DEF HearInv, InstanceInv, TaskInv
    <3>2. TaskQuiet(k)
      BY <2>2
    <3>3. QED
      BY <1>1, <3>1, <3>2 DEF TaskQuiet, registry, Building
  <2>7. QED
    BY <2>3, <2>4, <2>5, <2>6 DEF Tasks
<1>3. ASSUME ~overlapped', faults' = 0
      PROVE  (/\ \A k \in Tasks : TaskReach(k)
              /\ \A a \in Agents : Connected(a) => Reached(a)
              /\ Stopping => stop.todo = {})'
  <2>1. /\ \A k \in Tasks : TaskReach(k)
        /\ \A a \in Agents : Connected(a) => Reached(a)
        /\ Stopping => stop.todo = {}
    BY <1>3 DEF HearInv, ReachInv
  <2>2. \A k \in Tasks : TaskReach(k)'
    BY <1>3, <2>1 DEF TaskReach, Live, registry
  <2>3. \A a \in Agents : Connected(a)' => Reached(a)'
    BY <1>1, <1>3, <2>1 DEF Reached, registry, Tasks
  <2>4. QED
    BY <2>1, <2>2, <2>3 DEF Stopping, Tasks
<1>4. QED
  BY <1>2, <1>3 DEF QuietInv, ReachInv

\* Connecting again changes nothing of who hears; a second copy of the handler of the host
\* leaves it deaf as long as handlers do not overlap.
LEMMA MainKeepsHearing ==
    ASSUME HearInv, StartAsync \/ MainStep \/ MainLinkFails
    PROVE  QuietInv' /\ ReachInv'
<1>1. /\ client \in ClientType /\ Hosted(client) \in Nat /\ faults \in Nat /\ HostFilter \in Filters
      /\ SessionInv
  BY TypeOKIs, ClientOperations, KeysApart DEF HearInv, InstanceInv
<1>2. UNCHANGED <<registry, tasks, stop, stops, overlapped>> /\ faults' \in {faults, faults + 1}
  BY DEF StartAsync, MainStep, MainLoop, MainLink, MainSubscribe, MainSubscribed, MainPublish,
         MainConnected, MainRetry, MainLinkFails, counters
<1>3. ASSUME client' = client, Deaf => Deaf' PROVE QuietInv' /\ ReachInv'
  BY <1>1, <1>2, <1>3, HearingKept
<1>4. CASE StartAsync \/ MainLoop \/ MainRetry \/ MainLinkFails \/ MainPublish \/ MainConnected
  <2>1. client' = client
    BY <1>4 DEF StartAsync, MainLoop, MainRetry, MainLinkFails, MainPublish, MainConnected
  <2>2. CASE StartAsync \/ MainLoop \/ MainRetry \/ MainLinkFails
    <3>1. /\ main \in {"idle", "connect", "waiting", "linking"}
          /\ main' \in {"connect", "linking", "waiting"} \/ isConnected
          /\ main \in {"waiting", "linking"} => ~isConnected
          /\ isConnected' = isConnected
      BY <1>1, <2>2 DEF StartAsync, MainLoop, MainRetry, MainLinkFails, SessionInv, ConnectInv
    <3>2. Deaf => Deaf'
      BY <2>1, <3>1 DEF Deaf
    <3>3. QED
      BY <1>3, <2>1, <3>2
  <2>3. CASE MainPublish \/ MainConnected
    <3>1. main \in {"publish", "published"}
      BY <2>3 DEF MainPublish, MainConnected
    <3>2. Deaf => Deaf'
      BY <2>1, <3>1 DEF Deaf
    <3>3. QED
      BY <1>3, <2>1, <3>2
  <2>4. QED
    BY <1>4, <2>2, <2>3
<1>5. CASE MainLink
  <2>1. main = "linking" /\ main' = "linked" /\ isConnected' = isConnected
        /\ client' = IF client.link THEN client ELSE Linked(client)
    BY <1>5 DEF MainLink
  <2>2. ~isConnected /\ ~client.link
    BY <1>1, <2>1 DEF SessionInv, LinkInv, ConnectInv, Idling
  <2>3. /\ Hosted(client') = Hosted(client)
        /\ \A b \in Agents : Hearing(client', b) = Hearing(client, b)
    BY <1>1, <2>1, <2>2, ClientOperations
  <2>4. Deaf => Deaf'
    BY <2>1, <2>2, <2>3 DEF Deaf
  <2>5. QED
    BY <1>1, <1>2, <2>2, <2>3, <2>4, HearingKept
<1>6. CASE MainSubscribe
  <2>1. main = "linked" /\ isConnected' = isConnected
    BY <1>6 DEF MainSubscribe
  <2>2. CASE client.link
    <3>1. client' = WithHandler(client, HostFilter, HostHandler)
      BY <1>6, <2>2 DEF MainSubscribe
    <3>2. /\ client'.link = client.link /\ Replied(client') = Replied(client)
          /\ Hosted(client') = Hosted(client) + 1
          /\ \A b \in Agents : Hearing(client', b) = Hearing(client, b)
      BY <1>1, <3>1, HostOperations
    <3>3. Deaf => Deaf'
      BY <1>1, <3>2 DEF Deaf
    <3>4. QED
      BY <1>1, <1>2, <3>2, <3>3, HearingKept
  <2>3. CASE ~client.link
    <3>1. client' = client
      BY <1>6, <2>3 DEF MainSubscribe
    <3>2. Deaf => Deaf'
      BY <2>3, <3>1 DEF Deaf
    <3>3. QED
      BY <1>3, <3>1, <3>2
  <2>4. QED
    BY <2>2, <2>3
<1>7. CASE MainSubscribed
  <2>1. main = "subscribing"
    BY <1>7 DEF MainSubscribed
  <2>2. CASE client.link
    <3>1. client' \in {WithFilter(client, HostFilter), WithRefusal(client, HostFilter)}
      BY <1>7, <2>2 DEF MainSubscribed
    <3>2. /\ client'.link = client.link /\ Replied(client') = Replied(client) \cup {HostFilter}
          /\ Hosted(client') = Hosted(client)
          /\ \A b \in Agents : Hearing(client', b) = Hearing(client, b)
      BY <1>1, <3>1, FilterAdded
    <3>3. Deaf => Deaf'
      BY <2>1, <2>2, <3>2 DEF Deaf
    <3>4. QED
      BY <1>1, <1>2, <3>2, <3>3, HearingKept
  <2>3. CASE ~client.link
    <3>1. client' = client
      BY <1>7, <2>3 DEF MainSubscribed
    <3>2. Deaf => Deaf'
      BY <2>3, <3>1 DEF Deaf
    <3>3. QED
      BY <1>3, <3>1, <3>2
  <2>4. QED
    BY <2>2, <2>3
<1>8. QED
  BY <1>4, <1>5, <1>6, <1>7 DEF MainStep

\* A lost link is a fault: nothing is promised of connected agents then, and the host that
\* was serving is deaf until it has filed its handler again.
LEMMA NetworkKeepsHearing ==
    ASSUME HearInv, HostConnectLost \/ LinkLost
    PROVE  QuietInv' /\ ReachInv'
<1>1. client \in ClientType /\ Hosted(client) \in Nat /\ faults \in Nat
  BY TypeOKIs, ClientOperations DEF HearInv, InstanceInv
<1>2. /\ UNCHANGED <<registry, tasks, stop, stops, overlapped, isConnected, main>> /\ faults' = faults + 1
      /\ client' = client \/ client' = Unlinked(client)
  BY DEF HostConnectLost, LinkLost
<1>3. CASE client' = client
  <2>1. Deaf => Deaf'
    BY <1>2, <1>3 DEF Deaf
  <2>2. QED
    BY <1>1, <1>2, <1>3, <2>1, HearingKept
<1>4. CASE client' = Unlinked(client)
  <2>1. /\ ~client'.link /\ Hosted(client') = Hosted(client)
        /\ \A b \in Agents : Hearing(client', b) = Hearing(client, b)
    <3>1. /\ ~Unlinked(client).link /\ Hosted(Unlinked(client)) = Hosted(client)
          /\ \A b \in Agents : Hearing(Unlinked(client), b) = Hearing(client, b)
      BY <1>1, ClientOperations
    <3>2. QED
      BY <1>4, <3>1
  <2>2. Deaf => Deaf'
    BY <1>1, <2>1 DEF Deaf
  <2>3. QED
    BY <1>1, <1>2, <2>1, <2>2, HearingKept
<1>5. QED
  BY <1>2, <1>3, <1>4

\* A message reaches the host only when it is not deaf, so that a disconnect finds
\* every agent accounted for.
LEMMA MessagesKeepHearing ==
    ASSUME HearInv,
           \/ \E placed \in Placements : HostWelcome(placed)
           \/ \E a \in Agents : AgentConnect(a) \/ AgentDisconnect(a)
    PROVE  QuietInv' /\ ReachInv'
<1>1. UNCHANGED <<client, isConnected, main, stop, registry, faults, stops>>
  BY MessageTasks DEF HearInv
<1>2. PICK task \in Task : Handle(task) /\ task.step \in {"none", "create", "find"}
  BY MessageTasks DEF HearInv
<1>3. PICK ks \in SUBSET Tasks :
        /\ \A k \in ks : ~Live(k)
        /\ \A k \in Tasks : tasks'[k] = IF k \in ks THEN task ELSE tasks[k]
        /\ ks # {} => client.link /\ HostFilter \in Replied(client) /\ Hosted(client) >= 1
        /\ ks # {} /\ ~overlapped' => Alone /\ Hosted(client) = 1 /\ \E k \in Tasks : ks = {k}
  BY <1>2, HandleEffect DEF HearInv
<1>4. ~overlapped' => ~overlapped
  BY <1>2, HandleEffect DEF HearInv
<1>5. \A a \in Agents : (Connected(a)' <=> Connected(a)) /\ (Settled(a)' <=> Settled(a))
  BY <1>1 DEF Connected, Settled, registry
<1>6. Deaf' <=> Deaf
  BY <1>1 DEF Deaf
<1>7. ASSUME Calm' PROVE (Accounted /\ NoneDisposed /\ StopQuiet /\ \A k \in Tasks : TaskQuiet(k))'
  <2>1. Calm
    BY <1>1, <1>4, <1>7 DEF Calm
  <2>2. Accounted /\ NoneDisposed /\ StopQuiet /\ \A k \in Tasks : TaskQuiet(k)
    BY <2>1 DEF HearInv, QuietInv
  <2>3. NoneDisposed' /\ StopQuiet'
    BY <1>1, <2>2 DEF NoneDisposed, StopQuiet, registry
  <2>4. Accounted'
    <3>1. \A a \in Agents : Working(a) => Working(a)'
      BY <1>1, <1>3 DEF Working, Live, registry, Tasks
    <3>2. QED
      BY <1>1, <1>5, <1>6, <2>2, <3>1 DEF Accounted
  <2>5. ASSUME ks # {} PROVE \A a \in Agents : Settled(a)
    <3>1. \A k \in Tasks : tasks[k].step = "none"
      BY <1>3, <1>7, <2>5, AloneIsQuiet DEF Calm, Live
    <3>2. \A a \in Agents : ~Working(a)
      BY <3>1 DEF Working
    <3>3. ~Deaf
      <4>1. client.link /\ HostFilter \in Replied(client) /\ Hosted(client) = 1
        BY <1>3, <1>7, <2>5 DEF Calm
      <4>2. main # "linked" /\ ~Idling
        BY <4>1 DEF HearInv, SessionInv, LinkInv
      <4>3. QED
        BY <4>1, <4>2 DEF Deaf, Idling
    <3>4. QED
      BY <2>2, <3>2, <3>3 DEF Accounted
  <2>6. ASSUME NEW k \in Tasks PROVE TaskQuiet(k)'
    <3>1. CASE k \in ks
      <4>1. tasks'[k].step \in {"none", "create", "find"} /\ ks # {} /\ Hosted(client) >= 1
        BY <1>2, <1>3, <3>1
      <4>2. QED
        BY <1>1, <1>5, <2>5, <4>1 DEF TaskQuiet, Building
    <3>2. CASE k \notin ks
      <4>1. tasks'[k] = tasks[k] /\ TaskQuiet(k)
        BY <1>3, <2>2, <3>2
      <4>2. QED
        BY <1>1, <1>5, <4>1 DEF TaskQuiet, registry
    <3>3. QED
      BY <3>1, <3>2
  <2>7. QED
    BY <2>3, <2>4, <2>6 DEF Tasks
<1>8. ASSUME ~overlapped', faults' = 0
      PROVE  (/\ \A k \in Tasks : TaskReach(k)
              /\ \A a \in Agents : Connected(a) => Reached(a)
              /\ Stopping => stop.todo = {})'
  <2>1. /\ \A k \in Tasks : TaskReach(k)
        /\ \A a \in Agents : Connected(a) => Reached(a)
        /\ Stopping => stop.todo = {}
    BY <1>1, <1>4, <1>8 DEF HearInv, ReachInv
  <2>2. \A k \in Tasks : TaskReach(k)'
    BY <1>1, <1>2, <1>3, <2>1 DEF TaskReach, Live, registry, Building
  <2>3. \A a \in Agents : Connected(a)' => Reached(a)'
    BY <1>1, <1>3, <1>5, <2>1 DEF Reached, registry, Tasks, Live
  <2>4. QED
    BY <1>1, <2>1, <2>2, <2>3 DEF Stopping, Tasks
<1>9. QED
  BY <1>7, <1>8 DEF QuietInv, ReachInv

\* What is known while Stop is under way: no handler runs.
LEMMA BeforeStop ==
    ASSUME HearInv, stop.step # "idle", ~overlapped, faults = 0
    PROVE  /\ stops # 0
           /\ \A k \in Tasks : tasks[k].step = "none"
           /\ \A a \in Agents : Settled(a)
           /\ NoneDisposed /\ StopQuiet
           /\ \A a \in Agents : Connected(a) =>
                /\ client.link /\ AgentFilter(a) \in Replied(client)
                /\ \/ agents[a] \in Hearing(client, a)
                   \/ stop.step = "agent" /\ stop.inst = agents[a]
                /\ a \in stop.todo \/ (stop.step = "agent" /\ stop.inst = agents[a])
           /\ Stopping => stop.todo = {}
           /\ stop.step # "clear" => client.link
<1>1. stops # 0 /\ (stop.step # "clear" => client.link)
  BY DEF HearInv, SessionInv, ConnectInv, CopiesInv
<1>2. \A k \in Tasks : tasks[k].step = "none"
  BY DEF HearInv, SerialInv, Live
<1>3. Accounted /\ NoneDisposed /\ StopQuiet
  BY DEF HearInv, QuietInv, Calm
<1>4. \A a \in Agents : Settled(a)
  BY <1>1, <1>2, <1>3 DEF Accounted, Working
<1>5. (\A a \in Agents : Connected(a) => Reached(a)) /\ (Stopping => stop.todo = {})
  BY DEF HearInv, ReachInv
<1>6. QED
  BY <1>1, <1>2, <1>3, <1>4, <1>5 DEF Reached

\* What a step of Stop has to establish.
LEMMA AfterStop ==
    ASSUME HearInv, StopStep,
           ~overlapped /\ faults = 0 =>
              /\ \A a \in Agents : Settled(a)'
              /\ NoneDisposed' /\ StopQuiet'
              /\ \A a \in Agents : Connected(a)' =>
                    /\ client'.link /\ AgentFilter(a) \in Replied(client')
                    /\ \/ agents'[a] \in Hearing(client', a)
                       \/ stop'.step = "agent" /\ stop'.inst = agents'[a]
                    /\ stop'.step # "idle" => a \in stop'.todo \/ (stop'.step = "agent" /\ stop'.inst = agents'[a])
              /\ Stopping' => stop'.todo = {}
    PROVE  QuietInv' /\ ReachInv'
<1>1. /\ UNCHANGED <<tasks, overlapped, faults, stops>> /\ stop.step # "idle"
  BY DEF StopStep, StopInterrupted, StopAgent, StopAgentUnsubscribed, StopHost,
         StopHostUnsubscribed, StopUnlink, StopClear, counters
<1>2. ~overlapped /\ faults = 0 => stops # 0 /\ \A k \in Tasks : tasks[k].step = "none"
  BY <1>1, BeforeStop
<1>3. ASSUME Calm' PROVE (Accounted /\ NoneDisposed /\ StopQuiet /\ \A k \in Tasks : TaskQuiet(k))'
  <2>1. ~overlapped /\ faults = 0
    BY <1>1, <1>3 DEF Calm, HearInv, SessionInv, ConnectInv
  <2>2. \A k \in Tasks : TaskQuiet(k)'
    BY <1>1, <1>2, <2>1 DEF TaskQuiet, Building
  <2>3. QED
    BY <2>1, <2>2 DEF Accounted, Tasks
<1>4. ASSUME ~overlapped', faults' = 0
      PROVE  (/\ \A k \in Tasks : TaskReach(k)
              /\ \A a \in Agents : Connected(a) => Reached(a)
              /\ Stopping => stop.todo = {})'
  <2>1. ~overlapped /\ faults = 0
    BY <1>1, <1>4
  <2>2. \A k \in Tasks : TaskReach(k)'
    BY <1>1, <1>2, <2>1 DEF TaskReach, Building, Live
  <2>3. QED
    BY <2>1, <2>2 DEF Reached, Tasks
<1>5. QED
  BY <1>3, <1>4 DEF QuietInv, ReachInv

\* Stop unsubscribes every connected agent and disposes none.
LEMMA StopStepKeepsHearing ==
    ASSUME HearInv, StopStep
    PROVE  QuietInv' /\ ReachInv'
<1>1. /\ client \in ClientType /\ instances \in Seq(Agent) /\ stop \in StopType /\ InstanceInv /\ RecordInv
      /\ agents \in [Agents -> 0 .. MaxInstances]
  BY TypeOKIs DEF HearInv, InstanceInv
<1>2. agents' = agents
  BY DEF StopStep, StopInterrupted, StopAgent, StopAgentUnsubscribed, StopHost,
         StopHostUnsubscribed, StopUnlink, StopClear, registry
<1> SUFFICES ASSUME ~overlapped, faults = 0
             PROVE  /\ \A a \in Agents : Settled(a)'
                    /\ NoneDisposed' /\ StopQuiet'
                    /\ \A a \in Agents : Connected(a)' =>
                          /\ client'.link /\ AgentFilter(a) \in Replied(client')
                          /\ \/ agents'[a] \in Hearing(client', a)
                             \/ stop'.step = "agent" /\ stop'.inst = agents'[a]
                          /\ stop'.step # "idle" => a \in stop'.todo \/ (stop'.step = "agent" /\ stop'.inst = agents'[a])
                    /\ Stopping' => stop'.todo = {}
  BY AfterStop
<1>3. stop.step # "idle"
  BY DEF StopStep, StopInterrupted, StopAgent, StopAgentUnsubscribed, StopHost,
         StopHostUnsubscribed, StopUnlink, StopClear
<1>4. /\ \A a \in Agents : Settled(a)
      /\ NoneDisposed /\ StopQuiet
      /\ \A a \in Agents : Connected(a) =>
                /\ client.link /\ AgentFilter(a) \in Replied(client)
                /\ \/ agents[a] \in Hearing(client, a)
                   \/ stop.step = "agent" /\ stop.inst = agents[a]
                /\ a \in stop.todo \/ (stop.step = "agent" /\ stop.inst = agents[a])
      /\ Stopping => stop.todo = {}
      /\ stop.step # "clear" => client.link
  BY <1>3, BeforeStop
<1>5. ASSUME instances' = instances
      PROVE  \A a \in Agents : Connected(a)' <=> Connected(a)
  BY <1>2, <1>5 DEF Connected
<1>6. CASE StopInterrupted
  <2>1. UNCHANGED <<client, instances>> /\ stop.step = "agents" /\ stop' = StopIdle
    BY <1>6 DEF StopInterrupted, registry
  <2>2. stop'.step = "idle"
    BY <1>1, <2>1, StopRecords
  <2>3. QED
    BY <1>2, <1>4, <1>5, <2>1, <2>2 DEF Settled, NoneDisposed, StopQuiet, Stopping
<1>7. CASE \E a \in Agents : StopAgent(a)
  <2>1. PICK a \in Agents : StopAgent(a)
    BY <1>7
  <2>2. instances' = instances /\ stop.step = "agents" /\ stop.seen = Present /\ a \in stop.todo
    BY <2>1 DEF StopAgent, registry
  <2>3. agents[a] \in Instances /\ agents[a] \in 0 .. MaxInstances /\ instances[agents[a]].agent = a
    BY <1>1, <2>2 DEF InstanceInv, StopInv, Present, RecordInv
  <2>4. CASE ~instances[agents[a]].connected
    <3>1. client' = client /\ stop' = [stop EXCEPT !.todo = @ \ {a}]
      BY <2>1, <2>4 DEF StopAgent
    <3>2. stop'.step = "agents" /\ stop'.todo = stop.todo \ {a}
      BY <1>1, <2>2, <3>1, StopRecords
    <3>3. ~Connected(a)
      BY <2>4 DEF Connected
    <3>4. QED
      BY <1>2, <1>4, <1>5, <2>2, <3>1, <3>2, <3>3 DEF Settled, NoneDisposed, StopQuiet, Stopping
  <2>5. CASE instances[agents[a]].connected
    <3>1. Connected(a) /\ client.link
      BY <1>4, <2>2, <2>3, <2>5 DEF Connected, Instances
    <3>2. /\ client' = WithoutHandlers(client, AgentFilter(a))
          /\ stop' = [stop EXCEPT !.step = "agent", !.todo = @ \ {a}, !.inst = agents[a]]
      BY <2>1, <2>5, <3>1 DEF StopAgent
    <3>3. stop'.step = "agent" /\ stop'.todo = stop.todo \ {a} /\ stop'.inst = agents[a]
      BY <1>1, <2>3, <3>2, StopRecords
    <3>4. /\ client'.link = client.link /\ Replied(client') = Replied(client)
          /\ \A b \in Agents : Hearing(client', b) = IF b = a THEN {} ELSE Hearing(client, b)
      BY <1>1, <3>2, FewerHear
    <3>5. (\A b \in Agents : Settled(b)') /\ NoneDisposed'
      BY <1>4, <1>5, <2>2, <3>4 DEF Settled, NoneDisposed
    <3>6. StopQuiet'
      BY <2>2, <2>3, <3>3, <3>4 DEF StopQuiet
    <3>7. QED
      BY <1>2, <1>4, <1>5, <2>2, <3>1, <3>3, <3>4, <3>5, <3>6 DEF Stopping
  <2>6. QED
    BY <2>4, <2>5
<1>8. CASE StopAgentUnsubscribed
  <2> DEFINE i == stop.inst
             a == instances[i].agent
  <2>1. stop.step = "agent" /\ client.link /\ i \in Instances
    BY <1>1, <1>4, <1>8 DEF StopAgentUnsubscribed, InstanceInv, StopInv
  <2>2. a \in Agents
    BY <1>1, <2>1, InstanceRecords
  <2>3. client' = client
    <3>1. WithoutFilter(client, AgentFilter(a)) = client
      BY <1>1, <2>2, ClientOperations, KeysApart
    <3>2. QED
      BY <1>8, <2>1, <3>1 DEF StopAgentUnsubscribed
  <2>4. /\ instances' = [instances EXCEPT ![i].connected = FALSE]
        /\ stop' = [stop EXCEPT !.step = "agents", !.inst = 0]
    BY <1>8, <2>1 DEF StopAgentUnsubscribed
  <2>5. stop'.step = "agents" /\ stop'.todo = stop.todo
    BY <1>1, <2>4, StopRecords
  <2>6. Hearing(client, a) = {}
    BY <1>4, <2>1 DEF StopQuiet
  <2> HIDE DEF i, a
  <2>7. SameButFor(i) /\ ~instances'[i].connected /\ instances'[i].disposed = instances[i].disposed
    BY <1>1, <2>1, <2>4, FlagSet
  <2>8. \A b \in Agents : agents[b] # 0 /\ agents[b] # i => instances'[agents[b]] = instances[agents[b]]
    BY <1>1, <2>7 DEF SameButFor, RecordInv
  <2>9. \A b \in Agents : agents[b] = i => a = b
    BY <1>1, <2>1 DEF Instances, RecordInv, a
  <2>10. \A b \in Agents : Connected(b)' <=> Connected(b) /\ agents[b] # i
    BY <1>2, <2>7, <2>8 DEF Connected
  <2>11. NoneDisposed'
    BY <1>1, <1>4, <2>3, <2>7 DEF NoneDisposed, SameButFor, RecordInv
  <2>12. \A b \in Agents : Settled(b)'
    BY <1>4, <2>3, <2>6, <2>9, <2>10 DEF Settled
  <2>13. QED
    BY <1>2, <1>4, <2>1, <2>3, <2>5, <2>10, <2>11, <2>12 DEF StopQuiet, Stopping, i
<1>9. CASE StopHost
  <2>1. /\ instances' = instances /\ stop.step = "agents" /\ stop.todo = {} /\ client.link
        /\ client' = WithoutHandlers(client, HostFilter)
        /\ stop' = [stop EXCEPT !.step = "host"]
    BY <1>4, <1>9 DEF StopHost, registry
  <2>2. stop'.step = "host" /\ stop'.todo = {}
    BY <1>1, <2>1, StopRecords
  <2>3. \A b \in Agents : Hearing(client', b) = Hearing(client, b)
    BY <1>1, <2>1, HostOperations
  <2>4. QED
    BY <1>4, <1>5, <2>1, <2>2, <2>3 DEF Settled, NoneDisposed, StopQuiet
<1>10. CASE StopHostUnsubscribed \/ StopUnlink \/ StopClear
  <2>1. /\ instances' = instances /\ stop.step \in {"host", "unlink", "clear"}
        /\ client' \in {client, WithoutFilter(client, HostFilter), Unlinked(client)}
        /\ stop' \in {StopIdle, [stop EXCEPT !.step = "unlink"], [stop EXCEPT !.step = "clear"]}
    BY <1>10 DEF StopHostUnsubscribed, StopUnlink, StopClear, registry
  <2>2. stop.todo = {} /\ \A b \in Agents : ~Connected(b)
    BY <1>4, <2>1 DEF Stopping
  <2>3. stop'.step # "agent" /\ stop'.todo = {}
    BY <1>1, <2>1, <2>2, StopRecords
  <2>4. \A b \in Agents : Hearing(client', b) = Hearing(client, b)
    <3>1. WithoutFilter(client, HostFilter) = client
      BY <1>1, ClientOperations, KeysApart
    <3>2. \A b \in Agents : Hearing(Unlinked(client), b) = Hearing(client, b)
      BY <1>1, ClientOperations
    <3>3. QED
      BY <2>1, <3>1, <3>2
  <2>5. QED
    BY <1>4, <1>5, <2>1, <2>2, <2>3, <2>4 DEF Settled, NoneDisposed, StopQuiet
<1>11. QED
  BY <1>6, <1>7, <1>8, <1>9, <1>10 DEF StopStep

\* Stop begins alone, or overlapped is set.
LEMMA StopKeepsHearing ==
    ASSUME HearInv, Stop
    PROVE  QuietInv' /\ ReachInv'
<1>1. /\ UNCHANGED <<client, registry, tasks, faults, isConnected, main>> /\ stops' = stops + 1
      /\ stop.step = "idle" /\ isConnected
      /\ stop' = [step |-> "agents", seen |-> Present, todo |-> Present, inst |-> 0]
  BY DEF Stop
<1>2. stops \in Nat /\ faults \in Nat /\ Hosted(client) \in Nat
  BY TypeOKIs, ClientOperations DEF HearInv, InstanceInv
<1>3. ~overlapped' => ~overlapped /\ Alone
  BY Zenon DEF Stop
<1>4. \A a \in Agents : (Connected(a)' <=> Connected(a)) /\ (Settled(a)' <=> Settled(a))
  BY <1>1 DEF Connected, Settled, registry
<1> SUFFICES ASSUME ~overlapped', faults' = 0
             PROVE  /\ (Accounted /\ NoneDisposed /\ StopQuiet /\ \A k \in Tasks : TaskQuiet(k))'
                    /\ (/\ \A k \in Tasks : TaskReach(k)
                        /\ \A a \in Agents : Connected(a) => Reached(a)
                        /\ Stopping => stop.todo = {})'
  BY <1>1, <1>2 DEF QuietInv, ReachInv, Calm
<1>5. ~overlapped /\ faults = 0 /\ stop'.step = "agents" /\ stop'.todo = Present
      /\ \A k \in Tasks : tasks[k].step = "none"
  BY <1>1, <1>3, AloneIsQuiet DEF Live
<1>6. Accounted /\ NoneDisposed
  BY <1>5 DEF HearInv, QuietInv, Calm
<1>7. ~Deaf
  BY <1>1, <1>2, <1>5 DEF Deaf, HearInv, SessionInv, CopiesInv
<1>8. \A a \in Agents : Settled(a)
  BY <1>5, <1>6, <1>7 DEF Accounted, Working
<1>9. (Accounted /\ NoneDisposed /\ StopQuiet /\ \A k \in Tasks : TaskQuiet(k))'
  <2>1. Accounted' /\ NoneDisposed' /\ StopQuiet'
    BY <1>1, <1>4, <1>5, <1>6, <1>8 DEF Accounted, NoneDisposed, StopQuiet, registry
  <2>2. \A k \in Tasks : TaskQuiet(k)'
    BY <1>1, <1>5 DEF TaskQuiet, Building
  <2>3. QED
    BY <2>1, <2>2 DEF Tasks
<1>10. (/\ \A k \in Tasks : TaskReach(k)
        /\ \A a \in Agents : Connected(a) => Reached(a)
        /\ Stopping => stop.todo = {})'
  <2>1. \A k \in Tasks : TaskReach(k)'
    BY <1>1, <1>5 DEF TaskReach, Live, Building
  <2>2. ASSUME NEW a \in Agents, Connected(a)' PROVE Reached(a)'
    <3>1. Connected(a) /\ a \in stop'.todo
      BY <1>4, <1>5, <2>2 DEF Connected, Present
    <3>2. client.link /\ AgentFilter(a) \in Replied(client) /\ agents[a] \in Hearing(client, a)
      BY <1>1, <1>5, <3>1 DEF HearInv, ReachInv, Reached
    <3>3. QED
      BY <1>1, <3>1, <3>2 DEF Reached, registry
  <2>3. QED
    BY <1>5, <2>1, <2>2 DEF Tasks, Stopping
<1>11. QED
  BY <1>9, <1>10

\* Every step of the host keeps who hears.
LEMMA HearStep == HearInv /\ [Next]_vars => QuietInv' /\ ReachInv'
<1> SUFFICES ASSUME HearInv, [Next]_vars PROVE QuietInv' /\ ReachInv'
  OBVIOUS
<1>1. ASSUME NEW k \in Tasks, TaskStep(k) PROVE QuietInv' /\ ReachInv'
  <2>1. CASE ~overlapped
    BY <1>1, <2>1, TasksKeepHearing
  <2>2. CASE overlapped
    <3>1. overlapped'
      BY <1>1, <2>2, TasksKeepSession, Zenon DEF HearInv
    <3>2. QED
      BY <3>1 DEF QuietInv, ReachInv, Calm
  <2>3. QED
    BY <2>1, <2>2
<1>2. CASE UNCHANGED vars
  <2>1. client \in ClientType /\ Hosted(client) \in Nat
    BY TypeOKIs, ClientOperations DEF HearInv, InstanceInv
  <2>2. /\ client' = client /\ UNCHANGED <<isConnected, main, faults>>
        /\ UNCHANGED <<registry, tasks, stop, stops, overlapped>>
    BY <1>2 DEF vars, counters
  <2>3. Deaf => Deaf'
    BY <2>2 DEF Deaf
  <2>4. QED
    BY <2>1, <2>2, <2>3, HearingKept
<1>3. QED
  BY <1>1, <1>2, MainKeepsHearing, NetworkKeepsHearing, MessagesKeepHearing, StopKeepsHearing,
     StopStepKeepsHearing DEF Next, Tasks

\* The right objects hear, and what explains it, in every reachable state.
THEOREM HearInvariant == Spec => [](QuietInv /\ ReachInv)
<1>1. HearInv <=> InstanceInv /\ SessionInv /\ SerialInv /\ QuietInv /\ ReachInv
  BY DEF HearInv
<1>2. QED
  BY <1>1, HearInit, HearStep, InstancesInvariant, SessionInvariant, SerialInvariant, PTL DEF Spec

\* When handlers ran one at a time and nothing failed, a connected agent of the
\* dictionary has its handler and an answered subscription; and no disposed object hears,
\* unless a fault came with a stop.
THEOREM HearingCorrect == Spec => []RightAgentsHear
<1>1. SerialInv /\ QuietInv /\ ReachInv => RightAgentsHear
  <2> SUFFICES ASSUME SerialInv, QuietInv, ReachInv PROVE RightAgentsHear
    OBVIOUS
  <2>1. \A a : HandlersFor(a) = Hearing(client, a)
    BY DEF HandlersFor, Hearing, AgentKey
  <2>2. DisposedAreSilent
    BY <2>1 DEF DisposedAreSilent, QuietInv, Calm, NoneDisposed
  <2>3. ConnectedAreReachable
    BY <2>1, AloneIsQuiet DEF ConnectedAreReachable, Answered, Replied, ReachInv, Connected, Reached, Live
  <2>4. QED
    BY <2>2, <2>3 DEF RightAgentsHear
<1>2. QED
  BY <1>1, SerialInvariant, HearInvariant, PTL

=============================================================================
