------------------------------- MODULE Topics -------------------------------
(***************************************************************************)
(* MQTT topics of the SDK.  A topic is the sequence of its '/'-separated   *)
(* segments: "event/<sender>/<authority>/<host>/<agent>", or               *)
(* "connect/<name>" for a named topic.  "-" stands for "not addressed" and *)
(* for the authority as sender, "+" is MQTT's one-segment wildcard.        *)
(***************************************************************************)
EXTENDS Naturals, Sequences

\* TopicGenerator's constructor: the authority signs as "-".
SenderSegment(authority, id) == IF id = authority THEN "-" ELSE id

ConnectTo(name) == <<"connect", name>>

SubscribeAs(authority, host, agent) == <<"event", "+", authority, host, agent>>

PublishTo(sender, authority, host, agent) ==
    <<"event", sender, authority, host, agent>>

\* The two addressing families, each as (own id) -> topic.
SubscribeAsAuthority(authority) == SubscribeAs(authority, "-", "-")

SubscribeAsHost(authority, host) ==
    SubscribeAs(authority, SenderSegment(authority, host), "-")

SubscribeAsAgent(authority, agent) ==
    SubscribeAs(authority, "-", SenderSegment(authority, agent))

PublishToAuthority(authority, id) ==
    PublishTo(SenderSegment(authority, id), authority, "-", "-")

PublishToHost(authority, id, host) ==
    PublishTo(SenderSegment(authority, id), authority, host, "-")

PublishToAgent(authority, id, agent) ==
    PublishTo(SenderSegment(authority, id), authority, "-", agent)

\* The key a broker client files callbacks under: the topic without its
\* first two segments.  It is empty for every "connect/<name>" topic.
CallbackTopic(topic) == SubSeq(topic, 3, Len(topic))

\* Topic filter matching as the MQTT server does it (no '#' is ever used).
Matches(filter, topic) ==
    /\ Len(filter) = Len(topic)
    /\ \A i \in DOMAIN filter : filter[i] \in {"+", topic[i]}

=============================================================================
