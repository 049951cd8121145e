---------------------------- MODULE BrokerClient ----------------------------
(***************************************************************************)
(* The state of one SDK Broker object and what its methods do to it.       *)
(*                                                                         *)
(*   link       the MQTT connection is up, as the client sees it           *)
(*   filters    the topic filters the server holds for this session        *)
(*   refused    the topic filters the server refused in this session: it    *)
(*              says so in its answer, which nobody reads, so this is what  *)
(*              the client could know and does not                          *)
(*   callbacks  the dictionary _callbacks: callback topic -> the list of   *)
(*              handlers; an absent key is the empty list                  *)
(*                                                                         *)
(* Every session is started with a clean start, so a lost link loses the   *)
(* server's filters; the callbacks are memory of the client and stay.      *)
(***************************************************************************)
EXTENDS Topics

NoClient(keys) == [link |-> FALSE, filters |-> {}, refused |-> {},
                   callbacks |-> [k \in keys |-> <<>>]]

\* ConnectAsync succeeded: a new session.
Linked(c) == [c EXCEPT !.link = TRUE, !.filters = {}, !.refused = {}]

\* TryDisconnectAsync, or the connection was lost.
Unlinked(c) == [c EXCEPT !.link = FALSE, !.filters = {}, !.refused = {}]

\* The synchronous half of Subscribe: file the handler, then ask the server.
WithHandler(c, topic, handler) ==
    [c EXCEPT !.callbacks[CallbackTopic(topic)] = Append(@, handler)]

\* Mutant: the server is asked for the key of the handlers.
WithKeyAsFilter(c, topic) == [c EXCEPT !.filters = @ \cup {CallbackTopic(topic)}]

\* The server's half of Subscribe.
WithFilter(c, topic) == [c EXCEPT !.filters = @ \cup {topic}]

\* The server refuses the filter.  The client library does not throw, and
\* Subscribe does not look at the result.
WithRefusal(c, topic) == [c EXCEPT !.refused = @ \cup {topic}]

\* The server has answered a subscription to the topic, one way or the other.
Answered(c, topic) == topic \in c.filters \cup c.refused

\* Mutant: Unsubscribe only tells the server.
WithHandlersKept(c, topic) == c

\* The synchronous half of Unsubscribe drops every handler of the topic.
WithoutHandlers(c, topic) ==
    [c EXCEPT !.callbacks[CallbackTopic(topic)] = <<>>]

\* The server's half: the filter it is asked to drop is the callback topic,
\* which is not the filter that was subscribed.
WithoutFilter(c, topic) == [c EXCEPT !.filters = @ \ {CallbackTopic(topic)}]

\* The server forwards a published message to this session.
Receives(c, topic) == c.link /\ \E f \in c.filters : Matches(f, topic)

\* The handlers a received message is handed to, each on a task of its own.
HandlersOf(c, topic) == c.callbacks[CallbackTopic(topic)]

=============================================================================
