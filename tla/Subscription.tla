---------------------------- MODULE Subscription ----------------------------
(***************************************************************************)
(* What the other parts of the system are promised about a topic that one  *)
(* process serves, whatever its threads and the network do:                *)
(*   - a message of the topic is handed to at most one handler,            *)
(*   - the handler is in place before the server forwards the first one,   *)
(*   - the process says that it serves only when the server has answered   *)
(*     its subscription (which it may have refused: nobody reads the       *)
(*     answer),                                                            *)
(*   - it takes that back only when link and handler are gone, unless it   *)
(*     is on its way out.                                                  *)
(* AuthoritySession is shown to keep it.                                   *)
(***************************************************************************)
EXTENDS Naturals

VARIABLES
    linked,     \* the process has a session on the MQTT server
    answered,   \* the server has answered the subscription to the topic
    handlers,   \* how many handlers a message of the topic is handed to
    announced,  \* the process says that it serves the topic
    closing     \* the process has been asked to end

vars == <<linked, answered, handlers, announced, closing>>

Init == ~linked /\ ~answered /\ handlers = 0 /\ ~announced /\ ~closing

Link ==
    /\ ~linked
    /\ linked' = TRUE
    /\ UNCHANGED <<answered, handlers, announced, closing>>

File ==
    /\ linked /\ ~announced
    /\ handlers = 0
    /\ handlers' = 1
    /\ UNCHANGED <<linked, answered, announced, closing>>

Answer ==
    /\ linked
    /\ handlers = 1
    /\ answered' = TRUE
    /\ UNCHANGED <<linked, handlers, announced, closing>>

\* The link may be lost between the server's answer and this step.
Announce ==
    /\ handlers = 1
    /\ linked => answered
    /\ announced' = TRUE
    /\ UNCHANGED <<linked, answered, handlers, closing>>

Silence ==
    /\ linked \/ closing
    /\ announced
    /\ handlers' = 0
    /\ UNCHANGED <<linked, answered, announced, closing>>

\* Given up by the process, or lost: the server forgets the session.
Unlink ==
    /\ linked' = FALSE
    /\ answered' = FALSE
    /\ UNCHANGED <<handlers, announced, closing>>

\* Of a process that stays, this is a promise; one on its way out may take
\* back what another of its threads has announced in the meantime.
Retract ==
    /\ closing \/ (~linked /\ handlers = 0)
    /\ announced' = FALSE
    /\ UNCHANGED <<linked, answered, handlers, closing>>

Close == closing' = TRUE /\ UNCHANGED <<linked, answered, handlers, announced>>

\* The process ends, and everything it had with it.
Abandon ==
    /\ linked' = FALSE /\ answered' = FALSE
    /\ handlers' = 0 /\ announced' = FALSE /\ closing' = FALSE

Next ==
    \/ Link \/ File \/ Answer \/ Announce
    \/ Silence \/ Unlink \/ Retract \/ Close \/ Abandon

Spec == Init /\ [][Next]_vars
=============================================================================
