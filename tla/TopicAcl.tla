------------------------------ MODULE TopicAcl ------------------------------
(***************************************************************************)
(* The decision of the authority on every publish, subscribe and delivery  *)
(* of the MQTT broker: BrokerAclCheckController asks MessageAclChecker,    *)
(* which matches the topic against masks made from the claims of the       *)
(* client's token.                                                         *)
(*                                                                         *)
(* A mask is text that is split at its slashes, so the claim "authority_id" *)
(* is a sequence of segments here: one segment when it is a host name, as  *)
(* in topics and in the authority's own token; several when it is a URI,   *)
(* which is what AgienceHostStore gives every host.                        *)
(***************************************************************************)
EXTENDS Topics, FiniteSets

CONSTANTS
    Segments,          \* what may stand between two slashes
    AuthorityId,       \* the id of the authority, as topics have it
    Hosts, Agents,     \* ids
    HostAuthorityIds,  \* claims "authority_id" that tokens of hosts may have
    Requested          \* the topics the broker asks about

\* Segments with a meaning of their own; no id is empty either.
Reserved == {"", "-", "0", "*", "+", "?", "event", "connect"}

ASSUME AclIdsAssumption ==
    /\ Reserved \subseteq Segments
    /\ {AuthorityId} \cup Hosts \cup Agents \subseteq Segments \ Reserved
    /\ AuthorityId \notin Hosts \cup Agents
    /\ Hosts \cap Agents = {}

\* Splitting a text leaves at least one segment.
ASSUME RequestedAssumption == Requested \subseteq Seq(Segments) \ {<<>>}

\* The id, for which the masks are written and which no token of a host has
\* today, or a URI, whose scheme ends in two slashes; neither has a "?" in it.
ASSUME HostAuthorityIdsAssumption ==
    \A id \in HostAuthorityIds :
        /\ id \in Seq(Segments)
        /\ \A i \in DOMAIN id : id[i] # "?"
        /\ id = <<AuthorityId>> \/ Len(id) >= 3

VARIABLES
    request,   \* [claims, acc, topic]
    granted    \* "none", then the answer "yes" or "no"

aclVars == <<request, granted>>

READ == 1
WRITE == 2
READ_WRITE == 3
SUBSCRIBE == 4

\* The claims of the two kinds of token.
AuthorityClaims == [roles |-> {"authority"}, host |-> "", authority |-> <<AuthorityId>>]
HostClaims(h, id) == [roles |-> {"host"}, host |-> h, authority |-> id]
AllClaims == {AuthorityClaims} \cup {HostClaims(h, id) : h \in Hosts, id \in HostAuthorityIds}

-----------------------------------------------------------------------------

\* Mutant: the masks of a host have no place for the topic of the host.
GetUserMasksWithoutHost(acc, claims) ==
    LET mask(sender, host, agent) == <<sender>> \o claims.authority \o <<host, agent>> IN
    {m \in {mask("*", "-", "-")} : "authority" \in claims.roles /\ acc \in {READ, SUBSCRIBE}}
      \cup {m \in {mask("-", "+", "+")} : "authority" \in claims.roles /\ acc = WRITE}
      \cup {m \in {mask("-", "0", "-"), mask("*", "-", "?")} :
              "host" \in claims.roles /\ acc \in {READ, SUBSCRIBE}}
      \cup {m \in {mask(claims.host, "-", "-"), mask("?", "-", "-"), mask("?", "-", "?")} :
              "host" \in claims.roles /\ acc = WRITE}

GetUserMasks(acc, claims) ==
    LET mask(sender, host, agent) == <<sender>> \o claims.authority \o <<host, agent>>
        masks(role, accs, ms) == IF role \in claims.roles /\ acc \in accs THEN ms ELSE {}
        id == claims.host
    IN masks("authority", {READ, SUBSCRIBE}, {mask("*", "-", "-")})
         \cup masks("authority", {WRITE}, {mask("-", "+", "+")})
         \cup masks("host", {READ, SUBSCRIBE},
                    {mask("-", "0", "-"), mask("-", id, "-"), mask("-", id, "?"),
                     mask("*", "-", "?")})
         \cup masks("host", {WRITE},
                    {mask(id, "-", "-"), mask("?", "-", "-"), mask("?", "-", "?")})

IsValidTopicAndMask(topic, mask) == Len(topic) = 4 /\ Len(mask) = 4

\* The first segment is the sender: read from anyone, subscribe to all at
\* once, write in one's own name.
SenderMatches(topic, mask, acc) ==
    /\ acc = SUBSCRIBE => topic[1] = "+"
    /\ acc = WRITE => topic[1] = mask[1]

SegmentMatches(own, level) ==
    \/ own \in {"+", level}
    \/ own = "*" /\ level # "0"

CheckMask(topic, mask, acc) ==
    /\ IsValidTopicAndMask(topic, mask)
    /\ SenderMatches(topic, mask, acc)
    /\ \A i \in 2 .. 4 : SegmentMatches(mask[i], topic[i])

\* VerifyHostSourceTargetRelationships.
Verified(host, source, target) == TRUE

\* Mutant: anyone may be named as the sender.
CheckQueryMaskAnySender(topic, mask, host, acc) ==
    /\ IsValidTopicAndMask(topic, mask)
    /\ mask[4] = "?" => topic[4] # "-"
    /\ Verified(host, topic[1], topic[4])

\* The segment a mask has "?" for, "" for null.
Asked(own, level) == IF own = "?" THEN level ELSE ""

\* The segments a query mask does not ask for are not compared.
CheckQueryMask(topic, mask, host, acc) ==
    /\ "?" \in {mask[i] : i \in DOMAIN mask}
    /\ IsValidTopicAndMask(topic, mask)
    /\ LET source == Asked(mask[1], topic[1])
           target == Asked(mask[4], topic[4])
       IN /\ source # "-"
          /\ target # "-"
          /\ acc = WRITE => source # target
          /\ Verified(host, source, target)

IsTopicAllowed(topic, masks, host, acc) ==
    \E mask \in masks : CheckMask(topic, mask, acc) \/ CheckQueryMask(topic, mask, host, acc)

CheckAccessControl(claims, acc, topic) ==
    \/ topic[1] = "connect" /\ Len(topic) > 1
    \/ /\ acc \notin {0, READ_WRITE}
       /\ LET levels == IF topic[1] = "event" THEN Tail(topic) ELSE topic
          IN IsTopicAllowed(levels, GetUserMasks(acc, claims), claims.host, acc)

-----------------------------------------------------------------------------

AclInit ==
    /\ request \in [claims : AllClaims, acc : 0 .. 4, topic : Requested]
    /\ granted = "none"

\* The controller: Ok or Unauthorized.
Check ==
    /\ granted = "none"
    /\ granted' = IF CheckAccessControl(request.claims, request.acc, request.topic)
                  THEN "yes" ELSE "no"
    /\ UNCHANGED request

AclNext == Check

AclSpec == AclInit /\ [][AclNext]_aclVars

-----------------------------------------------------------------------------
(* Properties.                                                             *)

\* What the SDK does with a token of these claims: as access and topic.  An
\* agent uses the token of its host; it never writes to itself.
SdkRequests(claims) ==
    IF claims = AuthorityClaims
    THEN {<<SUBSCRIBE, SubscribeAsAuthority(AuthorityId)>>}
           \cup {<<READ, PublishToAuthority(AuthorityId, x)>> : x \in Hosts \cup Agents}
           \cup {<<WRITE, PublishToHost(AuthorityId, AuthorityId, h)>> : h \in Hosts}
           \cup {<<WRITE, PublishToAgent(AuthorityId, AuthorityId, a)>> : a \in Agents}
    ELSE LET h == claims.host IN
         {<<SUBSCRIBE, SubscribeAsHost(AuthorityId, h)>>,
          <<READ, PublishToHost(AuthorityId, AuthorityId, h)>>,
          <<WRITE, PublishToAuthority(AuthorityId, h)>>}
           \cup {<<SUBSCRIBE, SubscribeAsAgent(AuthorityId, a)>> : a \in Agents}
           \cup {<<READ, PublishToAgent(AuthorityId, AuthorityId, a)>> : a \in Agents}
           \cup {<<WRITE, PublishToAuthority(AuthorityId, a)>> : a \in Agents}
           \cup {<<WRITE, PublishToAgent(AuthorityId, p[1], p[2])>> :
                   p \in {q \in Agents \X Agents : q[1] # q[2]}}

\* What the SDK subscribes to, publishes, or is sent by the other side is
\* granted to a token whose authority_id is the id that topics carry, and
\* refused, all of it, to a token with a URI there.  One half says that the
\* topics of TopicGenerator and the masks of MessageAclChecker, which spell
\* the same scheme out separately, agree; the other that AgienceHostStore,
\* which puts the authority's public URI into the claim, makes tokens no host
\* can be reached or heard with.
SdkNeedsTheId ==
    /\ granted # "none"
    /\ <<request.acc, request.topic>> \in SdkRequests(request.claims)
    => (granted = "yes" <=> request.claims.authority = <<AuthorityId>>)

\* Only the authority is granted an event in the name "-", which hosts and
\* agents take for the authority.
SenderIsHonest ==
    /\ granted = "yes"
    /\ request.acc = WRITE
    /\ request.topic[1] = "event"
    /\ request.topic[2] = "-"
    => "authority" \in request.claims.roles

\* What is sent to a host, or the subscription to it, is granted to that host
\* alone: not to another host, and not to the authority.
HostsApart ==
    \A h \in Hosts :
        /\ granted = "yes"
        /\ request.acc \in {READ, SUBSCRIBE}
        /\ request.topic \in {PublishToHost(AuthorityId, AuthorityId, h), SubscribeAsHost(AuthorityId, h)}
        => request.claims.host = h

\* Nobody is granted to pose as the authority or to hear what is meant for another.
NobodyPoses == SenderIsHonest /\ HostsApart

=============================================================================
