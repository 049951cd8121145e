------------------------------ MODULE MCTopicAcl ------------------------------
(* Bounds for TLC: topics of the SDK's shapes over a few ids and the reserved *)
(* segments, and some that are too short, too long or named.                  *)
EXTENDS TopicAcl

\* Any text.
MCText == STRING

\* As topics have it, and as AgienceHostStore takes it from AUTHORITY_PUBLIC_URI.
MCUri == <<"https:", "", "localhost:5001">>
MCHostAuthorityIds == {<<"auth">>, MCUri}
MCSegments == {"auth", "h1", "h2", "a1", "a2", "-", "0", "+"}
MCEvents == {<<"event", s, authority, h, a>> :
               s \in MCSegments, authority \in {"auth", "other"}, h \in MCSegments, a \in MCSegments}
MCOther == {<<"connect", "name">>, <<"event", "">>, <<"event", "-", "auth", "h1">>,
            <<"event", "h1">> \o MCUri \o <<"-", "-">>, <<"h1", "auth", "-", "-">>}
MCRequested == MCEvents \cup MCOther
===============================================================================
