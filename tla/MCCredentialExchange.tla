------------------------ MODULE MCCredentialExchange ------------------------
(* Instances of CredentialExchange for TLC.                                *)
EXTENDS CredentialExchange

\* Two calls on one service, the third on another Agent object of that id.
MCServiceOf == [c \in Callers |-> IF c = "c3" THEN "s2" ELSE "s1"]

\* Two connections of the same name.
MCConnections == <<"n1", "n2">>
=============================================================================
