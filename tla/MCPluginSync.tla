---------------------------- MODULE MCPluginSync ----------------------------
(* Instances of PluginSync for TLC.                                        *)
EXTENDS PluginSync

\* Two plugins on the first host, none on the second.
MCProvided == [h \in Hosts |-> IF h = "h1" THEN <<"p", "q">> ELSE <<>>]

\* The owner has made a plugin that is displayed like the first of them.
MCDisplayOf == [n \in {"p", "q"} |-> IF n = "p" THEN "P" ELSE "Q"]
MCOwnersPlugins == <<"P">>
=============================================================================
