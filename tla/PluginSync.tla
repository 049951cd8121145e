----------------------------- MODULE PluginSync -----------------------------
(***************************************************************************)
(* What the authority does with a host_connect: OnHostConnected brings the *)
(* plugin records of the host up to date (SyncPluginsForHostById), reads   *)
(* them back and sends them in a host_welcome; the host goes through the   *)
(* records and takes over their ids.                                       *)
(*                                                                         *)
(* Every message is handled on a task of its own, with its own database    *)
(* context, and nothing is a transaction: each insert is committed by      *)
(* itself, and two handlers for one host may run at the same time.         *)
(***************************************************************************)
EXTENDS Naturals, FiniteSets, SequencesExt

CONSTANTS
    Hosts,
    Provided,     \* host -> the unique names of the plugins it was built with
    Functions,    \* the functions each of these plugins has
    Displays,     \* the names plugins are displayed with
    DisplayOf,    \* unique name -> the display name of that plugin, its type's name
    OwnersPlugins,\* the display names of the plugins the owner made in the UI
    MaxConnects,  \* bound: host_connect messages
    MaxFaults,    \* bound: failed handlers and lost welcomes
    MaxEdits,     \* bound: what the owner does to plugins in the UI
    MaxTasks      \* bound: handlers at one time

Names == UNION {ToSet(Provided[h]) : h \in Hosts}

\* The unique name of a plugin that has none: the UI knows only the display name.
NoName == ""
PluginNames == Names \cup {NoName}

ASSUME ProvidedAssumption == Provided \in [Hosts -> Seq(Names)] /\ NoName \notin Names
ASSUME DisplayAssumption == DisplayOf \in [Names -> Displays] /\ OwnersPlugins \in Seq(Displays)
ASSUME PluginBoundsAssumption == {MaxConnects, MaxFaults, MaxEdits, MaxTasks} \subseteq Nat

VARIABLES
    plugins,      \* the table of plugins, in order of creation; id = index
    deleted,      \* the ids of those that have been deleted
    links,        \* the rows of HostPlugin, in order of creation
    local,        \* host -> Host.Plugins, its list of plugins with their ids
    unread,       \* host -> records of its welcomes it has still to go through
    tasks,        \* the running handlers
    answered,     \* host -> welcomes it has received
    connects,     \* host -> host_connect messages it has sent
    faults, edits,
    overlapped    \* auxiliary: hosts with two handlers at a time

tables == <<plugins, deleted, links>>
counters == <<connects, faults, edits>>
host == <<local, unread>>
vars == <<tables, host, tasks, answered, counters, overlapped>>

\* The ids of records; an id of 0 is a record that has none yet.
Ids == DOMAIN plugins
Label == [name : PluginNames, display : Displays]
Entry == [name : PluginNames, display : Displays, id : {0} \cup Ids]

\* A record as it was read, and as a record of one of the welcomes of its host.
Row == [id : Ids, name : PluginNames, display : Displays]
UnreadRow == [id : Ids, name : PluginNames, display : Displays, welcome : Nat]

\* The plugins a task has still to create are those at the places todo of sent.
NoTask == [step |-> "none", host |-> "", sent |-> <<>>, todo |-> {}, id |-> 0,
           missing |-> {}, function |-> "", read |-> {}]
Steps == {"none", "sync", "plugin", "link", "function", "parameters", "list", "welcome"}

\* Auxiliary: was, the names a record has or has had.
TypeOK ==
    /\ plugins \in Seq([name : PluginNames, display : Displays, was : SUBSET Label,
                        functions : SUBSET Functions, complete : SUBSET Functions])
    /\ deleted \subseteq Ids
    /\ links \in Seq([host : Hosts, id : Ids])
    /\ local \in [Hosts -> Seq(Entry)]
    /\ unread \in [Hosts -> SUBSET UnreadRow]
    /\ \A k \in 1 .. MaxTasks :
          /\ tasks[k].step \in Steps
          /\ tasks[k].host \in Hosts \cup {""}
          /\ tasks[k].sent \in Seq(Entry)
          /\ tasks[k].todo \subseteq DOMAIN tasks[k].sent
          /\ tasks[k].id \in 0 .. Len(plugins)
          /\ tasks[k].missing \subseteq Functions
          /\ tasks[k].function \in Functions \cup {""}
          /\ tasks[k].read \subseteq Row
    /\ answered \in [Hosts -> Nat]
    /\ connects \in [Hosts -> Nat]
    /\ {faults, edits} \subseteq Nat
    /\ overlapped \subseteq Hosts

\* Host.Plugins of a process that has just started.
AsBuilt(h) == [i \in DOMAIN Provided[h] |->
    [name |-> Provided[h][i], display |-> DisplayOf[Provided[h][i]], id |-> 0]]

NewRecord(name, display) ==
    [name |-> name, display |-> display, was |-> {[name |-> name, display |-> display]},
     functions |-> {}, complete |-> {}]

Init ==
    /\ plugins = [i \in DOMAIN OwnersPlugins |-> NewRecord(NoName, OwnersPlugins[i])]
    /\ deleted = {}
    /\ links = <<>>
    /\ local = [h \in Hosts |-> AsBuilt(h)]
    /\ unread = [h \in Hosts |-> {}]
    /\ tasks = [k \in 1 .. MaxTasks |-> NoTask]
    /\ answered = [h \in Hosts |-> 0]
    /\ connects = [h \in Hosts |-> 0]
    /\ faults = 0 /\ edits = 0
    /\ overlapped = {}

-----------------------------------------------------------------------------

\* The plugins of a host.  The rows of a deleted plugin are deleted with it, by
\* the database, so that they count for nothing.
Linked(h) == {l.id : l \in {x \in ToSet(links) : x.host = h}} \ deleted
NamesOf(ids) == {plugins[i].name : i \in ids}
Duplicated(h) == \E i, j \in Linked(h) : i # j /\ plugins[i].name = plugins[j].name

Live(k) == tasks[k].step # "none"
Dies(k) == tasks' = [tasks EXCEPT ![k] = NoTask]

\* The loop over the plugins to create: the next one, or the reading back.
NextPlugin(todo) == IF todo = {} THEN "list" ELSE "plugin"
Current(k) == tasks[k].sent[Min(tasks[k].todo)]

\* Host.Connect: host_connect carries the host with its plugins; the host may
\* be a process that has been restarted, and then goes through no welcome.
HostConnect(h) ==
    /\ SumFunction(connects) < MaxConnects
    /\ connects' = [connects EXCEPT ![h] = @ + 1]
    /\ \E restarted \in BOOLEAN : LET list == IF restarted THEN AsBuilt(h) ELSE local[h] IN
         /\ local' = [local EXCEPT ![h] = list]
         /\ unread' = IF restarted THEN [unread EXCEPT ![h] = {}] ELSE unread
         /\ \E k \in 1 .. MaxTasks :
              /\ ~Live(k) /\ \A j \in 1 .. k - 1 : Live(j)
              /\ tasks' = [tasks EXCEPT ![k] = [NoTask EXCEPT !.step = "sync", !.host = h,
                                                              !.sent = list]]
    /\ overlapped' = IF \E k \in 1 .. MaxTasks : tasks[k].host = h
                     THEN overlapped \cup {h} ELSE overlapped
    /\ UNCHANGED <<tables, answered, faults, edits>>

\* Mutant: two records of one name do not stop the synchronisation, and only
\* the plugins the host knows no id of are looked for.
SyncById(k) ==
    /\ tasks[k].step = "sync"
    /\ LET todo == {i \in DOMAIN tasks[k].sent : tasks[k].sent[i].id = 0}
       IN tasks' = [tasks EXCEPT ![k].todo = todo, ![k].step = NextPlugin(todo)]
    /\ UNCHANGED <<tables, host, answered, counters, overlapped>>

\* Mutant: a host that has records is taken to have them all.
SyncOnce(k) ==
    /\ tasks[k].step = "sync"
    /\ LET todo == IF Linked(tasks[k].host) = {} THEN DOMAIN tasks[k].sent ELSE {}
       IN tasks' = [tasks EXCEPT ![k].todo = todo, ![k].step = NextPlugin(todo)]
    /\ UNCHANGED <<tables, host, answered, counters, overlapped>>

\* Mutant: only a host without plugins can be synchronised.
SyncRejectsExisting(k) ==
    /\ tasks[k].step = "sync"
    /\ IF Linked(tasks[k].host) # {} THEN Dies(k)
       ELSE LET todo == DOMAIN tasks[k].sent
            IN tasks' = [tasks EXCEPT ![k].todo = todo, ![k].step = NextPlugin(todo)]
    /\ UNCHANGED <<tables, host, answered, counters, overlapped>>

\* The existing plugins are read; ToDictionary throws when two of them have
\* one name.  What has no record of its name is to be created.
Sync(k) ==
    /\ tasks[k].step = "sync"
    /\ IF Duplicated(tasks[k].host) THEN Dies(k)
       ELSE LET todo == {i \in DOMAIN tasks[k].sent :
                            tasks[k].sent[i].name \notin NamesOf(Linked(tasks[k].host))}
            IN tasks' = [tasks EXCEPT ![k].todo = todo, ![k].step = NextPlugin(todo)]
    /\ UNCHANGED <<tables, host, answered, counters, overlapped>>

\* Mutant: the id that the database gave the record is not read back.
CreatePluginUnread(k) ==
    /\ tasks[k].step = "plugin"
    /\ IF Current(k).id # 0 THEN Dies(k) /\ UNCHANGED plugins
       ELSE /\ plugins' = Append(plugins, NewRecord(Current(k).name, Current(k).display))
            /\ tasks' = [tasks EXCEPT ![k].step = "link"]
    /\ UNCHANGED <<deleted, links, host, answered, counters, overlapped>>

\* CreateRecordAsync refuses a record that already has an id.
CreatePlugin(k) ==
    /\ tasks[k].step = "plugin"
    /\ IF Current(k).id # 0 THEN Dies(k) /\ UNCHANGED plugins
       ELSE /\ plugins' = Append(plugins, NewRecord(Current(k).name, Current(k).display))
            /\ tasks' = [tasks EXCEPT ![k].step = "link", ![k].id = Len(plugins')]
    /\ UNCHANGED <<deleted, links, host, answered, counters, overlapped>>

\* The row of HostPlugin; there cannot be one of a plugin deleted meanwhile.
CreateHostPlugin(k) ==
    /\ tasks[k].step = "link"
    /\ IF tasks[k].id \in deleted THEN Dies(k) /\ UNCHANGED links
       ELSE /\ links' = Append(links, [host |-> tasks[k].host, id |-> tasks[k].id])
            /\ tasks' = [tasks EXCEPT ![k].step = "function", ![k].missing = Functions]
    /\ UNCHANGED <<plugins, deleted, host, answered, counters, overlapped>>

\* A function and its PluginFunction row, which a deleted plugin cannot have.
CreateFunction(k) ==
    /\ tasks[k].step = "function"
    /\ tasks[k].missing # {}
    /\ IF tasks[k].id \in deleted THEN Dies(k) /\ UNCHANGED plugins
       ELSE \E f \in tasks[k].missing :
              /\ plugins' = [plugins EXCEPT ![tasks[k].id].functions = @ \cup {f}]
              /\ tasks' = [tasks EXCEPT ![k].step = "parameters", ![k].function = f,
                                        ![k].missing = @ \ {f}]
    /\ UNCHANGED <<deleted, links, host, answered, counters, overlapped>>

\* After the last function, the next plugin.
EndPlugin(k) ==
    /\ tasks[k].step = "function"
    /\ tasks[k].missing = {}
    /\ LET todo == tasks[k].todo \ {Min(tasks[k].todo)}
       IN tasks' = [tasks EXCEPT ![k].step = NextPlugin(todo), ![k].todo = todo, ![k].id = 0]
    /\ UNCHANGED <<tables, host, answered, counters, overlapped>>

\* The rows of the function's inputs and outputs.
CreateParameters(k) ==
    /\ tasks[k].step = "parameters"
    /\ plugins' = [plugins EXCEPT ![tasks[k].id].complete = @ \cup {tasks[k].function}]
    /\ tasks' = [tasks EXCEPT ![k].step = "function", ![k].function = ""]
    /\ UNCHANGED <<deleted, links, host, answered, counters, overlapped>>

\* GetPluginsForHostById, the second time: what the welcome will list.
ListPlugins(k) ==
    /\ tasks[k].step = "list"
    /\ tasks' = [tasks EXCEPT ![k].step = "welcome",
                     ![k].read = {[id |-> i, name |-> plugins[i].name, display |-> plugins[i].display] :
                                    i \in Linked(tasks[k].host)}]
    /\ UNCHANGED <<tables, host, answered, counters, overlapped>>

\* The welcome is sent and received; the host goes through its records.
HostWelcome(k) ==
    /\ tasks[k].step = "welcome"
    /\ LET h == tasks[k].host IN
         /\ answered' = [answered EXCEPT ![h] = @ + 1]
         /\ unread' = [unread EXCEPT ![h] = @ \cup
                {[id |-> r.id, name |-> r.name, display |-> r.display, welcome |-> answered'[h]] :
                   r \in tasks[k].read}]
    /\ Dies(k)
    /\ UNCHANGED <<tables, local, counters, overlapped>>

\* The database or the process fails under a handler, the authority is not
\* connected when it is to publish, or the welcome is lost.
Fails(k) ==
    /\ Live(k)
    /\ faults < MaxFaults
    /\ faults' = faults + 1
    /\ Dies(k)
    /\ UNCHANGED <<tables, host, answered, connects, edits, overlapped>>

-----------------------------------------------------------------------------
(* ReceiveHostWelcome.                                                     *)

\* Mutant: a record of another name goes to a plugin that has no id yet.
PlacesOfAny(list, r) ==
    LET named == {i \in DOMAIN list : list[i].name = r.name}
    IN IF named # {} THEN named ELSE {i \in DOMAIN list : list[i].id = 0}

\* The plugins of the host that a record is taken to be: those of its unique
\* name, and if there is none those of its display name.  No unique name is a
\* unique name like another.
Places(list, r) ==
    LET named == {i \in DOMAIN list : list[i].name = r.name}
    IN IF named # {} THEN named ELSE {i \in DOMAIN list : list[i].display = r.display}

\* The first of them gets the id of the record; a record that is none of them is
\* added.  The records of a welcome come in no certain order, and those of two
\* welcomes are gone through side by side.
ReconcilePlugin(h) ==
    \E r \in unread[h] :
        /\ LET places == Places(local[h], r) IN
             local' = [local EXCEPT ![h] =
                 IF places # {} THEN [@ EXCEPT ![Min(places)].id = r.id]
                 ELSE Append(@, [name |-> r.name, display |-> r.display, id |-> r.id])]
        /\ unread' = [unread EXCEPT ![h] = @ \ {r}]
        /\ UNCHANGED <<tables, tasks, answered, counters, overlapped>>

\* Host.Plugins is a plain list: looking through it fails when the handler of
\* another welcome adds to it, and the rest of the welcome is not gone through.
BreaksOff(h) ==
    \E r, other \in unread[h] :
        /\ r.welcome # other.welcome
        /\ unread' = [unread EXCEPT ![h] = {x \in @ : x.welcome # r.welcome}]
        /\ UNCHANGED <<tables, local, tasks, answered, counters, overlapped>>

-----------------------------------------------------------------------------
(* HostController and PluginController: the owner edits plugins in the UI. *)

Edits ==
    /\ edits < MaxEdits
    /\ edits' = edits + 1
    /\ UNCHANGED <<host, tasks, answered, connects, faults, overlapped>>

\* Nothing looks at the unique names the host has already.
AddPluginToHost(h, i) ==
    /\ Edits
    /\ i \in Ids \ deleted
    /\ links' = Append(links, [host |-> h, id |-> i])
    /\ UNCHANGED <<plugins, deleted>>

RemovePluginFromHost(h, i) ==
    /\ Edits
    /\ i \in Linked(h)
    /\ links' = RemoveAt(links, SelectInSeq(links, LAMBDA l : l = [host |-> h, id |-> i]))
    /\ UNCHANGED <<plugins, deleted>>

\* The whole record is saved as it was sent, and the UI sends no unique name.
UpdatePlugin(i, display) ==
    /\ Edits
    /\ i \in Ids \ deleted
    /\ plugins' = [plugins EXCEPT ![i].name = NoName, ![i].display = display,
                      ![i].was = @ \cup {[name |-> NoName, display |-> display]}]
    /\ UNCHANGED <<deleted, links>>

DeletePlugin(i) ==
    /\ Edits
    /\ i \in Ids \ deleted
    /\ deleted' = deleted \cup {i}
    /\ UNCHANGED <<plugins, links>>

-----------------------------------------------------------------------------

TaskStep(k) ==
    \/ Sync(k) \/ CreatePlugin(k) \/ CreateHostPlugin(k) \/ CreateFunction(k) \/ EndPlugin(k)
    \/ CreateParameters(k) \/ ListPlugins(k) \/ HostWelcome(k)

Next ==
    \/ \E h \in Hosts : HostConnect(h) \/ ReconcilePlugin(h) \/ BreaksOff(h)
    \/ \E k \in 1 .. MaxTasks : TaskStep(k) \/ Fails(k)
    \/ \E h \in Hosts, i \in Ids : AddPluginToHost(h, i) \/ RemovePluginFromHost(h, i)
    \/ \E i \in Ids : DeletePlugin(i) \/ \E display \in Displays : UpdatePlugin(i, display)

Fairness ==
    /\ \A k \in 1 .. MaxTasks : WF_vars(TaskStep(k))
    /\ \A h \in Hosts : WF_vars(ReconcilePlugin(h))

Spec == Init /\ [][Next]_vars
FairSpec == Spec /\ Fairness

-----------------------------------------------------------------------------
(* Properties.                                                             *)

\* As long as one host's messages are handled one after the other and nobody
\* edits, handlers that fail half way do not leave two records of one name on
\* a host: the synchronisation can be repeated, whatever failed before.
RepeatableSync ==
    edits = 0 => \A h \in Hosts : h \notin overlapped /\ IsInjective(Provided[h]) => ~Duplicated(h)

\* A host is never welcomed without a plugin it sent, even when several
\* handlers run for it, unless the owner removed one.
WelcomeListsWhatWasSent ==
    edits = 0 => \A k \in 1 .. MaxTasks : tasks[k].step = "welcome" =>
        {e.name : e \in ToSet(tasks[k].sent)} \subseteq {r.name : r \in tasks[k].read}

\* Without faults, edits and overlaps the plugins of a welcome have all their
\* functions, with their parameters.
WelcomeIsComplete ==
    faults = 0 /\ edits = 0 => \A k \in 1 .. MaxTasks :
        tasks[k].step = "welcome" /\ tasks[k].host \notin overlapped =>
            \A r \in tasks[k].read : plugins[r.id].complete = Functions

\* The id a host keeps for a plugin is that of a record which has, or has had,
\* the unique name of the plugin (none, if it has none) or its display name.  It
\* need not be the plugin's own record: one the owner made or renamed takes its
\* place if it is displayed with the same name, and so does another plugin of
\* that name.  But nothing else gives a plugin the id of another one, whatever
\* overlaps, fails, breaks off or is edited while the host goes on.
IdsAreTrue ==
    \A h \in Hosts : \A i \in DOMAIN local[h] :
        LET e == local[h][i] IN
        e.id # 0 =>
            /\ e.id \in Ids
            /\ \E l \in plugins[e.id].was : l.name = e.name \/ l.display = e.display

\* In the end the hosts have gone through all their welcomes, and every
\* host_connect has been answered, unless something failed, the owner edited the
\* plugins, or handlers of the host overlapped and left two records of one name:
\* then the host is never welcomed again.
Answered ==
    <>[](/\ \A h \in Hosts : unread[h] = {}
         /\ \/ faults > 0 \/ edits > 0
            \/ \A h \in Hosts : answered[h] = connects[h] \/ Duplicated(h))

\* A welcome is the truth about the plugins its host sent: it lists them all, and
\* they are complete unless something failed, ran beside it or was edited.
WelcomeIsTrue == WelcomeListsWhatWasSent /\ WelcomeIsComplete

=============================================================================
