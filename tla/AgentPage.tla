----------------------------- MODULE AgentPage -----------------------------
(***************************************************************************)
(* The Agent page of the management UI: the tab that lists, creates, edits *)
(* and deletes agents, and the two tabs that give an agent plugins and     *)
(* topics.  The id of the agent is kept in the URL, where all tabs, the    *)
(* handlers that outlive a tab, and the browser's history change it.       *)
(* A step of the user is a click; the server answers requests one by one,  *)
(* in any order, or not at all.                                            *)
(***************************************************************************)
EXTENDS Requests

CONSTANTS
    Agents,         \* ids agents can have
    Initially,      \* the agents there are at first
    Items,          \* plugins, and topics, the owner has
    None,           \* null, undefined or absent
    Temp,           \* the id temp-... of an agent that is not saved
    Blank,          \* the empty string
    Typed,          \* a name the user types
    MaxEvents       \* bound: clicks, steps in the browser's history and
                    \*   failures of requests, all together

ASSUME AgentsAssumption == Initially \subseteq Agents /\ {None, Temp, Blank} \cap Agents = {}

VARIABLES
    db,         \* the server: agents, who has what, ids ever given
    url,        \* the search parameter id
    tab,        \* activeTab
    details,    \* state of AgentDetailsTab
    panel,      \* state of AgentPluginsTab or AgentTopicsTab
    tasks,
    events,
    failed,     \* a request has failed
    drafts,     \* new agents the user has begun
    hasty       \* the user has acted while a handler was running

vars == <<db, url, tab, details, panel, tasks, events, failed, drafts, hasty>>
counters == <<events, failed, drafts, hasty>>

Panels == {"plugins", "topics"}
Tabs == {"Agents", "credentials"} \cup Panels

Existing == DOMAIN db.agents
ItemsOf(kind, a) == {i \in Items : <<a, i>> \in db.links[kind]}

-----------------------------------------------------------------------------
(* The services, and what the server does with their requests.  The hosts,  *)
(* plugins and topics there are to choose from do not change: of their      *)
(* requests only the one with effects of its own is modelled.              *)

getAllAgents == <<"getAllAgents">>
getAgentById(a) == <<"getAgentById", a>>
createAgent(form) == <<"createAgent", form>>
updateAgent(a, form) == <<"updateAgent", a, form>>
dropAgent(a) == <<"dropAgent", a>>
assignedItems(kind, a) == <<"assigned", kind, a>>
getAgentPlugins(a) == assignedItems("plugins", a)
getAgentTopics(a) == assignedItems("topics", a)
availableItems(kind) == <<"available", kind>>
getAvailableTopics == availableItems("topics")
addItem(kind, a, i) == <<"add", kind, a, i>>
addPluginToAgent(a, p) == addItem("plugins", a, p)
addTopicToAgent(a, t) == addItem("topics", a, t)
removeItem(kind, a, i) == <<"remove", kind, a, i>>
removePluginFromAgent(a, p) == removeItem("plugins", a, p)
removeTopicFromAgent(a, t) == removeItem("topics", a, t)

\* Whether the server accepts a request: what it names exists, a link is new
\* to be added and there to be removed, and a foreign key without a cascade keeps
\* an agent that still has topics.
Accepts(r) ==
    CASE r[1] \in {"getAgentById", "updateAgent"} -> r[2] \in Existing
      [] r[1] = "dropAgent" -> r[2] \in Existing /\ ItemsOf("topics", r[2]) = {}
      [] r[1] = "assigned" -> r[3] \in Existing
      [] r[1] = "add" -> r[3] \in Existing /\ <<r[3], r[4]>> \notin db.links[r[2]]
      [] r[1] = "remove" -> r[3] \in Existing /\ <<r[3], r[4]>> \in db.links[r[2]]
      [] OTHER -> TRUE

NewId == CHOOSE a \in Agents : a \notin db.given

\* The records after a request that was accepted.
Effect(r) ==
    CASE r[1] = "createAgent" ->
            [db EXCEPT !.agents = With(@, NewId, r[2]), !.given = @ \cup {NewId}]
      [] r[1] = "updateAgent" -> [db EXCEPT !.agents[r[2]] = r[3]]
      [] r[1] = "dropAgent" ->
            [db EXCEPT !.agents = [a \in Existing \ {r[2]} |-> @[a]],
                       !.links = [kind \in Panels |-> {l \in @[kind] : l[1] # r[2]}]]
      [] r[1] = "add" -> [db EXCEPT !.links[r[2]] = @ \cup {<<r[3], r[4]>>}]
      [] r[1] = "remove" -> [db EXCEPT !.links[r[2]] = @ \ {<<r[3], r[4]>>}]
      [] OTHER -> db

\* What the service returns.  A PUT is answered without a body, so the agent it
\* returns has no id.
Returns(r) ==
    CASE r[1] = "getAllAgents" -> Existing
      [] r[1] = "getAgentById" ->
            [id |-> r[2], name |-> db.agents[r[2]].name,
             plugins |-> ItemsOf("plugins", r[2]), topics |-> ItemsOf("topics", r[2])]
      [] r[1] = "createAgent" -> NewId
      [] r[1] = "updateAgent" -> None
      [] r[1] = "assigned" -> ItemsOf(r[2], r[3])
      [] r[1] = "available" -> Items
      [] OTHER -> None

Event == events < MaxEvents /\ events' = events + 1

Serve(k, r) ==
    /\ r \in tasks[k].sent
    /\ r[1] = "createAgent" => db.given # Agents
    /\ \/ /\ Accepts(r)
          /\ db' = Effect(r)
          /\ tasks' = Receive(tasks, k, r, Ok(Returns(r)))
       \/ /\ ~Accepts(r)
          /\ db' = db
          /\ tasks' = Receive(tasks, k, r, Failure)
    /\ UNCHANGED <<url, tab, details, panel, counters>>

\* The request does not reach the server, or its answer is lost.
Fail(k, r) ==
    /\ r \in tasks[k].sent
    /\ r[1] = "createAgent" => db.given # Agents
    /\ Event
    /\ failed' = TRUE
    /\ db' \in {db} \cup (IF Accepts(r) THEN {Effect(r)} ELSE {})
    /\ tasks' = Receive(tasks, k, r, Failure)
    /\ UNCHANGED <<url, tab, details, panel, drafts, hasty>>

-----------------------------------------------------------------------------
(* Rendering.  A change of the URL or of tempAgentId runs the effect of the *)
(* mounted tab again, beside whatever it still runs.                       *)

EmptyForm == [name |-> Blank]

NoDetails == [agents |-> {}, selected |-> None, temp |-> FALSE, form |-> EmptyForm,
              loading |-> TRUE, confirm |-> None]

NoPanel == [agents |-> {}, agent |-> None, assigned |-> {}, available |-> {},
            loading |-> TRUE, confirm |-> None, form |-> FALSE, submitting |-> FALSE]

DetailsLoad(u, temp) == Task("load", [id |-> u, temp |-> temp], {getAllAgents})

PanelLoad(kind, u) ==
    IF u = None
    THEN Task("panelList", [kind |-> kind, id |-> u], {getAllAgents})
    ELSE Task("panelLoad", [kind |-> kind, id |-> u],
              {getAllAgents, getAgentById(u), assignedItems(kind, u)})

PluginsLoad(u) == PanelLoad("plugins", u)
TopicsLoad(u) == PanelLoad("topics", u)
CredentialsLoad(u) == Task("credentials", [id |-> u], {getAgentById(u)})

EffectOf(t, u, temp) ==
    CASE t = "Agents" -> DetailsLoad(u, temp)
      [] t = "plugins" -> PluginsLoad(u)
      [] t = "topics" -> TopicsLoad(u)
      [] t = "credentials" -> IF u = None THEN Idle ELSE CredentialsLoad(u)

\* Orphans that only read are of no consequence.
OnlyReads == {"load", "loadAgent", "panelList", "panelLoad", "credentials", "refetch", "relist",
              "topicSaved", "topicListed"}
Unmounted(ts) == [k \in Slots |-> IF ts[k].at \in OnlyReads THEN Idle ELSE [ts[k] EXCEPT !.live = FALSE]]

\* Mutant: the effects of the other tabs do not depend on the URL.
RenderPanelOnce(d, p, u, ts) ==
    LET reload == tab = "Agents" /\ (u # url \/ d.temp # details.temp) IN
    /\ reload => HasRoom(ts)
    /\ url' = u
    /\ tasks' = IF reload THEN Begin(ts, EffectOf(tab, u, d.temp)) ELSE ts
    /\ details' = [d EXCEPT !.loading = @ \/ reload]
    /\ panel' = p

\* New state d and p, search parameter u and tasks ts, and the effects that run for them.
Render(d, p, u, ts) ==
    LET reload == u # url \/ (tab = "Agents" /\ d.temp # details.temp)
        kept == IF tab = "credentials" THEN Unmounted(ts) ELSE ts
        effect == EffectOf(tab, u, d.temp)
    IN  /\ reload => HasRoom(kept)
        /\ url' = u
        /\ tasks' = IF reload /\ effect # Idle THEN Begin(kept, effect)
                    ELSE IF reload THEN kept ELSE ts
        /\ details' = [d EXCEPT !.loading = @ \/ (reload /\ tab = "Agents")]
        /\ panel' = [p EXCEPT !.loading = @ \/ (reload /\ tab \in Panels)]

\* What task k does to the state of its tab, if that is still mounted.
Show(k, d) == IF tasks[k].live THEN d ELSE details
ShowPanel(k, p) == IF tasks[k].live THEN p ELSE panel

At(k, places) == tasks[k].at \in places

Init ==
    /\ db = [agents |-> [a \in Initially |-> [name |-> a]],
             links |-> [kind \in Panels |-> {}],
             given |-> Initially]
    /\ url \in Initially \cup {None}
    /\ tab = "Agents"
    /\ details = NoDetails
    /\ panel = NoPanel
    /\ tasks = Begin([k \in Slots |-> Idle], DetailsLoad(url, FALSE))
    /\ events = 0 /\ drafts = 0
    /\ failed = FALSE /\ hasty = FALSE

-----------------------------------------------------------------------------
(* Clicks.  A modal covers the page.                                       *)

Uncovered == details.confirm = None /\ panel.confirm = None

Click == Event /\ UNCHANGED <<db, failed>>

ClickOn(t) == Click /\ tab = t /\ UNCHANGED <<tab, drafts>>
\* Whether the user acts while a handler runs.  Saving again while Save runs is no
\* haste of the user: the page is there to prevent it.
Stays == hasty' = (hasty \/ \E k \in Running(tasks) : tasks[k].at # "save")
MovesOn == hasty' = (hasty \/ Running(tasks) # {})

\* Another tab comes, with the agent u in the URL.
Mount(t, u) ==
    /\ LET effect == EffectOf(t, u, FALSE)
           kept == Unmounted(tasks)
       IN  /\ effect # Idle => HasRoom(kept)
           /\ tasks' = IF effect = Idle THEN kept ELSE Begin(kept, effect)
    /\ tab' = t /\ url' = u
    /\ details' = NoDetails /\ panel' = NoPanel

ChangeTab(t) ==
    /\ Click
    /\ Uncovered /\ t # tab
    /\ Mount(t, url)
    /\ MovesOn /\ UNCHANGED drafts

\* The browser goes back or forward to another entry of the page.
Back(u, t) ==
    /\ Event
    /\ \/ t # tab /\ Mount(t, u)
       \/ t = tab /\ u # url /\ Render(details, panel, u, tasks) /\ UNCHANGED tab
    /\ MovesOn /\ UNCHANGED <<db, failed, drafts>>

\* AgentList hides its agents while the tab is loading, but not its button.
Listed == IF details.loading THEN {}
          ELSE details.agents \cup (IF details.temp THEN {details.selected} ELSE {})

SelectAgent(a) ==
    /\ ClickOn("Agents") /\ MovesOn
    /\ Uncovered /\ a \in Listed
    /\ HasRoom(tasks)
    /\ Render([details EXCEPT !.temp = FALSE], panel, url,
              Begin(tasks, Task("show", a, {getAgentById(a)})))

NewAgent ==
    /\ Click /\ tab = "Agents"
    /\ Uncovered /\ ~details.temp
    /\ Render([details EXCEPT !.temp = TRUE, !.selected = Temp, !.form = EmptyForm],
              panel, None, tasks)
    /\ drafts' = drafts + 1
    /\ MovesOn /\ UNCHANGED tab

\* AgentForm is there with an agent selected, and disabled while the tab is loading.
FormOpen == Uncovered /\ ~details.loading /\ (details.selected # None \/ details.temp)

TypeName(n) ==
    /\ ClickOn("Agents") /\ Stays
    /\ FormOpen /\ n # details.form.name
    /\ Render([details EXCEPT !.form.name = n], panel, url, tasks)

\* Mutant: an agent without a name is saved.
SaveUnvalidated ==
    /\ ClickOn("Agents") /\ Stays
    /\ FormOpen /\ HasRoom(tasks)
    /\ LET update == details.selected # None /\ ~details.temp
           request == IF update THEN updateAgent(details.selected, details.form)
                      ELSE createAgent(details.form)
       IN  Render([details EXCEPT !.loading = TRUE], panel, url,
                  Begin(tasks, Task("save", [temp |-> details.temp], {request})))

\* Mutant: Save writes to the agent of the URL.
SaveByUrl ==
    /\ ClickOn("Agents") /\ Stays
    /\ FormOpen /\ details.form.name # Blank
    /\ HasRoom(tasks)
    /\ LET update == url # None /\ ~details.temp
           request == IF update THEN updateAgent(url, details.form)
                      ELSE createAgent(details.form)
       IN  Render([details EXCEPT !.loading = TRUE], panel, url,
                  Begin(tasks, Task("save", [temp |-> details.temp], {request})))

Save ==
    /\ ClickOn("Agents") /\ Stays
    /\ FormOpen /\ details.form.name # Blank
    /\ HasRoom(tasks)
    /\ LET update == details.selected # None /\ ~details.temp
           request == IF update THEN updateAgent(details.selected, details.form)
                      ELSE createAgent(details.form)
       IN  Render([details EXCEPT !.loading = TRUE], panel, url,
                  Begin(tasks, Task("save", [temp |-> details.temp], {request})))

\* Without a name there is only a notification, and the spinner stops again.
SaveNameless ==
    /\ ClickOn("Agents") /\ Stays
    /\ FormOpen /\ details.form.name = Blank
    /\ Render([details EXCEPT !.loading = FALSE], panel, url, tasks)

Delete ==
    /\ ClickOn("Agents") /\ Stays
    /\ FormOpen /\ details.selected # None /\ ~details.temp
    /\ Render([details EXCEPT !.confirm = details.selected], panel, url, tasks)

CancelDelete ==
    /\ ClickOn("Agents") /\ Stays
    /\ details.confirm # None /\ ~details.loading
    /\ Render([details EXCEPT !.confirm = None], panel, url, tasks)

\* The agent that goes is the one selected now; the modal names the one that
\* was when it opened.
ConfirmDelete ==
    /\ ClickOn("Agents") /\ Stays
    /\ details.confirm # None /\ ~details.loading
    /\ details.selected # None /\ HasRoom(tasks)
    /\ Render([details EXCEPT !.loading = TRUE], panel, url,
              Begin(tasks, Task("delete", [id |-> details.selected], {getAgentById(details.selected)})))

-----------------------------------------------------------------------------
(* The handlers of AgentDetailsTab after their awaits.                     *)

FormOf(agent) == [name |-> agent.name]

Shown(d, agent) == [d EXCEPT !.selected = agent.id, !.form = FormOf(agent)]

Stay == UNCHANGED <<db, tab, counters>>

\* Task k ends, and with it the spinner of its tab.
Finish(k, d, u) == Render(Show(k, [d EXCEPT !.loading = FALSE]), panel, u, End(tasks, k))

LoadLists(k) ==
    /\ At(k, {"load"}) /\ Resolved(tasks[k])
    /\ LET d == [details EXCEPT !.agents = Data(tasks[k], getAllAgents)]
           arg == tasks[k].arg
       IN  IF arg.id # None /\ ~arg.temp
           THEN Render(d, panel, url, Goto(tasks, k, "loadAgent", {getAgentById(arg.id)}))
           ELSE Finish(k, d, url)
    /\ Stay

LoadAgent(k) ==
    /\ At(k, {"loadAgent"}) /\ Resolved(tasks[k])
    /\ Finish(k, Shown(details, Data(tasks[k], getAgentById(tasks[k].arg.id))), url)
    /\ Stay

LoadFailed(k) ==
    /\ At(k, {"load", "loadAgent"}) /\ Threw(tasks[k])
    /\ Finish(k, details, url)
    /\ Stay

\* fetchAgentDetails has no spinner of its own.
ShowAgent(k) ==
    /\ At(k, {"show"}) /\ tasks[k].sent = {}
    /\ LET r == getAgentById(tasks[k].arg) IN
       IF Threw(tasks[k]) THEN Render(details, panel, url, End(tasks, k))
       ELSE Render(Show(k, Shown(details, Data(tasks[k], r))), panel, tasks[k].arg, End(tasks, k))
    /\ Stay

SaveWritten(k) ==
    /\ At(k, {"save"}) /\ Resolved(tasks[k])
    /\ \E r \in DOMAIN tasks[k].got :
        LET id == Data(tasks[k], r)
            d == IF tasks[k].arg.temp THEN [details EXCEPT !.temp = FALSE] ELSE details
        IN  Render(Show(k, d), panel, url, Goto(tasks, k, "refresh", {getAllAgents, getAgentById(id)}))
    /\ Stay

\* The details of the saved agent arrive, maybe before the list.
SaveShown(k) ==
    /\ At(k, {"refresh"})
    /\ \E r \in DOMAIN tasks[k].got \ {getAllAgents} :
        LET rest == [tasks EXCEPT ![k].got = [q \in DOMAIN @ \ {r} |-> @[q]]] IN
        IF tasks[k].got[r].ok
        THEN Render(Show(k, Shown(details, Data(tasks[k], r))), panel, r[2], rest)
        ELSE Render(details, panel, url, rest)
    /\ Stay

SaveListed(k) ==
    /\ At(k, {"refresh"}) /\ tasks[k].sent = {} /\ DOMAIN tasks[k].got = {getAllAgents}
    /\ IF Threw(tasks[k]) THEN Finish(k, details, url)
       ELSE Finish(k, [details EXCEPT !.agents = Data(tasks[k], getAllAgents)], url)
    /\ Stay

SaveFailed(k) ==
    /\ At(k, {"save"}) /\ Threw(tasks[k])
    /\ Finish(k, details, url)
    /\ Stay

\* deleteAgent removes the plugins and then the topics one by one, and then the agent.
NextOfDelete(id, plugins, topics) ==
    IF plugins # {} THEN {removePluginFromAgent(id, p) : p \in plugins}
    ELSE IF topics # {} THEN {removeTopicFromAgent(id, t) : t \in topics}
    ELSE {dropAgent(id)}

DeleteProceeds(k) ==
    /\ At(k, {"delete", "unlink"}) /\ Resolved(tasks[k])
    /\ \E done \in DOMAIN tasks[k].got :
        LET id == tasks[k].arg.id
            left == IF done[1] = "getAgentById"
                    THEN [plugins |-> Data(tasks[k], done).plugins, topics |-> Data(tasks[k], done).topics]
                    ELSE [tasks[k].arg.left EXCEPT ![done[2]] = @ \ {done[4]}]
        IN  \E r \in NextOfDelete(id, left.plugins, left.topics) :
              Render(details, panel, url,
                     [Goto(tasks, k, IF r[1] = "remove" THEN "unlink" ELSE "drop", {r}) EXCEPT
                         ![k].arg = With(tasks[k].arg, "left", left)])
    /\ Stay

DeleteDropped(k) ==
    /\ At(k, {"drop"}) /\ Resolved(tasks[k])
    /\ Render(Show(k, [details EXCEPT !.selected = None, !.form = EmptyForm, !.loading = TRUE]),
              panel, None, Goto(tasks, k, "relist", {getAllAgents}))
    /\ Stay

DeleteRelisted(k) ==
    /\ At(k, {"relist"}) /\ tasks[k].sent = {}
    /\ LET d == IF Threw(tasks[k]) THEN details
                ELSE [details EXCEPT !.agents = Data(tasks[k], getAllAgents)]
       IN  Finish(k, [d EXCEPT !.confirm = None], url)
    /\ Stay

DeleteFailed(k) ==
    /\ At(k, {"delete", "unlink", "drop"}) /\ Threw(tasks[k])
    /\ Finish(k, [details EXCEPT !.confirm = None], url)
    /\ Stay

-----------------------------------------------------------------------------
(* The tabs of plugins and of topics.                                      *)

SelectInPanel(a) ==
    /\ tab \in Panels /\ ClickOn(tab) /\ MovesOn
    /\ Uncovered /\ ~panel.loading
    /\ a \in panel.agents \ {url}
    /\ Render(details, panel, a, tasks)

\* The button of the list leads to the Agents tab, without an agent.
CreateInPanel ==
    /\ tab \in Panels /\ Uncovered
    /\ Click /\ MovesOn
    /\ Mount("Agents", None)
    /\ UNCHANGED drafts

\* The cards are there with an agent in the URL, no spinner and no form.
PluginCards == Uncovered /\ url # None /\ ~panel.loading
TopicCards == Uncovered /\ url # None /\ ~panel.loading /\ ~panel.form

Toggle(kind, i) ==
    /\ ClickOn(kind) /\ Stays
    /\ IF i \in panel.assigned
       THEN Render(details, [panel EXCEPT !.confirm = i], url, tasks)
       ELSE /\ i \in panel.available /\ HasRoom(tasks)
            /\ Render(details, [panel EXCEPT !.loading = TRUE], url,
                      Begin(tasks, Task("add", [kind |-> kind, id |-> url], {addItem(kind, url, i)})))

CancelRemove(kind) ==
    /\ ClickOn(kind) /\ Stays
    /\ panel.confirm # None /\ ~panel.loading
    /\ Render(details, [panel EXCEPT !.confirm = None], url, tasks)

\* Without an agent in the URL the handler returns at once.
ConfirmRemove(kind) ==
    /\ ClickOn(kind) /\ Stays
    /\ panel.confirm # None /\ ~panel.loading
    /\ url # None /\ HasRoom(tasks)
    /\ Render(details, [panel EXCEPT !.loading = TRUE], url,
              Begin(tasks, Task("remove", [kind |-> kind, id |-> url],
                                {removeItem(kind, url, panel.confirm)})))

handleTogglePlugin(p) == PluginCards /\ Toggle("plugins", p)
handleToggleTopic(t) == TopicCards /\ Toggle("topics", t)
handleRemovePlugin == ConfirmRemove("plugins")
handleRemoveTopic == ConfirmRemove("topics")
closePluginConfirmation == CancelRemove("plugins")
closeTopicConfirmation == CancelRemove("topics")

OpenTopicForm ==
    /\ ClickOn("topics") /\ Stays
    /\ Uncovered /\ ~panel.form
    /\ Render(details, [panel EXCEPT !.form = TRUE], url, tasks)

CancelTopicForm ==
    /\ ClickOn("topics") /\ Stays
    /\ Uncovered /\ panel.form /\ ~panel.submitting
    /\ Render(details, [panel EXCEPT !.form = FALSE], url, tasks)

\* The topic is not sent: the form closes and the lists are fetched again.
SaveTopic ==
    /\ ClickOn("topics") /\ MovesOn
    /\ Uncovered /\ panel.form /\ ~panel.submitting
    /\ HasRoom(tasks)
    /\ Render(details, [panel EXCEPT !.form = FALSE, !.submitting = TRUE], url,
              Begin(tasks, Task("topicSaved", [kind |-> "topics", id |-> url], {getAvailableTopics})))

-----------------------------------------------------------------------------
(* Their handlers after the awaits.                                        *)

Kind(k, kind) == tasks[k].arg.kind = kind

PanelLoaded(k) ==
    /\ At(k, {"panelLoad"}) /\ Resolved(tasks[k])
    /\ LET arg == tasks[k].arg IN
       Render(details, [panel EXCEPT !.agents = Data(tasks[k], getAllAgents),
                                     !.agent = arg.id,
                                     !.assigned = Data(tasks[k], assignedItems(arg.kind, arg.id)),
                                     !.available = Items,
                                     !.loading = FALSE],
              url, End(tasks, k))
    /\ Stay

PanelListed(k) ==
    /\ At(k, {"panelList"}) /\ Resolved(tasks[k])
    /\ Render(details, [panel EXCEPT !.agents = Data(tasks[k], getAllAgents), !.loading = FALSE],
              url, End(tasks, k))
    /\ Stay

\* What was shown before stays.
PanelLoadFailed(k) ==
    /\ At(k, {"panelLoad", "panelList"}) /\ Threw(tasks[k])
    /\ Render(details, [panel EXCEPT !.loading = FALSE], url, End(tasks, k))
    /\ Stay

PluginsLoaded(k) == PanelLoaded(k) /\ Kind(k, "plugins")
TopicsLoaded(k) == PanelLoaded(k) /\ Kind(k, "topics")

\* An added item leaves the modal alone, a removed one closes it.
Done(k, p) == [p EXCEPT !.loading = FALSE, !.confirm = IF tasks[k].arg.adds THEN @ ELSE None]

LinkWritten(k) ==
    /\ At(k, {"add", "remove"}) /\ Resolved(tasks[k])
    /\ LET arg == tasks[k].arg
           refetch == Goto(tasks, k, "refetch", {assignedItems(arg.kind, arg.id)})
       IN  Render(details, panel, url,
                  [refetch EXCEPT ![k].arg = With(arg, "adds", At(k, {"add"}))])
    /\ Stay

LinkFailed(k) ==
    /\ At(k, {"add", "remove"}) /\ Threw(tasks[k])
    /\ LET p == [panel EXCEPT !.loading = FALSE,
                              !.confirm = IF At(k, {"add"}) THEN @ ELSE None]
       IN  Render(details, ShowPanel(k, p), url, End(tasks, k))
    /\ Stay

\* The items of the agent the handler began with.
Refetched(k) ==
    /\ At(k, {"refetch"}) /\ tasks[k].sent = {}
    /\ LET r == assignedItems(tasks[k].arg.kind, tasks[k].arg.id)
           p == IF Threw(tasks[k]) THEN panel ELSE [panel EXCEPT !.assigned = Data(tasks[k], r)]
       IN  Render(details, ShowPanel(k, Done(k, p)), url, End(tasks, k))
    /\ Stay

PluginWritten(k) == LinkWritten(k) /\ Kind(k, "plugins")
TopicWritten(k) == LinkWritten(k) /\ Kind(k, "topics")
PluginWriteFailed(k) == LinkFailed(k) /\ Kind(k, "plugins")
TopicWriteFailed(k) == LinkFailed(k) /\ Kind(k, "topics")
fetchAssignedPlugins(k) == Refetched(k) /\ Kind(k, "plugins")
fetchAssignedTopics(k) == Refetched(k) /\ Kind(k, "topics")

fetchAvailableTopics(k) ==
    /\ At(k, {"topicSaved"}) /\ tasks[k].sent = {}
    /\ LET p == IF Threw(tasks[k]) THEN panel
                ELSE [panel EXCEPT !.available = Data(tasks[k], getAvailableTopics)]
           id == tasks[k].arg.id
       IN  IF id # None
           THEN Render(details, p, url, Goto(tasks, k, "topicListed", {getAgentTopics(id)}))
           ELSE Render(details, [p EXCEPT !.submitting = FALSE], url, End(tasks, k))
    /\ Stay

TopicListed(k) ==
    /\ At(k, {"topicListed"}) /\ tasks[k].sent = {}
    /\ LET r == getAgentTopics(tasks[k].arg.id)
           p == IF Threw(tasks[k]) THEN panel ELSE [panel EXCEPT !.assigned = Data(tasks[k], r)]
       IN  Render(details, [p EXCEPT !.submitting = FALSE], url, End(tasks, k))
    /\ Stay

\* The Credentials tab fetches the agent's name and does nothing with it.
CredentialsLoaded(k) ==
    /\ At(k, {"credentials"}) /\ tasks[k].sent = {}
    /\ Render(details, panel, url, End(tasks, k))
    /\ Stay

-----------------------------------------------------------------------------
(* The next-state relation.                                                *)

ClickStep ==
    \/ \E t \in Tabs : ChangeTab(t)
    \/ \E a \in Agents \cup {Temp} : SelectAgent(a) \/ SelectInPanel(a)
    \/ NewAgent \/ CreateInPanel
    \/ TypeName(Typed)
    \/ Save \/ SaveNameless
    \/ Delete \/ CancelDelete \/ ConfirmDelete
    \/ \E i \in Items : handleTogglePlugin(i) \/ handleToggleTopic(i)
    \/ closePluginConfirmation \/ closeTopicConfirmation
    \/ handleRemovePlugin \/ handleRemoveTopic
    \/ OpenTopicForm \/ CancelTopicForm \/ SaveTopic

HandlerStep(k) ==
    \/ LoadLists(k) \/ LoadAgent(k) \/ LoadFailed(k) \/ ShowAgent(k)
    \/ SaveWritten(k) \/ SaveShown(k) \/ SaveListed(k) \/ SaveFailed(k)
    \/ DeleteProceeds(k) \/ DeleteDropped(k) \/ DeleteRelisted(k) \/ DeleteFailed(k)
    \/ PluginsLoaded(k) \/ TopicsLoaded(k) \/ PanelListed(k) \/ PanelLoadFailed(k)
    \/ PluginWritten(k) \/ PluginWriteFailed(k) \/ fetchAssignedPlugins(k)
    \/ TopicWritten(k) \/ TopicWriteFailed(k) \/ fetchAssignedTopics(k)
    \/ fetchAvailableTopics(k) \/ TopicListed(k)
    \/ CredentialsLoaded(k)

Served(k) == \E r \in tasks[k].sent : Serve(k, r)

Next ==
    \/ ClickStep
    \/ \E u \in db.given \cup {None}, t \in Tabs : Back(u, t)
    \/ \E k \in Slots : Served(k) \/ HandlerStep(k)
    \/ \E k \in Slots : \E r \in tasks[k].sent : Fail(k, r)

Spec == Init /\ [][Next]_vars

-----------------------------------------------------------------------------
(* Properties.                                                             *)

Ids == Agents \cup {None, Temp}
Forms == [name : Agents \cup {Blank, Typed}]
Quiet == Running(tasks) = {}

\* Every variable keeps its type: what the tabs show are ids of records the
\* services returned, and no agent is saved without a name.
TypeOK ==
    /\ Existing \subseteq db.given /\ db.given \subseteq Agents
    /\ \A a \in Existing : db.agents[a] \in Forms /\ db.agents[a].name # Blank
    /\ \A kind \in Panels : db.links[kind] \subseteq Existing \X Items
    /\ url \in Agents \cup {None} /\ tab \in Tabs
    /\ details.agents \subseteq Agents /\ details.selected \in Ids /\ details.form \in Forms
    /\ details.confirm \in Agents \cup {None, Temp}
    /\ panel.assigned \subseteq Items /\ panel.available \subseteq Items
    /\ \A k \in Slots : ~(tasks[k].at = "idle" /\ tasks[k].sent # {})

\* However late answers of fetchAgentDetails, of the first load and of a refresh
\* after saving cross each other and the user's typing, no update gives an agent that was
\* there at first the name of another: the form and the selected agent change together.
\* Nothing is said of agents created meanwhile, and could not be: with a new agent begun
\* (handleNewAgent), the late details of the agent clicked before still fill the form,
\* and Save creates an agent with that name.
NamesApart ==
    \A a \in Initially \cap Existing : db.agents[a].name \in {a, Typed}

\* A user who waits for answers before moving on gets one agent for each new
\* agent begun, however often Save is clicked: the spinner blocks the form.
CreatedOnce ==
    (~hasty /\ ~failed) => Cardinality(db.given \ Initially) <= drafts

\* When nothing runs any more, the list of the Agents tab is the server's and the
\* selected agent exists, unless a request failed or the user did not wait.
ListIsTrue ==
    (Quiet /\ ~hasty /\ ~failed /\ tab = "Agents") =>
        details.agents = Existing /\ details.selected \in Existing \cup {None, Temp}

\* So with the plugins or topics shown for an agent: they are those of the agent in
\* the URL, also after back and forward through the history.
PanelIsTrue ==
    (Quiet /\ ~hasty /\ ~failed /\ tab \in Panels /\ url \in Existing) =>
        panel.agent = url /\ panel.assigned = ItemsOf(tab, url)

\* No handler ends without its spinner, with failures too and whatever
\* handlers overlap: the page is never left blocked.
SpinnerEnds ==
    Quiet => ~(tab = "Agents" /\ details.loading) /\ ~(tab \in Panels /\ panel.loading)
                /\ ~panel.submitting

\* What the screen shows when nothing runs any more is what the server holds, and the
\* spinner is gone: the list, the selection and the items of the agent in the URL.
ShownIsTrue == ListIsTrue /\ PanelIsTrue /\ SpinnerEnds

\* A patient user gets one agent for each one begun, and an update never gives an agent
\* that was there at first the name of another.
SavesAreMeant == CreatedOnce /\ NamesApart

=============================================================================
