----------------------------- MODULE TopicPage ------------------------------
(***************************************************************************)
(* The Topics page of the management UI: the tab that lists, creates,      *)
(* edits and deletes topics, and the tab that says which agents have one.  *)
(* Selecting a topic is done at once and put into the URL as well, and     *)
(* every change of the id in the URL fetches the list again, which selects *)
(* the topic that was in the URL when the fetch began.                     *)
(***************************************************************************)
EXTENDS Requests

CONSTANTS
    Topics,         \* ids topics can have
    Initially,      \* the topics there are at first
    Agents,         \* agents of the owner
    None,           \* null, undefined or absent
    Blank,          \* an empty form
    Typed,          \* what the user types into a form
    MaxEvents       \* bound: clicks, steps in the browser's history and
                    \*   failures of requests, all together

ASSUME TopicsAssumption ==
    /\ Initially \subseteq Topics
    /\ None \notin Topics \cup [id : Topics, text : Topics \cup {Typed}]

VARIABLES
    db,         \* the server: topics with their texts, who has them, ids ever given
    url,        \* the search parameters id and tab
    tab,        \* activeTab
    details,    \* state of TopicDetails
    agents,     \* state of TopicAgentsTab
    tasks,
    events,
    failed,     \* a request has failed, or was refused
    hasty       \* the user has acted while a handler was running

vars == <<db, url, tab, details, agents, tasks, events, failed, hasty>>
counters == <<events, failed, hasty>>

Existing == DOMAIN db.topics
AgentsOf(t) == {a \in Agents : <<a, t>> \in db.links}

-----------------------------------------------------------------------------
(* The services, and what the server does with their requests.  The agents  *)
(* there are to choose from, and the heading, do not change: their requests *)
(* are not modelled.                                                       *)

getAllTopics == <<"getAllTopics">>
createTopic(text) == <<"createTopic", text>>
updateTopic(t, text) == <<"updateTopic", t, text>>
deleteTopic(t) == <<"deleteTopic", t>>
getTopicAgents(t) == <<"getTopicAgents", t>>
addTopicToAgent(a, t) == <<"addTopicToAgent", t, a>>
removeTopicFromAgent(a, t) == <<"removeTopicFromAgent", t, a>>

\* Whether the server accepts a request: the topic exists, a link is new to be
\* added and there to be removed, and foreign keys keep a topic some agent has.
Accepts(r) ==
    CASE r[1] \in {"getAllTopics", "createTopic"} -> TRUE
      [] r[1] = "deleteTopic" -> r[2] \in Existing /\ AgentsOf(r[2]) = {}
      [] r[1] = "addTopicToAgent" -> r[2] \in Existing /\ r[3] \notin AgentsOf(r[2])
      [] r[1] = "removeTopicFromAgent" -> r[3] \in AgentsOf(r[2])
      [] OTHER -> r[2] \in Existing

NewId == CHOOSE t \in Topics : t \notin db.given

\* The records after a request that was accepted.
Effect(r) ==
    CASE r[1] = "createTopic" ->
            [db EXCEPT !.topics = With(@, NewId, r[2]), !.given = @ \cup {NewId}]
      [] r[1] = "updateTopic" -> [db EXCEPT !.topics[r[2]] = r[3]]
      [] r[1] = "deleteTopic" -> [db EXCEPT !.topics = [t \in Existing \ {r[2]} |-> @[t]]]
      [] r[1] = "addTopicToAgent" -> [db EXCEPT !.links = @ \cup {<<r[3], r[2]>>}]
      [] r[1] = "removeTopicFromAgent" -> [db EXCEPT !.links = @ \ {<<r[3], r[2]>>}]
      [] OTHER -> db

Returns(r) ==
    CASE r[1] = "getAllTopics" -> db.topics
      [] r[1] = "createTopic" -> [id |-> NewId, text |-> r[2]]
      [] r[1] = "getTopicAgents" -> AgentsOf(r[2])
      [] OTHER -> None

Serve(k, r) ==
    /\ r \in tasks[k].sent
    /\ r[1] = "createTopic" => db.given # Topics
    /\ IF Accepts(r)
       THEN db' = Effect(r) /\ tasks' = Receive(tasks, k, r, Ok(Returns(r))) /\ UNCHANGED failed
       ELSE db' = db /\ tasks' = Receive(tasks, k, r, Failure) /\ failed' = TRUE
    /\ UNCHANGED <<url, tab, details, agents, events, hasty>>

Event == events < MaxEvents /\ events' = events + 1

\* The request does not reach the server, or its answer is lost.
Fail(k, r) ==
    /\ r \in tasks[k].sent
    /\ r[1] = "createTopic" => db.given # Topics
    /\ Event
    /\ failed' = TRUE
    /\ db' \in {db} \cup (IF Accepts(r) THEN {Effect(r)} ELSE {})
    /\ tasks' = Receive(tasks, k, r, Failure)
    /\ UNCHANGED <<url, tab, details, agents, hasty>>

-----------------------------------------------------------------------------
(* Rendering.                                                              *)

NoDetails == [topics |-> <<>>, selected |-> None, loading |-> TRUE, form |-> None,
              confirm |-> FALSE, toDelete |-> None]

NoAgents == [assigned |-> {}, loading |-> TRUE]

\* fetchTopics: what a handler does after it is named by "then".
FetchTopics(id, then) == Task("fetch", [id |-> id, then |-> then], {getAllTopics})

FetchAgents(id) == Task("agents", [id |-> id], IF id = None THEN {} ELSE {getTopicAgents(id)})

EffectOf(t, id) == IF t = "details" THEN FetchTopics(id, "nothing") ELSE FetchAgents(id)

\* The tasks that go on after their tab is gone: fetches for the screen do not matter.
Unmounted(ts) ==
    [k \in Slots |-> IF ts[k].at \in {"agents", "refetch"} \/ (ts[k].at = "fetch" /\ ts[k].arg.then # "delete")
                     THEN Idle ELSE [ts[k] EXCEPT !.live = FALSE]]

\* New state d and a of the tabs, search parameters u and tasks ts. The page follows
\* the parameter tab where there is one; a tab that comes or whose id changes fetches.
Render(d, a, u, ts) ==
    LET moved == u.tab \notin {None, tab}
        t == IF moved THEN u.tab ELSE tab
        reload == moved \/ u.id # url.id
        kept == IF moved THEN Unmounted(ts) ELSE ts
    IN  /\ reload => HasRoom(kept)
        /\ url' = u
        /\ tab' = t
        /\ tasks' = IF reload THEN Begin(kept, EffectOf(t, u.id)) ELSE ts
        /\ details' = [(IF moved THEN NoDetails ELSE d) EXCEPT !.loading = @ \/ (reload /\ t = "details")]
        /\ agents' = [(IF moved THEN NoAgents ELSE a) EXCEPT !.loading = @ \/ (reload /\ t = "agents")]

\* What task k does to the state of its tab, if that is still mounted.
Show(k, d) == IF tasks[k].live THEN d ELSE details

At(k, places) == tasks[k].at \in places

Init ==
    /\ db = [topics |-> [t \in Initially |-> t], links |-> {}, given |-> Initially]
    /\ url \in [id : Initially \cup {None}, tab : {None, "agents"}]
    /\ tab = IF url.tab = None THEN "details" ELSE "agents"
    /\ details = NoDetails
    /\ agents = NoAgents
    /\ tasks = Begin([k \in Slots |-> Idle], EffectOf(tab, url.id))
    /\ events = 0
    /\ failed = FALSE /\ hasty = FALSE

-----------------------------------------------------------------------------
(* Clicks.  A modal covers the page.                                       *)

Busy == Running(tasks) # {}
ClickOn(t) == Event /\ tab = t /\ hasty' = (hasty \/ Busy) /\ UNCHANGED <<db, failed>>
Uncovered == ~details.confirm

handleTabChange(t) ==
    /\ Event /\ hasty' = (hasty \/ Busy)
    /\ Uncovered /\ t # tab
    /\ Render(details, agents, [url EXCEPT !.tab = t], tasks)
    /\ UNCHANGED <<db, failed>>

\* The browser goes back or forward to another entry of the page.
Back(u) ==
    /\ Event /\ hasty' = (hasty \/ Busy)
    /\ u # url
    /\ Render(details, agents, u, tasks)
    /\ UNCHANGED <<db, failed>>

Listed == IF details.loading THEN {} ELSE DOMAIN details.topics

\* The URL loses its tab, and the form stays as it is.
handleSelectTopic(t) ==
    /\ ClickOn("details")
    /\ Uncovered /\ t \in Listed
    /\ Render([details EXCEPT !.selected = [id |-> t, text |-> details.topics[t]]],
              agents, [id |-> t, tab |-> None], tasks)

\* The button is there while topics load, and over an open form too: that stays
\* mounted, with what it holds.
handleAddTopic ==
    /\ ClickOn("details")
    /\ Uncovered
    /\ Render([details EXCEPT !.selected = None,
                              !.form = IF @ = None THEN [text |-> Blank] ELSE @],
              agents, [id |-> None, tab |-> None], tasks)

handleEditTopic ==
    /\ ClickOn("details")
    /\ Uncovered /\ details.form = None /\ details.selected # None
    /\ Render([details EXCEPT !.form = [text |-> details.selected.text]],
              agents, url, tasks)

\* TopicForm is disabled while topics load.
FormOpen == Uncovered /\ details.form # None /\ ~details.loading

TypeText ==
    /\ ClickOn("details")
    /\ FormOpen /\ details.form.text # Typed
    /\ Render([details EXCEPT !.form.text = Typed], agents, url, tasks)

CancelForm ==
    /\ ClickOn("details")
    /\ FormOpen
    /\ Render([details EXCEPT !.form = None], agents, url, tasks)

\* Mutant: a topic without a text is saved.
SaveUnvalidated ==
    /\ ClickOn("details")
    /\ FormOpen /\ HasRoom(tasks)
    /\ LET update == details.selected # None
           request == IF update THEN updateTopic(details.selected.id, details.form.text)
                      ELSE createTopic(details.form.text)
       IN  Render(details, agents, url, Begin(tasks, Task("save", [id |-> url.id], {request})))

\* Nothing is disabled until the request is answered: Save can be clicked again.
handleSaveTopic ==
    /\ ClickOn("details")
    /\ FormOpen /\ details.form.text # Blank
    /\ HasRoom(tasks)
    /\ LET update == details.selected # None
           request == IF update THEN updateTopic(details.selected.id, details.form.text)
                      ELSE createTopic(details.form.text)
       IN  Render(details, agents, url, Begin(tasks, Task("save", [id |-> url.id], {request})))

handleDeleteClick ==
    /\ ClickOn("details")
    /\ Uncovered /\ details.form = None /\ details.selected # None
    /\ Render([details EXCEPT !.toDelete = details.selected.id, !.confirm = TRUE], agents, url, tasks)

CancelDelete ==
    /\ ClickOn("details")
    /\ details.confirm
    /\ Render([details EXCEPT !.confirm = FALSE], agents, url, tasks)

\* The modal is not disabled while the handler runs.
handleDeleteTopic ==
    /\ ClickOn("details")
    /\ details.confirm /\ details.toDelete # None
    /\ HasRoom(tasks)
    /\ Render(details, agents, url,
              Begin(tasks, Task("delete", [id |-> url.id], {deleteTopic(details.toDelete)})))

\* The cards are there with a topic in the URL and no spinner.
handleToggleAgent(a) ==
    /\ ClickOn("agents")
    /\ url.id # None /\ ~agents.loading
    /\ HasRoom(tasks)
    /\ LET request == IF a \in agents.assigned THEN removeTopicFromAgent(a, url.id)
                      ELSE addTopicToAgent(a, url.id)
       IN  Render(details, [agents EXCEPT !.loading = TRUE], url,
                  Begin(tasks, Task("toggle", [id |-> url.id], {request})))

-----------------------------------------------------------------------------
(* The handlers after their awaits.                                        *)

Stay == UNCHANGED <<db, counters>>

Found(topics, id) == [id |-> id, text |-> topics[id]]

\* Mutant: the spinner is not taken back.
FetchedKeepsSpinning(k) ==
    /\ At(k, {"fetch"}) /\ tasks[k].sent = {} /\ tasks[k].arg.then # "delete"
    /\ LET topics == Data(tasks[k], getAllTopics)
           d == IF Threw(tasks[k]) THEN details
                ELSE [details EXCEPT !.topics = topics, !.loading = FALSE,
                                     !.selected = IF tasks[k].arg.id \in DOMAIN topics
                                                  THEN Found(topics, tasks[k].arg.id) ELSE @]
       IN  Render(Show(k, d), agents, url, End(tasks, k))
    /\ Stay

\* The rest of fetchTopics, with the id of the render that made it; an error ends there.
Fetched(k) ==
    LET topics == Data(tasks[k], getAllTopics)
        d == [details EXCEPT !.loading = FALSE]
    IN  IF Threw(tasks[k]) THEN d
        ELSE [d EXCEPT !.topics = topics,
                       !.selected = IF tasks[k].arg.id \in DOMAIN topics
                                    THEN Found(topics, tasks[k].arg.id) ELSE @]

fetchTopics(k) ==
    /\ At(k, {"fetch"}) /\ tasks[k].sent = {} /\ tasks[k].arg.then # "delete"
    /\ Render(Show(k, Fetched(k)), agents, url, End(tasks, k))
    /\ Stay

\* After a deletion the selection and the URL are emptied, wherever they are by now.
Deleted(k) ==
    /\ At(k, {"fetch"}) /\ tasks[k].sent = {} /\ tasks[k].arg.then = "delete"
    /\ Render(Show(k, [Fetched(k) EXCEPT !.confirm = FALSE, !.toDelete = None, !.selected = None]),
              agents, [id |-> None, tab |-> None], End(tasks, k))
    /\ Stay

\* handleDeleteTopic goes on to fetchTopics; when the request failed the modal stays.
DeleteAnswered(k) ==
    /\ At(k, {"delete"}) /\ tasks[k].sent = {}
    /\ IF Threw(tasks[k]) THEN Render(details, agents, url, End(tasks, k))
       ELSE Render(Show(k, [details EXCEPT !.loading = TRUE]), agents, url,
                   [tasks EXCEPT ![k] = [FetchTopics(@.arg.id, "delete") EXCEPT !.live = tasks[k].live]])
    /\ Stay

\* A new topic is selected and put into the URL. The list is fetched by the id the
\* URL had when Save was clicked. When the request failed the form stays.
SaveAnswered(k) ==
    /\ At(k, {"save"}) /\ tasks[k].sent = {}
    /\ IF Threw(tasks[k]) THEN Render(details, agents, url, End(tasks, k))
       ELSE \E r \in DOMAIN tasks[k].got :
              LET new == Data(tasks[k], r)
                  d == [details EXCEPT !.form = None, !.loading = TRUE,
                                       !.selected = IF r[1] = "createTopic" THEN new ELSE @]
                  u == IF r[1] = "createTopic" THEN [id |-> new.id, tab |-> None] ELSE url
              IN  Render(Show(k, d), agents, u,
                         IF tasks[k].live
                         THEN [tasks EXCEPT ![k] = FetchTopics(@.arg.id, "nothing")]
                         ELSE End(tasks, k))
    /\ Stay

\* fetchAssignedAgents swallows its error: the agents of before stay.
WithAssigned(k) ==
    IF tasks[k].arg.id = None \/ Threw(tasks[k]) THEN agents
    ELSE [agents EXCEPT !.assigned = Data(tasks[k], getTopicAgents(tasks[k].arg.id))]

fetchData(k) ==
    /\ At(k, {"agents"}) /\ tasks[k].sent = {}
    /\ Render(details, [WithAssigned(k) EXCEPT !.loading = FALSE], url, End(tasks, k))
    /\ Stay

\* Mutant: the cards are not fetched again after a toggle.
ToggleUnrefreshed(k) ==
    /\ At(k, {"toggle"}) /\ tasks[k].sent = {}
    /\ Render(details, IF tasks[k].live THEN [agents EXCEPT !.loading = FALSE] ELSE agents,
              url, End(tasks, k))
    /\ Stay

\* The agents of the topic the toggle began with are fetched again, after a
\* success only.
ToggleAnswered(k) ==
    /\ At(k, {"toggle"}) /\ tasks[k].sent = {}
    /\ IF Threw(tasks[k]) \/ ~tasks[k].live
       THEN Render(details, IF tasks[k].live THEN [agents EXCEPT !.loading = FALSE] ELSE agents,
                   url, End(tasks, k))
       ELSE Render(details, agents, url, Goto(tasks, k, "refetch", {getTopicAgents(tasks[k].arg.id)}))
    /\ Stay

fetchAssignedAgents(k) ==
    /\ At(k, {"refetch"}) /\ tasks[k].sent = {}
    /\ Render(details, [WithAssigned(k) EXCEPT !.loading = FALSE], url, End(tasks, k))
    /\ Stay

-----------------------------------------------------------------------------
(* The next-state relation.                                                *)

ClickStep ==
    \/ \E t \in {"details", "agents"} : handleTabChange(t)
    \/ \E t \in Topics : handleSelectTopic(t)
    \/ handleAddTopic \/ handleEditTopic \/ TypeText \/ CancelForm \/ handleSaveTopic
    \/ handleDeleteClick \/ CancelDelete \/ handleDeleteTopic
    \/ \E a \in Agents : handleToggleAgent(a)

Served(k) == \E r \in tasks[k].sent : Serve(k, r)

HandlerStep(k) ==
    \/ fetchTopics(k) \/ Deleted(k) \/ DeleteAnswered(k) \/ SaveAnswered(k)
    \/ fetchData(k) \/ ToggleAnswered(k) \/ fetchAssignedAgents(k)

Next ==
    \/ ClickStep
    \/ \E u \in [id : db.given \cup {None}, tab : {None, "details", "agents"}] : Back(u)
    \/ \E k \in Slots : Served(k) \/ HandlerStep(k)
    \/ \E k \in Slots : \E r \in tasks[k].sent : Fail(k, r)

\* Requests are answered in the end, if only with a failure, and handlers go on.
Fairness == \A k \in Slots : WF_vars(Served(k)) /\ WF_vars(HandlerStep(k))

Spec == Init /\ [][Next]_vars /\ Fairness

-----------------------------------------------------------------------------
(* Properties.                                                             *)

Texts == Topics \cup {Typed}
Quiet == ~Busy

\* The user waited for every handler, and no request failed.
Undisturbed == Quiet /\ ~hasty /\ ~failed

\* Every variable keeps its type: no topic is saved without a text, and what the
\* tabs show are topics and agents the services returned.
TypeOK ==
    /\ Existing \subseteq db.given /\ db.given \subseteq Topics
    /\ \A t \in Existing : db.topics[t] \in Texts
    /\ db.links \subseteq Agents \X Existing
    /\ url.id \in Topics \cup {None} /\ tab \in {"details", "agents"}
    /\ DOMAIN details.topics \subseteq Topics
    /\ details.selected = None \/ details.selected \in [id : Topics, text : Texts]
    /\ details.form = None \/ details.form \in [text : Texts \cup {Blank}]
    /\ agents.assigned \subseteq Agents

\* The selection that a click makes at once, the one that a fetch for the URL makes
\* later and those after saving and deleting agree in the end: the list is the
\* server's, and a topic in the URL is the one shown, with its present text.
SelectedIsTrue ==
    (Undisturbed /\ tab = "details") =>
        /\ details.topics = db.topics
        /\ url.id \in Existing => details.selected = Found(db.topics, url.id)

\* A topic that was deleted is not shown any longer, even by the fetch that
\* handleDeleteTopic awaits with the id of that topic.
NothingDeletedShown ==
    (Undisturbed /\ tab = "details") => details.selected = None \/ details.selected.id \in Existing

\* The other tab shows the agents of the topic in the URL, after any changes of the
\* agents and after back and forward through the history.
AgentsTabIsTrue ==
    (Undisturbed /\ tab = "agents" /\ url.id \in Existing) =>
        agents.assigned = AgentsOf(url.id)

\* However handlers overlap and fail, the spinner over the list and over the cards
\* gives way in the end.
ListReturns == [](details.loading /\ tab = "details" => <>(~details.loading \/ tab # "details"))
CardsReturn == [](agents.loading /\ tab = "agents" => <>(~agents.loading \/ tab # "agents"))

\* What the screen shows when nothing runs any more is what the server holds: the list,
\* the topic in the URL and its agents, and nothing that was deleted.
ShownIsTrue == SelectedIsTrue /\ NothingDeletedShown /\ AgentsTabIsTrue

\* Neither spinner of the page blocks it for ever.
SpinnersEnd == ListReturns /\ CardsReturn

=============================================================================
