----------------------------- MODULE PluginPage -----------------------------
(***************************************************************************)
(* The Plugins page of the management UI: the list of plugins at its side, *)
(* the tab with the details of the selected plugin and the tab with its    *)
(* functions.  The page owns the list and the selection, the tab of        *)
(* details the form: a handler of the tab goes on after the tab is gone,   *)
(* and then still selects, refreshes and moves the page.                   *)
(***************************************************************************)
EXTENDS Requests

CONSTANTS
    Plugins,        \* ids plugins can have
    Initially,      \* the plugins there are at first
    Functions,      \* ids functions can have
    None,           \* null, undefined, the empty string or absent
    Blank,          \* an empty form
    Typed,          \* what the user types into a form
    MaxEvents       \* bound: clicks, steps in the browser's history and
                    \*   failures of requests, all together

ASSUME PluginsAssumption ==
    /\ Initially \subseteq Plugins /\ Initially # {} /\ IsFiniteSet(Initially) /\ Functions # {}
    /\ None \notin Plugins \cup Functions \cup {Blank, Typed}
    /\ None \notin [id : Plugins, text : Plugins \cup {Typed}]
    /\ MaxTasks >= 2       \* the fetches the page begins with

VARIABLES
    db,         \* the server: plugins with their texts, functions with the plugin they
                \*   are in, ids ever given
    url,        \* the search parameters id and tab
    ui,         \* state of the page and of its tabs
    tasks,
    events,
    failed,     \* a request has failed, or was refused
    hasty,      \* the user has gone elsewhere while a handler was running, or has
                \*   clicked in a tab while the list was being fetched
    forms       \* forms opened for something new

vars == <<db, url, ui, tasks, events, failed, hasty, forms>>

Existing == DOMAIN db.plugins
FunctionsOf(p) == {f \in DOMAIN db.functions : db.functions[f] = p}

-----------------------------------------------------------------------------
(* The services, and what the server does with their requests.  The name   *)
(* in the heading of the functions is not modelled.                        *)

getAllPlugins == <<"getAllPlugins">>
createPlugin(text) == <<"createPlugin", text>>
updatePlugin(p, text) == <<"updatePlugin", p, text>>
deletePlugin(p) == <<"deletePlugin", p>>
getPluginById(p) == <<"getPluginById", p>>
getFunctionsForPlugin(p) == <<"getFunctionsForPlugin", p>>
createFunctionForPlugin(p) == <<"createFunctionForPlugin", p>>
updateFunction(f) == <<"updateFunction", f>>
removeFunctionFromPlugin(p, f) == <<"removeFunctionFromPlugin", p, f>>
deleteFunction(f) == <<"deleteFunction", f>>

\* Whether the server accepts a request. A foreign key keeps a plugin that has
\* functions. A function is changed only by a body with its id, which the service does
\* not send, and deleted only as long as it is in a plugin.
Accepts(r) ==
    CASE r[1] \in {"getAllPlugins", "createPlugin"} -> TRUE
      [] r[1] = "deletePlugin" -> r[2] \in Existing /\ FunctionsOf(r[2]) = {}
      [] r[1] = "removeFunctionFromPlugin" -> r[2] \in Existing /\ r[3] \in FunctionsOf(r[2])
      [] r[1] = "deleteFunction" -> r[2] \in DOMAIN db.functions /\ db.functions[r[2]] # None
      [] r[1] = "updateFunction" -> FALSE
      [] OTHER -> r[2] \in Existing

Fresh(ids) == CHOOSE id \in ids : id \notin db.given

HasId(r) == /\ r[1] = "createPlugin" => ~(Plugins \subseteq db.given)
            /\ r[1] = "createFunctionForPlugin" => ~(Functions \subseteq db.given)

\* The records after a request that was accepted.
Effect(r) ==
    CASE r[1] = "createPlugin" ->
            [db EXCEPT !.plugins = With(@, Fresh(Plugins), r[2]), !.given = @ \cup {Fresh(Plugins)}]
      [] r[1] = "updatePlugin" -> [db EXCEPT !.plugins[r[2]] = r[3]]
      [] r[1] = "deletePlugin" -> [db EXCEPT !.plugins = [p \in Existing \ {r[2]} |-> @[p]]]
      [] r[1] = "createFunctionForPlugin" ->
            [db EXCEPT !.functions = With(@, Fresh(Functions), r[2]), !.given = @ \cup {Fresh(Functions)}]
      [] r[1] = "removeFunctionFromPlugin" -> [db EXCEPT !.functions[r[3]] = None]
      [] r[1] = "deleteFunction" -> [db EXCEPT !.functions = [f \in DOMAIN @ \ {r[2]} |-> @[f]]]
      [] OTHER -> db

\* A PUT is answered without a body.
Returns(r) ==
    CASE r[1] = "getAllPlugins" -> db.plugins
      [] r[1] = "getPluginById" -> [id |-> r[2], text |-> db.plugins[r[2]]]
      [] r[1] = "createPlugin" -> [id |-> Fresh(Plugins), text |-> r[2]]
      [] r[1] = "getFunctionsForPlugin" -> FunctionsOf(r[2])
      [] OTHER -> None

\* The tab of functions expects that the second request of a deletion is refused.
Serve(k, r) ==
    /\ r \in tasks[k].sent /\ HasId(r)
    /\ IF Accepts(r)
       THEN db' = Effect(r) /\ tasks' = Receive(tasks, k, r, Ok(Returns(r))) /\ UNCHANGED failed
       ELSE /\ db' = db /\ tasks' = Receive(tasks, k, r, Failure)
            /\ failed' = (failed \/ r[1] # "deleteFunction")
    /\ UNCHANGED <<url, ui, events, hasty, forms>>

Event == events < MaxEvents /\ events' = events + 1

\* The request does not reach the server, or its answer is lost.
Fail(k, r) ==
    /\ r \in tasks[k].sent /\ HasId(r)
    /\ Event
    /\ failed' = TRUE
    /\ db' \in {db} \cup (IF Accepts(r) THEN {Effect(r)} ELSE {})
    /\ tasks' = Receive(tasks, k, r, Failure)
    /\ UNCHANGED <<url, ui, hasty, forms>>

-----------------------------------------------------------------------------
(* Rendering.                                                              *)

NoDetails == [plugin |-> None, loading |-> FALSE, open |-> FALSE, form |-> Blank, confirm |-> None]
NoFunctions == [list |-> {}, loading |-> FALSE, form |-> None, editing |-> None, confirm |-> None]

fetchPlugins == Task("plugins", <<>>, {getAllPlugins})
fetchPluginDetails(p) == Task("details", [id |-> p], {getPluginById(p)})
\* What a handler does after fetchFunctions is named by "then".
fetchFunctions(p, then) == Task("functions", [plugin |-> p, then |-> then], {getFunctionsForPlugin(p)})

\* The handlers of a tab that go on after it is gone: fetches for the screen do not matter.
Unmounted(ts) ==
    [k \in Slots |-> IF ts[k].at \in {"details", "functions"} THEN Idle
                     ELSE [ts[k] EXCEPT !.live = (ts[k].at = "plugins")]]

Fill(d) == IF d.plugin = None THEN Blank ELSE d.plugin.text

\* Mutant: the form keeps the text it was first filled with.
ModalFilledOnce(d, was) ==
    CASE ~d.open -> [d EXCEPT !.form = Blank]
      [] d.open /\ ~was.open -> [d EXCEPT !.form = Fill(d)]
      [] OTHER -> d

\* PluginForm fills its form when it comes, and from initialData, which is a new object
\* with every render of the tab while there is a plugin.
ModalFilled(d, was) ==
    CASE ~d.open -> [d EXCEPT !.form = Blank]
      [] d.open /\ (~was.open \/ d.plugin # None) -> [d EXCEPT !.form = Fill(d)]
      [] OTHER -> d

\* The effect of the tab of details on a new selection, and the one that opens the form
\* when a plugin is begun from the list.
WithDetails(s, comes) ==
    LET p == s.page.selected
        chosen == comes \/ p # ui.page.selected
        begun == s.page.temp /\ (comes \/ ~ui.page.temp)
        old == IF comes THEN NoDetails ELSE s.details
        new == [old EXCEPT !.plugin = IF chosen /\ p = None THEN None ELSE @,
                           !.loading = @ \/ (chosen /\ p # None),
                           !.open = @ \/ begun]
    IN  [s EXCEPT !.functions = NoFunctions,
                  !.details = ModalFilled(new, IF comes THEN NoDetails ELSE ui.details)]

\* The tab of functions keeps what it shows until those of the new plugin are there.
WithFunctions(s, comes) ==
    LET p == s.page.selected
        old == IF comes THEN NoFunctions ELSE s.functions
    IN  [s EXCEPT !.details = NoDetails,
                  !.functions = [old EXCEPT !.loading = @ \/ (p # None /\ (comes \/ p # ui.page.selected))]]

\* The page takes a tab and a plugin from the search parameters that have them.
FromUrl(s, u) ==
    IF u = url THEN s
    ELSE [s EXCEPT !.page.tab = IF u.tab = None THEN @ ELSE u.tab,
                   !.page.selected = IF u.id = None THEN @ ELSE u.id,
                   !.page.loading = TRUE]

\* New state s0 of the page and its tabs, search parameters u and tasks ts. The list is
\* fetched again with every change of the search parameters.
Render(s0, u, ts) ==
    LET s == FromUrl(s0, u)
        comes == s.page.tab # ui.page.tab
        kept == IF comes THEN Unmounted(ts) ELSE ts
        p == s.page.selected
        fetch == IF p = None \/ (~comes /\ p = ui.page.selected) THEN Idle
                 ELSE IF s.page.tab = "details" THEN fetchPluginDetails(p) ELSE fetchFunctions(p, "nothing")
        effects == (IF u # url THEN {fetchPlugins} ELSE {}) \cup ({fetch} \ {Idle})
    IN  /\ Cardinality(effects) <= Cardinality(Free(kept))
        /\ url' = u
        /\ ui' = IF s.page.tab = "details" THEN WithDetails(s, comes) ELSE WithFunctions(s, comes)
        /\ tasks' = CASE effects = {} -> kept
                      [] Cardinality(effects) = 1 -> Begin(kept, CHOOSE e \in effects : TRUE)
                      [] OTHER -> Begin(Begin(kept, fetchPlugins), fetch)

\* What task k does to the state of its tab, if that is still mounted.
Show(k, s) == IF tasks[k].live THEN s ELSE ui

Answered(k, at) == tasks[k].at = at /\ tasks[k].sent = {}

Init ==
    \E id \in Initially \cup {None} :
        LET owner == CHOOSE p \in Initially : TRUE
            f == CHOOSE g \in Functions : TRUE
            idle == [k \in Slots |-> Idle]
        IN
        /\ db = [plugins |-> [p \in Initially |-> p], functions |-> [x \in {f} |-> owner], given |-> Initially \cup {f}]
        /\ url = [id |-> id, tab |-> None]
        /\ ui = [page |-> [plugins |-> <<>>, loading |-> TRUE, selected |-> id, tab |-> "details", temp |-> FALSE],
                 details |-> [NoDetails EXCEPT !.loading = id # None], functions |-> NoFunctions]
        /\ tasks = Begin(IF id = None THEN idle ELSE Begin(idle, fetchPluginDetails(id)), fetchPlugins)
        /\ events = 0 /\ forms = 0
        /\ failed = FALSE /\ hasty = FALSE

-----------------------------------------------------------------------------
(* Clicks.  A modal covers the page.                                       *)

Busy == Running(tasks) # {}
Tab == ui.page.tab
Selected == ui.page.selected

\* What the tab of details returns early, without its modal for deletion.
NothingSelected == Selected = None /\ ~ui.details.open /\ ~ui.page.temp
Spinner == ui.details.loading /\ ~ui.details.open
ConfirmShown == ui.details.confirm # None /\ ~NothingSelected /\ ~Spinner

Uncovered ==
    /\ Tab = "details" => ~ui.details.open /\ ~ConfirmShown
    /\ Tab = "functions" /\ Selected # None => ui.functions.form = None /\ ui.functions.confirm = None

\* A click in tab t is hasty while a handler is at one of these places.
ClickDuring(t, places) == /\ Event /\ Tab = t /\ UNCHANGED <<db, failed>>
                          /\ hasty' = (hasty \/ \E k \in Slots : tasks[k].at \in places)
ClickOn(t) == ClickDuring(t, {"plugins"})

Moves(u) == Event /\ hasty' = (hasty \/ Busy) /\ UNCHANGED <<db, failed>>

handleTabChange(t) ==
    /\ Uncovered /\ t # Tab
    /\ LET u == [url EXCEPT !.tab = t] IN
       Moves(u) /\ Render([ui EXCEPT !.page.tab = t], u, tasks)
    /\ UNCHANGED forms

\* The browser goes back or forward to another entry of the page.
Back(u) == u # url /\ Moves(u) /\ Render(ui, u, tasks) /\ UNCHANGED forms

handleSelectPlugin(p) ==
    /\ Uncovered /\ ~ui.page.loading /\ p \in DOMAIN ui.page.plugins
    /\ LET u == [url EXCEPT !.id = p] IN
       Moves(u) /\ Render([ui EXCEPT !.page.selected = p], u, tasks)
    /\ UNCHANGED forms

\* handleSelectPlugin('')
Unselected(s) == [s EXCEPT !.page.selected = None, !.page.tab = "details"]
NoPluginUrl == [id |-> None, tab |-> "details"]

\* The button of the list, where it stays while the list is being fetched.
handleCreatePlugin ==
    /\ Uncovered /\ ~ui.page.temp
    /\ Moves(NoPluginUrl)
    /\ Render([Unselected(ui) EXCEPT !.page.temp = TRUE], NoPluginUrl, tasks)
    /\ forms' = forms + 1

-----------------------------------------------------------------------------
(* The tab of details.                                                     *)

OnDetails == ClickOn("details")

\* All handlers of the tab share one spinner, which the first to end stops: the user waits
\* for the others too before saving or deleting a plugin.
OnDetailsAlone(writes) == ClickDuring("details", {"plugins", "details", "refresh"} \cup writes)

handleAddPlugin ==
    /\ OnDetails /\ NothingSelected
    /\ Render([ui EXCEPT !.details.open = TRUE], url, tasks)
    /\ forms' = forms + 1

DetailsShown == ui.details.plugin # None /\ Uncovered /\ ~NothingSelected /\ ~Spinner

handleEditPlugin ==
    /\ OnDetails /\ DetailsShown
    /\ Render([ui EXCEPT !.details.open = TRUE], url, tasks)
    /\ UNCHANGED forms

FormFree == ui.details.open /\ ~ui.details.loading

TypeText ==
    /\ OnDetails /\ FormFree /\ ui.details.form # Typed
    /\ ui' = [ui EXCEPT !.details.form = Typed]
    /\ UNCHANGED <<url, tasks, forms>>

Closed(s, creating) == [s EXCEPT !.page.temp = @ /\ ~creating, !.details.open = FALSE]

handleCloseForm ==
    /\ OnDetails /\ FormFree
    /\ Render(Closed(ui, ui.page.temp), url, tasks)
    /\ UNCHANGED forms

BeginSave ==
    LET d == ui.details
        request == IF d.plugin = None THEN createPlugin(d.form) ELSE updatePlugin(d.plugin.id, d.form)
        arg == [url |-> url, creating |-> ui.page.temp]
    IN  /\ HasRoom(tasks)
        /\ Render([ui EXCEPT !.details.loading = TRUE], url, Begin(tasks, Task("save", arg, {request})))

\* Mutant: a plugin without a text is saved.
SaveUnvalidated == OnDetailsAlone({"delete"}) /\ FormFree /\ BeginSave /\ UNCHANGED forms

\* The handler keeps the page's search parameters of when it began.
handleSavePlugin ==
    /\ OnDetailsAlone({"delete"}) /\ FormFree /\ ui.details.form # Blank
    /\ BeginSave
    /\ UNCHANGED forms

showDeleteConfirmation ==
    /\ OnDetails /\ DetailsShown
    /\ Render([ui EXCEPT !.details.confirm = ui.details.plugin.id], url, tasks)
    /\ UNCHANGED forms

closeConfirmation ==
    /\ OnDetails /\ ConfirmShown
    /\ Render([ui EXCEPT !.details.confirm = None], url, tasks)
    /\ UNCHANGED forms

handleConfirmDelete ==
    /\ OnDetailsAlone({"save", "delete"}) /\ ConfirmShown
    /\ HasRoom(tasks)
    /\ Render([ui EXCEPT !.details.loading = TRUE], url,
              Begin(tasks, Task("delete", <<>>, {deletePlugin(ui.details.confirm)})))
    /\ UNCHANGED forms

-----------------------------------------------------------------------------
(* The tab of functions, empty without a plugin.                           *)

OnFunctions == ClickOn("functions") /\ Selected # None

handleAddFunction ==
    /\ OnFunctions /\ Uncovered /\ ~ui.functions.loading
    /\ Render([ui EXCEPT !.functions.form = Blank], url, tasks)
    /\ forms' = forms + 1

TypeFunction ==
    /\ OnFunctions /\ ui.functions.form = Blank /\ ~ui.functions.loading
    /\ Render([ui EXCEPT !.functions.form = Typed], url, tasks)
    /\ UNCHANGED forms

handleCloseFunctionForm ==
    /\ OnFunctions /\ ui.functions.form # None /\ ~ui.functions.loading
    /\ Render([ui EXCEPT !.functions.form = None], url, tasks)
    /\ UNCHANGED forms

\* Begins a handler of the tab, with the plugin of now.
BeginHere(at, f, request) ==
    /\ HasRoom(tasks)
    /\ Render([ui EXCEPT !.functions.loading = TRUE], url,
              Begin(tasks, Task(at, [plugin |-> Selected, function |-> f], {request})))
    /\ UNCHANGED forms

handleSaveFunction ==
    /\ OnFunctions /\ ui.functions.form = Typed /\ ~ui.functions.loading
    /\ BeginHere("addFunction", None, createFunctionForPlugin(Selected))

\* The rows and their buttons stay while functions are being fetched.
Row(f) == OnFunctions /\ Uncovered /\ f \in ui.functions.list

handleEditFunction(f) ==
    /\ Row(f) /\ ui.functions.editing # f
    /\ Render([ui EXCEPT !.functions.editing = f], url, tasks)
    /\ UNCHANGED forms

handleCancelEdit(f) ==
    /\ Row(f) /\ ui.functions.editing = f
    /\ Render([ui EXCEPT !.functions.editing = None], url, tasks)
    /\ UNCHANGED forms

handleSaveEdit(f) ==
    /\ Row(f) /\ ui.functions.editing = f
    /\ BeginHere("saveEdit", f, updateFunction(f))

showFunctionConfirmation(f) ==
    /\ Row(f) /\ ui.functions.editing # f
    /\ Render([ui EXCEPT !.functions.confirm = f], url, tasks)
    /\ UNCHANGED forms

closeFunctionConfirmation ==
    /\ OnFunctions /\ ui.functions.confirm # None /\ ~ui.functions.loading
    /\ Render([ui EXCEPT !.functions.confirm = None], url, tasks)
    /\ UNCHANGED forms

handleConfirmDeleteFunction ==
    /\ OnFunctions /\ ui.functions.confirm # None /\ ~ui.functions.loading
    /\ LET f == ui.functions.confirm IN
       BeginHere("removeFunction", f, removeFunctionFromPlugin(Selected, f))

-----------------------------------------------------------------------------
(* The handlers after their awaits.                                        *)

Stay == UNCHANGED <<db, events, failed, hasty, forms>>

WithPlugins(s, k) ==
    [s EXCEPT !.page.loading = FALSE,
              !.page.plugins = IF Threw(tasks[k]) THEN @ ELSE Data(tasks[k], getAllPlugins)]

PluginsFetched(k) ==
    /\ Answered(k, "plugins")
    /\ Render(WithPlugins(ui, k), url, End(tasks, k))
    /\ Stay

\* The details of the plugin the fetch began with are shown, whichever is selected now.
DetailsFetched(k) ==
    /\ Answered(k, "details")
    /\ LET d == [ui.details EXCEPT !.loading = FALSE,
                    !.plugin = IF Threw(tasks[k]) THEN @ ELSE Data(tasks[k], getPluginById(tasks[k].arg.id))]
       IN  Render([ui EXCEPT !.details = d], url, End(tasks, k))
    /\ Stay

Results(k) == {tasks[k].got[r].data : r \in DOMAIN tasks[k].got}

\* The tail of handleSavePlugin and handleConfirmDelete: they refresh the page's list.
ToRefresh(k, closes) ==
    [tasks EXCEPT ![k] = [Task("refresh", [closes |-> closes], {getAllPlugins}) EXCEPT !.live = tasks[k].live]]

SaveFailed(k) ==
    /\ Answered(k, "save") /\ Threw(tasks[k])
    /\ Render(Show(k, [ui EXCEPT !.details.loading = FALSE]), url, End(tasks, k))
    /\ Stay

\* The server returns nothing for an update, so that the tab forgets the plugin.
Saved(k, plugin) ==
    LET s == Show(k, [ui EXCEPT !.details.plugin = plugin, !.details.open = FALSE])
        t == [s EXCEPT !.page.temp = @ /\ ~tasks[k].arg.creating, !.page.loading = TRUE]
    IN  IF plugin = None
        THEN Render(t, url, ToRefresh(k, FALSE))
        ELSE Render([t EXCEPT !.page.selected = plugin.id], [tasks[k].arg.url EXCEPT !.id = plugin.id],
                    ToRefresh(k, FALSE))

SaveAnswered(k) ==
    /\ Answered(k, "save") /\ ~Threw(tasks[k])
    /\ \E plugin \in Results(k) : Saved(k, plugin)
    /\ Stay

DeleteFailed(k) ==
    /\ Answered(k, "delete") /\ Threw(tasks[k])
    /\ Render(Show(k, [ui EXCEPT !.details.loading = FALSE, !.details.confirm = None]), url, End(tasks, k))
    /\ Stay

\* Mutant: the plugin that was deleted stays selected.
DeleteStaysSelected(k) ==
    /\ Answered(k, "delete") /\ ~Threw(tasks[k])
    /\ Render([ui EXCEPT !.page.loading = TRUE], url, ToRefresh(k, TRUE))
    /\ Stay

DeleteAnswered(k) ==
    /\ Answered(k, "delete") /\ ~Threw(tasks[k])
    /\ LET s == Unselected(Show(k, [ui EXCEPT !.details.plugin = None])) IN
       Render([s EXCEPT !.page.loading = TRUE], NoPluginUrl, ToRefresh(k, TRUE))
    /\ Stay

Refreshed(k) ==
    /\ Answered(k, "refresh")
    /\ LET d == [ui.details EXCEPT !.loading = FALSE, !.confirm = IF tasks[k].arg.closes THEN None ELSE @]
           s == WithPlugins(Show(k, [ui EXCEPT !.details = d]), k)
       IN  Render([s EXCEPT !.page.temp = FALSE], url, End(tasks, k))
    /\ Stay

\* Functions of the plugin the fetch began with are shown, whichever is selected now.
FunctionsFetched(k) ==
    /\ Answered(k, "functions")
    /\ LET arg == tasks[k].arg
           g == [ui.functions EXCEPT !.loading = FALSE,
                    !.list = IF Threw(tasks[k]) THEN @ ELSE Data(tasks[k], getFunctionsForPlugin(arg.plugin)),
                    !.form = IF arg.then = "closeForm" THEN None ELSE @,
                    !.confirm = IF arg.then = "unconfirm" THEN None ELSE @]
       IN  Render([ui EXCEPT !.functions = g], url, End(tasks, k))
    /\ Stay

\* The handler goes on with the functions, unless its tab is gone.
ToFunctions(k, then) ==
    IF tasks[k].live THEN [tasks EXCEPT ![k] = fetchFunctions(tasks[k].arg.plugin, then)] ELSE End(tasks, k)

FunctionAdded(k) ==
    /\ Answered(k, "addFunction")
    /\ IF Threw(tasks[k])
       THEN Render(Show(k, [ui EXCEPT !.functions.loading = FALSE]), url, End(tasks, k))
       ELSE Render(Show(k, [ui EXCEPT !.functions.loading = TRUE]), url, ToFunctions(k, "closeForm"))
    /\ Stay

\* The server refuses every edit: the row stays in its edit mode.
EditRefused(k) ==
    /\ Answered(k, "saveEdit")
    /\ Render(Show(k, [ui EXCEPT !.functions.loading = FALSE]), url, End(tasks, k))
    /\ Stay

FunctionRemoved(k) ==
    /\ Answered(k, "removeFunction")
    /\ IF Threw(tasks[k])
       THEN Render(Show(k, [ui EXCEPT !.functions.loading = FALSE, !.functions.confirm = None]),
                   url, End(tasks, k))
       ELSE Render(ui, url, Goto(tasks, k, "deleteFunction", {deleteFunction(tasks[k].arg.function)}))
    /\ Stay

\* A 404 is swallowed, and so is an error that has no response.
RecordDeleted(k) ==
    /\ Answered(k, "deleteFunction")
    /\ Render(Show(k, [ui EXCEPT !.functions.loading = TRUE]), url, ToFunctions(k, "unconfirm"))
    /\ Stay

-----------------------------------------------------------------------------
(* The next-state relation.                                                *)

PageTabs == {"details", "functions"}

ClickStep ==
    \/ \E t \in PageTabs : handleTabChange(t)
    \/ \E p \in Plugins : handleSelectPlugin(p)
    \/ handleCreatePlugin \/ handleAddPlugin \/ handleEditPlugin \/ TypeText \/ handleCloseForm
    \/ handleSavePlugin \/ showDeleteConfirmation \/ closeConfirmation \/ handleConfirmDelete
    \/ handleAddFunction \/ TypeFunction \/ handleCloseFunctionForm \/ handleSaveFunction
    \/ \E f \in Functions :
        \/ handleEditFunction(f) \/ handleCancelEdit(f) \/ handleSaveEdit(f)
        \/ showFunctionConfirmation(f)
    \/ closeFunctionConfirmation \/ handleConfirmDeleteFunction

HandlerStep(k) ==
    \/ PluginsFetched(k) \/ DetailsFetched(k) \/ SaveFailed(k) \/ SaveAnswered(k)
    \/ DeleteFailed(k) \/ DeleteAnswered(k) \/ Refreshed(k)
    \/ FunctionsFetched(k) \/ FunctionAdded(k) \/ EditRefused(k)
    \/ FunctionRemoved(k) \/ RecordDeleted(k)

Entries == [id : (db.given \cap Plugins) \cup {None}, tab : PageTabs \cup {None}]

Next ==
    \/ ClickStep
    \/ \E u \in Entries : Back(u)
    \/ \E k \in Slots : HandlerStep(k) \/ \E r \in tasks[k].sent : Serve(k, r) \/ Fail(k, r)

Spec == Init /\ [][Next]_vars

-----------------------------------------------------------------------------
(* Properties.                                                             *)

Texts == Plugins \cup {Typed}

\* The user waited for every handler before going elsewhere, and no request failed.
Undisturbed == ~Busy /\ ~hasty /\ ~failed

\* Every variable keeps its type: no plugin is saved without a text, and what the page
\* shows are plugins and functions the services returned.
TypeOK ==
    /\ Existing \subseteq Plugins /\ \A p \in Existing : db.plugins[p] \in Texts
    /\ DOMAIN db.functions \subseteq Functions
    /\ \A f \in DOMAIN db.functions : db.functions[f] \in Plugins \cup {None}
    /\ url \in [id : Plugins \cup {None}, tab : PageTabs \cup {None}]
    /\ DOMAIN ui.page.plugins \subseteq Plugins /\ ui.page.selected \in Plugins \cup {None}
    /\ ui.page.tab \in PageTabs /\ ui.page.temp \in BOOLEAN
    /\ ui.details.plugin \in {None} \cup [id : Plugins, text : Texts]
    /\ ui.details.form \in Texts \cup {Blank} /\ ui.details.confirm \in Plugins \cup {None}
    /\ ui.functions.list \subseteq Functions /\ ui.functions.form \in {None, Blank, Typed}

\* The list at the side is the server's after every handler of the tab of details, also
\* one that ended when its tab was gone.
ListIsTrue == Undisturbed => ui.page.plugins = db.plugins

\* The plugin that can be edited and deleted on the screen is the selected one, as it is
\* on the server: never one that is gone, and never the text from before an update.
DetailsAreTrue ==
    (Undisturbed /\ Tab = "details" /\ ui.details.plugin # None) =>
        /\ Selected \in Existing
        /\ ui.details.plugin = [id |-> Selected, text |-> db.plugins[Selected]]

\* The form follows the plugin that is edited through every late answer and every step
\* of the history: no update gives a plugin that was there at first the text of another.
\* Nothing is said of plugins created meanwhile, and could not be: when the deletion of one
\* plugin is answered while another is being edited, handleDelete deselects, the form
\* stays open with the text of the other, and Save creates a plugin with it.
EditedIsUpdated == \A p \in Initially \cap Existing : db.plugins[p] \in {p, Typed}

\* Every plugin and every function created answers a form the user opened for it, unless
\* the user did not wait or a request failed.
CreatedOnce ==
    (~hasty /\ ~failed) => Cardinality(db.given) <= Cardinality(Initially) + 1 + forms

\* The functions on the screen are those of the selected plugin, after those that were
\* added and deleted.
FunctionsAreTrue ==
    (Undisturbed /\ Tab = "functions" /\ Selected \in Existing) =>
        ui.functions.list = FunctionsOf(Selected)

\* No handler ends without its spinner, whatever overlaps and fails.
SpinnersEnd ==
    ~Busy => /\ ~ui.page.loading
             /\ Tab = "details" => ~ui.details.loading
             /\ Tab = "functions" => ~ui.functions.loading

\* "Function gets deleted however shows a 404 error": once the handlers are done, there
\* is no function that is in no plugin.
FunctionsAreDeleted == ~Busy /\ ~failed => FunctionsOf(None) = {}

\* What the screen shows when nothing runs any more is what the server holds, and no
\* spinner is left: the list, the selected plugin and its functions.
ShownIsTrue == ListIsTrue /\ DetailsAreTrue /\ FunctionsAreTrue /\ SpinnersEnd

\* An update never gives a plugin that was there at first the text of another, and a
\* patient user gets one record for each form opened.
SavesAreMeant == EditedIsUpdated /\ CreatedOnce

=============================================================================
