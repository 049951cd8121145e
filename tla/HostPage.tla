------------------------------ MODULE HostPage ------------------------------
(***************************************************************************)
(* The Hosts page of the management UI: the list of hosts at its side, and *)
(* the tabs with the table of hosts, the keys of the selected host and its *)
(* plugins.  The page and the tab with the table fetch the hosts each for  *)
(* itself.  The tabs of keys and plugins stay mounted when another host is *)
(* selected: they forget what they show and fetch again, while handlers    *)
(* that run for the host of before go on.                                  *)
(***************************************************************************)
EXTENDS Requests

CONSTANTS
    Hosts,          \* ids hosts can have
    Initially,      \* the hosts there are at first
    Keys,           \* ids keys can have
    Plugins,        \* plugins of the owner
    None,           \* null, undefined or absent
    Temp,           \* the id temp-... of the host the side list begins
    Blank,          \* an empty form
    Typed,          \* what the user types into the form of a host
    MaxEvents       \* bound: clicks, steps in the browser's history and
                    \*   failures of requests, all together

ASSUME HostsAssumption ==
    /\ Initially \subseteq Hosts /\ Initially # {} /\ Keys # {}
    /\ {None, Temp} \cap (Hosts \cup Keys \cup Plugins) = {}
    /\ MaxTasks >= 2        \* the fetches the page begins with

VARIABLES
    db,         \* the server: hosts with their texts, keys with their hosts, rows
                \*   that link plugins, ids ever given
    url,        \* the search parameters id and tab; the open tab is always that one
    ui,         \* state of the page and of its tabs
    tasks,
    events,
    failed,     \* a request has failed, or was refused
    hasty,      \* the user has gone elsewhere while a handler was running, or has
                \*   jumped over entries of the history
    left,       \* the user has left the tab of keys while a handler was running
    seen        \* keys whose secret was put on the screen, and the one of before

vars == <<db, url, ui, tasks, events, failed, hasty, left, seen>>

Existing == DOMAIN db.hosts
KeysOf(h) == {y \in DOMAIN db.keys : db.keys[y] = h}
PluginsOf(h) == {p \in Plugins : db.links[<<h, p>>] > 0}

-----------------------------------------------------------------------------
(* The services, and what the server does with their requests.  The plugins *)
(* there are to choose from and the headings do not change: their requests  *)
(* are not modelled.                                                       *)

getAllHosts == <<"getAllHosts">>
createHost(text) == <<"createHost", text>>
updateHost(h, text) == <<"updateHost", h, text>>
deleteHost(h) == <<"deleteHost", h>>
getKeysForHost(h) == <<"getKeysForHost", h>>
generateKeyForHost(h) == <<"generateKeyForHost", h>>
updateKey(h, y) == <<"updateKey", h, y>>
deleteKey(h, y) == <<"deleteKey", h, y>>
getPluginsForHost(h) == <<"getPluginsForHost", h>>
addPluginToHost(h, p) == <<"addPluginToHost", h, p>>
removePluginFromHost(h, p) == <<"removePluginFromHost", h, p>>

\* Whether the server accepts a request: the host exists, a key is one of the host,
\* a plugin is removed where it is. It may be added twice. Foreign keys keep a host
\* that has keys or plugins.
Accepts(r) ==
    CASE r[1] \in {"getAllHosts", "createHost"} -> TRUE
      [] r[1] = "deleteHost" -> r[2] \in Existing /\ KeysOf(r[2]) = {} /\ PluginsOf(r[2]) = {}
      [] r[1] \in {"updateKey", "deleteKey"} -> r[3] \in KeysOf(r[2])
      [] r[1] = "removePluginFromHost" -> r[2] \in Existing /\ r[3] \in PluginsOf(r[2])
      [] OTHER -> r[2] \in Existing

Fresh(ids) == CHOOSE id \in ids : id \notin db.given

HasId(r) == /\ r[1] = "createHost" => ~(Hosts \subseteq db.given)
            /\ r[1] = "generateKeyForHost" => ~(Keys \subseteq db.given)

\* The records after a request that was accepted.
Effect(r) ==
    CASE r[1] = "createHost" ->
            [db EXCEPT !.hosts = With(@, Fresh(Hosts), r[2]), !.given = @ \cup {Fresh(Hosts)}]
      [] r[1] = "updateHost" -> [db EXCEPT !.hosts[r[2]] = r[3]]
      [] r[1] = "deleteHost" -> [db EXCEPT !.hosts = [h \in Existing \ {r[2]} |-> @[h]]]
      [] r[1] = "generateKeyForHost" ->
            [db EXCEPT !.keys = With(@, Fresh(Keys), r[2]), !.given = @ \cup {Fresh(Keys)}]
      [] r[1] = "deleteKey" -> [db EXCEPT !.keys = [y \in DOMAIN @ \ {r[3]} |-> @[y]]]
      [] r[1] = "addPluginToHost" -> [db EXCEPT !.links[<<r[2], r[3]>>] = @ + 1]
      [] r[1] = "removePluginFromHost" -> [db EXCEPT !.links[<<r[2], r[3]>>] = @ - 1]
      [] OTHER -> db

Returns(r) ==
    CASE r[1] = "getAllHosts" -> db.hosts
      [] r[1] = "getKeysForHost" -> KeysOf(r[2])
      [] r[1] = "generateKeyForHost" -> Fresh(Keys)
      [] r[1] = "getPluginsForHost" -> PluginsOf(r[2])
      [] OTHER -> None

Serve(k, r) ==
    /\ r \in tasks[k].sent /\ HasId(r)
    /\ IF Accepts(r)
       THEN db' = Effect(r) /\ tasks' = Receive(tasks, k, r, Ok(Returns(r))) /\ UNCHANGED failed
       ELSE db' = db /\ tasks' = Receive(tasks, k, r, Failure) /\ failed' = TRUE
    /\ UNCHANGED <<url, ui, events, hasty, left, seen>>

Event == events < MaxEvents /\ events' = events + 1

\* The request does not reach the server, or its answer is lost.
Fail(k, r) ==
    /\ r \in tasks[k].sent /\ HasId(r)
    /\ Event
    /\ failed' = TRUE
    /\ db' \in {db} \cup (IF Accepts(r) THEN {Effect(r)} ELSE {})
    /\ tasks' = Receive(tasks, k, r, Failure)
    /\ UNCHANGED <<url, ui, hasty, left, seen>>

-----------------------------------------------------------------------------
(* Rendering.                                                              *)

NoDetails == [hosts |-> <<>>, loading |-> TRUE, open |-> FALSE, editing |-> FALSE, selected |-> None,
              form |-> Blank, saving |-> FALSE, confirm |-> FALSE, toDelete |-> None]
NoKeys == [list |-> {}, loading |-> FALSE, form |-> None, shown |-> None, confirm |-> None]
NoPlugins == [assigned |-> {}, loading |-> FALSE, confirm |-> None]

fetchHosts(id) == Task("hosts", [id |-> id], {getAllHosts})
fetchTable == Task("table", <<>>, {getAllHosts})
\* What a handler does after fetchKeys is named by "then".
fetchKeys(h, then) == Task("keys", [host |-> h, then |-> then], {getKeysForHost(h)})
fetchPlugins(h, then) == Task("plugins", [host |-> h, then |-> then], {getPluginsForHost(h)})

\* The handlers of a tab that go on after it is gone: fetches for the screen do not matter.
Unmounted(ts) ==
    [k \in Slots |-> IF ts[k].at \in {"table", "keys", "plugins"} THEN Idle
                     ELSE [ts[k] EXCEPT !.live = (ts[k].at = "hosts")]]

\* Mutant: the modal keeps the text it was first filled with.
ModalFilledOnce(d) ==
    IF d.selected # None /\ d.form = Blank THEN [d EXCEPT !.form = d.selected.text] ELSE d

\* HostModal fills its form from initialData, a new object with every render of
\* HostDetailsTab while a host is selected there.
ModalFilled(d) ==
    IF d.selected # None THEN [d EXCEPT !.form = d.selected.text]
    ELSE IF ui.details.selected # None THEN [d EXCEPT !.form = Blank] ELSE d

\* A tab that comes starts anew, and one whose host changes forgets what it shows.
\* The cleanup of the tab of keys leaves its question whether to delete a key, that of
\* the tab of plugins its question whether to remove one.
WithTab(s, moved, t) ==
    LET new == IF moved THEN [s EXCEPT !.details = NoDetails, !.keys = NoKeys, !.plugins = NoPlugins] ELSE s
        h == s.page.selected
        switched == h # None /\ (moved \/ h # ui.page.selected)
    IN  CASE t = "details" /\ ~moved -> [new EXCEPT !.details = ModalFilled(@)]
          [] t = "keys" /\ switched ->
                [new EXCEPT !.keys = [NoKeys EXCEPT !.loading = TRUE, !.confirm = new.keys.confirm]]
          [] t = "plugins" /\ switched ->
                [new EXCEPT !.plugins = [@ EXCEPT !.assigned = {}, !.loading = TRUE]]
          [] OTHER -> new

TabFetch(s, moved, t) ==
    LET h == s.page.selected
        switched == h # None /\ (moved \/ h # ui.page.selected)
    IN  CASE t = "details" /\ moved -> fetchTable
          [] t = "keys" /\ switched -> fetchKeys(h, "nothing")
          [] t = "plugins" /\ switched -> fetchPlugins(h, "nothing")
          [] OTHER -> Idle

\* New state s of the page and its tabs, search parameters u and tasks ts.
Render(s, u, ts) ==
    LET moved == u.tab # url.tab
        kept == IF moved THEN Unmounted(ts) ELSE ts
        effect == TabFetch(s, moved, u.tab)
        begun == IF effect = Idle THEN kept ELSE Begin(kept, effect)
        after == WithTab(s, moved, u.tab)
    IN  /\ effect # Idle => HasRoom(kept)
        /\ u.id # url.id => HasRoom(begun)
        /\ url' = u
        /\ ui' = [after EXCEPT !.page.loading = @ \/ u.id # url.id]
        /\ tasks' = IF u.id # url.id THEN Begin(begun, fetchHosts(u.id)) ELSE begun

\* What task k does to the state of its tab, if that is still mounted.
Show(k, s) == IF tasks[k].live THEN s ELSE ui

At(k, places) == tasks[k].at \in places

Init ==
    \E id \in Initially \cup {None} :
        LET key == CHOOSE y \in Keys : TRUE
            owner == CHOOSE h \in Initially : TRUE
        IN
        /\ db = [hosts |-> [h \in Initially |-> h], keys |-> [y \in {key} |-> owner],
                 links |-> [l \in Hosts \X Plugins |-> IF l[1] = owner THEN 1 ELSE 0], given |-> Initially \cup {key}]
        /\ url = [id |-> id, tab |-> "details"]
        /\ ui = [page |-> [hosts |-> {}, loading |-> TRUE, selected |-> None, temp |-> FALSE],
                 details |-> NoDetails, keys |-> NoKeys, plugins |-> NoPlugins]
        /\ tasks = Begin(Begin([k \in Slots |-> Idle], fetchTable), fetchHosts(id))
        /\ events = 0 /\ seen = {key}
        /\ failed = FALSE /\ hasty = FALSE /\ left = FALSE

-----------------------------------------------------------------------------
(* Clicks.  A modal covers the page.                                       *)

Busy == Running(tasks) # {}
Uncovered == /\ url.tab = "details" => ~ui.details.open /\ ~ui.details.confirm
             /\ url.tab = "keys" => ui.keys.shown = None /\ ui.keys.confirm = None
             /\ url.tab = "plugins" => ui.plugins.confirm = None

\* A click in tab t is hasty while a handler is at one of these places.
ClickDuring(t, places) ==
    /\ Event /\ url.tab = t /\ UNCHANGED <<db, failed, left, seen>>
    /\ hasty' = (hasty \/ \E k \in Slots : tasks[k].at \in places)

\* In a tab the user waits for the side list, since another host may be coming, and
\* for the table, which nothing blocks while it is fetched.
ClickOn(t) == ClickDuring(t, {"hosts", "table"})

\* Each click makes an entry of the history that differs from the last in one
\* parameter: when both change the user has jumped over entries.
Moves(u) == /\ Event /\ UNCHANGED <<db, failed, seen>>
            /\ hasty' = (hasty \/ Busy \/ (u.id # url.id /\ u.tab # url.tab))
            /\ left' = (left \/ (url.tab = "keys" /\ u.tab # "keys" /\ Busy))

handleTabChange(t) ==
    /\ Uncovered /\ t # url.tab
    /\ LET u == [url EXCEPT !.tab = t] IN Moves(u) /\ Render(ui, u, tasks)

\* The browser goes back or forward to another entry of the page.
Back(u) == u # url /\ Moves(u) /\ Render(ui, u, tasks)

handleSelectHost(h) ==
    /\ Uncovered /\ ~ui.page.loading /\ h \in ui.page.hosts
    /\ LET u == [url EXCEPT !.id = h] IN Moves(u) /\ Render([ui EXCEPT !.page.selected = h], u, tasks)

\* The side list's button, there once: the host lives in the list until the next
\* fetch, and nothing saves it.
handleCreateHost ==
    /\ Uncovered /\ ~ui.page.temp
    /\ LET u == [url EXCEPT !.id = Temp]
           s == [ui EXCEPT !.page.hosts = @ \cup {Temp}, !.page.selected = Temp, !.page.temp = TRUE]
       IN  Moves(u) /\ Render(s, u, tasks)

-----------------------------------------------------------------------------
(* The tab with the table of hosts.                                        *)

handleAddHost ==
    /\ ClickOn("details") /\ Uncovered /\ ~ui.details.loading
    /\ Render([ui EXCEPT !.details = [@ EXCEPT !.selected = None, !.editing = FALSE, !.open = TRUE]], url, tasks)

handleEditHost(h) ==
    /\ ClickOn("details") /\ Uncovered /\ h \in DOMAIN ui.details.hosts
    /\ LET host == [id |-> h, text |-> ui.details.hosts[h]] IN
       Render([ui EXCEPT !.details = [@ EXCEPT !.selected = host, !.editing = TRUE, !.open = TRUE]], url, tasks)

\* A keystroke renders the modal alone.
TypeText ==
    /\ ClickOn("details") /\ ui.details.open /\ ui.details.form # Typed
    /\ ui' = [ui EXCEPT !.details.form = Typed]
    /\ UNCHANGED <<url, tasks>>

Closed(d) == [d EXCEPT !.open = FALSE, !.selected = None]

\* Cancel is not disabled while a host is being saved.
handleCloseModal ==
    /\ ClickOn("details") /\ ui.details.open
    /\ Render([ui EXCEPT !.details = Closed(@)], url, tasks)

\* Mutant: a host without a text is saved.
SubmitUnvalidated ==
    /\ ClickDuring("details", {"hosts", "table", "delete"}) /\ ui.details.open /\ ~ui.details.saving
    /\ HasRoom(tasks)
    /\ LET d == ui.details
           request == IF d.editing /\ d.selected # None THEN updateHost(d.selected.id, d.form)
                      ELSE createHost(d.form)
       IN  tasks' = Begin(tasks, Task("save", <<>>, {request}))
    /\ ui' = [ui EXCEPT !.details.saving = TRUE]
    /\ UNCHANGED url

handleSaveHost ==
    /\ ClickDuring("details", {"hosts", "table", "delete"}) /\ ui.details.open /\ ~ui.details.saving
    /\ ui.details.form # Blank
    /\ HasRoom(tasks)
    /\ LET d == ui.details
           request == IF d.editing /\ d.selected # None THEN updateHost(d.selected.id, d.form)
                      ELSE createHost(d.form)
       IN  tasks' = Begin(tasks, Task("save", <<>>, {request}))
    /\ ui' = [ui EXCEPT !.details.saving = TRUE]
    /\ UNCHANGED url

\* A row, or its button for keys, puts the host into the URL alone: the page selects it
\* when it has fetched the hosts, and no tab has the attribute the button looks for.
handleViewKeys(h) ==
    /\ url.tab = "details" /\ Uncovered /\ h \in DOMAIN ui.details.hosts \ {url.id}
    /\ LET u == [url EXCEPT !.id = h] IN Moves(u) /\ Render(ui, u, tasks)

handleDeleteClick(h) ==
    /\ ClickOn("details") /\ Uncovered /\ h \in DOMAIN ui.details.hosts
    /\ Render([ui EXCEPT !.details = [@ EXCEPT !.toDelete = h, !.confirm = TRUE]], url, tasks)

CancelDelete ==
    /\ ClickOn("details") /\ ui.details.confirm
    /\ Render([ui EXCEPT !.details.confirm = FALSE], url, tasks)

\* Nothing is disabled while a host is deleted, and a modal that was closed while it saved
\* leaves the way free: the user waits for one write before the next.
handleDeleteHost ==
    /\ ClickDuring("details", {"hosts", "table", "save", "delete"}) /\ ui.details.confirm /\ ui.details.toDelete # None
    /\ HasRoom(tasks)
    /\ Render(ui, url, Begin(tasks, Task("delete", <<>>, {deleteHost(ui.details.toDelete)})))

-----------------------------------------------------------------------------
(* The tab of keys, there with a host selected.                            *)

Selected == ui.page.selected
OnKeys == ClickOn("keys") /\ Selected # None

handleOpenForm ==
    /\ OnKeys /\ Uncovered /\ ~ui.keys.loading
    /\ Render([ui EXCEPT !.keys.form = "new"], url, tasks)

\* The table is there while keys load, as far as it holds any.
handleEditKey(y) ==
    /\ OnKeys /\ Uncovered /\ y \in ui.keys.list
    /\ Render([ui EXCEPT !.keys.form = y], url, tasks)

handleCloseForm ==
    /\ OnKeys /\ Uncovered /\ ui.keys.form # None
    /\ Render([ui EXCEPT !.keys.form = None], url, tasks)

handleSubmitForm ==
    /\ OnKeys /\ Uncovered /\ ui.keys.form # None /\ ~ui.keys.loading
    /\ HasRoom(tasks)
    /\ LET request == IF ui.keys.form = "new" THEN generateKeyForHost(Selected)
                      ELSE updateKey(Selected, ui.keys.form)
       IN  Render([ui EXCEPT !.keys.loading = TRUE], url,
                  Begin(tasks, Task("submit", [host |-> Selected], {request})))

handleViewKey(y) ==
    /\ OnKeys /\ Uncovered /\ y \in ui.keys.list
    /\ Render([ui EXCEPT !.keys.shown = y], url, tasks)

handleCloseKeyDetailsModal ==
    /\ OnKeys /\ ui.keys.shown # None
    /\ Render([ui EXCEPT !.keys.shown = None], url, tasks)

AskDelete(y) ==
    /\ OnKeys /\ Uncovered /\ y \in ui.keys.list
    /\ Render([ui EXCEPT !.keys.confirm = y], url, tasks)

closeKeyConfirmation ==
    /\ OnKeys /\ ui.keys.confirm # None /\ ui.keys.shown = None /\ ~ui.keys.loading
    /\ Render([ui EXCEPT !.keys.confirm = None], url, tasks)

handleConfirmDelete ==
    /\ OnKeys /\ ui.keys.confirm # None /\ ui.keys.shown = None /\ ~ui.keys.loading
    /\ HasRoom(tasks)
    /\ Render([ui EXCEPT !.keys.loading = TRUE], url,
              Begin(tasks, Task("revoke", [host |-> Selected], {deleteKey(Selected, ui.keys.confirm)})))

-----------------------------------------------------------------------------
(* The tab of plugins, there with a host selected.                         *)

OnPlugins == ClickOn("plugins") /\ Selected # None

handleAddPlugin(p) ==
    /\ OnPlugins /\ Uncovered /\ ~ui.plugins.loading
    /\ p \notin ui.plugins.assigned /\ HasRoom(tasks)
    /\ Render([ui EXCEPT !.plugins.loading = TRUE], url,
              Begin(tasks, Task("plug", [host |-> Selected, then |-> "nothing"], {addPluginToHost(Selected, p)})))

showRemoveConfirmation(p) ==
    /\ OnPlugins /\ Uncovered /\ ~ui.plugins.loading /\ p \in ui.plugins.assigned
    /\ Render([ui EXCEPT !.plugins.confirm = p], url, tasks)

closeConfirmation ==
    /\ OnPlugins /\ ui.plugins.confirm # None /\ ~ui.plugins.loading
    /\ Render([ui EXCEPT !.plugins.confirm = None], url, tasks)

handleRemovePlugin ==
    /\ OnPlugins /\ ui.plugins.confirm # None /\ ~ui.plugins.loading
    /\ HasRoom(tasks)
    /\ Render([ui EXCEPT !.plugins.loading = TRUE], url,
              Begin(tasks, Task("plug", [host |-> Selected, then |-> "unconfirm"],
                                {removePluginFromHost(Selected, ui.plugins.confirm)})))

-----------------------------------------------------------------------------
(* The handlers after their awaits.                                        *)

Stay == UNCHANGED <<db, events, failed, hasty, left>>
StayUnseen == Stay /\ UNCHANGED seen

Answered(k, at) == At(k, {at}) /\ tasks[k].sent = {}

\* The page selects the host that was in the URL when the fetch began.
HostsFetched(k) ==
    /\ Answered(k, "hosts")
    /\ LET hosts == Data(tasks[k], getAllHosts)
           id == tasks[k].arg.id
           p == [ui.page EXCEPT !.loading = FALSE]
       IN  Render([ui EXCEPT !.page = IF Threw(tasks[k]) THEN p
                                      ELSE [p EXCEPT !.hosts = DOMAIN hosts,
                                                     !.selected = IF id \in DOMAIN hosts THEN id ELSE @]],
                  url, End(tasks, k))
    /\ StayUnseen

TableFetched(k) ==
    /\ Answered(k, "table")
    /\ LET d == [ui.details EXCEPT !.loading = FALSE] IN
       Render([ui EXCEPT !.details = IF Threw(tasks[k]) THEN d
                                     ELSE [d EXCEPT !.hosts = Data(tasks[k], getAllHosts)]],
              url, End(tasks, k))
    /\ StayUnseen

\* handleSaveHost and handleDeleteHost do not wait for the table they fetch again.
Refetch(k) == IF Threw(tasks[k]) \/ ~tasks[k].live THEN End(tasks, k) ELSE [tasks EXCEPT ![k] = fetchTable]

\* The modal closes after a failure too: handleSaveHost has swallowed it.
SaveAnswered(k) ==
    /\ Answered(k, "save")
    /\ LET d == [Closed(ui.details) EXCEPT !.saving = FALSE, !.loading = @ \/ ~Threw(tasks[k])] IN
       Render(Show(k, [ui EXCEPT !.details = d]), url, Refetch(k))
    /\ StayUnseen

DeleteAnswered(k) ==
    /\ Answered(k, "delete")
    /\ LET d == [ui.details EXCEPT !.confirm = FALSE, !.toDelete = None, !.loading = @ \/ ~Threw(tasks[k])] IN
       Render(Show(k, [ui EXCEPT !.details = d]), url, Refetch(k))
    /\ StayUnseen

\* A list of keys for the host the fetch began with is shown, whichever is selected now.
KeysFetched(k) ==
    /\ Answered(k, "keys")
    /\ LET arg == tasks[k].arg
           y == [ui.keys EXCEPT !.loading = FALSE,
                                !.list = IF Threw(tasks[k]) THEN @ ELSE Data(tasks[k], getKeysForHost(arg.host)),
                                !.form = IF arg.then = "closeForm" THEN None ELSE @,
                                !.confirm = IF arg.then = "unconfirm" THEN None ELSE @]
       IN  Render([ui EXCEPT !.keys = y], url, End(tasks, k))
    /\ StayUnseen

\* Mutant: the answer is dropped when another host is selected by then.
SubmitIfSameHost(k) ==
    /\ Answered(k, "submit")
    /\ LET generated == {Data(tasks[k], r) : r \in {q \in DOMAIN tasks[k].got :
                                           tasks[k].got[q].ok /\ q[1] = "generateKeyForHost"}}
           here == tasks[k].live /\ ui.page.selected = tasks[k].arg.host
           goesOn == here /\ ~Threw(tasks[k])
       IN  /\ Render(Show(k, [ui EXCEPT !.keys.loading = goesOn,
                                        !.keys.shown = IF here /\ generated # {}
                                                       THEN CHOOSE y \in generated : TRUE ELSE @]),
                     url,
                     IF goesOn THEN [tasks EXCEPT ![k] = fetchKeys(@.arg.host, "closeForm")] ELSE End(tasks, k))
           /\ seen' = IF here THEN seen \cup generated ELSE seen
    /\ Stay

\* A generated key comes with its secret and is shown at once.
SubmitAnswered(k) ==
    /\ Answered(k, "submit")
    /\ LET generated == {Data(tasks[k], r) : r \in {q \in DOMAIN tasks[k].got :
                                           tasks[k].got[q].ok /\ q[1] = "generateKeyForHost"}}
           goesOn == tasks[k].live /\ ~Threw(tasks[k])
       IN  /\ Render(Show(k, [ui EXCEPT !.keys.loading = ~Threw(tasks[k]),
                                        !.keys.shown = IF generated = {} THEN @
                                                       ELSE CHOOSE y \in generated : TRUE]),
                     url,
                     IF goesOn THEN [tasks EXCEPT ![k] = fetchKeys(@.arg.host, "closeForm")] ELSE End(tasks, k))
           /\ seen' = IF tasks[k].live THEN seen \cup generated ELSE seen
    /\ Stay

\* Mutant: the keys are not fetched again after one was deleted.
RevokeUnlisted(k) ==
    /\ Answered(k, "revoke")
    /\ Render(Show(k, [ui EXCEPT !.keys.loading = FALSE, !.keys.confirm = None]), url, End(tasks, k))
    /\ StayUnseen

RevokeAnswered(k) ==
    /\ Answered(k, "revoke")
    /\ LET goesOn == tasks[k].live /\ ~Threw(tasks[k])
           y == [ui.keys EXCEPT !.loading = goesOn, !.confirm = IF goesOn THEN @ ELSE None]
       IN  Render(Show(k, [ui EXCEPT !.keys = y]), url,
                  IF goesOn THEN [tasks EXCEPT ![k] = fetchKeys(@.arg.host, "unconfirm")] ELSE End(tasks, k))
    /\ StayUnseen

PluginsFetched(k) ==
    /\ Answered(k, "plugins")
    /\ LET arg == tasks[k].arg
           g == [ui.plugins EXCEPT !.loading = FALSE,
                    !.assigned = IF Threw(tasks[k]) THEN @ ELSE Data(tasks[k], getPluginsForHost(arg.host)),
                    !.confirm = IF arg.then = "unconfirm" THEN None ELSE @]
       IN  Render([ui EXCEPT !.plugins = g], url, End(tasks, k))
    /\ StayUnseen

PlugAnswered(k) ==
    /\ Answered(k, "plug")
    /\ LET arg == tasks[k].arg
           goesOn == tasks[k].live /\ ~Threw(tasks[k])
           closes == ~goesOn /\ arg.then = "unconfirm"
           g == [ui.plugins EXCEPT !.loading = goesOn, !.confirm = IF closes THEN None ELSE @]
       IN  Render(Show(k, [ui EXCEPT !.plugins = g]), url,
                  IF goesOn THEN [tasks EXCEPT ![k] = fetchPlugins(arg.host, arg.then)] ELSE End(tasks, k))
    /\ StayUnseen

-----------------------------------------------------------------------------
(* The next-state relation.                                                *)

PageTabs == {"details", "keys", "plugins"}

ClickStep ==
    \/ \E t \in PageTabs : handleTabChange(t)
    \/ \E h \in Hosts \cup {Temp} : handleSelectHost(h)
    \/ \E h \in Hosts : handleEditHost(h) \/ handleDeleteClick(h) \/ handleViewKeys(h)
    \/ handleCreateHost \/ handleAddHost \/ TypeText \/ handleCloseModal \/ handleSaveHost
    \/ CancelDelete \/ handleDeleteHost
    \/ \E y \in Keys : handleEditKey(y) \/ handleViewKey(y) \/ AskDelete(y)
    \/ handleOpenForm \/ handleCloseForm \/ handleSubmitForm \/ handleCloseKeyDetailsModal
    \/ closeKeyConfirmation \/ handleConfirmDelete
    \/ \E p \in Plugins : handleAddPlugin(p) \/ showRemoveConfirmation(p)
    \/ closeConfirmation \/ handleRemovePlugin

HandlerStep(k) ==
    \/ HostsFetched(k) \/ TableFetched(k) \/ SaveAnswered(k) \/ DeleteAnswered(k)
    \/ KeysFetched(k) \/ SubmitAnswered(k) \/ RevokeAnswered(k)
    \/ PluginsFetched(k) \/ PlugAnswered(k)

Next ==
    \/ ClickStep
    \/ \E u \in [id : (db.given \cap Hosts) \cup {None}, tab : PageTabs] : Back(u)
    \/ \E k \in Slots : HandlerStep(k) \/ \E r \in tasks[k].sent : Serve(k, r) \/ Fail(k, r)

Spec == Init /\ [][Next]_vars

-----------------------------------------------------------------------------
(* Properties.                                                             *)

Texts == Hosts \cup {Typed}
HostIds == Hosts \cup {None, Temp}

\* The user waited for every handler before going elsewhere, and no request failed.
Undisturbed == ~Busy /\ ~hasty /\ ~failed

\* Every variable keeps its type: no host is saved without a text, and what the page
\* shows are hosts, keys and plugins the services returned.
TypeOK ==
    /\ Existing \subseteq db.given /\ \A h \in Existing : db.hosts[h] \in Texts
    /\ DOMAIN db.keys \subseteq Keys /\ \A y \in DOMAIN db.keys : db.keys[y] \in Existing
    /\ \A l \in DOMAIN db.links : db.links[l] \in Nat
    /\ url.id \in HostIds /\ url.tab \in PageTabs
    /\ ui.page.hosts \subseteq Hosts \cup {Temp} /\ ui.page.selected \in HostIds
    /\ DOMAIN ui.details.hosts \subseteq Hosts /\ ui.details.form \in Texts \cup {Blank}
    /\ ui.keys.list \subseteq Keys /\ ui.keys.form \in Keys \cup {None, "new"}
    /\ ui.plugins.assigned \subseteq Plugins

\* The table of hosts is the server's when no handler runs, after adding, editing and
\* deleting hosts although those handlers do not wait for it.
TableIsTrue == (Undisturbed /\ url.tab = "details") => ui.details.hosts = db.hosts

\* The modal's form follows the host that is edited through every closing, opening and
\* late answer: no host, those created on the page included, is ever saved with the text of
\* another, only with the one it began with or one the user typed.  (That typed text can
\* be lost to a late render is not told apart.)
EditedIsUpdated == \A h \in Existing : db.hosts[h] \in {h, Typed}

\* The keys on the screen are those of the selected host.
KeysAreTrue ==
    (Undisturbed /\ url.tab = "keys" /\ Selected \in Existing) => ui.keys.list = KeysOf(Selected)

\* KeyDetailsModal says "This is the only time you will see the Host ID and Secret":
\* the secret of every generated key does come to the screen, also when another host
\* is selected meanwhile, as long as the user stays on the tab and no request fails.
SecretsAreSeen ==
    (~Busy /\ ~left /\ ~failed) => DOMAIN db.keys \subseteq seen

\* The plugins on the screen are those of the selected host, and each is linked once.
PluginsAreTrue ==
    (Undisturbed /\ url.tab = "plugins" /\ Selected \in Existing) =>
        ui.plugins.assigned = PluginsOf(Selected)

\* The server would link a plugin to a host twice, and then a removal would leave it
\* there: the tab never asks for it, as long as no request fails and the user waits.
LinkedOnce == (~hasty /\ ~failed) => \A l \in DOMAIN db.links : db.links[l] <= 1

\* No handler ends without its spinner, whatever overlaps and fails.
SpinnersEnd ==
    ~Busy => /\ ~ui.page.loading
             /\ url.tab = "details" => ~ui.details.loading /\ ~ui.details.saving
             /\ url.tab = "keys" => ~ui.keys.loading
             /\ url.tab = "plugins" => ~ui.plugins.loading

\* What the screen shows when nothing runs any more is what the server holds, and no
\* spinner is left: the table, and the keys and plugins of the selected host.
ShownIsTrue == TableIsTrue /\ KeysAreTrue /\ PluginsAreTrue /\ SpinnersEnd

\* What is written is what the user meant: to every host its own text or a typed one, and
\* each plugin linked once.
SavesAreMeant == EditedIsUpdated /\ LinkedOnce

=============================================================================
