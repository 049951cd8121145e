---------------------------- MODULE SettingsPage ----------------------------
(***************************************************************************)
(* The Settings page of the management UI: a tab with the authorizers of   *)
(* the owner and one with the connections, each a list at its side and the *)
(* details or the form of the selected record.  The two tabs are the same  *)
(* but for their services, and only one is mounted.  The form does not     *)
(* cover the list.  The tab of connections is there when the tab of        *)
(* authorizers has last found any.                                         *)
(***************************************************************************)
EXTENDS Requests, Sequences

CONSTANTS
    Authorizers, Connections,   \* ids the records can have
    InitialAuthorizers,         \* the authorizers there are at first, if there are any
    InitialConnections,         \* the connections there are at first
    None,                       \* null, undefined or absent
    Blank,                      \* an empty form
    Typed,                      \* what the user types into a form
    MaxEvents                   \* bound: clicks, steps in the browser's history
                                \*   and failures of requests, all together

\* Null is no id, no tab and no record.
ASSUME SettingsAssumption ==
    /\ InitialAuthorizers \subseteq Authorizers /\ InitialConnections \subseteq Connections
    /\ IsFiniteSet(InitialAuthorizers \cup InitialConnections)
    /\ Authorizers \cap Connections = {}
    /\ None \notin Authorizers \cup Connections \cup {"authorizers", "connections"}
    /\ None \notin [id : Authorizers \cup Connections, text : Authorizers \cup Connections \cup {Typed}]

VARIABLES
    db,         \* the server: the records of each tab with their texts, ids ever given
    url,        \* the search parameter tab
    ui,         \* state of the page, and of the tab that is mounted
    tasks,
    events,
    failed,     \* a request has failed, or was refused
    hasty,      \* the user has clicked while a handler was running
    due         \* records there were at first, and forms opened for a new one

vars == <<db, url, ui, tasks, events, failed, hasty, due>>

PageTabs == {"authorizers", "connections"}
Ids == [authorizers |-> Authorizers, connections |-> Connections]
Records(t) == db.records[t]

-----------------------------------------------------------------------------
(* The services, and what the server does with their requests.  dataService *)
(* asks for authorizers and connections besides, to join the names of the  *)
(* ones to the others; the server keeps no authorizer with a connection,   *)
(* so that these requests show nothing, and they are not modelled.         *)

getAll(t) == <<"getAll", t>>
getById(t, id) == <<"getById", t, id>>
create(t, text) == <<"create", t, text>>
update(t, id, text) == <<"update", t, id, text>>
delete(t, id) == <<"delete", t, id>>

Accepts(r) == r[1] \in {"getById", "update", "delete"} => r[3] \in DOMAIN Records(r[2])

Fresh(t) == CHOOSE id \in Ids[t] : id \notin db.given

HasId(r) == r[1] = "create" => ~(Ids[r[2]] \subseteq db.given)

\* The records after a request that was accepted.
Effect(r) ==
    CASE r[1] = "create" ->
            [db EXCEPT !.records[r[2]] = With(@, Fresh(r[2]), r[3]), !.given = @ \cup {Fresh(r[2])}]
      [] r[1] = "update" -> [db EXCEPT !.records[r[2]][r[3]] = r[4]]
      [] r[1] = "delete" -> [db EXCEPT !.records[r[2]] = [id \in DOMAIN @ \ {r[3]} |-> @[id]]]
      [] OTHER -> db

Returns(r) ==
    CASE r[1] = "getAll" -> Records(r[2])
      [] r[1] = "getById" -> [id |-> r[3], text |-> Records(r[2])[r[3]]]
      [] r[1] = "create" -> Fresh(r[2])
      [] OTHER -> None

Serve(k, r) ==
    /\ r \in tasks[k].sent /\ HasId(r)
    /\ IF Accepts(r)
       THEN db' = Effect(r) /\ tasks' = Receive(tasks, k, r, Ok(Returns(r))) /\ UNCHANGED failed
       ELSE db' = db /\ tasks' = Receive(tasks, k, r, Failure) /\ failed' = TRUE
    /\ UNCHANGED <<url, ui, events, hasty, due>>

Event == events < MaxEvents /\ events' = events + 1

\* The request does not reach the server, or its answer is lost.
Fail(k, r) ==
    /\ r \in tasks[k].sent /\ HasId(r)
    /\ Event
    /\ failed' = TRUE
    /\ db' \in {db} \cup (IF Accepts(r) THEN {Effect(r)} ELSE {})
    /\ tasks' = Receive(tasks, k, r, Failure)
    /\ UNCHANGED <<url, ui, hasty, due>>

-----------------------------------------------------------------------------
(* Rendering.                                                              *)

NoView == [list |-> <<>>, choices |-> {}, id |-> None, selected |-> None, loading |-> FALSE,
           open |-> FALSE, form |-> Blank, temp |-> FALSE, confirm |-> None]

Mounted(s) == IF s.tab = "connections" /\ ~s.hasAuthorizers THEN None ELSE s.tab
Here == Mounted(ui)

\* What a handler does after a fetch is named by "then".
fetchList(t, then, id) == Task("list", [tab |-> t, then |-> then, id |-> id], {getAll(t)})
fetchDetails(t, id, then) == Task("details", [tab |-> t, then |-> then, id |-> id], {getById(t, id)})
fetchAuthorizers == Task("choices", <<>>, {getAll("authorizers")})

\* The handlers of a tab that go on after it is gone: the page wants to know from a list
\* of authorizers whether there are any, other fetches do not matter.
Unmounted(ts) ==
    [k \in Slots |-> IF \/ ts[k].at \in {"details", "choices"}
                        \/ ts[k].at = "list" /\ ts[k].arg.tab = "connections"
                     THEN Idle ELSE [ts[k] EXCEPT !.live = FALSE]]

Fill(v) == IF v.selected = None THEN Blank ELSE v.selected.text

\* Mutant: the form keeps the text it was first filled with.
FormFilledOnce(v, was) ==
    CASE ~v.open -> [v EXCEPT !.form = Blank]
      [] v.open /\ ~was.open -> [v EXCEPT !.form = Fill(v)]
      [] OTHER -> v

\* The form fills itself when it comes, and from initialData, which is a new object with
\* every render of the tab while there is a selected record.
FormFilled(v, was) ==
    CASE ~v.open -> [v EXCEPT !.form = Blank]
      [] v.open /\ (~was.open \/ v.selected # None) -> [v EXCEPT !.form = Fill(v)]
      [] OTHER -> v

\* A tab that comes starts anew and fetches, and one with a new selection fetches it.
Effects(s) ==
    LET t == Mounted(s) IN
    CASE t \notin {None, Here} ->
            IF t = "connections" THEN <<fetchList(t, "nothing", None), fetchAuthorizers>>
            ELSE <<fetchList(t, "nothing", None)>>
      [] t # None /\ t = Here /\ s.view.id \notin {None, ui.view.id} ->
            <<fetchDetails(t, s.view.id, "nothing")>>
      [] OTHER -> <<>>

WithEffects(s) ==
    LET t == Mounted(s)
        v == [s.view EXCEPT !.selected = IF s.view.id = None /\ ui.view.id # None THEN None ELSE @,
                            !.loading = @ \/ s.view.id \notin {None, ui.view.id}]
    IN  IF t # Here THEN [s EXCEPT !.view = [NoView EXCEPT !.loading = t # None]]
        ELSE [s EXCEPT !.view = FormFilled(v, ui.view)]

\* In the order of the effects; there are two at most.
BeginAll(ts, es) ==
    CASE Len(es) = 0 -> ts
      [] Len(es) = 1 -> Begin(ts, es[1])
      [] Len(es) = 2 -> Begin(Begin(ts, es[1]), es[2])

\* New state s0 of the page and its tab, search parameter u and tasks ts. The page takes
\* its tab from a search parameter that is there.
Render(s0, u, ts) ==
    LET s == IF u \in {url, None} THEN s0 ELSE [s0 EXCEPT !.tab = u]
        kept == IF Mounted(s) # Here THEN Unmounted(ts) ELSE ts
    IN  /\ Len(Effects(s)) <= Cardinality(Free(kept))
        /\ url' = u
        /\ ui' = WithEffects(s)
        /\ tasks' = BeginAll(kept, Effects(s))

\* What task k does to the state of its tab, if that is still mounted.
Show(k, s) == IF tasks[k].live THEN s ELSE ui

Answered(k, at) == tasks[k].at = at /\ tasks[k].sent = {}

Init ==
    \E begin \in {{}, InitialAuthorizers}, u \in PageTabs \cup {None} :
        LET t == IF u = "connections" THEN None ELSE "authorizers" IN
        /\ db = [records |-> [authorizers |-> [a \in begin |-> a],
                              connections |-> [c \in InitialConnections |-> c]],
                 given |-> begin \cup InitialConnections]
        /\ url = u
        /\ ui = [tab |-> IF u = None THEN "authorizers" ELSE u, hasAuthorizers |-> FALSE,
                 view |-> [NoView EXCEPT !.loading = t # None]]
        /\ tasks = IF t = None THEN [k \in Slots |-> Idle]
                   ELSE Begin([k \in Slots |-> Idle], fetchList(t, "nothing", None))
        /\ events = 0 /\ due = Cardinality(begin \cup InitialConnections)
        /\ failed = FALSE /\ hasty = FALSE

-----------------------------------------------------------------------------
(* Clicks.  The question whether to delete covers the page.                *)

Busy == Running(tasks) # {}
View == ui.view

Click == Event /\ View.confirm = None /\ hasty' = (hasty \/ Busy) /\ UNCHANGED <<db, failed>>
OnTab == Click /\ Here # None
Shows(v) == Render([ui EXCEPT !.view = v], url, tasks)

handleTabChange(t) ==
    /\ Click /\ t # ui.tab
    /\ Render([ui EXCEPT !.tab = t], t, tasks)
    /\ UNCHANGED due

\* The browser goes back or forward to another entry of the page.
Back(u) ==
    /\ u # url
    /\ Event /\ hasty' = (hasty \/ Busy)
    /\ Render(ui, u, tasks)
    /\ UNCHANGED <<db, failed, due>>

handleSelect(id) ==
    /\ OnTab /\ ~View.loading /\ id \in DOMAIN View.list /\ id # View.id
    /\ Shows([View EXCEPT !.id = id])
    /\ UNCHANGED due

\* The buttons of the list and of the empty tab, while anything is being fetched too.
handleAdd ==
    /\ OnTab /\ (~View.temp \/ (~View.open /\ View.selected = None))
    /\ Shows([View EXCEPT !.id = None, !.selected = None, !.open = TRUE, !.temp = TRUE])
    /\ due' = due + 1

handleEdit ==
    /\ OnTab /\ ~View.open /\ View.selected # None
    /\ Shows([View EXCEPT !.open = TRUE])
    /\ UNCHANGED due

\* A connection needs an authorizer, one of those the tab has found.
TypeText ==
    /\ OnTab /\ View.open /\ ~View.loading /\ View.form # Typed
    /\ Here = "connections" => View.choices # {}
    /\ ui' = [ui EXCEPT !.view.form = Typed]
    /\ UNCHANGED <<url, tasks, due>>

Closed(v) == [v EXCEPT !.open = FALSE, !.temp = FALSE]

handleCloseForm ==
    /\ OnTab /\ View.open /\ ~View.loading
    /\ Shows(Closed(View))
    /\ UNCHANGED due

\* The user goes on with what is on the screen.
GoesOn == Event /\ Here # None /\ UNCHANGED <<db, failed, hasty, due>>

Starts(at, id, request) ==
    /\ HasRoom(tasks)
    /\ Render([ui EXCEPT !.view.loading = TRUE], url,
              Begin(tasks, Task(at, [tab |-> Here, id |-> id], {request})))

BeginSave ==
    Starts("save", View.id, IF View.selected = None THEN create(Here, View.form)
                            ELSE update(Here, View.selected.id, View.form))

\* No connection comes with an authorizer: it has to be chosen anew to save the form.
Valid == IF Here = "connections" THEN View.form = Typed ELSE View.form # Blank

\* Mutant: a record without a text is saved.
SaveUnvalidated == GoesOn /\ View.confirm = None /\ View.open /\ ~View.loading /\ BeginSave
handleSave == GoesOn /\ View.confirm = None /\ View.open /\ ~View.loading /\ Valid /\ BeginSave

showDeleteConfirmation ==
    /\ OnTab /\ ~View.open /\ View.selected # None
    /\ Shows([View EXCEPT !.confirm = View.selected.id])
    /\ UNCHANGED due

closeConfirmation ==
    /\ GoesOn /\ View.confirm # None /\ ~View.loading
    /\ Shows([View EXCEPT !.confirm = None])

handleConfirmDelete ==
    /\ GoesOn /\ View.confirm # None /\ ~View.loading
    /\ Starts("delete", View.confirm, delete(Here, View.confirm))

-----------------------------------------------------------------------------
(* The handlers after their awaits.                                        *)

Stay == UNCHANGED <<db, events, failed, hasty, due>>

\* A handler goes on with the list, unless that is of connections and their tab is gone.
ToList(k, then) ==
    LET arg == tasks[k].arg
        list == [fetchList(arg.tab, then, arg.id) EXCEPT !.live = tasks[k].live]
    IN  IF tasks[k].live \/ arg.tab = "authorizers" THEN [tasks EXCEPT ![k] = list] ELSE End(tasks, k)

SaveFailed(k) ==
    /\ Answered(k, "save") /\ Threw(tasks[k])
    /\ Render(Show(k, [ui EXCEPT !.view.loading = FALSE]), url, End(tasks, k))
    /\ Stay

\* A new record is selected at once.
SaveAnswered(k) ==
    /\ Answered(k, "save") /\ ~Threw(tasks[k])
    /\ \E r \in DOMAIN tasks[k].got :
        LET v == [View EXCEPT !.loading = TRUE,
                              !.id = IF r[1] = "create" THEN Data(tasks[k], r) ELSE @]
        IN  Render(Show(k, [ui EXCEPT !.view = v]), url, ToList(k, "save"))
    /\ Stay

DeleteFailed(k) ==
    /\ Answered(k, "delete") /\ Threw(tasks[k])
    /\ Render(Show(k, [ui EXCEPT !.view = [@ EXCEPT !.loading = FALSE, !.confirm = None]]), url, End(tasks, k))
    /\ Stay

DeleteAnswered(k) ==
    /\ Answered(k, "delete") /\ ~Threw(tasks[k])
    /\ LET v == [View EXCEPT !.loading = TRUE, !.id = None, !.selected = None] IN
       Render(Show(k, [ui EXCEPT !.view = v]), url, ToList(k, "delete"))
    /\ Stay

\* What the page and the tab take from the list that task k has fetched. A list that
\* could not be fetched leaves the page its opinion of whether there are authorizers.
Told(k) ==
    IF Threw(tasks[k]) \/ tasks[k].arg.tab # "authorizers" THEN ui.hasAuthorizers
    ELSE DOMAIN Data(tasks[k], getAll("authorizers")) # {}

ToldOnce(k) == IF tasks[k].arg.then = "nothing" THEN Told(k) ELSE ui.hasAuthorizers

Listed(k) ==
    [View EXCEPT !.loading = FALSE,
                 !.list = IF Threw(tasks[k]) THEN @ ELSE Data(tasks[k], getAll(tasks[k].arg.tab))]

\* After a save the tab fetches the details of the record that was selected then.
ToDetails(k) == tasks[k].live /\ tasks[k].arg.then = "save" /\ tasks[k].arg.id # None

\* Mutant: the page is not told of the authorizers.
ListFetchedUntold(k) ==
    /\ Answered(k, "list") /\ ~ToDetails(k)
    /\ LET v == CASE tasks[k].arg.then = "save" -> Closed(Listed(k))
                  [] tasks[k].arg.then = "delete" -> [Listed(k) EXCEPT !.confirm = None]
                  [] OTHER -> Listed(k)
           s == Show(k, [ui EXCEPT !.view = v])
       IN  Render([s EXCEPT !.hasAuthorizers = ToldOnce(k)], url, End(tasks, k))
    /\ Stay

ListFetched(k) ==
    /\ Answered(k, "list") /\ ~ToDetails(k)
    /\ LET v == CASE tasks[k].arg.then = "save" -> Closed(Listed(k))
                  [] tasks[k].arg.then = "delete" -> [Listed(k) EXCEPT !.confirm = None]
                  [] OTHER -> Listed(k)
           s == Show(k, [ui EXCEPT !.view = v])
       IN  Render([s EXCEPT !.hasAuthorizers = Told(k)], url, End(tasks, k))
    /\ Stay

ListedAgain(k) ==
    /\ Answered(k, "list") /\ ToDetails(k)
    /\ LET arg == tasks[k].arg IN
       Render([ui EXCEPT !.view = [Listed(k) EXCEPT !.loading = TRUE], !.hasAuthorizers = Told(k)], url,
              [tasks EXCEPT ![k] = fetchDetails(arg.tab, arg.id, "save")])
    /\ Stay

\* The details of the record the fetch began with are shown, whichever is selected now.
DetailsFetched(k) ==
    /\ Answered(k, "details")
    /\ LET arg == tasks[k].arg
           v == [View EXCEPT !.loading = FALSE,
                    !.selected = IF Threw(tasks[k]) THEN @ ELSE Data(tasks[k], getById(arg.tab, arg.id))]
       IN  Render([ui EXCEPT !.view = IF arg.then = "save" THEN Closed(v) ELSE v], url, End(tasks, k))
    /\ Stay

ChoicesFetched(k) ==
    /\ Answered(k, "choices")
    /\ LET found == IF Threw(tasks[k]) THEN View.choices ELSE DOMAIN Data(tasks[k], getAll("authorizers")) IN
       Render([ui EXCEPT !.view.choices = found], url, End(tasks, k))
    /\ Stay

-----------------------------------------------------------------------------
(* The next-state relation.                                                *)

ClickStep ==
    \/ \E t \in PageTabs : handleTabChange(t)
    \/ \E id \in Authorizers \cup Connections : handleSelect(id)
    \/ handleAdd \/ handleEdit \/ TypeText \/ handleCloseForm \/ handleSave
    \/ showDeleteConfirmation \/ closeConfirmation \/ handleConfirmDelete

HandlerStep(k) ==
    \/ SaveFailed(k) \/ SaveAnswered(k) \/ DeleteFailed(k) \/ DeleteAnswered(k)
    \/ ListFetched(k) \/ ListedAgain(k) \/ DetailsFetched(k) \/ ChoicesFetched(k)

Next ==
    \/ ClickStep
    \/ \E u \in PageTabs \cup {None} : Back(u)
    \/ \E k \in Slots : HandlerStep(k) \/ \E r \in tasks[k].sent : Serve(k, r) \/ Fail(k, r)

Spec == Init /\ [][Next]_vars

-----------------------------------------------------------------------------
(* Properties.                                                             *)

Texts == Authorizers \cup Connections \cup {Typed}

\* The user waited for every handler, and no request failed.
Undisturbed == ~Busy /\ ~hasty /\ ~failed

\* Every variable keeps its type: no record is saved without a text, and what a tab shows
\* are records of its own kind.
TypeOK ==
    /\ \A t \in PageTabs : /\ DOMAIN Records(t) \subseteq Ids[t]
                           /\ \A id \in DOMAIN Records(t) : Records(t)[id] \in Texts
    /\ url \in PageTabs \cup {None} /\ ui.tab \in PageTabs /\ ui.hasAuthorizers \in BOOLEAN
    /\ Here = None => View = NoView
    /\ Here # None => /\ DOMAIN View.list \subseteq Ids[Here]
                      /\ View.id \in Ids[Here] \cup {None}
                      /\ View.selected \in {None} \cup [id : Ids[Here], text : Texts]
                      /\ View.confirm \in Ids[Here] \cup {None}
    /\ View.choices \subseteq Authorizers /\ View.form \in Texts \cup {Blank}
    /\ View.temp => View.open

\* The list of the tab is the server's after every handler.
ListIsTrue == (Undisturbed /\ Here # None) => View.list = Records(Here)

\* The record that can be edited and deleted on the screen is the selected one, as it is
\* on the server, after records were added, edited and deleted and the form was open for
\* one while another was chosen in the list.
DetailsAreTrue ==
    (Undisturbed /\ Here # None) =>
        IF View.id = None THEN View.selected = None
        ELSE /\ View.id \in DOMAIN Records(Here)
             /\ View.selected = [id |-> View.id, text |-> Records(Here)[View.id]]

\* The form stays open while another record is chosen and its details arrive, and still no
\* update gives an authorizer that was there at first the text of another.  Nothing is said
\* of authorizers created meanwhile, and could not be: New Authorizer leaves the text of
\* the one that was being edited in the form (AuthorizerForm's effect keeps it when there
\* is no authorizer), and Save creates an authorizer with it.
EditedIsUpdated ==
    \A a \in InitialAuthorizers \cap DOMAIN Records("authorizers") :
        Records("authorizers")[a] \in {a, Typed}

\* Every record created answers a form that was opened for it, unless the user clicked
\* elsewhere while a handler ran or a request failed.
CreatedOnce == (~hasty /\ ~failed) => Cardinality(db.given) <= due

\* The page opens the tab of connections only when there are authorizers, and the tab of
\* authorizers opens it as soon as there is one.
GateIsTrue ==
    Undisturbed => /\ ui.hasAuthorizers => Records("authorizers") # <<>>
                   /\ ui.tab = "authorizers" => ui.hasAuthorizers = (Records("authorizers") # <<>>)

\* No handler ends without its spinner, whatever overlaps and fails.
SpinnersEnd == ~Busy => ~View.loading

\* What the screen shows when nothing runs any more is what the server holds, and no
\* spinner is left: the list, the selected record and the way to the other tab.
ShownIsTrue == ListIsTrue /\ DetailsAreTrue /\ GateIsTrue /\ SpinnersEnd

\* An update never gives an authorizer that was there at first the text of another, and a
\* patient user gets one record for each form opened.
SavesAreMeant == EditedIsUpdated /\ CreatedOnce

=============================================================================
