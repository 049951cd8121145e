-------------------------- MODULE PluginPageProofs --------------------------
(***************************************************************************)
(* Safety of the Plugins page for every set of plugins and functions, any  *)
(* number of handlers and any number of clicks: no update gives a plugin   *)
(* that was there at first the text of another, each form creates one      *)
(* record, and what the page shows is what the server holds.               *)
(***************************************************************************)
EXTENDS PluginPage, FiniteSetTheorems, WellFoundedInduction, TLAPS

-----------------------------------------------------------------------------
(* Types.                                                                  *)

Partial(S, T) == UNION {[R -> T] : R \in SUBSET S}

Ids == Plugins \cup {None}
Urls == [id : Ids, tab : PageTabs \cup {None}]

\* What may be written to a plugin that was there at first: its own text, or what the
\* user typed.
Meant(p, text) == p \in Initially => text \in {p, Typed}
GoodPlugin(x) == x \in [id : Plugins, text : Texts] /\ Meant(x.id, x.text)

GoodDb(d) ==
    /\ d \in [plugins : Partial(Plugins, Texts), functions : Partial(Functions, Ids),
              given : SUBSET (Plugins \cup Functions)]
    /\ Initially \cup DOMAIN d.plugins \subseteq d.given
    /\ \A p \in DOMAIN d.plugins : Meant(p, d.plugins[p])

PageType == [plugins : Partial(Plugins, Texts), loading : BOOLEAN, selected : Ids, tab : PageTabs, temp : BOOLEAN]
DetailsType == [plugin : [id : Plugins, text : Texts] \cup {None}, loading : BOOLEAN, open : BOOLEAN,
                form : Texts \cup {Blank}, confirm : Ids]
GoodDetails(d) == d \in DetailsType /\ (d.plugin # None => GoodPlugin(d.plugin))
\* The form as rendering leaves it.
FormMeant(d) == d.plugin # None /\ d.open => Meant(d.plugin.id, d.form)
FunctionsType == [list : SUBSET Functions, loading : BOOLEAN, form : {None, Blank, Typed},
                  editing : Functions \cup {None}, confirm : Functions \cup {None}]
GoodUi(s) == /\ s = [page |-> s.page, details |-> s.details, functions |-> s.functions]
             /\ s.page \in PageType /\ GoodDetails(s.details) /\ s.functions \in FunctionsType

ListPlaces == {"plugins", "refresh"}
DetailsPlaces == {"details", "save", "delete", "refresh"}
FunctionPlaces == {"functions", "addFunction", "saveEdit", "removeFunction", "deleteFunction"}
Places == {"plugins"} \cup DetailsPlaces \cup FunctionPlaces

Asks(at, arg, q) ==
    \/ at = "plugins" /\ q = {getAllPlugins}
    \/ at = "details" /\ arg \in [id : Plugins] /\ q = {getPluginById(arg.id)}
    \/ /\ at = "save" /\ arg \in [url : Urls, creating : BOOLEAN]
       /\ \E text \in Texts :
            \/ q = {createPlugin(text)}
            \/ \E p \in Plugins : Meant(p, text) /\ q = {updatePlugin(p, text)}
    \/ at = "delete" /\ \E p \in Plugins : q = {deletePlugin(p)}
    \/ at = "refresh" /\ arg \in [closes : BOOLEAN] /\ q = {getAllPlugins}
    \/ /\ at = "functions" /\ arg \in [plugin : Plugins, then : {"nothing", "closeForm", "unconfirm"}]
       /\ q = {getFunctionsForPlugin(arg.plugin)}
    \/ /\ at \in {"addFunction", "saveEdit", "removeFunction", "deleteFunction"}
       /\ arg \in [plugin : Plugins, function : Functions \cup {None}]
       /\ \/ at = "addFunction" /\ q = {createFunctionForPlugin(arg.plugin)}
          \/ at = "saveEdit" /\ q = {updateFunction(arg.function)}
          \/ at = "removeFunction" /\ arg.function # None /\ q = {removeFunctionFromPlugin(arg.plugin, arg.function)}
          \/ at = "deleteFunction" /\ q = {deleteFunction(arg.function)}

Tells(r, data) ==
    /\ r[1] = "getAllPlugins" => data \in Partial(Plugins, Texts)
    /\ r[1] = "getPluginById" => GoodPlugin(data) /\ data.id = r[2]
    /\ r[1] = "createPlugin" => GoodPlugin(data)
    /\ r[1] = "updatePlugin" => data = None
    /\ r[1] = "getFunctionsForPlugin" => data \in SUBSET Functions
GoodAnswer(r, a) == a = Failure \/ (a = Ok(a.data) /\ Tells(r, a.data))

GoodTask(t) ==
    \/ t = Idle
    \/ /\ t = [at |-> t.at, arg |-> t.arg, sent |-> t.sent, got |-> t.got, live |-> t.live]
       /\ t.live \in BOOLEAN
       /\ t.sent \cap DOMAIN t.got = {}
       /\ Asks(t.at, t.arg, t.sent \cup DOMAIN t.got)
       /\ \A r \in DOMAIN t.got : GoodAnswer(r, t.got[r])
GoodTasks(ts) == DOMAIN ts = Slots /\ \A k \in Slots : GoodTask(ts[k])

TypeInv == GoodDb(db) /\ url \in Urls /\ GoodUi(ui) /\ FormMeant(ui.details) /\ GoodTasks(tasks) /\ forms \in Nat

-----------------------------------------------------------------------------
Turns(ts, places) == \E k \in Slots : ts[k].at \in places /\ ts[k].live
Spins(s, ts) ==
    /\ s.page.loading => \E k \in Slots : ts[k].at \in ListPlaces
    /\ s.page.tab = "details" /\ s.details.loading => Turns(ts, DetailsPlaces)
    /\ s.page.tab = "functions" /\ s.functions.loading => Turns(ts, FunctionPlaces)
SpinInv == Spins(ui, tasks)

PlacesOf(t) == {"plugins"} \cup (IF t = "details" THEN DetailsPlaces ELSE FunctionPlaces)
Writers == {"save", "delete", "addFunction", "removeFunction", "deleteFunction"}
Alone(s, ts) ==
    /\ \A k \in Slots : ts[k].at # "idle" => ts[k].at \in PlacesOf(s.page.tab) /\ ts[k].live
    /\ \A j, k \in Slots : ts[j].at \in Writers /\ ts[k].at \notin {"idle", "saveEdit"} => j = k
    /\ \A j, k \in Slots : {ts[j].at, ts[k].at} \subseteq FunctionPlaces \ {"saveEdit"} => j = k

FunctionsIn(d, p) == {f \in DOMAIN d.functions : d.functions[f] = p}

StillSo(d, r, a) ==
    /\ r[1] # "updateFunction" /\ (r[1] # "deleteFunction" => a.ok)
    /\ r[1] = "getAllPlugins" => a.data = d.plugins
    /\ r[1] = "getPluginById" => r[2] \in DOMAIN d.plugins /\ a.data = [id |-> r[2], text |-> d.plugins[r[2]]]
    /\ r[1] = "getFunctionsForPlugin" => a.data = FunctionsIn(d, r[2])
    /\ r[1] = "createPlugin" => /\ a.data.id \in DOMAIN d.plugins
                                /\ a.data = [id |-> a.data.id, text |-> d.plugins[a.data.id]]
AnswersHold(d, ts) == \A k \in Slots : \A r \in DOMAIN ts[k].got : StillSo(d, r, ts[k].got[r])

ListHolds(d, s, ts) ==
    s.page.plugins = d.plugins \/ \E k \in Slots : ts[k].at \in {"plugins", "refresh", "save", "delete"}
DetailsHold(d, s, ts) ==
    s.page.tab = "details" /\ s.details.plugin # None =>
        \/ /\ s.page.selected \in DOMAIN d.plugins
           /\ s.details.plugin = [id |-> s.page.selected, text |-> d.plugins[s.page.selected]]
        \/ \E k \in Slots : ts[k].at \in {"details", "save", "delete"}
FunctionsHold(d, s, ts) ==
    s.page.tab = "functions" /\ s.page.selected \in DOMAIN d.plugins =>
        \/ s.functions.list = FunctionsIn(d, s.page.selected)
        \/ \E k \in Slots : ts[k].at \in FunctionPlaces \ {"saveEdit"}

\* What each handler relies on, until it ends.
Relies(u, s, t) ==
    /\ t.at = "details" => t.arg.id = s.page.selected
    /\ t.at \in FunctionPlaces \ {"saveEdit"} => t.arg.plugin = s.page.selected /\ s.functions.loading
    /\ t.at = "addFunction" => s.functions.form # None
    /\ t.at = "save" => /\ s.details.loading /\ s.details.open
                        /\ t.arg.url = u /\ t.arg.creating = s.page.temp
                        /\ \A text \in Texts : createPlugin(text) \in t.sent => s.details.plugin = None
    /\ t.at = "delete" => s.details.loading /\ ~s.details.open /\ s.page.selected # None

Asked(s, ts) ==
    s.page.tab = "details" /\ s.details.confirm # None =>
        \/ ~s.details.open /\ s.page.selected # None
        \/ \E k \in Slots : ts[k].at = "refresh" /\ ts[k].arg.closes

\* A form that is open for a new plugin, or function, and not saved yet.
NewPlugin(s, ts) ==
    /\ s.page.temp \/ (s.page.tab = "details" /\ s.details.open /\ s.details.plugin = None)
    /\ \A k \in Slots : ts[k].at = "save" => DOMAIN ts[k].got = {}
NewFunction(s, ts) ==
    /\ s.page.tab = "functions" /\ s.functions.form # None
    /\ \A k \in Slots : /\ ts[k].at = "addFunction" => DOMAIN ts[k].got = {}
                        /\ ts[k].at = "functions" => ts[k].arg.then # "closeForm"
One(b) == IF b THEN 1 ELSE 0
Counted(d, s, ts, n) ==
    /\ IsFiniteSet(d.given)
    /\ Cardinality(d.given) + One(NewPlugin(s, ts)) + One(NewFunction(s, ts)) <= Cardinality(Initially) + 1 + n

Calm(d, u, s, ts, n) ==
    /\ u.tab \in {None, s.page.tab}
    /\ Alone(s, ts) /\ AnswersHold(d, ts)
    /\ ListHolds(d, s, ts) /\ DetailsHold(d, s, ts) /\ FunctionsHold(d, s, ts)
    /\ \A k \in Slots : Relies(u, s, ts[k])
    /\ Asked(s, ts) /\ Counted(d, s, ts, n)
CalmInv == ~hasty /\ ~failed => Calm(db, url, ui, tasks, forms)

PageInv == TypeInv /\ SpinInv /\ CalmInv

-----------------------------------------------------------------------------
(* Records that come and go, and the handlers of the page.                 *)

\* What is in Partial(S, T).
LEMMA PartialIs ==
    ASSUME NEW S, NEW T, NEW f
    PROVE  f \in Partial(S, T) <=> /\ f = [x \in DOMAIN f |-> f[x]]
                                   /\ DOMAIN f \subseteq S
                                   /\ \A x \in DOMAIN f : f[x] \in T
<1>1. ASSUME f \in Partial(S, T)
      PROVE  f = [x \in DOMAIN f |-> f[x]] /\ DOMAIN f \subseteq S /\ \A x \in DOMAIN f : f[x] \in T
  <2>1. PICK R \in SUBSET S : f \in [R -> T]
    BY <1>1 DEF Partial
  <2>2. QED
    BY <2>1
<1>2. ASSUME f = [x \in DOMAIN f |-> f[x]], DOMAIN f \subseteq S, \A x \in DOMAIN f : f[x] \in T
      PROVE  f \in Partial(S, T)
  <2>1. f \in [DOMAIN f -> T]
    BY <1>2
  <2>2. DOMAIN f \in SUBSET S
    BY <1>2
  <2>3. QED
    BY <2>1, <2>2 DEF Partial
<1>3. QED
  BY <1>1, <1>2

\* Creating, changing and deleting a record.
LEMMA PartialKept ==
    ASSUME NEW S, NEW T, NEW f \in Partial(S, T), NEW x \in S, NEW v \in T
    PROVE  /\ With(f, x, v) \in Partial(S, T)
           /\ x \in DOMAIN f => [f EXCEPT ![x] = v] \in Partial(S, T)
           /\ [y \in DOMAIN f \ {x} |-> f[y]] \in Partial(S, T)
<1>1. DOMAIN f \subseteq S /\ \A y \in DOMAIN f : f[y] \in T
  BY PartialIs
<1>2. With(f, x, v) \in Partial(S, T)
  <2> DEFINE g == With(f, x, v)
  <2>1. /\ g = [y \in DOMAIN g |-> g[y]]
        /\ DOMAIN g = DOMAIN f \cup {x}
        /\ \A y \in DOMAIN g : g[y] = IF y = x THEN v ELSE f[y]
    BY DEF With
  <2> HIDE DEF g
  <2>2. QED
    BY <1>1, <2>1, PartialIs DEF g
<1>3. ASSUME x \in DOMAIN f PROVE [f EXCEPT ![x] = v] \in Partial(S, T)
  <2> DEFINE g == [f EXCEPT ![x] = v]
  <2>1. /\ g = [y \in DOMAIN g |-> g[y]]
        /\ DOMAIN g = DOMAIN f
        /\ \A y \in DOMAIN g : g[y] = IF y = x THEN v ELSE f[y]
    OBVIOUS
  <2> HIDE DEF g
  <2>2. QED
    BY <1>1, <2>1, PartialIs DEF g
<1>4. [y \in DOMAIN f \ {x} |-> f[y]] \in Partial(S, T)
  <2> DEFINE g == [y \in DOMAIN f \ {x} |-> f[y]]
  <2>1. /\ g = [y \in DOMAIN g |-> g[y]]
        /\ DOMAIN g = DOMAIN f \ {x}
        /\ \A y \in DOMAIN g : g[y] = f[y]
    OBVIOUS
  <2> HIDE DEF g
  <2>2. QED
    BY <1>1, <2>1, PartialIs DEF g
<1>5. QED
  BY <1>2, <1>3, <1>4

\* A handler that begins takes one free slot.
LEMMA BeginIs ==
    ASSUME NEW ts, DOMAIN ts = Slots, HasRoom(ts), NEW e
    PROVE  \E i \in Slots : /\ ts[i].at = "idle"
                            /\ DOMAIN Begin(ts, e) = Slots
                            /\ \A k \in Slots : Begin(ts, e)[k] = IF k = i THEN e ELSE ts[k]
<1>1. Free(ts) \in SUBSET Nat /\ Free(ts) # {} /\ \A k \in Free(ts) : k \in Slots /\ ts[k].at = "idle"
  BY MaxTasksAssumption DEF HasRoom, Free, Running, Slots
<1>2. PICK i \in Free(ts) : Begin(ts, e) = [ts EXCEPT ![i] = e]
  <2>1. \E k \in Free(ts) : \A j \in Free(ts) : k <= j
    <3>1. PICK k \in Free(ts) : \A j \in Free(ts) : ~(<<j, k>> \in OpToRel(<, Nat))
      BY <1>1, NatLessThanWellFounded, WFMin
    <3>2. \A m, n \in Nat : m < n => <<m, n>> \in OpToRel(<, Nat)
      BY DEF OpToRel
    <3>3. \A j \in Free(ts) : j \in Nat /\ k \in Nat /\ ~(j < k)
      BY <1>1, <3>1, <3>2
    <3>4. QED
      BY <3>3
  <2>2. (CHOOSE k \in Free(ts) : \A j \in Free(ts) : k <= j) \in Free(ts)
    BY <2>1
  <2>3. QED
    BY <2>2 DEF Begin
<1>3. QED
  BY <1>1, <1>2

\* A handler that runs is not idle.
LEMMA AsksIs ==
    ASSUME NEW at, NEW arg, NEW q, Asks(at, arg, q)
    PROVE  at \in Places /\ at # "idle"
  BY DEF Asks, Places, DetailsPlaces, FunctionPlaces

\* A handler that has sent its requests, when it begins or goes on.
Handler(at, arg, q, live) == [at |-> at, arg |-> arg, sent |-> q, got |-> <<>>, live |-> live]
LEMMA NewTask ==
    ASSUME NEW at, NEW arg, NEW q, NEW live \in BOOLEAN, Asks(at, arg, q)
    PROVE  GoodTask(Handler(at, arg, q, live))
<1> DEFINE t == Handler(at, arg, q, live)
<1>1. /\ t = [at |-> t.at, arg |-> t.arg, sent |-> t.sent, got |-> t.got, live |-> t.live]
      /\ t.at = at /\ t.arg = arg /\ t.sent = q /\ t.got = <<>> /\ t.live = live
  BY DEF Handler
<1>2. DOMAIN <<>> = {}
  OBVIOUS
<1> HIDE DEF t
<1>3. t.sent \cup DOMAIN t.got = q
  BY <1>1, <1>2
<1>4. GoodTask(t)
  BY <1>1, <1>2, <1>3 DEF GoodTask
<1>5. QED
  BY <1>4 DEF t

\* A handler that runs.
LEMMA BusyIs ==
    ASSUME NEW t, GoodTask(t), t.at # "idle" \/ t.sent # {} \/ DOMAIN t.got # {} \/ t.live
    PROVE  /\ t = [at |-> t.at, arg |-> t.arg, sent |-> t.sent, got |-> t.got, live |-> t.live]
           /\ t.live \in BOOLEAN /\ t.sent \cap DOMAIN t.got = {}
           /\ Asks(t.at, t.arg, t.sent \cup DOMAIN t.got) /\ t.at \in Places /\ t.at # "idle"
           /\ \A r \in DOMAIN t.got : GoodAnswer(r, t.got[r])
<1>1. Idle.at = "idle" /\ Idle.sent = {} /\ Idle.got = <<>> /\ ~Idle.live /\ DOMAIN <<>> = {}
  BY DEF Idle
<1>2. t # Idle
  BY <1>1
<1>3. QED
  BY <1>2, AsksIs DEF GoodTask

\* A slot without a handler.
LEMMA IdleIs ==
    /\ GoodTask(Idle) /\ Idle.at = "idle" /\ Idle.sent = {} /\ DOMAIN Idle.got = {} /\ ~Idle.live
    /\ \A t : GoodTask(t) /\ t.at = "idle" => t = Idle
<1>1. DOMAIN <<>> = {}
  OBVIOUS
<1>2. QED
  BY <1>1, AsksIs DEF GoodTask, Idle

\* A handler whose requests have all been answered with data.
LEMMA Answers ==
    ASSUME NEW t, GoodTask(t), t.at # "idle", t.sent = {}
    PROVE  /\ Asks(t.at, t.arg, DOMAIN t.got)
           /\ ~Threw(t) => \A r \in DOMAIN t.got : t.got[r].ok /\ Tells(r, Data(t, r))
<1>1. Asks(t.at, t.arg, t.sent \cup DOMAIN t.got) /\ \A r \in DOMAIN t.got : GoodAnswer(r, t.got[r])
  BY BusyIs
<1>2. ~Failure.ok
  BY DEF Failure
<1>3. QED
  BY <1>1, <1>2 DEF Threw, Data, GoodAnswer

\* A handler that goes on after an await.
LEMMA GoesOnAs ==
    ASSUME NEW t, t = [at |-> t.at, arg |-> t.arg, sent |-> t.sent, got |-> t.got, live |-> t.live],
           NEW at, NEW q
    PROVE  [t EXCEPT !.at = at, !.sent = q, !.got = <<>>] = Handler(at, t.arg, q, t.live)
<1> DEFINE a == [t EXCEPT !.at = at]
           b == [a EXCEPT !.sent = q]
<1>1. a = [at |-> at, arg |-> t.arg, sent |-> t.sent, got |-> t.got, live |-> t.live]
  OBVIOUS
<1> HIDE DEF a
<1>2. b = [at |-> at, arg |-> t.arg, sent |-> q, got |-> t.got, live |-> t.live]
  BY <1>1
<1> HIDE DEF b
<1>3. [b EXCEPT !.got = <<>>] = [at |-> at, arg |-> t.arg, sent |-> q, got |-> <<>>, live |-> t.live]
  BY <1>2
<1>4. QED
  BY <1>3, Zenon DEF a, b, Handler

\* A handler that goes on changes nothing but its own slot.
LEMMA GoesOn ==
    ASSUME NEW ts, GoodTasks(ts), NEW k \in Slots, ts[k].at # "idle", NEW at, NEW q
    PROVE  Goto(ts, k, at, q) = [ts EXCEPT ![k] = Handler(at, ts[k].arg, q, ts[k].live)]
<1>1. PICK t : t = ts[k]
  OBVIOUS
<1>2. t = [at |-> t.at, arg |-> t.arg, sent |-> t.sent, got |-> t.got, live |-> t.live]
  BY <1>1, BusyIs DEF GoodTasks
<1>3. [t EXCEPT !.at = at, !.sent = q, !.got = <<>>] = Handler(at, t.arg, q, t.live)
  BY <1>2, GoesOnAs, Zenon
<1>4. QED
  BY <1>1, <1>3, Zenon DEF Goto

-----------------------------------------------------------------------------
(* The state of the page and its tabs.                                     *)

\* Its parts.
Page(plugins, loading, selected, t, temp) ==
    [plugins |-> plugins, loading |-> loading, selected |-> selected, tab |-> t, temp |-> temp]
Details(plugin, loading, open, form, confirm) ==
    [plugin |-> plugin, loading |-> loading, open |-> open, form |-> form, confirm |-> confirm]
FunctionsTab(list, loading, form, editing, confirm) ==
    [list |-> list, loading |-> loading, form |-> form, editing |-> editing, confirm |-> confirm]
Ui(p, d, f) == [page |-> p, details |-> d, functions |-> f]

\* A state of the right types is made of its parts.
LEMMA UiIs ==
    ASSUME NEW s, GoodUi(s)
    PROVE  /\ s = Ui(s.page, s.details, s.functions)
           /\ s.page = Page(s.page.plugins, s.page.loading, s.page.selected, s.page.tab, s.page.temp)
           /\ s.details = Details(s.details.plugin, s.details.loading, s.details.open, s.details.form, s.details.confirm)
           /\ s.functions = FunctionsTab(s.functions.list, s.functions.loading, s.functions.form,
                                         s.functions.editing, s.functions.confirm)
<1>1. s.page \in PageType /\ s.details \in DetailsType /\ s.functions \in FunctionsType
      /\ s = [page |-> s.page, details |-> s.details, functions |-> s.functions]
  BY DEF GoodUi, GoodDetails
<1>2. s = Ui(s.page, s.details, s.functions)
  BY <1>1, Zenon DEF Ui
<1>3. s.page = Page(s.page.plugins, s.page.loading, s.page.selected, s.page.tab, s.page.temp)
  BY <1>1 DEF PageType, Page
<1>4. s.details = Details(s.details.plugin, s.details.loading, s.details.open, s.details.form, s.details.confirm)
  BY <1>1 DEF DetailsType, Details
<1>5. s.functions = FunctionsTab(s.functions.list, s.functions.loading, s.functions.form,
                                 s.functions.editing, s.functions.confirm)
  BY <1>1 DEF FunctionsType, FunctionsTab
<1>6. QED
  BY <1>2, <1>3, <1>4, <1>5

\* A state made of parts of the right types is of the right types.
LEMMA UiOf ==
    ASSUME NEW p \in PageType, NEW d, GoodDetails(d), NEW f \in FunctionsType
    PROVE  GoodUi(Ui(p, d, f)) /\ Ui(p, d, f).page = p /\ Ui(p, d, f).details = d /\ Ui(p, d, f).functions = f
  BY DEF GoodUi, Ui

\* The tabs before they show anything.
LEMMA EmptyTabs ==
    /\ GoodDetails(NoDetails) /\ NoDetails.plugin = None /\ ~NoDetails.loading /\ ~NoDetails.open
    /\ NoDetails.form = Blank /\ NoDetails.confirm = None
    /\ NoFunctions \in FunctionsType /\ NoFunctions.list = {} /\ ~NoFunctions.loading /\ NoFunctions.form = None
    /\ NoFunctions.editing = None /\ NoFunctions.confirm = None
  BY DEF NoDetails, NoFunctions, GoodDetails, DetailsType, FunctionsType, Ids

\* The page after it has read the search parameters.
LEMMA FromUrlIs ==
    ASSUME NEW s, GoodUi(s), NEW u \in Urls, NEW t, t = FromUrl(s, u)
    PROVE  /\ GoodUi(t) /\ t.details = s.details /\ t.functions = s.functions
           /\ t.page = Page(s.page.plugins, s.page.loading \/ u # url,
                            IF u = url \/ u.id = None THEN s.page.selected ELSE u.id,
                            IF u = url \/ u.tab = None THEN s.page.tab ELSE u.tab, s.page.temp)
<1>1. s.page \in PageType /\ GoodDetails(s.details) /\ s.functions \in FunctionsType /\ s.page.loading \in BOOLEAN
  BY DEF GoodUi, PageType
<1>2. s = Ui(s.page, s.details, s.functions)
      /\ s.page = Page(s.page.plugins, s.page.loading, s.page.selected, s.page.tab, s.page.temp)
  BY UiIs
<1>3. CASE u = url
  <2>1. t = s
    BY <1>3 DEF FromUrl
  <2>2. (s.page.loading \/ u # url) = s.page.loading
    BY <1>1, <1>3
  <2>3. QED
    BY <1>2, <1>3, <2>1, <2>2, Zenon
<1>4. CASE u # url
  <2>1. PICK T \in PageTabs : T = IF u.tab = None THEN s.page.tab ELSE u.tab
    BY <1>1 DEF Urls, PageType
  <2>2. PICK S \in Ids : S = IF u.id = None THEN s.page.selected ELSE u.id
    BY <1>1 DEF Urls, PageType
  <2>3. t = [s EXCEPT !.page.tab = T, !.page.selected = S, !.page.loading = TRUE]
    BY <1>4, <2>1, <2>2 DEF FromUrl
  <2> DEFINE p == Page(s.page.plugins, TRUE, S, T, s.page.temp)
  <2>4. t = Ui(p, s.details, s.functions)
    BY <1>2, <2>3 DEF Ui, Page
  <2>5. p \in PageType
    BY <1>1 DEF Page, PageType
  <2>6. p = Page(s.page.plugins, s.page.loading \/ u # url, S, T, s.page.temp)
    BY <1>4
  <2>7. S = IF u = url \/ u.id = None THEN s.page.selected ELSE u.id
    BY <1>4, <2>2
  <2>8. T = IF u = url \/ u.tab = None THEN s.page.tab ELSE u.tab
    BY <1>4, <2>1
  <2> HIDE DEF p
  <2>9. GoodUi(t) /\ t.page = p /\ t.details = s.details /\ t.functions = s.functions
    BY <1>1, <2>4, <2>5, UiOf
  <2>10. QED
    BY <2>6, <2>7, <2>8, <2>9, Zenon
<1>5. QED
  BY <1>3, <1>4

\* Whether a tab comes, which handlers go on then, and what is fetched.
Comes(s) == s.page.tab # ui.page.tab
Chosen(s) == Comes(s) \/ s.page.selected # ui.page.selected
Fetches(s) == Chosen(s) /\ s.page.selected # None
FetchOf(s) == IF s.page.tab = "details" THEN fetchPluginDetails(s.page.selected)
              ELSE fetchFunctions(s.page.selected, "nothing")
Kept(s, ts) == IF Comes(s) THEN Unmounted(ts) ELSE ts

\* The tab of details after its effects.
LEMMA WithDetailsIs ==
    ASSUME GoodUi(ui), NEW s, GoodUi(s), s.page.tab = "details", NEW t, t = WithDetails(s, Comes(s))
    PROVE  /\ GoodUi(t) /\ t.page = s.page /\ t.functions = NoFunctions /\ FormMeant(t.details)
           /\ \E form :
                t.details = Details(IF Chosen(s) /\ s.page.selected = None THEN None
                                    ELSE IF Comes(s) THEN None ELSE s.details.plugin,
                                    (~Comes(s) /\ s.details.loading) \/ Fetches(s),
                                    (~Comes(s) /\ s.details.open) \/ (s.page.temp /\ (Comes(s) \/ ~ui.page.temp)),
                                    form, IF Comes(s) THEN None ELSE s.details.confirm)
<1> DEFINE comes == Comes(s)
           old == IF comes THEN NoDetails ELSE s.details
           was == IF comes THEN NoDetails ELSE ui.details
           begun == s.page.temp /\ (comes \/ ~ui.page.temp)
<1>1. /\ s.page \in PageType /\ GoodDetails(s.details) /\ s.functions \in FunctionsType
      /\ ui.page \in PageType /\ GoodDetails(ui.details)
  BY DEF GoodUi
<1>2. GoodDetails(old) /\ old \in DetailsType
  BY <1>1, EmptyTabs DEF GoodDetails
<1>3. s = Ui(s.page, s.details, s.functions)
  BY UiIs
<1>4. PICK P : P = IF Chosen(s) /\ s.page.selected = None THEN None ELSE old.plugin
  OBVIOUS
<1>5. PICK L : L = (old.loading \/ Fetches(s))
  OBVIOUS
<1>6. PICK O : O = (old.open \/ begun)
  OBVIOUS
<1> DEFINE new == [old EXCEPT !.plugin = P, !.loading = L, !.open = O]
<1>7. t = [s EXCEPT !.functions = NoFunctions, !.details = ModalFilled(new, was)]
  BY <1>4, <1>5, <1>6 DEF WithDetails, Chosen, Fetches
<1>8. new = Details(P, L, O, old.form, old.confirm) /\ L \in BOOLEAN /\ O \in BOOLEAN
      /\ P \in [id : Plugins, text : Texts] \cup {None} /\ (P # None => GoodPlugin(P))
  <2>1. old.plugin \in [id : Plugins, text : Texts] \cup {None} /\ (old.plugin # None => GoodPlugin(old.plugin))
    BY <1>2 DEF GoodDetails, DetailsType
  <2>2. P \in [id : Plugins, text : Texts] \cup {None} /\ (P # None => GoodPlugin(P))
    BY <1>4, <2>1
  <2>3. L \in BOOLEAN
    BY <1>2, <1>5 DEF DetailsType, Fetches
  <2>4. O \in BOOLEAN
    BY <1>1, <1>2, <1>6 DEF DetailsType, PageType
  <2> HIDE DEF old
  <2>5. new = Details(P, L, O, old.form, old.confirm)
    <3> DEFINE a == [old EXCEPT !.plugin = P]
               b == [a EXCEPT !.loading = L]
    <3>1. a = Details(P, old.loading, old.open, old.form, old.confirm)
      BY <1>2 DEF DetailsType, Details
    <3> HIDE DEF a
    <3>2. b = Details(P, L, old.open, old.form, old.confirm)
      BY <3>1 DEF Details
    <3> HIDE DEF b
    <3>3. [b EXCEPT !.open = O] = Details(P, L, O, old.form, old.confirm)
      BY <3>2 DEF Details
    <3>4. QED
      BY <3>3, Zenon DEF a, b, new
  <2>6. QED
    BY <2>2, <2>3, <2>4, <2>5
<1> HIDE DEF old, was, new, begun
<1>9. PICK form : /\ form \in Texts \cup {Blank} /\ (P # None /\ O => Meant(P.id, form))
                  /\ ModalFilled(new, was) = Details(P, L, O, form, old.confirm)
  <2>1. new.plugin = P /\ new.loading = L /\ new.open = O /\ new.form = old.form /\ new.confirm = old.confirm
    BY <1>8 DEF Details
  <2>2. old.form \in Texts \cup {Blank}
    BY <1>2 DEF DetailsType
  <2>3. \A f : [new EXCEPT !.form = f] = Details(P, L, O, f, old.confirm)
    BY <1>8 DEF Details
  <2>4. CASE ~O
    <3>1. ModalFilled(new, was) = [new EXCEPT !.form = Blank]
      BY <2>1, <2>4 DEF ModalFilled
    <3>2. QED
      BY <2>3, <2>4, <3>1
  <2>5. CASE O /\ (~was.open \/ P # None)
    <3>1. ModalFilled(new, was) = [new EXCEPT !.form = Fill(new)]
      BY <2>1, <2>5 DEF ModalFilled
    <3>2. Fill(new) = IF P = None THEN Blank ELSE P.text
      BY <2>1 DEF Fill
    <3>3. Fill(new) \in Texts \cup {Blank} /\ (P # None => Meant(P.id, Fill(new)))
      BY <1>8, <3>2 DEF GoodPlugin
    <3>4. QED
      BY <2>3, <3>1, <3>3
  <2>6. CASE O /\ was.open /\ P = None
    <3>1. ModalFilled(new, was) = new
      BY <2>1, <2>6 DEF ModalFilled
    <3>2. QED
      BY <1>8, <2>2, <2>6, <3>1
  <2>7. QED
    BY <2>4, <2>5, <2>6
<1> DEFINE d == Details(P, L, O, form, old.confirm)
<1>10. GoodDetails(d) /\ FormMeant(d)
  <2>1. d.plugin = P /\ d.open = O /\ d.form = form
    BY DEF Details
  <2>2. d \in DetailsType
    BY <1>2, <1>8, <1>9 DEF Details, DetailsType
  <2> HIDE DEF d
  <2>3. QED
    BY <1>8, <1>9, <2>1, <2>2 DEF GoodDetails, FormMeant
<1>11. t = Ui(s.page, d, NoFunctions)
  <2>1. t = [s EXCEPT !.functions = NoFunctions, !.details = d]
    BY <1>7, <1>9
  <2> HIDE DEF d
  <2>2. QED
    BY <1>3, <2>1 DEF Ui
<1>12. d = Details(IF Chosen(s) /\ s.page.selected = None THEN None ELSE IF Comes(s) THEN None ELSE s.details.plugin,
                   (~Comes(s) /\ s.details.loading) \/ Fetches(s),
                   (~Comes(s) /\ s.details.open) \/ (s.page.temp /\ (Comes(s) \/ ~ui.page.temp)),
                   form, IF Comes(s) THEN None ELSE s.details.confirm)
  <2>1. P = IF Chosen(s) /\ s.page.selected = None THEN None ELSE IF Comes(s) THEN None ELSE s.details.plugin
    BY <1>4, EmptyTabs DEF old
  <2>2. L = ((~Comes(s) /\ s.details.loading) \/ Fetches(s))
    BY <1>1, <1>5, EmptyTabs DEF old, GoodDetails, DetailsType
  <2>3. O = ((~Comes(s) /\ s.details.open) \/ (s.page.temp /\ (Comes(s) \/ ~ui.page.temp)))
    BY <1>1, <1>6, EmptyTabs DEF old, begun, GoodDetails, DetailsType
  <2>4. old.confirm = IF Comes(s) THEN None ELSE s.details.confirm
    BY EmptyTabs DEF old
  <2>5. QED
    BY <2>1, <2>2, <2>3, <2>4, Zenon
<1> HIDE DEF d
<1>13. GoodUi(t) /\ t.page = s.page /\ t.functions = NoFunctions /\ t.details = d
  BY <1>1, <1>10, <1>11, EmptyTabs, UiOf
<1>14. QED
  BY <1>10, <1>12, <1>13, Zenon

\* The tab of functions after its effects.
LEMMA WithFunctionsIs ==
    ASSUME GoodUi(ui), NEW s, GoodUi(s), s.page.tab = "functions", NEW t, t = WithFunctions(s, Comes(s))
    PROVE  /\ GoodUi(t) /\ t.page = s.page /\ t.details = NoDetails
           /\ t.functions = IF Comes(s) THEN [NoFunctions EXCEPT !.loading = Fetches(s)]
                            ELSE [s.functions EXCEPT !.loading = s.functions.loading \/ Fetches(s)]
<1> DEFINE old == IF Comes(s) THEN NoFunctions ELSE s.functions
<1>1. s.page \in PageType /\ old \in FunctionsType /\ s = Ui(s.page, s.details, s.functions)
      /\ s.functions \in FunctionsType
  BY EmptyTabs, UiIs DEF GoodUi
<1>2. PICK L : L = (old.loading \/ Fetches(s))
  OBVIOUS
<1>3. t = [s EXCEPT !.details = NoDetails, !.functions = [old EXCEPT !.loading = L]]
  BY <1>2 DEF WithFunctions, Fetches, Chosen
<1>4. old.loading = (~Comes(s) /\ s.functions.loading)
  BY <1>1, EmptyTabs DEF FunctionsType
<1>5. Comes(s) => L = Fetches(s)
  BY <1>2, <1>4 DEF Fetches
<1>6. ~Comes(s) => L = (s.functions.loading \/ Fetches(s))
  BY <1>2
<1> DEFINE f == [old EXCEPT !.loading = L]
<1>7. f \in FunctionsType
  BY <1>1, <1>2 DEF FunctionsType
<1>8. f = IF Comes(s) THEN [NoFunctions EXCEPT !.loading = Fetches(s)]
          ELSE [s.functions EXCEPT !.loading = s.functions.loading \/ Fetches(s)]
  BY <1>5, <1>6
<1> HIDE DEF f
<1>9. t = Ui(s.page, NoDetails, f)
  BY <1>1, <1>3 DEF Ui, f
<1>10. QED
  BY <1>1, <1>7, <1>8, <1>9, EmptyTabs, UiOf

-----------------------------------------------------------------------------
(* Rendering.                                                              *)

\* A tab that goes takes its fetches with it; its other handlers go on.
LEMMA UnmountedIs ==
    ASSUME NEW ts, GoodTasks(ts)
    PROVE  /\ GoodTasks(Unmounted(ts))
           /\ \A k \in Slots : ts[k].at \in ListPlaces => Unmounted(ts)[k].at = ts[k].at
           /\ \A k \in Slots : ts[k].at = "idle" => Unmounted(ts)[k] = Idle
<1>1. ASSUME NEW k \in Slots
      PROVE  /\ GoodTask(Unmounted(ts)[k])
             /\ ts[k].at \in ListPlaces => Unmounted(ts)[k].at = ts[k].at
             /\ ts[k].at = "idle" => Unmounted(ts)[k] = Idle
  <2> DEFINE t == Unmounted(ts)[k]
             o == ts[k]
  <2>1. t = IF o.at \in {"details", "functions"} THEN Idle ELSE [o EXCEPT !.live = (o.at = "plugins")]
    BY DEF Unmounted
  <2>2. GoodTask(o)
    BY DEF GoodTasks
  <2> HIDE DEF t, o
  <2>3. CASE o.at \in {"details", "functions"}
    <3>1. t = Idle /\ o.at \notin ListPlaces
      BY <2>1, <2>3 DEF ListPlaces
    <3>2. QED
      BY <2>3, <3>1, IdleIs DEF o, t
  <2>4. CASE o.at = "idle"
    <3>1. o = Idle /\ t = [o EXCEPT !.live = (o.at = "plugins")]
      BY <2>1, <2>2, <2>4, IdleIs
    <3>2. t = [Idle EXCEPT !.live = FALSE]
      BY <2>4, <3>1
    <3>3. t = Idle
      BY <3>2 DEF Idle
    <3>4. o.at \notin ListPlaces
      BY <2>4 DEF ListPlaces
    <3>5. QED
      BY <3>3, <3>4, IdleIs DEF t, o
  <2>5. CASE o.at \notin {"idle", "details", "functions"}
    <3>1. /\ o = [at |-> o.at, arg |-> o.arg, sent |-> o.sent, got |-> o.got, live |-> o.live]
          /\ o.sent \cap DOMAIN o.got = {}
          /\ Asks(o.at, o.arg, o.sent \cup DOMAIN o.got)
          /\ \A r \in DOMAIN o.got : GoodAnswer(r, o.got[r])
      BY <2>2, <2>5, BusyIs
    <3>2. PICK b \in BOOLEAN : b = (o.at = "plugins")
      OBVIOUS
    <3>3. t = [o EXCEPT !.live = b]
      BY <2>1, <2>5, <3>2
    <3>4. /\ t = [at |-> t.at, arg |-> t.arg, sent |-> t.sent, got |-> t.got, live |-> t.live]
          /\ t.at = o.at /\ t.arg = o.arg /\ t.sent = o.sent /\ t.got = o.got /\ t.live = b
      BY <3>1, <3>3
    <3>5. GoodTask(t)
      BY <3>1, <3>4 DEF GoodTask
    <3>6. QED
      BY <2>5, <3>4, <3>5 DEF o, t
  <2>6. QED
    BY <2>3, <2>4, <2>5
<1>2. DOMAIN Unmounted(ts) = Slots
  BY DEF Unmounted
<1>3. QED
  BY <1>1, <1>2 DEF GoodTasks

\* The fetches that rendering begins.
LEMMA FetchesAre ==
    ASSUME NEW s, GoodUi(s)
    PROVE  /\ fetchPlugins = Handler("plugins", <<>>, {getAllPlugins}, TRUE) /\ GoodTask(fetchPlugins)
           /\ FetchOf(s) = IF s.page.tab = "details"
                           THEN Handler("details", [id |-> s.page.selected], {getPluginById(s.page.selected)}, TRUE)
                           ELSE Handler("functions", [plugin |-> s.page.selected, then |-> "nothing"],
                                        {getFunctionsForPlugin(s.page.selected)}, TRUE)
           /\ s.page.selected # None => GoodTask(FetchOf(s))
           /\ fetchPlugins # Idle /\ FetchOf(s) # Idle /\ fetchPlugins # FetchOf(s)
<1>1. fetchPlugins = Handler("plugins", <<>>, {getAllPlugins}, TRUE)
  BY DEF fetchPlugins, Task, Handler
<1>2. FetchOf(s) = IF s.page.tab = "details"
                   THEN Handler("details", [id |-> s.page.selected], {getPluginById(s.page.selected)}, TRUE)
                   ELSE Handler("functions", [plugin |-> s.page.selected, then |-> "nothing"],
                                {getFunctionsForPlugin(s.page.selected)}, TRUE)
  BY DEF FetchOf, fetchPluginDetails, fetchFunctions, Task, Handler
<1>3. Asks("plugins", <<>>, {getAllPlugins}) /\ TRUE \in BOOLEAN
  BY DEF Asks
<1>4. GoodTask(fetchPlugins)
  BY <1>1, <1>3, NewTask
<1>5. ASSUME s.page.selected # None PROVE GoodTask(FetchOf(s))
  <2>1. s.page.selected \in Plugins
    BY <1>5 DEF GoodUi, PageType, Ids
  <2> DEFINE a == [id |-> s.page.selected]
             b == [plugin |-> s.page.selected, then |-> "nothing"]
  <2>2. Asks("details", a, {getPluginById(s.page.selected)})
    BY <2>1 DEF Asks
  <2>3. Asks("functions", b, {getFunctionsForPlugin(s.page.selected)})
    BY <2>1 DEF Asks
  <2>4. GoodTask(Handler("details", a, {getPluginById(s.page.selected)}, TRUE))
    BY <1>3, <2>2, NewTask
  <2>5. GoodTask(Handler("functions", b, {getFunctionsForPlugin(s.page.selected)}, TRUE))
    BY <1>3, <2>3, NewTask
  <2>6. QED
    BY <1>2, <2>4, <2>5
<1>6. fetchPlugins.at = "plugins" /\ FetchOf(s).at \in {"details", "functions"}
  BY <1>1, <1>2 DEF Handler
<1>7. QED
  BY <1>1, <1>2, <1>4, <1>5, <1>6, IdleIs

\* The handlers after rendering: one may begin for a change of the search parameters, and
\* one for a change of the selection.
Placed(new, kept, i, a, j, b) ==
    /\ i \in Slots \cup {0} /\ j \in Slots \cup {0} /\ (i = j => i = 0)
    /\ DOMAIN new = Slots
    /\ \A k \in Slots : new[k] = IF k = i THEN a ELSE IF k = j THEN b ELSE kept[k]
    /\ \A k \in Slots : k \in {i, j} => kept[k].at = "idle"
Begins(s, u, ts, new) ==
    \E i, j : /\ Placed(new, Kept(s, ts), i, fetchPlugins, j, FetchOf(s))
              /\ i = 0 <=> u = url
              /\ j = 0 <=> ~Fetches(s)

\* Two handlers that may begin together.
TwoEffects(kept, a, A, b, B, new) ==
    /\ DOMAIN kept = Slots /\ a # b /\ a.at # "idle" /\ A \in {{}, {a}} /\ B \in {{}, {b}}
    /\ Cardinality(A \cup B) <= Cardinality(Free(kept))
    /\ A \cup B = {} => new = kept
    /\ \A e : A \cup B = {e} => new = Begin(kept, e)
    /\ A \cup B # {} /\ Cardinality(A \cup B) # 1 => new = Begin(Begin(kept, a), b)
TwoBegun(kept, a, A, b, B, new) ==
    \E i, j : Placed(new, kept, i, a, j, b) /\ (i = 0 <=> A = {}) /\ (j = 0 <=> B = {})
LEMMA TwoBegin ==
    ASSUME NEW kept, NEW a, NEW A, NEW b, NEW B, NEW new, TwoEffects(kept, a, A, b, B, new)
    PROVE  TwoBegun(kept, a, A, b, B, new)
<1>1. PICK es : es = A \cup B
  OBVIOUS
<1>2. /\ DOMAIN kept = Slots /\ a # b /\ a.at # "idle" /\ A \in {{}, {a}} /\ B \in {{}, {b}}
      /\ Cardinality(es) <= Cardinality(Free(kept))
      /\ es = {} => new = kept
      /\ \A e : es = {e} => new = Begin(kept, e)
      /\ es # {} /\ Cardinality(es) # 1 => new = Begin(Begin(kept, a), b)
  BY <1>1 DEF TwoEffects
<1>3. 0 \notin Slots
  BY DEF Slots
<1>4. IsFiniteSet(Free(kept)) /\ Cardinality(Free(kept)) \in Nat /\ (Cardinality(Free(kept)) # 0 => HasRoom(kept))
  <2>1. IsFiniteSet(Slots)
    BY MaxTasksAssumption, FS_Interval DEF Slots
  <2>2. IsFiniteSet(Free(kept))
    BY <2>1, FS_Subset DEF Free
  <2>3. QED
    BY <2>2, FS_CardinalityType, FS_EmptySet DEF HasRoom
<1>5. \A e : Cardinality({e}) = 1 /\ (CHOOSE x \in {e} : TRUE) = e
  BY FS_Singleton
<1>6. Cardinality({a, b}) = 2
  <2>1. IsFiniteSet({a}) /\ Cardinality({a}) = 1 /\ b \notin {a} /\ {a} \cup {b} = {a, b}
    BY <1>2, FS_Singleton
  <2>2. Cardinality({a} \cup {b}) = Cardinality({a}) + 1
    BY <1>1, <1>2, <2>1, FS_AddElement
  <2>3. QED
    BY <1>1, <1>2, <2>1, <2>2
<1>8. QED
  <2>1. CASE A = {} /\ B = {}
    <3>1. new = kept
      <4>1. es = {}
        BY <1>1, <1>2, <2>1
      <4>2. QED
        BY <1>1, <1>2, <4>1
    <3>2. Placed(new, kept, 0, a, 0, b)
      BY <1>1, <1>2, <1>3, <3>1 DEF Placed
    <3>3. QED
      BY <1>1, <1>2, <2>1, <3>2 DEF TwoBegun
  <2>2. CASE A # {} /\ B = {}
    <3>1. es = {a}
      BY <1>1, <1>2, <2>2
    <3>2. Cardinality(es) = 1 /\ es # {}
      BY <1>1, <1>2, <1>5, <3>1
    <3>3. new = Begin(kept, a)
      BY <1>1, <1>2, <3>1
    <3>4. HasRoom(kept)
      BY <1>1, <1>2, <1>4, <3>2
    <3>5. PICK i \in Slots : /\ kept[i].at = "idle" /\ DOMAIN Begin(kept, a) = Slots
                             /\ \A k \in Slots : Begin(kept, a)[k] = IF k = i THEN a ELSE kept[k]
      BY <1>1, <1>2, <3>4, BeginIs
    <3>6. Placed(new, kept, i, a, 0, b) /\ i # 0
      BY <1>1, <1>2, <1>3, <3>3, <3>5 DEF Placed
    <3>7. QED
      BY <1>1, <1>2, <2>2, <3>6 DEF TwoBegun
  <2>3. CASE A = {} /\ B # {}
    <3>1. es = {b}
      BY <1>1, <1>2, <2>3
    <3>2. Cardinality(es) = 1 /\ es # {}
      BY <1>1, <1>2, <1>5, <3>1
    <3>3. new = Begin(kept, b)
      BY <1>1, <1>2, <3>1
    <3>4. HasRoom(kept)
      BY <1>1, <1>2, <1>4, <3>2
    <3>5. PICK j \in Slots : /\ kept[j].at = "idle" /\ DOMAIN Begin(kept, b) = Slots
                             /\ \A k \in Slots : Begin(kept, b)[k] = IF k = j THEN b ELSE kept[k]
      BY <1>1, <1>2, <3>4, BeginIs
    <3>6. Placed(new, kept, 0, a, j, b) /\ j # 0
      BY <1>1, <1>2, <1>3, <3>3, <3>5 DEF Placed
    <3>7. QED
      BY <1>1, <1>2, <2>3, <3>6 DEF TwoBegun
  <2>4. CASE A # {} /\ B # {}
    <3>1. es = {a, b}
      BY <1>1, <1>2, <2>4
    <3>2. Cardinality(es) = 2 /\ es # {}
      BY <1>1, <1>2, <1>6, <3>1
    <3>0. Cardinality(es) # 1
      BY <1>1, <1>2, <3>2
    <3>3. new = Begin(Begin(kept, a), b)
      BY <1>1, <1>2, <3>0, <3>2
    <3>10. 2 <= Cardinality(Free(kept)) /\ HasRoom(kept)
      BY <1>1, <1>2, <1>4, <3>2
    <3>4. PICK i \in Slots : /\ kept[i].at = "idle" /\ DOMAIN Begin(kept, a) = Slots
                             /\ \A k \in Slots : Begin(kept, a)[k] = IF k = i THEN a ELSE kept[k]
      BY <1>1, <1>2, <3>10, BeginIs
    <3>11. PICK mid : mid = Begin(kept, a)
      OBVIOUS
    <3>6. DOMAIN mid = Slots /\ mid[i] = a /\ \A k \in Slots : k # i => mid[k] = kept[k]
      BY <1>1, <1>2, <3>4, <3>11
    <3>5. HasRoom(mid)
      <4>1. Free(mid) = Free(kept) \ {i} /\ i \in Free(kept)
        BY <1>1, <1>2, <3>4, <3>6 DEF Free, Running
      <4>2. Free(kept) # {i}
        <5>1. Cardinality({i}) = 1
          BY FS_Singleton
        <5>2. QED
          BY <1>1, <1>2, <3>10, <5>1
      <4>3. QED
        BY <1>1, <1>2, <4>1, <4>2 DEF HasRoom
    <3>7. PICK j \in Slots : /\ mid[j].at = "idle" /\ DOMAIN Begin(mid, b) = Slots
                             /\ \A k \in Slots : Begin(mid, b)[k] = IF k = j THEN b ELSE mid[k]
      BY <1>1, <1>2, <3>5, <3>6, BeginIs
    <3>8. new = Begin(mid, b)
      BY <1>1, <1>2, <3>3, <3>11
    <3>12. j # i
      BY <1>1, <1>2, <3>6, <3>7
    <3>13. \A k \in Slots : new[k] = IF k = i THEN a ELSE IF k = j THEN b ELSE kept[k]
      BY <1>1, <1>2, <3>6, <3>7, <3>8, <3>12
    <3>14. kept[j].at = "idle"
      BY <1>1, <1>2, <3>6, <3>7, <3>12
    <3>9. Placed(new, kept, i, a, j, b) /\ i # 0 /\ j # 0
      BY <1>1, <1>2, <1>3, <3>4, <3>7, <3>8, <3>12, <3>13, <3>14 DEF Placed
    <3>15. QED
      BY <1>1, <1>2, <2>4, <3>9 DEF TwoBegun
  <2>5. QED
    BY <1>1, <1>2, <2>1, <2>2, <2>3, <2>4

LEMMA TasksBegin ==
    ASSUME NEW s, GoodUi(s), NEW u, NEW ts, GoodTasks(ts), NEW es,
           es = (IF u # url THEN {fetchPlugins} ELSE {}) \cup (IF Fetches(s) THEN {FetchOf(s)} ELSE {}),
           Cardinality(es) <= Cardinality(Free(Kept(s, ts))),
           NEW new, new = CASE es = {} -> Kept(s, ts)
                            [] Cardinality(es) = 1 -> Begin(Kept(s, ts), CHOOSE e \in es : TRUE)
                            [] OTHER -> Begin(Begin(Kept(s, ts), fetchPlugins), FetchOf(s))
    PROVE  GoodTasks(new) /\ Begins(s, u, ts, new)
<1>1. PICK a, b, kept : a = fetchPlugins /\ b = FetchOf(s) /\ kept = Kept(s, ts)
  OBVIOUS
<1>2. GoodTask(a) /\ (Fetches(s) => GoodTask(b)) /\ a # b /\ a.at # "idle"
  <2>1. a.at = "plugins"
    BY <1>1, FetchesAre DEF Handler
  <2>2. QED
    BY <1>1, <2>1, FetchesAre DEF Fetches
<1>3. GoodTasks(kept)
  BY <1>1, UnmountedIs DEF Kept
<1>4. DOMAIN kept = Slots
  BY <1>3 DEF GoodTasks
<1>5. PICK A, B : A = (IF u # url THEN {a} ELSE {}) /\ B = (IF Fetches(s) THEN {b} ELSE {})
  OBVIOUS
<1>6. A \in {{}, {a}} /\ B \in {{}, {b}} /\ (A = {} <=> u = url) /\ (B = {} <=> ~Fetches(s))
  BY <1>5
<1>7. es = A \cup B
  BY <1>1, <1>5, Zenon
<1>8. /\ es = {} => new = kept
      /\ \A e : es = {e} => new = Begin(kept, e)
      /\ es # {} /\ Cardinality(es) # 1 => new = Begin(Begin(kept, a), b)
  <2>1. new = CASE es = {} -> kept
                [] Cardinality(es) = 1 -> Begin(kept, CHOOSE e \in es : TRUE)
                [] OTHER -> Begin(Begin(kept, a), b)
    BY <1>1, Zenon
  <2>2. ASSUME NEW e, es = {e} PROVE new = Begin(kept, e)
    <3>1. es # {} /\ Cardinality(es) = 1 /\ (CHOOSE x \in es : TRUE) = e
      BY <2>2, FS_Singleton
    <3>2. QED
      BY <2>1, <3>1
  <2>3. Cardinality({}) # 1
    BY FS_EmptySet
  <2>4. ASSUME es = {} PROVE new = kept
    BY <2>1, <2>3, <2>4
  <2>5. ASSUME es # {}, Cardinality(es) # 1 PROVE new = Begin(Begin(kept, a), b)
    BY <2>1, <2>5
  <2>6. QED
    BY <2>2, <2>4, <2>5
<1>9. Cardinality(es) <= Cardinality(Free(kept))
  BY <1>1, Zenon
<1>9a. TwoEffects(kept, a, A, b, B, new)
  BY <1>2, <1>4, <1>6, <1>7, <1>8, <1>9 DEF TwoEffects
<1>9b. TwoBegun(kept, a, A, b, B, new)
  BY <1>9a, TwoBegin
<1>10. PICK i, j : Placed(new, kept, i, a, j, b) /\ (i = 0 <=> A = {}) /\ (j = 0 <=> B = {})
  BY <1>9b DEF TwoBegun
<1>11. GoodTasks(new)
  <2>0. 0 \notin Slots
    BY DEF Slots
  <2>1. ASSUME NEW k \in Slots PROVE GoodTask(new[k])
    <3>1. k = j => Fetches(s)
      BY <1>6, <1>10, <2>0 DEF Placed
    <3>2. GoodTask(kept[k])
      BY <1>3 DEF GoodTasks
    <3>3. k = j => GoodTask(b)
      BY <1>2, <3>1, Zenon
    <3>4. QED
      BY <1>2, <1>10, <3>2, <3>3 DEF Placed
  <2>2. QED
    BY <1>10, <2>1 DEF GoodTasks, Placed
<1>12. Begins(s, u, ts, new)
  <2>1. (i = 0 <=> u = url) /\ (j = 0 <=> ~Fetches(s))
    BY <1>6, <1>10
  <2>2. Placed(new, Kept(s, ts), i, fetchPlugins, j, FetchOf(s))
    BY <1>1, <1>10, Zenon
  <2>3. QED
    BY <2>1, <2>2, Zenon DEF Begins
<1>13. QED
  BY <1>11, <1>12

\* The page after rendering state s, which has read the search parameters u.
LEMMA RenderIs ==
    ASSUME GoodUi(ui), NEW s0, GoodUi(s0), NEW u \in Urls, NEW ts, GoodTasks(ts), Render(s0, u, ts),
           NEW s, s = FromUrl(s0, u)
    PROVE  /\ GoodUi(s) /\ url' = u /\ GoodTasks(tasks') /\ Begins(s, u, ts, tasks')
           /\ ui' = IF s.page.tab = "details" THEN WithDetails(s, Comes(s)) ELSE WithFunctions(s, Comes(s))
           /\ GoodUi(ui') /\ FormMeant(ui'.details)
<1> DEFINE kept == Kept(s, ts)
           fetch == IF s.page.selected = None \/ (~Comes(s) /\ s.page.selected = ui.page.selected) THEN Idle
                    ELSE IF s.page.tab = "details" THEN fetchPluginDetails(s.page.selected)
                    ELSE fetchFunctions(s.page.selected, "nothing")
           es == (IF u # url THEN {fetchPlugins} ELSE {}) \cup ({fetch} \ {Idle})
           fs == (IF u # url THEN {fetchPlugins} ELSE {}) \cup (IF Fetches(s) THEN {FetchOf(s)} ELSE {})
<1>1. GoodUi(s)
  BY FromUrlIs
<1>2. /\ Cardinality(es) <= Cardinality(Free(kept)) /\ url' = u
      /\ ui' = IF s.page.tab = "details" THEN WithDetails(s, Comes(s)) ELSE WithFunctions(s, Comes(s))
      /\ tasks' = CASE es = {} -> kept
                    [] Cardinality(es) = 1 -> Begin(kept, CHOOSE e \in es : TRUE)
                    [] OTHER -> Begin(Begin(kept, fetchPlugins), fetch)
  BY DEF Render, Comes, Kept
<1>3. fetch = IF Fetches(s) THEN FetchOf(s) ELSE Idle
  <2>1. CASE Fetches(s)
    BY <2>1 DEF Fetches, Chosen, FetchOf
  <2>2. CASE ~Fetches(s)
    <3>1. s.page.selected = None \/ (~Comes(s) /\ s.page.selected = ui.page.selected)
      BY <2>2 DEF Fetches, Chosen
    <3>2. fetch = Idle
      BY <3>1
    <3>3. QED
      BY <2>2, <3>2
  <2>3. QED
    BY <2>1, <2>2
<1>4. FetchOf(s) # Idle
  BY <1>1, FetchesAre
<1>5. es = fs
  <2> HIDE DEF fetch
  <2>1. QED
    BY <1>3, <1>4
<1> HIDE DEF fetch, es
<1>6. tasks' = CASE fs = {} -> kept
                 [] Cardinality(fs) = 1 -> Begin(kept, CHOOSE e \in fs : TRUE)
                 [] OTHER -> Begin(Begin(kept, fetchPlugins), FetchOf(s))
  <2>1. ASSUME fs # {}, Cardinality(fs) # 1 PROVE fetch = FetchOf(s)
    <3>1. CASE Fetches(s)
      BY <1>3, <3>1
    <3>2. CASE ~Fetches(s)
      <4>1. fs \in {{}, {fetchPlugins}}
        BY <3>2
      <4>2. Cardinality({fetchPlugins}) = 1
        BY FS_Singleton
      <4>3. QED
        BY <2>1, <4>1, <4>2
    <3>3. QED
      BY <3>1, <3>2
  <2> HIDE DEF fs
  <2>2. CASE fs = {}
    BY <1>2, <1>5, <2>2
  <2>3. CASE Cardinality(fs) = 1
    BY <1>2, <1>5, <2>3
  <2>4. CASE fs # {} /\ Cardinality(fs) # 1
    BY <1>2, <1>5, <2>1, <2>4
  <2>5. QED
    BY <2>2, <2>3, <2>4
<1>7. Cardinality(fs) <= Cardinality(Free(kept))
  BY <1>2, <1>5
<1>8. PICK new : new = tasks'
  OBVIOUS
<1>9. GoodTasks(new) /\ Begins(s, u, ts, new)
  <2>1. PICK x : x = fs
    OBVIOUS
  <2>2. Cardinality(x) <= Cardinality(Free(Kept(s, ts)))
    BY <1>7, <2>1
  <2>3. new = CASE x = {} -> Kept(s, ts)
                [] Cardinality(x) = 1 -> Begin(Kept(s, ts), CHOOSE e \in x : TRUE)
                [] OTHER -> Begin(Begin(Kept(s, ts), fetchPlugins), FetchOf(s))
    BY <1>6, <1>8, <2>1, Zenon
  <2>4. x = (IF u # url THEN {fetchPlugins} ELSE {}) \cup (IF Fetches(s) THEN {FetchOf(s)} ELSE {})
    BY <2>1, Zenon
  <2> HIDE DEF fs, kept
  <2>5. QED
    BY <1>1, <2>2, <2>3, <2>4, TasksBegin
<1>10. GoodUi(ui') /\ FormMeant(ui'.details)
  <2>0. FormMeant(NoDetails)
    BY EmptyTabs DEF FormMeant
  <2>1. CASE s.page.tab = "details"
    BY <1>1, <1>2, <2>1, WithDetailsIs
  <2>2. CASE s.page.tab = "functions"
    BY <1>1, <1>2, <2>0, <2>2, WithFunctionsIs
  <2>3. QED
    BY <1>1, <2>1, <2>2 DEF GoodUi, PageType, PageTabs
<1>11. QED
  BY <1>1, <1>2, <1>8, <1>9, <1>10

\* Where the handlers are after rendering.
LEMMA PlacedIs ==
    ASSUME NEW new, NEW kept, NEW i, NEW a, NEW j, NEW b, Placed(new, kept, i, a, j, b)
    PROVE  /\ \A k \in Slots : kept[k].at # "idle" => new[k] = kept[k]
           /\ i # 0 => i \in Slots /\ new[i] = a /\ kept[i].at = "idle"
           /\ j # 0 => j \in Slots /\ new[j] = b /\ kept[j].at = "idle"
           /\ \A k \in Slots : new[k] = kept[k] \/ (k = i /\ i # 0 /\ new[k] = a) \/ (k = j /\ j # 0 /\ new[k] = b)
<1>1. 0 \notin Slots
  BY DEF Slots
<1>2. \A k \in Slots : kept[k].at # "idle" => new[k] = kept[k]
  BY DEF Placed
<1>3. i # 0 => i \in Slots /\ new[i] = a /\ kept[i].at = "idle"
  BY DEF Placed
<1>4. j # 0 => j \in Slots /\ new[j] = b /\ kept[j].at = "idle"
  BY DEF Placed
<1>5. \A k \in Slots : new[k] = kept[k] \/ (k = i /\ i # 0 /\ new[k] = a) \/ (k = j /\ j # 0 /\ new[k] = b)
  BY <1>1 DEF Placed
<1>6. QED
  BY <1>2, <1>3, <1>4, <1>5

\* What must be spinning before rendering.
SpinsSoon(s0, s, ts) ==
    /\ s0.page.loading => \E k \in Slots : ts[k].at \in ListPlaces
    /\ ~Comes(s) /\ s.page.tab = "details" /\ s.details.loading => Turns(ts, DetailsPlaces)
    /\ ~Comes(s) /\ s.page.tab = "functions" /\ s.functions.loading => Turns(ts, FunctionPlaces)

\* The tabs after rendering state s.
Rendered(s, v) ==
    /\ v.page = s.page
    /\ s.page.tab = "details" =>
        /\ v.functions = NoFunctions
        /\ v.details.plugin = IF Chosen(s) /\ s.page.selected = None THEN None
                              ELSE IF Comes(s) THEN None ELSE s.details.plugin
        /\ v.details.loading = ((~Comes(s) /\ s.details.loading) \/ Fetches(s))
        /\ v.details.open = ((~Comes(s) /\ s.details.open) \/ (s.page.temp /\ (Comes(s) \/ ~ui.page.temp)))
        /\ v.details.confirm = IF Comes(s) THEN None ELSE s.details.confirm
    /\ s.page.tab = "functions" =>
        /\ v.details = NoDetails
        /\ v.functions.list = IF Comes(s) THEN {} ELSE s.functions.list
        /\ v.functions.loading = ((~Comes(s) /\ s.functions.loading) \/ Fetches(s))
        /\ v.functions.form = IF Comes(s) THEN None ELSE s.functions.form

LEMMA RenderedIs ==
    ASSUME GoodUi(ui), NEW s, GoodUi(s), NEW v,
           v = IF s.page.tab = "details" THEN WithDetails(s, Comes(s)) ELSE WithFunctions(s, Comes(s))
    PROVE  Rendered(s, v)
<1>1. s.page.tab \in {"details", "functions"} /\ s.page \in PageType /\ s.functions \in FunctionsType
  BY DEF GoodUi, PageType, PageTabs
<1>2. CASE s.page.tab = "details"
  <2>1. v = WithDetails(s, Comes(s))
    BY <1>2
  <2>2. v.page = s.page /\ v.functions = NoFunctions
    BY <1>2, <2>1, WithDetailsIs
  <2>3. PICK form : v.details = Details(IF Chosen(s) /\ s.page.selected = None THEN None
                                    ELSE IF Comes(s) THEN None ELSE s.details.plugin,
                                    (~Comes(s) /\ s.details.loading) \/ Fetches(s),
                                    (~Comes(s) /\ s.details.open) \/ (s.page.temp /\ (Comes(s) \/ ~ui.page.temp)),
                                    form, IF Comes(s) THEN None ELSE s.details.confirm)
    BY <1>2, <2>1, WithDetailsIs
  <2>4. PICK x, l, o, c :
            /\ x = IF Chosen(s) /\ s.page.selected = None THEN None ELSE IF Comes(s) THEN None ELSE s.details.plugin
            /\ l = ((~Comes(s) /\ s.details.loading) \/ Fetches(s))
            /\ o = ((~Comes(s) /\ s.details.open) \/ (s.page.temp /\ (Comes(s) \/ ~ui.page.temp)))
            /\ c = IF Comes(s) THEN None ELSE s.details.confirm
    OBVIOUS
  <2>5. v.details = Details(x, l, o, form, c)
    BY <2>3, <2>4, Zenon
  <2>7. v.details.plugin = x /\ v.details.loading = l /\ v.details.open = o /\ v.details.confirm = c
    BY <2>5 DEF Details
  <2>6. QED
    BY <1>2, <2>2, <2>4, <2>7, Zenon DEF Rendered
<1>3. CASE s.page.tab = "functions"
  <2>1. v = WithFunctions(s, Comes(s))
    BY <1>3
  <2>2. v.page = s.page /\ v.details = NoDetails
        /\ v.functions = IF Comes(s) THEN [NoFunctions EXCEPT !.loading = Fetches(s)]
                         ELSE [s.functions EXCEPT !.loading = s.functions.loading \/ Fetches(s)]
    BY <1>3, <2>1, WithFunctionsIs
  <2>3. PICK L : L = Fetches(s)
    OBVIOUS
  <2>4. ASSUME Comes(s) PROVE v.functions.list = {} /\ v.functions.loading = L /\ v.functions.form = None
    <3>1. v.functions = [NoFunctions EXCEPT !.loading = L]
      BY <2>2, <2>3, <2>4
    <3>2. QED
      BY <3>1 DEF NoFunctions
  <2>5. ASSUME ~Comes(s)
        PROVE  v.functions.list = s.functions.list /\ v.functions.loading = (s.functions.loading \/ L)
               /\ v.functions.form = s.functions.form
    <3>1. PICK M : M = (s.functions.loading \/ L)
      OBVIOUS
    <3>2. v.functions = [s.functions EXCEPT !.loading = M]
      BY <2>2, <2>3, <2>5, <3>1
    <3>3. QED
      BY <1>1, <3>1, <3>2 DEF FunctionsType
  <2>6. L \in BOOLEAN
    BY <2>3 DEF Fetches
  <2>7. v.functions.loading = ((~Comes(s) /\ s.functions.loading) \/ L)
    BY <2>4, <2>5, <2>6
  <2>8. v.functions.list = (IF Comes(s) THEN {} ELSE s.functions.list)
        /\ v.functions.form = (IF Comes(s) THEN None ELSE s.functions.form)
    BY <2>4, <2>5
  <2>9. QED
    BY <1>3, <2>2, <2>3, <2>7, <2>8, Zenon DEF Rendered
<1>4. QED
  BY <1>1, <1>2, <1>3

\* Every spinner that spins after rendering has a handler that stops it.
LEMMA RenderSpins ==
    ASSUME NEW s0, NEW s, GoodUi(s), NEW u, NEW ts, GoodTasks(ts), NEW v, Rendered(s, v), NEW new, Begins(s, u, ts, new),
           s.page.loading => s0.page.loading \/ u # url, SpinsSoon(s0, s, ts)
    PROVE  Spins(v, new)
<1>1. PICK i, j : Placed(new, Kept(s, ts), i, fetchPlugins, j, FetchOf(s)) /\ (i = 0 <=> u = url) /\ (j = 0 <=> ~Fetches(s))
  BY Zenon DEF Begins
<1>2. /\ \A k \in Slots : Kept(s, ts)[k].at # "idle" => new[k] = Kept(s, ts)[k]
      /\ i # 0 => i \in Slots /\ new[i] = fetchPlugins
      /\ j # 0 => j \in Slots /\ new[j] = FetchOf(s)
  BY <1>1, PlacedIs
<1>3. fetchPlugins.at = "plugins" /\ FetchOf(s).live
      /\ FetchOf(s).at = IF s.page.tab = "details" THEN "details" ELSE "functions"
  BY FetchesAre DEF Handler
<1>4. s.page.tab \in {"details", "functions"}
  BY DEF GoodUi, PageType, PageTabs
<1>5. ASSUME v.page.loading PROVE \E k \in Slots : new[k].at \in ListPlaces
  <2>1. s.page.loading
    BY <1>5 DEF Rendered
  <2>2. CASE u # url
    <3>1. i \in Slots /\ new[i].at = "plugins"
      BY <1>1, <1>2, <1>3, <2>2
    <3>2. QED
      BY <3>1 DEF ListPlaces
  <2>3. CASE u = url
    <3>1. PICK k \in Slots : ts[k].at \in ListPlaces
      BY <2>1, <2>3 DEF SpinsSoon
    <3>2. Kept(s, ts)[k].at = ts[k].at
      BY <3>1, UnmountedIs DEF Kept
    <3>3. Kept(s, ts)[k].at \in ListPlaces /\ Kept(s, ts)[k].at # "idle"
      BY <3>1, <3>2 DEF ListPlaces
    <3>4. QED
      BY <1>2, <3>3
  <2>4. QED
    BY <2>2, <2>3
<1>6. ASSUME v.page.tab = "details", v.details.loading PROVE Turns(new, DetailsPlaces)
  <2>1. s.page.tab = "details" /\ ((~Comes(s) /\ s.details.loading) \/ Fetches(s))
    BY <1>6 DEF Rendered
  <2>2. CASE Fetches(s)
    <3>1. j \in Slots /\ new[j].at = "details" /\ new[j].live
      BY <1>1, <1>2, <1>3, <2>1, <2>2
    <3>2. QED
      BY <3>1 DEF Turns, DetailsPlaces
  <2>3. CASE ~Comes(s) /\ s.details.loading
    <3>1. PICK k \in Slots : ts[k].at \in DetailsPlaces /\ ts[k].live
      BY <2>1, <2>3 DEF SpinsSoon, Turns
    <3>2. Kept(s, ts)[k].at # "idle" /\ Kept(s, ts)[k] = ts[k]
      BY <2>3, <3>1 DEF Kept, DetailsPlaces
    <3>3. QED
      BY <1>2, <3>1, <3>2 DEF Turns
  <2>4. QED
    BY <2>1, <2>2, <2>3
<1>7. ASSUME v.page.tab = "functions", v.functions.loading PROVE Turns(new, FunctionPlaces)
  <2>1. s.page.tab = "functions" /\ ((~Comes(s) /\ s.functions.loading) \/ Fetches(s))
    BY <1>7 DEF Rendered
  <2>2. CASE Fetches(s)
    <3>1. j \in Slots /\ new[j].at = "functions" /\ new[j].live
      BY <1>1, <1>2, <1>3, <2>1, <2>2
    <3>2. QED
      BY <3>1 DEF Turns, FunctionPlaces
  <2>3. CASE ~Comes(s) /\ s.functions.loading
    <3>1. PICK k \in Slots : ts[k].at \in FunctionPlaces /\ ts[k].live
      BY <2>1, <2>3 DEF SpinsSoon, Turns
    <3>2. Kept(s, ts)[k].at # "idle" /\ Kept(s, ts)[k] = ts[k]
      BY <2>3, <3>1 DEF Kept, FunctionPlaces
    <3>3. QED
      BY <1>2, <3>1, <3>2 DEF Turns
  <2>4. QED
    BY <2>1, <2>2, <2>3
<1>8. QED
  BY <1>5, <1>6, <1>7 DEF Spins

\* What must hold of the handlers, and of the tabs after rendering, for the page to be calm.
Ready(d, u, s, v, ts, n) ==
    /\ u.tab \in {None, v.page.tab}
    /\ Comes(s) => \A k \in Slots : ts[k].at = "idle"
    /\ u # url \/ Fetches(s) => \A k \in Slots : ts[k].at \in {"idle", "refresh"}
    /\ Alone(v, ts) /\ AnswersHold(d, ts)
    /\ u # url \/ ListHolds(d, v, ts)
    /\ Fetches(s) \/ (DetailsHold(d, v, ts) /\ FunctionsHold(d, v, ts))
    /\ \A k \in Slots : Relies(u, v, ts[k])
    /\ Asked(v, ts) /\ Counted(d, v, ts, n)

\* The handlers after rendering, when the handlers of a tab that goes have ended.
LEMMA CalmTasks ==
    ASSUME NEW s, GoodUi(s), NEW u, NEW ts, GoodTasks(ts), NEW new, Begins(s, u, ts, new),
           Comes(s) => \A k \in Slots : ts[k].at = "idle"
    PROVE  \E i, j : /\ i = 0 <=> u = url
                     /\ j = 0 <=> ~Fetches(s)
                     /\ Placed(new, ts, i, fetchPlugins, j, FetchOf(s))
<1>1. PICK i, j : Placed(new, Kept(s, ts), i, fetchPlugins, j, FetchOf(s)) /\ (i = 0 <=> u = url) /\ (j = 0 <=> ~Fetches(s))
  BY Zenon DEF Begins
<1>2. ASSUME NEW k \in Slots PROVE Kept(s, ts)[k] = ts[k]
  <2>1. CASE Comes(s)
    <3>1. ts[k].at = "idle" /\ GoodTask(ts[k])
      BY <2>1 DEF GoodTasks
    <3>2. ts[k] = Idle
      BY <3>1, IdleIs
    <3>3. Unmounted(ts)[k] = Idle
      BY <3>1, UnmountedIs
    <3>4. QED
      BY <2>1, <3>2, <3>3 DEF Kept
  <2>2. CASE ~Comes(s)
    BY <2>2 DEF Kept
  <2>3. QED
    BY <2>1, <2>2
<1>3. Placed(new, ts, i, fetchPlugins, j, FetchOf(s))
  BY <1>1, <1>2 DEF Placed
<1>4. QED
  BY <1>1, <1>3

LEMMA RenderCalm ==
    ASSUME NEW d, GoodDb(d), NEW s, GoodUi(s), NEW u, NEW ts, GoodTasks(ts), NEW v, Rendered(s, v),
           NEW new, Begins(s, u, ts, new), NEW n, Ready(d, u, s, v, ts, n)
    PROVE  Calm(d, u, v, new, n)
<1> DEFINE a == fetchPlugins
           b == FetchOf(s)
<1>0. Comes(s) => \A k \in Slots : ts[k].at = "idle"
  BY DEF Ready
<1>1. PICK i, j : (i = 0 <=> u = url) /\ (j = 0 <=> ~Fetches(s)) /\ Placed(new, ts, i, a, j, b)
  BY <1>0, CalmTasks, Zenon
<1>2. /\ \A k \in Slots : ts[k].at # "idle" => new[k] = ts[k]
      /\ i # 0 => i \in Slots /\ new[i] = a /\ ts[i].at = "idle"
      /\ j # 0 => j \in Slots /\ new[j] = b /\ ts[j].at = "idle"
      /\ \A k \in Slots : new[k] = ts[k] \/ (k = i /\ i # 0 /\ new[k] = a) \/ (k = j /\ j # 0 /\ new[k] = b)
  BY <1>1, PlacedIs
<1>3. /\ a.at = "plugins" /\ a.live /\ DOMAIN a.got = {} /\ b.live /\ DOMAIN b.got = {}
      /\ s.page.tab = "details" => b.at = "details" /\ b.arg.id = s.page.selected
      /\ s.page.tab = "functions" => b.at = "functions" /\ b.arg.plugin = s.page.selected /\ b.arg.then = "nothing"
  <2>1. DOMAIN <<>> = {}
    OBVIOUS
  <2>2. a = Handler("plugins", <<>>, {getAllPlugins}, TRUE)
        /\ b = IF s.page.tab = "details"
               THEN Handler("details", [id |-> s.page.selected], {getPluginById(s.page.selected)}, TRUE)
               ELSE Handler("functions", [plugin |-> s.page.selected, then |-> "nothing"],
                            {getFunctionsForPlugin(s.page.selected)}, TRUE)
    BY FetchesAre
  <2> HIDE DEF a, b
  <2>3. QED
    BY <2>1, <2>2 DEF Handler
<1>4. s.page.tab \in {"details", "functions"} /\ v.page = s.page
  BY DEF GoodUi, PageType, PageTabs, Rendered
<1> HIDE DEF a, b
\* A handler of now is one from before, or one of the two that began.
<1>5. \A k \in Slots : new[k] # ts[k] => i # 0 \/ j # 0
  BY <1>2
<1>6. \A k \in Slots : \/ new[k] = ts[k]
                       \/ new[k] = a /\ k = i /\ u # url
                       \/ new[k] = b /\ k = j /\ Fetches(s)
  BY <1>1, <1>2
<1>7. \A k \in Slots : new[k] # ts[k] => \A x \in Slots : ts[x].at \in {"idle", "refresh"}
  BY <1>6 DEF Ready
<1>8. Alone(v, new)
  <2>0. Alone(v, ts)
    BY DEF Ready
  <2>1. ASSUME NEW k \in Slots, new[k].at # "idle" PROVE new[k].at \in PlacesOf(v.page.tab) /\ new[k].live
    BY <1>3, <1>4, <1>6, <2>0, <2>1 DEF Alone, PlacesOf, DetailsPlaces, FunctionPlaces
  <2>2. ASSUME NEW x \in Slots, NEW k \in Slots, new[x].at \in Writers, new[k].at \notin {"idle", "saveEdit"}
        PROVE  x = k
    <3>1. new[x] = ts[x] /\ new[x].at \notin {"idle", "refresh"}
      BY <1>3, <1>4, <1>6, <2>2 DEF Writers
    <3>2. new[k] = ts[k]
      BY <1>7, <3>1
    <3>3. QED
      BY <2>0, <2>2, <3>1, <3>2 DEF Alone
  <2>3. ASSUME NEW x \in Slots, NEW k \in Slots, {new[x].at, new[k].at} \subseteq FunctionPlaces \ {"saveEdit"}
        PROVE  x = k
    <3>0. \A o \in Slots : ts[o].at \in {"idle", "refresh"} => ts[o].at \notin FunctionPlaces
      BY DEF FunctionPlaces
    <3>1. CASE new[x] = ts[x] /\ new[k] = ts[k]
      BY <2>0, <2>3, <3>1 DEF Alone
    <3>2. CASE new[x] # ts[x] \/ new[k] # ts[k]
      <4>1. \A o \in Slots : ts[o].at \notin FunctionPlaces
        BY <1>7, <3>0, <3>2
      <4>2. new[x] # ts[x] /\ new[k] # ts[k]
        BY <2>3, <4>1
      <4>3. a.at \notin FunctionPlaces
        BY <1>3 DEF FunctionPlaces
      <4>4. x = j /\ k = j
        BY <1>6, <2>3, <4>2, <4>3
      <4>5. QED
        BY <4>4
    <3>3. QED
      BY <3>1, <3>2
  <2>4. QED
    BY <2>1, <2>2, <2>3 DEF Alone
<1>9. AnswersHold(d, new)
  <2>1. AnswersHold(d, ts)
    BY DEF Ready
  <2>2. ASSUME NEW k \in Slots, NEW r \in DOMAIN new[k].got PROVE new[k] = ts[k]
    BY <1>3, <1>6, <2>2
  <2>3. QED
    BY <2>1, <2>2 DEF AnswersHold
<1>10. ListHolds(d, v, new)
  <2>1. CASE u # url
    BY <1>1, <1>2, <1>3, <2>1 DEF ListHolds
  <2>2. CASE u = url
    <3>1. ListHolds(d, v, ts)
      BY <2>2 DEF Ready
    <3>2. QED
      BY <1>2, <3>1 DEF ListHolds
  <2>3. QED
    BY <2>1, <2>2
<1>11. DetailsHold(d, v, new) /\ FunctionsHold(d, v, new)
  <2>1. CASE Fetches(s)
    BY <1>1, <1>2, <1>3, <1>4, <2>1 DEF DetailsHold, FunctionsHold, FunctionPlaces
  <2>2. CASE ~Fetches(s)
    <3>1. DetailsHold(d, v, ts) /\ FunctionsHold(d, v, ts)
      BY <2>2 DEF Ready
    <3>2. DetailsHold(d, v, new)
      BY <1>2, <3>1 DEF DetailsHold
    <3>3. FunctionsHold(d, v, new)
      BY <1>2, <3>1 DEF FunctionsHold, FunctionPlaces
    <3>4. QED
      BY <3>2, <3>3
  <2>3. QED
    BY <2>1, <2>2
<1>12. ASSUME NEW k \in Slots PROVE Relies(u, v, new[k])
  <2>1. CASE new[k] = ts[k]
    BY <2>1 DEF Ready
  <2>2. CASE new[k] = a
    BY <1>3, <2>2 DEF Relies, FunctionPlaces
  <2>3. CASE new[k] = b /\ Fetches(s)
    <3>1. CASE s.page.tab = "details"
      BY <1>3, <1>4, <2>3, <3>1 DEF Relies, FunctionPlaces
    <3>2. CASE s.page.tab = "functions"
      <4>1. v.functions.loading
        BY <2>3, <3>2 DEF Rendered
      <4>2. QED
        BY <1>3, <1>4, <2>3, <3>2, <4>1 DEF Relies, FunctionPlaces
    <3>3. QED
      BY <1>4, <3>1, <3>2
  <2>4. QED
    BY <1>6, <2>1, <2>2, <2>3
<1>13. Asked(v, new)
  <2>1. Asked(v, ts)
    BY DEF Ready
  <2>2. QED
    BY <1>2, <2>1 DEF Asked
<1>14. Counted(d, v, new, n)
  <2>1. Counted(d, v, ts, n)
    BY DEF Ready
  <2>2. \A k \in Slots : /\ new[k].at = "save" => new[k] = ts[k]
                         /\ new[k].at = "addFunction" => new[k] = ts[k]
                         /\ new[k].at = "functions" => new[k] = ts[k] \/ new[k].arg.then # "closeForm"
    BY <1>3, <1>4, <1>6
  <2>3. NewPlugin(v, new) <=> NewPlugin(v, ts)
    BY <1>2, <2>2 DEF NewPlugin
  <2>4. NewFunction(v, new) <=> NewFunction(v, ts)
    BY <1>2, <2>2 DEF NewFunction
  <2>5. One(NewPlugin(v, new)) = One(NewPlugin(v, ts)) /\ One(NewFunction(v, new)) = One(NewFunction(v, ts))
    BY <2>3, <2>4 DEF One
  <2>6. QED
    BY <2>1, <2>5, Zenon DEF Counted
<1>15. u.tab \in {None, v.page.tab}
  BY DEF Ready
<1>16. QED
  BY <1>8, <1>9, <1>10, <1>11, <1>12, <1>13, <1>14, <1>15 DEF Calm

-----------------------------------------------------------------------------
(* What rendering keeps.                                                   *)

LEMMA RenderKeeps ==
    ASSUME PageInv, NEW s0, GoodUi(s0), NEW u \in Urls, NEW ts, GoodTasks(ts), Render(s0, u, ts),
           NEW s, s = FromUrl(s0, u), SpinsSoon(s0, s, ts), GoodDb(db'), forms' \in Nat,
           ~hasty' /\ ~failed' => \A v : Rendered(s, v) => Ready(db', u, s, v, ts, forms')
    PROVE  PageInv'
<1>1. GoodUi(ui)
  BY DEF PageInv, TypeInv
<1>2. /\ GoodUi(s) /\ url' = u /\ GoodTasks(tasks') /\ Begins(s, u, ts, tasks')
      /\ ui' = IF s.page.tab = "details" THEN WithDetails(s, Comes(s)) ELSE WithFunctions(s, Comes(s))
      /\ GoodUi(ui') /\ FormMeant(ui'.details)
  BY <1>1, RenderIs
<1>3. s.page.loading => s0.page.loading \/ u # url
  <2>1. PICK l, p, t : /\ l = (s0.page.loading \/ u # url)
                       /\ p = IF u = url \/ u.id = None THEN s0.page.selected ELSE u.id
                       /\ t = IF u = url \/ u.tab = None THEN s0.page.tab ELSE u.tab
    OBVIOUS
  <2>2. s.page = Page(s0.page.plugins, l, p, t, s0.page.temp)
    BY <1>1, <2>1, FromUrlIs, Zenon
  <2>3. s.page.loading = l
    BY <2>2 DEF Page
  <2>4. QED
    BY <2>1, <2>3
<1>4. PICK v, new : v = ui' /\ new = tasks'
  OBVIOUS
<1>5. Rendered(s, v) /\ Begins(s, u, ts, new)
  BY <1>1, <1>2, <1>4, RenderedIs
<1>6. Spins(v, new)
  BY <1>2, <1>3, <1>5, RenderSpins
<1>7. ASSUME ~hasty', ~failed' PROVE Calm(db', u, v, new, forms')
  <2>1. Ready(db', u, s, v, ts, forms')
    BY <1>5, <1>7
  <2>2. PICK d, n : d = db' /\ n = forms'
    OBVIOUS
  <2>3. GoodDb(d) /\ Ready(d, u, s, v, ts, n)
    BY <2>1, <2>2
  <2>4. Calm(d, u, v, new, n)
    BY <1>2, <1>5, <2>3, RenderCalm
  <2>5. QED
    BY <2>2, <2>4
<1>8. TypeInv'
  <2>1. FormMeant(ui'.details) <=> FormMeant(ui.details)'
    BY DEF FormMeant, Meant
  <2>2. QED
    BY <1>2, <2>1 DEF TypeInv
<1>9. SpinInv'
  <2>1. Spins(ui', tasks')
    BY <1>4, <1>6
  <2>2. SpinInv' <=> Spins(ui', tasks')
    BY DEF SpinInv, Spins, Turns
  <2>3. QED
    BY <2>1, <2>2
<1>10. CalmInv'
  <2>1. ~hasty' /\ ~failed' => Calm(db', url', ui', tasks', forms')
    BY <1>2, <1>4, <1>7
  <2>2. QED
    BY <2>1 DEF CalmInv
<1>11. QED
  BY <1>8, <1>9, <1>10 DEF PageInv

\* A step that stays with the tab and the selection, and begins no plugin from the list.
LEMMA HereKeeps ==
    ASSUME PageInv, NEW s, GoodUi(s), NEW ts, GoodTasks(ts), Render(s, url, ts),
           s.page.tab = ui.page.tab, s.page.selected = ui.page.selected, s.page.temp => ui.page.temp,
           GoodDb(db'), forms' \in Nat, Spins(s, ts),
           ~hasty' /\ ~failed' => Calm(db', url, s, ts, forms')
    PROVE  PageInv'
<1>1. url \in Urls /\ s = FromUrl(s, url)
  BY DEF PageInv, TypeInv, FromUrl
<1>2. ~Comes(s) /\ ~Chosen(s) /\ ~Fetches(s)
  BY DEF Comes, Chosen, Fetches
<1>3. SpinsSoon(s, s, ts)
  BY DEF Spins, SpinsSoon
<1>4. ASSUME ~hasty', ~failed', NEW v, Rendered(s, v) PROVE Ready(db', url, s, v, ts, forms')
  <2>1. PICK d, n : d = db' /\ n = forms'
    OBVIOUS
  <2>2. Calm(d, url, s, ts, n)
    BY <1>4, <2>1
  <2>3. v.page = s.page /\ s.page.tab \in {"details", "functions"} /\ s.page.temp \in BOOLEAN
        /\ s.details \in DetailsType
    BY <1>4 DEF Rendered, GoodUi, PageType, PageTabs, GoodDetails
  <2>4. s.page.tab = "details" => /\ v.details.plugin = s.details.plugin /\ v.details.loading = s.details.loading
                                  /\ v.details.open = s.details.open /\ v.details.confirm = s.details.confirm
    BY <1>2, <1>4, <2>3 DEF Rendered, DetailsType
  <2>5. s.page.tab = "functions" => /\ v.functions.list = s.functions.list /\ v.functions.form = s.functions.form
                                    /\ v.functions.loading = s.functions.loading
    BY <1>2, <1>4 DEF Rendered, GoodUi, FunctionsType
  <2>6. Alone(v, ts) /\ AnswersHold(d, ts) /\ url.tab \in {None, v.page.tab}
    BY <2>2, <2>3 DEF Calm, Alone
  <2>7. ListHolds(d, v, ts) /\ DetailsHold(d, v, ts) /\ FunctionsHold(d, v, ts)
    BY <2>2, <2>3, <2>4, <2>5 DEF Calm, ListHolds, DetailsHold, FunctionsHold
  <2>8. ASSUME NEW k \in Slots PROVE Relies(url, v, ts[k])
    <3>1. Relies(url, s, ts[k])
      BY <2>2 DEF Calm
    <3>2. ts[k].at # "idle" => ts[k].at \in PlacesOf(s.page.tab)
      BY <2>2 DEF Calm, Alone
    <3>3. ts[k].at \in {"save", "delete"} => s.page.tab = "details"
      BY <2>3, <3>2 DEF PlacesOf, FunctionPlaces
    <3>4. ts[k].at \in FunctionPlaces => s.page.tab = "functions"
      BY <2>3, <3>2 DEF PlacesOf, FunctionPlaces, DetailsPlaces
    <3>5. "addFunction" \in FunctionPlaces
      BY DEF FunctionPlaces
    <3>6. QED
      BY <2>3, <2>4, <2>5, <3>1, <3>3, <3>4, <3>5 DEF Relies
  <2>9. Asked(v, ts)
    BY <2>2, <2>3, <2>4 DEF Calm, Asked
  <2>10. NewPlugin(v, ts) <=> NewPlugin(s, ts)
    BY <2>3, <2>4 DEF NewPlugin
  <2>11. NewFunction(v, ts) <=> NewFunction(s, ts)
    BY <2>3, <2>5 DEF NewFunction
  <2>12. One(NewPlugin(v, ts)) = One(NewPlugin(s, ts)) /\ One(NewFunction(v, ts)) = One(NewFunction(s, ts))
    BY <2>10, <2>11 DEF One
  <2>13. Counted(d, v, ts, n)
    BY <2>2, <2>12 DEF Calm, Counted
  <2>14. QED
    BY <1>2, <2>1, <2>6, <2>7, <2>8, <2>9, <2>13 DEF Ready
<1>5. QED
  BY <1>1, <1>3, <1>4, RenderKeeps

-----------------------------------------------------------------------------
(* Changes of one part of the page.                                        *)

\* The parts of a state have their types.
LEMMA PartsAre ==
    ASSUME NEW s, GoodUi(s)
    PROVE  /\ s.page.plugins \in Partial(Plugins, Texts) /\ s.page.loading \in BOOLEAN /\ s.page.selected \in Ids
           /\ s.page.tab \in {"details", "functions"} /\ s.page.temp \in BOOLEAN /\ s.page \in PageType
           /\ s.details.plugin \in [id : Plugins, text : Texts] \cup {None}
           /\ s.details.plugin # None => GoodPlugin(s.details.plugin)
           /\ s.details.loading \in BOOLEAN /\ s.details.open \in BOOLEAN /\ s.details.form \in Texts \cup {Blank}
           /\ s.details.confirm \in Ids /\ GoodDetails(s.details) /\ s.functions \in FunctionsType
           /\ s.functions.list \in SUBSET Functions /\ s.functions.loading \in BOOLEAN
           /\ s.functions.form \in {None, Blank, Typed} /\ s.functions.editing \in Functions \cup {None}
           /\ s.functions.confirm \in Functions \cup {None}
<1>1. s.page \in PageType /\ GoodDetails(s.details) /\ s.functions \in FunctionsType
  BY DEF GoodUi
<1>2. /\ s.page.plugins \in Partial(Plugins, Texts) /\ s.page.loading \in BOOLEAN /\ s.page.selected \in Ids
      /\ s.page.tab \in {"details", "functions"} /\ s.page.temp \in BOOLEAN
  BY <1>1 DEF PageType, PageTabs
<1>3. /\ s.details.plugin \in [id : Plugins, text : Texts] \cup {None}
      /\ s.details.plugin # None => GoodPlugin(s.details.plugin)
      /\ s.details.loading \in BOOLEAN /\ s.details.open \in BOOLEAN /\ s.details.form \in Texts \cup {Blank}
      /\ s.details.confirm \in Ids
  BY <1>1 DEF GoodDetails, DetailsType
<1>4. /\ s.functions.list \in SUBSET Functions /\ s.functions.loading \in BOOLEAN
      /\ s.functions.form \in {None, Blank, Typed} /\ s.functions.editing \in Functions \cup {None}
      /\ s.functions.confirm \in Functions \cup {None}
  BY <1>1 DEF FunctionsType
<1>5. QED
  BY <1>1, <1>2, <1>3, <1>4

\* A state that differs from another in one part, by its fields.
DetailsBecome(s, w, p, l, o, f, c) ==
    /\ w.page = s.page /\ w.functions = s.functions
    /\ w.details.plugin = p /\ w.details.loading = l /\ w.details.open = o /\ w.details.form = f /\ w.details.confirm = c
FunctionsBecome(s, w, x, l, f, e, c) ==
    /\ w.page = s.page /\ w.details = s.details
    /\ w.functions.list = x /\ w.functions.loading = l /\ w.functions.form = f /\ w.functions.editing = e /\ w.functions.confirm = c
PageBecomes(s, w, x, l, p, t, b) ==
    /\ w.details = s.details /\ w.functions = s.functions
    /\ w.page.plugins = x /\ w.page.loading = l /\ w.page.selected = p /\ w.page.tab = t /\ w.page.temp = b

LEMMA DetailsPluginSet ==
    ASSUME NEW s, GoodUi(s), NEW x, x \in [id : Plugins, text : Texts] \cup {None}, x # None => GoodPlugin(x), NEW t, t = [s EXCEPT !.details.plugin = x]
    PROVE  GoodUi(t) /\ DetailsBecome(s, t, x, s.details.loading, s.details.open, s.details.form, s.details.confirm)
<1>1. s = Ui(s.page, s.details, s.functions) /\ s.details \in DetailsType
      /\ s.page \in PageType /\ GoodDetails(s.details) /\ s.functions \in FunctionsType
  BY PartsAre, UiIs DEF GoodDetails
<1> DEFINE y == [s.details EXCEPT !.plugin = x]
<1>2. y \in DetailsType /\ y.plugin = x /\ y.loading = s.details.loading /\ y.open = s.details.open /\ y.form = s.details.form /\ y.confirm = s.details.confirm
  BY <1>1 DEF DetailsType
<1>3. t = [s EXCEPT !.details = y]
  OBVIOUS
<1> HIDE DEF y
<1>4. t = Ui(s.page, y, s.functions)
  BY <1>1, <1>3 DEF Ui
<1>5. GoodDetails(y)
  BY <1>2, PartsAre DEF GoodDetails
<1>6. GoodUi(Ui(s.page, y, s.functions)) /\ Ui(s.page, y, s.functions).details = y /\ Ui(s.page, y, s.functions).page = s.page /\ Ui(s.page, y, s.functions).functions = s.functions
  BY <1>1, <1>5, UiOf
<1>7. GoodUi(t) /\ t.details = y /\ t.page = s.page /\ t.functions = s.functions
  BY <1>4, <1>6, Zenon
<1>8. QED
  BY <1>2, <1>7 DEF DetailsBecome

LEMMA DetailsLoadingSet ==
    ASSUME NEW s, GoodUi(s), NEW x \in BOOLEAN, NEW t, t = [s EXCEPT !.details.loading = x]
    PROVE  GoodUi(t) /\ DetailsBecome(s, t, s.details.plugin, x, s.details.open, s.details.form, s.details.confirm)
<1>1. s = Ui(s.page, s.details, s.functions) /\ s.details \in DetailsType
      /\ s.page \in PageType /\ GoodDetails(s.details) /\ s.functions \in FunctionsType
  BY PartsAre, UiIs DEF GoodDetails
<1> DEFINE y == [s.details EXCEPT !.loading = x]
<1>2. y \in DetailsType /\ y.loading = x /\ y.plugin = s.details.plugin /\ y.open = s.details.open /\ y.form = s.details.form /\ y.confirm = s.details.confirm
  BY <1>1 DEF DetailsType
<1>3. t = [s EXCEPT !.details = y]
  OBVIOUS
<1> HIDE DEF y
<1>4. t = Ui(s.page, y, s.functions)
  BY <1>1, <1>3 DEF Ui
<1>5. GoodDetails(y)
  BY <1>2, PartsAre DEF GoodDetails
<1>6. GoodUi(Ui(s.page, y, s.functions)) /\ Ui(s.page, y, s.functions).details = y /\ Ui(s.page, y, s.functions).page = s.page /\ Ui(s.page, y, s.functions).functions = s.functions
  BY <1>1, <1>5, UiOf
<1>7. GoodUi(t) /\ t.details = y /\ t.page = s.page /\ t.functions = s.functions
  BY <1>4, <1>6, Zenon
<1>8. QED
  BY <1>2, <1>7 DEF DetailsBecome

LEMMA DetailsOpenSet ==
    ASSUME NEW s, GoodUi(s), NEW x \in BOOLEAN, NEW t, t = [s EXCEPT !.details.open = x]
    PROVE  GoodUi(t) /\ DetailsBecome(s, t, s.details.plugin, s.details.loading, x, s.details.form, s.details.confirm)
<1>1. s = Ui(s.page, s.details, s.functions) /\ s.details \in DetailsType
      /\ s.page \in PageType /\ GoodDetails(s.details) /\ s.functions \in FunctionsType
  BY PartsAre, UiIs DEF GoodDetails
<1> DEFINE y == [s.details EXCEPT !.open = x]
<1>2. y \in DetailsType /\ y.open = x /\ y.plugin = s.details.plugin /\ y.loading = s.details.loading /\ y.form = s.details.form /\ y.confirm = s.details.confirm
  BY <1>1 DEF DetailsType
<1>3. t = [s EXCEPT !.details = y]
  OBVIOUS
<1> HIDE DEF y
<1>4. t = Ui(s.page, y, s.functions)
  BY <1>1, <1>3 DEF Ui
<1>5. GoodDetails(y)
  BY <1>2, PartsAre DEF GoodDetails
<1>6. GoodUi(Ui(s.page, y, s.functions)) /\ Ui(s.page, y, s.functions).details = y /\ Ui(s.page, y, s.functions).page = s.page /\ Ui(s.page, y, s.functions).functions = s.functions
  BY <1>1, <1>5, UiOf
<1>7. GoodUi(t) /\ t.details = y /\ t.page = s.page /\ t.functions = s.functions
  BY <1>4, <1>6, Zenon
<1>8. QED
  BY <1>2, <1>7 DEF DetailsBecome

LEMMA DetailsFormSet ==
    ASSUME NEW s, GoodUi(s), NEW x \in Texts \cup {Blank}, NEW t, t = [s EXCEPT !.details.form = x]
    PROVE  GoodUi(t) /\ DetailsBecome(s, t, s.details.plugin, s.details.loading, s.details.open, x, s.details.confirm)
<1>1. s = Ui(s.page, s.details, s.functions) /\ s.details \in DetailsType
      /\ s.page \in PageType /\ GoodDetails(s.details) /\ s.functions \in FunctionsType
  BY PartsAre, UiIs DEF GoodDetails
<1> DEFINE y == [s.details EXCEPT !.form = x]
<1>2. y \in DetailsType /\ y.form = x /\ y.plugin = s.details.plugin /\ y.loading = s.details.loading /\ y.open = s.details.open /\ y.confirm = s.details.confirm
  BY <1>1 DEF DetailsType
<1>3. t = [s EXCEPT !.details = y]
  OBVIOUS
<1> HIDE DEF y
<1>4. t = Ui(s.page, y, s.functions)
  BY <1>1, <1>3 DEF Ui
<1>5. GoodDetails(y)
  BY <1>2, PartsAre DEF GoodDetails
<1>6. GoodUi(Ui(s.page, y, s.functions)) /\ Ui(s.page, y, s.functions).details = y /\ Ui(s.page, y, s.functions).page = s.page /\ Ui(s.page, y, s.functions).functions = s.functions
  BY <1>1, <1>5, UiOf
<1>7. GoodUi(t) /\ t.details = y /\ t.page = s.page /\ t.functions = s.functions
  BY <1>4, <1>6, Zenon
<1>8. QED
  BY <1>2, <1>7 DEF DetailsBecome

LEMMA DetailsConfirmSet ==
    ASSUME NEW s, GoodUi(s), NEW x \in Ids, NEW t, t = [s EXCEPT !.details.confirm = x]
    PROVE  GoodUi(t) /\ DetailsBecome(s, t, s.details.plugin, s.details.loading, s.details.open, s.details.form, x)
<1>1. s = Ui(s.page, s.details, s.functions) /\ s.details \in DetailsType
      /\ s.page \in PageType /\ GoodDetails(s.details) /\ s.functions \in FunctionsType
  BY PartsAre, UiIs DEF GoodDetails
<1> DEFINE y == [s.details EXCEPT !.confirm = x]
<1>2. y \in DetailsType /\ y.confirm = x /\ y.plugin = s.details.plugin /\ y.loading = s.details.loading /\ y.open = s.details.open /\ y.form = s.details.form
  BY <1>1 DEF DetailsType, Ids
<1>3. t = [s EXCEPT !.details = y]
  OBVIOUS
<1> HIDE DEF y
<1>4. t = Ui(s.page, y, s.functions)
  BY <1>1, <1>3 DEF Ui
<1>5. GoodDetails(y)
  BY <1>2, PartsAre DEF GoodDetails
<1>6. GoodUi(Ui(s.page, y, s.functions)) /\ Ui(s.page, y, s.functions).details = y /\ Ui(s.page, y, s.functions).page = s.page /\ Ui(s.page, y, s.functions).functions = s.functions
  BY <1>1, <1>5, UiOf
<1>7. GoodUi(t) /\ t.details = y /\ t.page = s.page /\ t.functions = s.functions
  BY <1>4, <1>6, Zenon
<1>8. QED
  BY <1>2, <1>7 DEF DetailsBecome

LEMMA FunctionsListSet ==
    ASSUME NEW s, GoodUi(s), NEW x \in SUBSET Functions, NEW t, t = [s EXCEPT !.functions.list = x]
    PROVE  GoodUi(t) /\ FunctionsBecome(s, t, x, s.functions.loading, s.functions.form, s.functions.editing, s.functions.confirm)
<1>1. s = Ui(s.page, s.details, s.functions) /\ s.functions \in FunctionsType
      /\ s.page \in PageType /\ GoodDetails(s.details) /\ s.functions \in FunctionsType
  BY PartsAre, UiIs DEF GoodDetails
<1> DEFINE y == [s.functions EXCEPT !.list = x]
<1>2. y \in FunctionsType /\ y.list = x /\ y.loading = s.functions.loading /\ y.form = s.functions.form /\ y.editing = s.functions.editing /\ y.confirm = s.functions.confirm
  BY <1>1 DEF FunctionsType
<1>3. t = [s EXCEPT !.functions = y]
  OBVIOUS
<1> HIDE DEF y
<1>4. t = Ui(s.page, s.details, y)
  BY <1>1, <1>3 DEF Ui
<1>6. GoodUi(Ui(s.page, s.details, y)) /\ Ui(s.page, s.details, y).functions = y /\ Ui(s.page, s.details, y).page = s.page /\ Ui(s.page, s.details, y).details = s.details
  BY <1>1, <1>2, UiOf
<1>7. GoodUi(t) /\ t.functions = y /\ t.page = s.page /\ t.details = s.details
  BY <1>4, <1>6, Zenon
<1>8. QED
  BY <1>2, <1>7 DEF FunctionsBecome

LEMMA FunctionsLoadingSet ==
    ASSUME NEW s, GoodUi(s), NEW x \in BOOLEAN, NEW t, t = [s EXCEPT !.functions.loading = x]
    PROVE  GoodUi(t) /\ FunctionsBecome(s, t, s.functions.list, x, s.functions.form, s.functions.editing, s.functions.confirm)
<1>1. s = Ui(s.page, s.details, s.functions) /\ s.functions \in FunctionsType
      /\ s.page \in PageType /\ GoodDetails(s.details) /\ s.functions \in FunctionsType
  BY PartsAre, UiIs DEF GoodDetails
<1> DEFINE y == [s.functions EXCEPT !.loading = x]
<1>2. y \in FunctionsType /\ y.loading = x /\ y.list = s.functions.list /\ y.form = s.functions.form /\ y.editing = s.functions.editing /\ y.confirm = s.functions.confirm
  BY <1>1 DEF FunctionsType
<1>3. t = [s EXCEPT !.functions = y]
  OBVIOUS
<1> HIDE DEF y
<1>4. t = Ui(s.page, s.details, y)
  BY <1>1, <1>3 DEF Ui
<1>6. GoodUi(Ui(s.page, s.details, y)) /\ Ui(s.page, s.details, y).functions = y /\ Ui(s.page, s.details, y).page = s.page /\ Ui(s.page, s.details, y).details = s.details
  BY <1>1, <1>2, UiOf
<1>7. GoodUi(t) /\ t.functions = y /\ t.page = s.page /\ t.details = s.details
  BY <1>4, <1>6, Zenon
<1>8. QED
  BY <1>2, <1>7 DEF FunctionsBecome

LEMMA FunctionsFormSet ==
    ASSUME NEW s, GoodUi(s), NEW x \in {None, Blank, Typed}, NEW t, t = [s EXCEPT !.functions.form = x]
    PROVE  GoodUi(t) /\ FunctionsBecome(s, t, s.functions.list, s.functions.loading, x, s.functions.editing, s.functions.confirm)
<1>1. s = Ui(s.page, s.details, s.functions) /\ s.functions \in FunctionsType
      /\ s.page \in PageType /\ GoodDetails(s.details) /\ s.functions \in FunctionsType
  BY PartsAre, UiIs DEF GoodDetails
<1> DEFINE y == [s.functions EXCEPT !.form = x]
<1>2. y \in FunctionsType /\ y.form = x /\ y.list = s.functions.list /\ y.loading = s.functions.loading /\ y.editing = s.functions.editing /\ y.confirm = s.functions.confirm
  BY <1>1 DEF FunctionsType
<1>3. t = [s EXCEPT !.functions = y]
  OBVIOUS
<1> HIDE DEF y
<1>4. t = Ui(s.page, s.details, y)
  BY <1>1, <1>3 DEF Ui
<1>6. GoodUi(Ui(s.page, s.details, y)) /\ Ui(s.page, s.details, y).functions = y /\ Ui(s.page, s.details, y).page = s.page /\ Ui(s.page, s.details, y).details = s.details
  BY <1>1, <1>2, UiOf
<1>7. GoodUi(t) /\ t.functions = y /\ t.page = s.page /\ t.details = s.details
  BY <1>4, <1>6, Zenon
<1>8. QED
  BY <1>2, <1>7 DEF FunctionsBecome

LEMMA FunctionsEditingSet ==
    ASSUME NEW s, GoodUi(s), NEW x \in Functions \cup {None}, NEW t, t = [s EXCEPT !.functions.editing = x]
    PROVE  GoodUi(t) /\ FunctionsBecome(s, t, s.functions.list, s.functions.loading, s.functions.form, x, s.functions.confirm)
<1>1. s = Ui(s.page, s.details, s.functions) /\ s.functions \in FunctionsType
      /\ s.page \in PageType /\ GoodDetails(s.details) /\ s.functions \in FunctionsType
  BY PartsAre, UiIs DEF GoodDetails
<1> DEFINE y == [s.functions EXCEPT !.editing = x]
<1>2. y \in FunctionsType /\ y.editing = x /\ y.list = s.functions.list /\ y.loading = s.functions.loading /\ y.form = s.functions.form /\ y.confirm = s.functions.confirm
  BY <1>1 DEF FunctionsType
<1>3. t = [s EXCEPT !.functions = y]
  OBVIOUS
<1> HIDE DEF y
<1>4. t = Ui(s.page, s.details, y)
  BY <1>1, <1>3 DEF Ui
<1>6. GoodUi(Ui(s.page, s.details, y)) /\ Ui(s.page, s.details, y).functions = y /\ Ui(s.page, s.details, y).page = s.page /\ Ui(s.page, s.details, y).details = s.details
  BY <1>1, <1>2, UiOf
<1>7. GoodUi(t) /\ t.functions = y /\ t.page = s.page /\ t.details = s.details
  BY <1>4, <1>6, Zenon
<1>8. QED
  BY <1>2, <1>7 DEF FunctionsBecome

LEMMA FunctionsConfirmSet ==
    ASSUME NEW s, GoodUi(s), NEW x \in Functions \cup {None}, NEW t, t = [s EXCEPT !.functions.confirm = x]
    PROVE  GoodUi(t) /\ FunctionsBecome(s, t, s.functions.list, s.functions.loading, s.functions.form, s.functions.editing, x)
<1>1. s = Ui(s.page, s.details, s.functions) /\ s.functions \in FunctionsType
      /\ s.page \in PageType /\ GoodDetails(s.details) /\ s.functions \in FunctionsType
  BY PartsAre, UiIs DEF GoodDetails
<1> DEFINE y == [s.functions EXCEPT !.confirm = x]
<1>2. y \in FunctionsType /\ y.confirm = x /\ y.list = s.functions.list /\ y.loading = s.functions.loading /\ y.form = s.functions.form /\ y.editing = s.functions.editing
  BY <1>1 DEF FunctionsType
<1>3. t = [s EXCEPT !.functions = y]
  OBVIOUS
<1> HIDE DEF y
<1>4. t = Ui(s.page, s.details, y)
  BY <1>1, <1>3 DEF Ui
<1>6. GoodUi(Ui(s.page, s.details, y)) /\ Ui(s.page, s.details, y).functions = y /\ Ui(s.page, s.details, y).page = s.page /\ Ui(s.page, s.details, y).details = s.details
  BY <1>1, <1>2, UiOf
<1>7. GoodUi(t) /\ t.functions = y /\ t.page = s.page /\ t.details = s.details
  BY <1>4, <1>6, Zenon
<1>8. QED
  BY <1>2, <1>7 DEF FunctionsBecome

LEMMA PagePluginsSet ==
    ASSUME NEW s, GoodUi(s), NEW x \in Partial(Plugins, Texts), NEW t, t = [s EXCEPT !.page.plugins = x]
    PROVE  GoodUi(t) /\ PageBecomes(s, t, x, s.page.loading, s.page.selected, s.page.tab, s.page.temp)
<1>1. s = Ui(s.page, s.details, s.functions) /\ s.page \in PageType
      /\ s.page \in PageType /\ GoodDetails(s.details) /\ s.functions \in FunctionsType
  BY PartsAre, UiIs DEF GoodDetails
<1> DEFINE y == [s.page EXCEPT !.plugins = x]
<1>2. y \in PageType /\ y.plugins = x /\ y.loading = s.page.loading /\ y.selected = s.page.selected /\ y.tab = s.page.tab /\ y.temp = s.page.temp
  BY <1>1 DEF PageType
<1>3. t = [s EXCEPT !.page = y]
  OBVIOUS
<1> HIDE DEF y
<1>4. t = Ui(y, s.details, s.functions)
  BY <1>1, <1>3 DEF Ui
<1>6. GoodUi(Ui(y, s.details, s.functions)) /\ Ui(y, s.details, s.functions).page = y /\ Ui(y, s.details, s.functions).details = s.details /\ Ui(y, s.details, s.functions).functions = s.functions
  BY <1>1, <1>2, UiOf
<1>7. GoodUi(t) /\ t.page = y /\ t.details = s.details /\ t.functions = s.functions
  BY <1>4, <1>6, Zenon
<1>8. QED
  BY <1>2, <1>7 DEF PageBecomes

LEMMA PageLoadingSet ==
    ASSUME NEW s, GoodUi(s), NEW x \in BOOLEAN, NEW t, t = [s EXCEPT !.page.loading = x]
    PROVE  GoodUi(t) /\ PageBecomes(s, t, s.page.plugins, x, s.page.selected, s.page.tab, s.page.temp)
<1>1. s = Ui(s.page, s.details, s.functions) /\ s.page \in PageType
      /\ s.page \in PageType /\ GoodDetails(s.details) /\ s.functions \in FunctionsType
  BY PartsAre, UiIs DEF GoodDetails
<1> DEFINE y == [s.page EXCEPT !.loading = x]
<1>2. y \in PageType /\ y.loading = x /\ y.plugins = s.page.plugins /\ y.selected = s.page.selected /\ y.tab = s.page.tab /\ y.temp = s.page.temp
  BY <1>1 DEF PageType
<1>3. t = [s EXCEPT !.page = y]
  OBVIOUS
<1> HIDE DEF y
<1>4. t = Ui(y, s.details, s.functions)
  BY <1>1, <1>3 DEF Ui
<1>6. GoodUi(Ui(y, s.details, s.functions)) /\ Ui(y, s.details, s.functions).page = y /\ Ui(y, s.details, s.functions).details = s.details /\ Ui(y, s.details, s.functions).functions = s.functions
  BY <1>1, <1>2, UiOf
<1>7. GoodUi(t) /\ t.page = y /\ t.details = s.details /\ t.functions = s.functions
  BY <1>4, <1>6, Zenon
<1>8. QED
  BY <1>2, <1>7 DEF PageBecomes

LEMMA PageSelectedSet ==
    ASSUME NEW s, GoodUi(s), NEW x \in Ids, NEW t, t = [s EXCEPT !.page.selected = x]
    PROVE  GoodUi(t) /\ PageBecomes(s, t, s.page.plugins, s.page.loading, x, s.page.tab, s.page.temp)
<1>1. s = Ui(s.page, s.details, s.functions) /\ s.page \in PageType
      /\ s.page \in PageType /\ GoodDetails(s.details) /\ s.functions \in FunctionsType
  BY PartsAre, UiIs DEF GoodDetails
<1> DEFINE y == [s.page EXCEPT !.selected = x]
<1>2. y \in PageType /\ y.selected = x /\ y.plugins = s.page.plugins /\ y.loading = s.page.loading /\ y.tab = s.page.tab /\ y.temp = s.page.temp
  BY <1>1 DEF PageType, Ids
<1>3. t = [s EXCEPT !.page = y]
  OBVIOUS
<1> HIDE DEF y
<1>4. t = Ui(y, s.details, s.functions)
  BY <1>1, <1>3 DEF Ui
<1>6. GoodUi(Ui(y, s.details, s.functions)) /\ Ui(y, s.details, s.functions).page = y /\ Ui(y, s.details, s.functions).details = s.details /\ Ui(y, s.details, s.functions).functions = s.functions
  BY <1>1, <1>2, UiOf
<1>7. GoodUi(t) /\ t.page = y /\ t.details = s.details /\ t.functions = s.functions
  BY <1>4, <1>6, Zenon
<1>8. QED
  BY <1>2, <1>7 DEF PageBecomes

LEMMA PageTabSet ==
    ASSUME NEW s, GoodUi(s), NEW x \in PageTabs, NEW t, t = [s EXCEPT !.page.tab = x]
    PROVE  GoodUi(t) /\ PageBecomes(s, t, s.page.plugins, s.page.loading, s.page.selected, x, s.page.temp)
<1>1. s = Ui(s.page, s.details, s.functions) /\ s.page \in PageType
      /\ s.page \in PageType /\ GoodDetails(s.details) /\ s.functions \in FunctionsType
  BY PartsAre, UiIs DEF GoodDetails
<1> DEFINE y == [s.page EXCEPT !.tab = x]
<1>2. y \in PageType /\ y.tab = x /\ y.plugins = s.page.plugins /\ y.loading = s.page.loading /\ y.selected = s.page.selected /\ y.temp = s.page.temp
  BY <1>1 DEF PageType
<1>3. t = [s EXCEPT !.page = y]
  OBVIOUS
<1> HIDE DEF y
<1>4. t = Ui(y, s.details, s.functions)
  BY <1>1, <1>3 DEF Ui
<1>6. GoodUi(Ui(y, s.details, s.functions)) /\ Ui(y, s.details, s.functions).page = y /\ Ui(y, s.details, s.functions).details = s.details /\ Ui(y, s.details, s.functions).functions = s.functions
  BY <1>1, <1>2, UiOf
<1>7. GoodUi(t) /\ t.page = y /\ t.details = s.details /\ t.functions = s.functions
  BY <1>4, <1>6, Zenon
<1>8. QED
  BY <1>2, <1>7 DEF PageBecomes

LEMMA PageTempSet ==
    ASSUME NEW s, GoodUi(s), NEW x \in BOOLEAN, NEW t, t = [s EXCEPT !.page.temp = x]
    PROVE  GoodUi(t) /\ PageBecomes(s, t, s.page.plugins, s.page.loading, s.page.selected, s.page.tab, x)
<1>1. s = Ui(s.page, s.details, s.functions) /\ s.page \in PageType
      /\ s.page \in PageType /\ GoodDetails(s.details) /\ s.functions \in FunctionsType
  BY PartsAre, UiIs DEF GoodDetails
<1> DEFINE y == [s.page EXCEPT !.temp = x]
<1>2. y \in PageType /\ y.temp = x /\ y.plugins = s.page.plugins /\ y.loading = s.page.loading /\ y.selected = s.page.selected /\ y.tab = s.page.tab
  BY <1>1 DEF PageType
<1>3. t = [s EXCEPT !.page = y]
  OBVIOUS
<1> HIDE DEF y
<1>4. t = Ui(y, s.details, s.functions)
  BY <1>1, <1>3 DEF Ui
<1>6. GoodUi(Ui(y, s.details, s.functions)) /\ Ui(y, s.details, s.functions).page = y /\ Ui(y, s.details, s.functions).details = s.details /\ Ui(y, s.details, s.functions).functions = s.functions
  BY <1>1, <1>2, UiOf
<1>7. GoodUi(t) /\ t.page = y /\ t.details = s.details /\ t.functions = s.functions
  BY <1>4, <1>6, Zenon
<1>8. QED
  BY <1>2, <1>7 DEF PageBecomes

\* The user has waited for the handlers that a click does not go with.
LEMMA PatientClick ==
    ASSUME PageInv, NEW t, NEW places, ClickDuring(t, places), ~hasty', ~failed'
    PROVE  Calm(db, url, ui, tasks, forms) /\ \A k \in Slots : tasks[k].at \notin places
<1>1. ~hasty /\ ~failed /\ \A k \in Slots : tasks[k].at \notin places
  BY DEF ClickDuring
<1>2. QED
  BY <1>1 DEF PageInv, CalmInv

-----------------------------------------------------------------------------
(* Clicks in the tab of details.                                           *)

\* A click that opens or closes the form or the dialog, and starts no handler.
LEMMA DetailsClick ==
    ASSUME PageInv, NEW places, ClickDuring("details", places), NEW s, GoodUi(s), Render(s, url, tasks),
           s.page.plugins = ui.page.plugins, s.page.loading = ui.page.loading, s.page.selected = ui.page.selected,
           s.page.tab = ui.page.tab, s.page.temp => ui.page.temp,
           s.details.plugin = ui.details.plugin, s.details.loading = ui.details.loading, forms' \in Nat,
           ~hasty' /\ ~failed' =>
               /\ Asked(s, tasks)
               /\ \A k \in Slots : tasks[k].at = "save" => s.details.open /\ s.page.temp = ui.page.temp
               /\ \A k \in Slots : tasks[k].at = "delete" => ~s.details.open
               /\ One(NewPlugin(s, tasks)) + forms <= One(NewPlugin(ui, tasks)) + forms'
    PROVE  PageInv'
<1>1. GoodUi(ui) /\ GoodTasks(tasks) /\ GoodDb(db) /\ forms \in Nat /\ url \in Urls
  BY DEF PageInv, TypeInv
<1>2. ui.page.tab = "details" /\ db' = db
  BY DEF ClickDuring, Tab
<1>3. Spins(s, tasks)
  BY <1>2 DEF PageInv, SpinInv, Spins
<1>4. ASSUME ~hasty', ~failed' PROVE Calm(db, url, s, tasks, forms')
  <2>1. Calm(db, url, ui, tasks, forms)
    BY <1>4, PatientClick
  <2>2. Alone(s, tasks) /\ AnswersHold(db, tasks) /\ url.tab \in {None, s.page.tab}
    BY <2>1 DEF Calm, Alone
  <2>3. ListHolds(db, s, tasks) /\ DetailsHold(db, s, tasks) /\ FunctionsHold(db, s, tasks)
    BY <1>2, <2>1 DEF Calm, ListHolds, DetailsHold, FunctionsHold
  <2>4. ASSUME NEW k \in Slots PROVE Relies(url, s, tasks[k])
    <3>1. Relies(url, ui, tasks[k]) /\ tasks[k].at \notin FunctionPlaces
      <4>1. tasks[k].at # "idle" => tasks[k].at \in PlacesOf("details")
        BY <1>2, <2>1 DEF Calm, Alone
      <4>2. tasks[k].at \notin FunctionPlaces
        BY <4>1 DEF PlacesOf, DetailsPlaces, FunctionPlaces
      <4>3. QED
        BY <2>1, <4>2 DEF Calm
    <3>2. "addFunction" \in FunctionPlaces
      BY DEF FunctionPlaces
    <3>3. /\ tasks[k].at = "save" => s.details.open /\ s.page.temp = ui.page.temp
          /\ tasks[k].at = "delete" => ~s.details.open
      BY <1>4
    <3>4. QED
      BY <3>1, <3>2, <3>3 DEF Relies
  <2>5. Counted(db, s, tasks, forms')
    <3>1. ~NewFunction(s, tasks) /\ ~NewFunction(ui, tasks)
      BY <1>2 DEF NewFunction
    <3>2. One(NewFunction(s, tasks)) = 0 /\ One(NewFunction(ui, tasks)) = 0
      BY <3>1 DEF One
    <3>3. One(NewPlugin(s, tasks)) \in Nat /\ One(NewPlugin(ui, tasks)) \in Nat
      BY DEF One
    <3>4. Counted(db, ui, tasks, forms)
      BY <2>1 DEF Calm
    <3>5. IsFiniteSet(db.given) /\ Cardinality(db.given) \in Nat /\ Cardinality(Initially) \in Nat
      BY <3>4, FS_CardinalityType, PluginsAssumption DEF Counted
    <3>6. Cardinality(db.given) + One(NewPlugin(ui, tasks)) <= Cardinality(Initially) + 1 + forms
      BY <3>2, <3>3, <3>4, <3>5 DEF Counted
    <3>7. Cardinality(db.given) + One(NewPlugin(s, tasks)) + 0 <= Cardinality(Initially) + 1 + forms'
      BY <1>1, <1>4, <3>3, <3>5, <3>6
    <3>8. QED
      BY <3>2, <3>5, <3>7 DEF Counted
  <2>6. Asked(s, tasks)
    BY <1>4
  <2>7. QED
    BY <2>2, <2>3, <2>4, <2>5, <2>6 DEF Calm
<1>5. QED
  BY <1>1, <1>2, <1>3, <1>4, HereKeeps

\* The button of the empty tab opens the form for a new plugin.
LEMMA AddPluginKeeps ==
    ASSUME PageInv, handleAddPlugin
    PROVE  PageInv'
<1>0. PICK s : s = [ui EXCEPT !.details.open = TRUE]
  OBVIOUS
<1>1. GoodUi(ui) /\ forms \in Nat
  BY DEF PageInv, TypeInv
<1>3. /\ GoodUi(s) /\ s.page = ui.page /\ s.details.plugin = ui.details.plugin
      /\ s.details.loading = ui.details.loading /\ s.details.open /\ s.details.confirm = ui.details.confirm
  <2>1. GoodUi(s) /\ DetailsBecome(ui, s, ui.details.plugin, ui.details.loading, TRUE, ui.details.form, ui.details.confirm)
    BY <1>0, <1>1, DetailsOpenSet
  <2>2. QED
    BY <2>1 DEF DetailsBecome
<1>4. Render(s, url, tasks) /\ ClickDuring("details", {"plugins"}) /\ forms' = forms + 1
      /\ ui.page.selected = None /\ ~ui.details.open /\ ~ui.page.temp
  BY <1>0 DEF handleAddPlugin, OnDetails, ClickOn, NothingSelected, Selected
<1>6. ASSUME ~hasty', ~failed'
      PROVE  /\ Asked(s, tasks)
             /\ \A k \in Slots : tasks[k].at = "save" => s.details.open /\ s.page.temp = ui.page.temp
             /\ \A k \in Slots : tasks[k].at = "delete" => ~s.details.open
             /\ One(NewPlugin(s, tasks)) + forms <= One(NewPlugin(ui, tasks)) + forms'
  <2>1. Calm(db, url, ui, tasks, forms)
    BY <1>4, <1>6, PatientClick
  <2>2. Asked(s, tasks)
    BY <1>3, <1>4, <2>1 DEF Calm, Asked
  <2>3. \A k \in Slots : tasks[k].at # "delete"
    BY <1>4, <2>1 DEF Calm, Relies
  <2>4. One(NewPlugin(s, tasks)) \in 0 .. 1 /\ One(NewPlugin(ui, tasks)) \in 0 .. 1
    BY DEF One
  <2>5. QED
    BY <1>1, <1>3, <1>4, <2>2, <2>3, <2>4
<1>7. QED
  BY <1>1, <1>3, <1>4, <1>6, DetailsClick

\* What a click on the details needs: the form and the dialog are closed, nothing is being
\* saved or deleted.
LEMMA DetailsAreShown ==
    ASSUME PageInv, Tab = "details", DetailsShown, Calm(db, url, ui, tasks, forms)
    PROVE  /\ ~ui.details.open /\ ~ui.details.loading /\ ui.details.confirm = None /\ ui.details.plugin # None
           /\ \A k \in Slots : tasks[k].at \notin {"save", "delete"}
           /\ ui.page.selected # None
<1>1. GoodUi(ui) /\ GoodDb(db) /\ GoodTasks(tasks)
  BY DEF PageInv, TypeInv
<1>2. ~ui.details.open /\ ~ui.details.loading /\ ui.details.plugin # None
  BY <1>1, PartsAre DEF DetailsShown, Uncovered, Spinner
<1>3. ui.details.confirm = None
  BY DEF DetailsShown, Uncovered, ConfirmShown
<1>4. \A k \in Slots : tasks[k].at \notin {"save", "delete"}
  BY <1>2 DEF Calm, Relies
<1>5. ui.page.selected # None
  <2>1. CASE ui.page.selected \in DOMAIN db.plugins
    <3>1. DOMAIN db.plugins \subseteq Plugins
      BY <1>1, PartialIs DEF GoodDb
    <3>2. QED
      BY <2>1, <3>1, PluginsAssumption
  <2>2. CASE \E k \in Slots : tasks[k].at \in {"details", "save", "delete"}
    <3>1. PICK k \in Slots : tasks[k].at = "details"
      BY <1>4, <2>2
    <3>2. GoodTask(tasks[k])
      BY <1>1 DEF GoodTasks
    <3>3. tasks[k].arg \in [id : Plugins]
      BY <3>1, <3>2, BusyIs DEF Asks
    <3>4. tasks[k].arg.id = ui.page.selected /\ tasks[k].arg.id \in Plugins
      BY <3>1, <3>3 DEF Calm, Relies
    <3>5. QED
      BY <3>4, PluginsAssumption
  <2>3. QED
    BY <1>2, <2>1, <2>2 DEF Calm, DetailsHold, Tab
<1>6. QED
  BY <1>2, <1>3, <1>4, <1>5

LEMMA EditPluginKeeps ==
    ASSUME PageInv, handleEditPlugin
    PROVE  PageInv'
<1>0. PICK s : s = [ui EXCEPT !.details.open = TRUE]
  OBVIOUS
<1>1. GoodUi(ui) /\ forms \in Nat
  BY DEF PageInv, TypeInv
<1>3. /\ GoodUi(s) /\ s.page = ui.page /\ s.details.plugin = ui.details.plugin
      /\ s.details.loading = ui.details.loading /\ s.details.open /\ s.details.confirm = ui.details.confirm
  <2>1. GoodUi(s) /\ DetailsBecome(ui, s, ui.details.plugin, ui.details.loading, TRUE, ui.details.form, ui.details.confirm)
    BY <1>0, <1>1, DetailsOpenSet
  <2>2. QED
    BY <2>1 DEF DetailsBecome
<1>4. Render(s, url, tasks) /\ ClickDuring("details", {"plugins"}) /\ forms' = forms /\ DetailsShown /\ Tab = "details"
  BY <1>0 DEF handleEditPlugin, OnDetails, ClickOn, ClickDuring
<1>6. ASSUME ~hasty', ~failed'
      PROVE  /\ Asked(s, tasks)
             /\ \A k \in Slots : tasks[k].at = "save" => s.details.open /\ s.page.temp = ui.page.temp
             /\ \A k \in Slots : tasks[k].at = "delete" => ~s.details.open
             /\ One(NewPlugin(s, tasks)) + forms <= One(NewPlugin(ui, tasks)) + forms'
  <2>1. Calm(db, url, ui, tasks, forms)
    BY <1>4, <1>6, PatientClick
  <2>2. /\ ui.details.confirm = None /\ ui.details.plugin # None
        /\ \A k \in Slots : tasks[k].at \notin {"save", "delete"}
    BY <1>4, <2>1, DetailsAreShown
  <2>3. NewPlugin(s, tasks) <=> NewPlugin(ui, tasks)
    BY <1>3, <2>2 DEF NewPlugin
  <2>4. One(NewPlugin(s, tasks)) = One(NewPlugin(ui, tasks)) /\ One(NewPlugin(ui, tasks)) \in 0 .. 1
    BY <2>3 DEF One
  <2>5. Asked(s, tasks)
    BY <1>3, <2>2 DEF Asked
  <2>6. QED
    BY <1>1, <1>4, <2>2, <2>4, <2>5
<1>7. QED
  BY <1>1, <1>3, <1>4, <1>6, DetailsClick

LEMMA ConfirmationKeeps ==
    ASSUME PageInv, showDeleteConfirmation \/ closeConfirmation
    PROVE  PageInv'
<1>1. GoodUi(ui) /\ forms \in Nat
  BY DEF PageInv, TypeInv
<1>2. PICK c \in Ids : /\ c = None \/ DetailsShown
                       /\ Render([ui EXCEPT !.details.confirm = c], url, tasks)
                       /\ ClickDuring("details", {"plugins"}) /\ forms' = forms /\ Tab = "details"
  <2>1. CASE showDeleteConfirmation
    <3>1. ui.details.plugin.id \in Ids
      BY <1>1, <2>1, PartsAre DEF showDeleteConfirmation, DetailsShown, Ids
    <3>2. QED
      BY <2>1, <3>1 DEF showDeleteConfirmation, OnDetails, ClickOn, ClickDuring
  <2>2. CASE closeConfirmation
    BY <2>2 DEF closeConfirmation, OnDetails, ClickOn, ClickDuring, Ids
  <2>3. QED
    BY <2>1, <2>2
<1>0. PICK s : s = [ui EXCEPT !.details.confirm = c]
  OBVIOUS
<1>4. /\ GoodUi(s) /\ s.page = ui.page /\ s.details.plugin = ui.details.plugin
      /\ s.details.loading = ui.details.loading /\ s.details.open = ui.details.open /\ s.details.confirm = c
  <2>1. GoodUi(s) /\ DetailsBecome(ui, s, ui.details.plugin, ui.details.loading, ui.details.open, ui.details.form, c)
    BY <1>0, <1>1, DetailsConfirmSet
  <2>2. QED
    BY <2>1 DEF DetailsBecome
<1>5. Render(s, url, tasks)
  BY <1>0, <1>2
<1>7. ASSUME ~hasty', ~failed'
      PROVE  /\ Asked(s, tasks)
             /\ \A k \in Slots : tasks[k].at = "save" => s.details.open /\ s.page.temp = ui.page.temp
             /\ \A k \in Slots : tasks[k].at = "delete" => ~s.details.open
             /\ One(NewPlugin(s, tasks)) + forms <= One(NewPlugin(ui, tasks)) + forms'
  <2>1. Calm(db, url, ui, tasks, forms)
    BY <1>2, <1>7, PatientClick
  <2>2. DetailsShown => ~ui.details.open /\ ui.page.selected # None
    BY <1>2, <2>1, DetailsAreShown
  <2>3. Asked(s, tasks)
    BY <1>2, <1>4, <2>2 DEF Asked
  <2>4. NewPlugin(s, tasks) <=> NewPlugin(ui, tasks)
    BY <1>4 DEF NewPlugin
  <2>5. One(NewPlugin(s, tasks)) = One(NewPlugin(ui, tasks)) /\ One(NewPlugin(ui, tasks)) \in 0 .. 1
    BY <2>4 DEF One
  <2>6. \A k \in Slots : /\ tasks[k].at = "save" => ui.details.open
                         /\ tasks[k].at = "delete" => ~ui.details.open
    BY <2>1 DEF Calm, Relies
  <2>7. QED
    BY <1>1, <1>2, <1>4, <2>3, <2>5, <2>6
<1>8. QED
  BY <1>1, <1>2, <1>4, <1>5, <1>7, DetailsClick

LEMMA TypeTextKeeps ==
    ASSUME PageInv, TypeText
    PROVE  PageInv'
<1>0. PICK s : s = [ui EXCEPT !.details.form = Typed]
  OBVIOUS
<1>1. ui' = s /\ url' = url /\ tasks' = tasks /\ forms' = forms /\ db' = db /\ ClickDuring("details", {"plugins"})
  BY <1>0 DEF TypeText, OnDetails, ClickOn, ClickDuring
<1>2. GoodUi(ui) /\ GoodDb(db) /\ GoodTasks(tasks) /\ url \in Urls /\ forms \in Nat /\ Spins(ui, tasks)
  BY DEF PageInv, TypeInv, SpinInv
<1>3. GoodUi(s) /\ DetailsBecome(ui, s, ui.details.plugin, ui.details.loading, ui.details.open, Typed, ui.details.confirm)
  <2>1. Typed \in Texts \cup {Blank}
    BY DEF Texts
  <2>2. QED
    BY <1>0, <1>2, <2>1, DetailsFormSet
<1>4. /\ s.page = ui.page /\ s.functions = ui.functions /\ s.details.plugin = ui.details.plugin
      /\ s.details.loading = ui.details.loading /\ s.details.open = ui.details.open
      /\ s.details.confirm = ui.details.confirm /\ s.details.form = Typed
  BY <1>3 DEF DetailsBecome
<1>5. FormMeant(s.details)
  BY <1>4 DEF FormMeant, Meant
<1>6. TypeInv'
  <2>1. FormMeant(ui'.details) <=> FormMeant(ui.details)'
    BY DEF FormMeant, Meant
  <2>2. QED
    BY <1>1, <1>2, <1>3, <1>5, <2>1 DEF TypeInv
<1>7. SpinInv'
  <2>1. Spins(s, tasks)
    BY <1>2, <1>4 DEF Spins
  <2>2. QED
    BY <1>1, <2>1 DEF SpinInv
<1>8. CalmInv'
  <2>1. ASSUME ~hasty', ~failed' PROVE Calm(db, url, s, tasks, forms)
    <3>1. Calm(db, url, ui, tasks, forms)
      BY <1>1, <2>1, PatientClick
    <3>2. Alone(s, tasks) /\ ListHolds(db, s, tasks) /\ DetailsHold(db, s, tasks) /\ FunctionsHold(db, s, tasks)
      BY <1>4, <3>1 DEF Calm, Alone, ListHolds, DetailsHold, FunctionsHold
    <3>3. \A k \in Slots : Relies(url, s, tasks[k])
      BY <1>4, <3>1 DEF Calm, Relies
    <3>4. Asked(s, tasks)
      BY <1>4, <3>1 DEF Calm, Asked
    <3>5. (NewPlugin(s, tasks) <=> NewPlugin(ui, tasks)) /\ (NewFunction(s, tasks) <=> NewFunction(ui, tasks))
      BY <1>4 DEF NewPlugin, NewFunction
    <3>6. One(NewPlugin(s, tasks)) = One(NewPlugin(ui, tasks)) /\ One(NewFunction(s, tasks)) = One(NewFunction(ui, tasks))
      BY <3>5 DEF One
    <3>7. Counted(db, s, tasks, forms)
      BY <3>1, <3>6 DEF Calm, Counted
    <3>8. url.tab \in {None, s.page.tab} /\ AnswersHold(db, tasks)
      BY <1>4, <3>1 DEF Calm
    <3>9. QED
      BY <3>2, <3>3, <3>4, <3>7, <3>8 DEF Calm
  <2>2. QED
    BY <1>1, <2>1 DEF CalmInv
<1>9. QED
  BY <1>6, <1>7, <1>8 DEF PageInv

\* A state without the form, and without the plugin begun from the list if that is being created.
LEMMA ClosedIs ==
    ASSUME NEW s, GoodUi(s), NEW creating \in BOOLEAN, NEW t, t = Closed(s, creating)
    PROVE  /\ GoodUi(t) /\ t.page.plugins = s.page.plugins /\ t.page.loading = s.page.loading
           /\ t.page.selected = s.page.selected /\ t.page.tab = s.page.tab /\ t.page.temp = (s.page.temp /\ ~creating)
           /\ t.details.plugin = s.details.plugin /\ t.details.loading = s.details.loading
           /\ ~t.details.open /\ t.details.confirm = s.details.confirm /\ t.functions = s.functions
<1>1. PICK x \in BOOLEAN : x = (s.page.temp /\ ~creating)
  OBVIOUS
<1>2. PICK a : a = [s EXCEPT !.page.temp = x]
  OBVIOUS
<1>3. t = [a EXCEPT !.details.open = FALSE]
  <2>1. t = [s EXCEPT !.page.temp = x, !.details.open = FALSE]
    BY <1>1 DEF Closed
  <2>2. s = Ui(s.page, s.details, s.functions)
    BY UiIs
  <2>3. a = Ui([s.page EXCEPT !.temp = x], s.details, s.functions)
    BY <1>2, <2>2 DEF Ui
  <2>4. t = Ui([s.page EXCEPT !.temp = x], [s.details EXCEPT !.open = FALSE], s.functions)
    BY <2>1, <2>2 DEF Ui
  <2>5. [a EXCEPT !.details.open = FALSE] = Ui([s.page EXCEPT !.temp = x], [s.details EXCEPT !.open = FALSE], s.functions)
    <3>1. a.details = s.details
      BY <2>3 DEF Ui
    <3>2. [a EXCEPT !.details.open = FALSE] = [a EXCEPT !.details = [s.details EXCEPT !.open = FALSE]]
      BY <3>1
    <3>3. \A d : [a EXCEPT !.details = d] = Ui([s.page EXCEPT !.temp = x], d, s.functions)
      BY <2>3 DEF Ui
    <3>4. QED
      BY <3>2, <3>3
  <2>6. QED
    BY <2>4, <2>5
<1>4. GoodUi(a) /\ PageBecomes(s, a, s.page.plugins, s.page.loading, s.page.selected, s.page.tab, x)
  BY <1>2, PageTempSet
<1>5. GoodUi(t) /\ DetailsBecome(a, t, a.details.plugin, a.details.loading, FALSE, a.details.form, a.details.confirm)
  BY <1>3, <1>4, DetailsOpenSet
<1>6. /\ a.details = s.details /\ a.functions = s.functions
      /\ a.page.plugins = s.page.plugins /\ a.page.loading = s.page.loading /\ a.page.selected = s.page.selected
      /\ a.page.tab = s.page.tab /\ a.page.temp = x
  BY <1>4 DEF PageBecomes
<1>7. /\ t.page = a.page /\ t.functions = a.functions /\ t.details.plugin = a.details.plugin
      /\ t.details.loading = a.details.loading /\ ~t.details.open /\ t.details.confirm = a.details.confirm
  BY <1>5 DEF DetailsBecome
<1>8. QED
  BY <1>1, <1>5, <1>6, <1>7

LEMMA CloseFormKeeps ==
    ASSUME PageInv, handleCloseForm
    PROVE  PageInv'
<1>0. PICK s : s = Closed(ui, ui.page.temp)
  OBVIOUS
<1>1. GoodUi(ui) /\ forms \in Nat /\ ui.page.temp \in BOOLEAN
  BY PartsAre DEF PageInv, TypeInv
<1>2. /\ GoodUi(s) /\ s.page.plugins = ui.page.plugins /\ s.page.loading = ui.page.loading
      /\ s.page.selected = ui.page.selected /\ s.page.tab = ui.page.tab /\ s.page.temp = (ui.page.temp /\ ~ui.page.temp)
      /\ s.details.plugin = ui.details.plugin /\ s.details.loading = ui.details.loading
      /\ ~s.details.open /\ s.details.confirm = ui.details.confirm /\ s.functions = ui.functions
  BY <1>0, <1>1, ClosedIs
<1>3. /\ ~s.page.temp
      /\ Render(s, url, tasks) /\ ClickDuring("details", {"plugins"}) /\ forms' = forms
      /\ ui.details.open /\ ~ui.details.loading
  BY <1>0, <1>2 DEF handleCloseForm, OnDetails, ClickOn, FormFree
<1>4. ASSUME ~hasty', ~failed'
      PROVE  /\ Asked(s, tasks)
             /\ \A k \in Slots : tasks[k].at = "save" => s.details.open /\ s.page.temp = ui.page.temp
             /\ \A k \in Slots : tasks[k].at = "delete" => ~s.details.open
             /\ One(NewPlugin(s, tasks)) + forms <= One(NewPlugin(ui, tasks)) + forms'
  <2>1. Calm(db, url, ui, tasks, forms)
    BY <1>3, <1>4, PatientClick
  <2>2. Asked(s, tasks)
    BY <1>2, <1>3, <2>1 DEF Calm, Asked
  <2>3. \A k \in Slots : tasks[k].at # "save"
    BY <1>3, <2>1 DEF Calm, Relies
  <2>4. ~NewPlugin(s, tasks)
    BY <1>2, <1>3 DEF NewPlugin
  <2>5. One(NewPlugin(s, tasks)) = 0 /\ One(NewPlugin(ui, tasks)) \in 0 .. 1
    BY <2>4 DEF One
  <2>6. QED
    BY <1>1, <1>2, <1>3, <2>2, <2>3, <2>5
<1>5. QED
  BY <1>1, <1>2, <1>3, <1>4, DetailsClick

\* A handler of the tab of details that begins alone.
LEMMA DetailsBegin ==
    ASSUME PageInv, NEW places, ClickDuring("details", places), HasRoom(tasks), forms' = forms,
           NEW at, at \in {"save", "delete"}, NEW arg, NEW r, Asks(at, arg, {r}),
           Render([ui EXCEPT !.details.loading = TRUE], url, Begin(tasks, Task(at, arg, {r}))),
           {"plugins"} \cup DetailsPlaces \subseteq places \cup {at} ,
           at = "save" => /\ ui.details.open /\ ~ui.details.loading /\ arg.url = url /\ arg.creating = ui.page.temp
                          /\ \A text \in Texts : r = createPlugin(text) => ui.details.plugin = None,
           at = "delete" => "delete" \in places /\ ui.details.confirm # None
    PROVE  PageInv'
<1>0. PICK s, t, ts : s = [ui EXCEPT !.details.loading = TRUE] /\ t = Handler(at, arg, {r}, TRUE) /\ ts = Begin(tasks, t)
  OBVIOUS
<1>1. GoodUi(ui) /\ GoodTasks(tasks) /\ GoodDb(db) /\ forms \in Nat /\ url \in Urls
  BY DEF PageInv, TypeInv
<1>2. ui.page.tab = "details" /\ db' = db
  BY DEF ClickDuring, Tab
<1>3. Render(s, url, ts)
  BY <1>0, Zenon DEF Task, Handler
<1>4. GoodUi(s) /\ DetailsBecome(ui, s, ui.details.plugin, TRUE, ui.details.open, ui.details.form, ui.details.confirm)
  BY <1>0, <1>1, DetailsLoadingSet
<1>5. /\ s.page = ui.page /\ s.functions = ui.functions /\ s.details.plugin = ui.details.plugin /\ s.details.loading
      /\ s.details.open = ui.details.open /\ s.details.confirm = ui.details.confirm
  BY <1>4 DEF DetailsBecome
<1>6. DOMAIN tasks = Slots /\ ts = Begin(tasks, t)
  BY <1>0, <1>1 DEF GoodTasks
<1>7. PICK i \in Slots : /\ tasks[i].at = "idle" /\ DOMAIN ts = Slots
                         /\ \A k \in Slots : ts[k] = IF k = i THEN t ELSE tasks[k]
  BY <1>6, BeginIs
<1>8. GoodTask(t) /\ t.at = at /\ t.arg = arg /\ t.sent = {r} /\ DOMAIN t.got = {} /\ t.live
  <2>1. GoodTask(t)
    BY <1>0, NewTask
  <2>2. DOMAIN <<>> = {}
    OBVIOUS
  <2>3. QED
    BY <1>0, <2>1, <2>2 DEF Handler
<1>9. GoodTasks(ts)
  BY <1>1, <1>7, <1>8 DEF GoodTasks
<1>10. Spins(s, ts)
  <2>1. s.page.loading => \E k \in Slots : tasks[k].at \in ListPlaces
    BY <1>5 DEF PageInv, SpinInv, Spins
  <2>2. \A k \in Slots : tasks[k].at \in ListPlaces => ts[k].at \in ListPlaces
    BY <1>7 DEF ListPlaces
  <2>3. Turns(ts, DetailsPlaces)
    BY <1>7, <1>8 DEF Turns, DetailsPlaces
  <2>4. QED
    BY <1>2, <1>5, <2>1, <2>2, <2>3 DEF Spins
<1>11. ASSUME ~hasty', ~failed' PROVE Calm(db, url, s, ts, forms')
  <2>1. Calm(db, url, ui, tasks, forms) /\ \A k \in Slots : tasks[k].at \notin places
    BY <1>11, PatientClick
  <2>2. \A k \in Slots : tasks[k].at = "idle"
    <3>1. ASSUME NEW k \in Slots, tasks[k].at # "idle" PROVE FALSE
      <4>1. tasks[k].at \in {"plugins"} \cup DetailsPlaces
        BY <1>2, <2>1, <3>1 DEF Calm, Alone, PlacesOf
      <4>2. tasks[k].at = at
        BY <2>1, <4>1
      <4>3. at = "save" /\ Relies(url, ui, tasks[k])
        BY <2>1, <4>2 DEF Calm
      <4>4. ui.details.loading
        BY <4>2, <4>3 DEF Relies
      <4>5. QED
        BY <4>3, <4>4
    <3>2. QED
      BY <3>1
  <2>3. \A k \in Slots : ts[k].at # "idle" => k = i
    BY <1>7, <2>2
  <2>4. \A k \in Slots : DOMAIN ts[k].got = {}
    <3>1. \A k \in Slots : tasks[k] = Idle
      BY <1>1, <2>2, IdleIs DEF GoodTasks
    <3>2. QED
      BY <1>7, <1>8, <3>1, IdleIs
  <2>5. Alone(s, ts)
    <3>1. at \in PlacesOf(s.page.tab) /\ at # "idle"
      BY <1>2, <1>5 DEF PlacesOf, DetailsPlaces
    <3>2. \A k \in Slots : ts[k].at \in Writers \cup (FunctionPlaces \ {"saveEdit"}) => ts[k].at # "idle"
      BY DEF Writers, FunctionPlaces
    <3>3. QED
      BY <1>7, <1>8, <2>3, <3>1, <3>2 DEF Alone
  <2>6. AnswersHold(db, ts)
    BY <2>4 DEF AnswersHold
  <2>7. ListHolds(db, s, ts) /\ DetailsHold(db, s, ts) /\ FunctionsHold(db, s, ts)
    BY <1>2, <1>5, <1>7, <1>8 DEF ListHolds, DetailsHold, FunctionsHold
  <2>8. /\ at = "delete" => ~ui.details.open /\ ui.page.selected # None
        /\ at = "save" => ui.details.confirm = None
    <3>1. Asked(ui, tasks)
      BY <2>1 DEF Calm
    <3>2. ui.details.confirm # None => ~ui.details.open /\ ui.page.selected # None
      BY <1>2, <2>2, <3>1 DEF Asked
    <3>3. QED
      BY <3>2
  <2>9. ASSUME NEW k \in Slots PROVE Relies(url, s, ts[k])
    <3>1. CASE k = i
      <4>1. ts[k].at = at /\ ts[k].arg = arg /\ ts[k].sent = {r} /\ at \notin FunctionPlaces /\ at \notin {"details", "addFunction"}
        BY <1>7, <1>8, <3>1 DEF FunctionPlaces
      <4>2. QED
        BY <1>5, <2>8, <4>1 DEF Relies
    <3>2. CASE k # i
      BY <1>7, <2>2, <3>2 DEF Relies, FunctionPlaces
    <3>3. QED
      BY <3>1, <3>2
  <2>10. Asked(s, ts)
    BY <1>5, <2>8 DEF Asked
  <2>11. Counted(db, s, ts, forms')
    <3>1. NewPlugin(s, ts) <=> NewPlugin(ui, tasks)
      BY <1>5, <2>2, <2>4 DEF NewPlugin
    <3>2. ~NewFunction(s, ts) /\ ~NewFunction(ui, tasks)
      BY <1>2, <1>5 DEF NewFunction
    <3>3. One(NewPlugin(s, ts)) = One(NewPlugin(ui, tasks)) /\ One(NewFunction(s, ts)) = One(NewFunction(ui, tasks))
      BY <3>1, <3>2 DEF One
    <3>4. QED
      BY <2>1, <3>3 DEF Calm, Counted
  <2>12. url.tab \in {None, s.page.tab}
    BY <1>5, <2>1 DEF Calm
  <2>13. QED
    BY <2>5, <2>6, <2>7, <2>9, <2>10, <2>11, <2>12 DEF Calm
<1>12. s.page.temp => ui.page.temp
  BY <1>5
<1>13. GoodDb(db') /\ forms' \in Nat /\ (~hasty' /\ ~failed' => Calm(db', url, s, ts, forms'))
  BY <1>1, <1>2, <1>11
<1>14. QED
  BY <1>3, <1>4, <1>5, <1>9, <1>10, <1>13, HereKeeps

LEMMA SavePluginKeeps ==
    ASSUME PageInv, handleSavePlugin
    PROVE  PageInv'
<1> DEFINE places == {"plugins", "details", "refresh"} \cup {"delete"}
           arg == [url |-> url, creating |-> ui.page.temp]
<1>1. GoodUi(ui) /\ url \in Urls /\ FormMeant(ui.details)
  BY DEF PageInv, TypeInv
<1>2. /\ ClickDuring("details", places) /\ HasRoom(tasks) /\ forms' = forms
      /\ ui.details.open /\ ~ui.details.loading /\ ui.details.form # Blank
  BY DEF handleSavePlugin, OnDetailsAlone, FormFree, BeginSave
<1>3. PICK r : /\ r = IF ui.details.plugin = None THEN createPlugin(ui.details.form)
                      ELSE updatePlugin(ui.details.plugin.id, ui.details.form)
               /\ Render([ui EXCEPT !.details.loading = TRUE], url, Begin(tasks, Task("save", arg, {r})))
  BY DEF handleSavePlugin, BeginSave
<1>4. Asks("save", arg, {r})
  <2>1. arg \in [url : Urls, creating : BOOLEAN]
    BY <1>1, PartsAre
  <2>2. ui.details.form \in Texts
    BY <1>1, <1>2, PartsAre
  <2>3. ui.details.plugin # None => ui.details.plugin.id \in Plugins /\ Meant(ui.details.plugin.id, ui.details.form)
    BY <1>1, <1>2, PartsAre DEF FormMeant, GoodPlugin
  <2>4. \E text \in Texts :
            \/ {r} = {createPlugin(text)}
            \/ \E p \in Plugins : Meant(p, text) /\ {r} = {updatePlugin(p, text)}
    BY <1>3, <2>2, <2>3
  <2>5. QED
    BY <2>1, <2>4 DEF Asks
<1>5. \A text \in Texts : r = createPlugin(text) => ui.details.plugin = None
  BY <1>3 DEF createPlugin, updatePlugin
<1>6. {"plugins"} \cup DetailsPlaces \subseteq places \cup {"save"}
  BY DEF DetailsPlaces
<1>7. arg.url = url /\ arg.creating = ui.page.temp
  OBVIOUS
<1> HIDE DEF places, arg
<1>8. QED
  BY <1>2, <1>3, <1>4, <1>5, <1>6, <1>7, DetailsBegin

LEMMA ConfirmDeleteKeeps ==
    ASSUME PageInv, handleConfirmDelete
    PROVE  PageInv'
<1> DEFINE places == {"plugins", "details", "refresh"} \cup {"save", "delete"}
<1>1. GoodUi(ui)
  BY DEF PageInv, TypeInv
<1>2. /\ ClickDuring("details", places) /\ HasRoom(tasks) /\ forms' = forms /\ ui.details.confirm # None
  BY DEF handleConfirmDelete, OnDetailsAlone, ConfirmShown
<1>3. PICK r : /\ r = deletePlugin(ui.details.confirm)
               /\ Render([ui EXCEPT !.details.loading = TRUE], url, Begin(tasks, Task("delete", <<>>, {r})))
  BY DEF handleConfirmDelete
<1>4. Asks("delete", <<>>, {r})
  <2>1. ui.details.confirm \in Plugins
    BY <1>1, <1>2, PartsAre DEF Ids
  <2>2. QED
    BY <1>3, <2>1 DEF Asks
<1>5. {"plugins"} \cup DetailsPlaces \subseteq places \cup {"delete"} /\ "delete" \in places
  BY DEF DetailsPlaces
<1> HIDE DEF places
<1>6. QED
  BY <1>2, <1>3, <1>4, <1>5, DetailsBegin

-----------------------------------------------------------------------------
(* Clicks in the tab of functions.                                         *)

\* A click that opens or closes a form, a row or the dialog, and starts no handler.
LEMMA FunctionsClick ==
    ASSUME PageInv, ClickDuring("functions", {"plugins"}), NEW s, GoodUi(s), Render(s, url, tasks),
           s.page = ui.page, s.details = ui.details, s.functions.list = ui.functions.list,
           s.functions.loading = ui.functions.loading, forms' \in Nat,
           ~hasty' /\ ~failed' =>
               /\ \A k \in Slots : tasks[k].at = "addFunction" => s.functions.form # None
               /\ One(NewFunction(s, tasks)) + forms <= One(NewFunction(ui, tasks)) + forms'
    PROVE  PageInv'
<1>1. GoodUi(ui) /\ GoodTasks(tasks) /\ GoodDb(db) /\ forms \in Nat
  BY DEF PageInv, TypeInv
<1>2. ui.page.tab = "functions" /\ db' = db
  BY DEF ClickDuring, Tab
<1>3. Spins(s, tasks)
  BY <1>2 DEF PageInv, SpinInv, Spins
<1>4. ASSUME ~hasty', ~failed' PROVE Calm(db, url, s, tasks, forms')
  <2>1. Calm(db, url, ui, tasks, forms)
    BY <1>4, PatientClick
  <2>2. Alone(s, tasks) /\ AnswersHold(db, tasks) /\ url.tab \in {None, s.page.tab}
    BY <2>1 DEF Calm, Alone
  <2>3. ListHolds(db, s, tasks) /\ DetailsHold(db, s, tasks) /\ FunctionsHold(db, s, tasks)
    BY <1>2, <2>1 DEF Calm, ListHolds, DetailsHold, FunctionsHold
  <2>4. \A k \in Slots : Relies(url, s, tasks[k])
    BY <1>4, <2>1 DEF Calm, Relies
  <2>5. Counted(db, s, tasks, forms')
    <3>1. NewPlugin(s, tasks) <=> NewPlugin(ui, tasks)
      BY DEF NewPlugin
    <3>2. One(NewPlugin(s, tasks)) = One(NewPlugin(ui, tasks)) /\ One(NewPlugin(ui, tasks)) \in Nat
      BY <3>1 DEF One
    <3>3. One(NewFunction(s, tasks)) \in Nat /\ One(NewFunction(ui, tasks)) \in Nat
      BY DEF One
    <3>4. Counted(db, ui, tasks, forms)
      BY <2>1 DEF Calm
    <3>5. IsFiniteSet(db.given) /\ Cardinality(db.given) \in Nat /\ Cardinality(Initially) \in Nat
      BY <3>4, FS_CardinalityType, PluginsAssumption DEF Counted
    <3>6. Cardinality(db.given) + One(NewPlugin(ui, tasks)) + One(NewFunction(ui, tasks))
             <= Cardinality(Initially) + 1 + forms
      BY <3>4 DEF Counted
    <3>7. Cardinality(db.given) + One(NewPlugin(ui, tasks)) + One(NewFunction(s, tasks))
             <= Cardinality(Initially) + 1 + forms'
      BY <1>1, <1>4, <3>2, <3>3, <3>5, <3>6
    <3>8. QED
      BY <3>2, <3>5, <3>7 DEF Counted
  <2>6. Asked(s, tasks)
    BY <1>2 DEF Asked
  <2>7. QED
    BY <2>2, <2>3, <2>4, <2>5, <2>6 DEF Calm
<1>5. s.page.temp => ui.page.temp
  OBVIOUS
<1>6. GoodDb(db') /\ (~hasty' /\ ~failed' => Calm(db', url, s, tasks, forms'))
  BY <1>1, <1>2, <1>4
<1>7. QED
  BY <1>1, <1>3, <1>5, <1>6, HereKeeps

\* The form of a new function.
LEMMA FunctionFormKeeps ==
    ASSUME PageInv, handleAddFunction \/ TypeFunction \/ handleCloseFunctionForm
    PROVE  PageInv'
<1>1. GoodUi(ui) /\ forms \in Nat
  BY DEF PageInv, TypeInv
<1>2. PICK f \in {None, Blank, Typed} :
         /\ ClickDuring("functions", {"plugins"}) /\ ~ui.functions.loading
         /\ Render([ui EXCEPT !.functions.form = f], url, tasks)
         /\ forms' \in Nat /\ forms' >= forms
         /\ f = None \/ ui.functions.form # None \/ forms' = forms + 1
  <2>1. CASE handleAddFunction
    BY <1>1, <2>1 DEF handleAddFunction, OnFunctions, ClickOn
  <2>2. CASE TypeFunction
    BY <1>1, <2>2, PluginsAssumption DEF TypeFunction, OnFunctions, ClickOn
  <2>3. CASE handleCloseFunctionForm
    BY <1>1, <2>3 DEF handleCloseFunctionForm, OnFunctions, ClickOn
  <2>4. QED
    BY <2>1, <2>2, <2>3
<1>3. PICK s : s = [ui EXCEPT !.functions.form = f]
  OBVIOUS
<1>4. GoodUi(s) /\ FunctionsBecome(ui, s, ui.functions.list, ui.functions.loading, f, ui.functions.editing, ui.functions.confirm)
  BY <1>1, <1>3, FunctionsFormSet
<1>5. /\ s.page = ui.page /\ s.details = ui.details /\ s.functions.list = ui.functions.list
      /\ s.functions.loading = ui.functions.loading /\ s.functions.form = f
  BY <1>4 DEF FunctionsBecome
<1>6. Render(s, url, tasks)
  BY <1>2, <1>3
<1>7. ASSUME ~hasty', ~failed'
      PROVE  /\ \A k \in Slots : tasks[k].at = "addFunction" => s.functions.form # None
             /\ One(NewFunction(s, tasks)) + forms <= One(NewFunction(ui, tasks)) + forms'
  <2>1. Calm(db, url, ui, tasks, forms)
    BY <1>2, <1>7, PatientClick
  <2>2. \A k \in Slots : tasks[k].at # "addFunction"
    BY <1>2, <2>1 DEF Calm, Relies, FunctionPlaces
  <2>3. One(NewFunction(s, tasks)) \in 0 .. 1 /\ One(NewFunction(ui, tasks)) \in 0 .. 1
    BY DEF One
  <2>4. f = None => ~NewFunction(s, tasks)
    BY <1>5 DEF NewFunction
  <2>5. f # None /\ ui.functions.form # None => (NewFunction(s, tasks) <=> NewFunction(ui, tasks))
    BY <1>5 DEF NewFunction
  <2>6. f = None => One(NewFunction(s, tasks)) = 0
    BY <2>4 DEF One
  <2>7. f # None /\ ui.functions.form # None => One(NewFunction(s, tasks)) = One(NewFunction(ui, tasks))
    BY <2>5 DEF One
  <2>8. One(NewFunction(s, tasks)) + forms <= One(NewFunction(ui, tasks)) + forms'
    BY <1>1, <1>2, <2>3, <2>6, <2>7
  <2>9. QED
    BY <2>2, <2>8
<1>8. QED
  BY <1>2, <1>4, <1>5, <1>6, <1>7, FunctionsClick

\* A click that leaves the form as it is.
LEMMA RowClick ==
    ASSUME PageInv, ClickDuring("functions", {"plugins"}), NEW s, GoodUi(s), Render(s, url, tasks), forms' = forms,
           NEW e, NEW c, FunctionsBecome(ui, s, ui.functions.list, ui.functions.loading, ui.functions.form, e, c)
    PROVE  PageInv'
<1>1. GoodUi(ui) /\ forms \in Nat
  BY DEF PageInv, TypeInv
<1>2. /\ s.page = ui.page /\ s.details = ui.details /\ s.functions.list = ui.functions.list
      /\ s.functions.loading = ui.functions.loading /\ s.functions.form = ui.functions.form
  BY DEF FunctionsBecome
<1>3. ASSUME ~hasty', ~failed'
      PROVE  /\ \A k \in Slots : tasks[k].at = "addFunction" => s.functions.form # None
             /\ One(NewFunction(s, tasks)) + forms <= One(NewFunction(ui, tasks)) + forms'
  <2>1. Calm(db, url, ui, tasks, forms)
    BY <1>3, PatientClick
  <2>2. \A k \in Slots : tasks[k].at = "addFunction" => s.functions.form # None
    BY <1>2, <2>1 DEF Calm, Relies
  <2>3. NewFunction(s, tasks) <=> NewFunction(ui, tasks)
    BY <1>2 DEF NewFunction
  <2>4. One(NewFunction(s, tasks)) = One(NewFunction(ui, tasks)) /\ One(NewFunction(ui, tasks)) \in 0 .. 1
    BY <2>3 DEF One
  <2>5. QED
    BY <1>1, <2>2, <2>4
<1>4. QED
  BY <1>1, <1>2, <1>3, FunctionsClick

\* A row that goes into its edit mode or leaves it, and the dialog of a deletion.
LEMMA RowsKeep ==
    ASSUME PageInv, \/ \E f \in Functions : handleEditFunction(f) \/ handleCancelEdit(f) \/ showFunctionConfirmation(f)
                    \/ closeFunctionConfirmation
    PROVE  PageInv'
<1>1. GoodUi(ui)
  BY DEF PageInv, TypeInv
<1>2. CASE \E f \in Functions : handleEditFunction(f) \/ handleCancelEdit(f)
  <2>1. PICK e \in Functions \cup {None} :
           /\ ClickDuring("functions", {"plugins"}) /\ forms' = forms
           /\ Render([ui EXCEPT !.functions.editing = e], url, tasks)
    BY <1>2 DEF handleEditFunction, handleCancelEdit, Row, OnFunctions, ClickOn
  <2>2. PICK s : s = [ui EXCEPT !.functions.editing = e]
    OBVIOUS
  <2>3. GoodUi(s) /\ FunctionsBecome(ui, s, ui.functions.list, ui.functions.loading, ui.functions.form, e, ui.functions.confirm)
    BY <1>1, <2>2, FunctionsEditingSet
  <2>4. Render(s, url, tasks)
    BY <2>1, <2>2
  <2>5. QED
    BY <2>1, <2>3, <2>4, RowClick
<1>3. CASE (\E f \in Functions : showFunctionConfirmation(f)) \/ closeFunctionConfirmation
  <2>1. PICK c \in Functions \cup {None} :
           /\ ClickDuring("functions", {"plugins"}) /\ forms' = forms
           /\ Render([ui EXCEPT !.functions.confirm = c], url, tasks)
    BY <1>3 DEF showFunctionConfirmation, closeFunctionConfirmation, Row, OnFunctions, ClickOn
  <2>2. PICK s : s = [ui EXCEPT !.functions.confirm = c]
    OBVIOUS
  <2>3. GoodUi(s) /\ FunctionsBecome(ui, s, ui.functions.list, ui.functions.loading, ui.functions.form, ui.functions.editing, c)
    BY <1>1, <2>2, FunctionsConfirmSet
  <2>4. Render(s, url, tasks)
    BY <2>1, <2>2
  <2>5. QED
    BY <2>1, <2>3, <2>4, RowClick
<1>4. QED
  BY <1>2, <1>3

\* A handler of the tab of functions that begins.
LEMMA FunctionsBegin ==
    ASSUME PageInv, ClickDuring("functions", {"plugins"}), HasRoom(tasks), forms' = forms,
           NEW at, at \in {"addFunction", "saveEdit", "removeFunction"}, NEW arg, NEW r, Asks(at, arg, {r}),
           arg.plugin = Selected,
           Render([ui EXCEPT !.functions.loading = TRUE], url, Begin(tasks, Task(at, arg, {r}))),
           at # "saveEdit" => ~ui.functions.loading, at = "addFunction" => ui.functions.form # None
    PROVE  PageInv'
<1>0. PICK s, t, ts : s = [ui EXCEPT !.functions.loading = TRUE] /\ t = Handler(at, arg, {r}, TRUE) /\ ts = Begin(tasks, t)
  OBVIOUS
<1>1. GoodUi(ui) /\ GoodTasks(tasks) /\ GoodDb(db) /\ forms \in Nat
  BY DEF PageInv, TypeInv
<1>2. ui.page.tab = "functions" /\ db' = db
  BY DEF ClickDuring, Tab
<1>3. Render(s, url, ts)
  BY <1>0, Zenon DEF Task, Handler
<1>4. GoodUi(s) /\ FunctionsBecome(ui, s, ui.functions.list, TRUE, ui.functions.form, ui.functions.editing, ui.functions.confirm)
  BY <1>0, <1>1, FunctionsLoadingSet
<1>5. /\ s.page = ui.page /\ s.details = ui.details /\ s.functions.list = ui.functions.list /\ s.functions.loading
      /\ s.functions.form = ui.functions.form
  BY <1>4 DEF FunctionsBecome
<1>6. DOMAIN tasks = Slots /\ ts = Begin(tasks, t)
  BY <1>0, <1>1 DEF GoodTasks
<1>7. PICK i \in Slots : /\ tasks[i].at = "idle" /\ DOMAIN ts = Slots
                         /\ \A k \in Slots : ts[k] = IF k = i THEN t ELSE tasks[k]
  BY <1>6, BeginIs
<1>8. GoodTask(t) /\ t.at = at /\ t.arg = arg /\ DOMAIN t.got = {} /\ t.live
  <2>1. GoodTask(t)
    BY <1>0, NewTask
  <2>2. DOMAIN <<>> = {}
    OBVIOUS
  <2>3. QED
    BY <1>0, <2>1, <2>2 DEF Handler
<1>9. GoodTasks(ts)
  BY <1>1, <1>7, <1>8 DEF GoodTasks
<1>10. Spins(s, ts)
  <2>1. s.page.loading => \E k \in Slots : tasks[k].at \in ListPlaces
    BY <1>5 DEF PageInv, SpinInv, Spins
  <2>2. \A k \in Slots : tasks[k].at \in ListPlaces => ts[k].at \in ListPlaces
    BY <1>7 DEF ListPlaces
  <2>3. Turns(ts, FunctionPlaces)
    BY <1>7, <1>8 DEF Turns, FunctionPlaces
  <2>4. QED
    BY <1>2, <1>5, <2>1, <2>2, <2>3 DEF Spins
<1>11. ASSUME ~hasty', ~failed' PROVE Calm(db, url, s, ts, forms')
  <2>1. Calm(db, url, ui, tasks, forms) /\ \A k \in Slots : tasks[k].at # "plugins"
    BY <1>11, PatientClick
  <2>2. at # "saveEdit" => \A k \in Slots : tasks[k].at \in {"idle", "saveEdit"}
    <3>1. ASSUME at # "saveEdit", NEW k \in Slots, tasks[k].at \notin {"idle", "saveEdit"} PROVE FALSE
      <4>1. tasks[k].at \in FunctionPlaces \ {"saveEdit"}
        BY <1>2, <2>1, <3>1 DEF Calm, Alone, PlacesOf
      <4>2. QED
        BY <2>1, <3>1, <4>1 DEF Calm, Relies
    <3>2. QED
      BY <3>1
  <2>3. Alone(s, ts)
    <3>1. at \in PlacesOf(s.page.tab) /\ at # "idle" /\ "saveEdit" \notin Writers /\ "idle" \notin FunctionPlaces
          /\ "idle" \notin Writers
      BY <1>2, <1>5 DEF PlacesOf, FunctionPlaces, Writers
    <3>2. Alone(ui, tasks)
      BY <2>1 DEF Calm
    <3>3. ASSUME NEW k \in Slots, ts[k].at # "idle" PROVE ts[k].at \in PlacesOf(s.page.tab) /\ ts[k].live
      BY <1>5, <1>7, <1>8, <3>1, <3>2, <3>3 DEF Alone
    <3>4. ASSUME NEW j \in Slots, NEW k \in Slots, ts[j].at \in Writers, ts[k].at \notin {"idle", "saveEdit"}
          PROVE  j = k
      <4>1. CASE at = "saveEdit"
        BY <1>7, <1>8, <3>1, <3>2, <3>4, <4>1 DEF Alone
      <4>2. CASE at # "saveEdit"
        BY <1>7, <2>2, <3>1, <3>4, <4>2
      <4>3. QED
        BY <4>1, <4>2
    <3>5. ASSUME NEW j \in Slots, NEW k \in Slots, {ts[j].at, ts[k].at} \subseteq FunctionPlaces \ {"saveEdit"}
          PROVE  j = k
      <4>1. CASE at = "saveEdit"
        BY <1>7, <1>8, <3>1, <3>2, <3>5, <4>1 DEF Alone
      <4>2. CASE at # "saveEdit"
        BY <1>7, <2>2, <3>1, <3>5, <4>2
      <4>3. QED
        BY <4>1, <4>2
    <3>6. QED
      BY <3>3, <3>4, <3>5 DEF Alone
  <2>4. AnswersHold(db, ts)
    BY <1>7, <1>8, <2>1 DEF Calm, AnswersHold
  <2>5. \A k \in Slots : tasks[k].at # "idle" => ts[k] = tasks[k]
    BY <1>7
  <2>6. ListHolds(db, s, ts)
    BY <1>5, <2>1, <2>5 DEF Calm, ListHolds
  <2>7. DetailsHold(db, s, ts) /\ FunctionsHold(db, s, ts)
    <3>1. \A k \in Slots : tasks[k].at \in FunctionPlaces => ts[k] = tasks[k]
      BY <2>5 DEF FunctionPlaces
    <3>2. QED
      BY <1>2, <1>5, <2>1, <3>1 DEF Calm, DetailsHold, FunctionsHold
  <2>8. ASSUME NEW k \in Slots PROVE Relies(url, s, ts[k])
    <3>1. CASE k = i
      <4>1. ts[k].at = at /\ ts[k].arg = arg /\ at \notin {"details", "save", "delete"}
        BY <1>7, <1>8, <3>1
      <4>2. QED
        BY <1>5, <4>1 DEF Relies, Selected
    <3>2. CASE k # i
      BY <1>5, <1>7, <2>1, <3>2 DEF Calm, Relies
    <3>3. QED
      BY <3>1, <3>2
  <2>9. Asked(s, ts)
    BY <1>2, <1>5 DEF Asked
  <2>10. Counted(db, s, ts, forms')
    <3>1. NewPlugin(s, ts) <=> NewPlugin(ui, tasks)
      BY <1>2, <1>5, <1>7, <1>8 DEF NewPlugin
    <3>2. NewFunction(s, ts) <=> NewFunction(ui, tasks)
      BY <1>5, <1>7, <1>8 DEF NewFunction
    <3>3. One(NewPlugin(s, ts)) = One(NewPlugin(ui, tasks)) /\ One(NewFunction(s, ts)) = One(NewFunction(ui, tasks))
      BY <3>1, <3>2 DEF One
    <3>4. QED
      BY <2>1, <3>3 DEF Calm, Counted
  <2>11. url.tab \in {None, s.page.tab}
    BY <1>5, <2>1 DEF Calm
  <2>12. QED
    BY <2>3, <2>4, <2>6, <2>7, <2>8, <2>9, <2>10, <2>11 DEF Calm
<1>12. s.page.temp => ui.page.temp
  BY <1>5
<1>13. GoodDb(db') /\ forms' \in Nat /\ (~hasty' /\ ~failed' => Calm(db', url, s, ts, forms'))
  BY <1>1, <1>2, <1>11
<1>14. QED
  BY <1>3, <1>4, <1>5, <1>9, <1>10, <1>12, <1>13, HereKeeps

\* Saving a new function, saving an edit, deleting a function.
LEMMA FunctionWritesKeep ==
    ASSUME PageInv, handleSaveFunction \/ (\E f \in Functions : handleSaveEdit(f)) \/ handleConfirmDeleteFunction
    PROVE  PageInv'
<1>1. GoodUi(ui) /\ Selected # None => Selected \in Plugins
  BY PartsAre DEF Selected, Ids
<1>2. GoodUi(ui)
  BY DEF PageInv, TypeInv
<1>3. CASE handleSaveFunction
  <2>1. PICK arg, r : arg = [plugin |-> Selected, function |-> None] /\ r = createFunctionForPlugin(Selected)
    OBVIOUS
  <2>2. /\ ClickDuring("functions", {"plugins"}) /\ HasRoom(tasks) /\ forms' = forms /\ Selected # None
        /\ ~ui.functions.loading /\ ui.functions.form = Typed
        /\ Render([ui EXCEPT !.functions.loading = TRUE], url, Begin(tasks, Task("addFunction", arg, {r})))
    BY <1>3, <2>1 DEF handleSaveFunction, BeginHere, OnFunctions, ClickOn
  <2>3. Asks("addFunction", arg, {r}) /\ arg.plugin = Selected
    BY <1>1, <1>2, <2>1, <2>2 DEF Asks
  <2>4. ui.functions.form # None
    BY <2>2, PluginsAssumption
  <2>5. QED
    BY <2>2, <2>3, <2>4, FunctionsBegin
<1>4. ASSUME NEW f \in Functions, handleSaveEdit(f) PROVE PageInv'
  <2>1. PICK arg, r : arg = [plugin |-> Selected, function |-> f] /\ r = updateFunction(f)
    OBVIOUS
  <2>2. /\ ClickDuring("functions", {"plugins"}) /\ HasRoom(tasks) /\ forms' = forms /\ Selected # None
        /\ Render([ui EXCEPT !.functions.loading = TRUE], url, Begin(tasks, Task("saveEdit", arg, {r})))
    BY <1>4, <2>1 DEF handleSaveEdit, Row, BeginHere, OnFunctions, ClickOn
  <2>3. Asks("saveEdit", arg, {r}) /\ arg.plugin = Selected
    BY <1>1, <1>2, <2>1, <2>2 DEF Asks
  <2>4. QED
    BY <2>2, <2>3, FunctionsBegin
<1>5. CASE handleConfirmDeleteFunction
  <2>1. PICK f : f = ui.functions.confirm
    OBVIOUS
  <2>2. PICK arg, r : arg = [plugin |-> Selected, function |-> f] /\ r = removeFunctionFromPlugin(Selected, f)
    OBVIOUS
  <2>3. /\ ClickDuring("functions", {"plugins"}) /\ HasRoom(tasks) /\ forms' = forms /\ Selected # None /\ f # None
        /\ ~ui.functions.loading
        /\ Render([ui EXCEPT !.functions.loading = TRUE], url, Begin(tasks, Task("removeFunction", arg, {r})))
    BY <1>5, <2>1, <2>2 DEF handleConfirmDeleteFunction, BeginHere, OnFunctions, ClickOn
  <2>4. f \in Functions
    BY <1>2, <2>1, <2>3, PartsAre
  <2>5. Asks("removeFunction", arg, {r}) /\ arg.plugin = Selected
    BY <1>1, <1>2, <2>2, <2>3, <2>4 DEF Asks
  <2>6. QED
    BY <2>3, <2>5, FunctionsBegin
<1>6. QED
  BY <1>3, <1>4, <1>5

-----------------------------------------------------------------------------
(* Clicks that go to another tab or another plugin.                        *)

\* What the search parameters leave of the page.
LEMMA FromUrlParts ==
    ASSUME NEW s, GoodUi(s), NEW u \in Urls, NEW t, t = FromUrl(s, u)
    PROVE  /\ GoodUi(t) /\ t.details = s.details /\ t.functions = s.functions
           /\ t.page.plugins = s.page.plugins /\ t.page.temp = s.page.temp
           /\ u = url \/ u.id = None => t.page.selected = s.page.selected
           /\ u # url /\ u.id # None => t.page.selected = u.id
           /\ u = url \/ u.tab = None => t.page.tab = s.page.tab
           /\ u # url /\ u.tab # None => t.page.tab = u.tab
<1>1. PICK l, p, b : /\ l = (s.page.loading \/ u # url)
                     /\ p = IF u = url \/ u.id = None THEN s.page.selected ELSE u.id
                     /\ b = IF u = url \/ u.tab = None THEN s.page.tab ELSE u.tab
  OBVIOUS
<1>2. t.page = Page(s.page.plugins, l, p, b, s.page.temp)
  BY <1>1, FromUrlIs, Zenon
<1>3. t.page.plugins = s.page.plugins /\ t.page.selected = p /\ t.page.tab = b /\ t.page.temp = s.page.temp
  BY <1>2 DEF Page
<1>4. GoodUi(t) /\ t.details = s.details /\ t.functions = s.functions
  BY FromUrlIs
<1>5. QED
  BY <1>1, <1>3, <1>4

\* A page without handlers.
LEMMA Still ==
    ASSUME PageInv, Calm(db, url, ui, tasks, forms), \A k \in Slots : tasks[k].at = "idle"
    PROVE  /\ \A k \in Slots : tasks[k] = Idle
           /\ ui.page.plugins = db.plugins
           /\ ui.page.tab = "details" => ~ui.details.loading
           /\ ui.page.tab = "details" /\ ui.details.confirm # None => ~ui.details.open /\ ui.page.selected # None
<1>1. \A k \in Slots : tasks[k] = Idle
  BY IdleIs DEF PageInv, TypeInv, GoodTasks
<1>2. ui.page.plugins = db.plugins
  BY DEF Calm, ListHolds
<1>3. "idle" \notin DetailsPlaces
  BY DEF DetailsPlaces
<1>4. ui.page.tab = "details" => ~ui.details.loading
  BY <1>3 DEF PageInv, SpinInv, Spins, Turns
<1>5. ui.page.tab = "details" /\ ui.details.confirm # None => ~ui.details.open /\ ui.page.selected # None
  BY DEF Calm, Asked
<1>6. QED
  BY <1>1, <1>2, <1>4, <1>5

LEMMA MoveKeeps ==
    ASSUME PageInv, NEW u \in Urls, Moves(u), NEW s0, GoodUi(s0), s0.details = ui.details, s0.functions = ui.functions,
           s0.page.plugins = ui.page.plugins, s0.page.loading = ui.page.loading, Render(s0, u, tasks),
           NEW s, s = FromUrl(s0, u), forms' \in Nat,
           ~hasty' /\ ~failed' /\ Calm(db, url, ui, tasks, forms) /\ (\A k \in Slots : tasks[k].at = "idle") =>
              /\ u.tab \in {None, s.page.tab}
              /\ \/ forms' = forms + 1 /\ s.page.tab = "details" /\ (Comes(s) \/ ui.details.confirm = None)
                 \/ /\ forms' = forms /\ s.page.temp = ui.page.temp
                    /\ Comes(s) \/ (ui.page.selected # None => s.page.selected # None)
    PROVE  PageInv'
<1>1. GoodUi(ui) /\ GoodTasks(tasks) /\ GoodDb(db) /\ forms \in Nat
  BY DEF PageInv, TypeInv
<1>2. db' = db /\ (~hasty' => ~hasty /\ \A k \in Slots : tasks[k].at = "idle") /\ (~failed' => ~failed)
  BY DEF Moves, Busy, Running
<1>3. GoodUi(s) /\ s.details = ui.details /\ s.functions = ui.functions /\ s.page.plugins = ui.page.plugins
  BY FromUrlParts
<1>4. SpinsSoon(s0, s, tasks)
  <2>1. Spins(ui, tasks)
    BY DEF PageInv, SpinInv
  <2>2. QED
    BY <1>3, <2>1 DEF Spins, SpinsSoon, Comes
<1>5. ASSUME ~hasty', ~failed', NEW v, Rendered(s, v) PROVE Ready(db', u, s, v, tasks, forms')
  <2>1. Calm(db, url, ui, tasks, forms) /\ \A k \in Slots : tasks[k].at = "idle"
    BY <1>2, <1>5 DEF PageInv, CalmInv
  <2>2. /\ \A k \in Slots : tasks[k] = Idle
        /\ ui.page.plugins = db.plugins
        /\ ui.page.tab = "details" /\ ui.details.confirm # None => ~ui.details.open /\ ui.page.selected # None
    BY <2>1, Still
  <2>3. /\ u.tab \in {None, s.page.tab}
        /\ \/ forms' = forms + 1 /\ s.page.tab = "details" /\ (Comes(s) \/ ui.details.confirm = None)
           \/ /\ forms' = forms /\ s.page.temp = ui.page.temp
              /\ Comes(s) \/ (ui.page.selected # None => s.page.selected # None)
    BY <1>5, <2>1
  <2>4. /\ v.page = s.page /\ s.page.tab \in {"details", "functions"} /\ s.page.temp \in BOOLEAN
        /\ ui.page.temp \in BOOLEAN /\ ui.details.open \in BOOLEAN
    BY <1>1, <1>3, <1>5, PartsAre DEF Rendered
  <2>5. ~Comes(s) => s.page.tab = ui.page.tab
    BY DEF Comes
  <2>6. u.tab \in {None, v.page.tab} /\ AnswersHold(db, tasks) /\ ListHolds(db, v, tasks)
    BY <1>3, <2>2, <2>3, <2>4, IdleIs DEF AnswersHold, ListHolds
  <2>7. Alone(v, tasks)
    <3>1. "idle" \notin Writers /\ "idle" \notin FunctionPlaces
      BY DEF Writers, FunctionPlaces
    <3>2. QED
      BY <2>1, <3>1 DEF Alone
  <2>8. ASSUME ~Fetches(s) PROVE DetailsHold(db, v, tasks) /\ FunctionsHold(db, v, tasks)
    <3>1. "idle" \notin FunctionPlaces
      BY DEF FunctionPlaces
    <3>2. DetailsHold(db, ui, tasks) /\ FunctionsHold(db, ui, tasks)
      BY <2>1 DEF Calm
    <3>3. CASE ~Chosen(s)
      <4>1. ~Comes(s) /\ s.page.selected = ui.page.selected
        BY <3>3 DEF Chosen
      <4>2. s.page.tab = "details" => v.details.plugin = ui.details.plugin
        BY <1>3, <1>5, <3>3, <4>1 DEF Rendered
      <4>3. s.page.tab = "functions" => v.functions.list = ui.functions.list
        BY <1>3, <1>5, <4>1 DEF Rendered
      <4>4. QED
        BY <2>1, <2>4, <2>5, <3>1, <3>2, <4>1, <4>2, <4>3 DEF DetailsHold, FunctionsHold
    <3>4. CASE Chosen(s)
      <4>1. s.page.selected = None
        BY <2>8, <3>4 DEF Fetches
      <4>2. s.page.tab = "details" => v.details.plugin = None
        BY <1>5, <3>4, <4>1 DEF Rendered
      <4>3. None \notin DOMAIN db.plugins
        <5>1. DOMAIN db.plugins \subseteq Plugins
          BY <1>1, PartialIs DEF GoodDb
        <5>2. QED
          BY <5>1, PluginsAssumption
      <4>4. QED
        BY <2>4, <4>1, <4>2, <4>3 DEF DetailsHold, FunctionsHold
    <3>5. QED
      BY <3>3, <3>4
  <2>9. \A k \in Slots : Relies(u, v, tasks[k])
    BY <2>1 DEF Relies, FunctionPlaces
  <2>10. Asked(v, tasks)
    <3>1. ASSUME v.page.tab = "details", v.details.confirm # None PROVE ~v.details.open /\ v.page.selected # None
      <4>1. s.page.tab = "details" /\ v.details.confirm = IF Comes(s) THEN None ELSE ui.details.confirm
        BY <1>3, <1>5, <2>4, <3>1 DEF Rendered
      <4>2. ~Comes(s) /\ ui.details.confirm # None /\ ui.page.tab = "details"
        BY <2>5, <3>1, <4>1
      <4>3. s.page.temp = ui.page.temp /\ s.page.selected # None /\ ~ui.details.open
        BY <2>2, <2>3, <4>2
      <4>4. v.details.open = ((~Comes(s) /\ ui.details.open) \/ (s.page.temp /\ (Comes(s) \/ ~ui.page.temp)))
        BY <1>3, <1>5, <4>1 DEF Rendered
      <4>5. QED
        BY <2>4, <4>2, <4>3, <4>4
    <3>2. QED
      BY <3>1 DEF Asked
  <2>11. Counted(db, v, tasks, forms')
    <3>1. /\ NewPlugin(v, tasks) <=> v.page.temp \/ (v.page.tab = "details" /\ v.details.open /\ v.details.plugin = None)
          /\ NewPlugin(ui, tasks) <=> ui.page.temp \/ (ui.page.tab = "details" /\ ui.details.open /\ ui.details.plugin = None)
          /\ NewFunction(v, tasks) <=> v.page.tab = "functions" /\ v.functions.form # None
          /\ NewFunction(ui, tasks) <=> ui.page.tab = "functions" /\ ui.functions.form # None
      BY <2>1 DEF NewPlugin, NewFunction
    <3>2. ASSUME forms' = forms, s.page.temp = ui.page.temp, Comes(s) \/ (ui.page.selected # None => s.page.selected # None)
          PROVE  (NewPlugin(v, tasks) => NewPlugin(ui, tasks)) /\ (NewFunction(v, tasks) => NewFunction(ui, tasks))
      <4>1. ASSUME NewFunction(v, tasks) PROVE NewFunction(ui, tasks)
        <5>1. s.page.tab = "functions" /\ v.functions.form # None
          BY <2>4, <3>1, <4>1
        <5>2. v.functions.form = IF Comes(s) THEN None ELSE ui.functions.form
          BY <1>3, <1>5, <5>1 DEF Rendered
        <5>3. QED
          BY <2>5, <3>1, <5>1, <5>2
      <4>2. ASSUME NewPlugin(v, tasks), ~ui.page.temp PROVE NewPlugin(ui, tasks)
        <5>1. s.page.tab = "details" /\ v.details.open /\ v.details.plugin = None
          BY <2>4, <3>1, <3>2, <4>2
        <5>2. /\ v.details.open = ((~Comes(s) /\ ui.details.open) \/ (s.page.temp /\ (Comes(s) \/ ~ui.page.temp)))
              /\ v.details.plugin = IF Chosen(s) /\ s.page.selected = None THEN None
                                    ELSE IF Comes(s) THEN None ELSE ui.details.plugin
          BY <1>3, <1>5, <5>1 DEF Rendered
        <5>3. ~Comes(s) /\ ui.details.open
          BY <3>2, <4>2, <5>1, <5>2
        <5>4. ~(Chosen(s) /\ s.page.selected = None)
          BY <3>2, <5>3 DEF Chosen
        <5>5. ui.details.plugin = None
          BY <5>1, <5>2, <5>3, <5>4
        <5>6. QED
          BY <2>5, <3>1, <5>1, <5>3, <5>5
      <4>3. QED
        BY <3>1, <4>1, <4>2
    <3>3. PICK a, b, x, y : a = One(NewPlugin(v, tasks)) /\ b = One(NewFunction(v, tasks))
                            /\ x = One(NewPlugin(ui, tasks)) /\ y = One(NewFunction(ui, tasks))
      OBVIOUS
    <3>4. a \in 0 .. 1 /\ b \in 0 .. 1 /\ x \in 0 .. 1 /\ y \in 0 .. 1
      BY <3>3 DEF One
    <3>5. forms' = forms => a <= x /\ b <= y
      <4>1. ASSUME forms' = forms PROVE s.page.temp = ui.page.temp /\ (Comes(s) \/ (ui.page.selected # None => s.page.selected # None))
        BY <1>1, <2>3, <4>1
      <4>2. QED
        BY <3>2, <3>3, <4>1 DEF One
    <3>6. forms' # forms => forms' = forms + 1 /\ b = 0
      BY <2>3, <2>4, <3>1, <3>3 DEF One
    <3>7. IsFiniteSet(db.given) /\ Cardinality(db.given) \in Nat /\ Cardinality(Initially) \in Nat
      BY <2>1, FS_CardinalityType, PluginsAssumption DEF Calm, Counted
    <3>8. Cardinality(db.given) + x + y <= Cardinality(Initially) + 1 + forms
      BY <2>1, <3>3 DEF Calm, Counted
    <3>9. Cardinality(db.given) + a + b <= Cardinality(Initially) + 1 + forms'
      BY <1>1, <3>4, <3>5, <3>6, <3>7, <3>8
    <3>10. QED
      BY <3>3, <3>7, <3>9 DEF Counted
  <2>12. Ready(db, u, s, v, tasks, forms')
    BY <2>1, <2>6, <2>7, <2>8, <2>9, <2>10, <2>11 DEF Ready
  <2>13. QED
    BY <1>2, <2>12
<1>6. GoodDb(db')
  BY <1>1, <1>2
<1>7. QED
  BY <1>1, <1>4, <1>5, <1>6, RenderKeeps

LEMMA TabChangeKeeps ==
    ASSUME PageInv, NEW t \in PageTabs, handleTabChange(t)
    PROVE  PageInv'
<1>1. GoodUi(ui) /\ url \in Urls /\ forms \in Nat
  BY DEF PageInv, TypeInv
<1>2. PICK u, s0 : u = [url EXCEPT !.tab = t] /\ s0 = [ui EXCEPT !.page.tab = t]
  OBVIOUS
<1>3. u \in Urls /\ u.tab = t
  BY <1>1, <1>2 DEF Urls
<1>4. GoodUi(s0) /\ PageBecomes(ui, s0, ui.page.plugins, ui.page.loading, ui.page.selected, t, ui.page.temp)
  BY <1>1, <1>2, PageTabSet
<1>5. /\ s0.details = ui.details /\ s0.functions = ui.functions /\ s0.page.plugins = ui.page.plugins
      /\ s0.page.loading = ui.page.loading /\ s0.page.tab = t /\ s0.page.temp = ui.page.temp
  BY <1>4 DEF PageBecomes
<1>6. Moves(u) /\ Render(s0, u, tasks) /\ forms' = forms /\ t # ui.page.tab
  BY <1>2 DEF handleTabChange, Tab
<1>7. PICK s : s = FromUrl(s0, u)
  OBVIOUS
<1>8. s.page.tab = t /\ s.page.temp = ui.page.temp /\ Comes(s)
  BY <1>3, <1>4, <1>5, <1>6, <1>7, FromUrlParts DEF Comes
<1>9. QED
  BY <1>1, <1>3, <1>4, <1>5, <1>6, <1>7, <1>8, MoveKeeps

LEMMA BackKeeps ==
    ASSUME PageInv, NEW u \in Entries, Back(u)
    PROVE  PageInv'
<1>1. GoodUi(ui) /\ forms \in Nat /\ GoodDb(db)
  BY DEF PageInv, TypeInv
<1>2. u \in Urls
  BY DEF Entries, Urls, Ids
<1>3. Moves(u) /\ Render(ui, u, tasks) /\ forms' = forms /\ u # url
  BY DEF Back
<1>4. PICK s : s = FromUrl(ui, u)
  OBVIOUS
<1>5. s.page.temp = ui.page.temp /\ u.tab \in {None, s.page.tab} /\ (ui.page.selected # None => s.page.selected # None)
  BY <1>1, <1>2, <1>3, <1>4, FromUrlParts
<1>6. QED
  BY <1>1, <1>2, <1>3, <1>4, <1>5, MoveKeeps

LEMMA SelectKeeps ==
    ASSUME PageInv, NEW p \in Plugins, handleSelectPlugin(p)
    PROVE  PageInv'
<1>1. GoodUi(ui) /\ url \in Urls /\ forms \in Nat
  BY DEF PageInv, TypeInv
<1>2. PICK u, s0 : u = [url EXCEPT !.id = p] /\ s0 = [ui EXCEPT !.page.selected = p]
  OBVIOUS
<1>3. u \in Urls /\ u.id = p /\ u.tab = url.tab /\ p \in Ids /\ p # None
  BY <1>1, <1>2, PluginsAssumption DEF Urls, Ids
<1>4. GoodUi(s0) /\ PageBecomes(ui, s0, ui.page.plugins, ui.page.loading, p, ui.page.tab, ui.page.temp)
  BY <1>1, <1>2, <1>3, PageSelectedSet
<1>5. /\ s0.details = ui.details /\ s0.functions = ui.functions /\ s0.page.plugins = ui.page.plugins
      /\ s0.page.loading = ui.page.loading /\ s0.page.tab = ui.page.tab /\ s0.page.temp = ui.page.temp
      /\ s0.page.selected = p
  BY <1>4 DEF PageBecomes
<1>6. Moves(u) /\ Render(s0, u, tasks) /\ forms' = forms
  BY <1>2 DEF handleSelectPlugin
<1>7. PICK s : s = FromUrl(s0, u)
  OBVIOUS
<1>8. s.page.selected = p /\ s.page.temp = ui.page.temp
  BY <1>3, <1>4, <1>5, <1>7, FromUrlParts
<1>9. ASSUME Calm(db, url, ui, tasks, forms) PROVE u.tab \in {None, s.page.tab}
  <2>1. url.tab \in {None, ui.page.tab}
    BY <1>9 DEF Calm
  <2>2. u = url \/ u.tab = None => s.page.tab = ui.page.tab
    BY <1>3, <1>4, <1>5, <1>7, FromUrlParts
  <2>3. u # url /\ u.tab # None => s.page.tab = u.tab
    BY <1>3, <1>4, <1>5, <1>7, FromUrlParts
  <2>4. QED
    BY <1>3, <2>1, <2>2, <2>3
<1>10. QED
  BY <1>1, <1>3, <1>4, <1>5, <1>6, <1>7, <1>8, <1>9, MoveKeeps

\* The page without a selection, on the tab of details.
LEMMA UnselectedIs ==
    ASSUME NEW s, GoodUi(s), NEW t, t = Unselected(s)
    PROVE  /\ GoodUi(t) /\ t.details = s.details /\ t.functions = s.functions
           /\ t.page.plugins = s.page.plugins /\ t.page.loading = s.page.loading /\ t.page.temp = s.page.temp
           /\ t.page.selected = None /\ t.page.tab = "details"
<1>1. None \in Ids /\ "details" \in PageTabs
  BY DEF Ids, PageTabs
<1>2. PICK a : a = [s EXCEPT !.page.selected = None]
  OBVIOUS
<1>3. GoodUi(a) /\ PageBecomes(s, a, s.page.plugins, s.page.loading, None, s.page.tab, s.page.temp)
  BY <1>1, <1>2, PageSelectedSet
<1>4. PICK b : b = [a EXCEPT !.page.tab = "details"]
  OBVIOUS
<1>5. GoodUi(b) /\ PageBecomes(a, b, a.page.plugins, a.page.loading, a.page.selected, "details", a.page.temp)
  BY <1>1, <1>3, <1>4, PageTabSet
<1>6. t = b
  <2>1. s = Ui(s.page, s.details, s.functions)
    BY UiIs
  <2>2. t = Ui([s.page EXCEPT !.selected = None, !.tab = "details"], s.details, s.functions)
    BY <2>1 DEF Unselected, Ui
  <2>3. a = Ui([s.page EXCEPT !.selected = None], s.details, s.functions)
    BY <1>2, <2>1 DEF Ui
  <2>4. a.page = [s.page EXCEPT !.selected = None]
    BY <2>3 DEF Ui
  <2>5. b = [a EXCEPT !.page = [a.page EXCEPT !.tab = "details"]]
    BY <1>4
  <2>6. \A x : [a EXCEPT !.page = x] = Ui(x, s.details, s.functions)
    BY <2>3 DEF Ui
  <2>7. [a.page EXCEPT !.tab = "details"] = [s.page EXCEPT !.selected = None, !.tab = "details"]
    BY <2>4
  <2>8. QED
    BY <2>2, <2>5, <2>6, <2>7
<1>7. QED
  BY <1>3, <1>5, <1>6 DEF PageBecomes

LEMMA CreateKeeps ==
    ASSUME PageInv, handleCreatePlugin
    PROVE  PageInv'
<1>1. GoodUi(ui) /\ url \in Urls /\ forms \in Nat
  BY DEF PageInv, TypeInv
<1>2. PICK a, s0, u : a = Unselected(ui) /\ s0 = [a EXCEPT !.page.temp = TRUE] /\ u = NoPluginUrl
  OBVIOUS
<1>3. u \in Urls /\ u.tab = "details"
  BY <1>2 DEF NoPluginUrl, Urls, Ids, PageTabs
<1>4. /\ GoodUi(a) /\ a.details = ui.details /\ a.functions = ui.functions
      /\ a.page.plugins = ui.page.plugins /\ a.page.loading = ui.page.loading /\ a.page.tab = "details"
  BY <1>1, <1>2, UnselectedIs
<1>5. GoodUi(s0) /\ PageBecomes(a, s0, a.page.plugins, a.page.loading, a.page.selected, a.page.tab, TRUE)
  BY <1>2, <1>4, PageTempSet
<1>6. /\ s0.details = ui.details /\ s0.functions = ui.functions /\ s0.page.plugins = ui.page.plugins
      /\ s0.page.loading = ui.page.loading /\ s0.page.tab = "details"
  BY <1>4, <1>5 DEF PageBecomes
<1>7. Moves(u) /\ Render(s0, u, tasks) /\ forms' = forms + 1 /\ Uncovered
  BY <1>2 DEF handleCreatePlugin
<1>8. PICK s : s = FromUrl(s0, u)
  OBVIOUS
<1>9. s.page.tab = "details"
  BY <1>3, <1>5, <1>6, <1>8, FromUrlParts
<1>10. ASSUME Calm(db, url, ui, tasks, forms), \A k \in Slots : tasks[k].at = "idle"
       PROVE  Comes(s) \/ ui.details.confirm = None
  <2>1. /\ ui.page.tab = "details" => ~ui.details.loading
        /\ ui.page.tab = "details" /\ ui.details.confirm # None => ~ui.details.open /\ ui.page.selected # None
    BY <1>10, Still
  <2>2. QED
    BY <1>7, <1>9, <2>1 DEF Comes, Uncovered, ConfirmShown, NothingSelected, Spinner, Selected, Tab
<1>11. QED
  BY <1>1, <1>3, <1>5, <1>6, <1>7, <1>8, <1>9, <1>10, MoveKeeps

-----------------------------------------------------------------------------
(* What the handlers share.                                                *)

\* A state with another part of the right type.
LEMMA PartSet ==
    ASSUME NEW s, GoodUi(s)
    PROVE  /\ \A p \in PageType : /\ GoodUi([s EXCEPT !.page = p]) /\ [s EXCEPT !.page = p].page = p
                                  /\ [s EXCEPT !.page = p].details = s.details
                                  /\ [s EXCEPT !.page = p].functions = s.functions
           /\ \A d : GoodDetails(d) => /\ GoodUi([s EXCEPT !.details = d]) /\ [s EXCEPT !.details = d].details = d
                                       /\ [s EXCEPT !.details = d].page = s.page
                                       /\ [s EXCEPT !.details = d].functions = s.functions
           /\ \A f \in FunctionsType : /\ GoodUi([s EXCEPT !.functions = f]) /\ [s EXCEPT !.functions = f].functions = f
                                       /\ [s EXCEPT !.functions = f].page = s.page
                                       /\ [s EXCEPT !.functions = f].details = s.details
<1>1. s = Ui(s.page, s.details, s.functions) /\ s.page \in PageType /\ GoodDetails(s.details) /\ s.functions \in FunctionsType
  BY UiIs, PartsAre
<1>2. ASSUME NEW p \in PageType
      PROVE  /\ GoodUi([s EXCEPT !.page = p]) /\ [s EXCEPT !.page = p].page = p
             /\ [s EXCEPT !.page = p].details = s.details /\ [s EXCEPT !.page = p].functions = s.functions
  <2>1. [s EXCEPT !.page = p] = Ui(p, s.details, s.functions)
    BY <1>1 DEF Ui
  <2>2. QED
    BY <1>1, <2>1, UiOf
<1>3. ASSUME NEW d, GoodDetails(d)
      PROVE  /\ GoodUi([s EXCEPT !.details = d]) /\ [s EXCEPT !.details = d].details = d
             /\ [s EXCEPT !.details = d].page = s.page /\ [s EXCEPT !.details = d].functions = s.functions
  <2>1. [s EXCEPT !.details = d] = Ui(s.page, d, s.functions)
    BY <1>1 DEF Ui
  <2>2. QED
    BY <1>1, <1>3, <2>1, UiOf
<1>4. ASSUME NEW f \in FunctionsType
      PROVE  /\ GoodUi([s EXCEPT !.functions = f]) /\ [s EXCEPT !.functions = f].functions = f
             /\ [s EXCEPT !.functions = f].page = s.page /\ [s EXCEPT !.functions = f].details = s.details
  <2>1. [s EXCEPT !.functions = f] = Ui(s.page, s.details, f)
    BY <1>1 DEF Ui
  <2>2. QED
    BY <1>1, <2>1, UiOf
<1>5. QED
  BY <1>2, <1>3, <1>4

\* Two fields of one part.
LEMMA PageTwoSet ==
    ASSUME NEW s, GoodUi(s), NEW l \in BOOLEAN
    PROVE  /\ \A x \in Partial(Plugins, Texts) : \A t : t = [s EXCEPT !.page.loading = l, !.page.plugins = x] =>
                 GoodUi(t) /\ PageBecomes(s, t, x, l, s.page.selected, s.page.tab, s.page.temp)
           /\ \A b \in BOOLEAN : \A t : t = [s EXCEPT !.page.temp = b, !.page.loading = l] =>
                 GoodUi(t) /\ PageBecomes(s, t, s.page.plugins, l, s.page.selected, s.page.tab, b)
<1>1. s.page \in PageType
  BY PartsAre
<1>2. ASSUME NEW x \in Partial(Plugins, Texts), NEW t, t = [s EXCEPT !.page.loading = l, !.page.plugins = x]
      PROVE  GoodUi(t) /\ PageBecomes(s, t, x, l, s.page.selected, s.page.tab, s.page.temp)
  <2> DEFINE p == [s.page EXCEPT !.loading = l, !.plugins = x]
  <2>1. /\ p \in PageType /\ p.plugins = x /\ p.loading = l /\ p.selected = s.page.selected /\ p.tab = s.page.tab
        /\ p.temp = s.page.temp
    BY <1>1 DEF PageType
  <2>2. t = [s EXCEPT !.page = p]
    BY <1>2
  <2> HIDE DEF p
  <2>3. GoodUi(t) /\ t.page = p /\ t.details = s.details /\ t.functions = s.functions
    BY <2>1, <2>2, PartSet
  <2>4. QED
    BY <2>1, <2>3 DEF PageBecomes
<1>3. ASSUME NEW b \in BOOLEAN, NEW t, t = [s EXCEPT !.page.temp = b, !.page.loading = l]
      PROVE  GoodUi(t) /\ PageBecomes(s, t, s.page.plugins, l, s.page.selected, s.page.tab, b)
  <2> DEFINE p == [s.page EXCEPT !.temp = b, !.loading = l]
  <2>1. /\ p \in PageType /\ p.plugins = s.page.plugins /\ p.loading = l /\ p.selected = s.page.selected
        /\ p.tab = s.page.tab /\ p.temp = b
    BY <1>1 DEF PageType
  <2>2. t = [s EXCEPT !.page = p]
    BY <1>3
  <2> HIDE DEF p
  <2>3. GoodUi(t) /\ t.page = p /\ t.details = s.details /\ t.functions = s.functions
    BY <2>1, <2>2, PartSet
  <2>4. QED
    BY <2>1, <2>3 DEF PageBecomes
<1>4. QED
  BY <1>2, <1>3

LEMMA DetailsTwoSet ==
    ASSUME NEW s, GoodUi(s)
    PROVE  /\ \A l \in BOOLEAN, c \in Ids : \A t : t = [s EXCEPT !.details.loading = l, !.details.confirm = c] =>
                 GoodUi(t) /\ DetailsBecome(s, t, s.details.plugin, l, s.details.open, s.details.form, c)
           /\ \A o \in BOOLEAN, p \in [id : Plugins, text : Texts] \cup {None} : \A t :
                 (p # None => GoodPlugin(p)) /\ t = [s EXCEPT !.details.plugin = p, !.details.open = o] =>
                 GoodUi(t) /\ DetailsBecome(s, t, p, s.details.loading, o, s.details.form, s.details.confirm)
<1>1. s.details \in DetailsType /\ (s.details.plugin # None => GoodPlugin(s.details.plugin))
  BY PartsAre DEF GoodDetails
<1>2. ASSUME NEW l \in BOOLEAN, NEW c \in Ids, NEW t, t = [s EXCEPT !.details.loading = l, !.details.confirm = c]
      PROVE  GoodUi(t) /\ DetailsBecome(s, t, s.details.plugin, l, s.details.open, s.details.form, c)
  <2> DEFINE d == [s.details EXCEPT !.loading = l, !.confirm = c]
  <2>1. /\ d \in DetailsType /\ d.plugin = s.details.plugin /\ d.loading = l /\ d.open = s.details.open
        /\ d.form = s.details.form /\ d.confirm = c
    BY <1>1 DEF DetailsType
  <2>2. t = [s EXCEPT !.details = d]
    BY <1>2
  <2> HIDE DEF d
  <2>3. GoodUi(t) /\ t.details = d /\ t.page = s.page /\ t.functions = s.functions
    BY <1>1, <2>1, <2>2, PartSet DEF GoodDetails
  <2>4. QED
    BY <2>1, <2>3 DEF DetailsBecome
<1>3. ASSUME NEW o \in BOOLEAN, NEW p \in [id : Plugins, text : Texts] \cup {None}, p # None => GoodPlugin(p),
             NEW t, t = [s EXCEPT !.details.plugin = p, !.details.open = o]
      PROVE  GoodUi(t) /\ DetailsBecome(s, t, p, s.details.loading, o, s.details.form, s.details.confirm)
  <2> DEFINE d == [s.details EXCEPT !.plugin = p, !.open = o]
  <2>1. /\ d \in DetailsType /\ d.plugin = p /\ d.loading = s.details.loading /\ d.open = o
        /\ d.form = s.details.form /\ d.confirm = s.details.confirm
    BY <1>1 DEF DetailsType
  <2>2. t = [s EXCEPT !.details = d]
    BY <1>3
  <2> HIDE DEF d
  <2>5. GoodDetails(d)
    BY <1>3, <2>1 DEF GoodDetails
  <2>3. GoodUi(t) /\ t.details = d /\ t.page = s.page /\ t.functions = s.functions
    BY <2>2, <2>5, PartSet
  <2>4. QED
    BY <2>1, <2>3 DEF DetailsBecome
<1>4. QED
  BY <1>2, <1>3

\* A handler that has ended.
LEMMA EndIs ==
    ASSUME NEW ts, GoodTasks(ts), NEW k \in Slots
    PROVE  /\ GoodTasks(End(ts, k)) /\ End(ts, k)[k] = Idle
           /\ \A j \in Slots \ {k} : End(ts, k)[j] = ts[j]
<1>1. /\ DOMAIN End(ts, k) = Slots /\ End(ts, k)[k] = Idle
      /\ \A j \in Slots \ {k} : End(ts, k)[j] = ts[j]
  BY DEF End, GoodTasks
<1>2. QED
  BY <1>1, IdleIs DEF GoodTasks

\* A handler that goes on with something else.
LEMMA ThenIs ==
    ASSUME NEW ts, GoodTasks(ts), NEW k \in Slots, NEW t, GoodTask(t)
    PROVE  LET new == [ts EXCEPT ![k] = t]
           IN  GoodTasks(new) /\ new[k] = t /\ \A j \in Slots \ {k} : new[j] = ts[j]
  BY DEF GoodTasks

\* What a handler has when its requests are answered.
LEMMA HandlerIs ==
    ASSUME PageInv, NEW k \in Slots, NEW at, at # "idle", Answered(k, at)
    PROVE  /\ GoodUi(ui) /\ GoodTasks(tasks) /\ GoodDb(db) /\ url \in Urls /\ forms \in Nat /\ Spins(ui, tasks)
           /\ tasks[k].at = at /\ GoodTask(tasks[k]) /\ tasks[k].live \in BOOLEAN
           /\ Asks(at, tasks[k].arg, DOMAIN tasks[k].got)
           /\ ~Threw(tasks[k]) => \A r \in DOMAIN tasks[k].got : tasks[k].got[r].ok /\ Tells(r, Data(tasks[k], r))
           /\ ~hasty /\ ~failed => /\ Calm(db, url, ui, tasks, forms)
                                   /\ at \in PlacesOf(ui.page.tab) /\ tasks[k].live
                                   /\ \A r \in DOMAIN tasks[k].got : StillSo(db, r, tasks[k].got[r])
<1>1. /\ GoodUi(ui) /\ GoodTasks(tasks) /\ GoodDb(db) /\ url \in Urls /\ forms \in Nat /\ Spins(ui, tasks)
      /\ tasks[k].at = at /\ tasks[k].sent = {} /\ GoodTask(tasks[k])
  BY DEF PageInv, TypeInv, SpinInv, GoodTasks, Answered
<1>2. tasks[k].live \in BOOLEAN
  BY <1>1, BusyIs
<1>3. /\ Asks(at, tasks[k].arg, DOMAIN tasks[k].got)
      /\ ~Threw(tasks[k]) => \A r \in DOMAIN tasks[k].got : tasks[k].got[r].ok /\ Tells(r, Data(tasks[k], r))
  BY <1>1, Answers
<1>4. ASSUME ~hasty, ~failed
      PROVE  /\ Calm(db, url, ui, tasks, forms)
             /\ at \in PlacesOf(ui.page.tab) /\ tasks[k].live
             /\ \A r \in DOMAIN tasks[k].got : StillSo(db, r, tasks[k].got[r])
  <2>1. Calm(db, url, ui, tasks, forms)
    BY <1>4 DEF PageInv, CalmInv
  <2>2. QED
    BY <1>1, <2>1 DEF Calm, Alone, AnswersHold
<1>5. QED
  BY <1>1, <1>2, <1>3, <1>4

\* Spinners after a step of one handler.
LEMMA SpinsOn ==
    ASSUME Spins(ui, tasks), NEW k \in Slots, NEW ts, \A j \in Slots \ {k} : ts[j] = tasks[j],
           NEW s, s.page.tab = ui.page.tab,
           s.page.loading => ts[k].at \in ListPlaces \/ (ui.page.loading /\ tasks[k].at \notin ListPlaces),
           s.page.tab = "details" /\ s.details.loading =>
               \/ ts[k].at \in DetailsPlaces /\ ts[k].live
               \/ ui.details.loading /\ ~(tasks[k].at \in DetailsPlaces /\ tasks[k].live),
           s.page.tab = "functions" /\ s.functions.loading =>
               \/ ts[k].at \in FunctionPlaces /\ ts[k].live
               \/ ui.functions.loading /\ ~(tasks[k].at \in FunctionPlaces /\ tasks[k].live)
    PROVE  Spins(s, ts)
<1>1. s.page.loading => \E j \in Slots : ts[j].at \in ListPlaces
  BY DEF Spins
<1>2. s.page.tab = "details" /\ s.details.loading => Turns(ts, DetailsPlaces)
  BY DEF Spins, Turns
<1>3. s.page.tab = "functions" /\ s.functions.loading => Turns(ts, FunctionPlaces)
  BY DEF Spins, Turns
<1>4. QED
  BY <1>1, <1>2, <1>3 DEF Spins

\* The page is as calm when a handler has ended.
LEMMA EndCalm ==
    ASSUME Calm(db, url, ui, tasks, forms), NEW k \in Slots, NEW ts, ts[k] = Idle,
           \A j \in Slots \ {k} : ts[j] = tasks[j], NEW s, s.page.tab = ui.page.tab
    PROVE  Alone(s, ts) /\ AnswersHold(db, ts) /\ url.tab \in {None, s.page.tab}
<1>1. Idle.at = "idle" /\ DOMAIN Idle.got = {} /\ "idle" \notin Writers /\ "idle" \notin FunctionPlaces
  BY IdleIs DEF Writers, FunctionPlaces
<1>2. Alone(s, ts)
  BY <1>1 DEF Calm, Alone
<1>3. AnswersHold(db, ts)
  BY <1>1 DEF Calm, AnswersHold
<1>4. QED
  BY <1>2, <1>3 DEF Calm

-----------------------------------------------------------------------------
(* Handlers that end.                                                      *)

\* A handler that ends because its request failed: somebody has failed before.
LEMMA FailedKeeps ==
    ASSUME PageInv, NEW k \in Slots, NEW at, at # "idle", Answered(k, at), Stay, Threw(tasks[k]),
           \A r \in DOMAIN tasks[k].got : r[1] # "deleteFunction",
           NEW s, GoodUi(s), s.page = ui.page, Render(s, url, End(tasks, k)),
           s.page.tab = "details" /\ s.details.loading => ui.details.loading /\ ~(tasks[k].at \in DetailsPlaces /\ tasks[k].live),
           s.page.tab = "functions" /\ s.functions.loading =>
               ui.functions.loading /\ ~(tasks[k].at \in FunctionPlaces /\ tasks[k].live),
           at \notin ListPlaces
    PROVE  PageInv'
<1>0. PICK ts : ts = End(tasks, k)
  OBVIOUS
<1>1. /\ GoodTasks(tasks) /\ GoodDb(db) /\ forms \in Nat /\ Spins(ui, tasks) /\ tasks[k].at = at
      /\ ~hasty /\ ~failed => \A r \in DOMAIN tasks[k].got : StillSo(db, r, tasks[k].got[r])
  BY HandlerIs
<1>2. GoodTasks(ts) /\ ts[k] = Idle /\ \A j \in Slots \ {k} : ts[j] = tasks[j]
  BY <1>0, <1>1, EndIs
<1>3. Spins(s, ts)
  BY <1>1, <1>2, SpinsOn
<1>4. hasty \/ failed
  BY <1>1 DEF Threw, StillSo
<1>5. GoodDb(db') /\ forms' \in Nat /\ (hasty' \/ failed')
  BY <1>1, <1>4 DEF Stay
<1>6. Render(s, url, ts)
  BY <1>0
<1>7. s.page.temp => ui.page.temp
  OBVIOUS
<1>8. QED
  BY <1>2, <1>3, <1>5, <1>6, <1>7, HereKeeps

LEMMA SaveFailedKeeps ==
    ASSUME PageInv, NEW k \in Slots, SaveFailed(k)
    PROVE  PageInv'
<1>0. PICK s : s = Show(k, [ui EXCEPT !.details.loading = FALSE])
  OBVIOUS
<1>1. Answered(k, "save") /\ Threw(tasks[k]) /\ Stay /\ Render(s, url, End(tasks, k))
  BY <1>0 DEF SaveFailed
<1>2. GoodUi(ui) /\ tasks[k].at = "save" /\ tasks[k].live \in BOOLEAN /\ Asks("save", tasks[k].arg, DOMAIN tasks[k].got)
      /\ Spins(ui, tasks)
  BY <1>1, HandlerIs
<1>3. /\ GoodUi(s) /\ s.page = ui.page /\ s.functions = ui.functions
      /\ tasks[k].live => ~s.details.loading
      /\ ~tasks[k].live => s = ui
  <2>1. PICK a : a = [ui EXCEPT !.details.loading = FALSE]
    OBVIOUS
  <2>2. GoodUi(a) /\ DetailsBecome(ui, a, ui.details.plugin, FALSE, ui.details.open, ui.details.form, ui.details.confirm)
    BY <1>2, <2>1, DetailsLoadingSet
  <2>3. s = IF tasks[k].live THEN a ELSE ui
    BY <1>0, <2>1 DEF Show
  <2>4. QED
    BY <1>2, <2>2, <2>3 DEF DetailsBecome
<1>4. \A r \in DOMAIN tasks[k].got : r[1] # "deleteFunction"
  BY <1>2 DEF Asks, createPlugin, updatePlugin
<1>5. tasks[k].at \in DetailsPlaces /\ tasks[k].at \notin FunctionPlaces /\ "save" \notin ListPlaces
  BY <1>2 DEF DetailsPlaces, FunctionPlaces, ListPlaces
<1>6. QED
  BY <1>1, <1>3, <1>4, <1>5, FailedKeeps

LEMMA DeleteFailedKeeps ==
    ASSUME PageInv, NEW k \in Slots, DeleteFailed(k)
    PROVE  PageInv'
<1>0. PICK s : s = Show(k, [ui EXCEPT !.details.loading = FALSE, !.details.confirm = None])
  OBVIOUS
<1>1. Answered(k, "delete") /\ Threw(tasks[k]) /\ Stay /\ Render(s, url, End(tasks, k))
  BY <1>0 DEF DeleteFailed
<1>2. GoodUi(ui) /\ tasks[k].at = "delete" /\ tasks[k].live \in BOOLEAN /\ Asks("delete", tasks[k].arg, DOMAIN tasks[k].got)
  BY <1>1, HandlerIs
<1>3. /\ GoodUi(s) /\ s.page = ui.page /\ s.functions = ui.functions
      /\ tasks[k].live => ~s.details.loading
      /\ ~tasks[k].live => s = ui
  <2>1. PICK a : a = [ui EXCEPT !.details.loading = FALSE, !.details.confirm = None]
    OBVIOUS
  <2>2. None \in Ids
    BY DEF Ids
  <2>3. GoodUi(a) /\ DetailsBecome(ui, a, ui.details.plugin, FALSE, ui.details.open, ui.details.form, None)
    BY <1>2, <2>1, <2>2, DetailsTwoSet
  <2>4. s = IF tasks[k].live THEN a ELSE ui
    BY <1>0, <2>1 DEF Show
  <2>5. QED
    BY <1>2, <2>3, <2>4 DEF DetailsBecome
<1>4. \A r \in DOMAIN tasks[k].got : r[1] # "deleteFunction"
  BY <1>2 DEF Asks, deletePlugin
<1>5. tasks[k].at \in DetailsPlaces /\ tasks[k].at \notin FunctionPlaces /\ "delete" \notin ListPlaces
  BY <1>2 DEF DetailsPlaces, FunctionPlaces, ListPlaces
<1>6. QED
  BY <1>1, <1>3, <1>4, <1>5, FailedKeeps

\* The tab of functions without its spinner, if it is still there.
LEMMA ShowFunctions ==
    ASSUME GoodUi(ui), NEW k \in Slots, NEW l \in BOOLEAN, NEW s, s = Show(k, [ui EXCEPT !.functions.loading = l])
    PROVE  /\ GoodUi(s) /\ s.page = ui.page /\ s.details = ui.details
           /\ s.functions.list = ui.functions.list /\ s.functions.form = ui.functions.form
           /\ tasks[k].live => s.functions.loading = l
           /\ ~tasks[k].live => s = ui
<1>1. PICK a : a = [ui EXCEPT !.functions.loading = l]
  OBVIOUS
<1>2. GoodUi(a) /\ FunctionsBecome(ui, a, ui.functions.list, l, ui.functions.form, ui.functions.editing, ui.functions.confirm)
  BY <1>1, FunctionsLoadingSet
<1>3. s = IF tasks[k].live THEN a ELSE ui
  BY <1>1 DEF Show
<1>4. QED
  BY <1>2, <1>3 DEF FunctionsBecome

LEMMA EditRefusedKeeps ==
    ASSUME PageInv, NEW k \in Slots, EditRefused(k)
    PROVE  PageInv'
<1>0. PICK s, ts : s = Show(k, [ui EXCEPT !.functions.loading = FALSE]) /\ ts = End(tasks, k)
  OBVIOUS
<1>1. Answered(k, "saveEdit") /\ Stay /\ Render(s, url, ts)
  BY <1>0 DEF EditRefused
<1>2. /\ GoodUi(ui) /\ GoodTasks(tasks) /\ GoodDb(db) /\ forms \in Nat /\ Spins(ui, tasks)
      /\ tasks[k].at = "saveEdit" /\ tasks[k].live \in BOOLEAN /\ Asks("saveEdit", tasks[k].arg, DOMAIN tasks[k].got)
      /\ ~hasty /\ ~failed => \A r \in DOMAIN tasks[k].got : StillSo(db, r, tasks[k].got[r])
  BY <1>1, HandlerIs
<1>3. /\ GoodUi(s) /\ s.page = ui.page /\ s.details = ui.details
      /\ tasks[k].live => ~s.functions.loading
      /\ ~tasks[k].live => s = ui
  BY <1>0, <1>2, ShowFunctions
<1>4. GoodTasks(ts) /\ ts[k] = Idle /\ \A j \in Slots \ {k} : ts[j] = tasks[j]
  BY <1>0, <1>2, EndIs
<1>5. tasks[k].at \notin DetailsPlaces /\ tasks[k].at \in FunctionPlaces /\ tasks[k].at \notin ListPlaces
  BY <1>2 DEF DetailsPlaces, FunctionPlaces, ListPlaces
<1>6. Spins(s, ts)
  BY <1>2, <1>3, <1>4, <1>5, SpinsOn
<1>7. hasty \/ failed
  <2>0. DOMAIN tasks[k].got = {updateFunction(tasks[k].arg.function)}
    BY <1>2 DEF Asks
  <2>1. PICK r \in DOMAIN tasks[k].got : r[1] = "updateFunction"
    BY <2>0 DEF updateFunction
  <2>2. QED
    BY <1>2, <2>1 DEF StillSo
<1>8. GoodDb(db') /\ forms' \in Nat /\ (hasty' \/ failed') /\ (s.page.temp => ui.page.temp)
  BY <1>1, <1>2, <1>3, <1>7 DEF Stay
<1>9. QED
  BY <1>1, <1>3, <1>4, <1>6, <1>8, HereKeeps

\* The list of the page as a handler fetched it.
LEMMA WithPluginsIs ==
    ASSUME PageInv, NEW k \in Slots, NEW at, at \in ListPlaces, Answered(k, at), NEW s, GoodUi(s),
           s.page.plugins = ui.page.plugins, NEW t, t = WithPlugins(s, k)
    PROVE  /\ GoodUi(t) /\ t.details = s.details /\ t.functions = s.functions
           /\ ~t.page.loading /\ t.page.selected = s.page.selected /\ t.page.tab = s.page.tab /\ t.page.temp = s.page.temp
           /\ ~hasty /\ ~failed => t.page.plugins = db.plugins
<1>1. at # "idle"
  BY DEF ListPlaces
<1>2. /\ Asks(at, tasks[k].arg, DOMAIN tasks[k].got)
      /\ ~Threw(tasks[k]) => \A r \in DOMAIN tasks[k].got : tasks[k].got[r].ok /\ Tells(r, Data(tasks[k], r))
      /\ ~hasty /\ ~failed => \A r \in DOMAIN tasks[k].got : StillSo(db, r, tasks[k].got[r])
  BY <1>1, HandlerIs
<1>3. DOMAIN tasks[k].got = {getAllPlugins}
  BY <1>2 DEF Asks, ListPlaces
<1>4. PICK x : x = IF Threw(tasks[k]) THEN s.page.plugins ELSE Data(tasks[k], getAllPlugins)
  OBVIOUS
<1>5. x \in Partial(Plugins, Texts)
  BY <1>2, <1>3, <1>4, PartsAre DEF Tells, getAllPlugins
<1>6. ~hasty /\ ~failed => x = db.plugins
  BY <1>2, <1>3, <1>4 DEF StillSo, getAllPlugins, Threw, Data
<1>7. t = [s EXCEPT !.page.loading = FALSE, !.page.plugins = x]
  BY <1>4 DEF WithPlugins
<1>8. FALSE \in BOOLEAN
  OBVIOUS
<1>9. GoodUi(t) /\ PageBecomes(s, t, x, FALSE, s.page.selected, s.page.tab, s.page.temp)
  BY <1>5, <1>7, <1>8, PageTwoSet
<1>10. QED
  BY <1>6, <1>9 DEF PageBecomes

LEMMA PluginsFetchedKeeps ==
    ASSUME PageInv, NEW k \in Slots, PluginsFetched(k)
    PROVE  PageInv'
<1>0. PICK s, ts : s = WithPlugins(ui, k) /\ ts = End(tasks, k)
  OBVIOUS
<1>1. Answered(k, "plugins") /\ Stay /\ Render(s, url, ts) /\ "plugins" \in ListPlaces
  BY <1>0 DEF PluginsFetched, ListPlaces
<1>2. /\ GoodUi(ui) /\ GoodTasks(tasks) /\ GoodDb(db) /\ forms \in Nat /\ Spins(ui, tasks) /\ tasks[k].at = "plugins"
      /\ ~hasty /\ ~failed => Calm(db, url, ui, tasks, forms)
  BY <1>1, HandlerIs
<1>3. /\ GoodUi(s) /\ s.details = ui.details /\ s.functions = ui.functions
      /\ ~s.page.loading /\ s.page.selected = ui.page.selected /\ s.page.tab = ui.page.tab /\ s.page.temp = ui.page.temp
      /\ ~hasty /\ ~failed => s.page.plugins = db.plugins
  BY <1>0, <1>1, <1>2, WithPluginsIs
<1>4. GoodTasks(ts) /\ ts[k] = Idle /\ \A j \in Slots \ {k} : ts[j] = tasks[j]
  BY <1>0, <1>2, EndIs
<1>5. tasks[k].at \notin DetailsPlaces /\ tasks[k].at \notin FunctionPlaces
  BY <1>2 DEF DetailsPlaces, FunctionPlaces
<1>6. Spins(s, ts)
  BY <1>2, <1>3, <1>4, <1>5, SpinsOn
<1>7. ASSUME ~hasty, ~failed PROVE Calm(db, url, s, ts, forms)
  <2>1. Calm(db, url, ui, tasks, forms)
    BY <1>2, <1>7
  <2>2. Alone(s, ts) /\ AnswersHold(db, ts) /\ url.tab \in {None, s.page.tab}
    BY <1>3, <1>4, <2>1, EndCalm
  <2>3. ListHolds(db, s, ts)
    BY <1>3, <1>7 DEF ListHolds
  <2>4. \A j \in Slots : tasks[j].at \notin {"plugins", "idle"} => ts[j] = tasks[j]
    BY <1>2, <1>4
  <2>5. DetailsHold(db, s, ts)
    BY <1>3, <2>1, <2>4 DEF Calm, DetailsHold
  <2>6. FunctionsHold(db, s, ts)
    BY <1>3, <2>1, <2>4 DEF Calm, FunctionsHold, FunctionPlaces
  <2>7. ASSUME NEW j \in Slots PROVE Relies(url, s, ts[j])
    BY <1>3, <1>4, <2>1, IdleIs DEF Calm, Relies, FunctionPlaces
  <2>8. Asked(s, ts)
    BY <1>3, <2>1, <2>4 DEF Calm, Asked
  <2>9. Counted(db, s, ts, forms)
    <3>1. NewPlugin(s, ts) <=> NewPlugin(ui, tasks)
      BY <1>2, <1>3, <1>4, IdleIs DEF NewPlugin
    <3>2. NewFunction(s, ts) <=> NewFunction(ui, tasks)
      BY <1>2, <1>3, <1>4, IdleIs DEF NewFunction
    <3>3. One(NewPlugin(s, ts)) = One(NewPlugin(ui, tasks)) /\ One(NewFunction(s, ts)) = One(NewFunction(ui, tasks))
      BY <3>1, <3>2 DEF One
    <3>4. QED
      BY <2>1, <3>3 DEF Calm, Counted
  <2>10. QED
    BY <2>2, <2>3, <2>5, <2>6, <2>7, <2>8, <2>9 DEF Calm
<1>8. GoodDb(db') /\ forms' \in Nat /\ (~hasty' /\ ~failed' => Calm(db', url, s, ts, forms')) /\ (s.page.temp => ui.page.temp)
  BY <1>1, <1>2, <1>3, <1>7 DEF Stay
<1>9. QED
  BY <1>1, <1>3, <1>4, <1>6, <1>8, HereKeeps

LEMMA DetailsFetchedKeeps ==
    ASSUME PageInv, NEW k \in Slots, DetailsFetched(k)
    PROVE  PageInv'
<1>1. Answered(k, "details") /\ Stay
  BY DEF DetailsFetched
<1>2. /\ GoodUi(ui) /\ GoodTasks(tasks) /\ GoodDb(db) /\ forms \in Nat /\ Spins(ui, tasks) /\ tasks[k].at = "details"
      /\ Asks("details", tasks[k].arg, DOMAIN tasks[k].got)
      /\ ~Threw(tasks[k]) => \A r \in DOMAIN tasks[k].got : tasks[k].got[r].ok /\ Tells(r, Data(tasks[k], r))
      /\ ~hasty /\ ~failed => /\ Calm(db, url, ui, tasks, forms) /\ "details" \in PlacesOf(ui.page.tab)
                              /\ \A r \in DOMAIN tasks[k].got : StillSo(db, r, tasks[k].got[r])
  BY <1>1, HandlerIs
<1>3. PICK x : x = IF Threw(tasks[k]) THEN ui.details.plugin ELSE Data(tasks[k], getPluginById(tasks[k].arg.id))
  OBVIOUS
<1>4. PICK d : d = [ui.details EXCEPT !.loading = FALSE, !.plugin = x]
  OBVIOUS
<1>5. PICK s, ts : s = [ui EXCEPT !.details = d] /\ ts = End(tasks, k)
  OBVIOUS
<1>6. Render(s, url, ts)
  BY <1>3, <1>4, <1>5 DEF DetailsFetched
<1>7. DOMAIN tasks[k].got = {getPluginById(tasks[k].arg.id)}
  BY <1>2 DEF Asks
<1>8. (x # None => GoodPlugin(x)) /\ x \in [id : Plugins, text : Texts] \cup {None}
  BY <1>2, <1>3, <1>7, PartsAre DEF Tells, getPluginById, GoodPlugin
<1>9. /\ GoodDetails(d) /\ d.plugin = x /\ ~d.loading /\ d.open = ui.details.open /\ d.confirm = ui.details.confirm
  BY <1>2, <1>4, <1>8, PartsAre DEF GoodDetails, DetailsType
<1>10. GoodUi(s) /\ s.details = d /\ s.page = ui.page /\ s.functions = ui.functions
  BY <1>2, <1>5, <1>9, PartSet
<1>11. GoodTasks(ts) /\ ts[k] = Idle /\ \A j \in Slots \ {k} : ts[j] = tasks[j]
  BY <1>2, <1>5, EndIs
<1>12. tasks[k].at \notin ListPlaces /\ tasks[k].at \notin FunctionPlaces
  BY <1>2 DEF ListPlaces, FunctionPlaces
<1>13. Spins(s, ts)
  BY <1>2, <1>9, <1>10, <1>11, <1>12, SpinsOn
<1>14. ASSUME ~hasty, ~failed PROVE Calm(db, url, s, ts, forms)
  <2>1. Calm(db, url, ui, tasks, forms)
    BY <1>2, <1>14
  <2>2. Alone(s, ts) /\ AnswersHold(db, ts) /\ url.tab \in {None, s.page.tab}
    BY <1>10, <1>11, <2>1, EndCalm
  <2>3. ui.page.tab = "details"
    BY <1>2, <1>14, PartsAre DEF PlacesOf, FunctionPlaces
  <2>4. \A j \in Slots : tasks[j].at \notin Writers
    BY <1>2, <2>1 DEF Calm, Alone, Writers
  <2>5. \A j \in Slots : tasks[j].at \notin {"details", "idle"} => ts[j] = tasks[j]
    BY <1>2, <1>11
  <2>6. ListHolds(db, s, ts)
    BY <1>10, <2>1, <2>5 DEF Calm, ListHolds
  <2>7. ui.page.selected \in DOMAIN db.plugins /\ x = [id |-> ui.page.selected, text |-> db.plugins[ui.page.selected]]
    <3>1. tasks[k].arg.id = ui.page.selected
      BY <1>2, <2>1 DEF Calm, Relies
    <3>2. PICK r : r \in DOMAIN tasks[k].got /\ r = getPluginById(ui.page.selected)
      BY <1>7, <3>1
    <3>3. r[1] = "getPluginById" /\ r[2] = ui.page.selected
      BY <3>2 DEF getPluginById
    <3>4. StillSo(db, r, tasks[k].got[r])
      BY <1>2, <1>14, <3>2
    <3>5. tasks[k].got[r].ok
      BY <3>3, <3>4 DEF StillSo
    <3>6. ~Threw(tasks[k])
      BY <1>7, <3>1, <3>2, <3>5 DEF Threw
    <3>7. x = tasks[k].got[r].data
      BY <1>3, <3>1, <3>2, <3>6 DEF Data
    <3>8. QED
      BY <3>3, <3>4, <3>7 DEF StillSo
  <2>8. DetailsHold(db, s, ts) /\ FunctionsHold(db, s, ts)
    BY <1>9, <1>10, <2>3, <2>7 DEF DetailsHold, FunctionsHold
  <2>9. ASSUME NEW j \in Slots PROVE Relies(url, s, ts[j])
    <3>1. ts[j].at \notin {"save", "delete", "addFunction"} /\ (ts[j].at # "idle" => ts[j] = tasks[j])
      BY <1>11, <2>4, IdleIs DEF Writers
    <3>2. "idle" \notin FunctionPlaces
      BY DEF FunctionPlaces
    <3>3. QED
      BY <1>10, <2>1, <3>1, <3>2 DEF Calm, Relies
  <2>10. Asked(s, ts)
    BY <1>9, <1>10, <2>1, <2>5 DEF Calm, Asked
  <2>11. Counted(db, s, ts, forms)
    <3>1. NewPlugin(s, ts) => NewPlugin(ui, tasks)
      <4>1. x # None
        <5>1. None \notin [id : Plugins, text : Plugins \cup {Typed}]
          BY PluginsAssumption
        <5>2. ui.page.selected \in Plugins /\ db.plugins[ui.page.selected] \in Texts
          BY <1>2, <2>7, PartialIs DEF GoodDb
        <5>3. QED
          BY <2>7, <5>1, <5>2 DEF Texts
      <4>2. QED
        BY <1>9, <1>10, <2>4, <4>1 DEF NewPlugin, Writers
    <3>2. ~NewFunction(s, ts) /\ ~NewFunction(ui, tasks)
      BY <1>10, <2>3 DEF NewFunction
    <3>3. PICK a, b : a = One(NewPlugin(s, ts)) /\ b = One(NewPlugin(ui, tasks))
      OBVIOUS
    <3>4. One(NewFunction(s, ts)) = 0 /\ One(NewFunction(ui, tasks)) = 0 /\ a \in 0 .. 1 /\ b \in 0 .. 1 /\ a <= b
      BY <3>1, <3>2, <3>3 DEF One
    <3>5. IsFiniteSet(db.given) /\ Cardinality(db.given) \in Nat /\ Cardinality(Initially) \in Nat
      BY <2>1, FS_CardinalityType, PluginsAssumption DEF Calm, Counted
    <3>6. Cardinality(db.given) + b + 0 <= Cardinality(Initially) + 1 + forms
      BY <2>1, <3>3, <3>4 DEF Calm, Counted
    <3>7. Cardinality(db.given) + a + 0 <= Cardinality(Initially) + 1 + forms
      BY <1>2, <3>4, <3>5, <3>6
    <3>8. QED
      BY <3>3, <3>4, <3>5, <3>7 DEF Counted
  <2>12. QED
    BY <2>2, <2>6, <2>8, <2>9, <2>10, <2>11 DEF Calm
<1>15. GoodDb(db') /\ forms' \in Nat /\ (~hasty' /\ ~failed' => Calm(db', url, s, ts, forms')) /\ (s.page.temp => ui.page.temp)
  BY <1>1, <1>2, <1>10, <1>14 DEF Stay
<1>16. QED
  BY <1>6, <1>10, <1>11, <1>13, <1>15, HereKeeps

LEMMA RefreshedKeeps ==
    ASSUME PageInv, NEW k \in Slots, Refreshed(k)
    PROVE  PageInv'
<1>1. Answered(k, "refresh") /\ Stay /\ "refresh" \in ListPlaces
  BY DEF Refreshed, ListPlaces
<1>2. /\ GoodUi(ui) /\ GoodTasks(tasks) /\ GoodDb(db) /\ forms \in Nat /\ Spins(ui, tasks) /\ tasks[k].at = "refresh"
      /\ Asks("refresh", tasks[k].arg, DOMAIN tasks[k].got) /\ tasks[k].live \in BOOLEAN
      /\ ~hasty /\ ~failed => /\ Calm(db, url, ui, tasks, forms) /\ "refresh" \in PlacesOf(ui.page.tab) /\ tasks[k].live
  BY <1>1, HandlerIs
<1>3. PICK c : c = IF tasks[k].arg.closes THEN None ELSE ui.details.confirm
  OBVIOUS
<1>4. PICK d : d = [ui.details EXCEPT !.loading = FALSE, !.confirm = c]
  OBVIOUS
<1>5. PICK a : a = Show(k, [ui EXCEPT !.details = d])
  OBVIOUS
<1>6. PICK b : b = WithPlugins(a, k)
  OBVIOUS
<1>7. PICK s, ts : s = [b EXCEPT !.page.temp = FALSE] /\ ts = End(tasks, k)
  OBVIOUS
<1>8. Render(s, url, ts)
  BY <1>3, <1>4, <1>5, <1>6, <1>7 DEF Refreshed
<1>9. GoodDetails(d) /\ d.plugin = ui.details.plugin /\ ~d.loading /\ d.open = ui.details.open /\ d.confirm = c
  <2>1. c \in Ids
    BY <1>2, <1>3, PartsAre DEF Ids
  <2>2. QED
    BY <1>2, <1>4, <2>1, PartsAre DEF GoodDetails, DetailsType
<1>10. /\ GoodUi(a) /\ a.page = ui.page /\ a.functions = ui.functions
       /\ tasks[k].live => a.details = d
       /\ ~tasks[k].live => a.details = ui.details
  <2>1. PICK e : e = [ui EXCEPT !.details = d]
    OBVIOUS
  <2>2. GoodUi(e) /\ e.page = ui.page /\ e.functions = ui.functions /\ e.details = d
    BY <1>2, <1>9, <2>1, PartSet
  <2>3. a = IF tasks[k].live THEN e ELSE ui
    BY <1>5, <2>1 DEF Show
  <2>4. QED
    BY <1>2, <2>2, <2>3
<1>11. /\ GoodUi(b) /\ b.details = a.details /\ b.functions = a.functions
       /\ ~b.page.loading /\ b.page.selected = a.page.selected /\ b.page.tab = a.page.tab
       /\ ~hasty /\ ~failed => b.page.plugins = db.plugins
  BY <1>1, <1>6, <1>10, WithPluginsIs
<1>12. GoodUi(s) /\ PageBecomes(b, s, b.page.plugins, b.page.loading, b.page.selected, b.page.tab, FALSE)
  BY <1>7, <1>11, PageTempSet
<1>13. /\ s.details = a.details /\ s.functions = ui.functions /\ ~s.page.loading /\ ~s.page.temp
       /\ s.page.selected = ui.page.selected /\ s.page.tab = ui.page.tab
       /\ ~hasty /\ ~failed => s.page.plugins = db.plugins
  BY <1>10, <1>11, <1>12 DEF PageBecomes
<1>14. GoodTasks(ts) /\ ts[k] = Idle /\ \A j \in Slots \ {k} : ts[j] = tasks[j]
  BY <1>2, <1>7, EndIs
<1>15. tasks[k].at \notin FunctionPlaces
  BY <1>2 DEF FunctionPlaces
<1>16. Spins(s, ts)
  BY <1>2, <1>9, <1>10, <1>13, <1>14, <1>15, SpinsOn
<1>17. ASSUME ~hasty, ~failed PROVE Calm(db, url, s, ts, forms)
  <2>1. Calm(db, url, ui, tasks, forms)
    BY <1>2, <1>17
  <2>2. Alone(s, ts) /\ AnswersHold(db, ts) /\ url.tab \in {None, s.page.tab}
    BY <1>13, <1>14, <2>1, EndCalm
  <2>3. ui.page.tab = "details" /\ s.details = d
    BY <1>2, <1>10, <1>13, <1>17, PartsAre DEF PlacesOf, FunctionPlaces
  <2>4. \A j \in Slots : tasks[j].at \notin Writers
    BY <1>2, <2>1 DEF Calm, Alone, Writers
  <2>5. \A j \in Slots : tasks[j].at \notin {"refresh", "idle"} => ts[j] = tasks[j]
    BY <1>2, <1>14
  <2>6. ListHolds(db, s, ts) /\ FunctionsHold(db, s, ts)
    BY <1>13, <1>17, <2>3 DEF ListHolds, FunctionsHold
  <2>7. DetailsHold(db, s, ts)
    BY <1>9, <1>13, <2>1, <2>3, <2>5 DEF Calm, DetailsHold
  <2>8. ASSUME NEW j \in Slots PROVE Relies(url, s, ts[j])
    <3>1. ts[j].at \notin {"save", "delete", "addFunction"} /\ (ts[j].at # "idle" => ts[j] = tasks[j])
      BY <1>14, <2>4, IdleIs DEF Writers
    <3>2. ts[j].at \notin FunctionPlaces
      <4>1. ts[j].at # "idle" => ts[j].at \in PlacesOf("details")
        BY <1>13, <2>2, <2>3 DEF Alone
      <4>2. QED
        BY <4>1 DEF PlacesOf, DetailsPlaces, FunctionPlaces
    <3>3. QED
      BY <1>13, <2>1, <3>1, <3>2 DEF Calm, Relies
  <2>9. Asked(s, ts)
    <3>1. ASSUME s.details.confirm # None
          PROVE  (~s.details.open /\ s.page.selected # None) \/ \E j \in Slots : ts[j].at = "refresh" /\ ts[j].arg.closes
      <4>1. ~tasks[k].arg.closes /\ ui.details.confirm # None
        BY <1>3, <1>9, <2>3, <3>1
      <4>2. \/ ~ui.details.open /\ ui.page.selected # None
            \/ \E j \in Slots : tasks[j].at = "refresh" /\ tasks[j].arg.closes
        BY <2>1, <2>3, <4>1 DEF Calm, Asked
      <4>3. \A j \in Slots : tasks[j].at = "refresh" /\ tasks[j].arg.closes => ts[j] = tasks[j]
        BY <1>14, <4>1
      <4>4. QED
        BY <1>9, <1>13, <2>3, <4>2, <4>3
    <3>2. QED
      BY <3>1 DEF Asked
  <2>10. Counted(db, s, ts, forms)
    <3>1. NewPlugin(s, ts) => NewPlugin(ui, tasks)
      BY <1>9, <1>13, <2>3, <2>4 DEF NewPlugin, Writers
    <3>2. ~NewFunction(s, ts) /\ ~NewFunction(ui, tasks)
      BY <1>13, <2>3 DEF NewFunction
    <3>3. PICK x, y : x = One(NewPlugin(s, ts)) /\ y = One(NewPlugin(ui, tasks))
      OBVIOUS
    <3>4. One(NewFunction(s, ts)) = 0 /\ One(NewFunction(ui, tasks)) = 0 /\ x \in 0 .. 1 /\ y \in 0 .. 1 /\ x <= y
      BY <3>1, <3>2, <3>3 DEF One
    <3>5. IsFiniteSet(db.given) /\ Cardinality(db.given) \in Nat /\ Cardinality(Initially) \in Nat
      BY <2>1, FS_CardinalityType, PluginsAssumption DEF Calm, Counted
    <3>6. Cardinality(db.given) + y + 0 <= Cardinality(Initially) + 1 + forms
      BY <2>1, <3>3, <3>4 DEF Calm, Counted
    <3>7. Cardinality(db.given) + x + 0 <= Cardinality(Initially) + 1 + forms
      BY <1>2, <3>4, <3>5, <3>6
    <3>8. QED
      BY <3>3, <3>4, <3>5, <3>7 DEF Counted
  <2>11. QED
    BY <2>2, <2>6, <2>7, <2>8, <2>9, <2>10 DEF Calm
<1>18. GoodDb(db') /\ forms' \in Nat /\ (~hasty' /\ ~failed' => Calm(db', url, s, ts, forms')) /\ (s.page.temp => ui.page.temp)
  BY <1>1, <1>2, <1>13, <1>17 DEF Stay
<1>19. QED
  BY <1>8, <1>12, <1>13, <1>14, <1>16, <1>18, HereKeeps

\* While a handler of the tab of functions other than saveEdit runs, it is the only one.
LEMMA OneFunctionTask ==
    ASSUME GoodUi(ui), Calm(db, url, ui, tasks, forms), NEW k \in Slots, tasks[k].at \in FunctionPlaces \ {"saveEdit"}
    PROVE  /\ ui.page.tab = "functions" /\ tasks[k].live
           /\ tasks[k].arg.plugin = ui.page.selected /\ ui.functions.loading
           /\ \A j \in Slots \ {k} : tasks[j].at \in {"idle", "plugins", "saveEdit"}
           /\ tasks[k].at # "functions" => \A j \in Slots \ {k} : tasks[j].at \in {"idle", "saveEdit"}
<1>1. tasks[k].at # "idle" /\ tasks[k].at \notin {"plugins"} \cup DetailsPlaces
  BY DEF FunctionPlaces, DetailsPlaces
<1>2. ui.page.tab = "functions" /\ tasks[k].live
  BY <1>1, PartsAre DEF Calm, Alone, PlacesOf
<1>3. tasks[k].arg.plugin = ui.page.selected /\ ui.functions.loading
  BY DEF Calm, Relies
<1>4. ASSUME NEW j \in Slots \ {k} PROVE tasks[j].at \in {"idle", "plugins", "saveEdit"}
  <2>1. tasks[j].at # "idle" => tasks[j].at \in {"plugins"} \cup FunctionPlaces
    BY <1>2 DEF Calm, Alone, PlacesOf
  <2>2. tasks[j].at \notin FunctionPlaces \ {"saveEdit"}
    BY DEF Calm, Alone
  <2>3. QED
    BY <2>1, <2>2
<1>5. ASSUME tasks[k].at # "functions", NEW j \in Slots \ {k} PROVE tasks[j].at \in {"idle", "saveEdit"}
  <2>1. tasks[k].at \in Writers
    BY <1>5 DEF FunctionPlaces, Writers
  <2>2. QED
    BY <2>1 DEF Calm, Alone
<1>6. QED
  BY <1>2, <1>3, <1>4, <1>5

LEMMA FunctionsFetchedKeeps ==
    ASSUME PageInv, NEW k \in Slots, FunctionsFetched(k)
    PROVE  PageInv'
<1>1. Answered(k, "functions") /\ Stay
  BY DEF FunctionsFetched
<1>2. /\ GoodUi(ui) /\ GoodTasks(tasks) /\ GoodDb(db) /\ forms \in Nat /\ Spins(ui, tasks) /\ tasks[k].at = "functions"
      /\ Asks("functions", tasks[k].arg, DOMAIN tasks[k].got)
      /\ ~Threw(tasks[k]) => \A r \in DOMAIN tasks[k].got : tasks[k].got[r].ok /\ Tells(r, Data(tasks[k], r))
      /\ ~hasty /\ ~failed => /\ Calm(db, url, ui, tasks, forms)
                              /\ \A r \in DOMAIN tasks[k].got : StillSo(db, r, tasks[k].got[r])
  BY <1>1, HandlerIs
<1>3. PICK x, f, c :
         /\ x = IF Threw(tasks[k]) THEN ui.functions.list ELSE Data(tasks[k], getFunctionsForPlugin(tasks[k].arg.plugin))
         /\ f = IF tasks[k].arg.then = "closeForm" THEN None ELSE ui.functions.form
         /\ c = IF tasks[k].arg.then = "unconfirm" THEN None ELSE ui.functions.confirm
  OBVIOUS
<1>4. PICK g : g = [ui.functions EXCEPT !.loading = FALSE, !.list = x, !.form = f, !.confirm = c]
  OBVIOUS
<1>5. PICK s, ts : s = [ui EXCEPT !.functions = g] /\ ts = End(tasks, k)
  OBVIOUS
<1>6. Render(s, url, ts)
  BY <1>3, <1>4, <1>5 DEF FunctionsFetched
<1>7. DOMAIN tasks[k].got = {getFunctionsForPlugin(tasks[k].arg.plugin)}
  BY <1>2 DEF Asks
<1>8. x \in SUBSET Functions /\ f \in {None, Blank, Typed} /\ c \in Functions \cup {None}
  BY <1>2, <1>3, <1>7, PartsAre DEF Tells, getFunctionsForPlugin
<1>9. g \in FunctionsType /\ g.list = x /\ ~g.loading /\ g.form = f
  BY <1>2, <1>4, <1>8, PartsAre DEF FunctionsType
<1>10. GoodUi(s) /\ s.functions = g /\ s.page = ui.page /\ s.details = ui.details
  BY <1>2, <1>5, <1>9, PartSet
<1>11. GoodTasks(ts) /\ ts[k] = Idle /\ \A j \in Slots \ {k} : ts[j] = tasks[j]
  BY <1>2, <1>5, EndIs
<1>12. tasks[k].at \notin ListPlaces /\ tasks[k].at \notin DetailsPlaces /\ tasks[k].at \in FunctionPlaces \ {"saveEdit"}
  BY <1>2 DEF ListPlaces, DetailsPlaces, FunctionPlaces
<1>13. Spins(s, ts)
  BY <1>2, <1>9, <1>10, <1>11, <1>12, SpinsOn
<1>14. ASSUME ~hasty, ~failed PROVE Calm(db, url, s, ts, forms)
  <2>1. Calm(db, url, ui, tasks, forms)
    BY <1>2, <1>14
  <2>2. Alone(s, ts) /\ AnswersHold(db, ts) /\ url.tab \in {None, s.page.tab}
    BY <1>10, <1>11, <2>1, EndCalm
  <2>3. /\ ui.page.tab = "functions" /\ tasks[k].arg.plugin = ui.page.selected
        /\ \A j \in Slots \ {k} : tasks[j].at \in {"idle", "plugins", "saveEdit"}
    BY <1>2, <1>12, <2>1, OneFunctionTask
  <2>4. \A j \in Slots : ts[j].at \in {"idle", "plugins", "saveEdit"}
    BY <1>11, <2>3, IdleIs
  <2>5. ListHolds(db, s, ts)
    <3>1. \A j \in Slots : tasks[j].at \in {"plugins", "refresh", "save", "delete"} => ts[j] = tasks[j]
      BY <1>2, <1>11
    <3>2. QED
      BY <1>10, <2>1, <3>1 DEF Calm, ListHolds
  <2>6. x = FunctionsIn(db, ui.page.selected)
    <3>1. PICK r : r \in DOMAIN tasks[k].got /\ r = getFunctionsForPlugin(ui.page.selected)
      BY <1>7, <2>3
    <3>2. r[1] = "getFunctionsForPlugin" /\ r[2] = ui.page.selected
      BY <3>1 DEF getFunctionsForPlugin
    <3>3. StillSo(db, r, tasks[k].got[r])
      BY <1>2, <1>14, <3>1
    <3>4. tasks[k].got[r].ok
      BY <3>2, <3>3 DEF StillSo
    <3>5. ~Threw(tasks[k])
      BY <1>7, <2>3, <3>1, <3>4 DEF Threw
    <3>6. x = tasks[k].got[r].data
      BY <1>3, <2>3, <3>1, <3>5 DEF Data
    <3>7. QED
      BY <3>2, <3>3, <3>6 DEF StillSo
  <2>7. DetailsHold(db, s, ts) /\ FunctionsHold(db, s, ts)
    BY <1>9, <1>10, <2>3, <2>6 DEF DetailsHold, FunctionsHold
  <2>8. \A j \in Slots : Relies(url, s, ts[j])
    BY <2>4 DEF Relies, FunctionPlaces
  <2>9. Asked(s, ts)
    BY <1>10, <2>3 DEF Asked
  <2>10. Counted(db, s, ts, forms)
    <3>1. NewPlugin(s, ts) <=> NewPlugin(ui, tasks)
      BY <1>2, <1>10, <2>3, <2>4 DEF NewPlugin
    <3>2. NewFunction(s, ts) => NewFunction(ui, tasks)
      <4>1. ASSUME NewFunction(s, ts) PROVE NewFunction(ui, tasks)
        <5>1. f # None
          BY <1>9, <1>10, <4>1 DEF NewFunction
        <5>2. tasks[k].arg.then # "closeForm" /\ ui.functions.form # None
          BY <1>3, <5>1
        <5>3. QED
          BY <1>2, <2>3, <5>2 DEF NewFunction
      <4>2. QED
        BY <4>1
    <3>3. PICK a, b, y : a = One(NewFunction(s, ts)) /\ b = One(NewFunction(ui, tasks)) /\ y = One(NewPlugin(ui, tasks))
      OBVIOUS
    <3>4. One(NewPlugin(s, ts)) = y /\ a \in 0 .. 1 /\ b \in 0 .. 1 /\ y \in 0 .. 1 /\ a <= b
      BY <3>1, <3>2, <3>3 DEF One
    <3>5. IsFiniteSet(db.given) /\ Cardinality(db.given) \in Nat /\ Cardinality(Initially) \in Nat
      BY <2>1, FS_CardinalityType, PluginsAssumption DEF Calm, Counted
    <3>6. Cardinality(db.given) + y + b <= Cardinality(Initially) + 1 + forms
      BY <2>1, <3>3 DEF Calm, Counted
    <3>7. Cardinality(db.given) + y + a <= Cardinality(Initially) + 1 + forms
      BY <1>2, <3>4, <3>5, <3>6
    <3>8. QED
      BY <3>3, <3>4, <3>5, <3>7 DEF Counted
  <2>11. QED
    BY <2>2, <2>5, <2>7, <2>8, <2>9, <2>10 DEF Calm
<1>15. GoodDb(db') /\ forms' \in Nat /\ (~hasty' /\ ~failed' => Calm(db', url, s, ts, forms')) /\ (s.page.temp => ui.page.temp)
  BY <1>1, <1>2, <1>10, <1>14 DEF Stay
<1>16. QED
  BY <1>6, <1>10, <1>11, <1>13, <1>15, HereKeeps

-----------------------------------------------------------------------------
(* Handlers that go on after a write.                                      *)

\* While a plugin is being saved or deleted, nothing else runs.
LEMMA OneWriter ==
    ASSUME GoodUi(ui), Calm(db, url, ui, tasks, forms), NEW k \in Slots, tasks[k].at \in {"save", "delete"}
    PROVE  /\ ui.page.tab = "details" /\ tasks[k].live
           /\ \A j \in Slots \ {k} : tasks[j].at = "idle"
<1>1. tasks[k].at # "idle" /\ tasks[k].at \notin {"plugins"} \cup FunctionPlaces /\ tasks[k].at \in Writers
      /\ "saveEdit" \notin {"plugins"} \cup DetailsPlaces
  BY DEF FunctionPlaces, DetailsPlaces, Writers
<1>2. ui.page.tab = "details" /\ tasks[k].live
  BY <1>1, PartsAre DEF Calm, Alone, PlacesOf
<1>3. \A j \in Slots \ {k} : tasks[j].at \in {"idle", "saveEdit"}
  BY <1>1 DEF Calm, Alone
<1>4. \A j \in Slots : tasks[j].at # "saveEdit"
  BY <1>1, <1>2 DEF Calm, Alone, PlacesOf
<1>5. QED
  BY <1>2, <1>3, <1>4

\* The tail of saving and of deleting a plugin.
LEMMA RefreshKeeps ==
    ASSUME PageInv, NEW k \in Slots, NEW at \in {"save", "delete"}, Answered(k, at), Stay,
           NEW closes \in BOOLEAN, NEW s0, GoodUi(s0), NEW u \in Urls, Render(s0, u, ToRefresh(k, closes)),
           NEW s, s = FromUrl(s0, u), s0.functions = ui.functions, s0.details.loading = ui.details.loading,
           ~hasty /\ ~failed =>
               /\ u.tab \in {None, "details"} /\ s.page.tab = "details"
               /\ s.page.temp => ui.page.temp /\ at = "delete"
               /\ ~s.details.open
               /\ s.details.confirm = None \/ closes
               /\ s.details.plugin # None =>
                    /\ s.page.selected \in DOMAIN db.plugins
                    /\ s.details.plugin = [id |-> s.page.selected, text |-> db.plugins[s.page.selected]]
    PROVE  PageInv'
<1>0. PICK t, ts : /\ t = Handler("refresh", [closes |-> closes], {getAllPlugins}, tasks[k].live)
                   /\ ts = [tasks EXCEPT ![k] = t]
  OBVIOUS
<1>1. /\ GoodUi(ui) /\ GoodTasks(tasks) /\ GoodDb(db) /\ forms \in Nat /\ Spins(ui, tasks) /\ tasks[k].at = at
      /\ tasks[k].live \in BOOLEAN
      /\ ~hasty /\ ~failed => Calm(db, url, ui, tasks, forms)
  BY HandlerIs
<1>2. Render(s0, u, ts)
  <2>1. [Task("refresh", [closes |-> closes], {getAllPlugins}) EXCEPT !.live = tasks[k].live] = t
    <3>1. PICK x, q, b : x = [closes |-> closes] /\ q = {getAllPlugins} /\ b = tasks[k].live
      OBVIOUS
    <3>2. [Task("refresh", x, q) EXCEPT !.live = b] = Handler("refresh", x, q, b)
      BY DEF Task, Handler
    <3>3. QED
      BY <1>0, <3>1, <3>2, Zenon
  <2>2. ToRefresh(k, closes) = ts
    BY <1>0, <2>1, Zenon DEF ToRefresh
  <2>3. QED
    BY <2>2
<1>3. GoodTask(t) /\ t.at = "refresh" /\ t.arg.closes = closes /\ t.live = tasks[k].live /\ DOMAIN t.got = {}
  <2>1. Asks("refresh", [closes |-> closes], {getAllPlugins})
    BY DEF Asks
  <2>2. GoodTask(t)
    BY <1>0, <1>1, <2>1, NewTask
  <2>3. DOMAIN <<>> = {}
    OBVIOUS
  <2>4. QED
    BY <1>0, <2>2, <2>3 DEF Handler
<1>4. GoodTasks(ts) /\ ts[k] = t /\ \A j \in Slots \ {k} : ts[j] = tasks[j]
  <2>1. ts = [tasks EXCEPT ![k] = t]
    BY <1>0
  <2>2. QED
    <3>1. GoodTasks(tasks)
      BY <1>1
    <3>2. GoodTask(t)
      BY <1>3
    <3>3. LET new == [tasks EXCEPT ![k] = t]
          IN  GoodTasks(new) /\ new[k] = t /\ \A j \in Slots \ {k} : new[j] = tasks[j]
      BY <3>1, <3>2, ThenIs
    <3>4. QED
      BY <3>3, <2>1
<1>5. GoodUi(s) /\ s.details = s0.details /\ s.functions = s0.functions
  BY FromUrlParts
<1>6. SpinsSoon(s0, s, ts)
  <2>1. ts[k].at \in ListPlaces /\ ts[k].at \in DetailsPlaces /\ tasks[k].at \notin FunctionPlaces
    BY <1>1, <1>3, <1>4 DEF ListPlaces, DetailsPlaces, FunctionPlaces
  <2>2. ~Comes(s) => s.page.tab = ui.page.tab
    BY DEF Comes
  <2>3. ~Comes(s) /\ s.page.tab = "details" /\ s.details.loading => Turns(ts, DetailsPlaces)
    <3>1. ASSUME ~Comes(s), s.page.tab = "details", s.details.loading PROVE Turns(ts, DetailsPlaces)
      <4>1. PICK j \in Slots : tasks[j].at \in DetailsPlaces /\ tasks[j].live
        BY <1>1, <1>5, <2>2, <3>1 DEF Spins, Turns
      <4>2. ts[j].at \in DetailsPlaces /\ ts[j].live
        BY <1>3, <1>4, <2>1, <4>1
      <4>3. QED
        BY <4>2 DEF Turns
    <3>2. QED
      BY <3>1
  <2>4. ~Comes(s) /\ s.page.tab = "functions" /\ s.functions.loading => Turns(ts, FunctionPlaces)
    <3>1. ASSUME ~Comes(s), s.page.tab = "functions", s.functions.loading PROVE Turns(ts, FunctionPlaces)
      <4>1. PICK j \in Slots : tasks[j].at \in FunctionPlaces /\ tasks[j].live
        BY <1>1, <1>5, <2>2, <3>1 DEF Spins, Turns
      <4>2. ts[j] = tasks[j]
        BY <1>4, <2>1, <4>1
      <4>3. QED
        BY <4>1, <4>2 DEF Turns
    <3>2. QED
      BY <3>1
  <2>5. QED
    BY <2>1, <2>3, <2>4 DEF SpinsSoon
<1>7. ASSUME ~hasty, ~failed, NEW v, Rendered(s, v) PROVE Ready(db, u, s, v, ts, forms)
  <2>1. Calm(db, url, ui, tasks, forms)
    BY <1>1, <1>7
  <2>2. /\ ui.page.tab = "details" /\ tasks[k].live
        /\ \A j \in Slots \ {k} : tasks[j].at = "idle"
    BY <1>1, <2>1, OneWriter
  <2>3. /\ u.tab \in {None, "details"} /\ s.page.tab = "details"
        /\ s.page.temp => ui.page.temp /\ at = "delete"
        /\ ~s.details.open
        /\ s.details.confirm = None \/ closes
        /\ s.details.plugin # None =>
              /\ s.page.selected \in DOMAIN db.plugins
              /\ s.details.plugin = [id |-> s.page.selected, text |-> db.plugins[s.page.selected]]
    BY <1>7
  <2>4. ~Comes(s)
    BY <2>2, <2>3 DEF Comes
  <2>5. s.page.temp \in BOOLEAN /\ ui.page.temp \in BOOLEAN /\ s.details.confirm \in Ids
    BY <1>1, <1>5, PartsAre
  <2>6. v.page = s.page /\ ~v.details.open
    BY <1>7, <2>3, <2>4, <2>5 DEF Rendered
  <2>7. v.details.plugin = (IF Chosen(s) /\ s.page.selected = None THEN None ELSE s.details.plugin)
        /\ v.details.confirm = s.details.confirm
    BY <1>7, <2>3, <2>4 DEF Rendered
  <2>8. \A j \in Slots : ts[j].at = (IF j = k THEN "refresh" ELSE "idle") /\ DOMAIN ts[j].got = {}
    <3>1. \A j \in Slots \ {k} : tasks[j] = Idle
      BY <1>1, <2>2, IdleIs DEF GoodTasks
    <3>2. QED
      BY <1>3, <1>4, <3>1, IdleIs
  <2>9. Alone(v, ts)
    <3>1. "refresh" \notin Writers /\ "refresh" \notin FunctionPlaces /\ "idle" \notin Writers /\ "idle" \notin FunctionPlaces
          /\ "refresh" \in PlacesOf("details")
      BY DEF Writers, FunctionPlaces, PlacesOf, DetailsPlaces
    <3>2. QED
      BY <1>3, <1>4, <2>2, <2>3, <2>6, <2>8, <3>1 DEF Alone
  <2>10. AnswersHold(db, ts) /\ ListHolds(db, v, ts)
    BY <2>8 DEF AnswersHold, ListHolds
  <2>11. DetailsHold(db, v, ts) /\ FunctionsHold(db, v, ts)
    BY <2>3, <2>6, <2>7 DEF DetailsHold, FunctionsHold
  <2>12. \A j \in Slots : Relies(u, v, ts[j])
    BY <2>8 DEF Relies, FunctionPlaces
  <2>13. Asked(v, ts)
    <3>1. closes => ts[k].at = "refresh" /\ ts[k].arg.closes
      BY <1>3, <1>4
    <3>2. QED
      BY <2>3, <2>7, <3>1 DEF Asked
  <2>14. Counted(db, v, ts, forms)
    <3>1. NewPlugin(v, ts) => NewPlugin(ui, tasks)
      BY <1>1, <2>2, <2>3, <2>6 DEF NewPlugin
    <3>2. ~NewFunction(v, ts) /\ ~NewFunction(ui, tasks)
      BY <2>2, <2>3, <2>6 DEF NewFunction
    <3>3. PICK x, y : x = One(NewPlugin(v, ts)) /\ y = One(NewPlugin(ui, tasks))
      OBVIOUS
    <3>4. One(NewFunction(v, ts)) = 0 /\ One(NewFunction(ui, tasks)) = 0 /\ x \in 0 .. 1 /\ y \in 0 .. 1 /\ x <= y
      BY <3>1, <3>2, <3>3 DEF One
    <3>5. IsFiniteSet(db.given) /\ Cardinality(db.given) \in Nat /\ Cardinality(Initially) \in Nat
      BY <2>1, FS_CardinalityType, PluginsAssumption DEF Calm, Counted
    <3>6. Cardinality(db.given) + y + 0 <= Cardinality(Initially) + 1 + forms
      BY <2>1, <3>3, <3>4 DEF Calm, Counted
    <3>7. Cardinality(db.given) + x + 0 <= Cardinality(Initially) + 1 + forms
      BY <1>1, <3>4, <3>5, <3>6
    <3>8. QED
      BY <3>3, <3>4, <3>5, <3>7 DEF Counted
  <2>15. \A j \in Slots : ts[j].at \in {"idle", "refresh"}
    BY <2>8
  <2>16. QED
    BY <2>3, <2>4, <2>6, <2>9, <2>10, <2>11, <2>12, <2>13, <2>14, <2>15 DEF Ready
<1>8. GoodDb(db') /\ forms' \in Nat
      /\ (~hasty' /\ ~failed' => \A v : Rendered(s, v) => Ready(db', u, s, v, ts, forms'))
  BY <1>1, <1>7 DEF Stay
<1>9. QED
  BY <1>2, <1>4, <1>6, <1>8, RenderKeeps

LEMMA DeleteAnsweredKeeps ==
    ASSUME PageInv, NEW k \in Slots, DeleteAnswered(k)
    PROVE  PageInv'
<1>1. Answered(k, "delete") /\ Stay
  BY DEF DeleteAnswered
<1>2. /\ GoodUi(ui) /\ tasks[k].at = "delete" /\ tasks[k].live \in BOOLEAN
      /\ ~hasty /\ ~failed => Calm(db, url, ui, tasks, forms)
  BY <1>1, HandlerIs
<1>3. PICK a, b, c, s0, u : /\ a = [ui EXCEPT !.details.plugin = None] /\ b = Show(k, a) /\ c = Unselected(b)
                            /\ s0 = [c EXCEPT !.page.loading = TRUE] /\ u = NoPluginUrl
  OBVIOUS
<1>4. Render(s0, u, ToRefresh(k, TRUE))
  BY <1>3 DEF DeleteAnswered
<1>5. /\ GoodUi(b) /\ b.page = ui.page /\ b.functions = ui.functions /\ b.details.loading = ui.details.loading
      /\ b.details.open = ui.details.open
      /\ tasks[k].live => b.details.plugin = None
  <2>1. a = [ui EXCEPT !.details.plugin = None]
    BY <1>3
  <2>2. GoodUi(a) /\ DetailsBecome(ui, a, None, ui.details.loading, ui.details.open, ui.details.form, ui.details.confirm)
    BY <1>2, <2>1, DetailsPluginSet
  <2>3. b = IF tasks[k].live THEN a ELSE ui
    BY <1>3 DEF Show
  <2>4. QED
    BY <1>2, <2>2, <2>3 DEF DetailsBecome
<1>6. GoodUi(c) /\ c.details = b.details /\ c.functions = b.functions /\ c.page.temp = b.page.temp /\ c.page.tab = "details"
  <2>1. c = Unselected(b)
    BY <1>3
  <2>2. QED
    BY <1>5, <2>1, UnselectedIs
<1>7. GoodUi(s0) /\ PageBecomes(c, s0, c.page.plugins, TRUE, c.page.selected, c.page.tab, c.page.temp)
  <2>1. s0 = [c EXCEPT !.page.loading = TRUE]
    BY <1>3
  <2>2. QED
    BY <1>6, <2>1, PageLoadingSet
<1>8. s0.details = b.details /\ s0.functions = ui.functions /\ s0.page.temp = ui.page.temp /\ s0.page.tab = "details"
  BY <1>5, <1>6, <1>7 DEF PageBecomes
<1>9. u \in Urls /\ u.tab = "details"
  BY <1>3 DEF NoPluginUrl, Urls, Ids, PageTabs
<1>10. PICK s : s = FromUrl(s0, u)
  OBVIOUS
<1>11. s.details = b.details /\ s.page.temp = ui.page.temp /\ s.page.tab = "details"
  BY <1>7, <1>8, <1>9, <1>10, FromUrlParts
<1>12. ASSUME ~hasty, ~failed PROVE ~s.details.open /\ s.details.plugin = None
  <2>1. tasks[k].live
    BY <1>2, <1>12, OneWriter
  <2>2. ~ui.details.open
    BY <1>2, <1>12 DEF Calm, Relies
  <2>3. QED
    BY <1>5, <1>11, <2>1, <2>2
<1>13. s0.details.loading = ui.details.loading /\ TRUE \in BOOLEAN /\ "delete" \in {"save", "delete"}
  BY <1>5, <1>8
<1>14. QED
  BY <1>1, <1>4, <1>7, <1>8, <1>9, <1>10, <1>11, <1>12, <1>13, RefreshKeeps

LEMMA SaveAnsweredKeeps ==
    ASSUME PageInv, NEW k \in Slots, SaveAnswered(k)
    PROVE  PageInv'
<1>1. Answered(k, "save") /\ ~Threw(tasks[k]) /\ Stay
  BY DEF SaveAnswered
<1>2. /\ GoodUi(ui) /\ GoodTasks(tasks) /\ GoodDb(db) /\ tasks[k].at = "save" /\ tasks[k].live \in BOOLEAN /\ url \in Urls
      /\ Asks("save", tasks[k].arg, DOMAIN tasks[k].got)
      /\ \A r \in DOMAIN tasks[k].got : tasks[k].got[r].ok /\ Tells(r, Data(tasks[k], r))
      /\ ~hasty /\ ~failed => /\ Calm(db, url, ui, tasks, forms)
                              /\ \A r \in DOMAIN tasks[k].got : StillSo(db, r, tasks[k].got[r])
  BY <1>1, HandlerIs
<1>3. PICK plugin \in Results(k) : Saved(k, plugin)
  BY DEF SaveAnswered
<1>4. PICK r \in DOMAIN tasks[k].got : plugin = Data(tasks[k], r)
  BY <1>3 DEF Results, Data
<1>5. tasks[k].arg.url \in Urls /\ tasks[k].arg.creating \in BOOLEAN
  BY <1>2 DEF Asks
<1>6. \/ r[1] = "createPlugin" /\ GoodPlugin(plugin)
      \/ r[1] = "updatePlugin" /\ plugin = None
  <2>1. r[1] \in {"createPlugin", "updatePlugin"}
    BY <1>2, <1>4 DEF Asks, createPlugin, updatePlugin
  <2>2. QED
    BY <1>2, <1>4, <2>1 DEF Tells
<1>7. plugin \in [id : Plugins, text : Texts] \cup {None} /\ (plugin # None => GoodPlugin(plugin))
      /\ (plugin # None => r[1] = "createPlugin")
  BY <1>6 DEF GoodPlugin
<1>8. PICK a, b, x : /\ a = [ui EXCEPT !.details.plugin = plugin, !.details.open = FALSE] /\ b = Show(k, a)
                     /\ x = (b.page.temp /\ ~tasks[k].arg.creating)
  OBVIOUS
<1>9. PICK t : t = [b EXCEPT !.page.temp = x, !.page.loading = TRUE]
  OBVIOUS
<1>10. /\ plugin = None => Render(t, url, ToRefresh(k, FALSE))
       /\ plugin # None => Render([t EXCEPT !.page.selected = plugin.id], [tasks[k].arg.url EXCEPT !.id = plugin.id],
                                  ToRefresh(k, FALSE))
  BY <1>3, <1>8, <1>9 DEF Saved
<1>11. /\ GoodUi(b) /\ b.page = ui.page /\ b.functions = ui.functions /\ b.details.loading = ui.details.loading
       /\ b.details.confirm = ui.details.confirm
       /\ tasks[k].live => b.details.plugin = plugin /\ ~b.details.open
  <2>1. a = [ui EXCEPT !.details.plugin = plugin, !.details.open = FALSE] /\ FALSE \in BOOLEAN
    BY <1>8
  <2>2. GoodUi(a) /\ DetailsBecome(ui, a, plugin, ui.details.loading, FALSE, ui.details.form, ui.details.confirm)
    BY <1>2, <1>7, <2>1, DetailsTwoSet
  <2>3. b = IF tasks[k].live THEN a ELSE ui
    BY <1>8 DEF Show
  <2>4. QED
    BY <1>2, <2>2, <2>3 DEF DetailsBecome
<1>12. x \in BOOLEAN /\ (tasks[k].arg.creating = ui.page.temp => ~x)
  BY <1>8, <1>11
<1>13. GoodUi(t) /\ PageBecomes(b, t, b.page.plugins, TRUE, b.page.selected, b.page.tab, x)
  <2>1. TRUE \in BOOLEAN
    OBVIOUS
  <2>2. QED
    BY <1>9, <1>11, <1>12, <2>1, PageTwoSet
<1>14. t.details = b.details /\ t.functions = ui.functions /\ t.page.tab = ui.page.tab /\ t.page.temp = x
  BY <1>11, <1>13 DEF PageBecomes
<1>15. ASSUME ~hasty, ~failed
       PROVE  /\ ui.page.tab = "details" /\ ~t.details.open /\ t.details.plugin = plugin /\ t.details.confirm = None
              /\ ~t.page.temp /\ tasks[k].arg.url = url /\ url.tab \in {None, "details"}
              /\ plugin # None => /\ plugin.id \in DOMAIN db.plugins
                                  /\ plugin = [id |-> plugin.id, text |-> db.plugins[plugin.id]]
  <2>1. Calm(db, url, ui, tasks, forms)
    BY <1>2, <1>15
  <2>2. ui.page.tab = "details" /\ tasks[k].live /\ \A j \in Slots \ {k} : tasks[j].at = "idle"
    BY <1>2, <2>1, OneWriter
  <2>3. tasks[k].arg.creating = ui.page.temp /\ tasks[k].arg.url = url /\ ui.details.open
    BY <1>2, <2>1 DEF Calm, Relies
  <2>4. ui.details.confirm = None
    BY <1>2, <2>1, <2>2, <2>3 DEF Calm, Asked
  <2>5. ~t.page.temp
    BY <1>12, <1>14, <2>3
  <2>6. url.tab \in {None, "details"}
    BY <2>1, <2>2 DEF Calm
  <2>7. ASSUME plugin # None PROVE plugin.id \in DOMAIN db.plugins /\ plugin = [id |-> plugin.id, text |-> db.plugins[plugin.id]]
    <3>1. StillSo(db, r, tasks[k].got[r]) /\ r[1] = "createPlugin"
      BY <1>2, <1>7, <1>15, <2>7
    <3>2. QED
      BY <1>4, <3>1 DEF StillSo, Data
  <2>8. QED
    BY <1>11, <1>14, <2>2, <2>3, <2>4, <2>5, <2>6, <2>7
<1>16. t.details.loading = ui.details.loading /\ FALSE \in BOOLEAN /\ "save" \in {"save", "delete"}
  BY <1>11, <1>14
<1>17. CASE plugin = None
  <2>1. t = FromUrl(t, url)
    BY DEF FromUrl
  <2>2. Render(t, url, ToRefresh(k, FALSE))
    BY <1>10, <1>17
  <2>3. ASSUME ~hasty, ~failed
        PROVE  /\ url.tab \in {None, "details"} /\ t.page.tab = "details" /\ ~t.page.temp
               /\ ~t.details.open /\ t.details.confirm = None /\ t.details.plugin = None
    BY <1>14, <1>15, <1>17, <2>3
  <2>4. QED
    BY <1>1, <1>2, <1>13, <1>14, <1>16, <2>1, <2>2, <2>3, RefreshKeeps
<1>18. CASE plugin # None
  <2>1. PICK s0, u : s0 = [t EXCEPT !.page.selected = plugin.id] /\ u = [tasks[k].arg.url EXCEPT !.id = plugin.id]
    OBVIOUS
  <2>2. Render(s0, u, ToRefresh(k, FALSE))
    BY <1>10, <1>18, <2>1
  <2>3. plugin.id \in Plugins /\ plugin.id \in Ids /\ plugin.id # None
    BY <1>7, <1>18, PluginsAssumption DEF GoodPlugin, Ids
  <2>4. u \in Urls /\ u.id = plugin.id /\ u.tab = tasks[k].arg.url.tab
    BY <1>5, <2>1, <2>3 DEF Urls
  <2>5. GoodUi(s0) /\ PageBecomes(t, s0, t.page.plugins, t.page.loading, plugin.id, t.page.tab, t.page.temp)
    <3>1. s0 = [t EXCEPT !.page.selected = plugin.id]
      BY <2>1
    <3>2. QED
      BY <1>13, <2>3, <3>1, PageSelectedSet
  <2>6. s0.details = t.details /\ s0.functions = ui.functions /\ s0.page.selected = plugin.id
        /\ s0.page.tab = t.page.tab /\ s0.page.temp = t.page.temp
    BY <1>14, <2>5 DEF PageBecomes
  <2>7. PICK s : s = FromUrl(s0, u)
    OBVIOUS
  <2>8. s.details = t.details /\ s.page.temp = t.page.temp /\ s.page.selected = plugin.id
    BY <2>3, <2>4, <2>5, <2>6, <2>7, FromUrlParts
  <2>9. ASSUME u.tab \in {None, "details"}, t.page.tab = "details" PROVE s.page.tab = "details"
    BY <2>4, <2>5, <2>6, <2>7, <2>9, FromUrlParts
  <2>10. ASSUME ~hasty, ~failed
         PROVE  /\ u.tab \in {None, "details"} /\ s.page.tab = "details" /\ ~s.page.temp
                /\ ~s.details.open /\ s.details.confirm = None
                /\ s.page.selected \in DOMAIN db.plugins
                /\ s.details.plugin = [id |-> s.page.selected, text |-> db.plugins[s.page.selected]]
    BY <1>14, <1>15, <1>18, <2>4, <2>8, <2>9, <2>10
  <2>11. s0.details.loading = ui.details.loading
    BY <1>16, <2>6
  <2>12. QED
    BY <1>1, <1>16, <2>2, <2>4, <2>5, <2>6, <2>7, <2>10, <2>11, RefreshKeeps
<1>19. QED
  BY <1>17, <1>18

\* A handler of the tab of functions that goes on with the functions.
LEMMA ToFunctionsKeeps ==
    ASSUME PageInv, NEW k \in Slots, NEW at \in {"addFunction", "deleteFunction"}, Answered(k, at), Stay,
           NEW then \in {"closeForm", "unconfirm"}, at = "addFunction" => then = "closeForm",
           Render(Show(k, [ui EXCEPT !.functions.loading = TRUE]), url, ToFunctions(k, then))
    PROVE  PageInv'
<1>0. PICK s, ts : s = Show(k, [ui EXCEPT !.functions.loading = TRUE]) /\ ts = ToFunctions(k, then)
  OBVIOUS
<1>1. /\ GoodUi(ui) /\ GoodTasks(tasks) /\ GoodDb(db) /\ forms \in Nat /\ Spins(ui, tasks) /\ tasks[k].at = at
      /\ tasks[k].live \in BOOLEAN /\ Asks(at, tasks[k].arg, DOMAIN tasks[k].got)
      /\ ~hasty /\ ~failed => Calm(db, url, ui, tasks, forms)
  BY HandlerIs
<1>2. Render(s, url, ts)
  BY <1>0
<1>3. /\ GoodUi(s) /\ s.page = ui.page /\ s.details = ui.details
      /\ s.functions.list = ui.functions.list /\ s.functions.form = ui.functions.form
      /\ tasks[k].live => s.functions.loading
      /\ ~tasks[k].live => s = ui
  <2>1. s = Show(k, [ui EXCEPT !.functions.loading = TRUE]) /\ TRUE \in BOOLEAN
    BY <1>0
  <2>2. QED
    BY <1>1, <2>1, ShowFunctions
<1>4. /\ GoodTasks(ts) /\ \A j \in Slots \ {k} : ts[j] = tasks[j]
      /\ ~tasks[k].live => ts[k] = Idle
      /\ tasks[k].live => /\ ts[k].at = "functions" /\ ts[k].live /\ DOMAIN ts[k].got = {}
                          /\ ts[k].arg.plugin = tasks[k].arg.plugin /\ ts[k].arg.then = then
  <2>1. CASE ~tasks[k].live
    <3>1. ts = End(tasks, k)
      BY <1>0, <2>1 DEF ToFunctions
    <3>2. QED
      BY <1>1, <2>1, <3>1, EndIs
  <2>2. CASE tasks[k].live
    <3>1. PICK p, arg : p = tasks[k].arg.plugin /\ arg = [plugin |-> p, then |-> then]
      OBVIOUS
    <3>2. p \in Plugins
      BY <1>1, <3>1 DEF Asks
    <3>3. PICK t : t = Handler("functions", arg, {getFunctionsForPlugin(p)}, TRUE)
      OBVIOUS
    <3>4. Asks("functions", arg, {getFunctionsForPlugin(p)}) /\ TRUE \in BOOLEAN
      BY <3>1, <3>2 DEF Asks
    <3>5. GoodTask(t)
      BY <3>3, <3>4, NewTask
    <3>6. ts = [tasks EXCEPT ![k] = fetchFunctions(p, then)]
      BY <1>0, <2>2, <3>1 DEF ToFunctions
    <3>7. fetchFunctions(p, then) = t
      BY <3>1, <3>3, Zenon DEF fetchFunctions, Task, Handler
    <3>8. ts = [tasks EXCEPT ![k] = t]
      BY <3>6, <3>7
    <3>9. GoodTasks(ts) /\ ts[k] = t /\ \A j \in Slots \ {k} : ts[j] = tasks[j]
      <4>1. GoodTasks(tasks)
        BY <1>1
      <4>2. GoodTask(t)
        BY <3>5
      <4>3. LET new == [tasks EXCEPT ![k] = t]
            IN  GoodTasks(new) /\ new[k] = t /\ \A j \in Slots \ {k} : new[j] = tasks[j]
        BY <4>1, <4>2, ThenIs
      <4>4. QED
        BY <4>3, <3>8
    <3>10. DOMAIN <<>> = {}
      OBVIOUS
    <3>11. t.at = "functions" /\ t.live /\ DOMAIN t.got = {} /\ t.arg.plugin = p /\ t.arg.then = then
      BY <3>1, <3>3, <3>10 DEF Handler
    <3>12. QED
      BY <2>2, <3>1, <3>9, <3>11
  <2>3. QED
    BY <1>1, <2>1, <2>2
<1>5. /\ tasks[k].at \notin ListPlaces /\ tasks[k].at \notin DetailsPlaces /\ tasks[k].at \in FunctionPlaces \ {"saveEdit"}
      /\ tasks[k].at # "functions" /\ "functions" \in FunctionPlaces
  BY <1>1 DEF ListPlaces, DetailsPlaces, FunctionPlaces
<1>6. Spins(s, ts)
  BY <1>1, <1>3, <1>4, <1>5, SpinsOn
<1>7. ASSUME ~hasty, ~failed PROVE Calm(db, url, s, ts, forms)
  <2>1. Calm(db, url, ui, tasks, forms)
    BY <1>1, <1>7
  <2>2. /\ ui.page.tab = "functions" /\ tasks[k].live
        /\ tasks[k].arg.plugin = ui.page.selected
        /\ \A j \in Slots \ {k} : tasks[j].at \in {"idle", "saveEdit"}
    BY <1>1, <1>5, <2>1, OneFunctionTask
  <2>3. /\ ts[k].at = "functions" /\ ts[k].live /\ DOMAIN ts[k].got = {}
        /\ ts[k].arg.plugin = ui.page.selected /\ ts[k].arg.then = then
        /\ \A j \in Slots \ {k} : ts[j].at \in {"idle", "saveEdit"}
    BY <1>4, <2>2
  <2>4. Alone(s, ts)
    <3>1. "functions" \notin Writers /\ "idle" \notin Writers \cup FunctionPlaces /\ "saveEdit" \notin Writers
          /\ "functions" \in PlacesOf("functions")
      BY DEF Writers, FunctionPlaces, PlacesOf
    <3>2. \A j \in Slots : ts[j].at # "idle" => ts[j].at \in PlacesOf(s.page.tab) /\ ts[j].live
      BY <1>3, <1>4, <2>1, <2>2, <2>3, <3>1 DEF Calm, Alone
    <3>3. QED
      BY <2>3, <3>1, <3>2 DEF Alone
  <2>5. AnswersHold(db, ts)
    BY <1>4, <2>1, <2>3 DEF Calm, AnswersHold
  <2>6. ListHolds(db, s, ts)
    BY <1>1, <1>3, <2>1, <2>2 DEF Calm, ListHolds
  <2>7. DetailsHold(db, s, ts) /\ FunctionsHold(db, s, ts)
    BY <1>3, <1>5, <2>2, <2>3 DEF DetailsHold, FunctionsHold
  <2>8. ASSUME NEW j \in Slots PROVE Relies(url, s, ts[j])
    BY <1>3, <2>2, <2>3 DEF Relies, FunctionPlaces
  <2>9. Asked(s, ts)
    BY <1>3, <2>2 DEF Asked
  <2>10. Counted(db, s, ts, forms)
    <3>1. NewPlugin(s, ts) <=> NewPlugin(ui, tasks)
      BY <1>1, <1>3, <2>2, <2>3 DEF NewPlugin
    <3>2. NewFunction(s, ts) => NewFunction(ui, tasks)
      <4>1. CASE then = "closeForm"
        BY <2>3, <4>1 DEF NewFunction
      <4>2. CASE at = "deleteFunction"
        BY <1>1, <1>3, <2>2, <4>2 DEF NewFunction
      <4>3. QED
        BY <4>1, <4>2
    <3>3. PICK a, b, y : a = One(NewFunction(s, ts)) /\ b = One(NewFunction(ui, tasks)) /\ y = One(NewPlugin(ui, tasks))
      OBVIOUS
    <3>4. One(NewPlugin(s, ts)) = y /\ a \in 0 .. 1 /\ b \in 0 .. 1 /\ y \in 0 .. 1 /\ a <= b
      BY <3>1, <3>2, <3>3 DEF One
    <3>5. IsFiniteSet(db.given) /\ Cardinality(db.given) \in Nat /\ Cardinality(Initially) \in Nat
      BY <2>1, FS_CardinalityType, PluginsAssumption DEF Calm, Counted
    <3>6. Cardinality(db.given) + y + b <= Cardinality(Initially) + 1 + forms
      BY <2>1, <3>3 DEF Calm, Counted
    <3>7. Cardinality(db.given) + y + a <= Cardinality(Initially) + 1 + forms
      BY <1>1, <3>4, <3>5, <3>6
    <3>8. QED
      BY <3>3, <3>4, <3>5, <3>7 DEF Counted
  <2>11. url.tab \in {None, s.page.tab}
    BY <1>3, <2>1 DEF Calm
  <2>12. QED
    BY <2>4, <2>5, <2>6, <2>7, <2>8, <2>9, <2>10, <2>11 DEF Calm
<1>8. GoodDb(db') /\ forms' \in Nat /\ (~hasty' /\ ~failed' => Calm(db', url, s, ts, forms')) /\ (s.page.temp => ui.page.temp)
  BY <1>1, <1>3, <1>7 DEF Stay
<1>9. QED
  BY <1>2, <1>3, <1>4, <1>6, <1>8, HereKeeps

LEMMA FunctionAddedKeeps ==
    ASSUME PageInv, NEW k \in Slots, FunctionAdded(k) \/ RecordDeleted(k)
    PROVE  PageInv'
<1>1. CASE FunctionAdded(k) /\ ~Threw(tasks[k])
  BY <1>1, ToFunctionsKeeps DEF FunctionAdded
<1>2. CASE RecordDeleted(k)
  BY <1>2, ToFunctionsKeeps DEF RecordDeleted
<1>3. CASE FunctionAdded(k) /\ Threw(tasks[k])
  <2>0. PICK s : s = Show(k, [ui EXCEPT !.functions.loading = FALSE])
    OBVIOUS
  <2>1. Answered(k, "addFunction") /\ Stay /\ Render(s, url, End(tasks, k))
    BY <1>3, <2>0 DEF FunctionAdded
  <2>2. /\ GoodUi(ui) /\ tasks[k].at = "addFunction" /\ tasks[k].live \in BOOLEAN
        /\ Asks("addFunction", tasks[k].arg, DOMAIN tasks[k].got)
    BY <2>1, HandlerIs
  <2>3. /\ GoodUi(s) /\ s.page = ui.page /\ s.details = ui.details
        /\ tasks[k].live => ~s.functions.loading
        /\ ~tasks[k].live => s = ui
    BY <2>0, <2>2, ShowFunctions
  <2>4. \A r \in DOMAIN tasks[k].got : r[1] # "deleteFunction"
    BY <2>2 DEF Asks, createFunctionForPlugin
  <2>5. tasks[k].at \notin DetailsPlaces /\ tasks[k].at \in FunctionPlaces /\ "addFunction" \notin ListPlaces
    BY <2>2 DEF DetailsPlaces, FunctionPlaces, ListPlaces
  <2>6. QED
    BY <1>3, <2>1, <2>3, <2>4, <2>5, FailedKeeps
<1>4. QED
  BY <1>1, <1>2, <1>3

LEMMA FunctionRemovedKeeps ==
    ASSUME PageInv, NEW k \in Slots, FunctionRemoved(k)
    PROVE  PageInv'
<1>1. Answered(k, "removeFunction") /\ Stay
  BY DEF FunctionRemoved
<1>2. /\ GoodUi(ui) /\ GoodTasks(tasks) /\ GoodDb(db) /\ forms \in Nat /\ Spins(ui, tasks)
      /\ tasks[k].at = "removeFunction" /\ tasks[k].live \in BOOLEAN
      /\ Asks("removeFunction", tasks[k].arg, DOMAIN tasks[k].got)
      /\ ~hasty /\ ~failed => Calm(db, url, ui, tasks, forms)
  BY <1>1, HandlerIs
<1>3. tasks[k].at \notin ListPlaces /\ tasks[k].at \notin DetailsPlaces /\ tasks[k].at \in FunctionPlaces \ {"saveEdit"}
  BY <1>2 DEF ListPlaces, DetailsPlaces, FunctionPlaces
<1>4. CASE Threw(tasks[k])
  <2>0. PICK s : s = Show(k, [ui EXCEPT !.functions.loading = FALSE, !.functions.confirm = None])
    OBVIOUS
  <2>1. Render(s, url, End(tasks, k))
    BY <1>4, <2>0 DEF FunctionRemoved
  <2>2. /\ GoodUi(s) /\ s.page = ui.page /\ s.details = ui.details
        /\ tasks[k].live => ~s.functions.loading
        /\ ~tasks[k].live => s = ui
    <3>1. PICK a : a = [ui EXCEPT !.functions.loading = FALSE, !.functions.confirm = None]
      OBVIOUS
    <3>2. PICK f : f = [ui.functions EXCEPT !.loading = FALSE, !.confirm = None]
      OBVIOUS
    <3>3. f \in FunctionsType /\ ~f.loading
      BY <1>2, <3>2, PartsAre DEF FunctionsType
    <3>4. a = [ui EXCEPT !.functions = f]
      BY <3>1, <3>2
    <3>5. GoodUi(a) /\ a.functions = f /\ a.page = ui.page /\ a.details = ui.details
      BY <1>2, <3>3, <3>4, PartSet
    <3>6. s = IF tasks[k].live THEN a ELSE ui
      BY <2>0, <3>1 DEF Show
    <3>7. QED
      BY <1>2, <3>3, <3>5, <3>6
  <2>3. \A r \in DOMAIN tasks[k].got : r[1] # "deleteFunction"
    <3>1. DOMAIN tasks[k].got = {removeFunctionFromPlugin(tasks[k].arg.plugin, tasks[k].arg.function)}
      BY <1>2 DEF Asks
    <3>2. QED
      BY <3>1 DEF removeFunctionFromPlugin
  <2>4. "removeFunction" \notin ListPlaces
    BY DEF ListPlaces
  <2>5. QED
    BY <1>1, <1>3, <1>4, <2>1, <2>2, <2>3, <2>4, FailedKeeps
<1>5. CASE ~Threw(tasks[k])
  <2>0. PICK q, t, ts : /\ q = {deleteFunction(tasks[k].arg.function)}
                        /\ t = Handler("deleteFunction", tasks[k].arg, q, tasks[k].live)
                        /\ ts = [tasks EXCEPT ![k] = t]
    OBVIOUS
  <2>1. Render(ui, url, ts)
    <3>1. tasks[k].at # "idle"
      BY <1>2
    <3>2. Goto(tasks, k, "deleteFunction", q) = [tasks EXCEPT ![k] = Handler("deleteFunction", tasks[k].arg, q, tasks[k].live)]
      BY <1>2, <3>1, GoesOn
    <3>3. Goto(tasks, k, "deleteFunction", q) = ts
      BY <2>0, <3>2, Zenon
    <3>4. QED
      BY <1>5, <2>0, <3>3 DEF FunctionRemoved
  <2>2. GoodTask(t) /\ t.at = "deleteFunction" /\ t.arg = tasks[k].arg /\ t.live = tasks[k].live /\ DOMAIN t.got = {}
    <3>1. Asks("deleteFunction", tasks[k].arg, q)
      <4>1. tasks[k].arg \in [plugin : Plugins, function : Functions \cup {None}]
        BY <1>2 DEF Asks
      <4>2. QED
        BY <2>0, <4>1 DEF Asks
    <3>2. t = Handler("deleteFunction", tasks[k].arg, q, tasks[k].live)
      BY <2>0
    <3>3. GoodTask(t)
      BY <1>2, <3>1, <3>2, NewTask
    <3>4. DOMAIN <<>> = {}
      OBVIOUS
    <3>5. QED
      BY <3>2, <3>3, <3>4 DEF Handler
  <2>3. GoodTasks(ts) /\ ts[k] = t /\ \A j \in Slots \ {k} : ts[j] = tasks[j]
    <3>1. ts = [tasks EXCEPT ![k] = t]
      BY <2>0
    <3>2. QED
      <4>1. GoodTasks(tasks)
        BY <1>2
      <4>2. GoodTask(t)
        BY <2>2
      <4>3. LET new == [tasks EXCEPT ![k] = t]
            IN  GoodTasks(new) /\ new[k] = t /\ \A j \in Slots \ {k} : new[j] = tasks[j]
        BY <4>1, <4>2, ThenIs
      <4>4. QED
        BY <4>3, <3>1
  <2>4. "deleteFunction" \in FunctionPlaces /\ "deleteFunction" \in Writers /\ "idle" \notin Writers \cup FunctionPlaces
        /\ "saveEdit" \notin Writers
    BY DEF FunctionPlaces, Writers
  <2>5. Spins(ui, ts)
    BY <1>2, <1>3, <2>2, <2>3, <2>4, SpinsOn
  <2>6. ASSUME ~hasty, ~failed PROVE Calm(db, url, ui, ts, forms)
    <3>1. Calm(db, url, ui, tasks, forms)
      BY <1>2, <2>6
    <3>2. /\ ui.page.tab = "functions" /\ tasks[k].live /\ ui.functions.loading
          /\ tasks[k].arg.plugin = ui.page.selected
          /\ \A j \in Slots \ {k} : tasks[j].at \in {"idle", "saveEdit"}
      BY <1>2, <1>3, <3>1, OneFunctionTask
    <3>3. Alone(ui, ts)
      <4>1. ASSUME NEW j \in Slots, ts[j].at # "idle" PROVE ts[j].at \in PlacesOf(ui.page.tab) /\ ts[j].live
        <5>1. ts[k].at \in PlacesOf(ui.page.tab) /\ ts[k].live
          BY <2>2, <2>3, <2>4, <3>2 DEF PlacesOf
        <5>2. j # k => ts[j] = tasks[j]
          BY <2>3
        <5>3. tasks[j].at # "idle" => tasks[j].at \in PlacesOf(ui.page.tab) /\ tasks[j].live
          BY <3>1 DEF Calm, Alone
        <5>4. QED
          BY <4>1, <5>1, <5>2, <5>3
      <4>2. QED
        BY <2>3, <2>4, <3>2, <4>1 DEF Alone
    <3>4. AnswersHold(db, ts)
      BY <2>2, <2>3, <3>1 DEF Calm, AnswersHold
    <3>5. ListHolds(db, ui, ts)
      BY <1>2, <3>1, <3>2 DEF Calm, ListHolds
    <3>6. DetailsHold(db, ui, ts) /\ FunctionsHold(db, ui, ts)
      BY <2>2, <2>3, <2>4, <3>2 DEF DetailsHold, FunctionsHold
    <3>7. ASSUME NEW j \in Slots PROVE Relies(url, ui, ts[j])
      BY <2>2, <2>3, <3>2 DEF Relies, FunctionPlaces
    <3>8. Asked(ui, ts)
      BY <3>2 DEF Asked
    <3>9. Counted(db, ui, ts, forms)
      <4>1. NewPlugin(ui, ts) <=> NewPlugin(ui, tasks)
        BY <1>2, <2>2, <2>3, <3>2 DEF NewPlugin
      <4>2. NewFunction(ui, ts) <=> NewFunction(ui, tasks)
        BY <1>2, <2>2, <2>3, <3>2 DEF NewFunction
      <4>3. One(NewPlugin(ui, ts)) = One(NewPlugin(ui, tasks)) /\ One(NewFunction(ui, ts)) = One(NewFunction(ui, tasks))
        BY <4>1, <4>2 DEF One
      <4>4. QED
        BY <3>1, <4>3 DEF Calm, Counted
    <3>10. QED
      BY <3>1, <3>3, <3>4, <3>5, <3>6, <3>7, <3>8, <3>9 DEF Calm
  <2>7. GoodDb(db') /\ forms' \in Nat /\ (~hasty' /\ ~failed' => Calm(db', url, ui, ts, forms'))
    BY <1>1, <1>2, <2>6 DEF Stay
  <2>8. QED
    BY <1>2, <2>1, <2>3, <2>5, <2>7, HereKeeps
<1>6. QED
  BY <1>4, <1>5

-----------------------------------------------------------------------------
(* The server.                                                             *)

\* The requests that read, and those that write.
Reads(r) == r = getAllPlugins \/ \E p \in Plugins : r = getPluginById(p) \/ r = getFunctionsForPlugin(p)
Writes(at, arg, r) ==
    \/ at = "save" /\ \E text \in Texts : r = createPlugin(text)
    \/ at = "save" /\ \E text \in Texts, p \in Plugins : Meant(p, text) /\ r = updatePlugin(p, text)
    \/ at = "delete" /\ \E p \in Plugins : r = deletePlugin(p)
    \/ at = "addFunction" /\ arg.plugin \in Plugins /\ r = createFunctionForPlugin(arg.plugin)
    \/ at = "saveEdit" /\ r = updateFunction(arg.function)
    \/ at = "removeFunction" /\ r = removeFunctionFromPlugin(arg.plugin, arg.function)
    \/ at = "deleteFunction" /\ r = deleteFunction(arg.function)

\* A handler waits for one request at a time.
LEMMA RequestIs ==
    ASSUME NEW at, NEW arg, NEW q, Asks(at, arg, q), NEW r \in q
    PROVE  (Reads(r) \/ Writes(at, arg, r)) /\ q = {r}
<1>1. CASE at = "plugins" \/ at = "refresh"
  BY <1>1 DEF Asks, Reads
<1>2. CASE at = "details" \/ at = "functions"
  BY <1>2 DEF Asks, Reads
<1>3. CASE at = "save"
  BY <1>3 DEF Asks, Writes
<1>4. CASE at = "delete"
  BY <1>4 DEF Asks, Writes
<1>5. CASE at = "addFunction" \/ at = "saveEdit"
  BY <1>5 DEF Asks, Writes
<1>6. CASE at = "removeFunction" \/ at = "deleteFunction"
  BY <1>6 DEF Asks, Writes
<1>7. at \in Places
  BY AsksIs
<1>8. QED
  BY <1>1, <1>2, <1>3, <1>4, <1>5, <1>6, <1>7 DEF Places, DetailsPlaces, FunctionPlaces

\* The words of each request.
LEMMA WordIs ==
    /\ getAllPlugins[1] = "getAllPlugins"
    /\ \A text : createPlugin(text)[1] = "createPlugin" /\ createPlugin(text)[2] = text
    /\ \A p, text : /\ updatePlugin(p, text)[1] = "updatePlugin"
                    /\ updatePlugin(p, text)[2] = p /\ updatePlugin(p, text)[3] = text
    /\ \A p : deletePlugin(p)[1] = "deletePlugin" /\ deletePlugin(p)[2] = p
    /\ \A p : getPluginById(p)[1] = "getPluginById" /\ getPluginById(p)[2] = p
    /\ \A p : getFunctionsForPlugin(p)[1] = "getFunctionsForPlugin" /\ getFunctionsForPlugin(p)[2] = p
    /\ \A p : createFunctionForPlugin(p)[1] = "createFunctionForPlugin" /\ createFunctionForPlugin(p)[2] = p
    /\ \A f : updateFunction(f)[1] = "updateFunction" /\ updateFunction(f)[2] = f
    /\ \A p, f : /\ removeFunctionFromPlugin(p, f)[1] = "removeFunctionFromPlugin"
                 /\ removeFunctionFromPlugin(p, f)[2] = p /\ removeFunctionFromPlugin(p, f)[3] = f
    /\ \A f : deleteFunction(f)[1] = "deleteFunction" /\ deleteFunction(f)[2] = f
  BY DEF getAllPlugins, createPlugin, updatePlugin, deletePlugin, getPluginById, getFunctionsForPlugin,
         createFunctionForPlugin, updateFunction, removeFunctionFromPlugin, deleteFunction

\* What there is in the records.
LEMMA RecordsAre ==
    ASSUME GoodDb(db)
    PROVE  /\ db = [plugins |-> db.plugins, functions |-> db.functions, given |-> db.given]
           /\ db.plugins \in Partial(Plugins, Texts) /\ db.functions \in Partial(Functions, Ids)
           /\ db.given \in SUBSET (Plugins \cup Functions)
           /\ DOMAIN db.plugins \subseteq Plugins /\ \A p \in DOMAIN db.plugins : db.plugins[p] \in Texts /\ Meant(p, db.plugins[p])
           /\ DOMAIN db.functions \subseteq Functions
           /\ Initially \cup DOMAIN db.plugins \subseteq db.given
<1>1. db \in [plugins : Partial(Plugins, Texts), functions : Partial(Functions, Ids), given : SUBSET (Plugins \cup Functions)]
  BY DEF GoodDb
<1>2. db.plugins \in Partial(Plugins, Texts) /\ db.functions \in Partial(Functions, Ids)
  BY <1>1
<1>3. QED
  BY <1>1, <1>2, PartialIs DEF GoodDb

\* Records that have kept their shape.
LEMMA StaysGood ==
    ASSUME GoodDb(db), NEW plugins, NEW functions, NEW given, NEW d,
           d = [plugins |-> plugins, functions |-> functions, given |-> given],
           plugins \in Partial(Plugins, Texts), functions \in Partial(Functions, Ids),
           given \in SUBSET (Plugins \cup Functions), db.given \cup DOMAIN plugins \subseteq given,
           \A p \in DOMAIN plugins : Meant(p, plugins[p])
    PROVE  GoodDb(d)
  BY DEF GoodDb

\* What the server answers to a request that reads.
LEMMA AnswersAre ==
    ASSUME NEW r, Reads(r), GoodDb(db), Accepts(r)
    PROVE  Effect(r) = db /\ Tells(r, Returns(r)) /\ StillSo(db, r, Ok(Returns(r)))
<1>1. \A data : Ok(data).ok /\ Ok(data).data = data
  BY DEF Ok
<1>2. CASE r = getAllPlugins
  <2>1. r[1] = "getAllPlugins"
    BY <1>2, WordIs
  <2>2. Returns(r) = db.plugins /\ Effect(r) = db
    BY <2>1 DEF Returns, Effect
  <2>3. QED
    BY <1>1, <2>1, <2>2, RecordsAre DEF Tells, StillSo
<1>3. ASSUME NEW p \in Plugins, r = getPluginById(p)
      PROVE  Effect(r) = db /\ Tells(r, Returns(r)) /\ StillSo(db, r, Ok(Returns(r)))
  <2>1. r[1] = "getPluginById" /\ r[2] = p
    BY <1>3, WordIs
  <2>2. p \in DOMAIN db.plugins
    BY <2>1 DEF Accepts, Existing
  <2>3. PICK x : x = [id |-> p, text |-> db.plugins[p]]
    OBVIOUS
  <2>4. Returns(r) = x /\ Effect(r) = db
    BY <2>1, <2>3 DEF Returns, Effect
  <2>5. GoodPlugin(x) /\ x.id = p
    BY <2>2, <2>3, RecordsAre DEF GoodPlugin
  <2>6. QED
    BY <1>1, <2>1, <2>2, <2>3, <2>4, <2>5 DEF Tells, StillSo
<1>4. ASSUME NEW p \in Plugins, r = getFunctionsForPlugin(p)
      PROVE  Effect(r) = db /\ Tells(r, Returns(r)) /\ StillSo(db, r, Ok(Returns(r)))
  <2>1. r[1] = "getFunctionsForPlugin" /\ r[2] = p
    BY <1>4, WordIs
  <2>2. Returns(r) = FunctionsIn(db, p) /\ Effect(r) = db
    BY <2>1 DEF Returns, Effect, FunctionsOf, FunctionsIn
  <2>3. FunctionsIn(db, p) \subseteq Functions
    BY RecordsAre DEF FunctionsIn
  <2>4. QED
    BY <1>1, <2>1, <2>2, <2>3 DEF Tells, StillSo
<1>5. QED
  BY <1>2, <1>3, <1>4 DEF Reads

\* What a request that writes does to the records.
Written(at, r, d) ==
    /\ GoodDb(d) /\ Tells(r, Returns(r)) /\ StillSo(d, r, Ok(Returns(r)))
    /\ \/ at = "save" /\ r[1] = "createPlugin" /\ \E p : p \notin db.given /\ d.given = db.given \cup {p}
       \/ at \in {"save", "delete"} /\ r[1] # "createPlugin" /\ d.given = db.given
       \/ at = "addFunction" /\ d.plugins = db.plugins /\ \E f : f \notin db.given /\ d.given = db.given \cup {f}
       \/ at \in {"removeFunction", "deleteFunction"} /\ d.plugins = db.plugins /\ d.given = db.given

\* A new id was never given before.
LEMMA FreshIs ==
    ASSUME NEW ids, ~(ids \subseteq db.given)
    PROVE  Fresh(ids) \in ids /\ Fresh(ids) \notin db.given
  BY DEF Fresh

\* A plugin is created.
LEMMA CreateIs ==
    ASSUME GoodDb(db), NEW text \in Texts, NEW r, r = createPlugin(text), HasId(r), NEW d, d = Effect(r)
    PROVE  Written("save", r, d)
<1>1. r[1] = "createPlugin" /\ r[2] = text
  BY WordIs
<1>2. PICK new : new = Fresh(Plugins)
  OBVIOUS
<1>3. new \in Plugins /\ new \notin db.given
  BY <1>1, <1>2, FreshIs DEF HasId
<1>4. PICK plugins, given : plugins = With(db.plugins, new, text) /\ given = db.given \cup {new}
  OBVIOUS
<1>5. d = [db EXCEPT !.plugins = plugins, !.given = given]
  BY <1>1, <1>2, <1>4, Zenon DEF Effect
<1>6. d = [plugins |-> plugins, functions |-> db.functions, given |-> given]
  BY <1>5, RecordsAre
<1>7. plugins \in Partial(Plugins, Texts)
  BY <1>3, <1>4, RecordsAre, PartialKept
<1>8. DOMAIN plugins = DOMAIN db.plugins \cup {new} /\ \A p \in DOMAIN plugins : plugins[p] = IF p = new THEN text ELSE db.plugins[p]
  BY <1>4 DEF With
<1>9. new \notin Initially /\ new \notin DOMAIN db.plugins
  BY <1>3, RecordsAre
<1>10. \A p \in DOMAIN plugins : Meant(p, plugins[p])
  BY <1>8, <1>9, RecordsAre DEF Meant
<1>11. GoodDb(d)
  <2>1. given \in SUBSET (Plugins \cup Functions) /\ db.given \cup DOMAIN plugins \subseteq given
    BY <1>3, <1>4, <1>8, RecordsAre
  <2>2. QED
    BY <1>6, <1>7, <1>10, <2>1, RecordsAre, StaysGood
<1>12. Returns(r) = [id |-> new, text |-> text]
  BY <1>1, <1>2 DEF Returns
<1>13. Tells(r, Returns(r))
  BY <1>1, <1>3, <1>9, <1>12 DEF Tells, GoodPlugin, Meant
<1>14. StillSo(d, r, Ok(Returns(r)))
  <2>1. d.plugins[new] = text /\ new \in DOMAIN d.plugins
    BY <1>6, <1>8
  <2>2. PICK a : a = Ok(Returns(r)) /\ a.ok /\ a.data = [id |-> new, text |-> text]
    <3>1. \A data : Ok(data).ok /\ Ok(data).data = data
      BY DEF Ok
    <3>2. QED
      BY <1>12, <3>1
  <2>3. a.data.id = new /\ a.data = [id |-> a.data.id, text |-> d.plugins[a.data.id]]
    BY <2>1, <2>2
  <2>4. StillSo(d, r, a)
    BY <1>1, <2>1, <2>2, <2>3 DEF StillSo
  <2>5. QED
    BY <2>2, <2>4
<1>15. d.given = db.given \cup {new}
  BY <1>4, <1>6
<1>16. QED
  BY <1>1, <1>3, <1>11, <1>13, <1>14, <1>15 DEF Written

\* What is answered to a request without data.
LEMMA NothingIs ==
    ASSUME NEW r, r[1] \in {"updatePlugin", "deletePlugin", "createFunctionForPlugin", "removeFunctionFromPlugin", "deleteFunction"},
           NEW d
    PROVE  Tells(r, Returns(r)) /\ StillSo(d, r, Ok(Returns(r)))
<1>1. Returns(r) = None
  BY DEF Returns
<1>2. Ok(Returns(r)).ok
  BY DEF Ok
<1>3. QED
  BY <1>1, <1>2 DEF Tells, StillSo

\* A plugin is changed.
LEMMA UpdateIs ==
    ASSUME GoodDb(db), NEW p, NEW text \in Texts, Meant(p, text), NEW r, r = updatePlugin(p, text), Accepts(r),
           NEW d, d = Effect(r)
    PROVE  Written("save", r, d)
<1>1. r[1] = "updatePlugin" /\ r[2] = p /\ r[3] = text
  BY WordIs
<1>2. p \in DOMAIN db.plugins /\ p \in Plugins
  BY <1>1, RecordsAre DEF Accepts, Existing
<1>3. PICK plugins : plugins = [db.plugins EXCEPT ![p] = text]
  OBVIOUS
<1>4. d = [db EXCEPT !.plugins = plugins]
  BY <1>1, <1>3, Zenon DEF Effect
<1>5. d = [plugins |-> plugins, functions |-> db.functions, given |-> db.given]
  BY <1>4, RecordsAre
<1>6. plugins \in Partial(Plugins, Texts)
  BY <1>2, <1>3, RecordsAre, PartialKept
<1>7. DOMAIN plugins = DOMAIN db.plugins /\ \A x \in DOMAIN plugins : plugins[x] = IF x = p THEN text ELSE db.plugins[x]
  BY <1>3
<1>8. \A x \in DOMAIN plugins : Meant(x, plugins[x])
  BY <1>7, RecordsAre
<1>9. GoodDb(d)
  <2>1. db.given \cup DOMAIN plugins \subseteq db.given
    BY <1>7, RecordsAre
  <2>2. QED
    BY <1>5, <1>6, <1>8, <2>1, RecordsAre, StaysGood
<1>10. Tells(r, Returns(r)) /\ StillSo(d, r, Ok(Returns(r)))
  BY <1>1, NothingIs
<1>11. QED
  BY <1>1, <1>5, <1>9, <1>10 DEF Written

\* A plugin is deleted.
LEMMA DeleteIs ==
    ASSUME GoodDb(db), NEW p, NEW r, r = deletePlugin(p), Accepts(r), NEW d, d = Effect(r)
    PROVE  Written("delete", r, d)
<1>1. r[1] = "deletePlugin" /\ r[2] = p
  BY WordIs
<1>2. p \in DOMAIN db.plugins /\ p \in Plugins
  BY <1>1, RecordsAre DEF Accepts, Existing
<1>3. PICK plugins : plugins = [x \in DOMAIN db.plugins \ {p} |-> db.plugins[x]]
  OBVIOUS
<1>4. d = [db EXCEPT !.plugins = plugins]
  BY <1>1, <1>3, Zenon DEF Effect, Existing
<1>5. d = [plugins |-> plugins, functions |-> db.functions, given |-> db.given]
  BY <1>4, RecordsAre
<1>6. plugins \in Partial(Plugins, Texts)
  <2>1. db.plugins[p] \in Texts /\ db.plugins \in Partial(Plugins, Texts)
    BY <1>2, RecordsAre
  <2>2. QED
    BY <1>2, <1>3, <2>1, PartialKept
<1>7. DOMAIN plugins = DOMAIN db.plugins \ {p} /\ \A x \in DOMAIN plugins : plugins[x] = db.plugins[x]
  BY <1>3
<1>8. \A x \in DOMAIN plugins : Meant(x, plugins[x])
  BY <1>7, RecordsAre
<1>9. GoodDb(d)
  <2>1. db.given \cup DOMAIN plugins \subseteq db.given
    BY <1>7, RecordsAre
  <2>2. QED
    BY <1>5, <1>6, <1>8, <2>1, RecordsAre, StaysGood
<1>10. Tells(r, Returns(r)) /\ StillSo(d, r, Ok(Returns(r)))
  BY <1>1, NothingIs
<1>11. QED
  BY <1>1, <1>5, <1>9, <1>10 DEF Written

\* A function is created in a plugin.
LEMMA AddIs ==
    ASSUME GoodDb(db), NEW p \in Plugins, NEW r, r = createFunctionForPlugin(p), HasId(r), NEW d, d = Effect(r)
    PROVE  Written("addFunction", r, d)
<1>1. r[1] = "createFunctionForPlugin" /\ r[2] = p
  BY WordIs
<1>2. PICK new : new = Fresh(Functions)
  OBVIOUS
<1>3. new \in Functions /\ new \notin db.given
  BY <1>1, <1>2, FreshIs DEF HasId
<1>4. PICK functions, given : functions = With(db.functions, new, p) /\ given = db.given \cup {new}
  OBVIOUS
<1>5. d = [db EXCEPT !.functions = functions, !.given = given]
  BY <1>1, <1>2, <1>4, Zenon DEF Effect
<1>6. d = [plugins |-> db.plugins, functions |-> functions, given |-> given]
  BY <1>5, RecordsAre
<1>7. functions \in Partial(Functions, Ids)
  <2>1. p \in Ids
    BY DEF Ids
  <2>2. QED
    BY <1>3, <1>4, <2>1, RecordsAre, PartialKept
<1>8. GoodDb(d)
  <2>1. given \in SUBSET (Plugins \cup Functions) /\ db.given \cup DOMAIN db.plugins \subseteq given
    BY <1>3, <1>4, RecordsAre
  <2>2. QED
    BY <1>6, <1>7, <2>1, RecordsAre, StaysGood
<1>9. Tells(r, Returns(r)) /\ StillSo(d, r, Ok(Returns(r)))
  BY <1>1, NothingIs
<1>10. d.given = db.given \cup {new} /\ d.plugins = db.plugins
  BY <1>4, <1>6
<1>11. QED
  BY <1>3, <1>8, <1>9, <1>10 DEF Written

\* A function is taken from its plugin, or deleted.
LEMMA RemoveIs ==
    ASSUME GoodDb(db), NEW at, NEW r, Accepts(r), NEW d, d = Effect(r),
           \/ at = "removeFunction" /\ \E p, f : r = removeFunctionFromPlugin(p, f)
           \/ at = "deleteFunction" /\ \E f : r = deleteFunction(f)
    PROVE  Written(at, r, d)
<1>1. r[1] \in {"removeFunctionFromPlugin", "deleteFunction"}
  BY WordIs
<1>2. PICK functions : d = [db EXCEPT !.functions = functions] /\ functions \in Partial(Functions, Ids)
  <2>1. ASSUME r[1] = "removeFunctionFromPlugin"
        PROVE  \E fs : d = [db EXCEPT !.functions = fs] /\ fs \in Partial(Functions, Ids)
    <3>1. PICK f, fs : f = r[3] /\ fs = [db.functions EXCEPT ![f] = None]
      OBVIOUS
    <3>2. d = [db EXCEPT !.functions = fs]
      BY <2>1, <3>1, Zenon DEF Effect
    <3>3. f \in DOMAIN db.functions
      BY <2>1, <3>1 DEF Accepts, FunctionsOf
    <3>4. f \in Functions /\ None \in Ids /\ db.functions \in Partial(Functions, Ids)
      BY <3>3, RecordsAre DEF Ids
    <3>5. fs \in Partial(Functions, Ids)
      BY <3>1, <3>3, <3>4, PartialKept
    <3>6. QED
      BY <3>2, <3>5
  <2>2. ASSUME r[1] = "deleteFunction"
        PROVE  \E fs : d = [db EXCEPT !.functions = fs] /\ fs \in Partial(Functions, Ids)
    <3>1. PICK f, fs : f = r[2] /\ fs = [x \in DOMAIN db.functions \ {f} |-> db.functions[x]]
      OBVIOUS
    <3>2. d = [db EXCEPT !.functions = fs]
      BY <2>2, <3>1, Zenon DEF Effect
    <3>3. f \in DOMAIN db.functions
      BY <2>2, <3>1 DEF Accepts
    <3>4. f \in Functions /\ None \in Ids /\ db.functions \in Partial(Functions, Ids)
      BY <3>3, RecordsAre DEF Ids
    <3>5. fs \in Partial(Functions, Ids)
      BY <3>1, <3>4, PartialKept
    <3>6. QED
      BY <3>2, <3>5
  <2>3. QED
    BY <1>1, <2>1, <2>2
<1>3. d = [plugins |-> db.plugins, functions |-> functions, given |-> db.given]
  BY <1>2, RecordsAre
<1>4. GoodDb(d)
  <2>1. db.given \cup DOMAIN db.plugins \subseteq db.given
    BY RecordsAre
  <2>2. QED
    BY <1>2, <1>3, <2>1, RecordsAre, StaysGood
<1>5. Tells(r, Returns(r)) /\ StillSo(d, r, Ok(Returns(r)))
  BY <1>1, NothingIs
<1>6. d.given = db.given /\ d.plugins = db.plugins
  BY <1>3
<1>7. QED
  BY <1>4, <1>5, <1>6 DEF Written

\* What the server does for a request that writes.
LEMMA WritesAre ==
    ASSUME GoodDb(db), NEW at, NEW arg, NEW r, Writes(at, arg, r), Accepts(r), HasId(r), NEW d, d = Effect(r)
    PROVE  Written(at, r, d)
<1>1. CASE at = "save" /\ \E text \in Texts : r = createPlugin(text)
  BY <1>1, CreateIs
<1>2. CASE at = "save" /\ \E text \in Texts, p \in Plugins : Meant(p, text) /\ r = updatePlugin(p, text)
  BY <1>2, UpdateIs
<1>3. CASE at = "delete" /\ \E p \in Plugins : r = deletePlugin(p)
  BY <1>3, DeleteIs
<1>4. CASE at = "addFunction" /\ arg.plugin \in Plugins /\ r = createFunctionForPlugin(arg.plugin)
  BY <1>4, AddIs
<1>5. CASE at = "saveEdit" /\ r = updateFunction(arg.function)
  <2>1. r[1] = "updateFunction"
    BY <1>5, WordIs
  <2>2. ~Accepts(r)
    BY <2>1 DEF Accepts
  <2>3. QED
    BY <2>2
<1>6. CASE at = "removeFunction" /\ r = removeFunctionFromPlugin(arg.plugin, arg.function)
  BY <1>6, RemoveIs
<1>7. CASE at = "deleteFunction" /\ r = deleteFunction(arg.function)
  BY <1>7, RemoveIs
<1>8. QED
  BY <1>1, <1>2, <1>3, <1>4, <1>5, <1>6, <1>7 DEF Writes

\* A handler that is answered.
Received(ts, k, r, a) ==
    /\ GoodTasks(ts) /\ \A j \in Slots : j # k => ts[j] = tasks[j]
    /\ ts[k].at = tasks[k].at /\ ts[k].arg = tasks[k].arg /\ ts[k].live = tasks[k].live
    /\ ts[k].sent = {} /\ DOMAIN tasks[k].got = {} /\ DOMAIN ts[k].got = {r} /\ ts[k].got[r] = a
LEMMA ReceiveIs ==
    ASSUME GoodTasks(tasks), NEW k \in Slots, NEW r \in tasks[k].sent, NEW a, GoodAnswer(r, a),
           NEW ts, ts = Receive(tasks, k, r, a)
    PROVE  Received(ts, k, r, a)
<1> DEFINE t == tasks[k]
           n == [t EXCEPT !.sent = @ \ {r}, !.got = With(@, r, a)]
           g == With(t.got, r, a)
<1>1. GoodTask(t) /\ DOMAIN tasks = Slots
  BY DEF GoodTasks
<1>2. /\ t = [at |-> t.at, arg |-> t.arg, sent |-> t.sent, got |-> t.got, live |-> t.live]
      /\ t.live \in BOOLEAN /\ t.sent \cap DOMAIN t.got = {}
      /\ Asks(t.at, t.arg, t.sent \cup DOMAIN t.got)
  BY <1>1, BusyIs
<1>3. DOMAIN ts = Slots /\ ts[k] = n /\ \A j \in Slots : j # k => ts[j] = tasks[j]
  BY <1>1 DEF Receive
<1>4. r \in t.sent /\ r \in t.sent \cup DOMAIN t.got
  OBVIOUS
<1> HIDE DEF t
<1>5. t.sent = {r} /\ DOMAIN t.got = {}
  <2>1. t.sent \cup DOMAIN t.got = {r}
    BY <1>2, <1>4, RequestIs
  <2>2. QED
    BY <1>2, <1>4, <2>1
<1>6. DOMAIN g = {r} /\ g[r] = a
  BY <1>5 DEF With
<1>7. n = [at |-> t.at, arg |-> t.arg, sent |-> t.sent \ {r}, got |-> g, live |-> t.live]
  <2>1. n = [t EXCEPT !.sent = t.sent \ {r}, !.got = g]
    OBVIOUS
  <2> HIDE DEF g, n
  <2>2. QED
    BY <1>2, <2>1
<1> HIDE DEF n, g
<1>8. /\ n.at = t.at /\ n.arg = t.arg /\ n.live = t.live /\ n.sent = {} /\ n.got = g
      /\ n = [at |-> n.at, arg |-> n.arg, sent |-> n.sent, got |-> n.got, live |-> n.live]
  BY <1>5, <1>7
<1>9. GoodTask(n)
  <2>1. n.sent \cup DOMAIN n.got = t.sent \cup DOMAIN t.got /\ n.sent \cap DOMAIN n.got = {}
    BY <1>5, <1>6, <1>8
  <2>2. Asks(n.at, n.arg, n.sent \cup DOMAIN n.got)
    BY <1>2, <1>8, <2>1
  <2>3. \A q \in DOMAIN n.got : GoodAnswer(q, n.got[q])
    BY <1>6, <1>8
  <2>4. QED
    BY <1>2, <1>8, <2>1, <2>2, <2>3 DEF GoodTask
<1>10. GoodTasks(ts)
  BY <1>1, <1>3, <1>9 DEF GoodTasks, t
<1>11. QED
  BY <1>3, <1>5, <1>6, <1>8, <1>10 DEF t, Received

\* An answer keeps the types and the spinners, whatever the server has done.
LEMMA AnswerKeeps ==
    ASSUME PageInv, NEW k \in Slots, NEW r, NEW a, Received(tasks', k, r, a),
           UNCHANGED <<url, ui, forms>>, GoodDb(db')
    PROVE  TypeInv' /\ SpinInv'
<1>1. \A j \in Slots : tasks'[j].at = tasks[j].at /\ tasks'[j].live = tasks[j].live
  BY DEF Received
<1>2. GoodDb(db)' <=> GoodDb(db')
  BY DEF GoodDb
<1>3. GoodTasks(tasks)'
  BY DEF Received, GoodTasks
<1>4. GoodUi(ui)' /\ FormMeant(ui.details)'
  BY DEF PageInv, TypeInv, GoodUi, GoodDetails, FormMeant
<1>5. TypeInv'
  BY <1>2, <1>3, <1>4 DEF PageInv, TypeInv
<1>6. Spins(ui, tasks')
  BY <1>1 DEF PageInv, SpinInv, Spins, Turns
<1>7. Spins(ui, tasks)' <=> Spins(ui', tasks')
  BY DEF Spins, Turns
<1>8. SpinInv'
  BY <1>6, <1>7 DEF SpinInv
<1>9. QED
  BY <1>5, <1>8

\* What an answer leaves as it is, for a patient user: handlers are where they were, and no
\* more forms are open.
Answering(ts) ==
    /\ Alone(ui, ts) /\ (\A j \in Slots : Relies(url, ui, ts[j])) /\ Asked(ui, ts)
    /\ NewPlugin(ui, ts) => NewPlugin(ui, tasks)
    /\ NewFunction(ui, ts) => NewFunction(ui, tasks)
LEMMA AnsweringIs ==
    ASSUME NEW k \in Slots, NEW r, NEW a, NEW ts, Received(ts, k, r, a), Calm(db, url, ui, tasks, forms)
    PROVE  Answering(ts)
<1>1. \A j \in Slots : /\ ts[j].at = tasks[j].at /\ ts[j].arg = tasks[j].arg /\ ts[j].live = tasks[j].live
                       /\ ts[j].sent \subseteq tasks[j].sent
                       /\ DOMAIN ts[j].got = {} => DOMAIN tasks[j].got = {}
  BY DEF Received
<1>2. Alone(ui, ts)
  <2>1. Alone(ui, tasks)
    BY DEF Calm
  <2>2. QED
    BY <1>1, <2>1 DEF Alone
<1>3. \A j \in Slots : Relies(url, ui, ts[j])
  BY <1>1 DEF Calm, Relies
<1>4. Asked(ui, ts)
  BY <1>1 DEF Calm, Asked
<1>5. NewPlugin(ui, ts) => NewPlugin(ui, tasks)
  BY <1>1 DEF NewPlugin
<1>6. NewFunction(ui, ts) => NewFunction(ui, tasks)
  BY <1>1 DEF NewFunction
<1>7. QED
  BY <1>2, <1>3, <1>4, <1>5, <1>6 DEF Answering

\* As long as no id is given, no more is counted.
LEMMA CountedStill ==
    ASSUME NEW ts, Answering(ts), NEW d, d.given = db.given, Counted(db, ui, tasks, forms), forms \in Nat
    PROVE  Counted(d, ui, ts, forms)
<1>1. PICK c, m, x, y, x1, y1 :
          /\ c = Cardinality(db.given) /\ m = Cardinality(Initially)
          /\ x = One(NewPlugin(ui, tasks)) /\ y = One(NewFunction(ui, tasks))
          /\ x1 = One(NewPlugin(ui, ts)) /\ y1 = One(NewFunction(ui, ts))
  OBVIOUS
<1>2. IsFiniteSet(db.given) /\ c + x + y <= m + 1 + forms
  BY <1>1 DEF Counted
<1>3. c \in Nat /\ m \in Nat
  BY <1>1, <1>2, PluginsAssumption, FS_CardinalityType
<1>4. x \in 0 .. 1 /\ y \in 0 .. 1 /\ x1 \in 0 .. 1 /\ y1 \in 0 .. 1 /\ x1 <= x /\ y1 <= y
  BY <1>1 DEF One, Answering
<1>5. c + x1 + y1 <= m + 1 + forms
  BY <1>2, <1>3, <1>4
<1>6. QED
  BY <1>1, <1>2, <1>5 DEF Counted

\* A request that changes nothing, and one whose refusal was expected, keep what a
\* patient user sees.
LEMMA AnswerCalm ==
    ASSUME NEW k \in Slots, NEW r, NEW a, NEW ts, Received(ts, k, r, a), StillSo(db, r, a),
           Calm(db, url, ui, tasks, forms), forms \in Nat
    PROVE  Calm(db, url, ui, ts, forms)
<1>1. \A j \in Slots : ts[j].at = tasks[j].at
  BY DEF Received
<1>2. Answering(ts)
  BY AnsweringIs
<1>3. AnswersHold(db, ts)
  <2> SUFFICES ASSUME NEW j \in Slots, NEW q \in DOMAIN ts[j].got PROVE StillSo(db, q, ts[j].got[q])
    BY DEF AnswersHold
  <2>1. CASE j = k
    BY <2>1 DEF Received
  <2>2. CASE j # k
    BY <2>2 DEF Received, Calm, AnswersHold
  <2>3. QED
    BY <2>1, <2>2
<1>4. ListHolds(db, ui, ts) /\ DetailsHold(db, ui, ts) /\ FunctionsHold(db, ui, ts)
  <2>1. ListHolds(db, ui, tasks) /\ DetailsHold(db, ui, tasks) /\ FunctionsHold(db, ui, tasks)
    BY DEF Calm
  <2>2. ListHolds(db, ui, ts)
    BY <1>1, <2>1 DEF ListHolds
  <2>3. DetailsHold(db, ui, ts)
    BY <1>1, <2>1 DEF DetailsHold
  <2>4. FunctionsHold(db, ui, ts)
    BY <1>1, <2>1 DEF FunctionsHold
  <2>5. QED
    BY <2>2, <2>3, <2>4
<1>5. Counted(db, ui, ts, forms)
  BY <1>2, CountedStill DEF Calm
<1>6. QED
  BY <1>2, <1>3, <1>4, <1>5 DEF Calm, Answering

\* A handler that writes shares the page only with edits that were not answered yet.
LEMMA WriterAlone ==
    ASSUME GoodTasks(tasks), NEW k \in Slots, tasks[k].at \in Writers, Calm(db, url, ui, tasks, forms)
    PROVE  /\ tasks[k].at \in PlacesOf(ui.page.tab)
           /\ \A j \in Slots : j # k => tasks[j].at \in {"idle", "saveEdit"} /\ DOMAIN tasks[j].got = {}
<1>1. tasks[k].at \in PlacesOf(ui.page.tab)
  BY DEF Calm, Alone, Writers
<1>2. ASSUME NEW j \in Slots, j # k PROVE tasks[j].at \in {"idle", "saveEdit"} /\ DOMAIN tasks[j].got = {}
  <2>1. tasks[j].at \in {"idle", "saveEdit"} /\ GoodTask(tasks[j])
    BY <1>2 DEF Calm, Alone, GoodTasks
  <2>2. CASE tasks[j].at = "idle"
    BY <2>1, <2>2, IdleIs
  <2>3. CASE tasks[j].at = "saveEdit"
    <3>1. Asks(tasks[j].at, tasks[j].arg, tasks[j].sent \cup DOMAIN tasks[j].got)
      BY <2>1, <2>3, BusyIs
    <3>2. tasks[j].sent \cup DOMAIN tasks[j].got = {updateFunction(tasks[j].arg.function)}
      BY <2>3, <3>1 DEF Asks
    <3>3. ASSUME NEW q \in DOMAIN tasks[j].got PROVE FALSE
      <4>1. q[1] = "updateFunction"
        BY <3>2, WordIs
      <4>2. StillSo(db, q, tasks[j].got[q])
        BY DEF Calm, AnswersHold
      <4>3. QED
        BY <4>1, <4>2 DEF StillSo
    <3>4. QED
      BY <2>3, <3>3
  <2>4. QED
    BY <2>1, <2>2, <2>3
<1>3. QED
  BY <1>1, <1>2

\* A request that writes keeps what a patient user sees: the handler that sent it will
\* show what it has done, and the form it answers counts no more.
LEMMA WriteCalm ==
    ASSUME TypeInv, NEW k \in Slots, NEW r, Writes(tasks[k].at, tasks[k].arg, r), r \in tasks[k].sent,
           NEW a, NEW ts, Received(ts, k, r, a), NEW d, Written(tasks[k].at, r, d), a = Ok(Returns(r)),
           Calm(db, url, ui, tasks, forms)
    PROVE  Calm(d, url, ui, ts, forms)
<1>0. /\ GoodTasks(tasks) /\ forms \in Nat /\ ui.page.tab \in PageTabs
      /\ "functions" \in PageTabs /\ "details" \in PageTabs
  BY PartsAre DEF TypeInv, GoodUi, PageType, PageTabs
<1>1. tasks[k].at \in Writers
  BY DEF Written, Writers
<1>2. /\ tasks[k].at \in PlacesOf(ui.page.tab)
      /\ \A j \in Slots : j # k => tasks[j].at \in {"idle", "saveEdit"} /\ DOMAIN tasks[j].got = {}
  BY <1>0, <1>1, WriterAlone
<1>3. /\ ts[k].at = tasks[k].at /\ DOMAIN tasks[k].got = {} /\ DOMAIN ts[k].got = {r} /\ ts[k].got[r] = a
      /\ \A j \in Slots : j # k => ts[j] = tasks[j]
  BY DEF Received
<1>4. Answering(ts)
  BY AnsweringIs
<1>5. AnswersHold(d, ts)
  <2>1. StillSo(d, r, a)
    BY DEF Written
  <2>2. QED
    BY <1>2, <1>3, <2>1 DEF AnswersHold
<1>6. tasks[k].at \in {"save", "delete"} => ui.page.tab = "details"
  BY <1>2 DEF PlacesOf, FunctionPlaces
<1>7. tasks[k].at \in {"addFunction", "removeFunction", "deleteFunction"} => ui.page.tab = "functions"
  BY <1>0, <1>2 DEF PlacesOf, DetailsPlaces, PageTabs
<1>8. ListHolds(d, ui, ts) /\ DetailsHold(d, ui, ts) /\ FunctionsHold(d, ui, ts)
  <2>1. CASE tasks[k].at \in {"save", "delete"}
    BY <1>3, <1>6, <2>1 DEF ListHolds, DetailsHold, FunctionsHold
  <2>2. CASE tasks[k].at \in {"addFunction", "removeFunction", "deleteFunction"}
    <3>1. d.plugins = db.plugins
      BY <2>2 DEF Written
    <3>2. ListHolds(d, ui, ts)
      <4>1. ListHolds(db, ui, tasks)
        BY DEF Calm
      <4>2. ui.page.plugins = db.plugins
        <5>1. \A j \in Slots : tasks[j].at \in {"plugins", "refresh", "save", "delete"} => FALSE
          BY <1>2, <2>2
        <5>2. QED
          BY <4>1, <5>1 DEF ListHolds
      <4>3. QED
        BY <3>1, <4>2 DEF ListHolds
    <3>3. DetailsHold(d, ui, ts)
      BY <1>7, <2>2 DEF DetailsHold
    <3>4. FunctionsHold(d, ui, ts)
      BY <1>3, <2>2 DEF FunctionsHold, FunctionPlaces
    <3>5. QED
      BY <3>2, <3>3, <3>4
  <2>3. QED
    BY <1>1, <2>1, <2>2 DEF Writers
<1>9. Counted(d, ui, ts, forms)
  <2>1. CASE d.given = db.given
    BY <1>0, <1>4, <2>1, CountedStill DEF Calm
  <2>2. CASE d.given # db.given
    <3>1. PICK new : new \notin db.given /\ d.given = db.given \cup {new}
      BY <2>2 DEF Written
    <3>2. PICK c, m, x, y, x1, y1 :
              /\ c = Cardinality(db.given) /\ m = Cardinality(Initially)
              /\ x = One(NewPlugin(ui, tasks)) /\ y = One(NewFunction(ui, tasks))
              /\ x1 = One(NewPlugin(ui, ts)) /\ y1 = One(NewFunction(ui, ts))
      OBVIOUS
    <3>3. IsFiniteSet(db.given) /\ c + x + y <= m + 1 + forms
      BY <3>2 DEF Calm, Counted
    <3>4. c \in Nat /\ m \in Nat
      BY <3>2, <3>3, PluginsAssumption, FS_CardinalityType
    <3>5. IsFiniteSet(d.given) /\ Cardinality(d.given) = c + 1
      BY <3>1, <3>2, <3>3, FS_AddElement
    <3>6. x \in 0 .. 1 /\ y \in 0 .. 1 /\ x1 \in 0 .. 1 /\ y1 \in 0 .. 1 /\ x1 <= x /\ y1 <= y
      BY <1>4, <3>2 DEF One, Answering
    <3>7. x1 + y1 + 1 <= x + y
      <4>1. CASE tasks[k].at = "save" /\ r[1] = "createPlugin"
        <5>1. Relies(url, ui, tasks[k])
          BY DEF Calm
        <5>2. \E text \in Texts : r = createPlugin(text)
          <6>1. \A p, text : updatePlugin(p, text)[1] # "createPlugin"
            BY WordIs
          <6>2. QED
            BY <4>1, <6>1 DEF Writes
        <5>3. ui.details.open /\ ui.details.plugin = None
          BY <4>1, <5>1, <5>2 DEF Relies
        <5>4. NewPlugin(ui, tasks)
          BY <1>2, <1>3, <1>6, <4>1, <5>3 DEF NewPlugin
        <5>5. ~NewPlugin(ui, ts)
          BY <1>3, <4>1 DEF NewPlugin
        <5>6. x = 1 /\ x1 = 0
          BY <3>2, <5>4, <5>5 DEF One
        <5>7. QED
          BY <3>6, <5>6
      <4>2. CASE tasks[k].at = "addFunction"
        <5>1. Relies(url, ui, tasks[k])
          BY DEF Calm
        <5>2. ui.functions.form # None /\ ui.page.tab = "functions"
          BY <1>7, <4>2, <5>1 DEF Relies
        <5>3. NewFunction(ui, tasks)
          BY <1>2, <1>3, <4>2, <5>2 DEF NewFunction
        <5>4. ~NewFunction(ui, ts)
          BY <1>3, <4>2 DEF NewFunction
        <5>5. y = 1 /\ y1 = 0
          BY <3>2, <5>3, <5>4 DEF One
        <5>6. QED
          BY <3>6, <5>5
      <4>3. QED
        BY <2>2, <4>1, <4>2 DEF Written
    <3>8. c + 1 + x1 + y1 <= m + 1 + forms
      BY <1>0, <3>3, <3>4, <3>6, <3>7
    <3>9. QED
      BY <3>2, <3>5, <3>8 DEF Counted
  <2>3. QED
    BY <2>1, <2>2
<1>10. QED
  BY <1>4, <1>5, <1>8, <1>9 DEF Calm, Answering

\* Every answer of the server, and every request that does not come through.
LEMMA ServerKeeps ==
    ASSUME PageInv, NEW k \in Slots, NEW r \in tasks[k].sent, Serve(k, r) \/ Fail(k, r)
    PROVE  PageInv'
<1>1. TypeInv /\ GoodDb(db) /\ GoodTasks(tasks) /\ GoodTask(tasks[k]) /\ forms \in Nat
  BY DEF PageInv, TypeInv, GoodTasks
<1>2. HasId(r) /\ UNCHANGED <<url, ui, hasty, forms>>
  BY DEF Serve, Fail
<1>3. Reads(r) \/ Writes(tasks[k].at, tasks[k].arg, r)
  <2>1. Asks(tasks[k].at, tasks[k].arg, tasks[k].sent \cup DOMAIN tasks[k].got)
    BY <1>1, BusyIs
  <2>2. r \in tasks[k].sent \cup DOMAIN tasks[k].got
    OBVIOUS
  <2>3. QED
    BY <2>1, <2>2, RequestIs
<1>4. ~Failure.ok /\ GoodAnswer(r, Failure)
  BY DEF Failure, GoodAnswer
<1>5. CASE Fail(k, r)
  <2>1. tasks' = Receive(tasks, k, r, Failure) /\ failed' /\ (db' = db \/ (Accepts(r) /\ db' = Effect(r)))
    BY <1>5 DEF Fail
  <2>2. GoodDb(db')
    <3>1. ASSUME Accepts(r) PROVE GoodDb(Effect(r))
      <4>1. CASE Reads(r)
        BY <1>1, <3>1, <4>1, AnswersAre
      <4>2. CASE Writes(tasks[k].at, tasks[k].arg, r)
        BY <1>1, <1>2, <3>1, <4>2, WritesAre DEF Written
      <4>3. QED
        BY <1>3, <4>1, <4>2
    <3>2. QED
      BY <1>1, <2>1, <3>1
  <2>3. Received(tasks', k, r, Failure)
    BY <1>1, <1>4, <2>1, ReceiveIs
  <2>4. TypeInv' /\ SpinInv'
    BY <1>2, <2>2, <2>3, AnswerKeeps
  <2>5. QED
    BY <2>1, <2>4 DEF PageInv, CalmInv
<1>6. CASE Serve(k, r) /\ Accepts(r)
  <2> DEFINE a == Ok(Returns(r))
  <2>1. db' = Effect(r) /\ tasks' = Receive(tasks, k, r, a) /\ UNCHANGED failed
    BY <1>6 DEF Serve
  <2>2. a = Ok(a.data) /\ a.data = Returns(r)
    BY DEF Ok
  <2>3. a = Ok(Returns(r))
    OBVIOUS
  <2> HIDE DEF a
  <2>4. Reads(r) => db' = db /\ Tells(r, Returns(r)) /\ StillSo(db, r, a)
    BY <1>1, <1>6, <2>1, <2>3, AnswersAre
  <2>5. Writes(tasks[k].at, tasks[k].arg, r) => Written(tasks[k].at, r, db')
    BY <1>1, <1>2, <1>6, <2>1, WritesAre
  <2>6. GoodDb(db') /\ Tells(r, Returns(r))
    BY <1>1, <1>3, <2>4, <2>5 DEF Written
  <2>7. GoodAnswer(r, a)
    BY <2>2, <2>6 DEF GoodAnswer
  <2>8. Received(tasks', k, r, a)
    BY <1>1, <2>1, <2>7, ReceiveIs
  <2>9. TypeInv' /\ SpinInv'
    BY <1>2, <2>6, <2>8, AnswerKeeps
  <2>10. ASSUME Calm(db, url, ui, tasks, forms)
         PROVE  Calm(db', url, ui, tasks', forms)
    <3>1. CASE Reads(r)
      BY <1>1, <2>4, <2>8, <2>10, <3>1, AnswerCalm
    <3>2. CASE Writes(tasks[k].at, tasks[k].arg, r)
      BY <1>1, <2>3, <2>5, <2>8, <2>10, <3>2, WriteCalm
    <3>3. QED
      BY <1>3, <3>1, <3>2
  <2>11. CalmInv'
    BY <1>2, <2>1, <2>10 DEF PageInv, CalmInv
  <2>12. QED
    BY <2>9, <2>11 DEF PageInv
<1>7. CASE Serve(k, r) /\ ~Accepts(r)
  <2>1. db' = db /\ tasks' = Receive(tasks, k, r, Failure) /\ failed' = (failed \/ r[1] # "deleteFunction")
    BY <1>7 DEF Serve
  <2>2. Received(tasks', k, r, Failure)
    BY <1>1, <1>4, <2>1, ReceiveIs
  <2>3. TypeInv' /\ SpinInv'
    BY <1>1, <1>2, <2>1, <2>2, AnswerKeeps
  <2>4. r[1] = "deleteFunction" => StillSo(db, r, Failure)
    BY DEF StillSo
  <2>5. ASSUME r[1] = "deleteFunction", Calm(db, url, ui, tasks, forms)
        PROVE  Calm(db, url, ui, tasks', forms)
    BY <1>1, <2>2, <2>4, <2>5, AnswerCalm
  <2>6. ~hasty' /\ ~failed' => ~hasty /\ ~failed /\ r[1] = "deleteFunction"
    BY <1>2, <2>1
  <2>7. CalmInv'
    BY <1>2, <2>1, <2>5, <2>6 DEF PageInv, CalmInv
  <2>8. QED
    BY <2>3, <2>7 DEF PageInv
<1>8. QED
  BY <1>5, <1>6, <1>7

-----------------------------------------------------------------------------
(* The invariant.                                                          *)

\* The handlers the page begins with.
LEMMA FirstTasks ==
    ASSUME NEW id \in Plugins \cup {None}, NEW idle, idle = [k \in Slots |-> Idle],
           NEW ts, ts = Begin(IF id = None THEN idle ELSE Begin(idle, fetchPluginDetails(id)), fetchPlugins)
    PROVE  /\ DOMAIN ts = Slots
           /\ \A k \in Slots : ts[k] \in {Idle, fetchPlugins} \/ (id # None /\ ts[k] = fetchPluginDetails(id))
           /\ \E k \in Slots : ts[k] = fetchPlugins
           /\ id # None => \E k \in Slots : ts[k] = fetchPluginDetails(id)
<1>1. 1 \in Slots /\ 2 \in Slots
  BY MaxTasksAssumption, PluginsAssumption DEF Slots
<1>2. DOMAIN idle = Slots /\ \A k \in Slots : idle[k] = Idle
  OBVIOUS
<1>3. Idle.at = "idle"
  BY IdleIs
<1>4. HasRoom(idle)
  BY <1>1, <1>2, <1>3 DEF HasRoom, Free, Running
<1>5. CASE id = None
  <2>1. ts = Begin(idle, fetchPlugins)
    BY <1>5
  <2>2. PICK i \in Slots : DOMAIN ts = Slots /\ \A k \in Slots : ts[k] = IF k = i THEN fetchPlugins ELSE idle[k]
    BY <1>2, <1>4, <2>1, BeginIs
  <2>3. QED
    BY <1>2, <1>5, <2>2
<1>6. CASE id # None
  <2>1. PICK mid : mid = Begin(idle, fetchPluginDetails(id))
    OBVIOUS
  <2>2. PICK i \in Slots : DOMAIN mid = Slots /\ \A k \in Slots : mid[k] = IF k = i THEN fetchPluginDetails(id) ELSE idle[k]
    BY <1>2, <1>4, <2>1, BeginIs
  <2>3. ts = Begin(mid, fetchPlugins)
    BY <1>6, <2>1
  <2>4. HasRoom(mid)
    <3>1. \E k \in Slots : k # i
      BY <1>1
    <3>2. \E k \in Slots : mid[k].at = "idle"
      BY <1>2, <1>3, <2>2, <3>1
    <3>3. QED
      BY <3>2 DEF HasRoom, Free, Running
  <2>5. DOMAIN mid = Slots
    BY <2>2
  <2>6. PICK j \in Slots : /\ mid[j].at = "idle" /\ DOMAIN ts = Slots
                           /\ \A k \in Slots : ts[k] = IF k = j THEN fetchPlugins ELSE mid[k]
    BY <2>3, <2>4, <2>5, BeginIs
  <2>7. i # j
    <3>1. fetchPluginDetails(id).at # "idle"
      BY DEF fetchPluginDetails, Task
    <3>2. QED
      BY <2>2, <2>6, <3>1
  <2>8. QED
    BY <1>2, <1>6, <2>2, <2>6, <2>7
<1>7. QED
  BY <1>5, <1>6

\* The page begins with the tab of details and what it fetches.
LEMMA InitKeeps ==
    ASSUME Init
    PROVE  PageInv
<1> DEFINE owner == CHOOSE p \in Initially : TRUE
           f == CHOOSE g \in Functions : TRUE
           idle == [k \in Slots |-> Idle]
           as == [p \in Initially |-> p]
           fs == [x \in {f} |-> owner]
<1>1. PICK id \in Initially \cup {None} :
          /\ db = [plugins |-> as, functions |-> fs, given |-> Initially \cup {f}]
          /\ url = [id |-> id, tab |-> None]
          /\ ui = [page |-> [plugins |-> <<>>, loading |-> TRUE, selected |-> id, tab |-> "details", temp |-> FALSE],
                   details |-> [NoDetails EXCEPT !.loading = id # None], functions |-> NoFunctions]
          /\ tasks = Begin(IF id = None THEN idle ELSE Begin(idle, fetchPluginDetails(id)), fetchPlugins)
          /\ forms = 0
  BY DEF Init
<1>2. idle = [k \in Slots |-> Idle] /\ as = [p \in Initially |-> p] /\ fs = [x \in {f} |-> owner]
  OBVIOUS
<1>3. owner \in Initially /\ f \in Functions
  BY PluginsAssumption
<1> HIDE DEF owner, f, idle, as, fs
<1>4. owner \in Initially /\ f \in Functions /\ Initially \subseteq Plugins /\ IsFiniteSet(Initially)
  BY <1>3, PluginsAssumption
<1>5. id \in Ids /\ id \in Plugins \cup {None}
  BY <1>4 DEF Ids
<1>6. GoodDb(db)
  <2>1. as \in [Initially -> Texts] /\ Initially \in SUBSET Plugins
    BY <1>2, <1>4 DEF Texts
  <2>2. as \in Partial(Plugins, Texts) /\ DOMAIN as = Initially
    BY <2>1 DEF Partial
  <2>3. fs \in [{f} -> Ids] /\ {f} \in SUBSET Functions
    BY <1>2, <1>4 DEF Ids
  <2>4. fs \in Partial(Functions, Ids)
    BY <2>3 DEF Partial
  <2>5. \A p \in DOMAIN as : Meant(p, as[p])
    BY <1>2, <2>2 DEF Meant
  <2>6. QED
    BY <1>1, <1>4, <2>2, <2>4, <2>5 DEF GoodDb
<1>7. url \in Urls /\ url.tab = None
  BY <1>1, <1>5 DEF Urls
<1>8. PICK L, p, d : /\ L = (id # None) /\ d = [NoDetails EXCEPT !.loading = L]
                     /\ p = [plugins |-> <<>>, loading |-> TRUE, selected |-> id, tab |-> "details", temp |-> FALSE]
  OBVIOUS
<1>9. /\ d.plugin = None /\ (d.loading <=> id # None) /\ ~d.open /\ d.form = Blank /\ d.confirm = None
      /\ GoodDetails(d)
  <2>1. d = [plugin |-> None, loading |-> L, open |-> FALSE, form |-> Blank, confirm |-> None]
    BY <1>8 DEF NoDetails
  <2>2. L \in BOOLEAN
    BY <1>8
  <2>3. d \in DetailsType /\ d.plugin = None
    BY <2>1, <2>2 DEF DetailsType, Ids
  <2>4. d.loading = L /\ ~d.open /\ d.form = Blank /\ d.confirm = None
    BY <2>1
  <2>5. GoodDetails(d)
    BY <2>3 DEF GoodDetails
  <2>6. QED
    BY <1>8, <2>3, <2>4, <2>5
<1>10. p \in PageType
  <2>1. <<>> \in Partial(Plugins, Texts)
    <3>1. DOMAIN <<>> = {} /\ <<>> = [x \in DOMAIN <<>> |-> <<>>[x]]
      OBVIOUS
    <3>2. QED
      BY <3>1, PartialIs
  <2>2. QED
    BY <1>5, <1>8, <2>1 DEF PageType, PageTabs
<1>11. /\ ui = Ui(p, d, NoFunctions)
       /\ GoodUi(ui) /\ ui.page = p /\ ui.details = d /\ ui.functions = NoFunctions
  <2>1. ui = Ui(p, d, NoFunctions)
    BY <1>1, <1>8, Zenon DEF Ui
  <2>2. QED
    BY <1>9, <1>10, <2>1, EmptyTabs, UiOf
<1>12. /\ ui.page.selected = id /\ ui.page.tab = "details" /\ ~ui.page.temp
       /\ ui.details.plugin = None /\ (ui.details.loading <=> id # None) /\ ~ui.details.open /\ ui.details.confirm = None
  <2>1. p.selected = id /\ p.tab = "details" /\ ~p.temp
    BY <1>8
  <2>2. QED
    BY <1>9, <1>11, <2>1
<1>13. /\ DOMAIN tasks = Slots
       /\ \A k \in Slots : tasks[k] \in {Idle, fetchPlugins} \/ (id # None /\ tasks[k] = fetchPluginDetails(id))
       /\ \E k \in Slots : tasks[k] = fetchPlugins
       /\ id # None => \E k \in Slots : tasks[k] = fetchPluginDetails(id)
  <2>1. /\ idle = [k \in Slots |-> Idle] /\ id \in Plugins \cup {None}
        /\ tasks = Begin(IF id = None THEN idle ELSE Begin(idle, fetchPluginDetails(id)), fetchPlugins)
    BY <1>1, <1>2, <1>5, Zenon
  <2>2. QED
    BY <2>1, FirstTasks
<1>14. /\ GoodTask(fetchPlugins) /\ fetchPlugins.at = "plugins" /\ fetchPlugins.live /\ DOMAIN fetchPlugins.got = {}
  <2>1. fetchPlugins = Handler("plugins", <<>>, {getAllPlugins}, TRUE)
    BY DEF fetchPlugins, Task, Handler
  <2>2. Asks("plugins", <<>>, {getAllPlugins}) /\ TRUE \in BOOLEAN
    BY DEF Asks
  <2>3. DOMAIN <<>> = {}
    OBVIOUS
  <2>4. GoodTask(fetchPlugins)
    BY <2>1, <2>2, NewTask
  <2>5. QED
    BY <2>1, <2>3, <2>4 DEF Handler
<1>15. id # None => /\ GoodTask(fetchPluginDetails(id)) /\ fetchPluginDetails(id).at = "details"
                    /\ fetchPluginDetails(id).live /\ DOMAIN fetchPluginDetails(id).got = {}
                    /\ fetchPluginDetails(id).arg.id = id
  <2> SUFFICES ASSUME id # None
               PROVE  /\ GoodTask(fetchPluginDetails(id)) /\ fetchPluginDetails(id).at = "details"
                      /\ fetchPluginDetails(id).live /\ DOMAIN fetchPluginDetails(id).got = {}
                      /\ fetchPluginDetails(id).arg.id = id
    OBVIOUS
  <2>1. PICK arg : arg = [id |-> id]
    OBVIOUS
  <2>2. fetchPluginDetails(id) = Handler("details", arg, {getPluginById(id)}, TRUE)
    BY <2>1, Zenon DEF fetchPluginDetails, Task, Handler
  <2>3. arg \in [id : Plugins] /\ arg.id = id
    BY <1>5, <2>1
  <2>4. Asks("details", arg, {getPluginById(id)}) /\ TRUE \in BOOLEAN
    BY <2>3 DEF Asks
  <2>5. DOMAIN <<>> = {}
    OBVIOUS
  <2>6. GoodTask(fetchPluginDetails(id))
    BY <2>2, <2>4, NewTask
  <2>7. QED
    BY <2>2, <2>3, <2>5, <2>6 DEF Handler
<1>16. GoodTasks(tasks)
  BY <1>13, <1>14, <1>15, IdleIs DEF GoodTasks
<1>17. TypeInv
  <2>1. FormMeant(ui.details) /\ forms \in Nat
    BY <1>1, <1>12 DEF FormMeant
  <2>2. QED
    BY <1>6, <1>7, <1>11, <1>16, <2>1 DEF TypeInv
<1>18. SpinInv
  <2>1. \E k \in Slots : tasks[k].at \in ListPlaces
    BY <1>13, <1>14 DEF ListPlaces
  <2>2. id # None => Turns(tasks, DetailsPlaces)
    BY <1>13, <1>15 DEF Turns, DetailsPlaces
  <2>3. QED
    BY <1>12, <2>1, <2>2 DEF SpinInv, Spins
<1>19. Calm(db, url, ui, tasks, forms)
  <2>1. \A k \in Slots : /\ DOMAIN tasks[k].got = {} /\ tasks[k].at \in {"idle", "plugins", "details"}
                         /\ tasks[k].at # "idle" => tasks[k].live
                         /\ tasks[k].at = "details" => tasks[k].arg.id = id
    BY <1>13, <1>14, <1>15, IdleIs
  <2>2. Alone(ui, tasks)
    BY <1>12, <2>1 DEF Alone, PlacesOf, DetailsPlaces, FunctionPlaces, Writers
  <2>3. AnswersHold(db, tasks)
    BY <2>1 DEF AnswersHold
  <2>4. ListHolds(db, ui, tasks)
    BY <1>13, <1>14 DEF ListHolds
  <2>5. DetailsHold(db, ui, tasks) /\ FunctionsHold(db, ui, tasks)
    BY <1>12 DEF DetailsHold, FunctionsHold
  <2>6. \A k \in Slots : Relies(url, ui, tasks[k])
    BY <1>12, <2>1 DEF Relies, FunctionPlaces
  <2>7. Asked(ui, tasks)
    BY <1>12 DEF Asked
  <2>8. Counted(db, ui, tasks, forms)
    <3>1. ~NewPlugin(ui, tasks) /\ ~NewFunction(ui, tasks)
      BY <1>12 DEF NewPlugin, NewFunction
    <3>2. db.given = Initially \cup {f}
      BY <1>1
    <3>3. Cardinality(Initially) \in Nat
      BY <1>4, FS_CardinalityType
    <3>4. IsFiniteSet(db.given) /\ Cardinality(db.given) <= Cardinality(Initially) + 1
      <4>1. /\ IsFiniteSet(Initially \cup {f})
            /\ Cardinality(Initially \cup {f}) \in {Cardinality(Initially), Cardinality(Initially) + 1}
        BY <1>4, FS_AddElement
      <4>2. QED
        BY <3>2, <3>3, <4>1
    <3>5. Cardinality(db.given) \in Nat
      BY <3>4, FS_CardinalityType
    <3>6. One(NewPlugin(ui, tasks)) = 0 /\ One(NewFunction(ui, tasks)) = 0
      BY <3>1 DEF One
    <3>7. QED
      BY <1>1, <3>3, <3>4, <3>5, <3>6 DEF Counted
  <2>9. QED
    BY <1>7, <2>2, <2>3, <2>4, <2>5, <2>6, <2>7, <2>8 DEF Calm
<1>20. QED
  BY <1>17, <1>18, <1>19 DEF PageInv, CalmInv

\* Every click, and every handler that goes on.
LEMMA ClicksKeep ==
    ASSUME PageInv, ClickStep
    PROVE  PageInv'
<1>1. CASE (\E t \in PageTabs : handleTabChange(t)) \/ (\E p \in Plugins : handleSelectPlugin(p)) \/ handleCreatePlugin
  BY <1>1, TabChangeKeeps, SelectKeeps, CreateKeeps
<1>2. CASE \/ handleAddPlugin \/ handleEditPlugin \/ TypeText \/ handleCloseForm \/ handleSavePlugin
           \/ showDeleteConfirmation \/ closeConfirmation \/ handleConfirmDelete
  BY <1>2, AddPluginKeeps, EditPluginKeeps, TypeTextKeeps, CloseFormKeeps, SavePluginKeeps, ConfirmationKeeps,
     ConfirmDeleteKeeps
<1>3. CASE \/ handleAddFunction \/ TypeFunction \/ handleCloseFunctionForm
           \/ \E f \in Functions : handleEditFunction(f) \/ handleCancelEdit(f) \/ showFunctionConfirmation(f)
           \/ closeFunctionConfirmation
  BY <1>3, FunctionFormKeeps, RowsKeep
<1>4. CASE handleSaveFunction \/ (\E f \in Functions : handleSaveEdit(f)) \/ handleConfirmDeleteFunction
  BY <1>4, FunctionWritesKeep
<1>5. QED
  BY <1>1, <1>2, <1>3, <1>4 DEF ClickStep
LEMMA HandlersKeep ==
    ASSUME PageInv, NEW k \in Slots, HandlerStep(k)
    PROVE  PageInv'
<1>1. CASE PluginsFetched(k) \/ DetailsFetched(k) \/ Refreshed(k) \/ FunctionsFetched(k)
  BY <1>1, PluginsFetchedKeeps, DetailsFetchedKeeps, RefreshedKeeps, FunctionsFetchedKeeps
<1>2. CASE SaveFailed(k) \/ SaveAnswered(k) \/ DeleteFailed(k) \/ DeleteAnswered(k)
  BY <1>2, SaveFailedKeeps, SaveAnsweredKeeps, DeleteFailedKeeps, DeleteAnsweredKeeps
<1>3. CASE FunctionAdded(k) \/ EditRefused(k) \/ FunctionRemoved(k) \/ RecordDeleted(k)
  BY <1>3, FunctionAddedKeeps, EditRefusedKeeps, FunctionRemovedKeeps
<1>4. QED
  BY <1>1, <1>2, <1>3 DEF HandlerStep

\* Every step keeps the invariant.
LEMMA NextKeeps ==
    ASSUME PageInv, [Next]_vars
    PROVE  PageInv'
<1>1. CASE UNCHANGED vars
  <2>1. UNCHANGED <<db, url, ui, tasks, failed, hasty, forms>>
    BY <1>1 DEF vars
  <2>2. TypeInv'
    BY <2>1 DEF PageInv, TypeInv, GoodDb, GoodUi, GoodDetails, FormMeant, GoodTasks
  <2>3. SpinInv'
    BY <2>1 DEF PageInv, SpinInv, Spins, Turns
  <2>4. Calm(db, url, ui, tasks, forms)' <=> Calm(db, url, ui, tasks, forms)
    BY <2>1 DEF Calm, Alone, AnswersHold, ListHolds, DetailsHold, FunctionsHold, FunctionsIn, Relies, Asked,
                Counted, NewPlugin, NewFunction, One
  <2>5. CalmInv'
    BY <2>1, <2>4 DEF PageInv, CalmInv
  <2>6. QED
    BY <2>2, <2>3, <2>5 DEF PageInv
<1>2. CASE ClickStep
  BY <1>2, ClicksKeep
<1>3. CASE \E u \in Entries : Back(u)
  BY <1>3, BackKeeps
<1>4. ASSUME NEW k \in Slots, HandlerStep(k) PROVE PageInv'
  BY <1>4, HandlersKeep
<1>5. ASSUME NEW k \in Slots, NEW r \in tasks[k].sent, Serve(k, r) \/ Fail(k, r) PROVE PageInv'
  BY <1>5, ServerKeeps
<1>6. QED
  BY <1>1, <1>2, <1>3, <1>4, <1>5 DEF Next

\* What the page promises follows from the invariant.
LEMMA Promises ==
    ASSUME PageInv
    PROVE  TypeOK /\ ShownIsTrue /\ SavesAreMeant
<1>1. GoodDb(db) /\ url \in Urls /\ GoodUi(ui)
  BY DEF PageInv, TypeInv
<1>2. TypeOK
  <2>1. Existing \subseteq Plugins /\ \A p \in Existing : db.plugins[p] \in Texts
    BY <1>1, RecordsAre DEF Existing
  <2>2. DOMAIN db.functions \subseteq Functions /\ \A f \in DOMAIN db.functions : db.functions[f] \in Plugins \cup {None}
    BY <1>1, RecordsAre, PartialIs DEF Ids
  <2>3. url \in [id : Plugins \cup {None}, tab : PageTabs \cup {None}]
    BY <1>1 DEF Urls, Ids
  <2>4. /\ DOMAIN ui.page.plugins \subseteq Plugins /\ ui.page.selected \in Plugins \cup {None}
        /\ ui.page.tab \in PageTabs /\ ui.page.temp \in BOOLEAN
    BY <1>1, PartsAre, PartialIs DEF Ids, PageTabs
  <2>5. /\ ui.details.plugin \in {None} \cup [id : Plugins, text : Texts]
        /\ ui.details.form \in Texts \cup {Blank} /\ ui.details.confirm \in Plugins \cup {None}
        /\ ui.functions.list \subseteq Functions /\ ui.functions.form \in {None, Blank, Typed}
    BY <1>1, PartsAre DEF Ids
  <2>6. QED
    BY <2>1, <2>2, <2>3, <2>4, <2>5 DEF TypeOK
<1>3. ASSUME ~Busy PROVE \A k \in Slots : tasks[k].at = "idle"
  BY <1>3 DEF Busy, Running
<1>4. ShownIsTrue
  <2>1. ASSUME Undisturbed
        PROVE  ListHolds(db, ui, tasks) /\ DetailsHold(db, ui, tasks) /\ FunctionsHold(db, ui, tasks)
    BY <2>1 DEF Undisturbed, PageInv, CalmInv, Calm
  <2>2. ListIsTrue
    BY <1>3, <2>1 DEF ListIsTrue, ListHolds, Undisturbed
  <2>3. DetailsAreTrue
    BY <1>3, <2>1 DEF DetailsAreTrue, DetailsHold, Undisturbed, Tab, Selected, Existing
  <2>4. FunctionsAreTrue
    <3>1. FunctionsOf(Selected) = FunctionsIn(db, ui.page.selected)
      BY DEF FunctionsOf, FunctionsIn, Selected
    <3>2. QED
      BY <1>3, <2>1, <3>1 DEF FunctionsAreTrue, FunctionsHold, FunctionPlaces, Undisturbed, Tab, Selected, Existing
  <2>5. SpinnersEnd
    <3>1. "idle" \notin ListPlaces \cup DetailsPlaces \cup FunctionPlaces
      BY DEF ListPlaces, DetailsPlaces, FunctionPlaces
    <3>2. QED
      BY <1>3, <3>1 DEF SpinnersEnd, PageInv, SpinInv, Spins, Turns, Tab
  <2>6. QED
    BY <2>2, <2>3, <2>4, <2>5 DEF ShownIsTrue
<1>5. SavesAreMeant
  <2>1. EditedIsUpdated
    BY <1>1, RecordsAre DEF EditedIsUpdated, Existing, Meant
  <2>2. CreatedOnce
    <3> SUFFICES ASSUME ~hasty, ~failed PROVE Cardinality(db.given) <= Cardinality(Initially) + 1 + forms
      BY DEF CreatedOnce
    <3>1. PICK c, m, x, y : /\ c = Cardinality(db.given) /\ m = Cardinality(Initially)
                            /\ x = One(NewPlugin(ui, tasks)) /\ y = One(NewFunction(ui, tasks))
      OBVIOUS
    <3>2. IsFiniteSet(db.given) /\ c + x + y <= m + 1 + forms
      BY <3>1 DEF PageInv, CalmInv, Calm, Counted
    <3>3. c \in Nat /\ m \in Nat /\ forms \in Nat
      BY <3>1, <3>2, PluginsAssumption, FS_CardinalityType DEF PageInv, TypeInv
    <3>4. x \in 0 .. 1 /\ y \in 0 .. 1
      BY <3>1 DEF One
    <3>5. c <= m + 1 + forms
      BY <3>2, <3>3, <3>4
    <3>6. QED
      BY <3>1, <3>5
  <2>3. QED
    BY <2>1, <2>2 DEF SavesAreMeant
<1>6. QED
  BY <1>2, <1>4, <1>5

-----------------------------------------------------------------------------
(* The theorems.                                                           *)

\* The inductive invariant: types, spinners with their handlers, and the calm of a user
\* who waits.
THEOREM PageCorrect == Spec => []PageInv
<1>1. Init => PageInv
  BY InitKeeps
<1>2. PageInv /\ [Next]_vars => PageInv'
  BY NextKeeps
<1>3. QED
  BY <1>1, <1>2, PTL DEF Spec

\* Every variable keeps its type: no plugin is saved without a text, and what the page
\* shows are plugins and functions the services returned, whatever fails and wherever the
\* user goes.
THEOREM TypeCorrect == Spec => []TypeOK
<1>1. PageInv => TypeOK
  BY Promises
<1>2. QED
  BY <1>1, PageCorrect, PTL

\* The list, the selected plugin and its functions are the server's when nothing runs any
\* more after a patient user's clicks, and no spinner outlives its handlers even when
\* requests fail and handlers overlap.
THEOREM ShownCorrect == Spec => []ShownIsTrue
<1>1. PageInv => ShownIsTrue
  BY Promises
<1>2. QED
  BY <1>1, PageCorrect, PTL

\* No update gives a plugin that was there at first the text of another, however late the
\* answers that fill the form, and a patient user gets one record for each form opened.  Of
\* the texts new plugins are created with nothing is claimed.
THEOREM SavesCorrect == Spec => []SavesAreMeant
<1>1. PageInv => SavesAreMeant
  BY Promises
<1>2. QED
  BY <1>1, PageCorrect, PTL
=============================================================================
