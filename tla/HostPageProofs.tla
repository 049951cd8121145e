--------------------------- MODULE HostPageProofs ---------------------------
(***************************************************************************)
(* Safety of the Hosts page for every set of hosts, keys and plugins, any  *)
(* number of handlers and any number of clicks: what is saved is meant,    *)
(* the secret of every key comes to the screen, and what the screen shows  *)
(* is what the server holds.                                               *)
(***************************************************************************)
EXTENDS HostPage, FiniteSetTheorems, WellFoundedInduction, TLAPS

-----------------------------------------------------------------------------
(* The invariants.  They are stated of any records d, parameters u, screen *)
(* s and handlers ts, because a step first makes a screen and then renders *)
(* it.                                                                     *)

\* Functions on a part of the ids: records that come and go.
Partial(S, T) == UNION {[R -> T] : R \in SUBSET S}

\* What may be written to a host: its own text, or what the user typed.
Meant(h, text) == text \in {h, Typed}
\* The hosts in a list with their texts, and a list in which the texts are their own.
Tables == Partial(Hosts, Texts)
Faithful(t) == \A h \in DOMAIN t : Meant(h, t[h])

\* Records of the server: a given id is not given again, and keys belong to hosts that exist.
GoodDb(d) ==
    /\ d \in [hosts : Tables, keys : Partial(Keys, Hosts), links : [Hosts \X Plugins -> Nat],
              given : SUBSET (Hosts \cup Keys)]
    /\ Initially \cup DOMAIN d.hosts \subseteq d.given
    /\ Faithful(d.hosts)
    /\ \A y \in DOMAIN d.keys : d.keys[y] \in DOMAIN d.hosts

Urls == [id : HostIds, tab : PageTabs]

PageType == [hosts : SUBSET (Hosts \cup {Temp}), loading : BOOLEAN, selected : HostIds, temp : BOOLEAN]
DetailsType == [hosts : Tables, loading : BOOLEAN, open : BOOLEAN, editing : BOOLEAN,
                selected : {None} \cup [id : Hosts, text : Texts], form : Texts \cup {Blank},
                saving : BOOLEAN, confirm : BOOLEAN, toDelete : Hosts \cup {None}]
KeysType == [list : SUBSET Keys, loading : BOOLEAN, form : Keys \cup {None, "new"},
             shown : Keys \cup {None}, confirm : Keys \cup {None}]
PluginsType == [assigned : SUBSET Plugins, loading : BOOLEAN, confirm : Plugins \cup {None}]

\* The host that is edited has been taken from the table, with its own text.
GoodDetails(d) ==
    /\ d \in DetailsType
    /\ Faithful(d.hosts)
    /\ d.selected # None => d.editing /\ Meant(d.selected.id, d.selected.text)
\* The form holds the text of the host that is edited, or for a new one nothing, or
\* what the user typed.
GoodForm(d) == d.form \in {IF d.selected = None THEN Blank ELSE d.selected.text, Typed}
\* On the other tabs no host is being edited.
FormIn(u, d) == GoodForm(d) /\ (u.tab # "details" => d.selected = None)
\* The state of the page and of its three tabs.
GoodUi(s) ==
    /\ s \in [page : PageType, details : DetailsType, keys : KeysType, plugins : PluginsType]
    /\ GoodDetails(s.details)

\* What a handler is called with, and the one request it makes.
Thens == {"nothing", "closeForm", "unconfirm"}
GoodArg(t) ==
    \/ t.at = "hosts" /\ t.arg \in [id : HostIds]
    \/ t.at \in {"table", "save", "delete"}
    \/ t.at \in {"keys", "plugins", "plug"} /\ t.arg \in [host : HostIds, then : Thens]
    \/ t.at \in {"submit", "revoke"} /\ t.arg \in [host : HostIds]
\* The requests a handler may make.
Asked(t) ==
    CASE t.at \in {"hosts", "table"} -> {getAllHosts}
      [] t.at = "save" -> {createHost(Typed)}
                          \cup {updateHost(w[1], w[2]) : w \in {v \in Hosts \X Texts : Meant(v[1], v[2])}}
      [] t.at = "delete" -> {deleteHost(h) : h \in Hosts}
      [] t.at = "keys" -> {getKeysForHost(t.arg.host)}
      [] t.at = "submit" -> {generateKeyForHost(t.arg.host)} \cup {updateKey(t.arg.host, y) : y \in Keys}
      [] t.at = "revoke" -> {deleteKey(t.arg.host, y) : y \in Keys}
      [] t.at = "plugins" -> {getPluginsForHost(t.arg.host)}
      [] t.at = "plug" -> {addPluginToHost(t.arg.host, p) : p \in Plugins}
                          \cup {removePluginFromHost(t.arg.host, p) : p \in Plugins}

\* The answer to it, and where a handler is with its request.
Tells(t, r, data) ==
    /\ t.at \in {"hosts", "table"} => data \in Tables /\ Faithful(data)
    /\ t.at = "keys" => data \subseteq Keys
    /\ t.at = "plugins" => data \subseteq Plugins
    /\ (t.at = "submit" /\ r = generateKeyForHost(t.arg.host)) => data \in Keys
\* A handler that waits for its request, and one that has its answer.
Waits(t, r) == t.sent = {r} /\ t.got = <<>>
Told(t, r) == /\ t.sent = {} /\ DOMAIN t.got = {r}
              /\ \/ t.got[r] = Failure
                 \/ t.got[r] = Ok(t.got[r].data) /\ Tells(t, r, t.got[r].data)
\* The handlers that only fetch: one whose tab is gone does nothing any more, so that they
\* are live as long as they run.
OnScreen == {"hosts", "table", "keys", "plugins"}
GoodTask(t) ==
    \/ t = Idle
    \/ /\ t = [at |-> t.at, arg |-> t.arg, sent |-> t.sent, got |-> t.got, live |-> t.live]
       /\ t.live \in BOOLEAN /\ (t.at \in OnScreen => t.live)
       /\ GoodArg(t)
       /\ \E r \in t.sent \cup DOMAIN t.got : r \in Asked(t) /\ (Waits(t, r) \/ Told(t, r))
GoodTasks(ts) == DOMAIN ts = Slots /\ \A k \in Slots : GoodTask(ts[k])

\* Types, with what every step needs of them.
TypeInv == /\ GoodDb(db) /\ url \in Urls
           /\ GoodUi(ui) /\ FormIn(url, ui.details)
           /\ GoodTasks(tasks)

\* A spinner turns as long as a handler that will stop it runs.
Spins(u, s, ts) ==
    /\ s.page.loading => \E k \in Slots : ts[k].at = "hosts"
    /\ u.tab = "details" =>
           /\ s.details.loading => \E k \in Slots : ts[k].at = "table"
           /\ s.details.saving => \E k \in Slots : ts[k].at = "save" /\ ts[k].live
    /\ u.tab = "keys" /\ s.keys.loading =>
           \E k \in Slots : ts[k].at \in {"keys", "submit", "revoke"} /\ ts[k].live
    /\ u.tab = "plugins" /\ s.plugins.loading =>
           \E k \in Slots : ts[k].at \in {"plugins", "plug"} /\ ts[k].live

\* The key whose secret handler t has been told and is about to show.
Generated(t) == {Data(t, r) : r \in {q \in DOMAIN t.got : t.got[q].ok /\ q[1] = "generateKeyForHost"}}
\* As long as the user stays on the tab of keys, every handler that generates one is live,
\* and the secret of every key was shown or is about to be.
Secrets(d, u, ts, shown) ==
    /\ \A k \in Slots : ts[k].at = "submit" => ts[k].live /\ u.tab = "keys"
    /\ \A y \in DOMAIN d.keys : y \in shown \/ \E k \in Slots : ts[k].at = "submit" /\ y \in Generated(ts[k])

\* The handlers of each tab.
PlacesOf(t) ==
    CASE t = "details" -> {"table", "save", "delete"}
      [] t = "keys" -> {"keys", "submit", "revoke"}
      [] t = "plugins" -> {"plugins", "plug"}
\* The keys and the plugins of a host, as the server has them.
OwnersKeys(d, h) == {y \in DOMAIN d.keys : d.keys[y] = h}
Linked(d, h) == {p \in Plugins : d.links[<<h, p>>] > 0}

\* Of a user who waits, while no request fails: at most one handler of the open tab runs,
\* and at most one that fetches the hosts of the page.
OnlyOne(u, ts) ==
    /\ \A k \in Slots : ts[k].at \in {"idle", "hosts"} \cup PlacesOf(u.tab)
    /\ \A k \in Slots : ts[k].at # "idle" => ts[k].live
    /\ \A j, k \in Slots : ts[j].at = "hosts" /\ ts[k].at = "hosts" => j = k
    /\ \A j, k \in Slots : ts[j].at \notin {"idle", "hosts"} /\ ts[k].at \notin {"idle", "hosts"} => j = k
    /\ \A k \in Slots : \A r \in DOMAIN ts[k].got : ts[k].got[r].ok
\* The handler of the tab is about the selected host, and its spinner keeps others away.
ForSelected(u, s, ts) ==
    /\ u.tab = "details" => \A k \in Slots : ts[k].at = "save" => s.details.saving
    /\ u.tab # "details" => \A k \in Slots : ts[k].at \notin {"idle", "hosts"} =>
        /\ ts[k].arg.host = s.page.selected
        /\ u.tab = "keys" => s.keys.loading
        /\ u.tab = "plugins" => s.plugins.loading
        /\ \A j \in Slots : ts[j].at = "hosts" => ts[j].arg.id = s.page.selected
\* What the handler was told, or without one what is shown, is still so.
NoHandler(ts) == \A k \in Slots : ts[k].at \in {"idle", "hosts"}
Current(d, u, s, ts) ==
    /\ u.tab = "details" /\ NoHandler(ts) => s.details.hosts = d.hosts
    /\ u.tab = "keys" /\ NoHandler(ts) /\ s.page.selected # None =>
           s.keys.list = OwnersKeys(d, s.page.selected)
    /\ u.tab = "plugins" /\ NoHandler(ts) /\ s.page.selected # None =>
           s.plugins.assigned = Linked(d, s.page.selected)
    /\ \A k \in Slots : \A r \in DOMAIN ts[k].got :
           /\ ts[k].at = "table" => ts[k].got[r].data = d.hosts
           /\ ts[k].at = "keys" => ts[k].got[r].data = OwnersKeys(d, ts[k].arg.host)
           /\ ts[k].at = "plugins" => ts[k].got[r].data = Linked(d, ts[k].arg.host)
\* A plugin is linked once, and asked to be linked only where it is not.
LinkedOnceIn(d, ts) ==
    /\ \A l \in Hosts \X Plugins : d.links[l] <= 1
    /\ \A k \in Slots : \A h \in Hosts, p \in Plugins :
           addPluginToHost(h, p) \in ts[k].sent => d.links[<<h, p>>] = 0
\* What a patient user may rely on while no request fails.
Calm(d, u, s, ts) ==
    OnlyOne(u, ts) /\ ForSelected(u, s, ts) /\ Current(d, u, s, ts) /\ LinkedOnceIn(d, ts)

SpinInv == Spins(url, ui, tasks)
SecretInv == ~left /\ ~failed => Secrets(db, url, tasks, seen)
CalmInv == ~hasty /\ ~failed => Calm(db, url, ui, tasks)

-----------------------------------------------------------------------------
(* Records that come and go: functions on a part of the ids.               *)

\* What is in Partial(S, T).
LEMMA PartialIs ==
    ASSUME NEW S, NEW T, NEW f
    PROVE  f \in Partial(S, T) <=> /\ f = [x \in DOMAIN f |-> f[x]]
                                   /\ DOMAIN f \subseteq S
                                   /\ \A x \in DOMAIN f : f[x] \in T
<1>1. ASSUME f \in Partial(S, T)
      PROVE  f = [x \in DOMAIN f |-> f[x]] /\ DOMAIN f \subseteq S /\ \A x \in DOMAIN f : f[x] \in T
  <2>1. PICK R \in SUBSET S : f \in [R -> T]
    BY <1>1 DEF Partial
  <2>2. QED
    BY <2>1
<1>2. ASSUME f = [x \in DOMAIN f |-> f[x]], DOMAIN f \subseteq S, \A x \in DOMAIN f : f[x] \in T
      PROVE  f \in Partial(S, T)
  <2>1. f \in [DOMAIN f -> T]
    BY <1>2
  <2>2. DOMAIN f \in SUBSET S
    BY <1>2
  <2>3. QED
    BY <2>1, <2>2 DEF Partial
<1>3. QED
  BY <1>1, <1>2

\* The first answer to a handler.
LEMMA FirstAnswer ==
    ASSUME NEW r, NEW answer
    PROVE  DOMAIN With(<<>>, r, answer) = {r} /\ With(<<>>, r, answer)[r] = answer
<1>1. DOMAIN <<>> = {}
  OBVIOUS
<1>2. QED
  BY <1>1 DEF With

\* Creating, changing and deleting a record.
LEMMA PartialKept ==
    ASSUME NEW S, NEW T, NEW f \in Partial(S, T), NEW x \in S, NEW v \in T
    PROVE  /\ With(f, x, v) \in Partial(S, T)
           /\ x \in DOMAIN f => [f EXCEPT ![x] = v] \in Partial(S, T)
           /\ [y \in DOMAIN f \ {x} |-> f[y]] \in Partial(S, T)
<1>1. DOMAIN f \subseteq S /\ \A y \in DOMAIN f : f[y] \in T
  BY PartialIs
<1>2. With(f, x, v) \in Partial(S, T)
  <2> DEFINE g == With(f, x, v)
  <2>1. /\ g = [y \in DOMAIN g |-> g[y]]
        /\ DOMAIN g = DOMAIN f \cup {x}
        /\ \A y \in DOMAIN g : g[y] = IF y = x THEN v ELSE f[y]
    BY DEF With
  <2> HIDE DEF g
  <2>2. QED
    BY <1>1, <2>1, PartialIs DEF g
<1>3. ASSUME x \in DOMAIN f PROVE [f EXCEPT ![x] = v] \in Partial(S, T)
  <2> DEFINE g == [f EXCEPT ![x] = v]
  <2>1. /\ g = [y \in DOMAIN g |-> g[y]]
        /\ DOMAIN g = DOMAIN f
        /\ \A y \in DOMAIN g : g[y] = IF y = x THEN v ELSE f[y]
    OBVIOUS
  <2> HIDE DEF g
  <2>2. QED
    BY <1>1, <2>1, PartialIs DEF g
<1>4. [y \in DOMAIN f \ {x} |-> f[y]] \in Partial(S, T)
  <2> DEFINE g == [y \in DOMAIN f \ {x} |-> f[y]]
  <2>1. /\ g = [y \in DOMAIN g |-> g[y]]
        /\ DOMAIN g = DOMAIN f \ {x}
        /\ \A y \in DOMAIN g : g[y] = f[y]
    OBVIOUS
  <2> HIDE DEF g
  <2>2. QED
    BY <1>1, <2>1, PartialIs DEF g
<1>5. QED
  BY <1>2, <1>3, <1>4

-----------------------------------------------------------------------------
(* The handlers of the page.                                               *)

\* A handler that begins takes one free slot.
LEMMA BeginIs ==
    ASSUME NEW ts, DOMAIN ts = Slots, HasRoom(ts), NEW e
    PROVE  \E i \in Slots : /\ ts[i].at = "idle"
                            /\ DOMAIN Begin(ts, e) = Slots
                            /\ \A k \in Slots : Begin(ts, e)[k] = IF k = i THEN e ELSE ts[k]
<1>1. Free(ts) \in SUBSET Nat /\ Free(ts) # {} /\ \A k \in Free(ts) : k \in Slots /\ ts[k].at = "idle"
  BY MaxTasksAssumption DEF HasRoom, Free, Running, Slots
<1>2. PICK i \in Free(ts) : Begin(ts, e) = [ts EXCEPT ![i] = e]
  <2>1. \E k \in Free(ts) : \A j \in Free(ts) : k <= j
    <3>1. PICK k \in Free(ts) : \A j \in Free(ts) : ~(<<j, k>> \in OpToRel(<, Nat))
      BY <1>1, NatLessThanWellFounded, WFMin
    <3>2. \A m, n \in Nat : m < n => <<m, n>> \in OpToRel(<, Nat)
      BY DEF OpToRel
    <3>3. \A j \in Free(ts) : j \in Nat /\ k \in Nat /\ ~(j < k)
      BY <1>1, <3>1, <3>2
    <3>4. QED
      BY <3>3
  <2>2. (CHOOSE k \in Free(ts) : \A j \in Free(ts) : k <= j) \in Free(ts)
    BY <2>1
  <2>3. QED
    BY <2>2 DEF Begin
<1>3. QED
  BY <1>1, <1>2

\* A handler with its one request under way.
LEMMA NewTask ==
    ASSUME NEW at, NEW arg, NEW r,
           GoodArg(Task(at, arg, {r})), r \in Asked(Task(at, arg, {r}))
    PROVE  GoodTask(Task(at, arg, {r}))
<1> DEFINE t == Task(at, arg, {r})
<1>1. /\ t = [at |-> t.at, arg |-> t.arg, sent |-> t.sent, got |-> t.got, live |-> t.live]
      /\ t.sent = {r} /\ t.got = <<>> /\ t.live = TRUE
  BY DEF Task
<1>2. GoodArg(t) /\ r \in Asked(t)
  OBVIOUS
<1> HIDE DEF t
<1>3. GoodTask(t)
  BY <1>1, <1>2 DEF GoodTask, Waits
<1>4. QED
  BY <1>3 DEF t

\* What fetches for the screen.
LEMMA Fetches ==
    /\ GoodTask(Idle) /\ GoodTask(fetchTable)
    /\ \A id \in HostIds : GoodTask(fetchHosts(id))
    /\ \A h \in HostIds, then \in Thens : GoodTask(fetchKeys(h, then)) /\ GoodTask(fetchPlugins(h, then))
<1>1. GoodTask(Idle)
  BY DEF GoodTask
<1>2. GoodTask(fetchTable)
  <2>1. GoodArg(fetchTable) /\ getAllHosts \in Asked(fetchTable)
    BY DEF fetchTable, Task, GoodArg, Asked
  <2>2. QED
    BY <2>1, NewTask DEF fetchTable
<1>3. ASSUME NEW id \in HostIds PROVE GoodTask(fetchHosts(id))
  <2>1. GoodArg(fetchHosts(id)) /\ getAllHosts \in Asked(fetchHosts(id))
    BY DEF fetchHosts, Task, GoodArg, Asked
  <2>2. QED
    BY <2>1, NewTask DEF fetchHosts
<1>4. ASSUME NEW h \in HostIds, NEW then \in Thens PROVE GoodTask(fetchKeys(h, then))
  <2>1. GoodArg(fetchKeys(h, then)) /\ getKeysForHost(h) \in Asked(fetchKeys(h, then))
    BY DEF fetchKeys, Task, GoodArg, Asked
  <2>2. QED
    BY <2>1, NewTask DEF fetchKeys
<1>5. ASSUME NEW h \in HostIds, NEW then \in Thens PROVE GoodTask(fetchPlugins(h, then))
  <2>1. GoodArg(fetchPlugins(h, then)) /\ getPluginsForHost(h) \in Asked(fetchPlugins(h, then))
    BY DEF fetchPlugins, Task, GoodArg, Asked
  <2>2. QED
    BY <2>1, NewTask DEF fetchPlugins
<1>6. QED
  BY <1>1, <1>2, <1>3, <1>4, <1>5

\* A handler whose request is under way, and one whose request is answered.
LEMMA Asking ==
    ASSUME NEW t, GoodTask(t), NEW r \in t.sent
    PROVE  /\ t = [at |-> t.at, arg |-> t.arg, sent |-> t.sent, got |-> t.got, live |-> t.live]
           /\ t.at # "idle" /\ GoodArg(t) /\ r \in Asked(t) /\ t.sent = {r} /\ t.got = <<>>
           /\ t.live \in BOOLEAN /\ (t.at \in OnScreen => t.live)
<1>1. t # Idle
  BY DEF Idle
<1>2. GoodArg(t) => t.at # "idle"
  BY DEF GoodArg
<1>3. QED
  BY <1>1, <1>2 DEF GoodTask, Waits, Told

\* A handler that awaits nothing has the answer to its one request.
LEMMA Answers ==
    ASSUME NEW t, GoodTask(t), t.at # "idle", t.sent = {}
    PROVE  /\ t.live \in BOOLEAN /\ (t.at \in OnScreen => t.live) /\ GoodArg(t)
           /\ \E r \in Asked(t) :
                 /\ DOMAIN t.got = {r}
                 /\ ~Threw(t) => t.got[r].ok /\ Tells(t, r, t.got[r].data)
<1>1. t # Idle
  BY DEF Idle
<1>2. PICK r \in t.sent \cup DOMAIN t.got : r \in Asked(t) /\ (Waits(t, r) \/ Told(t, r))
  BY <1>1 DEF GoodTask
<1>3. Told(t, r)
  BY <1>2 DEF Waits
<1>4. ASSUME ~Threw(t) PROVE t.got[r].ok /\ Tells(t, r, t.got[r].data)
  <2>1. t.got[r].ok
    BY <1>3, <1>4 DEF Told, Threw
  <2>2. ~Failure.ok
    BY DEF Failure
  <2>3. QED
    BY <1>3, <2>1, <2>2 DEF Told
<1>5. QED
  BY <1>1, <1>2, <1>3, <1>4 DEF GoodTask, Told

\* A tab that goes takes its fetches with it; its other handlers go on.
LEMMA UnmountedIs ==
    ASSUME NEW ts, GoodTasks(ts)
    PROVE  /\ GoodTasks(Unmounted(ts))
           /\ \A k \in Slots :
                 /\ ts[k].at \in {"idle", "table", "keys", "plugins"} => Unmounted(ts)[k] = Idle
                 /\ ts[k].at \notin {"idle", "table", "keys", "plugins"} =>
                       Unmounted(ts)[k] = [ts[k] EXCEPT !.live = (ts[k].at = "hosts")]
                 /\ Unmounted(ts)[k].at \in {"idle", ts[k].at}
<1>1. DOMAIN Unmounted(ts) = Slots
  BY DEF Unmounted
<1>2. ASSUME NEW k \in Slots
      PROVE  LET t == Unmounted(ts)[k] IN
             /\ GoodTask(t)
             /\ ts[k].at \in {"idle", "table", "keys", "plugins"} => t = Idle
             /\ ts[k].at \notin {"idle", "table", "keys", "plugins"} => t = [ts[k] EXCEPT !.live = (ts[k].at = "hosts")]
             /\ t.at \in {"idle", ts[k].at}
  <2> DEFINE t == Unmounted(ts)[k]
             o == ts[k]
  <2>1. t = IF o.at \in {"table", "keys", "plugins"} THEN Idle ELSE [o EXCEPT !.live = (o.at = "hosts")]
    BY DEF Unmounted
  <2>2. GoodTask(o)
    BY DEF GoodTasks
  <2> HIDE DEF t, o
  <2>3. CASE o.at \in {"table", "keys", "plugins"}
    BY <2>1, <2>3, Fetches DEF Idle, o, t
  <2>4. CASE o.at = "idle"
    <3>1. o = Idle
      BY <2>2, <2>4 DEF GoodTask, GoodArg
    <3>2. t = Idle
      BY <2>1, <2>4, <3>1 DEF Idle
    <3>3. QED
      BY <2>4, <3>2, Fetches DEF Idle, o, t
  <2>5. CASE o.at \notin {"idle", "table", "keys", "plugins"}
    <3>1. /\ o = [at |-> o.at, arg |-> o.arg, sent |-> o.sent, got |-> o.got, live |-> o.live]
          /\ GoodArg(o)
      BY <2>2, <2>5 DEF GoodTask, Idle
    <3>2. PICK r \in o.sent \cup DOMAIN o.got : r \in Asked(o) /\ (Waits(o, r) \/ Told(o, r))
      BY <2>2, <2>5 DEF GoodTask, Idle
    <3>3. /\ t = [at |-> t.at, arg |-> t.arg, sent |-> t.sent, got |-> t.got, live |-> t.live]
          /\ t.at = o.at /\ t.arg = o.arg /\ t.sent = o.sent /\ t.got = o.got
          /\ t.live = (o.at = "hosts")
      BY <2>1, <2>5, <3>1
    <3>4. GoodArg(t) /\ Asked(t) = Asked(o)
      BY <3>1, <3>3 DEF GoodArg, Asked
    <3>5. Waits(t, r) \/ Told(t, r)
      BY <3>2, <3>3 DEF Waits, Told, Tells
    <3>6. t.at \in OnScreen => t.live
      BY <2>5, <3>3 DEF OnScreen
    <3>7. GoodTask(t)
      BY <3>2, <3>3, <3>4, <3>5, <3>6 DEF GoodTask
    <3>8. QED
      BY <2>1, <2>5, <3>3, <3>7 DEF o, t
  <2>6. QED
    BY <2>3, <2>4, <2>5
<1>3. QED
  BY <1>1, <1>2 DEF GoodTasks

-----------------------------------------------------------------------------
(* Rendering.                                                              *)

\* What a render at URL u with the state s does: the tab changes, the handlers of the old
\* one are unmounted, and the effects of the open tab begin a fetch or reset its state.
Moved(u) == u.tab # url.tab
Switched(s, u) == s.page.selected # None /\ (Moved(u) \/ s.page.selected # ui.page.selected)
Kept(u, ts) == IF Moved(u) THEN Unmounted(ts) ELSE ts
Began(s, u) == TabFetch(s, Moved(u), u.tab)
After(s, u) == WithTab(s, Moved(u), u.tab)

\* What the tab that is open shows after rendering.
LEMMA TabIs ==
    ASSUME NEW s, GoodUi(s), NEW u \in Urls, NEW w, w = After(s, u)
    PROVE  /\ w = [page |-> w.page, details |-> w.details, keys |-> w.keys, plugins |-> w.plugins]
           /\ w.page = s.page
           /\ w.details = IF Moved(u) THEN NoDetails
                          ELSE IF u.tab = "details" THEN ModalFilled(s.details) ELSE s.details
           /\ u.tab = "keys" /\ Switched(s, u) =>
                 /\ w.keys.list = {} /\ w.keys.loading /\ w.keys \in KeysType
           /\ u.tab # "keys" \/ ~Switched(s, u) => w.keys = IF Moved(u) THEN NoKeys ELSE s.keys
           /\ u.tab = "plugins" /\ Switched(s, u) =>
                 /\ w.plugins.assigned = {} /\ w.plugins.loading /\ w.plugins \in PluginsType
           /\ u.tab # "plugins" \/ ~Switched(s, u) => w.plugins = IF Moved(u) THEN NoPlugins ELSE s.plugins
<1> DEFINE n == IF Moved(u) THEN [s EXCEPT !.details = NoDetails, !.keys = NoKeys, !.plugins = NoPlugins] ELSE s
<1>1. s \in [page : PageType, details : DetailsType, keys : KeysType, plugins : PluginsType]
  BY DEF GoodUi
<1>2. /\ n = [page |-> n.page, details |-> n.details, keys |-> n.keys, plugins |-> n.plugins]
      /\ n.page = s.page
      /\ n.details = IF Moved(u) THEN NoDetails ELSE s.details
      /\ n.keys = IF Moved(u) THEN NoKeys ELSE s.keys
      /\ n.plugins = IF Moved(u) THEN NoPlugins ELSE s.plugins
  BY <1>1
<1>3. NoKeys \in KeysType /\ NoPlugins \in PluginsType
  BY DEF NoKeys, NoPlugins, KeysType, PluginsType
<1>4. n.keys \in KeysType /\ n.plugins \in PluginsType
  BY <1>1, <1>2, <1>3
<1>5. /\ u.tab = "details" /\ ~Moved(u) => w = [n EXCEPT !.details = ModalFilled(@)]
      /\ u.tab = "keys" /\ Switched(s, u) =>
            w = [n EXCEPT !.keys = [NoKeys EXCEPT !.loading = TRUE, !.confirm = n.keys.confirm]]
      /\ u.tab = "plugins" /\ Switched(s, u) =>
            w = [n EXCEPT !.plugins = [@ EXCEPT !.assigned = {}, !.loading = TRUE]]
      /\ \/ u.tab = "details" /\ ~Moved(u)
         \/ u.tab = "keys" /\ Switched(s, u)
         \/ u.tab = "plugins" /\ Switched(s, u)
         \/ w = n
  BY DEF After, WithTab, Switched
<1> HIDE DEF n
<1>6. CASE u.tab = "details"
  BY <1>2, <1>5, <1>6
<1>7. CASE u.tab = "keys"
  <2>1. CASE Switched(s, u)
    <3> DEFINE y == [NoKeys EXCEPT !.loading = TRUE, !.confirm = n.keys.confirm]
    <3>1. y \in KeysType /\ y.list = {} /\ y.loading
      BY <1>4 DEF NoKeys, KeysType
    <3>2. w = [n EXCEPT !.keys = y]
      BY <1>5, <1>7, <2>1
    <3> HIDE DEF y
    <3>3. QED
      BY <1>2, <1>7, <2>1, <3>1, <3>2
  <2>2. CASE ~Switched(s, u)
    BY <1>2, <1>5, <1>7, <2>2
  <2>3. QED
    BY <2>1, <2>2
<1>8. CASE u.tab = "plugins"
  <2>1. CASE Switched(s, u)
    <3> DEFINE y == [n.plugins EXCEPT !.assigned = {}, !.loading = TRUE]
    <3>1. y \in PluginsType /\ y.assigned = {} /\ y.loading
      BY <1>4 DEF PluginsType
    <3>2. w = [n EXCEPT !.plugins = y]
      BY <1>2, <1>5, <1>8, <2>1
    <3> HIDE DEF y
    <3>3. QED
      BY <1>2, <1>8, <2>1, <3>1, <3>2
  <2>2. CASE ~Switched(s, u)
    BY <1>2, <1>5, <1>8, <2>2
  <2>3. QED
    BY <2>1, <2>2
<1>9. QED
  BY <1>6, <1>7, <1>8 DEF Urls, PageTabs

\* The fetch of the tab that is open.
LEMMA FetchIs ==
    ASSUME NEW s, GoodUi(s), NEW u \in Urls
    PROVE  /\ GoodTask(Began(s, u))
           /\ Began(s, u) # Idle => Began(s, u).at # "idle" /\ Began(s, u).at # "hosts" /\ Began(s, u).live
                                    /\ Began(s, u).at \in OnScreen /\ Began(s, u).got = <<>>
                                    /\ Began(s, u).at \in PlacesOf(u.tab)
           /\ u.tab = "details" /\ Moved(u) => Began(s, u).at = "table"
           /\ u.tab = "keys" /\ Switched(s, u) =>
                 /\ Began(s, u).at = "keys" /\ Began(s, u).arg.host = s.page.selected
                 /\ Began(s, u).sent = {getKeysForHost(s.page.selected)}
           /\ u.tab = "plugins" /\ Switched(s, u) =>
                 /\ Began(s, u).at = "plugins" /\ Began(s, u).arg.host = s.page.selected
                 /\ Began(s, u).sent = {getPluginsForHost(s.page.selected)}
           /\ Moved(u) \/ Switched(s, u) \/ Began(s, u) = Idle
           /\ u.tab \in {"keys", "plugins"} /\ ~Switched(s, u) => Began(s, u) = Idle
           /\ u.tab = "details" /\ Began(s, u) # Idle => Began(s, u) = fetchTable
<1> DEFINE h == s.page.selected
           e == Began(s, u)
<1>1. h \in HostIds
  BY DEF GoodUi, PageType
<1>2. e = CASE u.tab = "details" /\ Moved(u) -> fetchTable
            [] u.tab = "keys" /\ Switched(s, u) -> fetchKeys(h, "nothing")
            [] u.tab = "plugins" /\ Switched(s, u) -> fetchPlugins(h, "nothing")
            [] OTHER -> Idle
  BY DEF Began, TabFetch, Switched
<1>3. u.tab \in {"details", "keys", "plugins"} /\ "nothing" \in Thens
  BY DEF Urls, PageTabs, Thens
<1>4. GoodTask(e)
  BY <1>1, <1>2, <1>3, Fetches
<1>5. CASE u.tab = "details" /\ Moved(u)
  BY <1>2, <1>4, <1>5 DEF fetchTable, Task, OnScreen, PlacesOf
<1>6. CASE u.tab = "keys" /\ Switched(s, u)
  BY <1>2, <1>4, <1>6 DEF fetchKeys, Task, OnScreen, PlacesOf
<1>7. CASE u.tab = "plugins" /\ Switched(s, u)
  BY <1>2, <1>4, <1>7 DEF fetchPlugins, Task, OnScreen, PlacesOf
<1>8. CASE ~\/ u.tab = "details" /\ Moved(u)
            \/ u.tab = "keys" /\ Switched(s, u)
            \/ u.tab = "plugins" /\ Switched(s, u)
  BY <1>2, <1>3, <1>4, <1>8 DEF Switched
<1>9. QED
  BY <1>5, <1>6, <1>7, <1>8

\* The handlers after rendering: the fetch of the tab, and that of the page when the id
\* in the URL is another.
LEMMA RenderStarts ==
    ASSUME NEW s, GoodUi(s), NEW u \in Urls, NEW ts, DOMAIN Kept(u, ts) = Slots, Render(s, u, ts)
    PROVE  \E i, j \in Slots \cup {0} :
              /\ i = 0 <=> Began(s, u) = Idle
              /\ j = 0 <=> u.id = url.id
              /\ i # j \/ i = 0
              /\ DOMAIN tasks' = Slots
              /\ \A k \in Slots : tasks'[k] = IF k = i THEN Began(s, u)
                                              ELSE IF k = j THEN fetchHosts(u.id) ELSE Kept(u, ts)[k]
              /\ \A k \in Slots : k \in {i, j} => Kept(u, ts)[k].at = "idle"
<1> DEFINE kept == Kept(u, ts)
           e == Began(s, u)
           begun == IF e = Idle THEN kept ELSE Begin(kept, e)
<1>1. /\ e # Idle => HasRoom(kept)
      /\ u.id # url.id => HasRoom(begun)
      /\ tasks' = IF u.id # url.id THEN Begin(begun, fetchHosts(u.id)) ELSE begun
  BY DEF Render, Kept, Began, Moved
<1>2. e # Idle => e.at # "idle"
  BY FetchIs
<1>3. DOMAIN kept = Slots /\ 0 \notin Slots
  BY DEF Slots
<1> HIDE DEF kept, e
<1>4. PICK i \in Slots \cup {0} :
        /\ i = 0 <=> e = Idle
        /\ DOMAIN begun = Slots
        /\ \A k \in Slots : begun[k] = IF k = i THEN e ELSE kept[k]
        /\ \A k \in Slots : k = i => kept[k].at = "idle"
  <2>1. CASE e = Idle
    BY <1>3, <2>1
  <2>2. CASE e # Idle
    <3>1. PICK i \in Slots : /\ kept[i].at = "idle"
                             /\ DOMAIN Begin(kept, e) = Slots
                             /\ \A k \in Slots : Begin(kept, e)[k] = IF k = i THEN e ELSE kept[k]
      BY <1>1, <1>3, <2>2, BeginIs
    <3>2. QED
      BY <1>3, <2>2, <3>1
  <2>3. QED
    BY <2>1, <2>2
<1> HIDE DEF begun
<1>5. CASE u.id = url.id
  BY <1>1, <1>3, <1>4, <1>5 DEF e, kept
<1>6. CASE u.id # url.id
  <2> DEFINE f == fetchHosts(u.id)
  <2>1. PICK j \in Slots : /\ begun[j].at = "idle"
                           /\ DOMAIN Begin(begun, f) = Slots
                           /\ \A k \in Slots : Begin(begun, f)[k] = IF k = j THEN f ELSE begun[k]
    BY <1>1, <1>4, <1>6, BeginIs
  <2>2. j # i /\ kept[j].at = "idle"
    BY <1>2, <1>3, <1>4, <2>1
  <2>3. tasks' = Begin(begun, f)
    BY <1>1, <1>6
  <2> HIDE DEF f
  <2>4. \A k \in Slots : tasks'[k] = IF k = i THEN e ELSE IF k = j THEN f ELSE kept[k]
    BY <1>4, <2>1, <2>2, <2>3
  <2>5. QED
    BY <1>3, <1>4, <1>6, <2>1, <2>2, <2>3, <2>4 DEF e, kept, f
<1>7. QED
  BY <1>5, <1>6

\* The screen after rendering.
LEMMA RenderShows ==
    ASSUME NEW s, GoodUi(s), NEW u \in Urls, NEW ts, Render(s, u, ts)
    PROVE  \E w : /\ w = After(s, u)
                  /\ ui' = [page |-> ui'.page, details |-> w.details, keys |-> w.keys, plugins |-> w.plugins]
                  /\ ui'.page = [hosts |-> s.page.hosts, loading |-> s.page.loading \/ u.id # url.id,
                                 selected |-> s.page.selected, temp |-> s.page.temp]
                  /\ url' = u
<1> DEFINE w == After(s, u)
<1>1. ui' = [w EXCEPT !.page.loading = @ \/ u.id # url.id] /\ url' = u
  BY DEF Render, Moved, After
<1>2. w = [page |-> w.page, details |-> w.details, keys |-> w.keys, plugins |-> w.plugins] /\ w.page = s.page
  BY TabIs
<1>3. s.page = [hosts |-> s.page.hosts, loading |-> s.page.loading, selected |-> s.page.selected, temp |-> s.page.temp]
  BY DEF GoodUi, PageType
<1> HIDE DEF w
<1>4. [s.page EXCEPT !.loading = @ \/ u.id # url.id] =
        [hosts |-> s.page.hosts, loading |-> s.page.loading \/ u.id # url.id,
         selected |-> s.page.selected, temp |-> s.page.temp]
  BY <1>3
<1>5. ui' = [page |-> [s.page EXCEPT !.loading = @ \/ u.id # url.id], details |-> w.details,
             keys |-> w.keys, plugins |-> w.plugins]
  BY <1>1, <1>2
<1>6. /\ ui' = [page |-> ui'.page, details |-> w.details, keys |-> w.keys, plugins |-> w.plugins]
      /\ ui'.page = [hosts |-> s.page.hosts, loading |-> s.page.loading \/ u.id # url.id,
                     selected |-> s.page.selected, temp |-> s.page.temp]
  BY <1>4, <1>5
<1>7. QED
  BY <1>1, <1>6 DEF w

\* Filling the modal changes nothing but its form.
\* What is in it is so then, unless it was not so before and the host was not dropped.
LEMMA Fills ==
    ASSUME NEW d, GoodDetails(d), NEW f, f = ModalFilled(d)
    PROVE  /\ GoodDetails(f)
           /\ GoodForm(d) \/ (GoodForm(ui.details) /\ d.form = ui.details.form) => GoodForm(f)
           /\ f.hosts = d.hosts /\ f.loading = d.loading /\ f.saving = d.saving
<1>1. /\ d \in DetailsType /\ Faithful(d.hosts)
      /\ d.selected # None => d.editing /\ Meant(d.selected.id, d.selected.text)
  BY DEF GoodDetails
<1>2. d.selected # None => d.selected.text \in Texts
  BY <1>1 DEF DetailsType
<1>3. PICK x \in Texts \cup {Blank} :
        /\ f = [d EXCEPT !.form = x]
        /\ d.selected # None => x = d.selected.text
        /\ d.selected = None => x = IF ui.details.selected # None THEN Blank ELSE d.form
  <2>1. CASE d.selected # None
    BY <1>2, <2>1 DEF ModalFilled
  <2>2. CASE d.selected = None /\ ui.details.selected # None
    BY <2>2 DEF ModalFilled
  <2>3. CASE d.selected = None /\ ui.details.selected = None
    <3>1. d = [d EXCEPT !.form = d.form] /\ d.form \in Texts \cup {Blank}
      BY <1>1 DEF DetailsType
    <3>2. f = d
      BY <2>3 DEF ModalFilled
    <3>3. QED
      BY <2>3, <3>1, <3>2
  <2>4. QED
    BY <2>1, <2>2, <2>3
<1>4. /\ f \in DetailsType /\ f.hosts = d.hosts /\ f.loading = d.loading /\ f.saving = d.saving
      /\ f.selected = d.selected /\ f.editing = d.editing /\ f.form = x
  BY <1>1, <1>3 DEF DetailsType
<1>5. QED
  BY <1>1, <1>3, <1>4 DEF GoodDetails, GoodForm

\* The tabs as they are mounted.
LEMMA EmptyTabs == GoodDetails(NoDetails) /\ GoodForm(NoDetails) /\ NoDetails.selected = None /\ NoKeys \in KeysType /\ NoPlugins \in PluginsType
<1>1. <<>> \in Tables /\ DOMAIN <<>> = {}
  <2>1. <<>> \in [{} -> Texts] /\ {} \in SUBSET Hosts
    OBVIOUS
  <2>2. QED
    BY <2>1 DEF Tables, Partial
<1>2. NoDetails \in DetailsType
  BY <1>1 DEF NoDetails, DetailsType
<1>3. GoodDetails(NoDetails) /\ GoodForm(NoDetails) /\ NoDetails.selected = None
  BY <1>1, <1>2 DEF GoodDetails, FormIn, GoodForm, Faithful, NoDetails
<1>4. QED
  BY <1>3 DEF NoKeys, NoPlugins, KeysType, PluginsType

\* The form of screen s is as it should be, or no click or handler has touched it and
\* rendering will fill it.
FormStays(s) == FormIn(url, s.details) \/ (url.tab = "details" /\ s.details.form = ui.details.form)

\* Rendering keeps the types, and what is in the form of the modal.
LEMMA RenderKeepsTypes ==
    ASSUME TypeInv, NEW s, GoodUi(s), NEW u \in Urls, NEW ts, GoodTasks(ts), Render(s, u, ts),
           ~Moved(u) => FormStays(s)
    PROVE  url' \in Urls /\ GoodUi(ui)' /\ FormIn(url, ui.details)' /\ GoodTasks(tasks)'
<1>1. PICK w : /\ w = After(s, u)
               /\ ui' = [page |-> ui'.page, details |-> w.details, keys |-> w.keys, plugins |-> w.plugins]
               /\ ui'.page = [hosts |-> s.page.hosts, loading |-> s.page.loading \/ u.id # url.id,
                              selected |-> s.page.selected, temp |-> s.page.temp]
               /\ url' = u
  BY RenderShows
<1>2. s.page \in PageType /\ s.keys \in KeysType /\ s.plugins \in PluginsType /\ GoodDetails(s.details)
  BY DEF GoodUi
<1>3. ui'.page \in PageType
  BY <1>1, <1>2 DEF PageType
<1>4. w.keys \in KeysType /\ w.plugins \in PluginsType
  BY <1>1, <1>2, TabIs, EmptyTabs
<1>5. GoodDetails(w.details) /\ FormIn(u, w.details)
  <2>1. CASE Moved(u)
    BY <1>1, <2>1, TabIs, EmptyTabs DEF FormIn
  <2>2. CASE ~Moved(u) /\ u.tab = "details"
    <3>1. w.details = ModalFilled(s.details)
      BY <1>1, <2>2, TabIs
    <3>2. QED
      BY <1>2, <2>2, <3>1, Fills DEF FormStays, FormIn, TypeInv
  <2>3. CASE ~Moved(u) /\ u.tab # "details"
    BY <1>1, <1>2, <2>3, TabIs DEF FormStays, FormIn, Moved
  <2>4. QED
    BY <2>1, <2>2, <2>3
<1>6. GoodUi(ui') /\ FormIn(url', ui'.details)
  <2>1. w.details \in DetailsType
    BY <1>5 DEF GoodDetails
  <2>2. QED
    BY <1>1, <1>3, <1>4, <1>5, <2>1 DEF GoodUi
<1>7. GoodTasks(tasks')
  <2>1. GoodTasks(Kept(u, ts))
    BY UnmountedIs DEF Kept
  <2>2. PICK i, j \in Slots \cup {0} :
              /\ i = 0 <=> Began(s, u) = Idle
              /\ j = 0 <=> u.id = url.id
              /\ i # j \/ i = 0
              /\ DOMAIN tasks' = Slots
              /\ \A k \in Slots : tasks'[k] = IF k = i THEN Began(s, u)
                                              ELSE IF k = j THEN fetchHosts(u.id) ELSE Kept(u, ts)[k]
              /\ \A k \in Slots : k \in {i, j} => Kept(u, ts)[k].at = "idle"
    BY <2>1, RenderStarts DEF GoodTasks
  <2>3. GoodTask(Began(s, u))
    BY FetchIs
  <2>4. u.id \in HostIds
    BY DEF Urls
  <2>5. GoodTask(fetchHosts(u.id))
    BY <2>4, Fetches
  <2>6. \A k \in Slots : GoodTask(tasks'[k])
    BY <2>1, <2>2, <2>3, <2>5 DEF GoodTasks
  <2>7. QED
    BY <2>2, <2>6 DEF GoodTasks
<1>8. QED
  BY <1>1, <1>6, <1>7 DEF GoodUi, FormIn, GoodForm, GoodTasks

\* Rendering a page whose URL and selected host stay only fills the modal.
LEMMA RenderHere ==
    ASSUME TypeInv, NEW s, GoodUi(s), s.page.selected = ui.page.selected, NEW ts, Render(s, url, ts)
    PROVE  /\ url' = url /\ tasks' = ts
           /\ ui'.page = s.page /\ ui'.keys = s.keys /\ ui'.plugins = s.plugins
           /\ ui'.details.hosts = s.details.hosts /\ ui'.details.loading = s.details.loading
           /\ ui'.details.saving = s.details.saving
           /\ GoodUi(ui)'
           /\ FormStays(s) => FormIn(url, ui.details)'
<1>1. ~Moved(url) /\ ~Switched(s, url) /\ url \in Urls /\ url.id = url.id
  BY DEF Moved, Switched, TypeInv
<1>2. Began(s, url) = Idle
  BY <1>1, FetchIs
<1>3. url' = url /\ tasks' = ts
  BY <1>1, <1>2 DEF Render, Began, Moved
<1>4. PICK w : /\ w = After(s, url)
               /\ ui' = [page |-> ui'.page, details |-> w.details, keys |-> w.keys, plugins |-> w.plugins]
               /\ ui'.page = [hosts |-> s.page.hosts, loading |-> s.page.loading \/ url.id # url.id,
                              selected |-> s.page.selected, temp |-> s.page.temp]
  BY <1>1, RenderShows
<1>5. s.page \in PageType /\ s.keys \in KeysType /\ s.plugins \in PluginsType /\ GoodDetails(s.details)
  BY DEF GoodUi
<1>6. ui'.page = s.page
  BY <1>4, <1>5 DEF PageType
<1>7. /\ w.keys = s.keys /\ w.plugins = s.plugins
      /\ w.details = IF url.tab = "details" THEN ModalFilled(s.details) ELSE s.details
  BY <1>1, <1>4, TabIs
<1>8. /\ GoodDetails(w.details) /\ (FormStays(s) => FormIn(url, w.details))
      /\ w.details.hosts = s.details.hosts /\ w.details.loading = s.details.loading
      /\ w.details.saving = s.details.saving
  BY <1>5, <1>7, Fills DEF FormStays, FormIn, TypeInv
<1>9. GoodUi(ui')
  <2>1. w.details \in DetailsType
    BY <1>8 DEF GoodDetails
  <2>2. QED
    BY <1>4, <1>5, <1>6, <1>7, <1>8, <2>1 DEF GoodUi
<1>10. QED
  BY <1>3, <1>4, <1>6, <1>7, <1>8, <1>9 DEF GoodUi, FormIn, GoodForm

-----------------------------------------------------------------------------
(* What keeps the invariants, whatever the action is about.                *)

PageInv == TypeInv /\ SpinInv /\ SecretInv /\ CalmInv

\* Data the invariants speak of, which a click on the screen leaves alone.
SameData == /\ ui'.page = ui.page
            /\ ui'.details.hosts = ui.details.hosts /\ ui'.details.loading = ui.details.loading
            /\ ui'.keys.list = ui.keys.list /\ ui'.plugins.assigned = ui.plugins.assigned

\* Opening, closing and typing.
LEMMA ScreenOnly ==
    ASSUME PageInv, UNCHANGED <<db, url, tasks, failed, left, seen>>, ~hasty' => ~hasty,
           SameData, ui'.details.saving = ui.details.saving, ui'.keys.loading = ui.keys.loading,
           ui'.plugins.loading = ui.plugins.loading, GoodUi(ui)', FormIn(url, ui.details)'
    PROVE  PageInv'
<1>1. TypeInv'
  BY DEF PageInv, TypeInv
<1>2. SpinInv'
  BY DEF PageInv, SpinInv, Spins, SameData
<1>3. SecretInv'
  BY DEF PageInv, SecretInv, Secrets
<1>4. CalmInv'
  <2> SUFFICES ASSUME ~hasty', ~failed' PROVE Calm(db, url, ui, tasks)'
    BY DEF CalmInv
  <2>1. Calm(db, url, ui, tasks)
    BY DEF PageInv, CalmInv
  <2>2. OnlyOne(url, tasks)' /\ LinkedOnceIn(db, tasks)'
    BY <2>1 DEF Calm, OnlyOne, LinkedOnceIn
  <2>3. ForSelected(url, ui, tasks)' /\ Current(db, url, ui, tasks)'
    BY <2>1 DEF Calm, ForSelected, Current, NoHandler, SameData
  <2>4. QED
    BY <2>2, <2>3 DEF Calm
<1>5. QED
  BY <1>1, <1>2, <1>3, <1>4 DEF PageInv

\* A handler that writes begins, on a page where a patient user has let all others end.
Writes(t) ==
    /\ t = Task(t.at, t.arg, t.sent)
    /\ \/ url.tab = "details" /\ t.at = "save" /\ ui'.details.saving
       \/ url.tab = "details" /\ t.at = "delete" /\ ui'.details.saving = ui.details.saving
       \/ /\ url.tab = "keys" /\ t.at \in {"submit", "revoke"} /\ ui'.keys.loading
          /\ t.arg.host = ui.page.selected
       \/ /\ url.tab = "plugins" /\ t.at = "plug" /\ ui'.plugins.loading
          /\ t.arg.host = ui.page.selected
Patient(t) ==
    ~hasty' /\ ~failed =>
        /\ ~hasty /\ ~Busy
        /\ \A h \in Hosts, p \in Plugins : addPluginToHost(h, p) \in t.sent => db.links[<<h, p>>] = 0

\* Such a handler begins without harm.
LEMMA WriterBegins ==
    ASSUME PageInv, UNCHANGED <<db, url, failed, left, seen>>, SameData, GoodUi(ui)', FormIn(url, ui.details)',
           NEW t, GoodTask(t), Writes(t), Patient(t), HasRoom(tasks), tasks' = Begin(tasks, t)
    PROVE  PageInv'
<1>1. t.got = <<>> /\ t.live
  BY DEF Writes, Task
<1>2. PICK i \in Slots : /\ tasks[i].at = "idle"
                         /\ DOMAIN tasks' = Slots
                         /\ \A k \in Slots : tasks'[k] = IF k = i THEN t ELSE tasks[k]
  BY BeginIs DEF PageInv, TypeInv, GoodTasks
<1>3. \A k \in Slots : tasks[k].at # "idle" => tasks'[k] = tasks[k]
  BY <1>2
<1>4. tasks'[i] = t
  BY <1>2
<1>5. TypeInv'
  BY <1>2 DEF PageInv, TypeInv, GoodTasks
<1>6. SpinInv'
  <2>1. Spins(url, ui, tasks)
    BY DEF PageInv, SpinInv
  <2>2. ui'.page.loading => \E k \in Slots : tasks'[k].at = "hosts"
    BY <1>3, <2>1 DEF Spins, SameData
  <2>3. CASE url.tab = "details"
    <3>1. ui'.details.loading => \E k \in Slots : tasks'[k].at = "table"
      BY <1>3, <2>1, <2>3 DEF Spins, SameData
    <3>2. ui'.details.saving => \E k \in Slots : tasks'[k].at = "save" /\ tasks'[k].live
      <4>1. CASE t.at = "save"
        BY <1>1, <1>4, <4>1
      <4>2. CASE ui'.details.saving = ui.details.saving
        BY <1>3, <2>1, <2>3, <4>2 DEF Spins
      <4>3. QED
        BY <2>3, <4>1, <4>2 DEF Writes
    <3>3. QED
      BY <2>2, <2>3, <3>1, <3>2 DEF SpinInv, Spins
  <2>4. CASE url.tab = "keys"
    <3>1. t.at \in {"submit", "revoke"}
      BY <2>4 DEF Writes
    <3>2. \E k \in Slots : tasks'[k].at \in {"keys", "submit", "revoke"} /\ tasks'[k].live
      BY <1>1, <1>4, <3>1
    <3>3. QED
      BY <2>2, <2>4, <3>2 DEF SpinInv, Spins
  <2>5. CASE url.tab = "plugins"
    <3>1. t.at = "plug"
      BY <2>5 DEF Writes
    <3>2. \E k \in Slots : tasks'[k].at \in {"plugins", "plug"} /\ tasks'[k].live
      BY <1>1, <1>4, <3>1
    <3>3. QED
      BY <2>2, <2>5, <3>2 DEF SpinInv, Spins
  <2>6. QED
    BY <2>3, <2>4, <2>5 DEF Writes
<1>7. SecretInv'
  <2> SUFFICES ASSUME ~left', ~failed' PROVE Secrets(db, url, tasks, seen)'
    BY DEF SecretInv
  <2>1. Secrets(db, url, tasks, seen)
    BY DEF PageInv, SecretInv
  <2>2. t.at = "submit" => url.tab = "keys"
    BY DEF Writes
  <2>3. ASSUME NEW k \in Slots, tasks'[k].at = "submit" PROVE tasks'[k].live /\ url.tab = "keys"
    <3>1. CASE k = i
      BY <1>1, <1>4, <2>2, <2>3, <3>1
    <3>2. CASE k # i
      BY <1>2, <2>1, <2>3, <3>2, Zenon DEF Secrets
    <3>3. QED
      BY <3>1, <3>2
  <2>4. \A k \in Slots : tasks[k].at = "submit" => tasks'[k] = tasks[k]
    BY <1>3
  <2>5. \A y \in DOMAIN db.keys : y \in seen \/ \E k \in Slots : tasks'[k].at = "submit" /\ y \in Generated(tasks'[k])
    BY <2>1, <2>4, Zenon DEF Secrets
  <2>6. QED
    BY <2>3, <2>5 DEF Secrets
<1>8. CalmInv'
  <2> SUFFICES ASSUME ~hasty', ~failed' PROVE Calm(db, url, ui, tasks)'
    BY DEF CalmInv
  <2>1. /\ ~hasty /\ ~Busy /\ ~failed
        /\ \A h \in Hosts, p \in Plugins : addPluginToHost(h, p) \in t.sent => db.links[<<h, p>>] = 0
    BY DEF Patient
  <2>2. Calm(db, url, ui, tasks)
    BY <2>1 DEF PageInv, CalmInv
  <2>3. \A k \in Slots : tasks'[k].at # "idle" => k = i
    BY <1>2, <2>1 DEF Busy, Running
  <2>4. OnlyOne(url, tasks)'
    <3>1. ASSUME NEW k \in Slots, NEW q \in DOMAIN tasks'[k].got PROVE tasks'[k].got[q].ok
      <4>1. k # i
        BY <1>1, <1>4, <3>1
      <4>2. tasks'[k] = tasks[k]
        BY <1>2, <4>1
      <4>3. QED
        BY <2>2, <3>1, <4>2 DEF Calm, OnlyOne
    <3>2. t.at \in PlacesOf(url.tab) /\ t.at # "hosts"
      BY DEF Writes, PlacesOf
    <3>3. \A k \in Slots : tasks'[k].at # "idle" => tasks'[k].at = t.at /\ tasks'[k].live
      BY <1>1, <1>4, <2>3
    <3>4. QED
      BY <2>3, <3>1, <3>2, <3>3 DEF OnlyOne
  <2>5. ForSelected(url, ui, tasks)'
    <3>1. \A k \in Slots : tasks'[k].at # "idle" => tasks'[k] = t
      BY <1>4, <2>3
    <3>2. ui'.page.selected = ui.page.selected /\ url'.tab = url.tab
      BY DEF SameData
    <3>3. QED
      BY <3>1, <3>2 DEF ForSelected, Writes
  <2>6. Current(db, url, ui, tasks)'
    <3>1. t.at \in {"save", "delete", "submit", "revoke", "plug"}
      BY DEF Writes
    <3>2. ~NoHandler(tasks')
      BY <1>4, <3>1 DEF NoHandler
    <3>3. \A k \in Slots : tasks'[k].at \notin {"table", "keys", "plugins"}
      BY <1>4, <2>3, <3>1
    <3>4. QED
      BY <3>2, <3>3 DEF Current, NoHandler
  <2>7. LinkedOnceIn(db, tasks)'
    <3>1. \A l \in Hosts \X Plugins : db.links[l] <= 1
      BY <2>2 DEF Calm, LinkedOnceIn
    <3>2. ASSUME NEW k \in Slots, NEW h \in Hosts, NEW p \in Plugins, addPluginToHost(h, p) \in tasks'[k].sent
          PROVE  db.links[<<h, p>>] = 0
      <4>1. CASE k = i
        BY <1>4, <2>1, <3>2, <4>1, Zenon
      <4>2. CASE k # i
        <5>1. tasks'[k] = tasks[k]
          BY <1>2, <4>2
        <5>2. QED
          BY <2>2, <3>2, <5>1, Zenon DEF Calm, LinkedOnceIn
      <4>3. QED
        BY <4>1, <4>2
    <3>3. QED
      BY <3>1, <3>2 DEF LinkedOnceIn
  <2>8. QED
    BY <2>4, <2>5, <2>6, <2>7 DEF Calm
<1>9. QED
  BY <1>5, <1>6, <1>7, <1>8 DEF PageInv

\* Handler k becomes t, with its slot, and nothing else on the page changes place.
Becomes(k, t) == tasks' = [tasks EXCEPT ![k] = t] /\ UNCHANGED <<db, url, failed, hasty, left>>

\* A handler that generated no key tells no secret.
LEMMA NoSecret ==
    ASSUME PageInv, NEW k \in Slots, NEW t, t.at # "submit", tasks[k].at # "submit",
           Becomes(k, t), UNCHANGED seen
    PROVE  SecretInv'
<1> SUFFICES ASSUME ~left, ~failed PROVE Secrets(db, url, tasks, seen)'
  BY DEF SecretInv, Becomes
<1>1. Secrets(db, url, tasks, seen)
  BY DEF PageInv, SecretInv
<1>2. \A j \in Slots : tasks'[j] = IF j = k THEN t ELSE tasks[j]
  BY DEF PageInv, TypeInv, GoodTasks, Becomes
<1>3. QED
  BY <1>1, <1>2 DEF Secrets, Becomes

\* A handler goes on to fetch what the tab shows, and the patient user waits for it too.
LEMMA GoesOn ==
    ASSUME PageInv, NEW k \in Slots, NEW t, Becomes(k, t), ~hasty, ~failed,
           tasks[k].at \in PlacesOf(url.tab), t.at \in PlacesOf(url.tab) \cap OnScreen, t.live, t.got = <<>>,
           \A h \in Hosts, p \in Plugins : addPluginToHost(h, p) \notin t.sent,
           ui'.page.selected = ui.page.selected,
           url.tab # "details" => t.arg.host = tasks[k].arg.host,
           url.tab = "keys" => ui'.keys.loading, url.tab = "plugins" => ui'.plugins.loading
    PROVE  CalmInv'
<1>1. Calm(db, url, ui, tasks)
  BY DEF PageInv, CalmInv
<1>2. \A j \in Slots : tasks'[j] = IF j = k THEN t ELSE tasks[j]
  BY DEF PageInv, TypeInv, GoodTasks, Becomes
<1>3. url.tab \in PageTabs /\ url' = url /\ db' = db
  BY DEF PageInv, TypeInv, Urls, Becomes
<1>4. tasks[k].at \notin {"idle", "hosts"} /\ t.at \notin {"idle", "hosts", "save"}
  BY <1>3 DEF PlacesOf, PageTabs, OnScreen
<1>5. \A j \in Slots : j # k => tasks[j].at \in {"idle", "hosts"}
  BY <1>1, <1>4 DEF Calm, OnlyOne
<1>6. OnlyOne(url, tasks)'
  BY <1>1, <1>2, <1>3, <1>4 DEF Calm, OnlyOne
<1>7. ForSelected(url, ui, tasks)'
  BY <1>1, <1>2, <1>3, <1>4, <1>5 DEF Calm, ForSelected
<1>8. Current(db, url, ui, tasks)'
  <2>1. ~NoHandler(tasks')
    BY <1>2, <1>4 DEF NoHandler
  <2>2. \A j \in Slots : \A r \in DOMAIN tasks'[j].got : tasks'[j].at \notin {"table", "keys", "plugins"}
    BY <1>2, <1>5
  <2>3. QED
    BY <2>1, <2>2 DEF Current, NoHandler
<1>9. LinkedOnceIn(db, tasks)'
  BY <1>1, <1>2, <1>3 DEF Calm, LinkedOnceIn
<1>10. QED
  BY <1>6, <1>7, <1>8, <1>9 DEF Calm, CalmInv

\* A handler of the tab ends, and the tab shows what the server holds.
LEMMA EndsTrue ==
    ASSUME PageInv, NEW k \in Slots, Becomes(k, Idle), ~hasty, ~failed,
           tasks[k].at \notin {"idle", "hosts"},
           ui'.page.selected = ui.page.selected,
           url.tab = "details" => ui'.details.hosts = db.hosts,
           url.tab = "keys" => ui'.keys.list = OwnersKeys(db, ui.page.selected),
           url.tab = "plugins" => ui'.plugins.assigned = Linked(db, ui.page.selected)
    PROVE  CalmInv'
<1>1. Calm(db, url, ui, tasks)
  BY DEF PageInv, CalmInv
<1>2. \A j \in Slots : tasks'[j] = IF j = k THEN Idle ELSE tasks[j]
  BY DEF PageInv, TypeInv, GoodTasks, Becomes
<1>3. url' = url /\ db' = db
  BY DEF Becomes
<1>4. Idle.at = "idle" /\ Idle.got = <<>> /\ Idle.sent = {} /\ DOMAIN <<>> = {}
  BY DEF Idle
<1>5. \A j \in Slots : tasks'[j].at \in {"idle", "hosts"}
  BY <1>1, <1>2, <1>4 DEF Calm, OnlyOne
<1>6. OnlyOne(url, tasks)'
  BY <1>1, <1>2, <1>3, <1>4 DEF Calm, OnlyOne
<1>7. ForSelected(url, ui, tasks)'
  BY <1>5 DEF ForSelected
<1>8. Current(db, url, ui, tasks)'
  BY <1>3, <1>5 DEF Current
<1>9. LinkedOnceIn(db, tasks)'
  BY <1>1, <1>2, <1>3, <1>4 DEF Calm, LinkedOnceIn
<1>10. QED
  BY <1>6, <1>7, <1>8, <1>9 DEF Calm, CalmInv

-----------------------------------------------------------------------------
(* Clicks.                                                                 *)

\* What every click on a tab has in common.
LEMMA ClickLeaves ==
    ASSUME NEW t, NEW places, ClickDuring(t, places)
    PROVE  /\ url.tab = t /\ UNCHANGED <<db, failed, left, seen>>
           /\ ~hasty' => ~hasty /\ \A k \in Slots : tasks[k].at \notin places
  BY DEF ClickDuring

\* What a click opens, closes or chooses on the tab of its own.
LEMMA ScreenClick ==
    ASSUME PageInv, NEW s, GoodUi(s), Render(s, url, tasks),
           UNCHANGED <<db, failed, left, seen>>, ~hasty' => ~hasty,
           s.page = ui.page, s.details.hosts = ui.details.hosts, s.details.loading = ui.details.loading,
           s.details.saving = ui.details.saving, s.keys.list = ui.keys.list, s.keys.loading = ui.keys.loading,
           s.plugins.assigned = ui.plugins.assigned, s.plugins.loading = ui.plugins.loading,
           url.tab = "details" \/ s.details = ui.details, s.details.form = ui.details.form
    PROVE  PageInv'
<1>1. FormStays(s)
  BY DEF PageInv, TypeInv, FormStays
<1>2. TypeInv /\ s.page.selected = ui.page.selected
  BY DEF PageInv
<1>3. /\ url' = url /\ tasks' = tasks
      /\ ui'.page = s.page /\ ui'.keys = s.keys /\ ui'.plugins = s.plugins
      /\ ui'.details.hosts = s.details.hosts /\ ui'.details.loading = s.details.loading
      /\ ui'.details.saving = s.details.saving
      /\ GoodUi(ui)' /\ FormIn(url, ui.details)'
  BY <1>1, <1>2, RenderHere
<1>4. SameData
  BY <1>3 DEF SameData
<1>5. UNCHANGED <<db, url, tasks, failed, left, seen>>
  BY <1>3
<1>6. ui'.details.saving = ui.details.saving /\ ui'.keys.loading = ui.keys.loading /\ ui'.plugins.loading = ui.plugins.loading
  BY <1>3
<1>7. QED
  BY <1>3, <1>4, <1>5, <1>6, ScreenOnly

\* Clicks that change only what one tab shows.
LEMMA DetailsClick ==
    ASSUME PageInv, NEW places, ClickDuring("details", places),
           NEW d, GoodDetails(d), d.hosts = ui.details.hosts, d.loading = ui.details.loading,
           d.saving = ui.details.saving, d.form = ui.details.form,
           Render([ui EXCEPT !.details = d], url, tasks)
    PROVE  PageInv'
<1> DEFINE s == [ui EXCEPT !.details = d]
<1>1. ui \in [page : PageType, details : DetailsType, keys : KeysType, plugins : PluginsType]
  BY DEF PageInv, TypeInv, GoodUi
<1>2. s.page = ui.page /\ s.details = d /\ s.keys = ui.keys /\ s.plugins = ui.plugins /\ GoodUi(s)
  BY <1>1 DEF GoodUi, GoodDetails
<1>3. Render(s, url, tasks)
  OBVIOUS
<1> HIDE DEF s
<1>4. url.tab = "details" /\ UNCHANGED <<db, failed, left, seen>> /\ (~hasty' => ~hasty)
  BY ClickLeaves
<1>5. QED
  BY <1>2, <1>3, <1>4, ScreenClick

LEMMA KeysClick ==
    ASSUME PageInv, NEW places, ClickDuring("keys", places),
           NEW y \in KeysType, y.list = ui.keys.list, y.loading = ui.keys.loading,
           Render([ui EXCEPT !.keys = y], url, tasks)
    PROVE  PageInv'
<1> DEFINE s == [ui EXCEPT !.keys = y]
<1>1. ui \in [page : PageType, details : DetailsType, keys : KeysType, plugins : PluginsType] /\ GoodDetails(ui.details)
  BY DEF PageInv, TypeInv, GoodUi
<1>2. s.page = ui.page /\ s.details = ui.details /\ s.keys = y /\ s.plugins = ui.plugins /\ GoodUi(s)
  BY <1>1 DEF GoodUi
<1>3. Render(s, url, tasks)
  OBVIOUS
<1> HIDE DEF s
<1>4. UNCHANGED <<db, failed, left, seen>> /\ (~hasty' => ~hasty)
  BY ClickLeaves
<1>5. QED
  BY <1>2, <1>3, <1>4, ScreenClick

LEMMA PluginsClick ==
    ASSUME PageInv, NEW places, ClickDuring("plugins", places),
           NEW g \in PluginsType, g.assigned = ui.plugins.assigned, g.loading = ui.plugins.loading,
           Render([ui EXCEPT !.plugins = g], url, tasks)
    PROVE  PageInv'
<1> DEFINE s == [ui EXCEPT !.plugins = g]
<1>1. ui \in [page : PageType, details : DetailsType, keys : KeysType, plugins : PluginsType] /\ GoodDetails(ui.details)
  BY DEF PageInv, TypeInv, GoodUi
<1>2. s.page = ui.page /\ s.details = ui.details /\ s.keys = ui.keys /\ s.plugins = g /\ GoodUi(s)
  BY <1>1 DEF GoodUi
<1>3. Render(s, url, tasks)
  OBVIOUS
<1> HIDE DEF s
<1>4. UNCHANGED <<db, failed, left, seen>> /\ (~hasty' => ~hasty)
  BY ClickLeaves
<1>5. QED
  BY <1>2, <1>3, <1>4, ScreenClick

\* The clicks of the tab with the table that write nothing.
LEMMA DetailsScreen ==
    ASSUME PageInv,
           \/ \E h \in Hosts : handleEditHost(h) \/ handleDeleteClick(h)
           \/ handleAddHost \/ TypeText \/ handleCloseModal \/ CancelDelete
    PROVE  PageInv'
<1> DEFINE o == ui.details
<1>1. /\ ui \in [page : PageType, details : DetailsType, keys : KeysType, plugins : PluginsType]
      /\ GoodDetails(o) /\ FormIn(url, o) /\ o \in DetailsType
  BY DEF PageInv, TypeInv, GoodUi
<1>2. CASE handleAddHost
  <2> DEFINE d == [o EXCEPT !.selected = None, !.editing = FALSE, !.open = TRUE]
  <2>1. GoodDetails(d) /\ d.hosts = o.hosts /\ d.loading = o.loading /\ d.saving = o.saving /\ d.form = o.form
    BY <1>1 DEF GoodDetails, DetailsType
  <2>2. Render([ui EXCEPT !.details = d], url, tasks) /\ ClickDuring("details", {"hosts", "table"})
    BY <1>2 DEF handleAddHost, ClickOn
  <2> HIDE DEF d
  <2>3. QED
    BY <2>1, <2>2, DetailsClick
<1>3. ASSUME NEW h \in Hosts, handleEditHost(h) PROVE PageInv'
  <2> DEFINE host == [id |-> h, text |-> o.hosts[h]]
             d == [o EXCEPT !.selected = host, !.editing = TRUE, !.open = TRUE]
  <2>1. h \in DOMAIN o.hosts /\ o.hosts \in Tables /\ Faithful(o.hosts)
    BY <1>1, <1>3 DEF handleEditHost, GoodDetails, DetailsType
  <2>2. o.hosts[h] \in Texts /\ Meant(h, o.hosts[h])
    BY <2>1, PartialIs DEF Tables, Faithful
  <2>3. host \in [id : Hosts, text : Texts] /\ Meant(host.id, host.text)
    BY <2>2
  <2>4. Render([ui EXCEPT !.details = d], url, tasks) /\ ClickDuring("details", {"hosts", "table"})
    BY <1>3 DEF handleEditHost, ClickOn
  <2> HIDE DEF host
  <2>5. GoodDetails(d) /\ d.hosts = o.hosts /\ d.loading = o.loading /\ d.saving = o.saving /\ d.form = o.form
    <3>1. /\ d \in DetailsType /\ d.hosts = o.hosts /\ d.loading = o.loading /\ d.saving = o.saving
          /\ d.form = o.form /\ d.selected = host /\ d.editing
      BY <1>1, <2>3 DEF DetailsType
    <3>2. QED
      BY <1>1, <2>3, <3>1 DEF GoodDetails
  <2> HIDE DEF d
  <2>6. QED
    BY <2>4, <2>5, DetailsClick
<1>4. ASSUME NEW h \in Hosts, handleDeleteClick(h) PROVE PageInv'
  <2> DEFINE d == [o EXCEPT !.toDelete = h, !.confirm = TRUE]
  <2>1. GoodDetails(d) /\ d.hosts = o.hosts /\ d.loading = o.loading /\ d.saving = o.saving /\ d.form = o.form
    BY <1>1 DEF GoodDetails, DetailsType
  <2>2. Render([ui EXCEPT !.details = d], url, tasks) /\ ClickDuring("details", {"hosts", "table"})
    BY <1>4 DEF handleDeleteClick, ClickOn
  <2> HIDE DEF d
  <2>3. QED
    BY <2>1, <2>2, DetailsClick
<1>5. CASE handleCloseModal
  <2> DEFINE d == Closed(o)
  <2>1. GoodDetails(d) /\ d.hosts = o.hosts /\ d.loading = o.loading /\ d.saving = o.saving /\ d.form = o.form
    BY <1>1 DEF GoodDetails, DetailsType, Closed
  <2>2. Render([ui EXCEPT !.details = d], url, tasks) /\ ClickDuring("details", {"hosts", "table"})
    BY <1>5 DEF handleCloseModal, ClickOn
  <2> HIDE DEF d
  <2>3. QED
    BY <2>1, <2>2, DetailsClick
<1>6. CASE CancelDelete
  <2> DEFINE d == [o EXCEPT !.confirm = FALSE]
  <2>1. GoodDetails(d) /\ d.hosts = o.hosts /\ d.loading = o.loading /\ d.saving = o.saving /\ d.form = o.form
    BY <1>1 DEF GoodDetails, DetailsType
  <2>2. Render([ui EXCEPT !.details = d], url, tasks) /\ ClickDuring("details", {"hosts", "table"})
    BY <1>6 DEF CancelDelete, ClickOn
  <2> HIDE DEF d
  <2>3. QED
    BY <2>1, <2>2, DetailsClick
<1>7. CASE TypeText
  <2> DEFINE d == [o EXCEPT !.form = Typed]
  <2>1. GoodDetails(d) /\ d.hosts = o.hosts /\ d.loading = o.loading /\ d.saving = o.saving /\ FormIn(url, d) /\ d \in DetailsType
    BY <1>1 DEF GoodDetails, DetailsType, FormIn, GoodForm, Texts
  <2>2. ui' = [ui EXCEPT !.details = d] /\ ClickDuring("details", {"hosts", "table"}) /\ UNCHANGED <<url, tasks>>
    BY <1>7 DEF TypeText, ClickOn
  <2> HIDE DEF d
  <2>3. /\ ui'.page = ui.page /\ ui'.details = d /\ ui'.keys = ui.keys /\ ui'.plugins = ui.plugins
        /\ GoodUi(ui') /\ FormIn(url', ui'.details)
    BY <1>1, <2>1, <2>2 DEF GoodUi
  <2>4. UNCHANGED <<db, url, tasks, failed, left, seen>> /\ (~hasty' => ~hasty)
    BY <2>2, ClickLeaves
  <2>5. SameData
    BY <2>1, <2>3 DEF SameData
  <2>6. GoodUi(ui)' /\ FormIn(url, ui.details)'
    BY <2>3 DEF GoodUi, FormIn, GoodForm
  <2>7. QED
    BY <2>1, <2>3, <2>4, <2>5, <2>6, ScreenOnly
<1>8. QED
  BY <1>2, <1>3, <1>4, <1>5, <1>6, <1>7

\* The clicks of the tab of keys that write nothing.
LEMMA KeysScreen ==
    ASSUME PageInv,
           \/ \E y \in Keys : handleEditKey(y) \/ handleViewKey(y) \/ AskDelete(y)
           \/ handleOpenForm \/ handleCloseForm \/ handleCloseKeyDetailsModal \/ closeKeyConfirmation
    PROVE  PageInv'
<1> DEFINE o == ui.keys
<1>1. o \in KeysType
  BY DEF PageInv, TypeInv, GoodUi
<1>2. ASSUME NEW f \in Keys \cup {None, "new"}, ClickDuring("keys", {"hosts", "table"}),
             Render([ui EXCEPT !.keys.form = f], url, tasks)
      PROVE  PageInv'
  <2> DEFINE n == [o EXCEPT !.form = f]
  <2>1. n \in KeysType /\ n.list = o.list /\ n.loading = o.loading
    BY <1>1 DEF KeysType
  <2>2. Render([ui EXCEPT !.keys = n], url, tasks)
    BY <1>2
  <2> HIDE DEF n
  <2>3. QED
    BY <1>2, <2>1, <2>2, KeysClick
<1>3. ASSUME NEW x \in Keys \cup {None}, ClickDuring("keys", {"hosts", "table"}),
             Render([ui EXCEPT !.keys.shown = x], url, tasks)
      PROVE  PageInv'
  <2> DEFINE n == [o EXCEPT !.shown = x]
  <2>1. n \in KeysType /\ n.list = o.list /\ n.loading = o.loading
    BY <1>1 DEF KeysType
  <2>2. Render([ui EXCEPT !.keys = n], url, tasks)
    BY <1>3
  <2> HIDE DEF n
  <2>3. QED
    BY <1>3, <2>1, <2>2, KeysClick
<1>4. ASSUME NEW x \in Keys \cup {None}, ClickDuring("keys", {"hosts", "table"}),
             Render([ui EXCEPT !.keys.confirm = x], url, tasks)
      PROVE  PageInv'
  <2> DEFINE n == [o EXCEPT !.confirm = x]
  <2>1. n \in KeysType /\ n.list = o.list /\ n.loading = o.loading
    BY <1>1 DEF KeysType
  <2>2. Render([ui EXCEPT !.keys = n], url, tasks)
    BY <1>4
  <2> HIDE DEF n
  <2>3. QED
    BY <1>4, <2>1, <2>2, KeysClick
<1>5. ASSUME NEW y \in Keys, handleEditKey(y) PROVE PageInv'
  BY <1>2, <1>5 DEF handleEditKey, OnKeys, ClickOn
<1>6. ASSUME NEW y \in Keys, handleViewKey(y) PROVE PageInv'
  BY <1>3, <1>6 DEF handleViewKey, OnKeys, ClickOn
<1>7. ASSUME NEW y \in Keys, AskDelete(y) PROVE PageInv'
  BY <1>4, <1>7 DEF AskDelete, OnKeys, ClickOn
<1>8. CASE handleOpenForm
  BY <1>2, <1>8 DEF handleOpenForm, OnKeys, ClickOn
<1>9. CASE handleCloseForm
  BY <1>2, <1>9 DEF handleCloseForm, OnKeys, ClickOn
<1>10. CASE handleCloseKeyDetailsModal
  BY <1>3, <1>10 DEF handleCloseKeyDetailsModal, OnKeys, ClickOn
<1>11. CASE closeKeyConfirmation
  BY <1>4, <1>11 DEF closeKeyConfirmation, OnKeys, ClickOn
<1>12. QED
  BY <1>5, <1>6, <1>7, <1>8, <1>9, <1>10, <1>11

\* The clicks of the tab of plugins that write nothing.
LEMMA PluginsScreen ==
    ASSUME PageInv, closeConfirmation \/ \E p \in Plugins : showRemoveConfirmation(p)
    PROVE  PageInv'
<1> DEFINE o == ui.plugins
<1>1. o \in PluginsType
  BY DEF PageInv, TypeInv, GoodUi
<1>2. ASSUME NEW x \in Plugins \cup {None}, ClickDuring("plugins", {"hosts", "table"}),
             Render([ui EXCEPT !.plugins.confirm = x], url, tasks)
      PROVE  PageInv'
  <2> DEFINE n == [o EXCEPT !.confirm = x]
  <2>1. n \in PluginsType /\ n.assigned = o.assigned /\ n.loading = o.loading
    BY <1>1 DEF PluginsType
  <2>2. Render([ui EXCEPT !.plugins = n], url, tasks)
    BY <1>2
  <2> HIDE DEF n
  <2>3. QED
    BY <1>2, <2>1, <2>2, PluginsClick
<1>3. QED
  BY <1>2 DEF closeConfirmation, showRemoveConfirmation, OnPlugins, ClickOn

\* Where the spinner of the tab stands still and no host is coming, a patient user has
\* let every handler end.
LEMMA NobodyBusy ==
    ASSUME PageInv, ~hasty, ~failed, \A k \in Slots : tasks[k].at # "hosts",
           url.tab = "details" => ~ui.details.saving /\ \A k \in Slots : tasks[k].at \notin {"table", "delete"},
           url.tab = "keys" => ~ui.keys.loading,
           url.tab = "plugins" => ~ui.plugins.loading
    PROVE  ~Busy
<1>1. OnlyOne(url, tasks) /\ ForSelected(url, ui, tasks)
  BY DEF PageInv, CalmInv, Calm
<1>2. url.tab \in PageTabs
  BY DEF PageInv, TypeInv, Urls
<1>3. ASSUME NEW k \in Slots PROVE tasks[k].at = "idle"
  <2>1. tasks[k].at \in {"idle"} \cup PlacesOf(url.tab)
    BY <1>1 DEF OnlyOne
  <2>2. CASE url.tab = "details"
    BY <1>1, <2>1, <2>2 DEF ForSelected, PlacesOf
  <2>3. CASE url.tab # "details"
    BY <1>1, <1>2, <2>3 DEF ForSelected, PageTabs
  <2>4. QED
    BY <2>2, <2>3
<1>4. QED
  BY <1>3 DEF Busy, Running

\* A click whose handler writes, and renders the page before it awaits the answer.
LEMMA WriterClick ==
    ASSUME PageInv, NEW s, GoodUi(s), NEW t, GoodTask(t), t = Task(t.at, t.arg, t.sent), Patient(t),
           HasRoom(tasks), Render(s, url, Begin(tasks, t)), UNCHANGED <<db, failed, left, seen>>,
           s.page = ui.page, s.details = ui.details,
           s.keys.list = ui.keys.list, s.plugins.assigned = ui.plugins.assigned,
           \/ url.tab = "details" /\ t.at = "delete"
           \/ /\ url.tab = "keys" /\ t.at \in {"submit", "revoke"} /\ s.keys.loading
              /\ t.arg.host = ui.page.selected
           \/ /\ url.tab = "plugins" /\ t.at = "plug" /\ s.plugins.loading
              /\ t.arg.host = ui.page.selected
    PROVE  PageInv'
<1>1. TypeInv /\ s.page.selected = ui.page.selected /\ FormIn(url, s.details)
  BY DEF PageInv, TypeInv
<1>2. /\ url' = url /\ tasks' = Begin(tasks, t)
      /\ ui'.page = s.page /\ ui'.keys = s.keys /\ ui'.plugins = s.plugins
      /\ ui'.details.hosts = s.details.hosts /\ ui'.details.loading = s.details.loading
      /\ ui'.details.saving = s.details.saving
      /\ GoodUi(ui)' /\ FormIn(url, ui.details)'
  BY <1>1, RenderHere DEF FormStays
<1>3. SameData
  BY <1>2 DEF SameData
<1>4. Writes(t)
  BY <1>2 DEF Writes
<1>5. UNCHANGED <<db, url, failed, left, seen>>
  BY <1>2
<1>6. QED
  BY <1>2, <1>3, <1>4, <1>5, WriterBegins

\* The clicks that save and delete a host.
LEMMA HostWrites ==
    ASSUME PageInv, handleSaveHost \/ handleDeleteHost
    PROVE  PageInv'
<1> DEFINE d == ui.details
<1>1. /\ ui \in [page : PageType, details : DetailsType, keys : KeysType, plugins : PluginsType]
      /\ GoodUi(ui) /\ GoodDetails(d) /\ FormIn(url, d) /\ d \in DetailsType
  BY DEF PageInv, TypeInv, GoodUi
<1>2. CASE handleSaveHost
  <2> DEFINE q == IF d.editing /\ d.selected # None THEN updateHost(d.selected.id, d.form) ELSE createHost(d.form)
             t == Task("save", <<>>, {q})
  <2>1. /\ ClickDuring("details", {"hosts", "table", "delete"}) /\ ~d.saving
        /\ d.form # Blank /\ HasRoom(tasks) /\ tasks' = Begin(tasks, t)
        /\ ui' = [ui EXCEPT !.details.saving = TRUE] /\ url' = url
    BY <1>2 DEF handleSaveHost
  <2>2. q \in Asked(t)
    <3>1. CASE d.editing /\ d.selected # None
      <4>1. d.selected.id \in Hosts /\ d.form \in Texts /\ Meant(d.selected.id, d.form)
        BY <1>1, <2>1, <3>1 DEF GoodDetails, FormIn, GoodForm, DetailsType, Meant, Texts
      <4>2. <<d.selected.id, d.form>> \in {v \in Hosts \X Texts : Meant(v[1], v[2])}
        BY <4>1
      <4>3. updateHost(d.selected.id, d.form) \in {updateHost(w[1], w[2]) : w \in {v \in Hosts \X Texts : Meant(v[1], v[2])}}
        BY <4>2
      <4>4. QED
        BY <3>1, <4>3 DEF Asked, Task
    <3>2. CASE ~(d.editing /\ d.selected # None)
      <4>1. d.form = Typed
        BY <1>1, <2>1, <3>2 DEF GoodDetails, FormIn, GoodForm
      <4>2. QED
        BY <3>2, <4>1 DEF Asked, Task
    <3>3. QED
      BY <3>1, <3>2
  <2>3. \A h \in Hosts, p \in Plugins : addPluginToHost(h, p) # q
    BY DEF addPluginToHost, updateHost, createHost
  <2> HIDE DEF q
  <2>4. GoodTask(t)
    <3>1. GoodArg(t)
      BY DEF GoodArg, Task
    <3>2. QED
      BY <2>2, <3>1, NewTask
  <2>5. t = Task(t.at, t.arg, t.sent) /\ t.at = "save" /\ t.sent = {q}
    BY DEF Task
  <2> HIDE DEF t
  <2>6. /\ url.tab = "details" /\ UNCHANGED <<db, failed, left, seen>>
        /\ ~hasty' => ~hasty /\ \A k \in Slots : tasks[k].at \notin {"hosts", "table", "delete"}
    BY <2>1, ClickLeaves
  <2>7. Patient(t)
    <3> SUFFICES ASSUME ~hasty', ~failed PROVE ~hasty /\ ~Busy
      BY <2>3, <2>5 DEF Patient
    <3>1. ~hasty /\ \A k \in Slots : tasks[k].at \notin {"hosts", "table", "delete"}
      BY <2>6
    <3>2. QED
      BY <2>1, <2>6, <3>1, NobodyBusy
  <2> DEFINE n == [d EXCEPT !.saving = TRUE]
  <2>8. n \in DetailsType /\ n.hosts = d.hosts /\ n.loading = d.loading /\ n.saving /\ GoodDetails(n) /\ FormIn(url, n)
    BY <1>1 DEF DetailsType, GoodDetails, FormIn, GoodForm
  <2>9. ui' = [ui EXCEPT !.details = n]
    BY <2>1
  <2> HIDE DEF n
  <2>10. ui'.page = ui.page /\ ui'.details = n /\ ui'.keys = ui.keys /\ ui'.plugins = ui.plugins /\ GoodUi(ui')
    BY <1>1, <2>8, <2>9 DEF GoodUi
  <2>11. SameData /\ Writes(t) /\ GoodUi(ui)' /\ FormIn(url, ui.details)'
    BY <2>1, <2>5, <2>6, <2>8, <2>10 DEF SameData, Writes, GoodUi, FormIn, GoodForm
  <2>12. UNCHANGED <<db, url, failed, left, seen>>
    BY <2>1, <2>6
  <2>13. QED
    BY <2>1, <2>4, <2>7, <2>11, <2>12, WriterBegins
<1>3. CASE handleDeleteHost
  <2> DEFINE q == deleteHost(d.toDelete)
             t == Task("delete", <<>>, {q})
  <2>1. /\ ClickDuring("details", {"hosts", "table", "save", "delete"}) /\ d.toDelete # None
        /\ HasRoom(tasks) /\ Render(ui, url, Begin(tasks, t))
    BY <1>3 DEF handleDeleteHost
  <2>2. q \in Asked(t)
    BY <1>1, <2>1 DEF Asked, Task, DetailsType
  <2>3. \A h \in Hosts, p \in Plugins : addPluginToHost(h, p) # q
    BY DEF addPluginToHost, deleteHost
  <2> HIDE DEF q
  <2>4. GoodTask(t)
    <3>1. GoodArg(t)
      BY DEF GoodArg, Task
    <3>2. QED
      BY <2>2, <3>1, NewTask
  <2>5. t = Task(t.at, t.arg, t.sent) /\ t.at = "delete" /\ t.sent = {q}
    BY DEF Task
  <2> HIDE DEF t
  <2>6. /\ url.tab = "details" /\ UNCHANGED <<db, failed, left, seen>>
        /\ ~hasty' => ~hasty /\ \A k \in Slots : tasks[k].at \notin {"hosts", "table", "save", "delete"}
    BY <2>1, ClickLeaves
  <2>7. Patient(t)
    <3> SUFFICES ASSUME ~hasty', ~failed PROVE ~hasty /\ ~Busy
      BY <2>3, <2>5 DEF Patient
    <3>1. ~hasty /\ \A k \in Slots : tasks[k].at \notin {"hosts", "table", "save", "delete"}
      BY <2>6
    <3>2. ~ui.details.saving
      BY <2>6, <3>1 DEF PageInv, SpinInv, Spins
    <3>3. QED
      BY <2>6, <3>1, <3>2, NobodyBusy
  <2>8. QED
    BY <1>1, <2>1, <2>4, <2>5, <2>6, <2>7, WriterClick
<1>4. QED
  BY <1>2, <1>3

\* The clicks that generate, change and delete a key.
LEMMA KeyWrites ==
    ASSUME PageInv, handleSubmitForm \/ handleConfirmDelete
    PROVE  PageInv'
<1>1. /\ ui \in [page : PageType, details : DetailsType, keys : KeysType, plugins : PluginsType]
      /\ GoodDetails(ui.details) /\ ui.keys \in KeysType /\ Selected \in HostIds
  BY DEF PageInv, TypeInv, GoodUi, PageType, Selected
<1> DEFINE n == [ui.keys EXCEPT !.loading = TRUE]
           s == [ui EXCEPT !.keys = n]
<1>2. n \in KeysType /\ n.list = ui.keys.list /\ n.loading
  BY <1>1 DEF KeysType
<1> HIDE DEF n
<1>3. s.page = ui.page /\ s.details = ui.details /\ s.keys = n /\ s.plugins = ui.plugins /\ GoodUi(s)
  BY <1>1, <1>2 DEF GoodUi
<1> HIDE DEF s
<1>4. ASSUME NEW at \in {"submit", "revoke"}, NEW q, ~ui.keys.loading,
             ClickDuring("keys", {"hosts", "table"}), HasRoom(tasks),
             \A h \in Hosts, p \in Plugins : addPluginToHost(h, p) # q,
             q \in Asked(Task(at, [host |-> Selected], {q})),
             Render(s, url, Begin(tasks, Task(at, [host |-> Selected], {q})))
      PROVE  PageInv'
  <2> DEFINE t == Task(at, [host |-> Selected], {q})
  <2>1. t = Task(t.at, t.arg, t.sent) /\ t.at = at /\ t.sent = {q} /\ t.arg.host = ui.page.selected
    BY DEF Task, Selected
  <2>2. GoodArg(t)
    BY <1>1 DEF GoodArg, Task
  <2>3. GoodTask(t)
    BY <1>4, <2>2, NewTask
  <2>4. Render(s, url, Begin(tasks, t))
    BY <1>4
  <2> HIDE DEF t
  <2>5. /\ url.tab = "keys" /\ UNCHANGED <<db, failed, left, seen>>
        /\ ~hasty' => ~hasty /\ \A k \in Slots : tasks[k].at \notin {"hosts", "table"}
    BY <1>4, ClickLeaves
  <2>6. Patient(t)
    <3> SUFFICES ASSUME ~hasty', ~failed PROVE ~hasty /\ ~Busy
      BY <1>4, <2>1 DEF Patient
    <3>1. ~hasty /\ \A k \in Slots : tasks[k].at # "hosts"
      BY <2>5
    <3>2. QED
      BY <1>4, <2>5, <3>1, NobodyBusy
  <2>7. QED
    BY <1>2, <1>3, <1>4, <2>1, <2>3, <2>4, <2>5, <2>6, WriterClick
<1>5. CASE handleSubmitForm
  <2> DEFINE f == ui.keys.form
             q == IF f = "new" THEN generateKeyForHost(Selected) ELSE updateKey(Selected, f)
  <2>1. /\ ClickDuring("keys", {"hosts", "table"}) /\ f # None /\ ~ui.keys.loading /\ HasRoom(tasks)
        /\ Render([ui EXCEPT !.keys.loading = TRUE], url, Begin(tasks, Task("submit", [host |-> Selected], {q})))
    BY <1>5 DEF handleSubmitForm, OnKeys, ClickOn
  <2>2. f = "new" \/ f \in Keys
    BY <1>1, <2>1 DEF KeysType
  <2>3. q \in Asked(Task("submit", [host |-> Selected], {q}))
    BY <2>2 DEF Asked, Task
  <2>4. \A h \in Hosts, p \in Plugins : addPluginToHost(h, p) # q
    BY DEF addPluginToHost, generateKeyForHost, updateKey
  <2>5. s = [ui EXCEPT !.keys.loading = TRUE]
    BY DEF s, n
  <2> HIDE DEF q
  <2>6. QED
    BY <1>4, <2>1, <2>3, <2>4, <2>5
<1>6. CASE handleConfirmDelete
  <2> DEFINE q == deleteKey(Selected, ui.keys.confirm)
  <2>1. /\ ClickDuring("keys", {"hosts", "table"}) /\ ui.keys.confirm # None /\ ~ui.keys.loading /\ HasRoom(tasks)
        /\ Render([ui EXCEPT !.keys.loading = TRUE], url, Begin(tasks, Task("revoke", [host |-> Selected], {q})))
    BY <1>6 DEF handleConfirmDelete, OnKeys, ClickOn
  <2>2. ui.keys.confirm \in Keys
    BY <1>1, <2>1 DEF KeysType
  <2>3. q \in Asked(Task("revoke", [host |-> Selected], {q}))
    BY <2>2 DEF Asked, Task
  <2>4. \A h \in Hosts, p \in Plugins : addPluginToHost(h, p) # q
    BY DEF addPluginToHost, deleteKey
  <2>5. s = [ui EXCEPT !.keys.loading = TRUE]
    BY DEF s, n
  <2> HIDE DEF q
  <2>6. QED
    BY <1>4, <2>1, <2>3, <2>4, <2>5
<1>7. QED
  BY <1>5, <1>6

\* The clicks that link and remove a plugin.
LEMMA PluginWrites ==
    ASSUME PageInv, handleRemovePlugin \/ \E p \in Plugins : handleAddPlugin(p)
    PROVE  PageInv'
<1>1. /\ ui \in [page : PageType, details : DetailsType, keys : KeysType, plugins : PluginsType]
      /\ GoodDetails(ui.details) /\ ui.plugins \in PluginsType /\ Selected \in HostIds
  BY DEF PageInv, TypeInv, GoodUi, PageType, Selected
<1> DEFINE n == [ui.plugins EXCEPT !.loading = TRUE]
           s == [ui EXCEPT !.plugins = n]
<1>2. n \in PluginsType /\ n.assigned = ui.plugins.assigned /\ n.loading
  BY <1>1 DEF PluginsType
<1> HIDE DEF n
<1>3. s.page = ui.page /\ s.details = ui.details /\ s.plugins = n /\ s.keys = ui.keys /\ GoodUi(s)
  BY <1>1, <1>2 DEF GoodUi
<1> HIDE DEF s
<1>4. ASSUME NEW then \in Thens, NEW q, ~ui.plugins.loading, Selected # None,
             ClickDuring("plugins", {"hosts", "table"}), HasRoom(tasks),
             ui.plugins.assigned = Linked(db, Selected) =>
                \A h \in Hosts, p \in Plugins : addPluginToHost(h, p) = q => db.links[<<h, p>>] = 0,
             q \in Asked(Task("plug", [host |-> Selected, then |-> then], {q})),
             Render(s, url, Begin(tasks, Task("plug", [host |-> Selected, then |-> then], {q})))
      PROVE  PageInv'
  <2> DEFINE t == Task("plug", [host |-> Selected, then |-> then], {q})
  <2>1. t = Task(t.at, t.arg, t.sent) /\ t.at = "plug" /\ t.sent = {q} /\ t.arg.host = ui.page.selected
    BY DEF Task, Selected
  <2>2. GoodArg(t)
    BY <1>1 DEF GoodArg, Task
  <2>3. GoodTask(t)
    BY <1>4, <2>2, NewTask
  <2>4. Render(s, url, Begin(tasks, t))
    BY <1>4
  <2> HIDE DEF t
  <2>5. /\ url.tab = "plugins" /\ UNCHANGED <<db, failed, left, seen>>
        /\ ~hasty' => ~hasty /\ \A k \in Slots : tasks[k].at \notin {"hosts", "table"}
    BY <1>4, ClickLeaves
  <2>6. Patient(t)
    <3> SUFFICES ASSUME ~hasty', ~failed
                 PROVE  /\ ~hasty /\ ~Busy
                        /\ \A h \in Hosts, p \in Plugins : addPluginToHost(h, p) = q => db.links[<<h, p>>] = 0
      BY <2>1 DEF Patient
    <3>1. ~hasty /\ \A k \in Slots : tasks[k].at # "hosts"
      BY <2>5
    <3>2. ~Busy
      BY <1>4, <2>5, <3>1, NobodyBusy
    <3>3. NoHandler(tasks)
      BY <3>2 DEF Busy, Running, NoHandler
    <3>4. ui.plugins.assigned = Linked(db, Selected)
      BY <1>4, <2>5, <3>1, <3>3 DEF PageInv, CalmInv, Calm, Current, Selected
    <3>5. QED
      BY <1>4, <3>1, <3>2, <3>4
  <2>7. QED
    BY <1>2, <1>3, <1>4, <2>1, <2>3, <2>4, <2>5, <2>6, WriterClick
<1>5. ASSUME NEW p \in Plugins, handleAddPlugin(p) PROVE PageInv'
  <2> DEFINE q == addPluginToHost(Selected, p)
  <2>1. /\ ClickDuring("plugins", {"hosts", "table"}) /\ Selected # None /\ ~ui.plugins.loading /\ HasRoom(tasks)
        /\ p \notin ui.plugins.assigned
        /\ Render([ui EXCEPT !.plugins.loading = TRUE], url,
                  Begin(tasks, Task("plug", [host |-> Selected, then |-> "nothing"], {q})))
    BY <1>5 DEF handleAddPlugin, OnPlugins, ClickOn
  <2>2. q \in Asked(Task("plug", [host |-> Selected, then |-> "nothing"], {q}))
    BY DEF Asked, Task
  <2>3. ASSUME ui.plugins.assigned = Linked(db, Selected),
               NEW h \in Hosts, NEW o \in Plugins, addPluginToHost(h, o) = q
        PROVE  db.links[<<h, o>>] = 0
    <3>1. h = Selected /\ o = p
      BY <2>3 DEF addPluginToHost
    <3>2. db.links[<<h, o>>] \in Nat
      BY DEF PageInv, TypeInv, GoodDb
    <3>3. ~(db.links[<<h, o>>] > 0)
      BY <2>1, <2>3, <3>1 DEF Linked
    <3>4. QED
      BY <3>2, <3>3
  <2>4. s = [ui EXCEPT !.plugins.loading = TRUE]
    BY DEF s, n
  <2>5. "nothing" \in Thens
    BY DEF Thens
  <2> HIDE DEF q
  <2>6. QED
    BY <1>4, <2>1, <2>2, <2>3, <2>4, <2>5
<1>6. CASE handleRemovePlugin
  <2> DEFINE q == removePluginFromHost(Selected, ui.plugins.confirm)
  <2>1. /\ ClickDuring("plugins", {"hosts", "table"}) /\ Selected # None /\ ~ui.plugins.loading /\ HasRoom(tasks)
        /\ ui.plugins.confirm # None
        /\ Render([ui EXCEPT !.plugins.loading = TRUE], url,
                  Begin(tasks, Task("plug", [host |-> Selected, then |-> "unconfirm"], {q})))
    BY <1>6 DEF handleRemovePlugin, OnPlugins, ClickOn
  <2>2. ui.plugins.confirm \in Plugins
    BY <1>1, <2>1 DEF PluginsType
  <2>3. q \in Asked(Task("plug", [host |-> Selected, then |-> "unconfirm"], {q}))
    BY <2>2 DEF Asked, Task
  <2>4. \A h \in Hosts, o \in Plugins : addPluginToHost(h, o) # q
    BY DEF addPluginToHost, removePluginFromHost
  <2>5. s = [ui EXCEPT !.plugins.loading = TRUE]
    BY DEF s, n
  <2>6. "unconfirm" \in Thens
    BY DEF Thens
  <2> HIDE DEF q
  <2>7. QED
    BY <1>4, <2>1, <2>3, <2>4, <2>5, <2>6
<1>7. QED
  BY <1>5, <1>6

-----------------------------------------------------------------------------
(* Going elsewhere: a render after which the URL or the selected host may   *)
(* be another.                                                             *)

\* Only the handlers of plugins ask to link one.
LEMMA OnlyPlugAdds ==
    ASSUME NEW t, GoodTask(t), NEW h, NEW p, addPluginToHost(h, p) \in t.sent
    PROVE  t.at = "plug"
<1> DEFINE r == addPluginToHost(h, p)
<1>1. GoodArg(t) /\ r \in Asked(t)
  BY Asking
<1>2. r[1] = "addPluginToHost"
  BY DEF addPluginToHost
<1> HIDE DEF r
<1>3. CASE t.at \in {"hosts", "table", "keys", "plugins"}
  BY <1>1, <1>2, <1>3 DEF Asked, getAllHosts, getKeysForHost, getPluginsForHost
<1>4. CASE t.at \in {"save", "delete"}
  BY <1>1, <1>2, <1>4 DEF Asked, createHost, updateHost, deleteHost
<1>5. CASE t.at \in {"submit", "revoke"}
  BY <1>1, <1>2, <1>5 DEF Asked, generateKeyForHost, updateKey, deleteKey
<1>6. QED
  BY <1>1, <1>3, <1>4, <1>5 DEF GoodArg

\* A handler that is kept by a render, and what becomes of the others.
LEMMA RenderKeeps ==
    ASSUME NEW s, GoodUi(s), NEW u \in Urls, NEW ts, GoodTasks(ts), Render(s, u, ts)
    PROVE  \A k \in Slots :
              /\ ~Moved(u) /\ ts[k].at # "idle" => tasks'[k] = ts[k]
              /\ ts[k].at = "hosts" => tasks'[k].at = "hosts"
              /\ tasks'[k].at \in {ts[k].at, "hosts", Began(s, u).at, "idle"}
              /\ tasks'[k].at \notin {"idle", "hosts"} /\ ~Moved(u) /\ ts[k].at = "idle" => tasks'[k] = Began(s, u)
<1>1. GoodTasks(Kept(u, ts))
  BY UnmountedIs DEF Kept
<1>2. PICK i, j \in Slots \cup {0} :
            /\ i = 0 <=> Began(s, u) = Idle
            /\ j = 0 <=> u.id = url.id
            /\ i # j \/ i = 0
            /\ DOMAIN tasks' = Slots
            /\ \A k \in Slots : tasks'[k] = IF k = i THEN Began(s, u)
                                            ELSE IF k = j THEN fetchHosts(u.id) ELSE Kept(u, ts)[k]
            /\ \A k \in Slots : k \in {i, j} => Kept(u, ts)[k].at = "idle"
  BY <1>1, RenderStarts DEF GoodTasks
<1>3. fetchHosts(u.id).at = "hosts"
  BY DEF fetchHosts, Task
<1>4. ~Moved(u) => Kept(u, ts) = ts
  BY DEF Kept
<1>5. ASSUME NEW k \in Slots
      PROVE  (ts[k].at = "hosts" => Kept(u, ts)[k].at = "hosts") /\ Kept(u, ts)[k].at \in {"idle", ts[k].at}
  <2>1. CASE ~Moved(u)
    BY <1>4, <2>1
  <2>2. CASE Moved(u)
    <3>1. Kept(u, ts) = Unmounted(ts)
      BY <2>2 DEF Kept
    <3>2. ts[k].at = "hosts" => Unmounted(ts)[k] = [ts[k] EXCEPT !.live = TRUE]
      BY UnmountedIs
    <3>3. GoodTask(ts[k])
      BY DEF GoodTasks
    <3>4. ts[k].at = "hosts" => Unmounted(ts)[k].at = "hosts"
      BY <3>2, <3>3 DEF GoodTask, Idle
    <3>5. QED
      BY <3>1, <3>4, UnmountedIs
  <2>3. QED
    BY <2>1, <2>2
<1>6. ASSUME NEW k \in Slots
      PROVE  /\ ~Moved(u) /\ ts[k].at # "idle" => tasks'[k] = ts[k]
             /\ ts[k].at = "hosts" => tasks'[k].at = "hosts"
             /\ tasks'[k].at \in {ts[k].at, "hosts", Began(s, u).at, "idle"}
             /\ tasks'[k].at \notin {"idle", "hosts"} /\ ~Moved(u) /\ ts[k].at = "idle" => tasks'[k] = Began(s, u)
  BY <1>2, <1>3, <1>4, <1>5
<1>7. QED
  BY <1>6

\* The fetches a render begins do run.
LEMMA RenderAdds ==
    ASSUME NEW s, GoodUi(s), NEW u \in Urls, NEW ts, GoodTasks(ts), Render(s, u, ts)
    PROVE  /\ Began(s, u) # Idle => \E k \in Slots : tasks'[k] = Began(s, u)
           /\ u.id # url.id => \E k \in Slots : tasks'[k].at = "hosts"
<1>1. GoodTasks(Kept(u, ts))
  BY UnmountedIs DEF Kept
<1>2. PICK i, j \in Slots \cup {0} :
            /\ i = 0 <=> Began(s, u) = Idle
            /\ j = 0 <=> u.id = url.id
            /\ i # j \/ i = 0
            /\ DOMAIN tasks' = Slots
            /\ \A k \in Slots : tasks'[k] = IF k = i THEN Began(s, u)
                                            ELSE IF k = j THEN fetchHosts(u.id) ELSE Kept(u, ts)[k]
            /\ \A k \in Slots : k \in {i, j} => Kept(u, ts)[k].at = "idle"
  BY <1>1, RenderStarts DEF GoodTasks
<1>3. fetchHosts(u.id).at = "hosts" /\ 0 \notin Slots
  BY DEF fetchHosts, Task, Slots
<1>4. Began(s, u) # Idle => i \in Slots /\ tasks'[i] = Began(s, u)
  BY <1>2
<1>5. u.id # url.id => j \in Slots /\ tasks'[j].at = "hosts"
  BY <1>2, <1>3
<1>6. QED
  BY <1>4, <1>5

\* A render lets no spinner turn in vain.
LEMMA RenderSpins ==
    ASSUME TypeInv, NEW s, GoodUi(s), NEW u \in Urls, NEW ts, GoodTasks(ts), Render(s, u, ts),
           s.page.loading => \E k \in Slots : ts[k].at = "hosts",
           ~Moved(u) => Spins(url, s, ts)
    PROVE  SpinInv'
<1>1. PICK w : /\ w = After(s, u)
               /\ ui' = [page |-> ui'.page, details |-> w.details, keys |-> w.keys, plugins |-> w.plugins]
               /\ ui'.page = [hosts |-> s.page.hosts, loading |-> s.page.loading \/ u.id # url.id,
                              selected |-> s.page.selected, temp |-> s.page.temp]
               /\ url' = u
  BY RenderShows
<1>9. w = After(s, u)
  BY <1>1
<1>10. Moved(u) => w.details = NoDetails
  BY <1>9, TabIs
<1>11. Moved(u) /\ ~Switched(s, u) => w.keys = NoKeys /\ w.plugins = NoPlugins
  BY <1>9, TabIs
<1>2. \A k \in Slots : ~Moved(u) /\ ts[k].at # "idle" => tasks'[k] = ts[k]
  BY RenderKeeps
<1>3. ui'.page.loading => \E k \in Slots : tasks'[k].at = "hosts"
  <2>1. \A k \in Slots : ts[k].at = "hosts" => tasks'[k].at = "hosts"
    BY RenderKeeps
  <2>2. u.id # url.id => \E k \in Slots : tasks'[k].at = "hosts"
    BY RenderAdds
  <2>3. ui'.page.loading => s.page.loading \/ u.id # url.id
    <3> DEFINE l == s.page.loading \/ u.id # url.id
    <3>1. ui'.page = [hosts |-> s.page.hosts, loading |-> l, selected |-> s.page.selected, temp |-> s.page.temp]
      BY <1>1
    <3> HIDE DEF l
    <3>2. ui'.page.loading = l
      BY <3>1
    <3>3. QED
      BY <3>2 DEF l
  <2>4. QED
    BY <2>1, <2>2, <2>3
<1>4. ui'.details = w.details /\ ui'.keys = w.keys /\ ui'.plugins = w.plugins
  BY <1>1
<1>5. CASE u.tab = "details"
  <2>1. CASE Moved(u)
    <3>1. ~ui'.details.saving
      <4>1. w.details = NoDetails
        BY <2>1, <1>10
      <4>2. NoDetails.saving = FALSE
        BY DEF NoDetails
      <4>3. QED
        BY <1>4, <4>1, <4>2
    <3>2. Began(s, u).at = "table"
      BY <1>5, <2>1, FetchIs
    <3>3. \E k \in Slots : tasks'[k].at = "table"
      BY <3>2, RenderAdds DEF Idle
    <3>4. QED
      BY <1>1, <1>3, <1>5, <3>1, <3>3 DEF SpinInv, Spins
  <2>2. CASE ~Moved(u)
    <3>1. w.details = ModalFilled(s.details) /\ GoodDetails(s.details)
      BY <1>1, <1>5, <2>2, TabIs DEF GoodUi
    <3>2. ui'.details.loading = s.details.loading /\ ui'.details.saving = s.details.saving
      BY <1>4, <3>1, Fills
    <3>3. url.tab = "details" /\ Spins(url, s, ts)
      BY <1>5, <2>2 DEF Moved
    <3>4. ui'.details.loading => \E k \in Slots : tasks'[k].at = "table"
      BY <1>2, <2>2, <3>2, <3>3 DEF Spins
    <3>5. ui'.details.saving => \E k \in Slots : tasks'[k].at = "save" /\ tasks'[k].live
      BY <1>2, <2>2, <3>2, <3>3 DEF Spins
    <3>6. QED
      BY <1>1, <1>3, <1>5, <3>4, <3>5 DEF SpinInv, Spins
  <2>3. QED
    BY <2>1, <2>2
<1>6. CASE u.tab = "keys"
  <2>1. ui'.keys.loading => \E k \in Slots : tasks'[k].at \in {"keys", "submit", "revoke"} /\ tasks'[k].live
    <3>1. CASE Switched(s, u)
      <4>1. Began(s, u).at = "keys" /\ Began(s, u).live /\ Began(s, u) # Idle
        BY <1>6, <3>1, FetchIs DEF Idle
      <4>2. PICK k \in Slots : tasks'[k] = Began(s, u)
        BY <4>1, RenderAdds
      <4>3. QED
        BY <4>1, <4>2
    <3>2. CASE ~Switched(s, u) /\ Moved(u)
      <4>1. w.keys = NoKeys
        BY <3>2, <1>11
      <4>2. NoKeys.loading = FALSE
        BY DEF NoKeys
      <4>3. QED
        BY <1>4, <4>1, <4>2
    <3>3. CASE ~Switched(s, u) /\ ~Moved(u)
      <4>1. ui'.keys = s.keys
        BY <1>1, <1>4, <1>6, <3>3, TabIs
      <4>2. url.tab = "keys" /\ Spins(url, s, ts)
        BY <1>6, <3>3 DEF Moved
      <4>3. QED
        BY <1>2, <3>3, <4>1, <4>2 DEF Spins
    <3>4. QED
      BY <3>1, <3>2, <3>3
  <2>2. QED
    BY <1>1, <1>3, <1>6, <2>1 DEF SpinInv, Spins
<1>7. CASE u.tab = "plugins"
  <2>1. ui'.plugins.loading => \E k \in Slots : tasks'[k].at \in {"plugins", "plug"} /\ tasks'[k].live
    <3>1. CASE Switched(s, u)
      <4>1. Began(s, u).at = "plugins" /\ Began(s, u).live /\ Began(s, u) # Idle
        BY <1>7, <3>1, FetchIs DEF Idle
      <4>2. PICK k \in Slots : tasks'[k] = Began(s, u)
        BY <4>1, RenderAdds
      <4>3. QED
        BY <4>1, <4>2
    <3>2. CASE ~Switched(s, u) /\ Moved(u)
      <4>1. w.plugins = NoPlugins
        BY <3>2, <1>11
      <4>2. NoPlugins.loading = FALSE
        BY DEF NoPlugins
      <4>3. QED
        BY <1>4, <4>1, <4>2
    <3>3. CASE ~Switched(s, u) /\ ~Moved(u)
      <4>1. ui'.plugins = s.plugins
        BY <1>1, <1>4, <1>7, <3>3, TabIs
      <4>2. url.tab = "plugins" /\ Spins(url, s, ts)
        BY <1>7, <3>3 DEF Moved
      <4>3. QED
        BY <1>2, <3>3, <4>1, <4>2 DEF Spins
    <3>4. QED
      BY <3>1, <3>2, <3>3
  <2>2. QED
    BY <1>1, <1>3, <1>7, <2>1 DEF SpinInv, Spins
<1>8. QED
  BY <1>5, <1>6, <1>7 DEF Urls, PageTabs

\* A render loses no secret, unless it takes a handler that generates a key off the tab.
LEMMA RenderTells ==
    ASSUME NEW s, GoodUi(s), NEW u \in Urls, NEW ts, GoodTasks(ts), Render(s, u, ts),
           NEW d, NEW shown, Secrets(d, url, ts, shown),
           ~Moved(u) \/ \A k \in Slots : ts[k].at # "submit"
    PROVE  Secrets(d, u, tasks', shown)
<1>1. Began(s, u).at # "submit"
  BY FetchIs DEF OnScreen, Idle
<1>2. \A k \in Slots : /\ ~Moved(u) /\ ts[k].at # "idle" => tasks'[k] = ts[k]
                       /\ tasks'[k].at \in {ts[k].at, "hosts", Began(s, u).at, "idle"}
  BY RenderKeeps
<1>3. \A k \in Slots : tasks'[k].at = "submit" => ~Moved(u) /\ tasks'[k] = ts[k]
  BY <1>1, <1>2
<1>4. \A k \in Slots : ts[k].at = "submit" => tasks'[k] = ts[k]
  BY <1>2
<1>5. ~Moved(u) => u.tab = url.tab
  BY DEF Moved
<1>6. \A y \in DOMAIN d.keys : y \in shown \/ \E k \in Slots : tasks'[k].at = "submit" /\ y \in Generated(tasks'[k])
  BY <1>4, Zenon DEF Secrets
<1>7. \A k \in Slots : tasks'[k].at = "submit" => tasks'[k].live /\ u.tab = "keys"
  BY <1>3, <1>5 DEF Secrets
<1>8. QED
  BY <1>6, <1>7 DEF Secrets

\* Where nobody runs, a render of one step in the history leaves the page calm.
LEMMA RenderCalm ==
    ASSUME PageInv, NEW s, GoodUi(s), NEW u \in Urls, NEW ts, GoodTasks(ts), Render(s, u, ts), db' = db,
           \A k \in Slots : ts[k].at = "idle", NoHandler(tasks), Calm(db, url, ui, tasks),
           s.details = ui.details, s.keys = ui.keys, s.plugins = ui.plugins,
           u.id = url.id \/ (~Moved(u) /\ s.page.selected \in {ui.page.selected, u.id})
    PROVE  Calm(db, url, ui, tasks)'
<1> DEFINE e == Began(s, u)
           f == fetchHosts(u.id)
<1>1. \A k \in Slots : ts[k] = Idle
  BY DEF GoodTasks, GoodTask, GoodArg
<1>2. Idle.at = "idle" /\ Idle.got = <<>> /\ Idle.sent = {} /\ DOMAIN <<>> = {}
  BY DEF Idle
<1>4. GoodTasks(Kept(u, ts)) /\ \A k \in Slots : Kept(u, ts)[k] = Idle
  <2>1. GoodTasks(Unmounted(ts)) /\ \A k \in Slots : Unmounted(ts)[k] = Idle
    <3>1. /\ GoodTasks(Unmounted(ts))
          /\ \A k \in Slots : ts[k].at \in {"idle", "table", "keys", "plugins"} => Unmounted(ts)[k] = Idle
      BY UnmountedIs
    <3>2. QED
      BY <1>1, <1>2, <3>1
  <2>2. Kept(u, ts) = ts \/ Kept(u, ts) = Unmounted(ts)
    BY DEF Kept
  <2>3. QED
    BY <1>1, <2>1, <2>2
<1>5. PICK i, j \in Slots \cup {0} :
            /\ i = 0 <=> e = Idle
            /\ j = 0 <=> u.id = url.id
            /\ i # j \/ i = 0
            /\ \A k \in Slots : tasks'[k] = IF k = i THEN e ELSE IF k = j THEN f ELSE Idle
  <2>1. PICK i, j \in Slots \cup {0} :
            /\ i = 0 <=> Began(s, u) = Idle
            /\ j = 0 <=> u.id = url.id
            /\ i # j \/ i = 0
            /\ DOMAIN tasks' = Slots
            /\ \A k \in Slots : tasks'[k] = IF k = i THEN Began(s, u)
                                            ELSE IF k = j THEN fetchHosts(u.id) ELSE Kept(u, ts)[k]
            /\ \A k \in Slots : k \in {i, j} => Kept(u, ts)[k].at = "idle"
    BY <1>4, RenderStarts DEF GoodTasks
  <2>2. QED
    BY <1>4, <2>1
<1>6. f.at = "hosts" /\ f.live /\ f.got = <<>> /\ f.arg.id = u.id /\ f.sent = {getAllHosts}
  BY DEF fetchHosts, Task
<1>7. e # Idle => /\ e.at \notin {"idle", "hosts", "save", "plug"} /\ e.live /\ e.got = <<>> /\ e.at \in PlacesOf(u.tab)
                  /\ Moved(u) \/ Switched(s, u)
  BY FetchIs DEF OnScreen
<1>8. GoodTask(e) /\ 0 \notin Slots
  BY FetchIs DEF Slots
<1>9. /\ u.tab = "details" /\ Moved(u) => e # Idle
      /\ u.tab = "keys" /\ Switched(s, u) => e # Idle
      /\ u.tab = "plugins" /\ Switched(s, u) => e # Idle
      /\ u.tab \in {"keys", "plugins"} /\ e # Idle => e.arg.host = s.page.selected /\ Switched(s, u)
  BY <1>2, FetchIs
<1>10. PICK w : /\ w = After(s, u)
                /\ ui' = [page |-> ui'.page, details |-> w.details, keys |-> w.keys, plugins |-> w.plugins]
                /\ ui'.page = [hosts |-> s.page.hosts, loading |-> s.page.loading \/ u.id # url.id,
                               selected |-> s.page.selected, temp |-> s.page.temp]
                /\ url' = u
  BY RenderShows
<1>11. ui'.page.selected = s.page.selected
  BY <1>10
<1>12. ui'.details = w.details /\ ui'.keys = w.keys /\ ui'.plugins = w.plugins /\ url' = u
  BY <1>10
<1>13. /\ u.tab = "details" /\ ~Moved(u) => w.details = ModalFilled(ui.details)
       /\ u.tab = "keys" /\ Switched(s, u) => w.keys.loading
       /\ u.tab = "plugins" /\ Switched(s, u) => w.plugins.loading
       /\ ~Moved(u) /\ ~Switched(s, u) => w.keys = ui.keys /\ w.plugins = ui.plugins
  BY <1>10, TabIs
<1> HIDE DEF e, f
<1>14. OnlyOne(url, tasks)'
  <2>1. \A k \in Slots : tasks'[k].at \in {"idle", "hosts"} \cup PlacesOf(u.tab)
    BY <1>2, <1>5, <1>6, <1>7
  <2>2. \A k \in Slots : tasks'[k].at # "idle" => tasks'[k].live
    BY <1>2, <1>5, <1>6, <1>7
  <2>3. \A k \in Slots : tasks'[k].at = "hosts" => k = j
    BY <1>2, <1>5, <1>7
  <2>4. \A k \in Slots : tasks'[k].at \notin {"idle", "hosts"} => k = i
    BY <1>2, <1>5, <1>6
  <2>5. \A k \in Slots : tasks'[k].got = <<>>
    BY <1>2, <1>5, <1>6, <1>7
  <2>6. QED
    BY <1>2, <1>12, <2>1, <2>2, <2>3, <2>4, <2>5 DEF OnlyOne
<1>15. ForSelected(url, ui, tasks)'
  <2>1. \A k \in Slots : tasks'[k].at # "save"
    BY <1>2, <1>5, <1>6, <1>7
  <2>2. ASSUME u.tab # "details", NEW k \in Slots, tasks'[k].at \notin {"idle", "hosts"}
        PROVE  /\ tasks'[k].arg.host = s.page.selected
               /\ u.tab = "keys" => ui'.keys.loading
               /\ u.tab = "plugins" => ui'.plugins.loading
               /\ \A l \in Slots : tasks'[l].at = "hosts" => tasks'[l].arg.id = s.page.selected
    <3>1. tasks'[k] = e /\ e # Idle
      BY <1>2, <1>5, <1>6, <2>2
    <3>2. u.tab \in {"keys", "plugins"}
      BY <2>2 DEF Urls, PageTabs
    <3>3. Switched(s, u) /\ e.arg.host = s.page.selected
      BY <1>9, <3>1, <3>2
    <3>4. ASSUME NEW l \in Slots, tasks'[l].at = "hosts" PROVE tasks'[l].arg.id = s.page.selected
      <4>1. tasks'[l] = f /\ u.id # url.id
        BY <1>2, <1>5, <1>7, <1>8, <3>4
      <4>2. s.page.selected # ui.page.selected
        BY <3>3, <4>1 DEF Switched
      <4>3. QED
        BY <1>6, <4>1, <4>2
    <3>5. QED
      BY <1>12, <1>13, <3>1, <3>2, <3>3, <3>4
  <2>3. QED
    BY <1>11, <1>12, <2>1, <2>2 DEF ForSelected
<1>16. Current(db, url, ui, tasks)'
  <2>1. NoHandler(tasks') => e = Idle
    BY <1>5, <1>7, <1>8 DEF NoHandler
  <2>3. ASSUME u.tab = "details", NoHandler(tasks') PROVE ui'.details.hosts = db.hosts
    <3>1. ~Moved(u)
      BY <1>9, <2>1, <2>3
    <3>2. ui'.details.hosts = ui.details.hosts
      BY <1>12, <1>13, <2>3, <3>1, Fills DEF PageInv, TypeInv, GoodUi
    <3>3. QED
      BY <2>3, <3>1, <3>2 DEF Calm, Current, Moved
  <2>4. ASSUME u.tab \in {"keys", "plugins"}, NoHandler(tasks'), s.page.selected # None
        PROVE  /\ u.tab = "keys" => ui'.keys.list = OwnersKeys(db, s.page.selected)
               /\ u.tab = "plugins" => ui'.plugins.assigned = Linked(db, s.page.selected)
    <3>1. ~Switched(s, u)
      BY <1>9, <2>1, <2>4
    <3>2. ~Moved(u) /\ s.page.selected = ui.page.selected
      BY <2>4, <3>1 DEF Switched
    <3>3. ui'.keys = ui.keys /\ ui'.plugins = ui.plugins /\ u.tab = url.tab
      BY <1>12, <1>13, <3>1, <3>2 DEF Moved
    <3>4. QED
      BY <2>4, <3>2, <3>3 DEF Calm, Current
  <2>5. \A k \in Slots : tasks'[k].got = <<>>
    BY <1>2, <1>5, <1>6, <1>7
  <2>6. \A k \in Slots : \A r \in DOMAIN tasks'[k].got : FALSE
    BY <1>2, <2>5
  <2>7. QED
    BY <1>11, <1>12, <2>3, <2>4, <2>6 DEF Current
<1>17. LinkedOnceIn(db, tasks)'
  <2>1. ASSUME NEW k \in Slots, NEW h \in Hosts, NEW p \in Plugins PROVE addPluginToHost(h, p) \notin tasks'[k].sent
    <3>1. CASE tasks'[k] = e
      BY <1>2, <1>7, <1>8, <3>1, OnlyPlugAdds
    <3>2. CASE tasks'[k] = f
      BY <1>6, <3>2 DEF addPluginToHost, getAllHosts
    <3>3. CASE tasks'[k] = Idle
      BY <1>2, <3>3
    <3>4. QED
      BY <1>5, <3>1, <3>2, <3>3
  <2>2. QED
    BY <2>1 DEF Calm, LinkedOnceIn
<1>18. QED
  BY <1>14, <1>15, <1>16, <1>17 DEF Calm

\* Going to another URL keeps the invariants.
LEMMA MoveKeeps ==
    ASSUME PageInv, NEW s, GoodUi(s), NEW u \in Urls, Moves(u), Render(s, u, tasks),
           s.page.loading = ui.page.loading,
           s.details = ui.details, s.keys = ui.keys, s.plugins = ui.plugins,
           s.page.selected = ui.page.selected \/ s.page.selected = u.id
    PROVE  PageInv'
<1>1. /\ UNCHANGED <<db, failed, seen>>
      /\ ~hasty' => ~hasty /\ ~Busy /\ (u.id = url.id \/ ~Moved(u))
      /\ ~left' => ~left /\ (url.tab # "keys" \/ ~Moved(u) \/ ~Busy)
  BY DEF Moves, Moved
<1>2. TypeInv /\ GoodTasks(tasks) /\ FormIn(url, s.details)
  BY DEF PageInv, TypeInv
<1>3. url' \in Urls /\ GoodUi(ui)' /\ FormIn(url, ui.details)' /\ GoodTasks(tasks)'
  BY <1>2, RenderKeepsTypes DEF FormStays
<1>4. GoodDb(db)'
  BY <1>1, <1>2 DEF TypeInv, GoodDb
<1>5. TypeInv'
  BY <1>3, <1>4 DEF TypeInv
<1>6. SpinInv'
  <2>1. Spins(url, s, tasks) /\ (s.page.loading => \E k \in Slots : tasks[k].at = "hosts")
    BY DEF PageInv, SpinInv, Spins
  <2>2. QED
    BY <1>2, <2>1, RenderSpins
<1>7. SecretInv'
  <2> SUFFICES ASSUME ~left', ~failed' PROVE Secrets(db, url, tasks, seen)'
    BY DEF SecretInv
  <2>1. Secrets(db, url, tasks, seen)
    BY <1>1 DEF PageInv, SecretInv
  <2>2. ~Moved(u) \/ \A k \in Slots : tasks[k].at # "submit"
    BY <1>1, <2>1 DEF Secrets, Busy, Running
  <2>3. Secrets(db, u, tasks', seen)
    BY <1>2, <2>1, <2>2, RenderTells
  <2>4. url' = u
    BY DEF Render
  <2>5. QED
    BY <1>1, <2>3, <2>4
<1>8. CalmInv'
  <2> SUFFICES ASSUME ~hasty', ~failed' PROVE Calm(db, url, ui, tasks)'
    BY DEF CalmInv
  <2>1. /\ Calm(db, url, ui, tasks) /\ db' = db
        /\ u.id = url.id \/ (~Moved(u) /\ s.page.selected \in {ui.page.selected, u.id})
    BY <1>1 DEF PageInv, CalmInv
  <2>2. NoHandler(tasks) /\ \A k \in Slots : tasks[k].at = "idle"
    BY <1>1 DEF Busy, Running, NoHandler
  <2>3. QED
    BY <1>2, <2>1, <2>2, RenderCalm
<1>9. QED
  BY <1>5, <1>6, <1>7, <1>8 DEF PageInv

\* The clicks and steps in the history that go elsewhere.
LEMMA MovesAway ==
    ASSUME PageInv,
           \/ \E t \in PageTabs : handleTabChange(t)
           \/ \E u \in [id : (db.given \cap Hosts) \cup {None}, tab : PageTabs] : Back(u)
           \/ \E h \in Hosts \cup {Temp} : handleSelectHost(h)
           \/ handleCreateHost
           \/ \E h \in Hosts : handleViewKeys(h)
    PROVE  PageInv'
<1>1. /\ ui \in [page : PageType, details : DetailsType, keys : KeysType, plugins : PluginsType]
      /\ GoodUi(ui) /\ GoodDetails(ui.details) /\ url \in Urls /\ ui.page \in PageType
  BY DEF PageInv, TypeInv, GoodUi
<1>2. ASSUME NEW u \in Urls, Moves(u), Render(ui, u, tasks) PROVE PageInv'
  BY <1>1, <1>2, MoveKeeps
<1>3. ASSUME NEW t \in PageTabs, handleTabChange(t) PROVE PageInv'
  <2>1. [url EXCEPT !.tab = t] \in Urls
    BY <1>1 DEF Urls
  <2>2. QED
    BY <1>2, <1>3, <2>1 DEF handleTabChange
<1>4. ASSUME NEW u \in [id : (db.given \cap Hosts) \cup {None}, tab : PageTabs], Back(u) PROVE PageInv'
  <2>1. u \in Urls
    BY DEF Urls, HostIds
  <2>2. QED
    BY <1>2, <1>4, <2>1 DEF Back
<1>5. ASSUME NEW h \in HostIds, NEW p \in PageType, p.selected = h, p.loading = ui.page.loading,
             Moves([url EXCEPT !.id = h]),
             Render([ui EXCEPT !.page = p], [url EXCEPT !.id = h], tasks)
      PROVE  PageInv'
  <2> DEFINE s == [ui EXCEPT !.page = p]
             u == [url EXCEPT !.id = h]
  <2>1. s.page = p /\ s.details = ui.details /\ s.keys = ui.keys /\ s.plugins = ui.plugins /\ GoodUi(s)
    BY <1>1 DEF GoodUi
  <2>2. u \in Urls /\ u.id = h
    BY <1>1 DEF Urls
  <2>3. Moves(u) /\ Render(s, u, tasks)
    BY <1>5
  <2> HIDE DEF s, u
  <2>4. QED
    BY <1>5, <2>1, <2>2, <2>3, MoveKeeps
<1>6. ASSUME NEW h \in Hosts \cup {Temp}, handleSelectHost(h) PROVE PageInv'
  <2> DEFINE p == [ui.page EXCEPT !.selected = h]
  <2>1. h \in HostIds
    BY DEF HostIds
  <2>2. p \in PageType /\ p.selected = h /\ p.loading = ui.page.loading
    BY <1>1, <2>1 DEF PageType
  <2>3. Moves([url EXCEPT !.id = h]) /\ Render([ui EXCEPT !.page = p], [url EXCEPT !.id = h], tasks)
    BY <1>6 DEF handleSelectHost
  <2> HIDE DEF p
  <2>4. QED
    BY <1>5, <2>1, <2>2, <2>3
<1>7. CASE handleCreateHost
  <2> DEFINE p == [ui.page EXCEPT !.hosts = @ \cup {Temp}, !.selected = Temp, !.temp = TRUE]
  <2>1. Temp \in HostIds
    BY DEF HostIds
  <2>2. p \in PageType /\ p.selected = Temp /\ p.loading = ui.page.loading
    BY <1>1, <2>1 DEF PageType
  <2>3. Moves([url EXCEPT !.id = Temp]) /\ Render([ui EXCEPT !.page = p], [url EXCEPT !.id = Temp], tasks)
    <3>1. [ui EXCEPT !.page.hosts = @ \cup {Temp}, !.page.selected = Temp, !.page.temp = TRUE] = [ui EXCEPT !.page = p]
      BY <1>1
    <3>2. QED
      BY <1>7, <3>1 DEF handleCreateHost
  <2> HIDE DEF p
  <2>4. QED
    BY <1>5, <2>1, <2>2, <2>3
<1>8. ASSUME NEW h \in Hosts, handleViewKeys(h) PROVE PageInv'
  <2>1. [url EXCEPT !.id = h] \in Urls
    BY <1>1 DEF Urls, HostIds
  <2>2. QED
    BY <1>2, <1>8, <2>1 DEF handleViewKeys
<1>9. QED
  BY <1>3, <1>4, <1>6, <1>7, <1>8

-----------------------------------------------------------------------------
(* The handlers after their awaits.                                        *)

\* A screen s whose spinners turn no longer than handlers run when k becomes t.
StopsSpinners(k, t, s) ==
    /\ s.page.loading => ui.page.loading /\ tasks[k].at # "hosts"
    /\ s.details.loading => t.at = "table" \/ (ui.details.loading /\ tasks[k].at # "table")
    /\ s.details.saving => ui.details.saving /\ ~(tasks[k].at = "save" /\ tasks[k].live)
    /\ s.keys.loading =>
          \/ t.at = "keys" /\ t.live
          \/ ui.keys.loading /\ ~(tasks[k].at \in {"keys", "submit", "revoke"} /\ tasks[k].live)
    /\ s.plugins.loading =>
          \/ t.at = "plugins" /\ t.live
          \/ ui.plugins.loading /\ ~(tasks[k].at \in {"plugins", "plug"} /\ tasks[k].live)

\* Such a screen keeps what is said of spinners.
LEMMA SpinsLeft ==
    ASSUME PageInv, NEW k \in Slots, NEW t, NEW s, StopsSpinners(k, t, s)
    PROVE  Spins(url, s, [tasks EXCEPT ![k] = t])
<1> DEFINE ts == [tasks EXCEPT ![k] = t]
<1>1. ts[k] = t /\ \A j \in Slots : j # k => ts[j] = tasks[j]
  BY DEF PageInv, TypeInv, GoodTasks
<1>2. Spins(url, ui, tasks)
  BY DEF PageInv, SpinInv
<1> HIDE DEF ts
<1>3. s.page.loading => \E j \in Slots : ts[j].at = "hosts"
  BY <1>1, <1>2 DEF Spins, StopsSpinners
<1>4. url.tab = "details" /\ s.details.loading => \E j \in Slots : ts[j].at = "table"
  <2> SUFFICES ASSUME url.tab = "details", s.details.loading PROVE \E j \in Slots : ts[j].at = "table"
    OBVIOUS
  <2>1. CASE t.at = "table"
    BY <1>1, <2>1
  <2>2. CASE t.at # "table"
    BY <1>1, <1>2, <2>2 DEF Spins, StopsSpinners
  <2>3. QED
    BY <2>1, <2>2
<1>5. url.tab = "details" /\ s.details.saving => \E j \in Slots : ts[j].at = "save" /\ ts[j].live
  BY <1>1, <1>2 DEF Spins, StopsSpinners
<1>6. url.tab = "keys" /\ s.keys.loading =>
          \E j \in Slots : ts[j].at \in {"keys", "submit", "revoke"} /\ ts[j].live
  <2> SUFFICES ASSUME url.tab = "keys", s.keys.loading
               PROVE  \E j \in Slots : ts[j].at \in {"keys", "submit", "revoke"} /\ ts[j].live
    OBVIOUS
  <2>1. CASE t.at = "keys" /\ t.live
    BY <1>1, <2>1
  <2>2. CASE ~(t.at = "keys" /\ t.live)
    BY <1>1, <1>2, <2>2 DEF Spins, StopsSpinners
  <2>3. QED
    BY <2>1, <2>2
<1>7. url.tab = "plugins" /\ s.plugins.loading =>
          \E j \in Slots : ts[j].at \in {"plugins", "plug"} /\ ts[j].live
  <2> SUFFICES ASSUME url.tab = "plugins", s.plugins.loading
               PROVE  \E j \in Slots : ts[j].at \in {"plugins", "plug"} /\ ts[j].live
    OBVIOUS
  <2>1. CASE t.at = "plugins" /\ t.live
    BY <1>1, <2>1
  <2>2. CASE ~(t.at = "plugins" /\ t.live)
    BY <1>1, <1>2, <2>2 DEF Spins, StopsSpinners
  <2>3. QED
    BY <2>1, <2>2
<1>8. Spins(url, s, ts)
  BY <1>3, <1>4, <1>5, <1>6, <1>7 DEF Spins
<1>9. QED
  BY <1>8 DEF ts

\* A handler sets the state of its tab, and ends or goes on as t.
LEMMA HandlerKeeps ==
    ASSUME PageInv, NEW k \in Slots, NEW t, GoodTask(t), NEW s, GoodUi(s), FormStays(s),
           s.page = ui.page, Stay, Render(s, url, [tasks EXCEPT ![k] = t]), StopsSpinners(k, t, s)
    PROVE  /\ TypeInv' /\ SpinInv' /\ Becomes(k, t)
           /\ ui'.page = ui.page /\ ui'.keys = s.keys /\ ui'.plugins = s.plugins
           /\ ui'.details.hosts = s.details.hosts
<1> DEFINE ts == [tasks EXCEPT ![k] = t]
<1>1. TypeInv /\ s.page.selected = ui.page.selected /\ url \in Urls
  BY DEF PageInv, TypeInv
<1>2. GoodTasks(ts)
  BY <1>1 DEF TypeInv, GoodTasks
<1>3. Spins(url, s, ts)
  BY SpinsLeft
<1>4. Render(s, url, ts)
  OBVIOUS
<1> HIDE DEF ts
<1>5. /\ url' = url /\ tasks' = ts
      /\ ui'.page = s.page /\ ui'.keys = s.keys /\ ui'.plugins = s.plugins
      /\ ui'.details.hosts = s.details.hosts
      /\ GoodUi(ui)' /\ FormIn(url, ui.details)'
  BY <1>1, <1>4, RenderHere
<1>6. Becomes(k, t)
  BY <1>5 DEF Becomes, Stay, ts
<1>7. TypeInv'
  BY <1>1, <1>2, <1>5 DEF TypeInv, Stay, GoodTasks
<1>8. SpinInv'
  <2>1. ~Moved(url) /\ (s.page.loading => \E j \in Slots : ts[j].at = "hosts")
    BY <1>3 DEF Moved, Spins
  <2>2. QED
    BY <1>1, <1>2, <1>3, <1>4, <2>1, RenderSpins
<1>9. QED
  BY <1>5, <1>6, <1>7, <1>8

\* Of a patient user's handler of a tab: it is on the open tab, alone and for the selected
\* host, and its answer is the data there is.
LEMMA TabHandler ==
    ASSUME PageInv, NEW k \in Slots, ~hasty, ~failed,
           tasks[k].at \in {"table", "save", "delete", "keys", "submit", "revoke", "plugins", "plug"}
    PROVE  /\ tasks[k].live /\ ~Threw(tasks[k])
           /\ tasks[k].at \in PlacesOf(url.tab)
           /\ url.tab = "details" <=> tasks[k].at \in {"table", "save", "delete"}
           /\ url.tab = "keys" <=> tasks[k].at \in {"keys", "submit", "revoke"}
           /\ url.tab = "plugins" <=> tasks[k].at \in {"plugins", "plug"}
           /\ url.tab # "details" => tasks[k].arg.host = ui.page.selected
           /\ \A r \in DOMAIN tasks[k].got :
                 /\ tasks[k].at = "table" => tasks[k].got[r].data = db.hosts
                 /\ tasks[k].at = "keys" => tasks[k].got[r].data = OwnersKeys(db, ui.page.selected)
                 /\ tasks[k].at = "plugins" => tasks[k].got[r].data = Linked(db, ui.page.selected)
<1>1. OnlyOne(url, tasks) /\ ForSelected(url, ui, tasks) /\ Current(db, url, ui, tasks)
  BY DEF PageInv, CalmInv, Calm
<1>2. url.tab \in {"details", "keys", "plugins"}
  BY DEF PageInv, TypeInv, Urls, PageTabs
<1>3. tasks[k].at \in PlacesOf(url.tab) /\ tasks[k].live
  BY <1>1 DEF OnlyOne
<1>4. /\ url.tab = "details" <=> tasks[k].at \in {"table", "save", "delete"}
      /\ url.tab = "keys" <=> tasks[k].at \in {"keys", "submit", "revoke"}
      /\ url.tab = "plugins" <=> tasks[k].at \in {"plugins", "plug"}
  BY <1>2, <1>3 DEF PlacesOf
<1>5. url.tab # "details" => tasks[k].arg.host = ui.page.selected
  BY <1>1 DEF ForSelected
<1>6. ~Threw(tasks[k])
  BY <1>1 DEF OnlyOne, Threw
<1>7. \A r \in DOMAIN tasks[k].got :
                 /\ tasks[k].at = "table" => tasks[k].got[r].data = db.hosts
                 /\ tasks[k].at = "keys" => tasks[k].got[r].data = OwnersKeys(db, ui.page.selected)
                 /\ tasks[k].at = "plugins" => tasks[k].got[r].data = Linked(db, ui.page.selected)
  BY <1>1, <1>4, <1>5 DEF Current
<1>8. QED
  BY <1>3, <1>4, <1>5, <1>6, <1>7

\* The table shows the hosts that were fetched.
LEMMA TableKeeps ==
    ASSUME PageInv, NEW k \in Slots, TableFetched(k)
    PROVE  PageInv'
<1> DEFINE t == tasks[k]
           o == ui.details
           n == IF Threw(t) THEN [o EXCEPT !.loading = FALSE]
                ELSE [o EXCEPT !.loading = FALSE, !.hosts = Data(t, getAllHosts)]
           s == [ui EXCEPT !.details = n]
<1>1. t.at = "table" /\ t.sent = {} /\ Render(s, url, End(tasks, k)) /\ Stay /\ UNCHANGED seen
  BY DEF TableFetched, StayUnseen, Answered, At
<1>2. /\ ui \in [page : PageType, details : DetailsType, keys : KeysType, plugins : PluginsType]
      /\ GoodDetails(o) /\ FormIn(url, o) /\ o \in DetailsType /\ GoodTask(t)
  BY DEF PageInv, TypeInv, GoodUi, GoodTasks
<1>3. PICK r \in Asked(t) : DOMAIN t.got = {r} /\ (~Threw(t) => t.got[r].ok /\ Tells(t, r, t.got[r].data))
  BY <1>1, <1>2, Answers
<1>4. r = getAllHosts
  BY <1>1 DEF Asked
<1>5. ~Threw(t) => Data(t, getAllHosts) \in Tables /\ Faithful(Data(t, getAllHosts))
  BY <1>1, <1>3, <1>4 DEF Tells, Data
<1> HIDE DEF t
<1>6. /\ GoodDetails(n) /\ FormIn(url, n) /\ n \in DetailsType
      /\ ~n.loading /\ n.saving = o.saving /\ (~Threw(t) => n.hosts = Data(t, getAllHosts))
  <2>1. CASE Threw(t)
    BY <1>2, <2>1 DEF GoodDetails, FormIn, GoodForm, DetailsType
  <2>2. CASE ~Threw(t)
    BY <1>2, <1>5, <2>2 DEF GoodDetails, FormIn, GoodForm, DetailsType
  <2>3. QED
    BY <2>1, <2>2
<1> HIDE DEF n
<1>7. s.page = ui.page /\ s.details = n /\ s.keys = ui.keys /\ s.plugins = ui.plugins /\ GoodUi(s)
  BY <1>2, <1>6 DEF GoodUi
<1> HIDE DEF s
<1>8. StopsSpinners(k, Idle, s)
  BY <1>1, <1>6, <1>7 DEF StopsSpinners, t
<1>9. Render(s, url, [tasks EXCEPT ![k] = Idle]) /\ GoodTask(Idle)
  BY <1>1, Fetches DEF End
<1>10. /\ TypeInv' /\ SpinInv' /\ Becomes(k, Idle)
       /\ ui'.page = ui.page /\ ui'.details.hosts = n.hosts
  BY <1>1, <1>6, <1>7, <1>8, <1>9, HandlerKeeps DEF FormStays
<1>11. SecretInv'
  BY <1>1, <1>10, NoSecret DEF t, Idle
<1>12. CalmInv'
  <2> SUFFICES ASSUME ~hasty, ~failed PROVE CalmInv'
    BY <1>10 DEF CalmInv, Becomes
  <2>1. ~Threw(t) /\ url.tab = "details" /\ t.got[r].data = db.hosts
    BY <1>1, <1>3, TabHandler DEF t
  <2>2. ui'.details.hosts = db.hosts
    BY <1>4, <1>6, <1>10, <2>1 DEF Data
  <2>3. QED
    BY <1>1, <1>10, <2>1, <2>2, EndsTrue DEF t
<1>13. QED
  BY <1>10, <1>11, <1>12 DEF PageInv

\* The end of saving and of deleting a host: the table is fetched again.
LEMMA HostWrittenKeeps ==
    ASSUME PageInv, NEW k \in Slots, SaveAnswered(k) \/ DeleteAnswered(k)
    PROVE  PageInv'
<1> DEFINE t == tasks[k]
           o == ui.details
           e == IF Threw(t) \/ ~t.live THEN Idle ELSE fetchTable
<1>1. /\ ui \in [page : PageType, details : DetailsType, keys : KeysType, plugins : PluginsType]
      /\ GoodDetails(o) /\ FormIn(url, o) /\ o \in DetailsType /\ GoodUi(ui)
  BY DEF PageInv, TypeInv, GoodUi
<1>2. GoodTask(e) /\ (e.at = "table" <=> ~Threw(t) /\ t.live) /\ e.at # "submit"
  BY Fetches DEF Idle, fetchTable, Task
<1>3. Refetch(k) = [tasks EXCEPT ![k] = e]
  BY DEF Refetch, End
<1> HIDE DEF t, e
<1>4. ASSUME t.at \in {"save", "delete"}, Stay, UNCHANGED seen,
             NEW n \in DetailsType, GoodDetails(n), n.loading = (o.loading \/ ~Threw(t)),
             FormIn(url, n) \/ (url.tab = "details" /\ n.form = o.form),
             n.saving => o.saving /\ t.at = "delete",
             Render(Show(k, [ui EXCEPT !.details = n]), url, Refetch(k))
      PROVE  PageInv'
  <2> DEFINE s == Show(k, [ui EXCEPT !.details = n])
  <2>1. /\ GoodUi(s) /\ FormStays(s) /\ s.page = ui.page /\ s.keys = ui.keys /\ s.plugins = ui.plugins
        /\ t.live => s.details = n
        /\ ~t.live => s = ui
    <3>1. CASE t.live
      <4> DEFINE x == [ui EXCEPT !.details = n]
      <4>1. x.page = ui.page /\ x.details = n /\ x.keys = ui.keys /\ x.plugins = ui.plugins /\ GoodUi(x)
        BY <1>1, <1>4 DEF GoodUi
      <4>2. s = x
        BY <3>1 DEF Show, t
      <4> HIDE DEF x
      <4>3. QED
        BY <1>4, <3>1, <4>1, <4>2 DEF FormStays
    <3>2. CASE ~t.live
      BY <1>1, <3>2 DEF Show, FormStays, t
    <3>3. QED
      BY <3>1, <3>2
  <2>2. Render(s, url, [tasks EXCEPT ![k] = e])
    BY <1>3, <1>4
  <2> HIDE DEF s
  <2>3. StopsSpinners(k, e, s)
    <3>1. CASE t.live
      <4>1. s.details.loading => o.loading \/ ~Threw(t)
        BY <1>4, <2>1, <3>1
      <4>2. s.details.saving => o.saving /\ t.at = "delete"
        BY <1>4, <2>1, <3>1
      <4>3. QED
        BY <1>2, <1>4, <2>1, <3>1, <4>1, <4>2 DEF StopsSpinners, t
    <3>2. CASE ~t.live
      BY <1>2, <1>4, <2>1, <3>2 DEF StopsSpinners, t
    <3>3. QED
      BY <3>1, <3>2
  <2>4. TypeInv' /\ SpinInv' /\ Becomes(k, e) /\ ui'.page = ui.page
    BY <1>2, <1>4, <2>1, <2>2, <2>3, HandlerKeeps DEF FormStays
  <2>5. SecretInv'
    BY <1>2, <1>4, <2>4, NoSecret DEF t
  <2>6. CalmInv'
    <3> SUFFICES ASSUME ~hasty, ~failed PROVE CalmInv'
      BY <2>4 DEF CalmInv, Becomes
    <3>1. t.live /\ ~Threw(t) /\ url.tab = "details"
      BY <1>4, TabHandler DEF t
    <3>2. e = fetchTable
      BY <3>1 DEF e
    <3>3. /\ fetchTable.at \in PlacesOf(url.tab) \cap OnScreen /\ fetchTable.live /\ fetchTable.got = <<>>
          /\ \A h \in Hosts, p \in Plugins : addPluginToHost(h, p) \notin fetchTable.sent
      BY <3>1 DEF fetchTable, Task, PlacesOf, OnScreen, addPluginToHost, getAllHosts
    <3>4. tasks[k].at \in PlacesOf(url.tab)
      BY <1>4, <3>1 DEF PlacesOf, t
    <3>5. QED
      BY <2>4, <3>1, <3>2, <3>3, <3>4, GoesOn
  <2>7. QED
    BY <2>4, <2>5, <2>6 DEF PageInv
<1>5. CASE SaveAnswered(k)
  <2> DEFINE n == [Closed(o) EXCEPT !.saving = FALSE, !.loading = @ \/ ~Threw(t)]
  <2>1. /\ n \in DetailsType /\ GoodDetails(n) /\ n.loading = (o.loading \/ ~Threw(t)) /\ ~n.saving
        /\ n.selected = None /\ n.form = o.form
    BY <1>1 DEF Closed, DetailsType, GoodDetails
  <2>2. t.at = "save" /\ Stay /\ UNCHANGED seen /\ Render(Show(k, [ui EXCEPT !.details = n]), url, Refetch(k))
    BY <1>5 DEF SaveAnswered, StayUnseen, Answered, At, t
  <2> HIDE DEF n
  <2>3. FormIn(url, n) \/ (url.tab = "details" /\ n.form = o.form)
    BY <1>1, <2>1 DEF FormIn, GoodForm
  <2>4. QED
    BY <1>4, <2>1, <2>2, <2>3
<1>6. CASE DeleteAnswered(k)
  <2> DEFINE n == [o EXCEPT !.confirm = FALSE, !.toDelete = None, !.loading = @ \/ ~Threw(t)]
  <2>1. /\ n \in DetailsType /\ GoodDetails(n) /\ FormIn(url, n) /\ n.loading = (o.loading \/ ~Threw(t))
        /\ n.saving => o.saving
    BY <1>1 DEF DetailsType, GoodDetails, FormIn, GoodForm
  <2>2. t.at = "delete" /\ Stay /\ UNCHANGED seen /\ Render(Show(k, [ui EXCEPT !.details = n]), url, Refetch(k))
    BY <1>6 DEF DeleteAnswered, StayUnseen, Answered, At, t
  <2> HIDE DEF n
  <2>3. QED
    BY <1>4, <2>1, <2>2
<1>7. QED
  BY <1>5, <1>6

\* The list of keys is shown.
LEMMA KeysKeep ==
    ASSUME PageInv, NEW k \in Slots, KeysFetched(k)
    PROVE  PageInv'
<1> DEFINE t == tasks[k]
           o == ui.keys
           n == [o EXCEPT !.loading = FALSE,
                          !.list = IF Threw(t) THEN @ ELSE Data(t, getKeysForHost(t.arg.host)),
                          !.form = IF t.arg.then = "closeForm" THEN None ELSE @,
                          !.confirm = IF t.arg.then = "unconfirm" THEN None ELSE @]
           s == [ui EXCEPT !.keys = n]
<1>1. t.at = "keys" /\ t.sent = {} /\ Render(s, url, End(tasks, k)) /\ Stay /\ UNCHANGED seen
  BY DEF KeysFetched, StayUnseen, Answered, At
<1>2. /\ ui \in [page : PageType, details : DetailsType, keys : KeysType, plugins : PluginsType]
      /\ GoodDetails(ui.details) /\ FormIn(url, ui.details) /\ o \in KeysType /\ GoodTask(t)
  BY DEF PageInv, TypeInv, GoodUi, GoodTasks
<1>3. PICK r \in Asked(t) : DOMAIN t.got = {r} /\ (~Threw(t) => t.got[r].ok /\ Tells(t, r, t.got[r].data))
  BY <1>1, <1>2, Answers
<1>4. r = getKeysForHost(t.arg.host)
  BY <1>1 DEF Asked
<1>5. ~Threw(t) => Data(t, getKeysForHost(t.arg.host)) \in SUBSET Keys
  BY <1>1, <1>3, <1>4 DEF Tells, Data
<1> HIDE DEF t
<1>6. n \in KeysType /\ ~n.loading /\ (~Threw(t) => n.list = Data(t, getKeysForHost(t.arg.host)))
  BY <1>2, <1>5 DEF KeysType
<1> HIDE DEF n
<1>7. s.page = ui.page /\ s.details = ui.details /\ s.keys = n /\ s.plugins = ui.plugins /\ GoodUi(s)
  BY <1>2, <1>6 DEF GoodUi
<1> HIDE DEF s
<1>8. StopsSpinners(k, Idle, s)
  BY <1>1, <1>6, <1>7 DEF StopsSpinners, t
<1>9. Render(s, url, [tasks EXCEPT ![k] = Idle]) /\ GoodTask(Idle)
  BY <1>1, Fetches DEF End
<1>10. TypeInv' /\ SpinInv' /\ Becomes(k, Idle) /\ ui'.page = ui.page /\ ui'.keys = n
  BY <1>1, <1>2, <1>7, <1>8, <1>9, HandlerKeeps DEF FormStays
<1>11. SecretInv'
  BY <1>1, <1>10, NoSecret DEF t, Idle
<1>12. CalmInv'
  <2> SUFFICES ASSUME ~hasty, ~failed PROVE CalmInv'
    BY <1>10 DEF CalmInv, Becomes
  <2>1. ~Threw(t) /\ url.tab = "keys" /\ t.got[r].data = OwnersKeys(db, ui.page.selected)
    BY <1>1, <1>3, TabHandler DEF t
  <2>2. ui'.keys.list = OwnersKeys(db, ui.page.selected)
    BY <1>4, <1>6, <1>10, <2>1 DEF Data
  <2>3. QED
    BY <1>1, <1>10, <2>1, <2>2, EndsTrue DEF t
<1>13. QED
  BY <1>10, <1>11, <1>12 DEF PageInv

\* What keeps the invariants but that of secrets when a handler of keys or plugins that
\* has written goes on to fetch.
LEMMA WrittenKeeps ==
    ASSUME PageInv, NEW k \in Slots, NEW n \in KeysType, NEW g \in PluginsType, Stay,
           NEW f, GoodTask(f), f.live, f.got = <<>>, f.arg.host = tasks[k].arg.host,
           \/ tasks[k].at \in {"submit", "revoke"} /\ g = ui.plugins /\ f.at = "keys"
           \/ tasks[k].at = "plug" /\ n = ui.keys /\ f.at = "plugins",
           LET goesOn == tasks[k].live /\ ~Threw(tasks[k]) IN
               /\ tasks[k].live /\ tasks[k].at # "plug" => n.loading = goesOn
               /\ tasks[k].live /\ tasks[k].at = "plug" => g.loading = goesOn
               /\ Render(Show(k, [ui EXCEPT !.keys = n, !.plugins = g]), url,
                         IF goesOn THEN [tasks EXCEPT ![k] = f] ELSE End(tasks, k))
    PROVE  /\ TypeInv' /\ SpinInv' /\ CalmInv'
           /\ \E e : Becomes(k, e) /\ e.at # "submit"
<1> DEFINE t == tasks[k]
           goesOn == t.live /\ ~Threw(t)
           e == IF goesOn THEN f ELSE Idle
           x == [ui EXCEPT !.keys = n, !.plugins = g]
           s == Show(k, x)
<1>1. /\ ui \in [page : PageType, details : DetailsType, keys : KeysType, plugins : PluginsType]
      /\ GoodDetails(ui.details) /\ FormIn(url, ui.details) /\ GoodUi(ui)
  BY DEF PageInv, TypeInv, GoodUi
<1>2. x.page = ui.page /\ x.details = ui.details /\ x.keys = n /\ x.plugins = g /\ GoodUi(x)
  BY <1>1 DEF GoodUi
<1>3. /\ goesOn => e = f
      /\ ~goesOn => e = Idle
      /\ GoodTask(e) /\ e.at # "submit"
  BY Fetches DEF Idle
<1>4. (t.live => s = x) /\ (~t.live => s = ui)
  BY DEF Show
<1>5. Render(s, url, [tasks EXCEPT ![k] = e])
  BY DEF End
<1>6. goesOn <=> t.live /\ ~Threw(t)
  OBVIOUS
<1>7. /\ t.live /\ t.at # "plug" => n.loading = goesOn
      /\ t.live /\ t.at = "plug" => g.loading = goesOn
  OBVIOUS
<1> HIDE DEF t, x, e, s, goesOn
<1>8. GoodUi(s) /\ s.page = ui.page /\ s.details = ui.details
  BY <1>1, <1>2, <1>4
<1>9. StopsSpinners(k, e, s)
  <2>1. CASE t.live
    BY <1>2, <1>3, <1>4, <1>7, <2>1 DEF StopsSpinners, t
  <2>2. CASE ~t.live
    BY <1>4, <2>2 DEF StopsSpinners, t
  <2>3. QED
    BY <2>1, <2>2
<1>10. /\ TypeInv' /\ SpinInv' /\ Becomes(k, e)
       /\ ui'.page = ui.page /\ ui'.keys = s.keys /\ ui'.plugins = s.plugins
  BY <1>1, <1>3, <1>5, <1>8, <1>9, HandlerKeeps DEF FormStays
<1>11. CalmInv'
  <2> SUFFICES ASSUME ~hasty, ~failed PROVE CalmInv'
    BY <1>10 DEF CalmInv, Becomes
  <2>1. /\ t.live /\ ~Threw(t) /\ t.at \in PlacesOf(url.tab)
        /\ url.tab = "keys" <=> t.at \in {"submit", "revoke"}
        /\ url.tab = "plugins" <=> t.at = "plug"
    BY TabHandler DEF t
  <2>2. e = f /\ goesOn /\ s = x
    BY <1>3, <1>4, <1>6, <2>1
  <2>3. f.at \in PlacesOf(url.tab) \cap OnScreen
    BY <2>1 DEF PlacesOf, OnScreen, t
  <2>4. \A h \in Hosts, p \in Plugins : addPluginToHost(h, p) \notin f.sent
    BY OnlyPlugAdds
  <2>5. (url.tab = "keys" => ui'.keys.loading) /\ (url.tab = "plugins" => ui'.plugins.loading)
    BY <1>2, <1>7, <1>10, <2>1, <2>2
  <2>6. QED
    BY <1>10, <2>1, <2>2, <2>3, <2>4, <2>5, GoesOn DEF t
<1>12. QED
  BY <1>3, <1>10, <1>11

\* The end of generating or changing a key: its secret is shown, and the keys are fetched
\* again.
LEMMA SubmitKeeps ==
    ASSUME PageInv, NEW k \in Slots, SubmitAnswered(k)
    PROVE  PageInv'
<1> DEFINE t == tasks[k]
           o == ui.keys
           n == [o EXCEPT !.loading = ~Threw(t),
                          !.shown = IF Generated(t) = {} THEN @ ELSE CHOOSE y \in Generated(t) : TRUE]
           f == fetchKeys(t.arg.host, "closeForm")
           goesOn == t.live /\ ~Threw(t)
<1>1. /\ t.at = "submit" /\ t.sent = {} /\ Stay
      /\ seen' = IF t.live THEN seen \cup Generated(t) ELSE seen
      /\ Render(Show(k, [ui EXCEPT !.keys = n]), url, IF goesOn THEN [tasks EXCEPT ![k] = f] ELSE End(tasks, k))
  BY DEF SubmitAnswered, Answered, At, Generated
<1>2. /\ ui \in [page : PageType, details : DetailsType, keys : KeysType, plugins : PluginsType]
      /\ o \in KeysType /\ GoodTask(t)
  BY DEF PageInv, TypeInv, GoodUi, GoodTasks
<1>3. PICK r \in Asked(t) : DOMAIN t.got = {r} /\ (~Threw(t) => t.got[r].ok /\ Tells(t, r, t.got[r].data))
  BY <1>1, <1>2, Answers
<1>4. GoodArg(t)
  BY <1>1, <1>2, Answers
<1>5. t.arg.host \in HostIds
  BY <1>1, <1>4 DEF GoodArg
<1>6. Generated(t) \subseteq Keys
  <2> SUFFICES ASSUME NEW q \in DOMAIN t.got, t.got[q].ok, q[1] = "generateKeyForHost" PROVE Data(t, q) \in Keys
    BY DEF Generated
  <2>1. q = r /\ ~Threw(t)
    BY <1>3 DEF Threw
  <2>2. r \in {generateKeyForHost(t.arg.host)} \cup {updateKey(t.arg.host, y) : y \in Keys}
    BY <1>1 DEF Asked
  <2>3. r = generateKeyForHost(t.arg.host)
    BY <2>1, <2>2 DEF updateKey
  <2>4. QED
    BY <1>1, <1>3, <2>1, <2>3 DEF Tells, Data
<1>7. GoodTask(f) /\ f.live /\ f.got = <<>> /\ f.arg.host = t.arg.host /\ f.at = "keys"
  BY <1>5, Fetches DEF fetchKeys, Task, Thens
<1>8. goesOn <=> t.live /\ ~Threw(t)
  OBVIOUS
<1> HIDE DEF t, f, goesOn
<1>9. n \in KeysType /\ (t.live => n.loading = goesOn)
  <2> DEFINE y == IF Generated(t) = {} THEN o.shown ELSE CHOOSE y \in Generated(t) : TRUE
  <2>1. y \in Keys \cup {None}
    BY <1>2, <1>6 DEF KeysType
  <2>2. n = [o EXCEPT !.loading = ~Threw(t), !.shown = y]
    OBVIOUS
  <2> HIDE DEF y, n
  <2>3. QED
    BY <1>2, <1>8, <2>1, <2>2 DEF KeysType
<1> HIDE DEF n
<1>10. [ui EXCEPT !.keys = n] = [ui EXCEPT !.keys = n, !.plugins = ui.plugins] /\ ui.plugins \in PluginsType
  BY <1>2
<1>11. TypeInv' /\ SpinInv' /\ CalmInv' /\ \E e : Becomes(k, e) /\ e.at # "submit"
  <2> DEFINE goes == tasks[k].live /\ ~Threw(tasks[k])
  <2>1. /\ tasks[k].live /\ tasks[k].at # "plug" => n.loading = goes
        /\ tasks[k].live /\ tasks[k].at = "plug" => ui.plugins.loading = goes
        /\ Render(Show(k, [ui EXCEPT !.keys = n, !.plugins = ui.plugins]), url,
                  IF goes THEN [tasks EXCEPT ![k] = f] ELSE End(tasks, k))
    BY <1>1, <1>9, <1>10 DEF t, goesOn
  <2>2. tasks[k].at \in {"submit", "revoke"} /\ f.at = "keys" /\ GoodTask(f) /\ f.live /\ f.got = <<>> /\ f.arg.host = tasks[k].arg.host
    BY <1>1, <1>7 DEF t
  <2>3. Stay /\ n \in KeysType /\ ui.plugins \in PluginsType
    BY <1>1, <1>9, <1>10
  <2>4. QED
    BY <2>1, <2>2, <2>3, WrittenKeeps
<1>12. SecretInv'
  <2>1. PICK e : Becomes(k, e) /\ e.at # "submit"
    BY <1>11
  <2> SUFFICES ASSUME ~left, ~failed PROVE Secrets(db, url, tasks, seen)'
    BY <2>1 DEF SecretInv, Becomes
  <2>2. Secrets(db, url, tasks, seen)
    BY DEF PageInv, SecretInv
  <2>3. \A j \in Slots : tasks'[j] = IF j = k THEN e ELSE tasks[j]
    BY <2>1 DEF PageInv, TypeInv, GoodTasks, Becomes
  <2>4. seen' = seen \cup Generated(tasks[k])
    BY <1>1, <2>2 DEF Secrets, t
  <2>5. \A j \in Slots : tasks'[j].at = "submit" => tasks'[j].live /\ url.tab = "keys"
    BY <2>1, <2>2, <2>3 DEF Secrets
  <2>6. ASSUME NEW y \in DOMAIN db.keys
        PROVE  y \in seen' \/ \E j \in Slots : tasks'[j].at = "submit" /\ y \in Generated(tasks'[j])
    <3>1. y \in seen \/ \E j \in Slots : tasks[j].at = "submit" /\ y \in Generated(tasks[j])
      BY <2>2 DEF Secrets
    <3>2. QED
      BY <2>3, <2>4, <3>1
  <2>7. QED
    BY <2>1, <2>5, <2>6 DEF Secrets, Becomes
<1>13. QED
  BY <1>11, <1>12 DEF PageInv

\* The end of deleting a key, and of linking or removing a plugin.
LEMMA OthersWrittenKeep ==
    ASSUME PageInv, NEW k \in Slots, RevokeAnswered(k) \/ PlugAnswered(k)
    PROVE  PageInv'
<1> DEFINE t == tasks[k]
           goesOn == t.live /\ ~Threw(t)
<1>1. /\ ui \in [page : PageType, details : DetailsType, keys : KeysType, plugins : PluginsType]
      /\ ui.keys \in KeysType /\ ui.plugins \in PluginsType /\ GoodTask(t)
  BY DEF PageInv, TypeInv, GoodUi, GoodTasks
<1>2. CASE RevokeAnswered(k)
  <2> DEFINE n == [ui.keys EXCEPT !.loading = goesOn, !.confirm = IF goesOn THEN @ ELSE None]
             f == fetchKeys(t.arg.host, "unconfirm")
  <2>1. /\ t.at = "revoke" /\ t.sent = {} /\ Stay /\ UNCHANGED seen
        /\ Render(Show(k, [ui EXCEPT !.keys = n]), url, IF goesOn THEN [tasks EXCEPT ![k] = f] ELSE End(tasks, k))
    BY <1>2 DEF RevokeAnswered, StayUnseen, Answered, At
  <2>2. GoodArg(t)
    BY <1>1, <2>1, Answers
  <2>3. t.arg.host \in HostIds
    BY <2>1, <2>2 DEF GoodArg
  <2>4. GoodTask(f) /\ f.live /\ f.got = <<>> /\ f.arg.host = t.arg.host /\ f.at = "keys"
    BY <2>3, Fetches DEF fetchKeys, Task, Thens
  <2>5. goesOn \in BOOLEAN
    OBVIOUS
  <2> HIDE DEF goesOn
  <2>6. n \in KeysType /\ n.loading = goesOn
    BY <1>1, <2>5 DEF KeysType
  <2> HIDE DEF n, f
  <2>7. [ui EXCEPT !.keys = n] = [ui EXCEPT !.keys = n, !.plugins = ui.plugins]
    BY <1>1
  <2>8. /\ tasks[k].live /\ tasks[k].at # "plug" => n.loading = goesOn
        /\ tasks[k].live /\ tasks[k].at = "plug" => ui.plugins.loading = goesOn
        /\ Render(Show(k, [ui EXCEPT !.keys = n, !.plugins = ui.plugins]), url,
                  IF goesOn THEN [tasks EXCEPT ![k] = f] ELSE End(tasks, k))
    BY <2>1, <2>6, <2>7
  <2>9. TypeInv' /\ SpinInv' /\ CalmInv' /\ \E e : Becomes(k, e) /\ e.at # "submit"
    <3>1. tasks[k].at \in {"submit", "revoke"} /\ f.at = "keys" /\ Stay
      BY <2>1, <2>4
    <3>2. /\ GoodTask(f) /\ f.live /\ f.got = <<>> /\ f.arg.host = tasks[k].arg.host
          /\ n \in KeysType /\ ui.plugins \in PluginsType
      BY <1>1, <2>4, <2>6
    <3>3. QED
      BY <2>8, <3>1, <3>2, WrittenKeeps DEF goesOn
  <2>10. SecretInv'
    BY <2>1, <2>9, NoSecret
  <2>11. QED
    BY <2>9, <2>10 DEF PageInv
<1>3. CASE PlugAnswered(k)
  <2> DEFINE closes == ~goesOn /\ t.arg.then = "unconfirm"
             g == [ui.plugins EXCEPT !.loading = goesOn, !.confirm = IF closes THEN None ELSE @]
             f == fetchPlugins(t.arg.host, t.arg.then)
  <2>1. /\ t.at = "plug" /\ t.sent = {} /\ Stay /\ UNCHANGED seen
        /\ Render(Show(k, [ui EXCEPT !.plugins = g]), url, IF goesOn THEN [tasks EXCEPT ![k] = f] ELSE End(tasks, k))
    BY <1>3 DEF PlugAnswered, StayUnseen, Answered, At
  <2>2. GoodArg(t)
    BY <1>1, <2>1, Answers
  <2>3. t.arg.host \in HostIds /\ t.arg.then \in Thens
    BY <2>1, <2>2 DEF GoodArg
  <2>4. GoodTask(f) /\ f.live /\ f.got = <<>> /\ f.arg.host = t.arg.host /\ f.at = "plugins"
    BY <2>3, Fetches DEF fetchPlugins, Task
  <2>5. goesOn \in BOOLEAN
    OBVIOUS
  <2> HIDE DEF goesOn
  <2>6. g \in PluginsType /\ g.loading = goesOn
    BY <1>1, <2>5 DEF PluginsType
  <2> HIDE DEF g, f
  <2>7. [ui EXCEPT !.plugins = g] = [ui EXCEPT !.keys = ui.keys, !.plugins = g]
    BY <1>1
  <2>8. /\ tasks[k].live /\ tasks[k].at # "plug" => ui.keys.loading = goesOn
        /\ tasks[k].live /\ tasks[k].at = "plug" => g.loading = goesOn
        /\ Render(Show(k, [ui EXCEPT !.keys = ui.keys, !.plugins = g]), url,
                  IF goesOn THEN [tasks EXCEPT ![k] = f] ELSE End(tasks, k))
    BY <2>1, <2>6, <2>7
  <2>9. TypeInv' /\ SpinInv' /\ CalmInv' /\ \E e : Becomes(k, e) /\ e.at # "submit"
    <3>1. tasks[k].at = "plug" /\ f.at = "plugins" /\ Stay
      BY <2>1, <2>4
    <3>2. /\ GoodTask(f) /\ f.live /\ f.got = <<>> /\ f.arg.host = tasks[k].arg.host
          /\ ui.keys \in KeysType /\ g \in PluginsType
      BY <1>1, <2>4, <2>6
    <3>3. QED
      BY <2>8, <3>1, <3>2, WrittenKeeps DEF goesOn
  <2>10. SecretInv'
    BY <2>1, <2>9, NoSecret
  <2>11. QED
    BY <2>9, <2>10 DEF PageInv
<1>4. QED
  BY <1>2, <1>3

\* The list of plugins is shown.
LEMMA PluginsKeep ==
    ASSUME PageInv, NEW k \in Slots, PluginsFetched(k)
    PROVE  PageInv'
<1> DEFINE t == tasks[k]
           o == ui.plugins
           g == [o EXCEPT !.loading = FALSE,
                          !.assigned = IF Threw(t) THEN @ ELSE Data(t, getPluginsForHost(t.arg.host)),
                          !.confirm = IF t.arg.then = "unconfirm" THEN None ELSE @]
           s == [ui EXCEPT !.plugins = g]
<1>1. t.at = "plugins" /\ t.sent = {} /\ Render(s, url, End(tasks, k)) /\ Stay /\ UNCHANGED seen
  BY DEF PluginsFetched, StayUnseen, Answered, At
<1>2. /\ ui \in [page : PageType, details : DetailsType, keys : KeysType, plugins : PluginsType]
      /\ GoodDetails(ui.details) /\ FormIn(url, ui.details) /\ o \in PluginsType /\ GoodTask(t)
  BY DEF PageInv, TypeInv, GoodUi, GoodTasks
<1>3. PICK r \in Asked(t) : DOMAIN t.got = {r} /\ (~Threw(t) => t.got[r].ok /\ Tells(t, r, t.got[r].data))
  BY <1>1, <1>2, Answers
<1>4. r = getPluginsForHost(t.arg.host)
  BY <1>1 DEF Asked
<1>5. ~Threw(t) => Data(t, getPluginsForHost(t.arg.host)) \in SUBSET Plugins
  BY <1>1, <1>3, <1>4 DEF Tells, Data
<1> HIDE DEF t
<1>6. g \in PluginsType /\ ~g.loading /\ (~Threw(t) => g.assigned = Data(t, getPluginsForHost(t.arg.host)))
  BY <1>2, <1>5 DEF PluginsType
<1> HIDE DEF g
<1>7. s.page = ui.page /\ s.details = ui.details /\ s.keys = ui.keys /\ s.plugins = g /\ GoodUi(s)
  BY <1>2, <1>6 DEF GoodUi
<1> HIDE DEF s
<1>8. StopsSpinners(k, Idle, s)
  BY <1>1, <1>6, <1>7 DEF StopsSpinners, t
<1>9. Render(s, url, [tasks EXCEPT ![k] = Idle]) /\ GoodTask(Idle)
  BY <1>1, Fetches DEF End
<1>10. TypeInv' /\ SpinInv' /\ Becomes(k, Idle) /\ ui'.page = ui.page /\ ui'.plugins = g
  BY <1>1, <1>2, <1>7, <1>8, <1>9, HandlerKeeps DEF FormStays
<1>11. SecretInv'
  BY <1>1, <1>10, NoSecret DEF t, Idle
<1>12. CalmInv'
  <2> SUFFICES ASSUME ~hasty, ~failed PROVE CalmInv'
    BY <1>10 DEF CalmInv, Becomes
  <2>1. ~Threw(t) /\ url.tab = "plugins" /\ t.got[r].data = Linked(db, ui.page.selected)
    BY <1>1, <1>3, TabHandler DEF t
  <2>2. ui'.plugins.assigned = Linked(db, ui.page.selected)
    BY <1>4, <1>6, <1>10, <2>1 DEF Data
  <2>3. QED
    BY <1>1, <1>10, <2>1, <2>2, EndsTrue DEF t
<1>13. QED
  BY <1>10, <1>11, <1>12 DEF PageInv

\* The page shows the hosts that were fetched, and may select another.
LEMMA HostsKeep ==
    ASSUME PageInv, NEW k \in Slots, HostsFetched(k)
    PROVE  PageInv'
<1> DEFINE t == tasks[k]
           hosts == Data(t, getAllHosts)
           id == t.arg.id
           p == [ui.page EXCEPT !.loading = FALSE]
           n == IF Threw(t) THEN p
                ELSE [p EXCEPT !.hosts = DOMAIN hosts, !.selected = IF id \in DOMAIN hosts THEN id ELSE @]
           s == [ui EXCEPT !.page = n]
           ts == [tasks EXCEPT ![k] = Idle]
<1>1. t.at = "hosts" /\ t.sent = {} /\ Render(s, url, ts) /\ Stay /\ UNCHANGED seen
  BY DEF HostsFetched, StayUnseen, Answered, At, End
<1>2. /\ ui \in [page : PageType, details : DetailsType, keys : KeysType, plugins : PluginsType]
      /\ GoodDetails(ui.details) /\ FormIn(url, ui.details) /\ ui.page \in PageType /\ GoodTask(t)
      /\ GoodDb(db) /\ GoodTasks(tasks) /\ url \in Urls /\ TypeInv
  BY DEF PageInv, TypeInv, GoodUi, GoodTasks
<1>3. PICK r \in Asked(t) : DOMAIN t.got = {r} /\ (~Threw(t) => t.got[r].ok /\ Tells(t, r, t.got[r].data))
  BY <1>1, <1>2, Answers
<1>4. r = getAllHosts
  BY <1>1 DEF Asked
<1>5. ~Threw(t) => hosts \in Tables
  BY <1>1, <1>3, <1>4 DEF Tells, Data
<1>6. ~Threw(t) => DOMAIN hosts \subseteq Hosts
  BY <1>5, PartialIs DEF Tables
<1>7. GoodTasks(ts) /\ ts[k] = Idle /\ \A j \in Slots : j # k => ts[j] = tasks[j]
  BY <1>2, Fetches DEF GoodTasks
<1> HIDE DEF t, hosts, id, ts
<1>8. n \in PageType /\ ~n.loading /\ n.selected \in {ui.page.selected, id}
  <2>1. CASE Threw(t)
    BY <1>2, <2>1 DEF PageType
  <2>2. CASE ~Threw(t)
    BY <1>2, <1>6, <2>2 DEF PageType, HostIds
  <2>3. QED
    BY <2>1, <2>2
<1> HIDE DEF n
<1>9. s.page = n /\ s.details = ui.details /\ s.keys = ui.keys /\ s.plugins = ui.plugins /\ GoodUi(s)
  BY <1>2, <1>8 DEF GoodUi
<1> HIDE DEF s
<1>10. ~Moved(url) /\ FormIn(url, s.details) /\ db' = db
  BY <1>1, <1>2, <1>9 DEF Moved, Stay
<1>11. Idle.at = "idle" /\ Idle.got = <<>> /\ Idle.sent = {} /\ DOMAIN <<>> = {}
  BY DEF Idle
<1>12. TypeInv'
  <2>1. url' \in Urls /\ GoodUi(ui)' /\ FormIn(url, ui.details)' /\ GoodTasks(tasks)'
    BY <1>1, <1>2, <1>7, <1>9, <1>10, RenderKeepsTypes DEF FormStays
  <2>2. GoodDb(db)'
    BY <1>2, <1>10 DEF GoodDb
  <2>3. QED
    BY <2>1, <2>2 DEF TypeInv
<1>13. SpinInv'
  <2>1. StopsSpinners(k, Idle, s)
    BY <1>1, <1>8, <1>9 DEF StopsSpinners, t
  <2>2. Spins(url, s, ts)
    BY <2>1, SpinsLeft DEF ts
  <2>3. s.page.loading => \E j \in Slots : ts[j].at = "hosts"
    BY <1>8, <1>9
  <2>4. QED
    BY <1>1, <1>2, <1>7, <1>9, <2>2, <2>3, RenderSpins
<1>14. SecretInv'
  <2> SUFFICES ASSUME ~left', ~failed' PROVE Secrets(db, url, tasks, seen)'
    BY DEF SecretInv
  <2>1. Secrets(db, url, tasks, seen)
    BY <1>1 DEF PageInv, SecretInv, Stay
  <2>2. Secrets(db, url, ts, seen)
    BY <1>1, <1>7, <1>11, <2>1 DEF Secrets, t
  <2>3. Secrets(db, url, tasks', seen)
    BY <1>1, <1>2, <1>7, <1>9, <1>10, <2>2, RenderTells
  <2>4. url' = url
    BY <1>1 DEF Render
  <2>5. QED
    BY <1>1, <1>10, <2>3, <2>4
<1>15. CalmInv'
  <2> SUFFICES ASSUME ~hasty', ~failed' PROVE Calm(db, url, ui, tasks)'
    BY DEF CalmInv
  <2>1. Calm(db, url, ui, tasks)
    BY <1>1 DEF PageInv, CalmInv, Stay
  <2>2. \A j \in Slots : ts[j].at # "hosts"
    BY <1>1, <1>7, <1>11, <2>1 DEF Calm, OnlyOne, t
  <2>3. CASE NoHandler(tasks)
    <3>1. \A j \in Slots : ts[j].at = "idle"
      BY <1>7, <1>11, <2>2, <2>3 DEF NoHandler
    <3>2. QED
      BY <1>1, <1>2, <1>7, <1>9, <1>10, <2>1, <2>3, <3>1, RenderCalm
  <2>4. CASE ~NoHandler(tasks)
    <3>1. PICK q \in Slots : tasks[q].at \notin {"idle", "hosts"}
      BY <2>4 DEF NoHandler
    <3>2. url.tab # "details" => n.selected = ui.page.selected
      BY <1>1, <1>8, <2>1, <3>1 DEF Calm, ForSelected, t, id
    <3>3. url.tab # "details" => ~Switched(s, url)
      BY <1>9, <1>10, <3>2 DEF Switched
    <3>4. Began(s, url) = Idle
      BY <1>10, <3>3 DEF Began, TabFetch, Switched
    <3>5. tasks' = ts /\ url' = url
      BY <1>1, <1>10, <3>4 DEF Render, Began, Moved
    <3>6. PICK w : /\ w = After(s, url)
                   /\ ui' = [page |-> ui'.page, details |-> w.details, keys |-> w.keys, plugins |-> w.plugins]
                   /\ ui'.page = [hosts |-> s.page.hosts, loading |-> s.page.loading \/ url.id # url.id,
                                  selected |-> s.page.selected, temp |-> s.page.temp]
                   /\ url' = url
      BY <1>1, <1>2, <1>9, RenderShows
    <3>7. ui'.page.selected = n.selected
      BY <1>9, <3>6
    <3>8. ui'.details = w.details /\ ui'.keys = w.keys /\ ui'.plugins = w.plugins
      BY <3>6
    <3>9. /\ url.tab = "details" => w.details = ModalFilled(ui.details)
          /\ url.tab # "details" => w.keys = ui.keys /\ w.plugins = ui.plugins
      BY <1>2, <1>9, <1>10, <3>3, <3>6, TabIs
    <3>10. url.tab = "details" => ui'.details.saving = ui.details.saving
      BY <1>2, <3>8, <3>9, Fills
    <3>11. OnlyOne(url, tasks)'
      BY <1>7, <1>11, <2>1, <3>5 DEF Calm, OnlyOne
    <3>12. ForSelected(url, ui, tasks)'
      <4>1. url.tab = "details" => \A j \in Slots : ts[j].at = "save" => ui'.details.saving
        BY <1>7, <1>11, <2>1, <3>10 DEF Calm, ForSelected
      <4>2. ASSUME url.tab # "details", NEW j \in Slots, ts[j].at \notin {"idle", "hosts"}
            PROVE  /\ ts[j].arg.host = n.selected
                   /\ url.tab = "keys" => ui'.keys.loading
                   /\ url.tab = "plugins" => ui'.plugins.loading
        BY <1>7, <1>11, <2>1, <3>2, <3>8, <3>9, <4>2 DEF Calm, ForSelected
      <4>3. QED
        BY <2>2, <3>5, <3>7, <4>1, <4>2 DEF ForSelected
    <3>13. Current(db, url, ui, tasks)'
      <4>1. ~NoHandler(ts)
        BY <1>1, <1>7, <3>1 DEF NoHandler, t
      <4>2. QED
        BY <1>7, <1>10, <1>11, <2>1, <3>5, <4>1 DEF Calm, Current, NoHandler
    <3>14. LinkedOnceIn(db, tasks)'
      BY <1>7, <1>10, <1>11, <2>1, <3>5 DEF Calm, LinkedOnceIn
    <3>15. QED
      BY <3>11, <3>12, <3>13, <3>14 DEF Calm
  <2>5. QED
    BY <2>3, <2>4
<1>16. QED
  BY <1>12, <1>13, <1>14, <1>15 DEF PageInv

-----------------------------------------------------------------------------
(* The server.                                                             *)

\* The request of a handler, by where the handler is.
LEMMA RequestIs ==
    ASSUME NEW t, GoodTask(t), NEW r \in t.sent
    PROVE  \/ t.at \in OnScreen /\ r[1] \in {"getAllHosts", "getKeysForHost", "getPluginsForHost"}
           \/ t.at = "save" /\ r[1] = "createHost" /\ r[2] = Typed
           \/ t.at = "save" /\ r[1] = "updateHost" /\ r[2] \in Hosts /\ r[3] \in Texts /\ Meant(r[2], r[3])
           \/ t.at = "delete" /\ r[1] = "deleteHost" /\ r[2] \in Hosts
           \/ t.at = "submit" /\ r[1] = "generateKeyForHost" /\ r = generateKeyForHost(t.arg.host)
           \/ t.at = "submit" /\ r[1] = "updateKey"
           \/ t.at = "revoke" /\ r[1] = "deleteKey" /\ r[3] \in Keys
           \/ t.at = "plug" /\ r[1] \in {"addPluginToHost", "removePluginFromHost"}
              /\ r[3] \in Plugins /\ r = <<r[1], r[2], r[3]>>
<1>1. GoodArg(t) /\ r \in Asked(t)
  BY Asking
<1>2. CASE t.at \in OnScreen
  BY <1>1, <1>2 DEF Asked, OnScreen, getAllHosts, getKeysForHost, getPluginsForHost
<1>3. CASE t.at = "save"
  <2>1. CASE r = createHost(Typed)
    BY <1>3, <2>1 DEF createHost
  <2>2. CASE r \in {updateHost(w[1], w[2]) : w \in {v \in Hosts \X Texts : Meant(v[1], v[2])}}
    <3>1. PICK w \in Hosts \X Texts : Meant(w[1], w[2]) /\ r = updateHost(w[1], w[2])
      BY <2>2
    <3>2. r[1] = "updateHost" /\ r[2] = w[1] /\ r[3] = w[2]
      BY <3>1 DEF updateHost
    <3>3. QED
      BY <1>3, <3>1, <3>2
  <2>3. QED
    BY <1>1, <1>3, <2>1, <2>2 DEF Asked
<1>4. CASE t.at = "delete"
  BY <1>1, <1>4 DEF Asked, deleteHost
<1>5. CASE t.at = "submit"
  BY <1>1, <1>5 DEF Asked, generateKeyForHost, updateKey
<1>6. CASE t.at = "revoke"
  BY <1>1, <1>6 DEF Asked, deleteKey
<1>7. CASE t.at = "plug"
  BY <1>1, <1>7 DEF Asked, addPluginToHost, removePluginFromHost
<1>8. QED
  BY <1>1, <1>2, <1>3, <1>4, <1>5, <1>6, <1>7 DEF GoodArg, OnScreen

\* What an accepted request does to the records.
Served(t, r, e) ==
    /\ GoodDb(e)
    /\ t.at \in OnScreen => e = db
    /\ \A y \in DOMAIN e.keys :
          y \in DOMAIN db.keys \/ (t.at = "submit" /\ r[1] = "generateKeyForHost" /\ y = Returns(r))
    /\ \A h \in Hosts, p \in Plugins :
          /\ r = addPluginToHost(h, p) => e.links[<<h, p>>] = db.links[<<h, p>>] + 1
          /\ r # addPluginToHost(h, p) => e.links[<<h, p>>] <= db.links[<<h, p>>]

\* Each request does no more to the records than that.
LEMMA EffectIs ==
    ASSUME GoodDb(db), NEW t, GoodTask(t), NEW r \in t.sent, HasId(r), Accepts(r), NEW e, e = Effect(r)
    PROVE  Served(t, r, e)
<1>1. /\ db \in [hosts : Tables, keys : Partial(Keys, Hosts), links : [Hosts \X Plugins -> Nat],
                 given : SUBSET (Hosts \cup Keys)]
      /\ Initially \cup DOMAIN db.hosts \subseteq db.given
      /\ Faithful(db.hosts)
      /\ \A y \in DOMAIN db.keys : db.keys[y] \in DOMAIN db.hosts
  BY DEF GoodDb
<1>2. /\ DOMAIN db.hosts \subseteq Hosts /\ DOMAIN db.keys \subseteq Keys
      /\ \A l \in Hosts \X Plugins : db.links[l] \in Nat
  BY <1>1, PartialIs DEF Tables
<1>3. ASSUME e = db, ~(r[1] = "addPluginToHost") PROVE Served(t, r, e)
  BY <1>2, <1>3 DEF Served, addPluginToHost
<1>4. CASE t.at \in OnScreen /\ r[1] \in {"getAllHosts", "getKeysForHost", "getPluginsForHost"}
  BY <1>3, <1>4 DEF Effect
<1>5. CASE t.at = "submit" /\ r[1] = "updateKey"
  BY <1>3, <1>5 DEF Effect
\* A request that changes nothing but hosts: table v.
<1>6. ASSUME NEW v \in Tables, NEW x \in SUBSET (Hosts \cup Keys), e = [db EXCEPT !.hosts = v, !.given = x],
             Faithful(v), Initially \cup DOMAIN v \subseteq x,
             \A y \in DOMAIN db.keys : db.keys[y] \in DOMAIN v,
             t.at \notin OnScreen, r[1] # "addPluginToHost"
      PROVE  Served(t, r, e)
  <2>1. e = [hosts |-> v, keys |-> db.keys, links |-> db.links, given |-> x]
    BY <1>1, <1>6
  <2>2. GoodDb(e)
    BY <1>1, <1>6, <2>1 DEF GoodDb
  <2>3. QED
    BY <1>2, <1>6, <2>1, <2>2 DEF Served, addPluginToHost
<1>7. CASE t.at = "save" /\ r[1] = "createHost" /\ r[2] = Typed
  <2> DEFINE h == Fresh(Hosts)
             v == With(db.hosts, h, r[2])
             x == db.given \cup {h}
  <2>1. h \in Hosts /\ h \notin db.given
    BY <1>7 DEF HasId, Fresh
  <2>2. e = [db EXCEPT !.hosts = v, !.given = x]
    BY <1>7 DEF Effect
  <2> HIDE DEF h
  <2>3. v \in Tables
    BY <1>1, <1>7, <2>1, PartialKept DEF Tables, Texts
  <2>4. DOMAIN v = DOMAIN db.hosts \cup {h} /\ \A y \in DOMAIN v : v[y] = IF y = h THEN r[2] ELSE db.hosts[y]
    BY DEF With
  <2> HIDE DEF v
  <2>5. Faithful(v)
    BY <1>1, <1>7, <2>1, <2>4 DEF Faithful, Meant
  <2>6. Initially \cup DOMAIN v \subseteq x /\ x \in SUBSET (Hosts \cup Keys)
    BY <1>1, <2>1, <2>4
  <2>7. \A y \in DOMAIN db.keys : db.keys[y] \in DOMAIN v
    BY <1>1, <2>4
  <2>8. QED
    BY <1>6, <1>7, <2>2, <2>3, <2>5, <2>6, <2>7 DEF OnScreen
<1>8. CASE t.at = "save" /\ r[1] = "updateHost" /\ r[2] \in Hosts /\ r[3] \in Texts /\ Meant(r[2], r[3])
  <2> DEFINE v == [db.hosts EXCEPT ![r[2]] = r[3]]
  <2>1. r[2] \in DOMAIN db.hosts
    BY <1>8 DEF Accepts, Existing
  <2>2. e = [db EXCEPT !.hosts = v, !.given = db.given]
    <3>1. e = [db EXCEPT !.hosts[r[2]] = r[3]]
      BY <1>8 DEF Effect
    <3>2. QED
      BY <1>1, <3>1
  <2>3. v \in Tables
    BY <1>1, <1>8, <2>1, PartialKept DEF Tables
  <2>4. DOMAIN v = DOMAIN db.hosts /\ \A y \in DOMAIN v : v[y] = IF y = r[2] THEN r[3] ELSE db.hosts[y]
    OBVIOUS
  <2> HIDE DEF v
  <2>5. Faithful(v)
    BY <1>1, <1>8, <2>4 DEF Faithful
  <2>6. QED
    BY <1>1, <1>6, <1>8, <2>2, <2>3, <2>4, <2>5 DEF OnScreen
<1>9. CASE t.at = "delete" /\ r[1] = "deleteHost" /\ r[2] \in Hosts
  <2> DEFINE v == [h \in DOMAIN db.hosts \ {r[2]} |-> db.hosts[h]]
  <2>1. KeysOf(r[2]) = {}
    BY <1>9 DEF Accepts
  <2>2. e = [db EXCEPT !.hosts = v, !.given = db.given]
    <3>1. e = [db EXCEPT !.hosts = v]
      BY <1>9 DEF Effect, Existing
    <3>2. QED
      BY <1>1, <3>1
  <2>3. v \in Tables
    <3>1. \A x \in Texts : v \in Partial(Hosts, Texts)
      BY <1>1, <1>9, PartialKept DEF Tables
    <3>2. QED
      BY <3>1 DEF Tables, Texts
  <2>4. DOMAIN v = DOMAIN db.hosts \ {r[2]} /\ \A y \in DOMAIN v : v[y] = db.hosts[y]
    OBVIOUS
  <2> HIDE DEF v
  <2>5. Faithful(v) /\ \A y \in DOMAIN db.keys : db.keys[y] \in DOMAIN v
    BY <1>1, <2>1, <2>4 DEF Faithful, KeysOf
  <2>6. QED
    BY <1>1, <1>6, <1>9, <2>2, <2>3, <2>4, <2>5 DEF OnScreen
\* A request that changes nothing but keys: table v.
<1>10. ASSUME NEW v \in Partial(Keys, Hosts), NEW x \in SUBSET (Hosts \cup Keys),
              e = [db EXCEPT !.keys = v, !.given = x], db.given \subseteq x,
              \A y \in DOMAIN v : v[y] \in DOMAIN db.hosts,
              \A y \in DOMAIN v : y \in DOMAIN db.keys \/
                                  (t.at = "submit" /\ r[1] = "generateKeyForHost" /\ y = Returns(r)),
              t.at \notin OnScreen, r[1] # "addPluginToHost"
       PROVE  Served(t, r, e)
  <2>1. e = [hosts |-> db.hosts, keys |-> v, links |-> db.links, given |-> x]
    BY <1>1, <1>10
  <2>2. GoodDb(e)
    BY <1>1, <1>10, <2>1 DEF GoodDb
  <2>3. QED
    BY <1>2, <1>10, <2>1, <2>2 DEF Served, addPluginToHost
<1>11. CASE t.at = "submit" /\ r[1] = "generateKeyForHost" /\ r = generateKeyForHost(t.arg.host)
  <2> DEFINE y == Fresh(Keys)
             v == With(db.keys, y, r[2])
             x == db.given \cup {y}
  <2>1. y \in Keys /\ Returns(r) = y
    BY <1>11 DEF HasId, Fresh, Returns
  <2>2. r[2] \in DOMAIN db.hosts
    BY <1>11 DEF Accepts, Existing
  <2>3. e = [db EXCEPT !.keys = v, !.given = x]
    BY <1>11 DEF Effect
  <2> HIDE DEF y
  <2>4. v \in Partial(Keys, Hosts)
    BY <1>1, <1>2, <2>1, <2>2, PartialKept
  <2>5. DOMAIN v = DOMAIN db.keys \cup {y} /\ \A z \in DOMAIN v : v[z] = IF z = y THEN r[2] ELSE db.keys[z]
    BY DEF With
  <2> HIDE DEF v
  <2>6. \A z \in DOMAIN v : v[z] \in DOMAIN db.hosts
    BY <1>1, <2>2, <2>5
  <2>7. x \in SUBSET (Hosts \cup Keys) /\ db.given \subseteq x
    BY <1>1, <2>1
  <2>8. \A z \in DOMAIN v : z \in DOMAIN db.keys \/ z = Returns(r)
    BY <2>1, <2>5
  <2>9. QED
    BY <1>10, <1>11, <2>3, <2>4, <2>6, <2>7, <2>8 DEF OnScreen
<1>12. CASE t.at = "revoke" /\ r[1] = "deleteKey" /\ r[3] \in Keys
  <2> DEFINE v == [y \in DOMAIN db.keys \ {r[3]} |-> db.keys[y]]
  <2>1. e = [db EXCEPT !.keys = v, !.given = db.given]
    <3>1. e = [db EXCEPT !.keys = v]
      BY <1>12 DEF Effect
    <3>2. QED
      BY <1>1, <3>1
  <2>2. DOMAIN v = DOMAIN db.keys \ {r[3]} /\ \A z \in DOMAIN v : v[z] = db.keys[z]
    OBVIOUS
  <2>3. v \in Partial(Keys, Hosts)
    <3>1. v = [z \in DOMAIN v |-> v[z]]
      OBVIOUS
    <3> HIDE DEF v
    <3>2. QED
      BY <1>1, <1>2, <2>2, <3>1, PartialIs
  <2> HIDE DEF v
  <2>4. \A z \in DOMAIN v : v[z] \in DOMAIN db.hosts
    BY <1>1, <2>2
  <2>5. QED
    BY <1>1, <1>10, <1>12, <2>1, <2>2, <2>3, <2>4 DEF OnScreen
<1>13. CASE /\ t.at = "plug" /\ r[1] \in {"addPluginToHost", "removePluginFromHost"}
            /\ r[3] \in Plugins /\ r = <<r[1], r[2], r[3]>>
  <2>1. r[2] \in Hosts
    BY <1>2, <1>13 DEF Accepts, Existing
  <2> DEFINE l == <<r[2], r[3]>>
  <2>2. l \in Hosts \X Plugins
    BY <1>13, <2>1
  <2>3. PICK n \in Nat : /\ e = [db EXCEPT !.links[l] = n]
                         /\ n = IF r[1] = "addPluginToHost" THEN db.links[l] + 1 ELSE db.links[l] - 1
    <3>1. CASE r[1] = "addPluginToHost"
      <4>1. db.links[l] + 1 \in Nat
        BY <1>2, <2>2
      <4>2. e = [db EXCEPT !.links[l] = db.links[l] + 1]
        BY <3>1 DEF Effect
      <4>3. QED
        BY <3>1, <4>1, <4>2
    <3>2. CASE r[1] = "removePluginFromHost"
      <4>1. db.links[l] > 0 /\ db.links[l] \in Nat
        BY <1>2, <2>2, <3>2 DEF Accepts, PluginsOf
      <4>2. e = [db EXCEPT !.links[l] = db.links[l] - 1]
        BY <3>2 DEF Effect
      <4>3. db.links[l] - 1 \in Nat
        BY <4>1
      <4>4. QED
        BY <3>2, <4>2, <4>3
    <3>3. QED
      BY <1>13, <3>1, <3>2
  <2>4. e = [hosts |-> db.hosts, keys |-> db.keys, links |-> [db.links EXCEPT ![l] = n], given |-> db.given]
    BY <1>1, <2>3
  <2>5. /\ e.links \in [Hosts \X Plugins -> Nat]
        /\ \A m \in Hosts \X Plugins : e.links[m] = IF m = l THEN n ELSE db.links[m]
    BY <1>1, <2>2, <2>4
  <2>6. GoodDb(e)
    BY <1>1, <2>4, <2>5 DEF GoodDb
  <2>7. ASSUME NEW h \in Hosts, NEW p \in Plugins
        PROVE  /\ r = addPluginToHost(h, p) => e.links[<<h, p>>] = db.links[<<h, p>>] + 1
               /\ r # addPluginToHost(h, p) => e.links[<<h, p>>] <= db.links[<<h, p>>]
    <3>1. <<h, p>> \in Hosts \X Plugins /\ db.links[<<h, p>>] \in Nat
      BY <1>2
    <3>2. CASE <<h, p>> = l
      <4>1. h = r[2] /\ p = r[3] /\ e.links[<<h, p>>] = n
        BY <2>5, <3>1, <3>2
      <4>2. r[1] = "addPluginToHost" <=> r = addPluginToHost(h, p)
        BY <1>13, <4>1 DEF addPluginToHost
      <4>3. QED
        BY <2>3, <3>1, <3>2, <4>1, <4>2
    <3>3. CASE <<h, p>> # l
      <4>1. r # addPluginToHost(h, p) /\ e.links[<<h, p>>] = db.links[<<h, p>>]
        BY <2>5, <3>1, <3>3 DEF addPluginToHost
      <4>2. QED
        BY <3>1, <4>1
    <3>4. QED
      BY <3>2, <3>3
  <2>8. QED
    BY <1>13, <2>4, <2>6, <2>7 DEF Served, OnScreen
<1>14. QED
  BY <1>4, <1>5, <1>7, <1>8, <1>9, <1>11, <1>12, <1>13, RequestIs

\* What an answer may be.
GoodAnswer(t, r, a) == a = Failure \/ (a = Ok(a.data) /\ Tells(t, r, a.data))

\* A handler that is answered.
LEMMA ReceiveIs ==
    ASSUME GoodTasks(tasks), NEW k \in Slots, NEW r \in tasks[k].sent, NEW a, GoodAnswer(tasks[k], r, a),
           NEW ts, ts = Receive(tasks, k, r, a)
    PROVE  /\ GoodTasks(ts) /\ \A j \in Slots : j # k => ts[j] = tasks[j]
           /\ ts[k].at = tasks[k].at /\ ts[k].arg = tasks[k].arg /\ ts[k].live = tasks[k].live
           /\ ts[k].sent = {} /\ DOMAIN ts[k].got = {r} /\ ts[k].got[r] = a
<1> DEFINE t == tasks[k]
           n == [t EXCEPT !.sent = @ \ {r}, !.got = With(@, r, a)]
<1>1. GoodTask(t) /\ DOMAIN tasks = Slots
  BY DEF GoodTasks
<1>2. /\ t = [at |-> t.at, arg |-> t.arg, sent |-> t.sent, got |-> t.got, live |-> t.live]
      /\ GoodArg(t) /\ r \in Asked(t) /\ t.sent = {r} /\ t.got = <<>>
      /\ t.live \in BOOLEAN /\ (t.at \in OnScreen => t.live)
  BY <1>1, Asking
<1>3. DOMAIN ts = Slots /\ ts[k] = n /\ \A j \in Slots : j # k => ts[j] = tasks[j]
  BY <1>1 DEF Receive
<1> HIDE DEF t
<1>4. n = [at |-> t.at, arg |-> t.arg, sent |-> {}, got |-> With(<<>>, r, a), live |-> t.live]
  <2> DEFINE g == With(t.got, r, a)
  <2>1. g = With(<<>>, r, a) /\ t.sent \ {r} = {}
    BY <1>2
  <2>2. n = [t EXCEPT !.sent = t.sent \ {r}, !.got = g]
    OBVIOUS
  <2> HIDE DEF g, n
  <2>3. QED
    BY <1>2, <2>1, <2>2
<1>5. DOMAIN With(<<>>, r, a) = {r} /\ With(<<>>, r, a)[r] = a
  BY FirstAnswer
<1> HIDE DEF n
<1>6. /\ n.at = t.at /\ n.arg = t.arg /\ n.live = t.live /\ n.sent = {} /\ DOMAIN n.got = {r} /\ n.got[r] = a
      /\ n = [at |-> n.at, arg |-> n.arg, sent |-> n.sent, got |-> n.got, live |-> n.live]
  BY <1>4, <1>5
<1>7. GoodArg(n) /\ Asked(n) = Asked(t)
  BY <1>2, <1>6 DEF GoodArg, Asked
<1>8. Told(n, r)
  <2>1. GoodAnswer(t, r, a)
    BY DEF t
  <2>2. QED
    BY <1>6, <2>1 DEF GoodAnswer, Told, Tells
<1>9. GoodTask(n)
  BY <1>2, <1>6, <1>7, <1>8 DEF GoodTask
<1>10. GoodTasks(ts)
  BY <1>3, <1>9 DEF GoodTasks
<1>11. QED
  BY <1>3, <1>6, <1>10 DEF t

\* An answer keeps the types and the spinners, whatever the server has done.
LEMMA AnswerKeeps ==
    ASSUME PageInv, NEW k \in Slots, NEW r \in tasks[k].sent, NEW a, GoodAnswer(tasks[k], r, a),
           tasks' = Receive(tasks, k, r, a), UNCHANGED <<url, ui>>, GoodDb(db)'
    PROVE  TypeInv' /\ SpinInv'
<1>1. GoodTasks(tasks)
  BY DEF PageInv, TypeInv
<1>2. /\ GoodTasks(tasks') /\ \A j \in Slots : j # k => tasks'[j] = tasks[j]
      /\ tasks'[k].at = tasks[k].at /\ tasks'[k].live = tasks[k].live
  BY <1>1, ReceiveIs
<1>3. \A j \in Slots : tasks'[j].at = tasks[j].at /\ tasks'[j].live = tasks[j].live
  BY <1>2
<1>4. TypeInv'
  BY <1>2 DEF PageInv, TypeInv, GoodTasks
<1>5. SpinInv'
  BY <1>3 DEF PageInv, SpinInv, Spins
<1>6. QED
  BY <1>4, <1>5

\* A request that fails, or that the server refuses.
LEMMA FailKeeps ==
    ASSUME PageInv, NEW k \in Slots, NEW r \in tasks[k].sent, failed',
           tasks' = Receive(tasks, k, r, Failure), UNCHANGED <<url, ui>>, GoodDb(db)'
    PROVE  PageInv'
<1>1. GoodAnswer(tasks[k], r, Failure)
  BY DEF GoodAnswer
<1>2. TypeInv' /\ SpinInv'
  BY <1>1, AnswerKeeps
<1>3. QED
  BY <1>2 DEF PageInv, SecretInv, CalmInv

\* A request the server accepts.
LEMMA ServeKeeps ==
    ASSUME PageInv, NEW k \in Slots, NEW r \in tasks[k].sent, HasId(r), Accepts(r), db' = Effect(r),
           tasks' = Receive(tasks, k, r, Ok(Returns(r))), UNCHANGED <<url, ui, failed, hasty, left, seen>>
    PROVE  PageInv'
<1> DEFINE t == tasks[k]
           a == Ok(Returns(r))
<1>1. GoodTasks(tasks) /\ GoodTask(t) /\ GoodDb(db)
  BY DEF PageInv, TypeInv, GoodTasks
<1>2. Served(t, r, db')
  BY <1>1, EffectIs
<1>3. /\ GoodArg(t) /\ r \in Asked(t) /\ t.sent = {r} /\ t.got = <<>> /\ t.at # "idle"
  BY <1>1, Asking
<1>4. a = Ok(a.data) /\ a.data = Returns(r) /\ a.ok
  BY DEF Ok
<1>5. /\ t.at \in {"hosts", "table"} => r = getAllHosts /\ Returns(r) = db.hosts
      /\ t.at = "keys" => Returns(r) = OwnersKeys(db, t.arg.host)
      /\ t.at = "plugins" => Returns(r) = Linked(db, t.arg.host)
  <2>1. CASE t.at \in {"hosts", "table"}
    BY <1>3, <2>1 DEF Asked, Returns, getAllHosts
  <2>2. CASE t.at = "keys"
    <3>1. r = getKeysForHost(t.arg.host)
      BY <1>3, <2>2 DEF Asked
    <3>2. Returns(r) = KeysOf(t.arg.host)
      BY <3>1 DEF Returns, getKeysForHost
    <3>3. QED
      BY <2>2, <3>2 DEF KeysOf, OwnersKeys
  <2>3. CASE t.at = "plugins"
    <3>1. r = getPluginsForHost(t.arg.host)
      BY <1>3, <2>3 DEF Asked
    <3>2. Returns(r) = PluginsOf(t.arg.host)
      BY <3>1 DEF Returns, getPluginsForHost
    <3>3. QED
      BY <2>3, <3>2 DEF PluginsOf, Linked
  <2>4. QED
    BY <2>1, <2>2, <2>3
<1>6. GoodAnswer(t, r, a)
  <2>1. DOMAIN db.keys \subseteq Keys
    BY <1>1, PartialIs DEF GoodDb
  <2>2. (t.at = "submit" /\ r = generateKeyForHost(t.arg.host)) => Returns(r) \in Keys
    BY DEF HasId, Fresh, Returns, generateKeyForHost
  <2>3. Tells(t, r, Returns(r))
    BY <1>1, <1>5, <2>1, <2>2 DEF Tells, GoodDb, OwnersKeys, Linked
  <2>4. QED
    BY <1>4, <2>3 DEF GoodAnswer
<1>7. /\ \A j \in Slots : j # k => tasks'[j] = tasks[j]
      /\ tasks'[k].at = t.at /\ tasks'[k].arg = t.arg /\ tasks'[k].live = t.live
      /\ tasks'[k].sent = {} /\ DOMAIN tasks'[k].got = {r} /\ tasks'[k].got[r] = a
  BY <1>1, <1>6, ReceiveIs
<1> HIDE DEF t, a
<1>8. TypeInv' /\ SpinInv'
  <2>1. GoodDb(db)'
    BY <1>2 DEF Served, GoodDb
  <2>2. QED
    BY <1>6, <2>1, AnswerKeeps DEF t, a
<1>9. \A j \in Slots : tasks'[j].at = tasks[j].at /\ tasks'[j].arg = tasks[j].arg /\ tasks'[j].live = tasks[j].live
  BY <1>7 DEF t
<1>10. DOMAIN <<>> = {}
  OBVIOUS
<1>11. SecretInv'
  <2> SUFFICES ASSUME ~left, ~failed PROVE Secrets(db, url, tasks, seen)'
    BY DEF SecretInv
  <2>1. Secrets(db, url, tasks, seen)
    BY DEF PageInv, SecretInv
  <2>2. ASSUME NEW y \in DOMAIN db.keys
        PROVE  y \in seen \/ \E j \in Slots : tasks'[j].at = "submit" /\ y \in Generated(tasks'[j])
    <3>1. Generated(t) = {}
      BY <1>3, <1>10 DEF Generated
    <3>2. \A j \in Slots : y \in Generated(tasks[j]) => tasks'[j] = tasks[j]
      BY <1>7, <3>1 DEF t
    <3>3. QED
      BY <2>1, <2>2, <3>2, Zenon DEF Secrets
  <2>3. ASSUME t.at = "submit", r[1] = "generateKeyForHost" PROVE Returns(r) \in Generated(tasks'[k])
    <3>1. r \in {q \in DOMAIN tasks'[k].got : tasks'[k].got[q].ok /\ q[1] = "generateKeyForHost"}
      BY <1>4, <1>7, <2>3
    <3>2. Data(tasks'[k], r) = Returns(r)
      BY <1>4, <1>7 DEF Data
    <3>3. QED
      BY <3>1, <3>2 DEF Generated
  <2>4. ASSUME NEW y \in DOMAIN db'.keys
        PROVE  y \in seen \/ \E j \in Slots : tasks'[j].at = "submit" /\ y \in Generated(tasks'[j])
    <3>1. CASE y \in DOMAIN db.keys
      BY <2>2, <3>1
    <3>2. CASE y \notin DOMAIN db.keys
      <4>1. t.at = "submit" /\ r[1] = "generateKeyForHost" /\ y = Returns(r)
        BY <1>2, <2>4, <3>2 DEF Served
      <4>2. QED
        BY <1>7, <2>3, <4>1
    <3>3. QED
      BY <3>1, <3>2
  <2>5. \A j \in Slots : tasks'[j].at = "submit" => tasks'[j].live /\ url.tab = "keys"
    BY <1>9, <2>1 DEF Secrets
  <2>6. QED
    BY <2>4, <2>5 DEF Secrets
<1>12. CalmInv'
  <2> SUFFICES ASSUME ~hasty, ~failed PROVE Calm(db, url, ui, tasks)'
    BY DEF CalmInv
  <2>1. Calm(db, url, ui, tasks)
    BY DEF PageInv, CalmInv
  <2>2. OnlyOne(url, tasks)'
    <3>1. \A j \in Slots : \A q \in DOMAIN tasks'[j].got : tasks'[j].got[q].ok
      BY <1>4, <1>7, <2>1 DEF Calm, OnlyOne
    <3>2. QED
      BY <1>9, <2>1, <3>1 DEF Calm, OnlyOne
  <2>3. ForSelected(url, ui, tasks)'
    BY <1>9, <2>1 DEF Calm, ForSelected
  <2>4. CASE t.at \in OnScreen
    <3>1. db' = db
      BY <1>2, <2>4 DEF Served
    <3>2. NoHandler(tasks') <=> NoHandler(tasks)
      BY <1>9 DEF NoHandler
    <3>3. \A j \in Slots : \A q \in DOMAIN tasks'[j].got :
             /\ tasks'[j].at = "table" => tasks'[j].got[q].data = db.hosts
             /\ tasks'[j].at = "keys" => tasks'[j].got[q].data = OwnersKeys(db, tasks'[j].arg.host)
             /\ tasks'[j].at = "plugins" => tasks'[j].got[q].data = Linked(db, tasks'[j].arg.host)
      BY <1>4, <1>5, <1>7, <2>1 DEF Calm, Current
    <3>4. Current(db, url, ui, tasks)'
      BY <2>1, <3>1, <3>2, <3>3 DEF Calm, Current
    <3>5. \A j \in Slots : tasks'[j].sent \subseteq tasks[j].sent
      BY <1>7
    <3>6. LinkedOnceIn(db, tasks)'
      BY <2>1, <3>1, <3>5 DEF Calm, LinkedOnceIn
    <3>7. QED
      BY <2>2, <2>3, <3>4, <3>6 DEF Calm
  <2>5. CASE t.at \notin OnScreen
    <3>1. t.at \notin {"idle", "hosts", "table", "keys", "plugins"}
      BY <1>3, <2>5 DEF OnScreen
    <3>2. \A j \in Slots : j # k => tasks'[j].at \in {"idle", "hosts"}
      BY <1>9, <2>1, <3>1 DEF Calm, OnlyOne, t
    <3>3. Current(db, url, ui, tasks)'
      <4>1. ~NoHandler(tasks')
        BY <1>7, <3>1 DEF NoHandler
      <4>2. \A j \in Slots : tasks'[j].at \notin {"table", "keys", "plugins"}
        BY <1>7, <3>1, <3>2
      <4>3. QED
        BY <4>1, <4>2 DEF Current, NoHandler
    <3>4. ASSUME NEW h \in Hosts, NEW p \in Plugins PROVE db'.links[<<h, p>>] <= 1
      <4>1. db.links[<<h, p>>] \in Nat /\ db'.links[<<h, p>>] \in Nat /\ db.links[<<h, p>>] <= 1
        BY <1>1, <1>2, <2>1 DEF GoodDb, Served, Calm, LinkedOnceIn
      <4>2. CASE r = addPluginToHost(h, p)
        <5>1. db.links[<<h, p>>] = 0
          BY <1>3, <2>1, <4>2 DEF Calm, LinkedOnceIn, t
        <5>2. QED
          BY <1>2, <4>2, <5>1 DEF Served
      <4>3. CASE r # addPluginToHost(h, p)
        <5>1. db'.links[<<h, p>>] <= db.links[<<h, p>>]
          BY <1>2, <4>3 DEF Served
        <5>2. QED
          BY <4>1, <5>1
      <4>4. QED
        BY <4>2, <4>3
    <3>5. ASSUME NEW j \in Slots, NEW h \in Hosts, NEW p \in Plugins PROVE addPluginToHost(h, p) \notin tasks'[j].sent
      <4>1. CASE j = k
        BY <1>7, <4>1
      <4>2. CASE j # k
        <5>1. tasks'[j] = tasks[j] /\ GoodTask(tasks[j]) /\ tasks[j].at \in {"idle", "hosts"}
          BY <1>1, <1>7, <3>2, <4>2 DEF GoodTasks
        <5>2. QED
          BY <5>1, OnlyPlugAdds
      <4>3. QED
        BY <4>1, <4>2
    <3>6. LinkedOnceIn(db, tasks)'
      <4>1. \A l \in Hosts \X Plugins : db'.links[l] <= 1
        BY <3>4
      <4>2. QED
        BY <3>5, <4>1 DEF LinkedOnceIn
    <3>7. QED
      BY <2>2, <2>3, <3>3, <3>6 DEF Calm
  <2>6. QED
    BY <2>4, <2>5
<1>13. QED
  BY <1>8, <1>11, <1>12 DEF PageInv

\* Every answer of the server, and every request that does not come through.
LEMMA ServerKeeps ==
    ASSUME PageInv, NEW k \in Slots, NEW r \in tasks[k].sent, Serve(k, r) \/ Fail(k, r)
    PROVE  PageInv'
<1>1. GoodDb(db) /\ GoodTask(tasks[k])
  BY DEF PageInv, TypeInv, GoodTasks
<1>2. HasId(r) /\ UNCHANGED <<url, ui, hasty, left, seen>>
  BY DEF Serve, Fail
<1>3. CASE Accepts(r) /\ Serve(k, r)
  <2>1. db' = Effect(r) /\ tasks' = Receive(tasks, k, r, Ok(Returns(r))) /\ UNCHANGED failed
    BY <1>3 DEF Serve
  <2>2. QED
    BY <1>2, <1>3, <2>1, ServeKeeps
<1>4. CASE (~Accepts(r) /\ Serve(k, r)) \/ Fail(k, r)
  <2>1. tasks' = Receive(tasks, k, r, Failure) /\ failed' /\ (db' = db \/ (Accepts(r) /\ db' = Effect(r)))
    BY <1>4 DEF Serve, Fail
  <2>2. GoodDb(db')
    <3>1. CASE db' = db
      BY <1>1, <3>1
    <3>2. CASE Accepts(r) /\ db' = Effect(r)
      BY <1>1, <1>2, <3>2, EffectIs DEF Served
    <3>3. QED
      BY <2>1, <3>1, <3>2
  <2>3. GoodDb(db)'
    BY <2>2 DEF GoodDb
  <2>4. QED
    BY <1>2, <2>1, <2>3, FailKeeps
<1>5. QED
  BY <1>3, <1>4

-----------------------------------------------------------------------------
(* The invariant.                                                          *)

\* The page begins with the fetch of its hosts and that of the table.
LEMMA InitStarts ==
    ASSUME NEW id \in Initially \cup {None}, NEW ts,
           ts = Begin(Begin([k \in Slots |-> Idle], fetchTable), fetchHosts(id))
    PROVE  \E i, j \in Slots : /\ i # j /\ DOMAIN ts = Slots
                               /\ \A k \in Slots : ts[k] = IF k = i THEN fetchTable
                                                           ELSE IF k = j THEN fetchHosts(id) ELSE Idle
<1> DEFINE z == [k \in Slots |-> Idle]
           b == Begin(z, fetchTable)
<1>1. 1 \in Slots /\ 2 \in Slots
  BY HostsAssumption, MaxTasksAssumption DEF Slots
<1>2. DOMAIN z = Slots /\ \A k \in Slots : z[k] = Idle
  OBVIOUS
<1>3. Idle.at = "idle" /\ fetchTable.at = "table"
  BY DEF Idle, fetchTable, Task
<1> HIDE DEF z
<1>4. HasRoom(z)
  BY <1>1, <1>2, <1>3 DEF HasRoom, Free, Running
<1>5. PICK i \in Slots : DOMAIN b = Slots /\ \A k \in Slots : b[k] = IF k = i THEN fetchTable ELSE z[k]
  BY <1>2, <1>4, BeginIs
<1>6. ts = Begin(b, fetchHosts(id))
  BY DEF z
<1> HIDE DEF b
<1>7. HasRoom(b)
  <2>1. PICK k \in Slots : k # i
    BY <1>1
  <2>2. b[k].at = "idle"
    BY <1>2, <1>3, <1>5, <2>1
  <2>3. QED
    BY <2>2 DEF HasRoom, Free, Running
<1>8. PICK j \in Slots : /\ b[j].at = "idle" /\ DOMAIN Begin(b, fetchHosts(id)) = Slots
                         /\ \A k \in Slots : Begin(b, fetchHosts(id))[k] = IF k = j THEN fetchHosts(id) ELSE b[k]
  BY <1>5, <1>7, BeginIs
<1>9. i # j
  BY <1>3, <1>5, <1>8
<1>10. DOMAIN ts = Slots /\ \A k \in Slots : ts[k] = IF k = j THEN fetchHosts(id) ELSE b[k]
  BY <1>6, <1>8
<1>11. ASSUME NEW k \in Slots
       PROVE  ts[k] = IF k = i THEN fetchTable ELSE IF k = j THEN fetchHosts(id) ELSE Idle
  <2>1. b[k] = IF k = i THEN fetchTable ELSE Idle
    BY <1>2, <1>5
  <2>2. QED
    BY <1>9, <1>10, <2>1
<1>12. QED
  BY <1>9, <1>10, <1>11

\* The first render meets the invariant.
LEMMA InitKeeps ==
    ASSUME Init
    PROVE  PageInv
<1> DEFINE key == CHOOSE y \in Keys : TRUE
           owner == CHOOSE h \in Initially : TRUE
<1>1. key \in Keys /\ owner \in Initially /\ Initially \subseteq Hosts
  BY HostsAssumption
<1>2. PICK id \in Initially \cup {None} :
        /\ db = [hosts |-> [h \in Initially |-> h], keys |-> [y \in {key} |-> owner],
                 links |-> [l \in Hosts \X Plugins |-> IF l[1] = owner THEN 1 ELSE 0], given |-> Initially \cup {key}]
        /\ url = [id |-> id, tab |-> "details"]
        /\ ui = [page |-> [hosts |-> {}, loading |-> TRUE, selected |-> None, temp |-> FALSE],
                 details |-> NoDetails, keys |-> NoKeys, plugins |-> NoPlugins]
        /\ tasks = Begin(Begin([k \in Slots |-> Idle], fetchTable), fetchHosts(id))
        /\ seen = {key} /\ failed = FALSE /\ hasty = FALSE /\ left = FALSE
  BY DEF Init
<1>3. PICK i, j \in Slots : /\ i # j /\ DOMAIN tasks = Slots
                            /\ \A k \in Slots : tasks[k] = IF k = i THEN fetchTable
                                                           ELSE IF k = j THEN fetchHosts(id) ELSE Idle
  BY <1>2, InitStarts
<1> HIDE DEF key, owner
<1>4. GoodDb(db)
  <2> DEFINE hs == [h \in Initially |-> h]
             ys == [y \in {key} |-> owner]
             ls == [l \in Hosts \X Plugins |-> IF l[1] = owner THEN 1 ELSE 0]
  <2>1. hs \in Tables
    <3>1. hs \in [Initially -> Texts] /\ Initially \in SUBSET Hosts
      BY <1>1 DEF Texts
    <3>2. QED
      BY <3>1 DEF Tables, Partial
  <2>2. ys \in Partial(Keys, Hosts)
    <3>1. ys \in [{key} -> Hosts] /\ {key} \in SUBSET Keys
      BY <1>1
    <3>2. QED
      BY <3>1 DEF Partial
  <2>3. ls \in [Hosts \X Plugins -> Nat]
    OBVIOUS
  <2>4. DOMAIN hs = Initially /\ Faithful(hs)
    BY DEF Faithful, Meant
  <2>5. \A y \in DOMAIN ys : ys[y] \in DOMAIN hs
    BY <1>1
  <2> HIDE DEF hs, ys, ls
  <2>6. db = [hosts |-> hs, keys |-> ys, links |-> ls, given |-> Initially \cup {key}]
    BY <1>2 DEF hs, ys, ls
  <2>7. QED
    BY <1>1, <2>1, <2>2, <2>3, <2>4, <2>5, <2>6 DEF GoodDb
<1>5. fetchTable.at = "table" /\ fetchTable.live /\ fetchTable.got = <<>> /\ fetchTable.sent = {getAllHosts}
  BY DEF fetchTable, Task
<1>6. fetchHosts(id).at = "hosts" /\ fetchHosts(id).live /\ fetchHosts(id).got = <<>> /\ fetchHosts(id).sent = {getAllHosts}
  BY DEF fetchHosts, Task
<1>7. Idle.at = "idle" /\ Idle.got = <<>> /\ Idle.sent = {} /\ DOMAIN <<>> = {}
  BY DEF Idle
<1>8. TypeInv
  <2>1. id \in HostIds
    BY <1>1 DEF HostIds
  <2>2. GoodTasks(tasks)
    BY <1>3, <2>1, Fetches DEF GoodTasks
  <2>3. url \in Urls
    BY <1>2, <2>1 DEF Urls, PageTabs
  <2>4. GoodUi(ui) /\ FormIn(url, ui.details)
    <3>1. [hosts |-> {}, loading |-> TRUE, selected |-> None, temp |-> FALSE] \in PageType
      BY DEF PageType, HostIds
    <3>2. NoDetails \in DetailsType
      BY EmptyTabs DEF GoodDetails
    <3>3. QED
      BY <1>2, <3>1, <3>2, EmptyTabs DEF GoodUi, FormIn
  <2>5. QED
    BY <1>4, <2>2, <2>3, <2>4 DEF TypeInv
<1>9. url.tab = "details" /\ ~failed /\ ~hasty /\ ~left
  BY <1>2
<1>10. SpinInv
  <2>1. ~ui.details.saving
    BY <1>2 DEF NoDetails
  <2>2. tasks[i].at = "table" /\ tasks[j].at = "hosts"
    BY <1>3, <1>5, <1>6
  <2>3. QED
    BY <1>9, <2>1, <2>2 DEF SpinInv, Spins
<1>11. SecretInv
  <2>1. \A k \in Slots : tasks[k].at # "submit"
    BY <1>3, <1>5, <1>6, <1>7
  <2>2. DOMAIN db.keys = seen
    BY <1>2
  <2>3. QED
    BY <2>1, <2>2 DEF SecretInv, Secrets
<1>12. CalmInv
  <2>1. OnlyOne(url, tasks)
    <3>1. \A k \in Slots : tasks[k].got = <<>>
      BY <1>3, <1>5, <1>6, <1>7
    <3>2. \A k \in Slots : /\ tasks[k].at \in {"idle", "hosts", "table"}
                           /\ tasks[k].at # "idle" => tasks[k].live
                           /\ tasks[k].at = "hosts" => k = j
                           /\ tasks[k].at = "table" => k = i
      BY <1>3, <1>5, <1>6, <1>7
    <3>3. QED
      BY <1>7, <1>9, <3>1, <3>2 DEF OnlyOne, PlacesOf
  <2>2. ForSelected(url, ui, tasks)
    BY <1>3, <1>5, <1>6, <1>7, <1>9 DEF ForSelected
  <2>3. Current(db, url, ui, tasks)
    <3>1. ~NoHandler(tasks)
      BY <1>3, <1>5 DEF NoHandler
    <3>2. \A k \in Slots : \A r \in DOMAIN tasks[k].got : FALSE
      BY <1>3, <1>5, <1>6, <1>7
    <3>3. QED
      BY <1>9, <3>1, <3>2 DEF Current
  <2>4. LinkedOnceIn(db, tasks)
    <3>1. \A l \in Hosts \X Plugins : db.links[l] <= 1
      BY <1>2
    <3>2. \A k \in Slots : tasks[k].sent \subseteq {getAllHosts}
      BY <1>3, <1>5, <1>6, <1>7
    <3>3. \A h \in Hosts, p \in Plugins : addPluginToHost(h, p) # getAllHosts
      BY DEF addPluginToHost, getAllHosts
    <3>4. QED
      BY <3>1, <3>2, <3>3 DEF LinkedOnceIn
  <2>5. QED
    BY <2>1, <2>2, <2>3, <2>4 DEF CalmInv, Calm
<1>13. QED
  BY <1>8, <1>10, <1>11, <1>12 DEF PageInv

\* Every step keeps the invariant.
LEMMA NextKeeps ==
    ASSUME PageInv, [Next]_vars
    PROVE  PageInv'
<1>1. CASE UNCHANGED vars
  BY <1>1 DEF vars, PageInv, TypeInv, SpinInv, SecretInv, CalmInv, GoodDb, GoodUi, FormIn, GoodForm, GoodTasks,
              Spins, Secrets, Calm, OnlyOne, ForSelected, Current, NoHandler, LinkedOnceIn
<1>2. CASE ClickStep
  BY <1>2, MovesAway, DetailsScreen, HostWrites, KeysScreen, KeyWrites, PluginsScreen, PluginWrites DEF ClickStep
<1>3. CASE \E u \in [id : (db.given \cap Hosts) \cup {None}, tab : PageTabs] : Back(u)
  BY <1>3, MovesAway
<1>4. ASSUME NEW k \in Slots, HandlerStep(k) PROVE PageInv'
  BY <1>4, HostsKeep, TableKeeps, HostWrittenKeeps, KeysKeep, SubmitKeeps, OthersWrittenKeep, PluginsKeep
     DEF HandlerStep
<1>5. ASSUME NEW k \in Slots, NEW r \in tasks[k].sent, Serve(k, r) \/ Fail(k, r) PROVE PageInv'
  BY <1>5, ServerKeeps
<1>6. QED
  BY <1>1, <1>2, <1>3, <1>4, <1>5 DEF Next

\* What the page promises follows from the invariant.
LEMMA Promises ==
    ASSUME PageInv
    PROVE  TypeOK /\ ShownIsTrue /\ SavesAreMeant /\ SecretsAreSeen
<1>1. /\ db \in [hosts : Tables, keys : Partial(Keys, Hosts), links : [Hosts \X Plugins -> Nat],
                 given : SUBSET (Hosts \cup Keys)]
      /\ Initially \cup DOMAIN db.hosts \subseteq db.given
      /\ Faithful(db.hosts)
      /\ \A y \in DOMAIN db.keys : db.keys[y] \in DOMAIN db.hosts
  BY DEF PageInv, TypeInv, GoodDb
<1>2. /\ DOMAIN db.hosts \subseteq Hosts /\ \A h \in DOMAIN db.hosts : db.hosts[h] \in Texts
      /\ DOMAIN db.keys \subseteq Keys
  BY <1>1, PartialIs DEF Tables
<1>3. /\ ui.page \in PageType /\ ui.details \in DetailsType /\ ui.keys \in KeysType /\ ui.plugins \in PluginsType
      /\ url \in Urls
  BY DEF PageInv, TypeInv, GoodUi
<1>4. TypeOK
  <2>1. DOMAIN ui.details.hosts \subseteq Hosts
    BY <1>3, PartialIs DEF DetailsType, Tables
  <2>2. \A l \in DOMAIN db.links : db.links[l] \in Nat
    BY <1>1
  <2>3. QED
    BY <1>1, <1>2, <1>3, <2>1, <2>2 DEF TypeOK, Existing, Urls, PageType, DetailsType, KeysType, PluginsType
<1>5. ASSUME ~Busy PROVE NoHandler(tasks) /\ \A k \in Slots : tasks[k].at = "idle"
  BY <1>5 DEF Busy, Running, NoHandler
<1>6. ShownIsTrue
  <2>1. ASSUME Undisturbed PROVE Current(db, url, ui, tasks) /\ NoHandler(tasks)
    BY <1>5, <2>1 DEF Undisturbed, PageInv, CalmInv, Calm
  <2>2. TableIsTrue
    BY <2>1 DEF TableIsTrue, Current
  <2>3. Selected \in Existing => ui.page.selected # None
    BY <1>2, HostsAssumption DEF Selected, Existing
  <2>4. KeysAreTrue
    BY <2>1, <2>3 DEF KeysAreTrue, Current, Selected, KeysOf, OwnersKeys
  <2>5. PluginsAreTrue
    BY <2>1, <2>3 DEF PluginsAreTrue, Current, Selected, PluginsOf, Linked
  <2>6. SpinnersEnd
    BY <1>5 DEF SpinnersEnd, PageInv, SpinInv, Spins
  <2>7. QED
    BY <2>2, <2>4, <2>5, <2>6 DEF ShownIsTrue
<1>7. SavesAreMeant
  <2>1. EditedIsUpdated
    BY <1>1 DEF EditedIsUpdated, Existing, Faithful, Meant
  <2>2. LinkedOnce
    BY <1>1 DEF LinkedOnce, PageInv, CalmInv, Calm, LinkedOnceIn
  <2>3. QED
    BY <2>1, <2>2 DEF SavesAreMeant
<1>8. SecretsAreSeen
  BY <1>5 DEF SecretsAreSeen, PageInv, SecretInv, Secrets
<1>9. QED
  BY <1>4, <1>6, <1>7, <1>8

-----------------------------------------------------------------------------
(* The theorems.                                                           *)

\* The inductive invariant: types, spinners with their handlers, secrets that come to the
\* screen, and the calm of a user who waits.
THEOREM PageCorrect == Spec => []PageInv
<1>1. Init => PageInv
  BY InitKeeps
<1>2. PageInv /\ [Next]_vars => PageInv'
  BY NextKeeps
<1>3. QED
  BY <1>1, <1>2, PTL DEF Spec

\* Every variable keeps its type: no host is saved without a text, and keys belong to
\* hosts that exist, whatever fails and wherever the user goes.
THEOREM TypeCorrect == Spec => []TypeOK
<1>1. PageInv => TypeOK
  BY Promises
<1>2. QED
  BY <1>1, PageCorrect, PTL

\* The table and the keys and plugins of the selected host are the server's when nothing
\* runs any more after a patient user's clicks, and no spinner outlives its handlers even
\* when requests fail and the user goes elsewhere.
THEOREM ShownCorrect == Spec => []ShownIsTrue
<1>1. PageInv => ShownIsTrue
  BY Promises
<1>2. QED
  BY <1>1, PageCorrect, PTL

\* No host, new ones included, is ever saved with the text of another, however the modal is
\* opened and closed while handlers run; and a patient user's clicks link a plugin once.
THEOREM SavesCorrect == Spec => []SavesAreMeant
<1>1. PageInv => SavesAreMeant
  BY Promises
<1>2. QED
  BY <1>1, PageCorrect, PTL

\* The secret of every generated key comes to the screen, also when the user selects
\* another host while it is generated.
THEOREM SecretsCorrect == Spec => []SecretsAreSeen
<1>1. PageInv => SecretsAreSeen
  BY Promises
<1>2. QED
  BY <1>1, PageCorrect, PTL
=============================================================================
