-------------------------- MODULE TopicPageProofs --------------------------
(***************************************************************************)
(* Safety of the Topics page for every set of topics and agents, any       *)
(* number of handlers and any number of clicks: what the two tabs show is  *)
(* what the server holds.                                                  *)
(***************************************************************************)
EXTENDS TopicPage, FiniteSetTheorems, WellFoundedInduction, TLAPS

-----------------------------------------------------------------------------
(* Types.                                                                  *)

\* Functions on a part of the ids: records that come and go.
Partial(S, T) == UNION {[R -> T] : R \in SUBSET S}

Ids == Topics \cup {None}
Records == [id : Topics, text : Texts]

\* Records of the server.  An id is given once, and only topics have agents.
GoodDb(d) ==
    /\ d \in [topics : Partial(Topics, Texts), links : SUBSET (Agents \X Topics), given : SUBSET Topics]
    /\ DOMAIN d.topics \subseteq d.given
    /\ \A l \in d.links : l[2] \in DOMAIN d.topics

PageTabs == {"details", "agents"}
Urls == [id : Ids, tab : PageTabs \cup {None}]
DetailsType == [topics : Partial(Topics, Texts), selected : Records \cup {None}, loading : BOOLEAN,
                form : [text : Texts \cup {Blank}] \cup {None}, confirm : BOOLEAN, toDelete : Ids]
AgentsType == [assigned : SUBSET Agents, loading : BOOLEAN]

\* The awaits of the handlers of each tab.
DetailsPlaces == {"fetch", "save", "delete"}
AgentsPlaces == {"agents", "toggle", "refetch"}
Places == DetailsPlaces \cup AgentsPlaces

\* The requests a handler has made at each of its awaits.
Asks(at, arg, q) ==
    \/ at = "fetch" /\ arg \in [id : Ids, then : {"nothing", "delete"}] /\ q = {getAllTopics}
    \/ /\ at = "save" /\ arg \in [id : Ids]
       /\ \E x \in Texts : q = {createTopic(x)} \/ \E t \in Topics : q = {updateTopic(t, x)}
    \/ at = "delete" /\ arg \in [id : Ids] /\ \E t \in Topics : q = {deleteTopic(t)}
    \/ /\ at = "agents" /\ arg \in [id : Ids]
       /\ q = IF arg.id = None THEN {} ELSE {getTopicAgents(arg.id)}
    \/ /\ at = "toggle" /\ arg \in [id : Topics]
       /\ \E a \in Agents : q \in {{addTopicToAgent(a, arg.id)}, {removeTopicFromAgent(a, arg.id)}}
    \/ at = "refetch" /\ arg \in [id : Topics] /\ q = {getTopicAgents(arg.id)}

\* What the answer to a request can be.
Tells(r, data) ==
    /\ r[1] = "getAllTopics" => data \in Partial(Topics, Texts)
    /\ r[1] = "createTopic" => data \in Records
    /\ r[1] = "getTopicAgents" => data \in SUBSET Agents
GoodAnswer(r, a) == a = Failure \/ (a = Ok(a.data) /\ Tells(r, a.data))

GoodTask(t) ==
    \/ t = Idle
    \/ /\ t = [at |-> t.at, arg |-> t.arg, sent |-> t.sent, got |-> t.got, live |-> t.live]
       /\ t.live \in BOOLEAN
       /\ t.sent \cap DOMAIN t.got = {}
       /\ Asks(t.at, t.arg, t.sent \cup DOMAIN t.got)
       /\ \A r \in DOMAIN t.got : GoodAnswer(r, t.got[r])
GoodTasks(ts) == DOMAIN ts = Slots /\ \A k \in Slots : GoodTask(ts[k])

TypeInv ==
    /\ GoodDb(db) /\ url \in Urls /\ tab \in PageTabs
    /\ details \in DetailsType /\ agents \in AgentsType
    /\ GoodTasks(tasks)

-----------------------------------------------------------------------------
(* The invariants.                                                         *)

\* A spinner turns as long as a handler that will stop it runs.
Turns(ts, places) == \E k \in Slots : ts[k].at \in places /\ ts[k].live
Spins(t, d, p, ts) ==
    /\ t = "details" /\ d.loading => Turns(ts, {"fetch"})
    /\ t = "agents" /\ p.loading => Turns(ts, AgentsPlaces)
SpinInv == Spins(tab, details, agents, tasks)

\* Of a user who waits, while no request fails: the handlers are those of the tab, and
\* overlap only when they fetch the list for the URL.
PlacesOf(t) == IF t = "details" THEN DetailsPlaces ELSE AgentsPlaces
Plain(t) == t.at = "fetch" /\ t.arg.then = "nothing"
Single(t, u, ts) ==
    /\ \A k \in Slots : ts[k].at # "idle" =>
          /\ ts[k].at \in PlacesOf(t) /\ ts[k].live
          /\ ts[k].at # "fetch" => ts[k].arg.id = u.id
    /\ \A j, k \in Slots : ts[j].at # "idle" /\ ~Plain(ts[j]) /\ ts[k].at # "idle" => j = k

\* The agents of a topic, as the server has them.
AgentsIn(d, t) == {a \in Agents : <<a, t>> \in d.links}

\* An answer that waits to be read is still so.
StillSo(d, r, a) ==
    /\ a.ok
    /\ r[1] = "getAllTopics" => a.data = d.topics
    /\ r[1] = "createTopic" => a.data.id \in DOMAIN d.topics /\ a.data = Found(d.topics, a.data.id)
    /\ r[1] = "getTopicAgents" => a.data = AgentsIn(d, r[2])
AnswersHold(d, ts) == \A k \in Slots : \A r \in DOMAIN ts[k].got : StillSo(d, r, ts[k].got[r])

\* What is shown is so, unless a handler runs that will show it.
Written(t, places) == t.at \in places /\ DOMAIN t.got # {}
ListHolds(d, t, s, ts) ==
    t = "details" => \/ s.topics = d.topics
                     \/ \E k \in Slots : ts[k].at = "fetch" \/ Written(ts[k], {"save", "delete"})
SelectedHolds(d, t, u, s, ts) ==
    t = "details" /\ u.id \in DOMAIN d.topics =>
        \/ s.selected = Found(d.topics, u.id)
        \/ \E k \in Slots : (ts[k].at = "fetch" /\ ts[k].arg.id = u.id) \/ Written(ts[k], {"save"})
ExistsStill(d, t, s, ts) ==
    t = "details" => \/ s.selected = None \/ s.selected.id \in DOMAIN d.topics
                     \/ \E k \in Slots : Written(ts[k], {"delete"}) \/ (ts[k].at = "fetch" /\ ~Plain(ts[k]))
CardsHold(d, t, u, p, ts) ==
    t = "agents" /\ u.id \in DOMAIN d.topics =>
        \/ p.assigned = AgentsIn(d, u.id)
        \/ \E k \in Slots : ts[k].at \in {"agents", "refetch"} \/ Written(ts[k], {"toggle"})

\* A fetch for another id than the one in the URL finds no topic to select, and a topic
\* is created only where none is in the URL.
Aside(d, u, t) ==
    /\ t.at = "fetch" /\ t.arg.id # u.id => t.arg.id \notin DOMAIN d.topics
    /\ t.at = "save" /\ (\E x \in Texts : createTopic(x) \in t.sent \cup DOMAIN t.got) => u.id \notin DOMAIN d.topics

Calm(d, t, u, s, p, ts) ==
    /\ u.tab \in {None, t} /\ u.id \in d.given \cup {None}
    /\ Single(t, u, ts) /\ AnswersHold(d, ts)
    /\ ListHolds(d, t, s, ts) /\ SelectedHolds(d, t, u, s, ts) /\ ExistsStill(d, t, s, ts)
    /\ CardsHold(d, t, u, p, ts)
    /\ \A k \in Slots : Aside(d, u, ts[k])
CalmInv == ~hasty /\ ~failed => Calm(db, tab, url, details, agents, tasks)

PageInv == TypeInv /\ SpinInv /\ CalmInv

-----------------------------------------------------------------------------
(* Records that come and go, and the handlers of the page.                 *)

\* What is in Partial(S, T).
LEMMA PartialIs ==
    ASSUME NEW S, NEW T, NEW f
    PROVE  f \in Partial(S, T) <=> /\ f = [x \in DOMAIN f |-> f[x]]
                                   /\ DOMAIN f \subseteq S
                                   /\ \A x \in DOMAIN f : f[x] \in T
<1>1. ASSUME f \in Partial(S, T)
      PROVE  f = [x \in DOMAIN f |-> f[x]] /\ DOMAIN f \subseteq S /\ \A x \in DOMAIN f : f[x] \in T
  <2>1. PICK R \in SUBSET S : f \in [R -> T]
    BY <1>1 DEF Partial
  <2>2. QED
    BY <2>1
<1>2. ASSUME f = [x \in DOMAIN f |-> f[x]], DOMAIN f \subseteq S, \A x \in DOMAIN f : f[x] \in T
      PROVE  f \in Partial(S, T)
  <2>1. f \in [DOMAIN f -> T]
    BY <1>2
  <2>2. DOMAIN f \in SUBSET S
    BY <1>2
  <2>3. QED
    BY <2>1, <2>2 DEF Partial
<1>3. QED
  BY <1>1, <1>2

\* Creating, changing and deleting a record.
LEMMA PartialKept ==
    ASSUME NEW S, NEW T, NEW f \in Partial(S, T), NEW x \in S, NEW v \in T
    PROVE  /\ With(f, x, v) \in Partial(S, T)
           /\ x \in DOMAIN f => [f EXCEPT ![x] = v] \in Partial(S, T)
           /\ [y \in DOMAIN f \ {x} |-> f[y]] \in Partial(S, T)
<1>1. DOMAIN f \subseteq S /\ \A y \in DOMAIN f : f[y] \in T
  BY PartialIs
<1>2. With(f, x, v) \in Partial(S, T)
  <2> DEFINE g == With(f, x, v)
  <2>1. /\ g = [y \in DOMAIN g |-> g[y]]
        /\ DOMAIN g = DOMAIN f \cup {x}
        /\ \A y \in DOMAIN g : g[y] = IF y = x THEN v ELSE f[y]
    BY DEF With
  <2> HIDE DEF g
  <2>2. QED
    BY <1>1, <2>1, PartialIs DEF g
<1>3. ASSUME x \in DOMAIN f PROVE [f EXCEPT ![x] = v] \in Partial(S, T)
  <2> DEFINE g == [f EXCEPT ![x] = v]
  <2>1. /\ g = [y \in DOMAIN g |-> g[y]]
        /\ DOMAIN g = DOMAIN f
        /\ \A y \in DOMAIN g : g[y] = IF y = x THEN v ELSE f[y]
    OBVIOUS
  <2> HIDE DEF g
  <2>2. QED
    BY <1>1, <2>1, PartialIs DEF g
<1>4. [y \in DOMAIN f \ {x} |-> f[y]] \in Partial(S, T)
  <2> DEFINE g == [y \in DOMAIN f \ {x} |-> f[y]]
  <2>1. /\ g = [y \in DOMAIN g |-> g[y]]
        /\ DOMAIN g = DOMAIN f \ {x}
        /\ \A y \in DOMAIN g : g[y] = f[y]
    OBVIOUS
  <2> HIDE DEF g
  <2>2. QED
    BY <1>1, <2>1, PartialIs DEF g
<1>5. QED
  BY <1>2, <1>3, <1>4

\* A handler that begins takes one free slot.
LEMMA BeginIs ==
    ASSUME NEW ts, DOMAIN ts = Slots, HasRoom(ts), NEW e
    PROVE  \E i \in Slots : /\ ts[i].at = "idle"
                            /\ DOMAIN Begin(ts, e) = Slots
                            /\ \A k \in Slots : Begin(ts, e)[k] = IF k = i THEN e ELSE ts[k]
<1>1. Free(ts) \in SUBSET Nat /\ Free(ts) # {} /\ \A k \in Free(ts) : k \in Slots /\ ts[k].at = "idle"
  BY MaxTasksAssumption DEF HasRoom, Free, Running, Slots
<1>2. PICK i \in Free(ts) : Begin(ts, e) = [ts EXCEPT ![i] = e]
  <2>1. \E k \in Free(ts) : \A j \in Free(ts) : k <= j
    <3>1. PICK k \in Free(ts) : \A j \in Free(ts) : ~(<<j, k>> \in OpToRel(<, Nat))
      BY <1>1, NatLessThanWellFounded, WFMin
    <3>2. \A m, n \in Nat : m < n => <<m, n>> \in OpToRel(<, Nat)
      BY DEF OpToRel
    <3>3. \A j \in Free(ts) : j \in Nat /\ k \in Nat /\ ~(j < k)
      BY <1>1, <3>1, <3>2
    <3>4. QED
      BY <3>3
  <2>2. (CHOOSE k \in Free(ts) : \A j \in Free(ts) : k <= j) \in Free(ts)
    BY <2>1
  <2>3. QED
    BY <2>2 DEF Begin
<1>3. QED
  BY <1>1, <1>2

\* A handler that runs is not idle.
LEMMA AsksIs ==
    ASSUME NEW at, NEW arg, NEW q, Asks(at, arg, q)
    PROVE  at \in Places /\ at # "idle"
  BY DEF Asks, Places, DetailsPlaces, AgentsPlaces

\* A handler that has sent its requests, when it begins or goes on.
Handler(at, arg, q, live) == [at |-> at, arg |-> arg, sent |-> q, got |-> <<>>, live |-> live]
LEMMA NewTask ==
    ASSUME NEW at, NEW arg, NEW q, NEW live \in BOOLEAN, Asks(at, arg, q)
    PROVE  GoodTask(Handler(at, arg, q, live))
<1> DEFINE t == Handler(at, arg, q, live)
<1>1. /\ t = [at |-> t.at, arg |-> t.arg, sent |-> t.sent, got |-> t.got, live |-> t.live]
      /\ t.at = at /\ t.arg = arg /\ t.sent = q /\ t.got = <<>> /\ t.live = live
  BY DEF Handler
<1>2. DOMAIN <<>> = {}
  OBVIOUS
<1> HIDE DEF t
<1>3. t.sent \cup DOMAIN t.got = q
  BY <1>1, <1>2
<1>4. GoodTask(t)
  BY <1>1, <1>2, <1>3 DEF GoodTask
<1>5. QED
  BY <1>4 DEF t

\* A handler that runs.
LEMMA BusyIs ==
    ASSUME NEW t, GoodTask(t), t.at # "idle" \/ t.sent # {} \/ DOMAIN t.got # {} \/ t.live
    PROVE  /\ t = [at |-> t.at, arg |-> t.arg, sent |-> t.sent, got |-> t.got, live |-> t.live]
           /\ t.live \in BOOLEAN /\ t.sent \cap DOMAIN t.got = {}
           /\ Asks(t.at, t.arg, t.sent \cup DOMAIN t.got) /\ t.at \in Places /\ t.at # "idle"
           /\ \A r \in DOMAIN t.got : GoodAnswer(r, t.got[r])
<1>1. Idle.at = "idle" /\ Idle.sent = {} /\ Idle.got = <<>> /\ ~Idle.live /\ DOMAIN <<>> = {}
  BY DEF Idle
<1>2. t # Idle
  BY <1>1
<1>3. QED
  BY <1>2, AsksIs DEF GoodTask

\* A slot without a handler.
LEMMA IdleIs ==
    /\ GoodTask(Idle) /\ Idle.at = "idle" /\ Idle.sent = {} /\ DOMAIN Idle.got = {} /\ ~Idle.live
    /\ \A t : GoodTask(t) /\ t.at = "idle" => t = Idle
<1>1. DOMAIN <<>> = {}
  OBVIOUS
<1>2. QED
  BY <1>1, AsksIs DEF GoodTask, Idle

\* A handler whose requests have all been answered with data.
LEMMA Answers ==
    ASSUME NEW t, GoodTask(t), t.at # "idle", t.sent = {}
    PROVE  /\ Asks(t.at, t.arg, DOMAIN t.got)
           /\ ~Threw(t) => \A r \in DOMAIN t.got : t.got[r].ok /\ Tells(r, Data(t, r))
<1>1. Asks(t.at, t.arg, t.sent \cup DOMAIN t.got) /\ \A r \in DOMAIN t.got : GoodAnswer(r, t.got[r])
  BY BusyIs
<1>2. ~Failure.ok
  BY DEF Failure
<1>3. QED
  BY <1>1, <1>2 DEF Threw, Data, GoodAnswer

\* A handler that goes on after an await.
LEMMA GoesOnAs ==
    ASSUME NEW t, t = [at |-> t.at, arg |-> t.arg, sent |-> t.sent, got |-> t.got, live |-> t.live],
           NEW at, NEW q
    PROVE  [t EXCEPT !.at = at, !.sent = q, !.got = <<>>] = Handler(at, t.arg, q, t.live)
<1> DEFINE a == [t EXCEPT !.at = at]
           b == [a EXCEPT !.sent = q]
<1>1. a = [at |-> at, arg |-> t.arg, sent |-> t.sent, got |-> t.got, live |-> t.live]
  OBVIOUS
<1> HIDE DEF a
<1>2. b = [at |-> at, arg |-> t.arg, sent |-> q, got |-> t.got, live |-> t.live]
  BY <1>1
<1> HIDE DEF b
<1>3. [b EXCEPT !.got = <<>>] = [at |-> at, arg |-> t.arg, sent |-> q, got |-> <<>>, live |-> t.live]
  BY <1>2
<1>4. QED
  BY <1>3, Zenon DEF a, b, Handler

\* A handler that goes on changes nothing but its own slot.
LEMMA GoesOn ==
    ASSUME NEW ts, GoodTasks(ts), NEW k \in Slots, ts[k].at # "idle", NEW at, NEW q
    PROVE  Goto(ts, k, at, q) = [ts EXCEPT ![k] = Handler(at, ts[k].arg, q, ts[k].live)]
<1>1. PICK t : t = ts[k]
  OBVIOUS
<1>2. t = [at |-> t.at, arg |-> t.arg, sent |-> t.sent, got |-> t.got, live |-> t.live]
  BY <1>1, BusyIs DEF GoodTasks
<1>3. [t EXCEPT !.at = at, !.sent = q, !.got = <<>>] = Handler(at, t.arg, q, t.live)
  BY <1>2, GoesOnAs, Zenon
<1>4. QED
  BY <1>1, <1>3, Zenon DEF Goto

\* What the effect of tab t begins with topic x in the URL.
LEMMA EffectIs ==
    ASSUME NEW t \in PageTabs, NEW x \in Ids, NEW e, e = EffectOf(t, x)
    PROVE  /\ GoodTask(e) /\ e.live /\ DOMAIN e.got = {} /\ e.sent \cap {createTopic(y) : y \in Texts} = {}
           /\ t = "details" => e.at = "fetch" /\ e.arg.id = x /\ Plain(e)
           /\ t = "agents" => e.at = "agents" /\ e.arg.id = x
<1>1. DOMAIN <<>> = {}
  OBVIOUS
<1>2. CASE t = "details"
  <2>1. PICK arg : arg = [id |-> x, then |-> "nothing"]
    OBVIOUS
  <2>2. e = Handler("fetch", arg, {getAllTopics}, TRUE)
    BY <1>2, <2>1 DEF EffectOf, FetchTopics, Task, Handler
  <2>3. Asks("fetch", arg, {getAllTopics})
    BY <2>1 DEF Asks
  <2>4. GoodTask(e)
    BY <2>2, <2>3, NewTask
  <2>5. \A y \in Texts : createTopic(y) # getAllTopics
    BY DEF createTopic, getAllTopics
  <2>6. e.at = "fetch" /\ e.arg = arg /\ e.live /\ e.got = <<>> /\ e.sent = {getAllTopics}
    BY <2>2 DEF Handler
  <2>7. QED
    BY <1>1, <1>2, <2>1, <2>4, <2>5, <2>6 DEF Plain
<1>3. CASE t = "agents"
  <2>1. PICK arg, q : arg = [id |-> x] /\ q = IF x = None THEN {} ELSE {getTopicAgents(x)}
    OBVIOUS
  <2>2. e = Handler("agents", arg, q, TRUE)
    BY <1>3, <2>1 DEF EffectOf, FetchAgents, Task, Handler
  <2>3. Asks("agents", arg, q)
    BY <2>1 DEF Asks
  <2>4. GoodTask(e)
    BY <2>2, <2>3, NewTask
  <2>5. \A y \in Texts : createTopic(y) # getTopicAgents(x)
    BY DEF createTopic, getTopicAgents
  <2>6. e.at = "agents" /\ e.arg = arg /\ e.live /\ e.got = <<>> /\ e.sent = q
    BY <2>2 DEF Handler
  <2>7. QED
    BY <1>1, <1>3, <2>1, <2>4, <2>5, <2>6
<1>4. QED
  BY <1>2, <1>3 DEF PageTabs

-----------------------------------------------------------------------------
(* Rendering.                                                              *)

\* A tab that goes takes its fetches with it; its other handlers go on.
LEMMA UnmountedIs ==
    ASSUME NEW ts, GoodTasks(ts)
    PROVE  /\ GoodTasks(Unmounted(ts))
           /\ \A k \in Slots : ts[k].at = "idle" => Unmounted(ts)[k] = Idle
<1>1. ASSUME NEW k \in Slots
      PROVE  GoodTask(Unmounted(ts)[k]) /\ (ts[k].at = "idle" => Unmounted(ts)[k] = Idle)
  <2> DEFINE t == Unmounted(ts)[k]
             o == ts[k]
  <2>1. PICK goes \in BOOLEAN : goes = (o.at \in {"agents", "refetch"} \/ (o.at = "fetch" /\ o.arg.then # "delete"))
    OBVIOUS
  <2>2. t = IF goes THEN Idle ELSE [o EXCEPT !.live = FALSE]
    BY <2>1 DEF Unmounted
  <2>3. GoodTask(o)
    BY DEF GoodTasks
  <2> HIDE DEF t, o
  <2>4. CASE goes
    BY <2>1, <2>2, <2>4, IdleIs DEF o, t
  <2>5. CASE o.at = "idle"
    <3>1. o = Idle /\ t = [o EXCEPT !.live = FALSE]
      BY <2>1, <2>2, <2>3, <2>5, IdleIs
    <3>2. t = Idle
      BY <3>1 DEF Idle
    <3>3. QED
      BY <3>2, IdleIs DEF t
  <2>6. CASE ~goes /\ o.at # "idle"
    <3>1. /\ o = [at |-> o.at, arg |-> o.arg, sent |-> o.sent, got |-> o.got, live |-> o.live]
          /\ o.sent \cap DOMAIN o.got = {}
          /\ Asks(o.at, o.arg, o.sent \cup DOMAIN o.got)
          /\ \A r \in DOMAIN o.got : GoodAnswer(r, o.got[r])
      BY <2>3, <2>6, BusyIs
    <3>2. /\ t = [at |-> t.at, arg |-> t.arg, sent |-> t.sent, got |-> t.got, live |-> t.live]
          /\ t.at = o.at /\ t.arg = o.arg /\ t.sent = o.sent /\ t.got = o.got /\ t.live = FALSE
      BY <2>2, <2>6, <3>1
    <3>3. GoodTask(t)
      BY <3>1, <3>2 DEF GoodTask
    <3>4. QED
      BY <2>6, <3>3 DEF o, t
  <2>7. QED
    BY <2>4, <2>5, <2>6
<1>2. DOMAIN Unmounted(ts) = Slots
  BY DEF Unmounted
<1>3. QED
  BY <1>1, <1>2 DEF GoodTasks

\* Whether the parameters u bring the other tab, the tab that is there then, whether it
\* fetches, and the handlers ts that go on.
Moves(u) == u.tab \notin {None, tab}
TabOf(u) == IF Moves(u) THEN u.tab ELSE tab
Reloads(u) == Moves(u) \/ u.id # url.id
Kept(u, ts) == IF Moves(u) THEN Unmounted(ts) ELSE ts

\* The page after rendering.
LEMMA RenderIs ==
    ASSUME tab \in PageTabs, NEW d \in DetailsType, NEW p \in AgentsType, NEW u \in Urls, NEW ts, GoodTasks(ts),
           Render(d, p, u, ts), NEW e, e = EffectOf(TabOf(u), u.id)
    PROVE  /\ url' = u /\ tab' = TabOf(u) /\ tab' \in PageTabs
           /\ details' \in DetailsType /\ agents' \in AgentsType /\ GoodTasks(tasks')
           /\ Moves(u) => details'.selected = None
           /\ ~Moves(u) => /\ details'.topics = d.topics /\ details'.selected = d.selected
                           /\ details'.loading = (d.loading \/ (Reloads(u) /\ tab = "details"))
                           /\ agents'.assigned = p.assigned
                           /\ agents'.loading = (p.loading \/ (Reloads(u) /\ tab = "agents"))
           /\ \E i \in Slots \cup {0} :
                 /\ i = 0 <=> ~Reloads(u)
                 /\ \A k \in Slots : tasks'[k] = IF k = i THEN e ELSE Kept(u, ts)[k]
                 /\ \A k \in Slots : k = i => Kept(u, ts)[k].at = "idle"
<1> DEFINE t == TabOf(u)
           R == Reloads(u)
           M == Moves(u)
           kept == Kept(u, ts)
           D == IF M THEN NoDetails ELSE d
           P == IF M THEN NoAgents ELSE p
<1>1. /\ url' = u /\ tab' = t
      /\ details' = [D EXCEPT !.loading = @ \/ (R /\ t = "details")]
      /\ agents' = [P EXCEPT !.loading = @ \/ (R /\ t = "agents")]
  BY DEF Render, Moves, TabOf, Reloads
<1>2. /\ R => HasRoom(kept) /\ tasks' = Begin(kept, e)
      /\ ~R => tasks' = kept
  BY DEF Render, Moves, TabOf, Reloads, Kept
<1>3. GoodTasks(kept)
  BY UnmountedIs DEF Kept
<1>4. t \in PageTabs /\ u.id \in Ids
  BY DEF TabOf, Moves, Urls
<1>5. GoodTask(e)
  BY <1>4, EffectIs
<1>6. D \in DetailsType /\ P \in AgentsType
  <2>1. <<>> \in Partial(Topics, Texts)
    <3>1. <<>> \in [{} -> Texts]
      OBVIOUS
    <3>2. {} \in SUBSET Topics
      OBVIOUS
    <3>3. QED
      BY <3>1, <3>2 DEF Partial
  <2>2. NoDetails \in DetailsType /\ NoAgents \in AgentsType
    BY <2>1 DEF NoDetails, NoAgents, DetailsType, AgentsType, Ids
  <2>3. QED
    BY <2>2
<1>7. NoDetails.selected = None
  BY DEF NoDetails
<1>8. (M => D = NoDetails) /\ (~M => D = d /\ P = p /\ t = tab)
  BY DEF TabOf
<1> HIDE DEF t, R, M, kept, D, P
<1>9. PICK b, c \in BOOLEAN : b = (D.loading \/ (R /\ t = "details")) /\ c = (P.loading \/ (R /\ t = "agents"))
  OBVIOUS
<1>10. details' = [D EXCEPT !.loading = b] /\ agents' = [P EXCEPT !.loading = c]
  BY <1>1, <1>6, <1>9 DEF DetailsType, AgentsType
<1>11. /\ details' \in DetailsType /\ details'.topics = D.topics /\ details'.selected = D.selected /\ details'.loading = b
       /\ agents' \in AgentsType /\ agents'.assigned = P.assigned /\ agents'.loading = c
  BY <1>6, <1>10 DEF DetailsType, AgentsType
<1>12. PICK i \in Slots \cup {0} :
          /\ i = 0 <=> ~R
          /\ DOMAIN tasks' = Slots
          /\ \A k \in Slots : tasks'[k] = IF k = i THEN e ELSE kept[k]
          /\ \A k \in Slots : k = i => kept[k].at = "idle"
  <2>1. 0 \notin Slots /\ DOMAIN kept = Slots
    BY <1>3 DEF Slots, GoodTasks
  <2>2. CASE ~R
    BY <1>2, <2>1, <2>2
  <2>3. CASE R
    <3>1. HasRoom(kept) /\ tasks' = Begin(kept, e)
      BY <1>2, <2>3
    <3>2. PICK i \in Slots : /\ kept[i].at = "idle" /\ DOMAIN Begin(kept, e) = Slots
                             /\ \A k \in Slots : Begin(kept, e)[k] = IF k = i THEN e ELSE kept[k]
      BY <2>1, <3>1, BeginIs
    <3>3. QED
      BY <2>1, <2>3, <3>1, <3>2
  <2>4. QED
    BY <2>2, <2>3
<1>13. GoodTasks(tasks')
  BY <1>3, <1>5, <1>12 DEF GoodTasks
<1>14. /\ M => details'.selected = None
       /\ ~M => /\ details'.topics = d.topics /\ details'.selected = d.selected
                /\ details'.loading = (d.loading \/ (R /\ tab = "details"))
                /\ agents'.assigned = p.assigned
                /\ agents'.loading = (p.loading \/ (R /\ tab = "agents"))
  BY <1>7, <1>8, <1>9, <1>11
<1>15. \E j \in Slots \cup {0} :
          /\ j = 0 <=> ~R
          /\ \A k \in Slots : tasks'[k] = IF k = j THEN e ELSE kept[k]
          /\ \A k \in Slots : k = j => kept[k].at = "idle"
  BY <1>12
<1>16. url' = u /\ tab' = t /\ tab' \in PageTabs
  BY <1>1, <1>4
<1>17. QED
  BY <1>11, <1>13, <1>14, <1>15, <1>16, Zenon DEF R, M, t, kept

\* Spinners go on turning, and those of the fetch begin.
LEMMA RenderSpins ==
    ASSUME tab \in PageTabs, NEW d \in DetailsType, NEW p \in AgentsType, NEW u \in Urls, NEW ts, GoodTasks(ts),
           Render(d, p, u, ts), Spins(tab, d, p, ts)
    PROVE  Spins(tab', details', agents', tasks')
<1> DEFINE e == EffectOf(TabOf(u), u.id)
<1>1. /\ tab' = TabOf(u) /\ tab' \in PageTabs
      /\ ~Moves(u) => /\ details'.loading = (d.loading \/ (Reloads(u) /\ tab = "details"))
                      /\ agents'.loading = (p.loading \/ (Reloads(u) /\ tab = "agents"))
  BY RenderIs
<1>2. PICK i \in Slots \cup {0} :
          /\ i = 0 <=> ~Reloads(u)
          /\ \A k \in Slots : tasks'[k] = IF k = i THEN e ELSE Kept(u, ts)[k]
          /\ \A k \in Slots : k = i => Kept(u, ts)[k].at = "idle"
  BY RenderIs
<1>3. /\ e.live
      /\ tab' = "details" => e.at = "fetch"
      /\ tab' = "agents" => e.at = "agents"
  BY <1>1, EffectIs DEF Urls
<1> HIDE DEF e
<1>4. CASE Reloads(u)
  <2>1. i \in Slots /\ tasks'[i] = e
    BY <1>2, <1>4
  <2>2. \A places : e.at \in places => Turns(tasks', places)
    BY <1>3, <2>1 DEF Turns
  <2>3. tab' = "details" => Turns(tasks', {"fetch"})
    BY <1>3, <2>2
  <2>4. tab' = "agents" => Turns(tasks', AgentsPlaces)
    BY <1>3, <2>2 DEF AgentsPlaces
  <2>5. QED
    BY <2>3, <2>4 DEF Spins
<1>5. CASE ~Reloads(u)
  <2>1. ~Moves(u) /\ tab' = tab
    BY <1>1, <1>5 DEF Reloads, TabOf
  <2>2. \A k \in Slots : tasks'[k] = ts[k]
    BY <1>2, <1>5, <2>1 DEF Kept, Slots
  <2>3. \A places : Turns(ts, places) => Turns(tasks', places)
    BY <2>2 DEF Turns
  <2>4. details'.loading = d.loading /\ agents'.loading = p.loading
    BY <1>1, <1>5, <2>1, RenderIs DEF DetailsType, AgentsType
  <2>5. QED
    BY <2>1, <2>3, <2>4 DEF Spins
<1>6. QED
  BY <1>4, <1>5

\* What a patient user may rely on before details d and agents p are rendered with handlers
\* ts: where nothing is fetched for it, what is shown is so already.
Ready(d, p, u, ts) ==
    /\ u.id \in db.given \cup {None}
    /\ IF Moves(u) THEN \A k \in Slots : ts[k].at = "idle"
       ELSE /\ Single(tab, u, ts) /\ AnswersHold(db, ts)
            /\ ListHolds(db, tab, d, ts) /\ ExistsStill(db, tab, d, ts)
            /\ \A k \in Slots : Aside(db, u, ts[k])
            /\ IF Reloads(u) THEN \A k \in Slots : ts[k].at # "idle" => tab = "details" /\ Plain(ts[k])
               ELSE SelectedHolds(db, tab, u, d, ts) /\ CardsHold(db, tab, u, p, ts)

\* Rendering keeps what a patient user sees.
LEMMA RenderCalm ==
    ASSUME tab \in PageTabs, NEW d \in DetailsType, NEW p \in AgentsType, NEW u \in Urls, NEW ts, GoodTasks(ts),
           Render(d, p, u, ts), Ready(d, p, u, ts)
    PROVE  Calm(db, tab', url', details', agents', tasks')
<1> DEFINE e == EffectOf(TabOf(u), u.id)
<1>1. /\ url' = u /\ tab' = TabOf(u) /\ tab' \in PageTabs
      /\ Moves(u) => details'.selected = None
      /\ ~Moves(u) => /\ details'.topics = d.topics /\ details'.selected = d.selected
                      /\ agents'.assigned = p.assigned
  BY RenderIs
<1>2. PICK i \in Slots \cup {0} :
          /\ i = 0 <=> ~Reloads(u)
          /\ \A k \in Slots : tasks'[k] = IF k = i THEN e ELSE Kept(u, ts)[k]
          /\ \A k \in Slots : k = i => Kept(u, ts)[k].at = "idle"
  BY RenderIs
<1>3. /\ GoodTask(e) /\ e.live /\ DOMAIN e.got = {} /\ e.arg.id = u.id /\ e.at \notin {"idle", "save"}
      /\ tab' = "details" => e.at = "fetch" /\ Plain(e)
      /\ tab' = "agents" => e.at = "agents"
  BY <1>1, EffectIs DEF Urls, PageTabs
<1> HIDE DEF e
<1>4. u.tab \in {None, tab'} /\ u.id \in db.given \cup {None}
  BY <1>1 DEF TabOf, Moves, Ready
<1>5. 0 \notin Slots
  BY DEF Slots
<1>6. CASE Reloads(u)
  <2>1. i \in Slots /\ tasks'[i] = e
    BY <1>2, <1>6
  <2>2. ASSUME NEW k \in Slots, k # i
        PROVE  /\ tasks'[k].at # "idle" => ~Moves(u) /\ tab' = "details" /\ tasks'[k] = ts[k] /\ Plain(ts[k])
               /\ Moves(u) => DOMAIN tasks'[k].got = {}
               /\ ~Moves(u) => tasks'[k] = ts[k]
    <3>1. tasks'[k] = Kept(u, ts)[k]
      BY <1>2, <2>2
    <3>2. CASE Moves(u)
      <4>1. tasks'[k] = Idle
        BY <3>1, <3>2, UnmountedIs DEF Ready, Kept
      <4>2. QED
        BY <3>2, <4>1, IdleIs
    <3>3. CASE ~Moves(u)
      BY <1>1, <1>6, <3>1, <3>3 DEF Ready, Kept, TabOf
    <3>4. QED
      BY <3>2, <3>3
  <2>3. Single(tab', u, tasks')
    <3>1. ASSUME NEW k \in Slots, tasks'[k].at # "idle"
          PROVE  /\ tasks'[k].at \in PlacesOf(tab') /\ tasks'[k].live
                 /\ tasks'[k].at # "fetch" => tasks'[k].arg.id = u.id
      <4>1. CASE k = i
        BY <1>1, <1>3, <2>1, <4>1 DEF PlacesOf, DetailsPlaces, AgentsPlaces, PageTabs
      <4>2. CASE k # i
        <5>1. ~Moves(u) /\ tab' = tab /\ tasks'[k] = ts[k]
          BY <1>1, <2>2, <3>1, <4>2 DEF TabOf
        <5>2. QED
          BY <3>1, <5>1 DEF Ready, Single
      <4>3. QED
        BY <4>1, <4>2
    <3>2. ASSUME NEW j \in Slots, NEW k \in Slots, tasks'[j].at # "idle", ~Plain(tasks'[j]), tasks'[k].at # "idle"
          PROVE  j = k
      <4>1. j = i
        BY <2>2, <3>2
      <4>2. tab' # "details"
        BY <1>3, <2>1, <3>2, <4>1
      <4>3. k = i
        BY <2>2, <3>2, <4>2
      <4>4. QED
        BY <4>1, <4>3
    <3>3. QED
      BY <3>1, <3>2 DEF Single
  <2>4. AnswersHold(db, tasks')
    <3>1. ASSUME NEW k \in Slots, NEW r \in DOMAIN tasks'[k].got PROVE StillSo(db, r, tasks'[k].got[r])
      <4>1. k # i
        BY <1>3, <2>1
      <4>2. ~Moves(u) /\ tasks'[k] = ts[k]
        BY <2>2, <4>1
      <4>3. QED
        BY <4>2, Zenon DEF Ready, AnswersHold
    <3>2. QED
      BY <3>1 DEF AnswersHold
  <2>5. ListHolds(db, tab', details', tasks') /\ SelectedHolds(db, tab', u, details', tasks')
    BY <1>3, <2>1 DEF ListHolds, SelectedHolds
  <2>6. CardsHold(db, tab', u, agents', tasks')
    BY <1>3, <2>1 DEF CardsHold
  <2>7. ExistsStill(db, tab', details', tasks')
    <3>1. CASE Moves(u)
      BY <1>1, <3>1 DEF ExistsStill
    <3>2. CASE ~Moves(u)
      <4>1. \A k \in Slots : ts[k].at # "idle" => Plain(ts[k])
        BY <1>6, <3>2 DEF Ready
      <4>2. ExistsStill(db, tab, d, ts) /\ tab' = tab
        BY <1>1, <3>2 DEF Ready, TabOf
      <4>3. \A k \in Slots : ~Written(ts[k], {"delete"}) /\ ~(ts[k].at = "fetch" /\ ~Plain(ts[k]))
        BY <4>1 DEF Written, Plain
      <4>4. QED
        BY <1>1, <3>2, <4>2, <4>3 DEF ExistsStill
    <3>3. QED
      BY <3>1, <3>2
  <2>8. ASSUME NEW k \in Slots PROVE Aside(db, u, tasks'[k])
    <3>1. CASE k = i
      BY <1>3, <2>1, <3>1 DEF Aside
    <3>2. CASE k # i
      <4>1. CASE tasks'[k].at = "idle"
        BY <4>1 DEF Aside
      <4>2. CASE tasks'[k].at # "idle"
        <5>1. ~Moves(u) /\ tasks'[k] = ts[k]
          BY <2>2, <3>2, <4>2
        <5>2. QED
          BY <5>1, Zenon DEF Ready
      <4>3. QED
        BY <4>1, <4>2
    <3>3. QED
      BY <3>1, <3>2
  <2>9. QED
    BY <1>1, <1>4, <2>3, <2>4, <2>5, <2>6, <2>7, <2>8 DEF Calm
<1>7. CASE ~Reloads(u)
  <2>1. ~Moves(u) /\ tab' = tab
    BY <1>1, <1>7 DEF Reloads, TabOf
  <2>2. \A k \in Slots : tasks'[k] = ts[k]
    BY <1>2, <1>5, <1>7, <2>1 DEF Kept
  <2>3. /\ Single(tab, u, ts) /\ AnswersHold(db, ts)
        /\ ListHolds(db, tab, d, ts) /\ ExistsStill(db, tab, d, ts)
        /\ \A k \in Slots : Aside(db, u, ts[k])
        /\ SelectedHolds(db, tab, u, d, ts) /\ CardsHold(db, tab, u, p, ts)
    BY <1>7, <2>1 DEF Ready
  <2>4. Single(tab, u, tasks') /\ AnswersHold(db, tasks')
    BY <2>2, <2>3 DEF Single, AnswersHold
  <2>5. /\ ListHolds(db, tab, details', tasks') /\ ExistsStill(db, tab, details', tasks')
        /\ SelectedHolds(db, tab, u, details', tasks') /\ CardsHold(db, tab, u, agents', tasks')
    BY <1>1, <2>1, <2>2, <2>3 DEF ListHolds, ExistsStill, SelectedHolds, CardsHold
  <2>6. \A k \in Slots : Aside(db, u, tasks'[k])
    BY <2>2, <2>3
  <2>7. QED
    BY <1>1, <1>4, <2>1, <2>4, <2>5, <2>6 DEF Calm
<1>8. QED
  BY <1>6, <1>7

\* A step that renders the page keeps the invariant.
LEMMA RenderKeeps ==
    ASSUME PageInv, NEW d \in DetailsType, NEW p \in AgentsType, NEW u \in Urls, NEW ts, GoodTasks(ts),
           Render(d, p, u, ts), UNCHANGED <<db, failed>>, Spins(tab, d, p, ts),
           ~hasty' /\ ~failed => Ready(d, p, u, ts)
    PROVE  PageInv'
<1>1. tab \in PageTabs /\ GoodDb(db)
  BY DEF PageInv, TypeInv
<1>2. details' \in DetailsType /\ agents' \in AgentsType /\ GoodTasks(tasks') /\ url' = u /\ tab' \in PageTabs
  BY <1>1, RenderIs
<1>3. TypeInv'
  BY <1>1, <1>2 DEF TypeInv, GoodDb, GoodTasks
<1>4. SpinInv'
  BY <1>1, RenderSpins DEF SpinInv
<1>5. CalmInv'
  <2>1. ASSUME ~hasty', ~failed' PROVE Calm(db, tab', url', details', agents', tasks')
    BY <1>1, <2>1, RenderCalm
  <2>2. QED
    BY <2>1 DEF CalmInv
<1>6. QED
  BY <1>3, <1>4, <1>5 DEF PageInv

-----------------------------------------------------------------------------
(* Clicks.                                                                 *)

\* A patient user clicks when no handler runs.
LEMMA PatientClick ==
    ASSUME PageInv, ~hasty', ~failed, hasty' = (hasty \/ Busy)
    PROVE  Calm(db, tab, url, details, agents, tasks) /\ \A k \in Slots : tasks[k] = Idle
<1>1. ~hasty /\ \A k \in Slots : tasks[k].at = "idle"
  BY DEF Busy, Running
<1>2. QED
  BY <1>1, IdleIs DEF PageInv, CalmInv, TypeInv, GoodTasks

\* What is shown while no handler runs.
ShownNow(t, u, s, p) ==
    /\ t = "details" => /\ s.topics = db.topics
                        /\ s.selected = None \/ s.selected.id \in DOMAIN db.topics
                        /\ u.id \in DOMAIN db.topics => s.selected = Found(db.topics, u.id)
    /\ t = "agents" /\ u.id \in DOMAIN db.topics => p.assigned = AgentsIn(db, u.id)

\* While no handler runs, the page is calm when what is shown is so.
LEMMA QuietIs ==
    ASSUME NEW t, NEW u, NEW s, NEW p, NEW ts, \A k \in Slots : ts[k].at = "idle" /\ DOMAIN ts[k].got = {}
    PROVE  /\ Single(t, u, ts) /\ AnswersHold(db, ts) /\ \A k \in Slots : Aside(db, u, ts[k])
           /\ Calm(db, t, u, s, p, ts) => ShownNow(t, u, s, p)
           /\ ListHolds(db, t, s, ts) <=> (t = "details" => s.topics = db.topics)
           /\ ExistsStill(db, t, s, ts) <=>
                (t = "details" => s.selected = None \/ s.selected.id \in DOMAIN db.topics)
           /\ ShownNow(t, u, s, p) => SelectedHolds(db, t, u, s, ts) /\ CardsHold(db, t, u, p, ts)
<1>1. /\ Single(t, u, ts) /\ AnswersHold(db, ts) /\ \A k \in Slots : Aside(db, u, ts[k])
  BY DEF Single, AnswersHold, Aside
<1>2. ListHolds(db, t, s, ts) <=> (t = "details" => s.topics = db.topics)
  BY DEF ListHolds, Written
<1>3. ExistsStill(db, t, s, ts) <=> (t = "details" => s.selected = None \/ s.selected.id \in DOMAIN db.topics)
  BY DEF ExistsStill, Written
<1>4. SelectedHolds(db, t, u, s, ts) <=>
        (t = "details" /\ u.id \in DOMAIN db.topics => s.selected = Found(db.topics, u.id))
  BY DEF SelectedHolds, Written
<1>5. CardsHold(db, t, u, p, ts) <=>
        (t = "agents" /\ u.id \in DOMAIN db.topics => p.assigned = AgentsIn(db, u.id))
  BY DEF CardsHold, Written
<1>6. QED
  BY <1>1, <1>2, <1>3, <1>4, <1>5 DEF Calm, ShownNow

\* A click that sends nothing but what rendering fetches.
LEMMA ClickKeeps ==
    ASSUME PageInv, NEW d \in DetailsType, NEW p \in AgentsType, NEW u \in Urls, Render(d, p, u, tasks),
           hasty' = (hasty \/ Busy), UNCHANGED <<db, failed>>,
           d.loading => details.loading, p.loading => agents.loading,
           ShownNow(tab, url, details, agents) /\ url.id \in db.given \cup {None} =>
              /\ u.id \in db.given \cup {None}
              /\ \/ Moves(u)
                 \/ /\ tab = "details" => /\ d.topics = db.topics
                                          /\ d.selected = None \/ d.selected.id \in DOMAIN db.topics
                    /\ Reloads(u) \/ ShownNow(tab, u, d, p)
    PROVE  PageInv'
<1>1. GoodTasks(tasks) /\ Spins(tab, d, p, tasks)
  BY DEF PageInv, TypeInv, SpinInv, Spins
<1>2. ASSUME ~hasty', ~failed PROVE Ready(d, p, u, tasks)
  <2>1. Calm(db, tab, url, details, agents, tasks) /\ \A k \in Slots : tasks[k] = Idle
    BY <1>2, PatientClick
  <2>2. \A k \in Slots : tasks[k].at = "idle" /\ DOMAIN tasks[k].got = {}
    BY <2>1, IdleIs
  <2>3. ShownNow(tab, url, details, agents) /\ url.id \in db.given \cup {None}
    BY <2>1, <2>2, QuietIs DEF Calm
  <2>4. CASE Moves(u)
    BY <2>2, <2>3, <2>4 DEF Ready
  <2>5. CASE ~Moves(u)
    <3>1. Single(tab, u, tasks) /\ AnswersHold(db, tasks) /\ \A k \in Slots : Aside(db, u, tasks[k])
      BY <2>2, QuietIs
    <3>2. ListHolds(db, tab, d, tasks) /\ ExistsStill(db, tab, d, tasks)
      BY <2>2, <2>3, <2>5, QuietIs
    <3>3. Reloads(u) \/ (SelectedHolds(db, tab, u, d, tasks) /\ CardsHold(db, tab, u, p, tasks))
      BY <2>2, <2>3, <2>5, QuietIs
    <3>4. QED
      BY <2>2, <2>3, <2>5, <3>1, <3>2, <3>3 DEF Ready
  <2>6. QED
    BY <2>4, <2>5
<1>3. QED
  BY <1>1, <1>2, RenderKeeps

\* A click that begins a handler of the open tab.
LEMMA WriterKeeps ==
    ASSUME PageInv, NEW p \in AgentsType, p.assigned = agents.assigned, HasRoom(tasks),
           NEW at, NEW arg, NEW q, Asks(at, arg, q), Render(details, p, url, Begin(tasks, Task(at, arg, q))),
           hasty' = (hasty \/ Busy), UNCHANGED <<db, failed>>,
           at \in PlacesOf(tab), at # "fetch", arg.id = url.id,
           p.loading => agents.loading \/ at \in AgentsPlaces,
           ShownNow(tab, url, details, agents) /\ at = "save" /\ (\E x \in Texts : createTopic(x) \in q) =>
              url.id \notin DOMAIN db.topics
    PROVE  PageInv'
<1> DEFINE t == Task(at, arg, q)
           ts == Begin(tasks, t)
<1>1. /\ t = Handler(at, arg, q, TRUE) /\ t.at = at /\ t.arg = arg /\ t.live /\ t.sent = q
      /\ t.got = <<>> /\ DOMAIN <<>> = {}
  BY DEF Task, Handler
<1>2. GoodTask(t) /\ at # "idle"
  <2>1. GoodTask(Handler(at, arg, q, TRUE))
    BY NewTask
  <2>2. at # "idle"
    BY AsksIs
  <2>3. QED
    BY <1>1, <2>1, <2>2, Zenon
<1>3. GoodTasks(tasks) /\ url \in Urls /\ DOMAIN tasks = Slots /\ details \in DetailsType
  BY DEF PageInv, TypeInv, GoodTasks
<1> HIDE DEF t
<1>4. PICK i \in Slots : /\ tasks[i].at = "idle"
                         /\ DOMAIN ts = Slots
                         /\ \A k \in Slots : ts[k] = IF k = i THEN t ELSE tasks[k]
  BY <1>3, BeginIs
<1>5. Render(details, p, url, ts)
  BY DEF t
<1> HIDE DEF ts
<1>6. GoodTasks(ts)
  BY <1>2, <1>3, <1>4 DEF GoodTasks
<1>7. Spins(tab, details, p, ts)
  <2>1. ASSUME NEW places, "idle" \notin places, Turns(tasks, places) PROVE Turns(ts, places)
    BY <1>4, <2>1 DEF Turns
  <2>2. ASSUME NEW places, at \in places PROVE Turns(ts, places)
    <3>1. ts[i].at \in places /\ ts[i].live
      BY <1>1, <1>4, <2>2
    <3>2. QED
      BY <3>1 DEF Turns
  <2>3. /\ tab = "details" /\ details.loading => Turns(tasks, {"fetch"})
        /\ tab = "agents" /\ agents.loading => Turns(tasks, AgentsPlaces)
    BY DEF PageInv, SpinInv, Spins
  <2>4. "idle" \notin {"fetch"} /\ "idle" \notin AgentsPlaces
    BY DEF AgentsPlaces
  <2>5. tab = "details" /\ details.loading => Turns(ts, {"fetch"})
    BY <2>1, <2>3, <2>4
  <2>6. tab = "agents" /\ p.loading => Turns(ts, AgentsPlaces)
    BY <2>1, <2>2, <2>3, <2>4
  <2>7. QED
    BY <2>5, <2>6 DEF Spins
<1>8. ASSUME ~hasty', ~failed PROVE Ready(details, p, url, ts)
  <2>1. Calm(db, tab, url, details, agents, tasks) /\ \A k \in Slots : tasks[k] = Idle
    BY <1>8, PatientClick
  <2>2. \A k \in Slots : tasks[k].at = "idle" /\ DOMAIN tasks[k].got = {}
    BY <2>1, IdleIs
  <2>3. ShownNow(tab, url, details, agents)
    BY <2>1, <2>2, QuietIs
  <2>4. \A k \in Slots : k # i => ts[k].at = "idle" /\ DOMAIN ts[k].got = {}
    BY <1>4, <2>2
  <2>5. ts[i] = t
    BY <1>4
  <2>6. Single(tab, url, ts) /\ AnswersHold(db, ts)
    BY <1>1, <2>4, <2>5 DEF Single, AnswersHold
  <2>7. \A k \in Slots : Aside(db, url, ts[k])
    <3>1. Aside(db, url, t)
      BY <1>1, <2>3 DEF Aside
    <3>2. \A k \in Slots : k # i => Aside(db, url, ts[k])
      BY <2>4 DEF Aside
    <3>3. QED
      BY <2>5, <3>1, <3>2
  <2>8. /\ ListHolds(db, tab, details, ts) /\ ExistsStill(db, tab, details, ts)
        /\ SelectedHolds(db, tab, url, details, ts) /\ CardsHold(db, tab, url, p, ts)
    BY <2>3 DEF ShownNow, ListHolds, ExistsStill, SelectedHolds, CardsHold
  <2>9. ~Moves(url) /\ ~Reloads(url) /\ url.id \in db.given \cup {None}
    BY <2>1 DEF Calm, Moves, Reloads
  <2>10. QED
    BY <2>6, <2>7, <2>8, <2>9 DEF Ready
<1>9. QED
  BY <1>3, <1>5, <1>6, <1>7, <1>8, RenderKeeps

\* Another tab, or another entry of the page.
LEMMA GoesKeeps ==
    ASSUME PageInv, NEW u \in Urls, u.id \in db.given \cup {None} \/ u.id = url.id,
           Render(details, agents, u, tasks), hasty' = (hasty \/ Busy), UNCHANGED <<db, failed>>
    PROVE  PageInv'
<1>1. details \in DetailsType /\ agents \in AgentsType
  BY DEF PageInv, TypeInv
<1>2. ASSUME ShownNow(tab, url, details, agents), ~Reloads(u) PROVE ShownNow(tab, u, details, agents)
  BY <1>2 DEF Reloads, ShownNow
<1>3. ShownNow(tab, url, details, agents) /\ tab = "details" =>
        /\ details.topics = db.topics
        /\ details.selected = None \/ details.selected.id \in DOMAIN db.topics
  BY DEF ShownNow
<1>4. QED
  BY <1>1, <1>2, <1>3, ClickKeeps

\* Selecting a topic.
LEMMA SelectKeeps ==
    ASSUME PageInv, NEW t \in Topics, handleSelectTopic(t)
    PROVE  PageInv'
<1> DEFINE x == [id |-> t, text |-> details.topics[t]]
           d == [details EXCEPT !.selected = x]
           u == [id |-> t, tab |-> None]
<1>1. /\ Render(d, agents, u, tasks) /\ hasty' = (hasty \/ Busy) /\ UNCHANGED <<db, failed>>
      /\ t \in DOMAIN details.topics
  BY DEF handleSelectTopic, ClickOn, Listed
<1>2. details \in DetailsType /\ agents \in AgentsType
  BY DEF PageInv, TypeInv
<1>3. x \in Records
  <2>1. details.topics[t] \in Texts
    BY <1>1, <1>2, PartialIs DEF DetailsType
  <2>2. QED
    BY <2>1 DEF Records
<1>4. u \in Urls /\ u.id = t /\ ~Moves(u)
  BY DEF Urls, Ids, Moves
<1>5. x = Found(details.topics, t) /\ x.id = t
  BY DEF Found
<1> HIDE DEF x
<1>6. d \in DetailsType /\ d.selected = x /\ d.topics = details.topics /\ d.loading = details.loading
  BY <1>2, <1>3 DEF DetailsType
<1>7. ASSUME ShownNow(tab, url, details, agents), tab = "details"
      PROVE  /\ d.topics = db.topics /\ d.selected = Found(db.topics, t)
             /\ d.selected.id \in DOMAIN db.topics /\ t \in db.given
  <2>1. DOMAIN db.topics \subseteq db.given
    BY DEF PageInv, TypeInv, GoodDb
  <2>2. QED
    BY <1>1, <1>5, <1>6, <1>7, <2>1 DEF ShownNow
<1>8. tab = "details"
  BY DEF handleSelectTopic, ClickOn
<1> HIDE DEF d, u
<1>9. ASSUME ShownNow(tab, url, details, agents) PROVE ShownNow(tab, u, d, agents)
  BY <1>4, <1>7, <1>8, <1>9 DEF ShownNow
<1>10. QED
  BY <1>1, <1>2, <1>4, <1>6, <1>7, <1>8, <1>9, ClickKeeps

\* The other clicks on the list and the form that send nothing.
LEMMA FormKeeps ==
    ASSUME PageInv, handleAddTopic \/ handleEditTopic \/ TypeText \/ CancelForm \/ handleDeleteClick \/ CancelDelete
    PROVE  PageInv'
<1>1. details \in DetailsType /\ agents \in AgentsType /\ url \in Urls
  BY DEF PageInv, TypeInv
<1>2. tab = "details" /\ hasty' = (hasty \/ Busy) /\ UNCHANGED <<db, failed>>
  BY DEF handleAddTopic, handleEditTopic, TypeText, CancelForm, handleDeleteClick, CancelDelete, ClickOn
<1>3. CASE handleAddTopic
  <2> DEFINE d == [details EXCEPT !.selected = None, !.form = IF @ = None THEN [text |-> Blank] ELSE @]
             u == [id |-> None, tab |-> None]
  <2>1. Render(d, agents, u, tasks)
    BY <1>3 DEF handleAddTopic
  <2>2. PICK f : f = IF details.form = None THEN [text |-> Blank] ELSE details.form
    OBVIOUS
  <2>3. f \in [text : Texts \cup {Blank}] \cup {None}
    BY <1>1, <2>2 DEF DetailsType
  <2>4. d = [details EXCEPT !.selected = None, !.form = f]
    BY <1>1, <2>2 DEF DetailsType
  <2>5. u \in Urls /\ u.id = None /\ ~Moves(u)
    BY DEF Urls, Ids, Moves
  <2> HIDE DEF d, u
  <2>6. d \in DetailsType /\ d.selected = None /\ d.topics = details.topics /\ d.loading = details.loading
    BY <1>1, <2>3, <2>4 DEF DetailsType
  <2>7. None \notin DOMAIN db.topics
    BY TopicsAssumption, PartialIs DEF PageInv, TypeInv, GoodDb
  <2>8. ASSUME ShownNow(tab, url, details, agents) PROVE ShownNow(tab, u, d, agents)
    BY <1>2, <2>5, <2>6, <2>7, <2>8 DEF ShownNow
  <2>9. QED
    BY <1>1, <1>2, <2>1, <2>5, <2>6, <2>8, ClickKeeps DEF ShownNow
<1>4. CASE ~handleAddTopic
  <2>1. PICK d : /\ Render(d, agents, url, tasks) /\ d \in DetailsType
                 /\ d.selected = details.selected /\ d.topics = details.topics /\ d.loading = details.loading
    <3>1. CASE handleEditTopic
      <4> DEFINE f == [text |-> details.selected.text]
                 d == [details EXCEPT !.form = f]
      <4>1. Render(d, agents, url, tasks) /\ details.selected # None
        BY <3>1 DEF handleEditTopic
      <4>2. details.selected \in Records
        BY <1>1, <4>1 DEF DetailsType
      <4>3. f \in [text : Texts \cup {Blank}]
        BY <4>2 DEF Records
      <4> HIDE DEF f
      <4>4. /\ d \in DetailsType
            /\ d.selected = details.selected /\ d.topics = details.topics /\ d.loading = details.loading
        BY <1>1, <4>3 DEF DetailsType
      <4>5. QED
        BY <4>1, <4>4
    <3>2. CASE TypeText
      <4>1. details.form \in [text : Texts \cup {Blank}]
        BY <1>1, <3>2 DEF TypeText, FormOpen, DetailsType
      <4>2. PICK f : f = [details.form EXCEPT !.text = Typed]
        OBVIOUS
      <4>3. f \in [text : Texts \cup {Blank}]
        BY <4>1, <4>2 DEF Texts
      <4>4. Render([details EXCEPT !.form.text = Typed], agents, url, tasks)
        BY <3>2 DEF TypeText
      <4>5. [details EXCEPT !.form.text = Typed] = [details EXCEPT !.form = f]
        BY <1>1, <4>2 DEF DetailsType
      <4>6. PICK d : d = [details EXCEPT !.form = f]
        OBVIOUS
      <4>7. /\ d \in DetailsType
            /\ d.selected = details.selected /\ d.topics = details.topics /\ d.loading = details.loading
        BY <1>1, <4>3, <4>6 DEF DetailsType
      <4>8. QED
        BY <4>4, <4>5, <4>6, <4>7
    <3>3. CASE CancelForm
      <4>1. PICK d : d = [details EXCEPT !.form = None] /\ Render(d, agents, url, tasks)
        BY <3>3 DEF CancelForm
      <4>2. /\ d \in DetailsType
            /\ d.selected = details.selected /\ d.topics = details.topics /\ d.loading = details.loading
        BY <1>1, <4>1 DEF DetailsType
      <4>3. QED
        BY <4>1, <4>2
    <3>4. CASE handleDeleteClick
      <4>1. PICK x, d : /\ x = details.selected.id /\ d = [details EXCEPT !.toDelete = x, !.confirm = TRUE]
                        /\ Render(d, agents, url, tasks) /\ details.selected # None
        BY <3>4 DEF handleDeleteClick
      <4>2. x \in Topics
        BY <1>1, <4>1 DEF DetailsType, Records
      <4>3. /\ d \in DetailsType
            /\ d.selected = details.selected /\ d.topics = details.topics /\ d.loading = details.loading
        BY <1>1, <4>1, <4>2 DEF DetailsType, Ids
      <4>4. QED
        BY <4>1, <4>3
    <3>5. CASE CancelDelete
      <4>1. PICK d : d = [details EXCEPT !.confirm = FALSE] /\ Render(d, agents, url, tasks)
        BY <3>5 DEF CancelDelete
      <4>2. /\ d \in DetailsType
            /\ d.selected = details.selected /\ d.topics = details.topics /\ d.loading = details.loading
        BY <1>1, <4>1 DEF DetailsType
      <4>3. QED
        BY <4>1, <4>2
    <3>6. QED
      BY <1>4, <3>1, <3>2, <3>3, <3>4, <3>5
  <2>2. ASSUME ShownNow(tab, url, details, agents) PROVE ShownNow(tab, url, d, agents)
    BY <2>1, <2>2 DEF ShownNow
  <2>3. QED
    BY <1>1, <1>2, <2>1, <2>2, ClickKeeps DEF ShownNow
<1>5. QED
  BY <1>3, <1>4

\* Saving a topic, confirming that one is deleted, and giving the topic to an agent or not.
LEMMA SaveKeeps ==
    ASSUME PageInv, handleSaveTopic
    PROVE  PageInv'
<1> DEFINE update == details.selected # None
           request == IF update THEN updateTopic(details.selected.id, details.form.text)
                      ELSE createTopic(details.form.text)
           arg == [id |-> url.id]
<1>1. /\ tab = "details" /\ HasRoom(tasks) /\ hasty' = (hasty \/ Busy) /\ UNCHANGED <<db, failed>>
      /\ details.form # None /\ details.form.text # Blank
      /\ Render(details, agents, url, Begin(tasks, Task("save", arg, {request})))
  BY DEF handleSaveTopic, ClickOn, FormOpen
<1>2. details \in DetailsType /\ agents \in AgentsType /\ url \in Urls
  BY DEF PageInv, TypeInv
<1>3. details.form.text \in Texts /\ details.selected \in Records \cup {None}
  BY <1>1, <1>2 DEF DetailsType
<1>4. arg \in [id : Ids] /\ arg.id = url.id
  BY <1>2 DEF Urls
<1>5. \E x \in Texts : request = createTopic(x) \/ \E t \in Topics : request = updateTopic(t, x)
  <2>1. update => details.selected.id \in Topics
    BY <1>3 DEF Records
  <2>2. QED
    BY <1>3, <2>1
<1>6. ASSUME ShownNow(tab, url, details, agents), \E x \in Texts : createTopic(x) \in {request}
      PROVE  url.id \notin DOMAIN db.topics
  <2>1. \A x, y, t : createTopic(x) # updateTopic(t, y)
    BY DEF createTopic, updateTopic
  <2>2. details.selected = None
    BY <1>6, <2>1
  <2>3. \A t \in DOMAIN db.topics : Found(db.topics, t) # None
    <3>1. \A t \in DOMAIN db.topics : t \in Topics /\ db.topics[t] \in Texts
      BY PartialIs DEF PageInv, TypeInv, GoodDb
    <3>2. QED
      BY <3>1, TopicsAssumption DEF Found, Texts
  <2>4. QED
    BY <1>1, <1>6, <2>2, <2>3 DEF ShownNow
<1> HIDE DEF request, arg
<1>7. Asks("save", arg, {request})
  BY <1>4, <1>5 DEF Asks
<1>8. "save" \in PlacesOf(tab)
  BY <1>1 DEF PlacesOf, DetailsPlaces
<1>9. QED
  BY <1>1, <1>2, <1>4, <1>6, <1>7, <1>8, WriterKeeps

LEMMA DeleteKeeps ==
    ASSUME PageInv, handleDeleteTopic
    PROVE  PageInv'
<1> DEFINE arg == [id |-> url.id]
           q == {deleteTopic(details.toDelete)}
<1>1. /\ tab = "details" /\ HasRoom(tasks) /\ hasty' = (hasty \/ Busy) /\ UNCHANGED <<db, failed>>
      /\ details.toDelete # None
      /\ Render(details, agents, url, Begin(tasks, Task("delete", arg, q)))
  BY DEF handleDeleteTopic, ClickOn
<1>2. details \in DetailsType /\ agents \in AgentsType /\ url \in Urls
  BY DEF PageInv, TypeInv
<1>3. details.toDelete \in Topics
  BY <1>1, <1>2 DEF DetailsType, Ids
<1>4. arg \in [id : Ids] /\ arg.id = url.id
  BY <1>2 DEF Urls
<1> HIDE DEF arg
<1>5. Asks("delete", arg, q)
  BY <1>3, <1>4 DEF Asks
<1>6. "delete" \in PlacesOf(tab)
  BY <1>1 DEF PlacesOf, DetailsPlaces
<1> HIDE DEF q
<1>7. QED
  BY <1>1, <1>2, <1>4, <1>5, <1>6, WriterKeeps

LEMMA ToggleKeeps ==
    ASSUME PageInv, NEW a \in Agents, handleToggleAgent(a)
    PROVE  PageInv'
<1> DEFINE request == IF a \in agents.assigned THEN removeTopicFromAgent(a, url.id) ELSE addTopicToAgent(a, url.id)
           arg == [id |-> url.id]
           p == [agents EXCEPT !.loading = TRUE]
<1>1. /\ tab = "agents" /\ HasRoom(tasks) /\ hasty' = (hasty \/ Busy) /\ UNCHANGED <<db, failed>>
      /\ url.id # None
      /\ Render(details, p, url, Begin(tasks, Task("toggle", arg, {request})))
  BY DEF handleToggleAgent, ClickOn
<1>2. details \in DetailsType /\ agents \in AgentsType /\ url \in Urls
  BY DEF PageInv, TypeInv
<1>3. url.id \in Topics
  BY <1>1, <1>2 DEF Urls, Ids
<1>4. arg \in [id : Topics] /\ arg.id = url.id
  BY <1>3
<1>5. p \in AgentsType /\ p.assigned = agents.assigned
  BY <1>2 DEF AgentsType
<1>6. request \in {addTopicToAgent(a, url.id), removeTopicFromAgent(a, url.id)}
  OBVIOUS
<1> HIDE DEF request, arg, p
<1>7. Asks("toggle", arg, {request})
  BY <1>4, <1>6 DEF Asks
<1>8. "toggle" \in PlacesOf(tab) /\ "toggle" \in AgentsPlaces
  BY <1>1 DEF PlacesOf, AgentsPlaces
<1>9. QED
  BY <1>1, <1>2, <1>4, <1>5, <1>7, <1>8, WriterKeeps

\* Every click keeps the invariant.
LEMMA ClicksKeep ==
    ASSUME PageInv, ClickStep \/ \E u \in [id : db.given \cup {None}, tab : {None, "details", "agents"}] : Back(u)
    PROVE  PageInv'
<1>1. ASSUME NEW t \in {"details", "agents"}, handleTabChange(t) PROVE PageInv'
  <2>1. PICK u : u = [url EXCEPT !.tab = t]
    OBVIOUS
  <2>2. url \in Urls
    BY DEF PageInv, TypeInv
  <2>3. u \in Urls /\ u.id = url.id
    BY <2>1, <2>2 DEF Urls, PageTabs
  <2>4. Render(details, agents, u, tasks) /\ hasty' = (hasty \/ Busy) /\ UNCHANGED <<db, failed>>
    BY <1>1, <2>1 DEF handleTabChange
  <2>5. QED
    BY <2>3, <2>4, GoesKeeps
<1>2. ASSUME NEW u \in [id : db.given \cup {None}, tab : {None, "details", "agents"}], Back(u) PROVE PageInv'
  <2>1. db.given \subseteq Topics
    BY DEF PageInv, TypeInv, GoodDb
  <2>2. u \in Urls /\ u.id \in db.given \cup {None}
    BY <2>1 DEF Urls, Ids, PageTabs
  <2>3. QED
    BY <1>2, <2>2, GoesKeeps DEF Back
<1>3. QED
  BY <1>1, <1>2, SelectKeeps, FormKeeps, SaveKeeps, DeleteKeeps, ToggleKeeps DEF ClickStep

-----------------------------------------------------------------------------
(* Handlers after their awaits.                                            *)

\* What a user who waits may expect of a handler.
LEMMA PatientTask ==
    ASSUME Calm(db, tab, url, details, agents, tasks), NEW k \in Slots, tasks[k].at # "idle"
    PROVE  /\ tasks[k].live
           /\ tasks[k].at \in DetailsPlaces => tab = "details"
           /\ tasks[k].at \in AgentsPlaces => tab # "details"
           /\ tasks[k].at # "fetch" => tasks[k].arg.id = url.id
           /\ \A j \in Slots : j # k /\ tasks[j].at # "idle" => Plain(tasks[j]) /\ Plain(tasks[k])
           /\ \A r \in DOMAIN tasks[k].got : StillSo(db, r, tasks[k].got[r])
           /\ ~Threw(tasks[k]) /\ Aside(db, url, tasks[k]) /\ ~Moves(url) /\ ~Reloads(url)
<1>1. /\ tasks[k].at \in PlacesOf(tab) /\ tasks[k].live
      /\ tasks[k].at # "fetch" => tasks[k].arg.id = url.id
      /\ \A j \in Slots : j # k /\ tasks[j].at # "idle" => Plain(tasks[j]) /\ Plain(tasks[k])
  BY DEF Calm, Single
<1>2. /\ tasks[k].at \in DetailsPlaces => tab = "details"
      /\ tasks[k].at \in AgentsPlaces => tab # "details"
  BY <1>1 DEF PlacesOf, DetailsPlaces, AgentsPlaces
<1>3. \A r \in DOMAIN tasks[k].got : StillSo(db, r, tasks[k].got[r])
  BY DEF Calm, AnswersHold
<1>4. ~Threw(tasks[k])
  BY <1>3 DEF Threw, StillSo
<1>5. Aside(db, url, tasks[k]) /\ ~Moves(url) /\ ~Reloads(url)
  BY DEF Calm, Moves, Reloads
<1>6. QED
  BY <1>1, <1>2, <1>3, <1>4, <1>5

\* Handler k becomes t, and shows d, p and u.
LEMMA HandlerKeeps ==
    ASSUME PageInv, NEW k \in Slots, tasks[k].at # "idle", NEW t, GoodTask(t),
           NEW d \in DetailsType, NEW p \in AgentsType, NEW u \in Urls,
           NEW ts, ts = [tasks EXCEPT ![k] = t], Render(d, p, u, ts), Stay,
           d.loading => details.loading \/ (t.at = "fetch" /\ t.live),
           tasks[k].live /\ tasks[k].at = "fetch" => ~d.loading,
           p.loading => agents.loading,
           tasks[k].live /\ tasks[k].at \in AgentsPlaces =>
              ~p.loading \/ (t.at \in AgentsPlaces /\ t.live),
           Calm(db, tab, url, details, agents, tasks) => Ready(d, p, u, ts)
    PROVE  PageInv'
<1>1. GoodTasks(tasks) /\ ts[k] = t /\ \A j \in Slots : j # k => ts[j] = tasks[j]
  BY DEF PageInv, TypeInv, GoodTasks
<1>2. GoodTasks(ts)
  BY <1>1 DEF GoodTasks
<1>3. Spins(tab, d, p, ts)
  <2>1. ASSUME NEW places, Turns(tasks, places), ~(tasks[k].live /\ tasks[k].at \in places) PROVE Turns(ts, places)
    BY <1>1, <2>1 DEF Turns
  <2>2. \A places : t.at \in places /\ t.live => Turns(ts, places)
    BY <1>1 DEF Turns
  <2>3. Spins(tab, details, agents, tasks)
    BY DEF PageInv, SpinInv
  <2>4. tab = "details" /\ d.loading => Turns(ts, {"fetch"})
    <3>1. CASE t.at = "fetch" /\ t.live
      BY <2>2, <3>1
    <3>2. CASE ~(t.at = "fetch" /\ t.live)
      BY <2>1, <2>3, <3>2 DEF Spins
    <3>3. QED
      BY <3>1, <3>2
  <2>5. tab = "agents" /\ p.loading => Turns(ts, AgentsPlaces)
    <3>1. CASE t.at \in AgentsPlaces /\ t.live
      BY <2>2, <3>1
    <3>2. CASE ~(t.at \in AgentsPlaces /\ t.live)
      BY <2>1, <2>3, <3>2 DEF Spins
    <3>3. QED
      BY <3>1, <3>2
  <2>6. QED
    BY <2>4, <2>5 DEF Spins
<1>4. UNCHANGED <<db, failed, hasty>>
  BY DEF Stay, counters
<1>5. ASSUME ~hasty', ~failed PROVE Ready(d, p, u, ts)
  BY <1>4, <1>5 DEF PageInv, CalmInv
<1>6. QED
  BY <1>2, <1>3, <1>4, <1>5, RenderKeeps

\* Handler k ends, and shows d, p and u.
LEMMA HandlerEnds ==
    ASSUME PageInv, NEW k \in Slots, tasks[k].at # "idle",
           NEW d \in DetailsType, NEW p \in AgentsType, NEW u \in Urls,
           NEW ts, ts = [tasks EXCEPT ![k] = Idle], Render(d, p, u, ts), Stay,
           d.loading => details.loading, tasks[k].live /\ tasks[k].at = "fetch" => ~d.loading,
           p.loading => agents.loading, tasks[k].live /\ tasks[k].at \in AgentsPlaces => ~p.loading,
           Calm(db, tab, url, details, agents, tasks) => Ready(d, p, u, ts)
    PROVE  PageInv'
<1>1. GoodTask(Idle)
  BY IdleIs
<1>2. QED
  BY <1>1, HandlerKeeps

\* Where no other handler runs, a user who waits may rely on what is shown by t alone.
LEMMA AloneIs ==
    ASSUME Calm(db, tab, url, details, agents, tasks), GoodTasks(tasks), NEW k \in Slots,
           tasks[k].at # "idle", ~Plain(tasks[k]), NEW t, GoodTask(t), NEW ts, ts = [tasks EXCEPT ![k] = t],
           DOMAIN t.got = {}, t.at # "save",
           NEW u, u.id \in db.given \cup {None}, ~Moves(u),
           t.at # "idle" => t.live /\ t.at \in PlacesOf(tab),
           t.at \notin {"idle", "fetch"} => t.arg.id = u.id,
           t.at = "fetch" /\ t.arg.id # u.id => t.arg.id \notin DOMAIN db.topics,
           Reloads(u) /\ t.at # "idle" => tab = "details" /\ Plain(t),
           NEW d, NEW p,
           tab = "details" => /\ d.topics = db.topics \/ t.at = "fetch"
                              /\ \/ d.selected = None \/ d.selected.id \in DOMAIN db.topics
                                 \/ t.at = "fetch" /\ ~Plain(t)
                              /\ \/ Reloads(u) \/ u.id \notin DOMAIN db.topics
                                 \/ d.selected = Found(db.topics, u.id)
                                 \/ t.at = "fetch" /\ t.arg.id = u.id,
           tab = "agents" /\ ~Reloads(u) /\ u.id \in DOMAIN db.topics =>
              p.assigned = AgentsIn(db, u.id) \/ t.at = "refetch"
    PROVE  Ready(d, p, u, ts)
<1>1. ts[k] = t /\ \A j \in Slots : j # k => ts[j].at = "idle" /\ DOMAIN ts[j].got = {}
  BY PatientTask, IdleIs DEF GoodTasks
<1>2. Single(tab, u, ts)
  BY <1>1 DEF Single
<1>3. AnswersHold(db, ts)
  BY <1>1 DEF AnswersHold
<1>4. \A j \in Slots : Aside(db, u, ts[j])
  BY <1>1 DEF Aside
<1>5. ListHolds(db, tab, d, ts) /\ ExistsStill(db, tab, d, ts)
  BY <1>1 DEF ListHolds, ExistsStill
<1>6. ~Reloads(u) => SelectedHolds(db, tab, u, d, ts) /\ CardsHold(db, tab, u, p, ts)
  BY <1>1 DEF SelectedHolds, CardsHold
<1>7. Reloads(u) => \A j \in Slots : ts[j].at # "idle" => tab = "details" /\ Plain(ts[j])
  BY <1>1
<1>8. QED
  BY <1>2, <1>3, <1>4, <1>5, <1>6, <1>7 DEF Ready


\* fetchTopics with its answer: the list of the server, and the topic of the id it began with.
LEMMA FetchedIs ==
    ASSUME PageInv, NEW k \in Slots, tasks[k].at = "fetch", tasks[k].sent = {}
    PROVE  /\ Fetched(k) \in DetailsType /\ ~Fetched(k).loading /\ tasks[k].arg.id \in Ids
           /\ Calm(db, tab, url, details, agents, tasks) =>
                 /\ Fetched(k).topics = db.topics
                 /\ Fetched(k).selected = IF tasks[k].arg.id \in DOMAIN db.topics
                                          THEN Found(db.topics, tasks[k].arg.id) ELSE details.selected
<1>1. details \in DetailsType /\ GoodTask(tasks[k])
  BY DEF PageInv, TypeInv, GoodTasks
<1>2. /\ tasks[k].arg.id \in Ids /\ DOMAIN tasks[k].got = {getAllTopics}
      /\ ~Threw(tasks[k]) => Tells(getAllTopics, Data(tasks[k], getAllTopics))
  BY <1>1, Answers DEF Asks
<1>3. getAllTopics[1] = "getAllTopics"
  BY DEF getAllTopics
<1> DEFINE topics == Data(tasks[k], getAllTopics)
           x == tasks[k].arg.id
           s == IF x \in DOMAIN topics THEN Found(topics, x) ELSE details.selected
           e == [details EXCEPT !.loading = FALSE]
<1>4. Fetched(k) = IF Threw(tasks[k]) THEN e ELSE [e EXCEPT !.topics = topics, !.selected = s]
  BY <1>1 DEF Fetched, DetailsType
<1>5. e \in DetailsType /\ ~e.loading
  BY <1>1 DEF DetailsType
<1>6. ASSUME ~Threw(tasks[k]) PROVE s \in Records \cup {None} /\ topics \in Partial(Topics, Texts)
  <2>1. topics \in Partial(Topics, Texts)
    BY <1>2, <1>3, <1>6 DEF Tells
  <2>2. \A y \in DOMAIN topics : y \in Topics /\ topics[y] \in Texts
    BY <2>1, PartialIs
  <2>3. QED
    BY <1>1, <2>1, <2>2 DEF Found, Records, DetailsType
<1> HIDE DEF topics, s, e
<1>7. /\ Fetched(k) \in DetailsType /\ ~Fetched(k).loading
      /\ ~Threw(tasks[k]) => Fetched(k).topics = topics /\ Fetched(k).selected = s
  <2>1. CASE Threw(tasks[k])
    BY <1>4, <1>5, <2>1
  <2>2. CASE ~Threw(tasks[k])
    <3>1. PICK f : f = [e EXCEPT !.topics = topics, !.selected = s]
      OBVIOUS
    <3>2. f \in DetailsType /\ f.loading = e.loading /\ f.topics = topics /\ f.selected = s
      BY <1>5, <1>6, <2>2, <3>1 DEF DetailsType
    <3>3. Fetched(k) = f
      BY <1>4, <2>2, <3>1
    <3>4. QED
      BY <1>5, <3>2, <3>3
  <2>3. QED
    BY <2>1, <2>2
<1>8. ASSUME Calm(db, tab, url, details, agents, tasks) PROVE ~Threw(tasks[k]) /\ topics = db.topics
  <2>1. ~Threw(tasks[k]) /\ StillSo(db, getAllTopics, tasks[k].got[getAllTopics])
    BY <1>2, <1>8, PatientTask
  <2>2. QED
    BY <1>3, <2>1 DEF StillSo, Data, topics
<1>9. s = IF x \in DOMAIN topics THEN Found(topics, x) ELSE details.selected
  BY DEF s
<1>10. ASSUME Calm(db, tab, url, details, agents, tasks)
       PROVE  /\ Fetched(k).topics = db.topics
              /\ Fetched(k).selected = IF x \in DOMAIN db.topics THEN Found(db.topics, x) ELSE details.selected
  <2>1. ~Threw(tasks[k]) /\ topics = db.topics
    BY <1>8, <1>10
  <2>2. QED
    BY <1>7, <1>9, <2>1
<1>11. QED
  BY <1>2, <1>7, <1>10

\* What a handler that has gone shows is nothing.
LEMMA ShowIs ==
    ASSUME PageInv, NEW k \in Slots, NEW d \in DetailsType
    PROVE  /\ Show(k, d) \in DetailsType
           /\ tasks[k].live => Show(k, d) = d
           /\ ~tasks[k].live => Show(k, d) = details
  BY DEF PageInv, TypeInv, Show

LEMMA fetchTopicsKeeps ==
    ASSUME PageInv, NEW k \in Slots, fetchTopics(k)
    PROVE  PageInv'
<1>1. tasks[k].at = "fetch" /\ tasks[k].sent = {} /\ tasks[k].arg.then # "delete" /\ Stay
  BY DEF fetchTopics, At
<1>2. PICK d, ts : d = Show(k, Fetched(k)) /\ ts = [tasks EXCEPT ![k] = Idle] /\ Render(d, agents, url, ts)
  BY DEF fetchTopics, End
<1>3. details \in DetailsType /\ agents \in AgentsType /\ url \in Urls /\ GoodTasks(tasks)
  BY DEF PageInv, TypeInv
<1>4. /\ d \in DetailsType /\ (tasks[k].live => d = Fetched(k) /\ ~d.loading)
      /\ (~tasks[k].live => d = details)
  BY <1>1, <1>2, FetchedIs, ShowIs
<1>5. ts[k] = Idle /\ \A j \in Slots : j # k => ts[j] = tasks[j]
  BY <1>2, <1>3 DEF GoodTasks
<1>6. ASSUME Calm(db, tab, url, details, agents, tasks) PROVE Ready(d, agents, url, ts)
  <2>1. /\ tasks[k].live /\ tab = "details" /\ ~Moves(url) /\ ~Reloads(url) /\ Aside(db, url, tasks[k])
        /\ \A j \in Slots : j # k /\ tasks[j].at # "idle" => Plain(tasks[j])
    BY <1>1, <1>6, PatientTask DEF DetailsPlaces
  <2>2. Plain(tasks[k])
    <3>1. Asks(tasks[k].at, tasks[k].arg, DOMAIN tasks[k].got)
      BY <1>1, <1>3, Answers DEF GoodTasks
    <3>2. QED
      BY <1>1, <3>1 DEF Asks, Plain
  <2>3. /\ d.topics = db.topics
        /\ d.selected = IF tasks[k].arg.id \in DOMAIN db.topics
                        THEN Found(db.topics, tasks[k].arg.id) ELSE details.selected
    BY <1>1, <1>4, <1>6, <2>1, FetchedIs
  <2>4. \A j \in Slots : /\ ts[j].at # "idle" => j # k /\ ts[j] = tasks[j]
                         /\ DOMAIN ts[j].got # {} => j # k /\ ts[j] = tasks[j]
    BY <1>5, IdleIs
  <2>5. Single(tab, url, ts)
    <3>1. Single(tab, url, tasks)
      BY <1>6 DEF Calm
    <3>2. QED
      BY <2>4, <3>1 DEF Single
  <2>6. AnswersHold(db, ts)
    <3>1. ASSUME NEW j \in Slots, NEW r \in DOMAIN ts[j].got PROVE StillSo(db, r, ts[j].got[r])
      <4>1. ts[j] = tasks[j]
        BY <2>4
      <4>2. QED
        BY <1>6, <4>1 DEF Calm, AnswersHold
    <3>2. QED
      BY <3>1 DEF AnswersHold
  <2>7. \A j \in Slots : Aside(db, url, ts[j])
    <3>1. \A j \in Slots : Aside(db, url, tasks[j])
      BY <1>6 DEF Calm
    <3>2. QED
      BY <2>4, <3>1 DEF Aside
  <2>8. \A j \in Slots : /\ ~Written(tasks[j], {"save", "delete"}) /\ ~Written(tasks[j], {"delete"})
                         /\ ~Written(tasks[j], {"save"}) /\ ~(tasks[j].at = "fetch" /\ ~Plain(tasks[j]))
    <3>1. \A j \in Slots : tasks[j].at = "idle" \/ Plain(tasks[j])
      BY <2>1, <2>2
    <3>2. QED
      BY <3>1 DEF Written, Plain
  <2>9. ListHolds(db, tab, d, ts)
    BY <2>3 DEF ListHolds
  <2>10. ExistsStill(db, tab, d, ts)
    <3>1. details.selected = None \/ details.selected.id \in DOMAIN db.topics
      BY <1>6, <2>1, <2>8 DEF Calm, ExistsStill
    <3>2. \A x \in DOMAIN db.topics : Found(db.topics, x).id = x
      BY DEF Found
    <3>3. QED
      BY <2>3, <3>1, <3>2 DEF ExistsStill
  <2>11. SelectedHolds(db, tab, url, d, ts)
    <3>1. ASSUME url.id \in DOMAIN db.topics, tasks[k].arg.id # url.id
          PROVE  \/ d.selected = Found(db.topics, url.id)
                 \/ \E j \in Slots : ts[j].at = "fetch" /\ ts[j].arg.id = url.id
      <4>1. d.selected = details.selected
        BY <1>1, <2>1, <2>3, <3>1 DEF Aside
      <4>2. \/ details.selected = Found(db.topics, url.id)
            \/ \E j \in Slots : tasks[j].at = "fetch" /\ tasks[j].arg.id = url.id
        BY <1>6, <2>1, <2>8, <3>1 DEF Calm, SelectedHolds
      <4>3. QED
        BY <1>5, <3>1, <4>1, <4>2
    <3>2. ASSUME url.id \in DOMAIN db.topics, tasks[k].arg.id = url.id
          PROVE  d.selected = Found(db.topics, url.id)
      BY <2>3, <3>2
    <3>3. QED
      BY <3>1, <3>2 DEF SelectedHolds
  <2>12. CardsHold(db, tab, url, agents, ts) /\ url.id \in db.given \cup {None}
    BY <1>6, <2>1 DEF Calm, CardsHold
  <2>13. QED
    BY <2>1, <2>5, <2>6, <2>7, <2>9, <2>10, <2>11, <2>12 DEF Ready
<1>7. "fetch" \notin AgentsPlaces /\ "fetch" # "idle"
  BY DEF AgentsPlaces
<1>8. QED
  BY <1>1, <1>2, <1>3, <1>4, <1>6, <1>7, HandlerEnds

LEMMA DeletedKeeps ==
    ASSUME PageInv, NEW k \in Slots, Deleted(k)
    PROVE  PageInv'
<1>1. tasks[k].at = "fetch" /\ tasks[k].sent = {} /\ tasks[k].arg.then = "delete" /\ Stay
  BY DEF Deleted, At
<1>2. PICK f : f = [Fetched(k) EXCEPT !.confirm = FALSE, !.toDelete = None, !.selected = None]
  OBVIOUS
<1>3. PICK d, u, ts : /\ d = Show(k, f) /\ u = [id |-> None, tab |-> None] /\ ts = [tasks EXCEPT ![k] = Idle]
                      /\ Render(d, agents, u, ts)
  BY <1>2 DEF Deleted, End
<1>4. agents \in AgentsType /\ GoodTasks(tasks) /\ None \notin DOMAIN db.topics
  BY TopicsAssumption, PartialIs DEF PageInv, TypeInv, GoodDb
<1>5. f \in DetailsType /\ ~f.loading /\ f.selected = None /\ f.topics = Fetched(k).topics
  BY <1>1, <1>2, FetchedIs DEF DetailsType, Ids
<1>6. /\ d \in DetailsType /\ (tasks[k].live => d = f)
      /\ (~tasks[k].live => d = details)
  BY <1>3, <1>5, ShowIs
<1>7. u \in Urls /\ u.id = None /\ ~Moves(u)
  BY <1>3 DEF Urls, Ids, Moves
<1>8. ASSUME Calm(db, tab, url, details, agents, tasks) PROVE Ready(d, agents, u, ts)
  <2>1. tasks[k].live /\ tab = "details"
    BY <1>1, <1>8, PatientTask DEF DetailsPlaces
  <2>2. d.topics = db.topics /\ d.selected = None
    BY <1>1, <1>5, <1>6, <1>8, <2>1, FetchedIs
  <2>3. ~Plain(tasks[k]) /\ tasks[k].at # "idle"
    BY <1>1 DEF Plain
  <2>4. QED
    BY <1>3, <1>4, <1>7, <1>8, <2>1, <2>2, <2>3, IdleIs, AloneIs
<1>9. "fetch" \notin AgentsPlaces /\ "fetch" # "idle"
  BY DEF AgentsPlaces
<1>10. (d.loading => details.loading) /\ (tasks[k].live => ~d.loading)
  BY <1>5, <1>6
<1>11. QED
  BY <1>1, <1>3, <1>4, <1>6, <1>7, <1>8, <1>9, <1>10, HandlerEnds

\* A handler that ends and changes nothing, because its request failed.
LEMMA EndKeeps ==
    ASSUME PageInv, NEW k \in Slots, tasks[k].at \notin {"idle", "fetch"}, Threw(tasks[k]) \/ ~tasks[k].live, Stay,
           NEW p \in AgentsType, p.loading => agents.loading,
           tasks[k].live /\ tasks[k].at \in AgentsPlaces => ~p.loading,
           NEW u \in Urls, Render(details, p, u, End(tasks, k))
    PROVE  PageInv'
<1>1. details \in DetailsType
  BY DEF PageInv, TypeInv
<1>2. PICK ts : ts = [tasks EXCEPT ![k] = Idle] /\ Render(details, p, u, ts)
  BY DEF End
<1>3. ~Calm(db, tab, url, details, agents, tasks)
  BY PatientTask
<1>4. QED
  BY <1>1, <1>2, <1>3, HandlerEnds

\* fetchTopics, when a handler calls it.
LEMMA FetchTopicsIs ==
    ASSUME NEW arg \in [id : Ids, then : {"nothing", "delete"}], NEW live \in BOOLEAN,
           NEW t, t = Handler("fetch", arg, {getAllTopics}, live)
    PROVE  /\ GoodTask(t) /\ t.at = "fetch" /\ t.arg = arg /\ t.live = live /\ DOMAIN t.got = {}
           /\ Plain(t) <=> arg.then = "nothing"
<1>1. Asks("fetch", arg, {getAllTopics})
  BY DEF Asks
<1>2. GoodTask(t)
  BY <1>1, NewTask
<1>3. DOMAIN <<>> = {}
  OBVIOUS
<1>4. t.at = "fetch" /\ t.arg = arg /\ t.live = live /\ t.got = <<>>
  BY DEF Handler
<1>5. QED
  BY <1>2, <1>3, <1>4 DEF Plain

LEMMA DeleteAnsweredKeeps ==
    ASSUME PageInv, NEW k \in Slots, DeleteAnswered(k)
    PROVE  PageInv'
<1>1. tasks[k].at = "delete" /\ tasks[k].sent = {} /\ Stay
  BY DEF DeleteAnswered, At
<1>2. details \in DetailsType /\ agents \in AgentsType /\ url \in Urls /\ GoodTasks(tasks) /\ DOMAIN tasks = Slots
  BY DEF PageInv, TypeInv, GoodTasks
<1>3. "delete" \notin AgentsPlaces \cup {"idle", "fetch", "save"} /\ "delete" \in DetailsPlaces
  BY DEF AgentsPlaces, DetailsPlaces
<1>4. CASE Threw(tasks[k])
  <2>1. Render(details, agents, url, End(tasks, k))
    BY <1>4 DEF DeleteAnswered
  <2>2. QED
    BY <1>1, <1>2, <1>3, <1>4, <2>1, EndKeeps
<1>5. CASE ~Threw(tasks[k])
  <2>1. /\ tasks[k].arg.id \in Ids /\ tasks[k].live \in BOOLEAN
        /\ ~Plain(tasks[k])
    BY <1>1, <1>2, BusyIs DEF GoodTasks, Asks, Plain
  <2>2. PICK t, arg : /\ t = [FetchTopics(tasks[k].arg.id, "delete") EXCEPT !.live = tasks[k].live]
                      /\ arg = [id |-> tasks[k].arg.id, then |-> "delete"]
    OBVIOUS
  <2>3. /\ GoodTask(t) /\ t.at = "fetch" /\ t.arg.id = tasks[k].arg.id /\ t.live = tasks[k].live
        /\ DOMAIN t.got = {} /\ ~Plain(t)
    <3>1. t = Handler("fetch", arg, {getAllTopics}, tasks[k].live)
      BY <2>2 DEF FetchTopics, Task, Handler
    <3>2. arg \in [id : Ids, then : {"nothing", "delete"}] /\ arg.then # "nothing" /\ arg.id = tasks[k].arg.id
      BY <2>1, <2>2
    <3>3. QED
      BY <2>1, <3>1, <3>2, FetchTopicsIs
  <2>4. PICK e : e = [details EXCEPT !.loading = TRUE]
    OBVIOUS
  <2>5. PICK d, ts : /\ d = Show(k, e) /\ ts = [tasks EXCEPT ![k] = t]
                     /\ Render(d, agents, url, ts)
    BY <1>2, <1>5, <2>2, <2>4 DEF DeleteAnswered
  <2>6. e \in DetailsType
    BY <1>2, <2>4 DEF DetailsType
  <2>7. d \in DetailsType /\ (~tasks[k].live => d = details)
    BY <2>5, <2>6, ShowIs
  <2>8. ASSUME Calm(db, tab, url, details, agents, tasks) PROVE Ready(d, agents, url, ts)
    <3>1. tasks[k].live /\ tab = "details" /\ tasks[k].arg.id = url.id /\ ~Moves(url) /\ ~Reloads(url)
      BY <1>1, <1>3, <2>8, PatientTask
    <3>2. url.id \in db.given \cup {None} /\ t.at \in PlacesOf(tab)
      BY <2>3, <2>8, <3>1 DEF Calm, PlacesOf, DetailsPlaces
    <3>3. QED
      BY <1>1, <1>2, <1>3, <2>1, <2>3, <2>5, <2>8, <3>1, <3>2, AloneIs
  <2>9. /\ d.loading => details.loading \/ (t.at = "fetch" /\ t.live)
        /\ tasks[k].at # "fetch" /\ tasks[k].at \notin AgentsPlaces /\ tasks[k].at # "idle"
    BY <1>1, <1>3, <2>3, <2>7
  <2>10. QED
    BY <1>1, <1>2, <2>3, <2>5, <2>7, <2>8, <2>9, HandlerKeeps
<1>6. QED
  BY <1>4, <1>5

\* What the server has answered to Save.
LEMMA SavedIs ==
    ASSUME PageInv, NEW k \in Slots, tasks[k].at = "save", tasks[k].sent = {}, ~Threw(tasks[k]),
           NEW r \in DOMAIN tasks[k].got
    PROVE  /\ DOMAIN tasks[k].got = {r}
           /\ r[1] = "createTopic" =>
                 /\ Data(tasks[k], r) \in Records
                 /\ Calm(db, tab, url, details, agents, tasks) =>
                       /\ Data(tasks[k], r).id \in DOMAIN db.topics
                       /\ Data(tasks[k], r) = Found(db.topics, Data(tasks[k], r).id)
                       /\ url.id \notin DOMAIN db.topics
<1>1. GoodTask(tasks[k])
  BY DEF PageInv, TypeInv, GoodTasks
<1>2. /\ DOMAIN tasks[k].got = {r} /\ Tells(r, Data(tasks[k], r))
      /\ \E x \in Texts : r = createTopic(x) \/ \E t \in Topics : r = updateTopic(t, x)
  <2>1. Asks("save", tasks[k].arg, DOMAIN tasks[k].got) /\ Tells(r, Data(tasks[k], r))
    BY <1>1, Answers
  <2>2. PICK q : q = DOMAIN tasks[k].got
    OBVIOUS
  <2>3. \E x \in Texts : q = {createTopic(x)} \/ \E t \in Topics : q = {updateTopic(t, x)}
    BY <2>1, <2>2 DEF Asks
  <2>4. r \in q
    BY <2>2
  <2>5. q = {r} /\ \E x \in Texts : r = createTopic(x) \/ \E t \in Topics : r = updateTopic(t, x)
    BY <2>3, <2>4
  <2>6. QED
    BY <2>1, <2>2, <2>5
<1>3. ASSUME r[1] = "createTopic", Calm(db, tab, url, details, agents, tasks)
      PROVE  url.id \notin DOMAIN db.topics
  <2>1. \A t, x : updateTopic(t, x)[1] = "updateTopic"
    BY DEF updateTopic
  <2>2. \E x \in Texts : createTopic(x) \in DOMAIN tasks[k].got
    BY <1>2, <1>3, <2>1
  <2>3. Aside(db, url, tasks[k])
    BY <1>3, PatientTask
  <2>4. QED
    BY <2>2, <2>3 DEF Aside
<1>4. Calm(db, tab, url, details, agents, tasks) => StillSo(db, r, tasks[k].got[r])
  BY PatientTask
<1>5. QED
  BY <1>2, <1>3, <1>4 DEF Tells, StillSo, Data

LEMMA SaveAnsweredKeeps ==
    ASSUME PageInv, NEW k \in Slots, SaveAnswered(k)
    PROVE  PageInv'
<1>1. tasks[k].at = "save" /\ tasks[k].sent = {} /\ Stay
  BY DEF SaveAnswered, At
<1>2. details \in DetailsType /\ agents \in AgentsType /\ url \in Urls /\ GoodTasks(tasks) /\ DOMAIN tasks = Slots
  BY DEF PageInv, TypeInv, GoodTasks
<1>3. "save" \notin AgentsPlaces \cup {"idle", "fetch"} /\ "save" \in DetailsPlaces
  BY DEF AgentsPlaces, DetailsPlaces
<1>4. CASE Threw(tasks[k])
  <2>1. Render(details, agents, url, End(tasks, k))
    BY <1>4 DEF SaveAnswered
  <2>2. QED
    BY <1>1, <1>2, <1>3, <1>4, <2>1, EndKeeps
<1>5. CASE ~Threw(tasks[k])
  <2> DEFINE new(r) == Data(tasks[k], r)
             shown(r) == IF r[1] = "createTopic" THEN new(r) ELSE details.selected
             place(r) == IF r[1] = "createTopic" THEN [id |-> new(r).id, tab |-> None] ELSE url
  <2>1. PICK r \in DOMAIN tasks[k].got :
           Render(Show(k, [details EXCEPT !.form = None, !.loading = TRUE, !.selected = shown(r)]), agents, place(r),
                  IF tasks[k].live THEN [tasks EXCEPT ![k] = FetchTopics(@.arg.id, "nothing")] ELSE End(tasks, k))
    BY <1>2, <1>5 DEF SaveAnswered, DetailsType
  <2>2. PICK s, u, e : /\ s = shown(r) /\ u = place(r)
                       /\ e = [details EXCEPT !.form = None, !.loading = TRUE, !.selected = s]
    OBVIOUS
  <2>3. s \in Records \cup {None} /\ u \in Urls /\ e = [details EXCEPT !.form = None, !.loading = TRUE, !.selected = s]
    <3>1. r[1] = "createTopic" => new(r) \in Records
      BY <1>1, <1>5, SavedIs
    <3>2. QED
      BY <1>2, <2>2, <3>1 DEF DetailsType, Records, Urls, Ids
  <2>4. \/ s = details.selected /\ u = url
        \/ r[1] = "createTopic" /\ s = new(r) /\ u = [id |-> new(r).id, tab |-> None]
    BY <2>2
  <2>5. e \in DetailsType /\ e.selected = s
    <3>1. e = [topics |-> details.topics, selected |-> s, loading |-> TRUE, form |-> None,
               confirm |-> details.confirm, toDelete |-> details.toDelete]
      BY <1>2, <2>3 DEF DetailsType
    <3>2. /\ details.topics \in Partial(Topics, Texts) /\ details.confirm \in BOOLEAN /\ details.toDelete \in Ids
          /\ TRUE \in BOOLEAN /\ None \in [text : Texts \cup {Blank}] \cup {None}
      BY <1>2 DEF DetailsType
    <3>3. QED
      BY <2>3, <3>1, <3>2 DEF DetailsType
  <2>6. CASE ~tasks[k].live
    <3>1. Show(k, e) = details
      BY <2>5, <2>6, ShowIs
    <3>2. Render(details, agents, u, End(tasks, k))
      BY <2>1, <2>2, <2>6, <3>1
    <3>3. QED
      BY <1>1, <1>2, <1>3, <2>3, <2>6, <3>2, EndKeeps
  <2>7. CASE tasks[k].live
    <3>1. tasks[k].arg.id \in Ids /\ ~Plain(tasks[k])
      BY <1>1, <1>2, BusyIs DEF GoodTasks, Asks, Plain
    <3>2. PICK t, ts : /\ t = FetchTopics(tasks[k].arg.id, "nothing") /\ ts = [tasks EXCEPT ![k] = t]
                       /\ Render(e, agents, u, ts)
      <4>1. Show(k, e) = e
        BY <2>5, <2>7, ShowIs
      <4>2. Render(e, agents, u, [tasks EXCEPT ![k] = FetchTopics(tasks[k].arg.id, "nothing")])
        BY <1>2, <2>1, <2>2, <2>7, <4>1
      <4>3. QED
        BY <4>2
    <3>3. GoodTask(t) /\ t.at = "fetch" /\ t.arg.id = tasks[k].arg.id /\ t.live /\ DOMAIN t.got = {} /\ Plain(t)
      <4>1. PICK arg, live : arg = [id |-> tasks[k].arg.id, then |-> "nothing"] /\ live = TRUE
        OBVIOUS
      <4>2. t = Handler("fetch", arg, {getAllTopics}, live)
        BY <3>2, <4>1 DEF FetchTopics, Task, Handler
      <4>3. arg \in [id : Ids, then : {"nothing", "delete"}] /\ arg.then = "nothing" /\ arg.id = tasks[k].arg.id
        BY <3>1, <4>1
      <4>4. live \in BOOLEAN
        BY <4>1
      <4>5. /\ GoodTask(t) /\ t.at = "fetch" /\ t.arg = arg /\ t.live = live /\ DOMAIN t.got = {}
            /\ Plain(t) <=> arg.then = "nothing"
        BY <4>2, <4>3, <4>4, FetchTopicsIs
      <4>6. t.live
        BY <4>1, <4>5
      <4>7. QED
        BY <4>3, <4>5, <4>6
    <3>4. ASSUME Calm(db, tab, url, details, agents, tasks) PROVE Ready(e, agents, u, ts)
      <4>1. tab = "details" /\ tasks[k].arg.id = url.id /\ ~Moves(url) /\ ~Reloads(url)
        BY <1>1, <1>3, <3>4, PatientTask
      <4>2. url.id \in db.given \cup {None} /\ t.at \in PlacesOf(tab) /\ DOMAIN db.topics \subseteq db.given
        BY <3>3, <3>4, <4>1 DEF Calm, PlacesOf, DetailsPlaces, PageInv, TypeInv, GoodDb
      <4>3. details.selected = None \/ details.selected.id \in DOMAIN db.topics
        <5>1. \A j \in Slots : ~Written(tasks[j], {"delete"}) /\ ~(tasks[j].at = "fetch" /\ ~Plain(tasks[j]))
          <6>1. \A j \in Slots : j # k => tasks[j].at = "idle"
            BY <1>1, <1>3, <3>1, <3>4, PatientTask
          <6>2. QED
            BY <1>1, <6>1 DEF Written
        <5>2. QED
          BY <3>4, <4>1, <5>1 DEF Calm, ExistsStill
      <4>4. CASE s = details.selected /\ u = url
        BY <1>1, <1>2, <1>3, <2>5, <3>1, <3>2, <3>3, <3>4, <4>1, <4>2, <4>3, <4>4, AloneIs
      <4>5. CASE r[1] = "createTopic" /\ s = new(r) /\ u = [id |-> new(r).id, tab |-> None]
        <5>1. /\ s.id \in DOMAIN db.topics /\ s = Found(db.topics, s.id) /\ url.id \notin DOMAIN db.topics
              /\ u.id = s.id /\ u.tab = None
          BY <1>1, <1>5, <3>4, <4>5, SavedIs
        <5>2. ~Moves(u) /\ u.id \in db.given
          BY <4>2, <5>1 DEF Moves
        <5>3. QED
          BY <1>1, <1>2, <1>3, <2>5, <3>1, <3>2, <3>3, <3>4, <4>1, <4>2, <5>1, <5>2, AloneIs
      <4>6. QED
        BY <2>4, <4>4, <4>5
    <3>5. QED
      BY <1>1, <1>2, <1>3, <2>3, <2>5, <3>2, <3>3, <3>4, HandlerKeeps
  <2>8. QED
    BY <2>6, <2>7
<1>6. QED
  BY <1>4, <1>5

\* The agents of the topic in the URL, when they have been fetched.
LEMMA AssignedKeeps ==
    ASSUME PageInv, NEW k \in Slots, fetchData(k) \/ fetchAssignedAgents(k)
    PROVE  PageInv'
<1>1. tasks[k].at \in {"agents", "refetch"} /\ tasks[k].sent = {} /\ Stay
  BY DEF fetchData, fetchAssignedAgents, At
<1>2. details \in DetailsType /\ agents \in AgentsType /\ url \in Urls /\ GoodTasks(tasks) /\ GoodTask(tasks[k])
  BY DEF PageInv, TypeInv, GoodTasks
<1>3. PICK w, p, ts : /\ w = WithAssigned(k) /\ p = [w EXCEPT !.loading = FALSE] /\ ts = [tasks EXCEPT ![k] = Idle]
                      /\ Render(details, p, url, ts)
  BY DEF fetchData, fetchAssignedAgents, End
<1> DEFINE x == tasks[k].arg.id
           data == Data(tasks[k], getTopicAgents(x))
<1>4. Asks(tasks[k].at, tasks[k].arg, DOMAIN tasks[k].got) /\ tasks[k].at \notin {"idle", "fetch"}
      /\ (~Threw(tasks[k]) => \A r \in DOMAIN tasks[k].got : Tells(r, Data(tasks[k], r)))
  BY <1>1, <1>2, Answers
<1>5. x # None => DOMAIN tasks[k].got = {getTopicAgents(x)}
  BY <1>1, <1>4 DEF Asks
<1>6. getTopicAgents(x)[1] = "getTopicAgents" /\ getTopicAgents(x)[2] = x
  BY DEF getTopicAgents
<1>7. x # None /\ ~Threw(tasks[k]) => data \in SUBSET Agents
  BY <1>4, <1>5, <1>6 DEF Tells
<1>8. w = IF x = None \/ Threw(tasks[k]) THEN agents ELSE [agents EXCEPT !.assigned = data]
  BY <1>3 DEF WithAssigned
<1>9. p \in AgentsType /\ ~p.loading /\ (x # None /\ ~Threw(tasks[k]) => p.assigned = data)
  <2> HIDE DEF data
  <2>1. w \in AgentsType /\ (x # None /\ ~Threw(tasks[k]) => w.assigned = data)
    BY <1>2, <1>7, <1>8 DEF AgentsType
  <2>2. QED
    BY <1>3, <2>1 DEF AgentsType
<1>10. ASSUME Calm(db, tab, url, details, agents, tasks) PROVE Ready(details, p, url, ts)
  <2>1. /\ tab # "details" /\ x = url.id /\ ~Threw(tasks[k]) /\ ~Moves(url) /\ ~Reloads(url)
        /\ \A r \in DOMAIN tasks[k].got : StillSo(db, r, tasks[k].got[r])
    BY <1>1, <1>4, <1>10, PatientTask DEF AgentsPlaces
  <2>2. None \notin DOMAIN db.topics
    BY TopicsAssumption, PartialIs DEF PageInv, TypeInv, GoodDb
  <2>3. url.id \in DOMAIN db.topics => p.assigned = AgentsIn(db, url.id)
    <3>1. x # None => data = AgentsIn(db, x)
      BY <1>5, <1>6, <2>1 DEF StillSo, Data
    <3>2. QED
      BY <1>9, <2>1, <2>2, <3>1
  <2>4. ~Plain(tasks[k]) /\ url.id \in db.given \cup {None}
    BY <1>1, <1>10 DEF Plain, Calm
  <2>5. QED
    BY <1>2, <1>3, <1>4, <1>10, <2>1, <2>3, <2>4, IdleIs, AloneIs
<1>11. tasks[k].at # "idle" /\ tasks[k].at # "fetch"
  BY <1>4
<1>12. QED
  BY <1>1, <1>2, <1>3, <1>9, <1>10, <1>11, HandlerEnds

LEMMA ToggleAnsweredKeeps ==
    ASSUME PageInv, NEW k \in Slots, ToggleAnswered(k)
    PROVE  PageInv'
<1>1. tasks[k].at = "toggle" /\ tasks[k].sent = {} /\ Stay
  BY DEF ToggleAnswered, At
<1>2. details \in DetailsType /\ agents \in AgentsType /\ url \in Urls /\ GoodTasks(tasks)
  BY DEF PageInv, TypeInv, GoodTasks
<1>3. "toggle" \in AgentsPlaces /\ "toggle" \notin {"idle", "fetch", "save"}
  BY DEF AgentsPlaces
<1>4. CASE Threw(tasks[k]) \/ ~tasks[k].live
  <2>1. PICK p : /\ p = IF tasks[k].live THEN [agents EXCEPT !.loading = FALSE] ELSE agents
                 /\ Render(details, p, url, End(tasks, k))
    BY <1>4 DEF ToggleAnswered
  <2>2. p \in AgentsType /\ (p.loading => agents.loading) /\ (tasks[k].live => ~p.loading)
    BY <1>2, <2>1 DEF AgentsType
  <2>3. QED
    BY <1>1, <1>2, <1>3, <1>4, <2>1, <2>2, EndKeeps
<1>5. CASE ~Threw(tasks[k]) /\ tasks[k].live
  <2>1. tasks[k].arg \in [id : Topics]
    BY <1>1, <1>2, BusyIs DEF GoodTasks, Asks
  <2>2. PICK arg, q : arg = tasks[k].arg /\ q = {getTopicAgents(arg.id)}
    OBVIOUS
  <2>3. PICK t, ts : /\ t = Handler("refetch", arg, q, TRUE) /\ ts = [tasks EXCEPT ![k] = t]
                     /\ Render(details, agents, url, ts)
    <3>1. tasks[k].at # "idle"
      BY <1>1
    <3>2. Goto(tasks, k, "refetch", q) = [tasks EXCEPT ![k] = Handler("refetch", tasks[k].arg, q, tasks[k].live)]
      BY <1>2, <3>1, GoesOn, Zenon
    <3>3. tasks[k].live = TRUE
      BY <1>1, <1>2, <1>3, <1>5, BusyIs DEF GoodTasks
    <3>4. Render(details, agents, url, Goto(tasks, k, "refetch", q))
      BY <1>5, <2>2 DEF ToggleAnswered
    <3>5. Render(details, agents, url, [tasks EXCEPT ![k] = Handler("refetch", arg, q, TRUE)])
      BY <2>2, <3>2, <3>3, <3>4
    <3>6. QED
      BY <3>5
  <2>4. Asks("refetch", arg, q)
    BY <2>1, <2>2 DEF Asks
  <2>5. GoodTask(t)
    BY <2>3, <2>4, NewTask
  <2>6. DOMAIN <<>> = {}
    OBVIOUS
  <2>7. t.at = "refetch" /\ t.live /\ t.arg = tasks[k].arg /\ DOMAIN t.got = {} /\ "refetch" \in AgentsPlaces
    BY <2>2, <2>3, <2>6 DEF Handler, AgentsPlaces
  <2>8. ASSUME Calm(db, tab, url, details, agents, tasks) PROVE Ready(details, agents, url, ts)
    <3>1. tab # "details" /\ tasks[k].arg.id = url.id /\ ~Moves(url) /\ ~Reloads(url)
      BY <1>1, <1>3, <2>8, PatientTask
    <3>2. url.id \in db.given \cup {None} /\ t.at \in PlacesOf(tab) /\ ~Plain(tasks[k])
      BY <1>1, <2>7, <2>8, <3>1 DEF Calm, PlacesOf, Plain
    <3>3. QED
      BY <1>1, <1>2, <1>3, <2>3, <2>5, <2>7, <2>8, <3>1, <3>2, AloneIs
  <2>9. t.at \in AgentsPlaces /\ t.at # "fetch" /\ tasks[k].at # "fetch" /\ tasks[k].at # "idle"
    BY <1>1, <2>7
  <2>10. QED
    BY <1>1, <1>2, <2>3, <2>5, <2>7, <2>8, <2>9, HandlerKeeps
<1>6. QED
  BY <1>4, <1>5

\* Every handler keeps the invariant.
LEMMA HandlersKeep ==
    ASSUME PageInv, NEW k \in Slots, HandlerStep(k)
    PROVE  PageInv'
  BY fetchTopicsKeeps, DeletedKeeps, DeleteAnsweredKeeps, SaveAnsweredKeeps, AssignedKeeps, ToggleAnsweredKeeps
     DEF HandlerStep

-----------------------------------------------------------------------------
(* The server.                                                             *)

\* The requests that read, and those that write.
Reads(r) == r = getAllTopics \/ \E t : r = getTopicAgents(t)
Writes(at, arg, r) ==
    \/ at = "save" /\ \E x \in Texts : r = createTopic(x) \/ \E t \in Topics : r = updateTopic(t, x)
    \/ at = "delete" /\ \E t \in Topics : r = deleteTopic(t)
    \/ at = "toggle" /\ \E a \in Agents, t \in Topics : r = addTopicToAgent(a, t) \/ r = removeTopicFromAgent(a, t)

\* A handler that writes waits for nothing else.
LEMMA RequestIs ==
    ASSUME NEW at, NEW arg, NEW q, Asks(at, arg, q), NEW r \in q
    PROVE  Reads(r) \/ (Writes(at, arg, r) /\ q = {r})
<1>1. CASE at \in {"fetch", "agents", "refetch"}
  BY <1>1 DEF Asks, Reads
<1>2. CASE at = "save"
  BY <1>2 DEF Asks, Writes
<1>3. CASE at = "delete"
  BY <1>3 DEF Asks, Writes
<1>4. CASE at = "toggle"
  <2>1. arg.id \in Topics /\ \E a \in Agents : q \in {{addTopicToAgent(a, arg.id)}, {removeTopicFromAgent(a, arg.id)}}
    BY <1>4 DEF Asks
  <2>2. QED
    BY <1>4, <2>1 DEF Writes
<1>5. QED
  BY <1>1, <1>2, <1>3, <1>4, AsksIs DEF Places, DetailsPlaces, AgentsPlaces

\* The first word of each request.
LEMMA WordIs ==
    /\ getAllTopics[1] = "getAllTopics"
    /\ \A x : createTopic(x)[1] = "createTopic" /\ createTopic(x)[2] = x
    /\ \A t, x : updateTopic(t, x)[1] = "updateTopic" /\ updateTopic(t, x)[2] = t /\ updateTopic(t, x)[3] = x
    /\ \A t : deleteTopic(t)[1] = "deleteTopic" /\ deleteTopic(t)[2] = t
    /\ \A t : getTopicAgents(t)[1] = "getTopicAgents" /\ getTopicAgents(t)[2] = t
    /\ \A a, t : /\ addTopicToAgent(a, t)[1] = "addTopicToAgent" /\ addTopicToAgent(a, t)[2] = t
                 /\ addTopicToAgent(a, t)[3] = a
    /\ \A a, t : /\ removeTopicFromAgent(a, t)[1] = "removeTopicFromAgent" /\ removeTopicFromAgent(a, t)[2] = t
                 /\ removeTopicFromAgent(a, t)[3] = a
  BY DEF getAllTopics, createTopic, updateTopic, deleteTopic, getTopicAgents, addTopicToAgent, removeTopicFromAgent

\* What the server answers to a request that reads.
LEMMA AnswersAre ==
    ASSUME NEW r, Reads(r), GoodDb(db)
    PROVE  Effect(r) = db /\ Tells(r, Returns(r)) /\ StillSo(db, r, Ok(Returns(r)))
<1>1. \A data : Ok(data).ok /\ Ok(data).data = data
  BY DEF Ok
<1>2. CASE r = getAllTopics
  <2>1. r[1] = "getAllTopics"
    BY <1>2, WordIs
  <2>2. Effect(r) = db /\ Returns(r) = db.topics
    BY <2>1 DEF Effect, Returns
  <2>3. QED
    BY <1>1, <2>1, <2>2 DEF Tells, StillSo, GoodDb
<1>3. CASE \E t : r = getTopicAgents(t)
  <2>1. r[1] = "getTopicAgents"
    BY <1>3, WordIs
  <2>2. Effect(r) = db
    BY <2>1 DEF Effect
  <2>3. Returns(r) = AgentsIn(db, r[2])
    BY <2>1 DEF Returns, AgentsOf, AgentsIn
  <2>4. AgentsIn(db, r[2]) \in SUBSET Agents
    BY DEF AgentsIn
  <2>5. QED
    BY <1>1, <2>1, <2>2, <2>3, <2>4 DEF Tells, StillSo
<1>4. QED
  BY <1>2, <1>3 DEF Reads

\* What a request that writes does to the records.
HasId(r) == r[1] = "createTopic" => db.given # Topics
Done(at, r, d) ==
    /\ GoodDb(d) /\ Tells(r, Returns(r)) /\ StillSo(d, r, Ok(Returns(r)))
    /\ \/ /\ at = "save"
          /\ \E t \in Topics : /\ t \notin db.given /\ d.given = db.given \cup {t}
                               /\ DOMAIN d.topics = DOMAIN db.topics \cup {t}
       \/ at = "save" /\ d.given = db.given /\ DOMAIN d.topics = DOMAIN db.topics
       \/ /\ at = "delete" /\ d.given = db.given /\ DOMAIN d.topics \subseteq DOMAIN db.topics
          /\ \A t \in DOMAIN d.topics : d.topics[t] = db.topics[t]
       \/ at = "toggle" /\ d.given = db.given /\ d.topics = db.topics

\* The id of a new topic was never given before.
LEMMA GivenIs ==
    ASSUME GoodDb(db), db.given # Topics
    PROVE  NewId \in Topics \ db.given
<1>1. \E t \in Topics : t \notin db.given
  BY DEF GoodDb
<1>2. QED
  BY <1>1 DEF NewId

\* Records that have kept their shape.
LEMMA StaysGood ==
    ASSUME NEW topics \in Partial(Topics, Texts), NEW links \in SUBSET (Agents \X Topics), NEW given \in SUBSET Topics,
           DOMAIN topics \subseteq given, \A l \in links : l[2] \in DOMAIN topics,
           NEW d, d = [topics |-> topics, links |-> links, given |-> given]
    PROVE  GoodDb(d)
  BY DEF GoodDb

\* A topic is created.
LEMMA CreateIs ==
    ASSUME GoodDb(db), NEW x \in Texts, NEW r, r = createTopic(x), HasId(r), NEW d, d = Effect(r)
    PROVE  Done("save", r, d)
<1>1. r[1] = "createTopic" /\ r[2] = x
  BY WordIs
<1>2. PICK t \in Topics \ db.given : t = NewId
  BY <1>1, GivenIs DEF HasId
<1>3. PICK topics, given : topics = With(db.topics, t, x) /\ given = db.given \cup {t}
  OBVIOUS
<1>4. db \in [topics : Partial(Topics, Texts), links : SUBSET (Agents \X Topics), given : SUBSET Topics]
  BY DEF GoodDb
<1>5. d = [db EXCEPT !.topics = topics, !.given = given]
  BY <1>1, <1>2, <1>3, Zenon DEF Effect
<1>6. d = [topics |-> topics, links |-> db.links, given |-> given]
  BY <1>4, <1>5
<1>7. topics \in Partial(Topics, Texts)
  BY <1>2, <1>3, <1>4, PartialKept
<1>8. DOMAIN topics = DOMAIN db.topics \cup {t} /\ topics[t] = x
  BY <1>3 DEF With
<1>9. given \in SUBSET Topics /\ DOMAIN topics \subseteq given
  BY <1>2, <1>3, <1>4, <1>8 DEF GoodDb
<1>10. db.links \in SUBSET (Agents \X Topics) /\ \A l \in db.links : l[2] \in DOMAIN topics
  BY <1>4, <1>8 DEF GoodDb
<1>11. GoodDb(d)
  BY <1>6, <1>7, <1>9, <1>10, StaysGood
<1>12. d.topics = topics /\ d.given = given
  BY <1>6
<1>13. Tells(r, Returns(r)) /\ StillSo(d, r, Ok(Returns(r)))
  <2>1. Returns(r) = [id |-> t, text |-> x]
    BY <1>1, <1>2 DEF Returns
  <2>2. PICK new : new = [id |-> t, text |-> x]
    OBVIOUS
  <2>3. new \in Records /\ new = Found(topics, t) /\ new.id = t
    BY <1>2, <1>8, <2>2 DEF Records, Found
  <2>4. Ok(new).ok /\ Ok(new).data = new
    BY DEF Ok
  <2>5. Returns(r) = new
    BY <2>1, <2>2
  <2>6. Tells(r, new)
    BY <1>1, <2>3 DEF Tells
  <2>7. StillSo(d, r, Ok(new))
    BY <1>1, <1>8, <1>12, <2>3, <2>4 DEF StillSo
  <2>8. QED
    BY <2>5, <2>6, <2>7
<1>14. QED
  BY <1>2, <1>3, <1>8, <1>11, <1>12, <1>13 DEF Done

\* What is answered to a request that only changes records.
LEMMA NothingTold ==
    ASSUME NEW r, r[1] \notin {"getAllTopics", "createTopic", "getTopicAgents"}, NEW d
    PROVE  Tells(r, Returns(r)) /\ StillSo(d, r, Ok(Returns(r)))
<1>1. \A data : Ok(data).ok
  BY DEF Ok
<1>2. QED
  BY <1>1 DEF Tells, StillSo

\* A topic is changed.
LEMMA UpdateIs ==
    ASSUME GoodDb(db), NEW t, NEW x \in Texts, NEW r, r = updateTopic(t, x), Accepts(r), NEW d, d = Effect(r)
    PROVE  Done("save", r, d)
<1>1. r[1] = "updateTopic" /\ r[2] = t /\ r[3] = x
  BY WordIs
<1>2. t \in DOMAIN db.topics /\ t \in Topics
  BY <1>1, PartialIs DEF Accepts, Existing, GoodDb
<1>3. PICK topics : topics = [db.topics EXCEPT ![t] = x]
  OBVIOUS
<1>4. db \in [topics : Partial(Topics, Texts), links : SUBSET (Agents \X Topics), given : SUBSET Topics]
  BY DEF GoodDb
<1>5. d = [db EXCEPT !.topics = topics]
  BY <1>1, <1>3, Zenon DEF Effect
<1>6. d = [topics |-> topics, links |-> db.links, given |-> db.given]
  BY <1>4, <1>5
<1>7. topics \in Partial(Topics, Texts) /\ DOMAIN topics = DOMAIN db.topics
  BY <1>2, <1>3, <1>4, PartialKept
<1>8. /\ db.given \in SUBSET Topics /\ DOMAIN topics \subseteq db.given
      /\ db.links \in SUBSET (Agents \X Topics) /\ \A l \in db.links : l[2] \in DOMAIN topics
  BY <1>4, <1>7 DEF GoodDb
<1>9. GoodDb(d) /\ d.given = db.given /\ DOMAIN d.topics = DOMAIN db.topics
  BY <1>6, <1>7, <1>8, StaysGood
<1>10. QED
  BY <1>1, <1>9, NothingTold DEF Done

\* A topic that no agent has is deleted.
LEMMA DeleteIs ==
    ASSUME GoodDb(db), NEW t, NEW r, r = deleteTopic(t), Accepts(r), NEW d, d = Effect(r)
    PROVE  Done("delete", r, d)
<1>1. r[1] = "deleteTopic" /\ r[2] = t
  BY WordIs
<1>2. t \in DOMAIN db.topics /\ t \in Topics /\ AgentsOf(t) = {}
  BY <1>1, PartialIs DEF Accepts, Existing, GoodDb
<1>3. PICK topics : topics = [y \in DOMAIN db.topics \ {t} |-> db.topics[y]]
  OBVIOUS
<1>4. db \in [topics : Partial(Topics, Texts), links : SUBSET (Agents \X Topics), given : SUBSET Topics]
  BY DEF GoodDb
<1>5. d = [db EXCEPT !.topics = topics]
  BY <1>1, <1>3, Zenon DEF Effect, Existing
<1>6. d = [topics |-> topics, links |-> db.links, given |-> db.given]
  BY <1>4, <1>5
<1>7. topics \in Partial(Topics, Texts)
  <2>1. \E v : v \in Texts
    BY <1>2, PartialIs DEF GoodDb
  <2>2. QED
    BY <1>2, <1>3, <1>4, <2>1, PartialKept
<1>8. DOMAIN topics = DOMAIN db.topics \ {t} /\ \A y \in DOMAIN topics : topics[y] = db.topics[y]
  BY <1>3
<1>9. \A l \in db.links : l[2] \in DOMAIN topics
  <2> SUFFICES ASSUME NEW l \in db.links PROVE l[2] \in DOMAIN topics
    OBVIOUS
  <2>1. l \in Agents \X Topics /\ l = <<l[1], l[2]>> /\ l[1] \in Agents
    BY <1>4
  <2>2. l[2] # t
    BY <1>2, <2>1 DEF AgentsOf
  <2>3. QED
    BY <1>8, <2>2 DEF GoodDb
<1>10. db.given \in SUBSET Topics /\ DOMAIN topics \subseteq db.given /\ db.links \in SUBSET (Agents \X Topics)
  BY <1>4, <1>8 DEF GoodDb
<1>11. GoodDb(d) /\ d.given = db.given /\ d.topics = topics
  BY <1>6, <1>7, <1>9, <1>10, StaysGood
<1>12. QED
  BY <1>1, <1>8, <1>11, NothingTold DEF Done

\* A topic is given to an agent, or taken from it.
LEMMA LinkIs ==
    ASSUME GoodDb(db), NEW a \in Agents, NEW t \in Topics, NEW r,
           r = addTopicToAgent(a, t) \/ r = removeTopicFromAgent(a, t), Accepts(r), NEW d, d = Effect(r)
    PROVE  Done("toggle", r, d)
<1>1. r[1] \in {"addTopicToAgent", "removeTopicFromAgent"} /\ r[2] = t /\ r[3] = a
  BY WordIs
<1>2. db \in [topics : Partial(Topics, Texts), links : SUBSET (Agents \X Topics), given : SUBSET Topics]
  BY DEF GoodDb
<1>3. PICK links : d = [db EXCEPT !.links = links] /\ links \in {db.links \cup {<<a, t>>}, db.links \ {<<a, t>>}}
                   /\ (links = db.links \cup {<<a, t>>} => t \in DOMAIN db.topics \/ <<a, t>> \in db.links)
  <2>1. CASE r[1] = "addTopicToAgent"
    <3>1. d = [db EXCEPT !.links = db.links \cup {<<a, t>>}]
      BY <1>1, <2>1, Zenon DEF Effect
    <3>2. t \in DOMAIN db.topics
      BY <1>1, <2>1 DEF Accepts, Existing
    <3>3. QED
      BY <3>1, <3>2
  <2>2. CASE r[1] = "removeTopicFromAgent"
    <3>1. d = [db EXCEPT !.links = db.links \ {<<a, t>>}]
      BY <1>1, <2>2, Zenon DEF Effect
    <3>2. <<a, t>> \in db.links
      BY <1>1, <2>2 DEF Accepts, AgentsOf
    <3>3. QED
      BY <3>1, <3>2
  <2>3. QED
    BY <1>1, <2>1, <2>2
<1>4. d = [topics |-> db.topics, links |-> links, given |-> db.given]
  BY <1>2, <1>3
<1>5. links \in SUBSET (Agents \X Topics) /\ \A l \in links : l[2] \in DOMAIN db.topics
  <2>1. \A l \in db.links : l[2] \in DOMAIN db.topics
    BY DEF GoodDb
  <2>2. <<a, t>>[2] = t /\ <<a, t>> \in Agents \X Topics
    OBVIOUS
  <2>3. QED
    BY <1>2, <1>3, <2>1, <2>2
<1>6. GoodDb(d) /\ d.given = db.given /\ d.topics = db.topics
  <2>1. db.given \in SUBSET Topics /\ db.topics \in Partial(Topics, Texts) /\ DOMAIN db.topics \subseteq db.given
    BY <1>2 DEF GoodDb
  <2>2. QED
    BY <1>4, <1>5, <2>1, StaysGood
<1>7. QED
  BY <1>1, <1>6, NothingTold DEF Done

\* What the server does for a request that writes.
LEMMA WritesAre ==
    ASSUME GoodDb(db), NEW at, NEW arg, NEW r, Writes(at, arg, r), Accepts(r), HasId(r), NEW d, d = Effect(r)
    PROVE  Done(at, r, d)
<1>1. CASE at = "save" /\ \E x \in Texts : r = createTopic(x)
  BY <1>1, CreateIs
<1>2. CASE at = "save" /\ \E x \in Texts, t \in Topics : r = updateTopic(t, x)
  BY <1>2, UpdateIs
<1>3. CASE at = "delete" /\ \E t \in Topics : r = deleteTopic(t)
  BY <1>3, DeleteIs
<1>4. CASE /\ at = "toggle"
           /\ \E a \in Agents, t \in Topics : r = addTopicToAgent(a, t) \/ r = removeTopicFromAgent(a, t)
  BY <1>4, LinkIs
<1>5. QED
  BY <1>1, <1>2, <1>3, <1>4 DEF Writes

\* A handler that is answered.
Received(ts, k, r, a) ==
    /\ GoodTasks(ts) /\ \A j \in Slots : j # k => ts[j] = tasks[j]
    /\ ts[k].at = tasks[k].at /\ ts[k].arg = tasks[k].arg /\ ts[k].live = tasks[k].live
    /\ ts[k].sent = tasks[k].sent \ {r}
    /\ DOMAIN ts[k].got = DOMAIN tasks[k].got \cup {r} /\ ts[k].got[r] = a
    /\ \A q \in DOMAIN tasks[k].got : ts[k].got[q] = tasks[k].got[q]
LEMMA ReceiveIs ==
    ASSUME GoodTasks(tasks), NEW k \in Slots, NEW r \in tasks[k].sent, NEW a, GoodAnswer(r, a),
           NEW ts, ts = Receive(tasks, k, r, a)
    PROVE  Received(ts, k, r, a)
<1> DEFINE t == tasks[k]
           n == [t EXCEPT !.sent = @ \ {r}, !.got = With(@, r, a)]
           g == With(t.got, r, a)
<1>1. GoodTask(t) /\ DOMAIN tasks = Slots
  BY DEF GoodTasks
<1>2. /\ t = [at |-> t.at, arg |-> t.arg, sent |-> t.sent, got |-> t.got, live |-> t.live]
      /\ t.live \in BOOLEAN /\ t.sent \cap DOMAIN t.got = {}
      /\ Asks(t.at, t.arg, t.sent \cup DOMAIN t.got)
      /\ \A q \in DOMAIN t.got : GoodAnswer(q, t.got[q])
  BY <1>1, BusyIs
<1>3. DOMAIN ts = Slots /\ ts[k] = n /\ \A j \in Slots : j # k => ts[j] = tasks[j]
  BY <1>1 DEF Receive
<1>4. r \in t.sent
  OBVIOUS
<1> HIDE DEF t
<1>5. DOMAIN g = DOMAIN t.got \cup {r} /\ g[r] = a /\ \A q \in DOMAIN t.got : q # r => g[q] = t.got[q]
  BY DEF With
<1>6. n = [at |-> t.at, arg |-> t.arg, sent |-> t.sent \ {r}, got |-> g, live |-> t.live]
  <2>1. n = [t EXCEPT !.sent = t.sent \ {r}, !.got = g]
    OBVIOUS
  <2> HIDE DEF g, n
  <2>2. QED
    BY <1>2, <2>1
<1> HIDE DEF n, g
<1>7. /\ n.at = t.at /\ n.arg = t.arg /\ n.live = t.live /\ n.sent = t.sent \ {r} /\ n.got = g
      /\ n = [at |-> n.at, arg |-> n.arg, sent |-> n.sent, got |-> n.got, live |-> n.live]
  BY <1>6
<1>8. n.sent \cup DOMAIN n.got = t.sent \cup DOMAIN t.got /\ n.sent \cap DOMAIN n.got = {}
  BY <1>2, <1>4, <1>5, <1>7
<1>9. \A q \in DOMAIN t.got : q # r /\ n.got[q] = t.got[q]
  BY <1>2, <1>4, <1>5, <1>7
<1>10. \A q \in DOMAIN n.got : GoodAnswer(q, n.got[q])
  BY <1>2, <1>5, <1>7, <1>9
<1>11. GoodTask(n)
  <2>1. Asks(n.at, n.arg, n.sent \cup DOMAIN n.got)
    BY <1>2, <1>7, <1>8
  <2>2. QED
    BY <1>2, <1>7, <1>8, <1>10, <2>1 DEF GoodTask
<1>12. GoodTasks(ts)
  BY <1>3, <1>11 DEF GoodTasks
<1>13. QED
  BY <1>3, <1>5, <1>7, <1>9, <1>12 DEF t, Received

\* An answer keeps the types and the spinners, whatever the server has done.
LEMMA AnswerKeeps ==
    ASSUME PageInv, NEW k \in Slots, NEW r, NEW a, Received(tasks', k, r, a),
           UNCHANGED <<url, tab, details, agents>>, GoodDb(db')
    PROVE  TypeInv' /\ SpinInv'
<1>1. \A j \in Slots : tasks'[j].at = tasks[j].at /\ tasks'[j].live = tasks[j].live
  BY DEF Received
<1>2. GoodDb(db)' <=> GoodDb(db')
  BY DEF GoodDb
<1>3. GoodTasks(tasks)'
  BY DEF Received, GoodTasks
<1>4. TypeInv'
  BY <1>2, <1>3 DEF PageInv, TypeInv
<1>5. \A places : Turns(tasks, places)' <=> Turns(tasks, places)
  BY <1>1 DEF Turns
<1>6. SpinInv'
  BY <1>5 DEF PageInv, SpinInv, Spins
<1>7. QED
  BY <1>4, <1>6

\* What is the same of every handler when one is answered.
LEMMA ReceivedIs ==
    ASSUME GoodTasks(tasks), NEW k \in Slots, NEW r \in tasks[k].sent, NEW a, NEW ts, Received(ts, k, r, a), NEW j \in Slots
    PROVE  /\ ts[j].at = tasks[j].at /\ ts[j].arg = tasks[j].arg /\ ts[j].live = tasks[j].live
           /\ Plain(ts[j]) <=> Plain(tasks[j])
           /\ ts[j].sent \cup DOMAIN ts[j].got = tasks[j].sent \cup DOMAIN tasks[j].got
           /\ \A places : Written(tasks[j], places) => Written(ts[j], places)
<1>1. CASE j # k
  BY <1>1 DEF Received
<1>2. CASE j = k
  <2>1. /\ ts[j].at = tasks[j].at /\ ts[j].arg = tasks[j].arg /\ ts[j].live = tasks[j].live
        /\ ts[j].sent = tasks[j].sent \ {r} /\ DOMAIN ts[j].got = DOMAIN tasks[j].got \cup {r}
        /\ r \in tasks[j].sent
    BY <1>2 DEF Received
  <2>2. ts[j].sent \cup DOMAIN ts[j].got = tasks[j].sent \cup DOMAIN tasks[j].got
    BY <2>1
  <2>3. \A places : Written(tasks[j], places) => Written(ts[j], places)
    BY <2>1 DEF Written
  <2>4. QED
    BY <2>1, <2>2, <2>3 DEF Plain
<1>3. QED
  BY <1>1, <1>2

\* A request that changes nothing keeps what a patient user sees.
LEMMA AnswerCalm ==
    ASSUME TypeInv, NEW k \in Slots, NEW r \in tasks[k].sent, NEW a, NEW ts, Received(ts, k, r, a), StillSo(db, r, a),
           Calm(db, tab, url, details, agents, tasks)
    PROVE  Calm(db, tab, url, details, agents, ts)
<1>1. \A j \in Slots :
        /\ ts[j].at = tasks[j].at /\ ts[j].arg = tasks[j].arg /\ ts[j].live = tasks[j].live
        /\ Plain(ts[j]) <=> Plain(tasks[j])
        /\ ts[j].sent \cup DOMAIN ts[j].got = tasks[j].sent \cup DOMAIN tasks[j].got
        /\ \A places : Written(tasks[j], places) => Written(ts[j], places)
  BY ReceivedIs DEF TypeInv
<1>2. Single(tab, url, ts)
  BY <1>1 DEF Calm, Single
<1>3. AnswersHold(db, ts)
  <2> SUFFICES ASSUME NEW j \in Slots, NEW q \in DOMAIN ts[j].got PROVE StillSo(db, q, ts[j].got[q])
    BY DEF AnswersHold
  <2>1. CASE q \in DOMAIN tasks[j].got
    <3>1. ts[j].got[q] = tasks[j].got[q]
      BY <2>1 DEF Received
    <3>2. QED
      BY <2>1, <3>1 DEF Calm, AnswersHold
  <2>2. CASE q \notin DOMAIN tasks[j].got
    <3>1. q = r /\ ts[j].got[q] = a
      BY <2>2 DEF Received
    <3>2. QED
      BY <3>1
  <2>3. QED
    BY <2>1, <2>2
<1>4. ListHolds(db, tab, details, ts) /\ SelectedHolds(db, tab, url, details, ts)
  BY <1>1 DEF Calm, ListHolds, SelectedHolds
<1>5. ExistsStill(db, tab, details, ts) /\ CardsHold(db, tab, url, agents, ts)
  BY <1>1 DEF Calm, ExistsStill, CardsHold
<1>6. \A j \in Slots : Aside(db, url, ts[j])
  BY <1>1 DEF Calm, Aside
<1>7. QED
  BY <1>2, <1>3, <1>4, <1>5, <1>6 DEF Calm

\* A request that writes keeps what a patient user sees: the handler that sent it will
\* show what it has done.
LEMMA WriteCalm ==
    ASSUME TypeInv, NEW k \in Slots, NEW r \in tasks[k].sent, Writes(tasks[k].at, tasks[k].arg, r),
           NEW ts, Received(ts, k, r, Ok(Returns(r))), NEW d, Done(tasks[k].at, r, d),
           Calm(db, tab, url, details, agents, tasks)
    PROVE  Calm(d, tab, url, details, agents, ts)
<1>1. GoodTasks(tasks) /\ GoodTask(tasks[k]) /\ GoodDb(db)
  BY DEF TypeInv, GoodTasks
<1>2. \A j \in Slots :
        /\ ts[j].at = tasks[j].at /\ ts[j].arg = tasks[j].arg /\ ts[j].live = tasks[j].live
        /\ Plain(ts[j]) <=> Plain(tasks[j])
        /\ ts[j].sent \cup DOMAIN ts[j].got = tasks[j].sent \cup DOMAIN tasks[j].got
  BY <1>1, ReceivedIs
<1>3. tasks[k].at \in {"save", "delete", "toggle"} /\ ~Plain(tasks[k]) /\ tasks[k].at # "idle"
  BY DEF Writes, Plain
<1>4. /\ tasks[k].at \in {"save", "delete"} => tab = "details"
      /\ tasks[k].at = "toggle" => tab # "details"
      /\ \A j \in Slots : j # k => tasks[j].at = "idle"
  BY <1>3, PatientTask DEF DetailsPlaces, AgentsPlaces
<1>5. \A j \in Slots : j # k => ts[j].at = "idle" /\ DOMAIN ts[j].got = {} /\ tasks[j].at = "idle" /\ DOMAIN tasks[j].got = {}
  BY <1>1, <1>4, IdleIs DEF Received, GoodTasks
<1>6. DOMAIN tasks[k].got = {}
  <2>1. /\ Asks(tasks[k].at, tasks[k].arg, tasks[k].sent \cup DOMAIN tasks[k].got)
        /\ tasks[k].sent \cap DOMAIN tasks[k].got = {}
    BY <1>1, BusyIs
  <2>2. ~Reads(r)
    <3>1. Reads(r) => r[1] \in {"getAllTopics", "getTopicAgents"}
      BY WordIs DEF Reads
    <3>2. r[1] \notin {"getAllTopics", "getTopicAgents"}
      BY WordIs DEF Writes
    <3>3. QED
      BY <3>1, <3>2
  <2>3. tasks[k].sent \cup DOMAIN tasks[k].got = {r}
    BY <2>1, <2>2, RequestIs
  <2>4. QED
    BY <2>1, <2>3
<1>7. DOMAIN ts[k].got = {r} /\ ts[k].got[r] = Ok(Returns(r)) /\ Written(ts[k], {tasks[k].at})
  BY <1>2, <1>6 DEF Received, Written
<1>8. Single(tab, url, ts)
  BY <1>2 DEF Calm, Single
<1>9. AnswersHold(d, ts)
  BY <1>5, <1>7 DEF AnswersHold, Done
<1>10. url.id \in d.given \cup {None} /\ DOMAIN db.topics \subseteq db.given
  BY <1>1 DEF Done, Calm, GoodDb
<1>11. ListHolds(d, tab, details, ts)
  BY <1>3, <1>4, <1>7 DEF ListHolds, Written
<1>12. SelectedHolds(d, tab, url, details, ts)
  <2>1. CASE tasks[k].at = "save"
    BY <1>7, <2>1 DEF SelectedHolds
  <2>2. CASE tasks[k].at = "toggle"
    BY <1>4, <2>2 DEF SelectedHolds
  <2>3. CASE tasks[k].at = "delete"
    <3>1. DOMAIN d.topics \subseteq DOMAIN db.topics /\ \A t \in DOMAIN d.topics : d.topics[t] = db.topics[t]
      BY <2>3 DEF Done
    <3>2. \A j \in Slots : tasks[j].at # "fetch" /\ ~Written(tasks[j], {"save"})
      BY <1>5, <2>3 DEF Written
    <3>3. ASSUME url.id \in DOMAIN d.topics PROVE details.selected = Found(d.topics, url.id)
      <4>1. details.selected = Found(db.topics, url.id)
        BY <1>4, <2>3, <3>1, <3>2, <3>3 DEF Calm, SelectedHolds
      <4>2. Found(db.topics, url.id) = Found(d.topics, url.id)
        BY <3>1, <3>3 DEF Found
      <4>3. QED
        BY <4>1, <4>2
    <3>4. QED
      BY <3>3 DEF SelectedHolds
  <2>4. QED
    BY <1>3, <2>1, <2>2, <2>3
<1>13. ExistsStill(d, tab, details, ts)
  <2>1. CASE tasks[k].at = "delete"
    BY <1>7, <2>1 DEF ExistsStill
  <2>2. CASE tasks[k].at = "toggle"
    BY <1>4, <2>2 DEF ExistsStill
  <2>3. CASE tasks[k].at = "save"
    <3>1. DOMAIN db.topics \subseteq DOMAIN d.topics
      BY <2>3 DEF Done
    <3>2. \A j \in Slots : ~Written(tasks[j], {"delete"}) /\ tasks[j].at # "fetch"
      BY <1>5, <2>3 DEF Written
    <3>3. tab = "details" => details.selected = None \/ details.selected.id \in DOMAIN db.topics
      BY <3>2 DEF Calm, ExistsStill
    <3>4. QED
      BY <3>1, <3>3 DEF ExistsStill
  <2>4. QED
    BY <1>3, <2>1, <2>2, <2>3
<1>14. CardsHold(d, tab, url, agents, ts)
  <2>1. CASE tasks[k].at = "toggle"
    BY <1>7, <2>1 DEF CardsHold
  <2>2. CASE tasks[k].at # "toggle"
    BY <1>3, <1>4, <2>2 DEF CardsHold
  <2>3. QED
    BY <2>1, <2>2
<1>15. ASSUME NEW j \in Slots PROVE Aside(d, url, ts[j])
  <2>1. CASE j # k
    BY <1>5, <2>1 DEF Aside
  <2>2. CASE j = k /\ tasks[k].at = "save"
    <3>1. ASSUME url.id \notin DOMAIN db.topics PROVE url.id \notin DOMAIN d.topics
      <4>1. \/ \E t \in Topics : t \notin db.given /\ DOMAIN d.topics = DOMAIN db.topics \cup {t}
            \/ DOMAIN d.topics = DOMAIN db.topics
        BY <2>2 DEF Done
      <4>2. url.id \in db.given \cup {None} /\ None \notin Topics
        BY TopicsAssumption DEF Calm
      <4>3. QED
        BY <3>1, <4>1, <4>2
    <3>2. Aside(db, url, tasks[k])
      BY DEF Calm
    <3>3. QED
      BY <1>2, <2>2, <3>1, <3>2 DEF Aside
  <2>3. CASE j = k /\ tasks[k].at # "save"
    BY <1>2, <1>3, <2>3 DEF Aside
  <2>4. QED
    BY <2>1, <2>2, <2>3
<1>16. url.tab \in {None, tab}
  BY DEF Calm
<1>17. QED
  BY <1>8, <1>9, <1>10, <1>11, <1>12, <1>13, <1>14, <1>15, <1>16 DEF Calm

\* Every answer of the server, and every request that does not come through.
LEMMA ServerKeeps ==
    ASSUME PageInv, NEW k \in Slots, NEW r \in tasks[k].sent, Serve(k, r) \/ Fail(k, r)
    PROVE  PageInv'
<1>1. TypeInv /\ GoodDb(db) /\ GoodTasks(tasks) /\ GoodTask(tasks[k])
  BY DEF PageInv, TypeInv, GoodTasks
<1>2. HasId(r) /\ UNCHANGED <<url, tab, details, agents, hasty>>
  BY DEF Serve, Fail, HasId
<1>3. Reads(r) \/ Writes(tasks[k].at, tasks[k].arg, r)
  <2>1. Asks(tasks[k].at, tasks[k].arg, tasks[k].sent \cup DOMAIN tasks[k].got)
    BY <1>1, BusyIs
  <2>2. QED
    BY <2>1, RequestIs
<1>4. CASE Serve(k, r) /\ Accepts(r)
  <2> DEFINE a == Ok(Returns(r))
  <2>1. db' = Effect(r) /\ tasks' = Receive(tasks, k, r, a) /\ UNCHANGED failed
    BY <1>4 DEF Serve
  <2>2. a = Ok(a.data) /\ a.data = Returns(r)
    BY DEF Ok
  <2>3. \/ Reads(r) /\ db' = db /\ Tells(r, Returns(r)) /\ StillSo(db, r, a)
        \/ Writes(tasks[k].at, tasks[k].arg, r) /\ Done(tasks[k].at, r, db')
    BY <1>1, <1>2, <1>3, <1>4, <2>1, AnswersAre, WritesAre
  <2> HIDE DEF a
  <2>4. GoodDb(db') /\ Tells(r, Returns(r))
    BY <1>1, <2>3 DEF Done
  <2>5. GoodAnswer(r, a)
    BY <2>2, <2>4 DEF GoodAnswer
  <2>6. Received(tasks', k, r, a)
    BY <1>1, <2>1, <2>5, ReceiveIs
  <2>7. TypeInv' /\ SpinInv'
    BY <1>2, <2>4, <2>6, AnswerKeeps
  <2>8. ASSUME Calm(db, tab, url, details, agents, tasks) PROVE Calm(db', tab, url, details, agents, tasks')
    BY <1>1, <2>3, <2>6, <2>8, AnswerCalm, WriteCalm DEF a
  <2>9. CalmInv'
    BY <1>2, <2>1, <2>8 DEF PageInv, CalmInv
  <2>10. QED
    BY <2>7, <2>9 DEF PageInv
<1>5. CASE Fail(k, r) \/ ~Accepts(r)
  <2>1. tasks' = Receive(tasks, k, r, Failure) /\ failed' /\ (db' = db \/ (Accepts(r) /\ db' = Effect(r)))
    BY <1>5 DEF Fail, Serve
  <2>2. GoodDb(db')
    <3>1. Accepts(r) => GoodDb(Effect(r))
      BY <1>1, <1>2, <1>3, AnswersAre, WritesAre DEF Done
    <3>2. QED
      BY <1>1, <2>1, <3>1
  <2>3. GoodAnswer(r, Failure)
    BY DEF GoodAnswer
  <2>4. Received(tasks', k, r, Failure)
    BY <1>1, <2>1, <2>3, ReceiveIs
  <2>5. TypeInv' /\ SpinInv'
    BY <1>2, <2>2, <2>4, AnswerKeeps
  <2>6. QED
    BY <2>1, <2>5 DEF PageInv, CalmInv
<1>6. QED
  BY <1>4, <1>5

-----------------------------------------------------------------------------
(* The invariant.                                                          *)

\* The page begins with the tab of the URL and its fetch.
LEMMA InitKeeps ==
    ASSUME Init
    PROVE  PageInv
<1> DEFINE z == [k \in Slots |-> Idle]
           e == EffectOf(tab, url.id)
           texts == [t \in Initially |-> t]
<1>1. /\ db = [topics |-> texts, links |-> {}, given |-> Initially]
      /\ url \in [id : Initially \cup {None}, tab : {None, "agents"}]
      /\ tab = IF url.tab = None THEN "details" ELSE "agents"
      /\ details = NoDetails /\ agents = NoAgents
      /\ tasks = Begin(z, e) /\ ~failed /\ ~hasty
  BY DEF Init
<1>2. Initially \subseteq Topics
  BY TopicsAssumption
<1>3. url \in Urls /\ tab \in PageTabs /\ url.tab \in {None, tab} /\ url.id \in Initially \cup {None} /\ url.id \in Ids
  BY <1>1, <1>2 DEF Urls, Ids, PageTabs
<1>4. DOMAIN z = Slots /\ \A k \in Slots : z[k] = Idle
  OBVIOUS
<1>5. /\ GoodTask(e) /\ e.live /\ DOMAIN e.got = {}
      /\ tab = "details" => e.at = "fetch" /\ e.arg.id = url.id /\ Plain(e)
      /\ tab = "agents" => e.at = "agents" /\ e.arg.id = url.id
  BY <1>3, EffectIs
<1> HIDE DEF z, e, texts
<1>6. Idle.at = "idle" /\ DOMAIN Idle.got = {} /\ GoodTask(Idle)
  BY IdleIs
<1>7. HasRoom(z)
  <2>1. 1 \in Slots
    BY MaxTasksAssumption DEF Slots
  <2>2. QED
    BY <1>4, <1>6, <2>1 DEF HasRoom, Free, Running
<1>8. PICK i \in Slots : DOMAIN tasks = Slots /\ \A k \in Slots : tasks[k] = IF k = i THEN e ELSE Idle
  BY <1>1, <1>4, <1>7, BeginIs
<1>9. texts \in Partial(Topics, Texts) /\ DOMAIN texts = Initially
  <2>1. texts \in [Initially -> Texts] /\ Initially \in SUBSET Topics
    BY <1>2 DEF texts, Texts
  <2>2. QED
    BY <2>1 DEF Partial
<1>10. GoodDb(db) /\ db.given = Initially
  BY <1>1, <1>2, <1>9 DEF GoodDb
<1>11. NoDetails \in DetailsType /\ NoAgents \in AgentsType /\ NoDetails.selected = None
  <2>1. <<>> \in Partial(Topics, Texts)
    <3>1. <<>> \in [{} -> Texts] /\ {} \in SUBSET Topics
      OBVIOUS
    <3>2. QED
      BY <3>1 DEF Partial
  <2>2. QED
    BY <2>1 DEF NoDetails, NoAgents, DetailsType, AgentsType, Ids
<1>12. TypeInv
  <2>1. GoodTasks(tasks)
    BY <1>5, <1>6, <1>8 DEF GoodTasks
  <2>2. QED
    BY <1>1, <1>3, <1>10, <1>11, <2>1 DEF TypeInv
<1>13. SpinInv
  BY <1>5, <1>8 DEF SpinInv, Spins, Turns, AgentsPlaces
<1>14. Calm(db, tab, url, details, agents, tasks)
  <2>1. tasks[i] = e /\ \A k \in Slots : k # i => tasks[k].at = "idle" /\ DOMAIN tasks[k].got = {}
    BY <1>6, <1>8
  <2>2. /\ e.at = "fetch" \/ e.at = "agents"
        /\ e.at \in PlacesOf(tab) /\ e.arg.id = url.id
    BY <1>3, <1>5 DEF PageTabs, PlacesOf, DetailsPlaces, AgentsPlaces
  <2>3. Single(tab, url, tasks)
    BY <1>5, <2>1, <2>2 DEF Single
  <2>4. AnswersHold(db, tasks)
    BY <1>5, <2>1 DEF AnswersHold
  <2>5. ListHolds(db, tab, details, tasks) /\ SelectedHolds(db, tab, url, details, tasks)
    BY <1>5, <2>1 DEF ListHolds, SelectedHolds
  <2>6. ExistsStill(db, tab, details, tasks) /\ CardsHold(db, tab, url, agents, tasks)
    BY <1>1, <1>5, <1>11, <2>1 DEF ExistsStill, CardsHold
  <2>7. \A k \in Slots : Aside(db, url, tasks[k])
    BY <2>1, <2>2 DEF Aside
  <2>8. QED
    BY <1>3, <1>10, <2>3, <2>4, <2>5, <2>6, <2>7 DEF Calm
<1>15. QED
  BY <1>12, <1>13, <1>14 DEF PageInv, CalmInv

\* Every step keeps the invariant.
LEMMA NextKeeps ==
    ASSUME PageInv, [Next]_vars
    PROVE  PageInv'
<1>1. CASE UNCHANGED vars
  <2>1. UNCHANGED <<db, url, tab, details, agents, tasks, failed, hasty>>
    BY <1>1 DEF vars
  <2>2. TypeInv'
    BY <2>1 DEF PageInv, TypeInv, GoodDb, GoodTasks
  <2>3. SpinInv'
    BY <2>1 DEF PageInv, SpinInv, Spins, Turns
  <2>4. CalmInv'
    BY <2>1 DEF PageInv, CalmInv, Calm, Single, AnswersHold, ListHolds, SelectedHolds, ExistsStill, CardsHold, Aside
  <2>5. QED
    BY <2>2, <2>3, <2>4 DEF PageInv
<1>2. ASSUME ClickStep \/ \E u \in [id : db.given \cup {None}, tab : {None, "details", "agents"}] : Back(u)
      PROVE  PageInv'
  BY <1>2, ClicksKeep
<1>3. ASSUME NEW k \in Slots, HandlerStep(k) PROVE PageInv'
  BY <1>3, HandlersKeep
<1>4. ASSUME NEW k \in Slots, NEW r \in tasks[k].sent, Serve(k, r) \/ Fail(k, r) PROVE PageInv'
  BY <1>4, ServerKeeps
<1>5. QED
  BY <1>1, <1>2, <1>3, <1>4 DEF Next, Served

\* What the page promises follows from the invariant.
LEMMA Promises ==
    ASSUME PageInv
    PROVE  TypeOK /\ ShownIsTrue
<1>1. /\ db \in [topics : Partial(Topics, Texts), links : SUBSET (Agents \X Topics), given : SUBSET Topics]
      /\ DOMAIN db.topics \subseteq db.given
      /\ \A l \in db.links : l[2] \in DOMAIN db.topics
  BY DEF PageInv, TypeInv, GoodDb
<1>2. \A t \in DOMAIN db.topics : db.topics[t] \in Texts
  BY <1>1, PartialIs
<1>3. url \in Urls /\ tab \in PageTabs /\ details \in DetailsType /\ agents \in AgentsType
  BY DEF PageInv, TypeInv
<1>4. TypeOK
  <2>1. db.links \subseteq Agents \X Existing
    <3> SUFFICES ASSUME NEW l \in db.links PROVE l \in Agents \X Existing
      OBVIOUS
    <3>1. l \in Agents \X Topics
      BY <1>1
    <3>2. l[2] \in Existing
      BY <1>1 DEF Existing
    <3>3. QED
      BY <3>1, <3>2
  <2>2. Existing \subseteq db.given /\ db.given \subseteq Topics /\ \A t \in Existing : db.topics[t] \in Texts
    BY <1>1, <1>2 DEF Existing
  <2>3. DOMAIN details.topics \subseteq Topics
    BY <1>3, PartialIs DEF DetailsType
  <2>4. /\ details.selected = None \/ details.selected \in [id : Topics, text : Texts]
        /\ details.form = None \/ details.form \in [text : Texts \cup {Blank}]
    BY <1>3 DEF DetailsType, Records
  <2>5. url.id \in Topics \cup {None} /\ tab \in {"details", "agents"} /\ agents.assigned \subseteq Agents
    BY <1>3 DEF Urls, Ids, PageTabs, AgentsType
  <2>6. QED
    BY <2>1, <2>2, <2>3, <2>4, <2>5 DEF TypeOK
<1>5. ShownIsTrue
  <2>1. ASSUME Undisturbed PROVE ShownNow(tab, url, details, agents)
    <3>1. ~hasty /\ ~failed /\ \A k \in Slots : tasks[k].at = "idle"
      BY <2>1 DEF Undisturbed, Quiet, Busy, Running
    <3>2. \A k \in Slots : tasks[k].at = "idle" /\ DOMAIN tasks[k].got = {}
      BY <3>1, IdleIs DEF PageInv, TypeInv, GoodTasks
    <3>3. Calm(db, tab, url, details, agents, tasks)
      BY <3>1 DEF PageInv, CalmInv
    <3>4. QED
      BY <3>2, <3>3, QuietIs
  <2>2. SelectedIsTrue /\ NothingDeletedShown
    BY <2>1 DEF SelectedIsTrue, NothingDeletedShown, ShownNow, Existing
  <2>3. AgentsTabIsTrue
    BY <2>1 DEF AgentsTabIsTrue, ShownNow, Existing, AgentsOf, AgentsIn
  <2>4. QED
    BY <2>2, <2>3 DEF ShownIsTrue
<1>6. QED
  BY <1>4, <1>5

-----------------------------------------------------------------------------
(* The theorems.                                                           *)

\* The inductive invariant: types, spinners with the fetches that stop them, and the calm
\* of a user who waits.
THEOREM PageCorrect == Spec => []PageInv
<1>1. Init => PageInv
  BY InitKeeps
<1>2. PageInv /\ [Next]_vars => PageInv'
  BY NextKeeps
<1>3. QED
  BY <1>1, <1>2, PTL DEF Spec

\* Every variable keeps its type: no topic is saved without a text, only topics that exist
\* have agents, and the tabs show topics and agents, whatever fails and overlaps.
THEOREM TypeCorrect == Spec => []TypeOK
<1>1. PageInv => TypeOK
  BY Promises
<1>2. QED
  BY <1>1, PageCorrect, PTL

\* The list, the topic in the URL and its agents are the server's when nothing runs any
\* more after a patient user's clicks, and no topic that was deleted is shown.
THEOREM ShownCorrect == Spec => []ShownIsTrue
<1>1. PageInv => ShownIsTrue
  BY Promises
<1>2. QED
  BY <1>1, PageCorrect, PTL
=============================================================================
